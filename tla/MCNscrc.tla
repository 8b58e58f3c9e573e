------------------------------ MODULE MCNscrc ------------------------------
(* Nscrc on small instances. *)
EXTENDS Nscrc, TLC

\* No file, and files with doubled lines, numbers that are no port, a name
\* forgotten, or a line behind the end that libnscutil has marked.
Nothing == <<>>
Doubled == <<
  <<"location", "ns", "NULL">>, <<"port", 65537, "NULL">>,
  <<"contact", "bob", "NULL">>, <<"ignore", "bob", "NULL">>,
  <<"contact", "bob", "NULL">>, <<"ignore", "bob", "ns">>,
  <<"ignore", "bob", "NULL">>,  <<"showstatusonlist", "NULL", "NULL">>,
  <<"port", 69778, "NULL">>, <<"away_message", "ns", "NULL">> >>
Nameless == << <<"contact", "", "NULL">>, <<"ignore", "", "NULL">> >>
Behind == << <<"EOC", "NULL", "NULL">>, <<"contact", "bob", "NULL">> >>
\* Lines that the two programs read differently: a blank more in front of a
\* name or of a line, a capital, a key alone.
Strange == {<<" contact", "bob", "NULL">>, <<"ignore", " bob", "NULL">>,
            <<"Port", 80, "NULL">>, <<"set", " showstatusonlist", "NULL">>}
Takes == [l \in Strange |->
  CASE l[1] = "ignore" -> <<"ignore", "bob", "ns">>
    [] l[1] = "Port" -> <<"port", 80, "NULL">>
    [] OTHER -> <<"", "NULL", "NULL">>]
Makes == [l \in Strange |->
  CASE l[1] = "ignore" -> <<"ignore", "bob", "NULL">>
    [] l[1] = "Port" -> l
    [] l[1] = "set" -> <<"showstatusonlist", "NULL", "NULL">>
    [] OTHER -> <<"contact", "bob", "NULL">>]
Byhand == <<
  <<"port", 25, "NULL">>, <<" contact", "bob", "NULL">>, <<"location", " ns", "NULL">>,
  <<"ignore", "bob", "NULL">>, <<"ignore", " bob", "NULL">>, <<"ignore", "bob", "">>,
  <<"Port", 80, "NULL">>, <<"set", " showstatusonlist", "NULL">> >>
Files == {Nothing, Doubled, Nameless, Behind, Byhand}

Trims == [t \in Names \cup Texts |-> IF t = " ns" THEN "ns" ELSE t]

\* bo is what is left of bob, and ( stands for what is left of "(null)".
Left == [t \in Names \cup Texts |->
  CASE t = "" -> {}
    [] t = "bob" -> {"bo", ""}
    [] OTHER -> {""}]

Keys == <<"EOC", "Port", "away_message", "contact", "ignore", "location", "port", "set">>
=============================================================================
