------------------------------- MODULE MCTalk -------------------------------
(* Talk on a small instance. *)
EXTENDS Talk, TLC

\* A msg behind two blanks is a message to g.
Users == {"g", "b"}
Letters == Users \cup {"hi", "x", "n", "dst", "out", "no"}
Pair(forG, forB) == "g" :> forG @@ "b" :> forB

line(pre, mid, to, gap, text) ==
  [pre |-> pre, mid |-> mid, to |-> to, gap |-> gap, text |-> text]
Hi(to) == line(0, 1, to, 1, <<"hi">>)

\* The first fits to the last character; the last two do not fit, and one of
\* them is cut inside an escape.
Texts == {<<"%", "x">>, <<"x", "dst", "=">>, <<"\\", "n">>,
          <<"hi", "x", "x", " ">>, <<"hi", "x", "x", "x", " ">>}

\* g types any line, b is polite.
TypedLines ==
  Pair({Hi("g"), Hi("b"), line(2, 1, "b", 1, <<"hi">>), line(0, 1, "b", 2, <<"hi">>)}
       \cup {line(0, 1, "b", 1, t) : t \in Texts},
       {Hi("g"), Hi("b")})
QueryLines == Pair({[pre |-> 0, name |-> <<>>], [pre |-> 0, name |-> <<"b">>],
                    [pre |-> 1, name |-> <<"b">>]}, {})

\* Away with a message, lock without.
AutoTexts == "away" :> <<"out">> @@ "lock" :> None
FoeText == <<"no">>
FoeLists == {Pair("none", "none"), Pair("none", "answered"),
             Pair("answered", "ignored")}
=============================================================================
