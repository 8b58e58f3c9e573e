------------------------------ MODULE Console ------------------------------
(***************************************************************************)
(* What console_handler makes of a line typed: the command it looks for,   *)
(* the pointer it hands to it, and what msg and query make of that.        *)
(* Pointers into the line are suffixes of it; <<>> stands for an empty     *)
(* text, and for the NULL that the helpers give for one.                   *)
(***************************************************************************)
EXTENDS Integers, SequencesExt

Blank == " "
MSG == <<"m", "s", "g">>
QUERY == <<"q", "u", "e", "r", "y">>

From(s, i) == SubSeq(s, i, Len(s))

\* strip_spaces: the blanks in front only.
strip_spaces(s) ==
  LET i == SelectInSeq(s, LAMBDA c : c # Blank)
  IN  IF i = 0 THEN <<>> ELSE From(s, i)

str_to_first_word(s) ==
  LET w == strip_spaces(s)
      i == SelectInSeq(w, LAMBDA c : c = Blank)
  IN  IF i = 0 THEN w ELSE SubSeq(w, 1, i - 1)

\* The handler is given the line from the length of its first word on, which
\* is where the word ends only if no blank was in front of it.
argument(str) == From(str, Len(str_to_first_word(str)) + 1)

Nothing == [to |-> <<>>, text |-> <<>>]

\* Two characters are stepped over: the one before the user's name and the one
\* after as many as the name has.
cmd_user_message(str) ==
  LET rest == From(str, 2)
      user == str_to_first_word(rest)
      text == From(rest, Len(user) + 2)
  IN  IF Len(str) < 2 \/ user = <<>> \/ text = <<>> THEN Nothing
      ELSE [to |-> user, text |-> text]

\* The name that CNX_QUERY gets, <<>> for NULL.
cmd_query(str) == str_to_first_word(str)

\* What is sent for a line typed while q is CNX_QUERY.
sent(str, q) ==
  CASE str_to_first_word(str) = <<>> -> Nothing
    [] str_to_first_word(str) = MSG -> cmd_user_message(argument(str))
    [] str_to_first_word(str) = QUERY -> Nothing
    [] OTHER -> IF q = <<>> THEN Nothing
                ELSE cmd_user_message(<<Blank>> \o q \o <<Blank>> \o str)

\* (mutant: a query is started only if there is none)
queried_first(str, q) ==
  IF str_to_first_word(str) = QUERY /\ q = <<>> THEN cmd_query(argument(str)) ELSE q

queried(str, q) ==
  IF str_to_first_word(str) = QUERY THEN cmd_query(argument(str)) ELSE q
=============================================================================
