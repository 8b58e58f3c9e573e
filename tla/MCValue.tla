------------------------------ MODULE MCValue ------------------------------
(* Value on a small instance: a blank text, two that are no number, and     *)
(* numbers, one of them written in two ways.                                *)
EXTENDS Value, TLC

TheInts == {-1, 0, 5}
TheTexts == {"", "-1", "0", "05", "5", "a"}
TheNumber == [t \in TheTexts |->
  CASE t = "-1" -> -1 [] t \in {"5", "05"} -> 5 [] OTHER -> 0]
TheNumeral == [i \in TheInts |-> ToString(i)]

\* The texts as std::string orders them.
Rank == [t \in TheTexts |->
  CASE t = "" -> 0 [] t = "-1" -> 1 [] t = "0" -> 2 [] t = "05" -> 3
    [] t = "5" -> 4 [] t = "a" -> 5]
TheOrder == {p \in TheTexts \X TheTexts : Rank[p[1]] < Rank[p[2]]}
=============================================================================
