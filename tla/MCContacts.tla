----------------------------- MODULE MCContacts -----------------------------
(* Contacts on a small instance: names that differ in their case, and a      *)
(* status and a command that begin like one of them.                         *)
EXTENDS Contacts, TLC

Low == [c \in {"a", "A", "b", "w"} |-> IF c = "A" THEN "a" ELSE c]
A == <<"A">>
Ab == <<"a", "b">>
Aw == <<"a", "w">>
TheNames == {A, Ab, <<>>}
TheTexts == {<<>>, <<"a">>, <<"a", "w">>, <<"A", "w", "b">>, <<"b">>}
TheStates == << <<"b", "a">>, Aw >>
TheCommands == << <<"b", "w">>, Aw, <<"a", "b", "w">> >>
Cells == Permutations(Cell)
=============================================================================
