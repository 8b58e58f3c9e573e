------------------------------- MODULE MCLoop -------------------------------
(* Loop on small instances. *)
EXTENDS Loop, TLC

TwoFds == {3, 4}

\* A file without a last newline, and an empty one.
Files == {<<>>, <<"a", NL, "a">>}
=============================================================================
