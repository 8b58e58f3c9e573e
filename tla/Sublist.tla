------------------------------ MODULE Sublist ------------------------------
(***************************************************************************)
(* What is left of a list when it is searched, shortened or sorted by key.  *)
(***************************************************************************)
EXTENDS SequencesExt

\* The entries of a list that are in S.
Only(list, S) ==
  FoldLeft(LAMBDA kept, e : IF e \in S THEN Append(kept, e) ELSE kept, <<>>, list)
=============================================================================
