------------------------------- MODULE Watch -------------------------------
(***************************************************************************)
(* What ymca.c promises: a set of descriptors is watched, those found      *)
(* ready are each served once, the terminal before the others, and no new  *)
(* ones are looked for until all were.                                     *)
(***************************************************************************)
EXTENDS Naturals

CONSTANT Descriptor  \* 0 is the terminal

VARIABLES watched, due

Init == watched = {} /\ due = {}

Add(f) == watched' = watched \cup {f} /\ UNCHANGED due

Remove(f) == watched' = watched \ {f} /\ UNCHANGED due

Find(R) == /\ due = {} /\ R # {} /\ R \subseteq watched
           /\ due' = R
           /\ UNCHANGED watched

Serve(f) == /\ f \in due /\ (0 \in due => f = 0)
            /\ due' = due \ {f}
            /\ UNCHANGED watched

\* A command served removes a descriptor in the same turn.
ServeAndRemove(f) == /\ 0 \in due
                     /\ due' = due \ {0}
                     /\ watched' = watched \ {f}

Destroy == watched' = {} /\ due' = {}

Next == \/ \E f \in Descriptor : \/ Add(f)
                                 \/ Remove(f)
                                 \/ Serve(f)
                                 \/ ServeAndRemove(f)
        \/ \E R \in SUBSET Descriptor : Find(R)
        \/ Destroy

Spec == Init /\ [][Next]_<<watched, due>>
=============================================================================
