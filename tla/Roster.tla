------------------------------- MODULE Roster -------------------------------
(***************************************************************************)
(* What nsc_contact.c and the completion of nsc_user.c promise: two lists  *)
(* in the order in which they were typed, shown whole and in that order,   *)
(* and a completion that offers all that fits and nothing else, whatever   *)
(* was shown or completed before.  Contacts implements it.                 *)
(***************************************************************************)
EXTENDS Integers, Sublist

CONSTANTS
  NULL,      \* no message
  Names,     \* of contacts and of people ignored, as sequences of characters
  Messages,  \* what may be typed behind the name of the ignored
  Blank,     \* of these, blanks alone; NULL, another, is nothing at all
  Texts,     \* what may be completed
  Lower,     \* the lower case of each character
  States,    \* the words of status_name, in their order
  Commands   \* the names in commands_list, in their order

VARIABLES
  list,   \* what "contacts" and "ignores" hold
  shown   \* the last list shown, or the last choice offered

NamesOf(l) == [i \in DOMAIN list[l] |-> list[l][i].name]

Same(s, t) ==
  Len(s) = Len(t) /\ \A i \in DOMAIN s : Lower[s[i]] = Lower[t[i]]

\* word begins with text, without regard to case.
Begins(word, text) ==
  Len(text) <= Len(word) /\ Same(SubSeq(word, 1, Len(text)), text)

\* A name that begins with what was typed, except for the first word; failing
\* that, a status, but only one that has been typed to its end; failing that,
\* a command.
Offered(text, start) ==
  LET nicks == Only(NamesOf("contacts"), {w \in Names : Begins(w, text)})
      states == Only(States, {w \in ToSet(States) : Begins(text, w)})
      commands == Only(Commands, {w \in ToSet(Commands) : Begins(w, text)})
  IN  IF start # 0 /\ nicks # <<>> THEN nicks
      ELSE IF start # 0 /\ states # <<>> THEN states ELSE commands

Init == list = [l \in {"contacts", "ignores"} |-> <<>>] /\ shown = <<>>

\* Nobody is listed twice, unless to be ignored with something typed behind
\* the name, of which blanks alone make no message.
Add(l, n, msg) ==
  /\ msg = NULL => \A i \in DOMAIN list[l] : list[l][i].name # n
  /\ list' = [list EXCEPT ![l] =
                Append(@, [name |-> n, message |-> IF msg = Blank THEN NULL ELSE msg])]
  /\ UNCHANGED shown

Forget(l, n) ==
  /\ list' = [list EXCEPT ![l] = Only(@, {e \in ToSet(@) : e.name # n})]
  /\ UNCHANGED shown

Clear == list' = [l \in DOMAIN list |-> <<>>] /\ UNCHANGED shown

Show(l) == shown' = NamesOf(l) /\ UNCHANGED list

Complete(text, start) == shown' = Offered(text, start) /\ UNCHANGED list

Next ==
  \/ \E l \in DOMAIN list :
       \/ Show(l)
       \/ \E n \in Names : \/ Forget(l, n)
                           \/ \E msg \in Messages : Add(l, n, msg)
  \/ Clear
  \/ \E text \in Texts, start \in {0, 1} : Complete(text, start)

Spec == Init /\ [][Next]_<<list, shown>>
=============================================================================
