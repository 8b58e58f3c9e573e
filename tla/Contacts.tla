------------------------------ MODULE Contacts ------------------------------
(***************************************************************************)
(* The contact and ignore lists as the linked lists they are (listes.c,    *)
(* nsc_contact.c), their static cursors, and the completion of nsc_user.c, *)
(* which readline asks for one word after the other.                       *)
(***************************************************************************)
EXTENDS Integers, Sublist

CONSTANTS
  Cell,      \* the cells malloc may give
  NULL,
  Names,     \* what is typed as a name: sequences of characters
  Messages,  \* what is typed behind a name to ignore
  Blank,     \* of these, blanks alone; NULL, another, is nothing at all
  Texts,     \* what is typed and completed
  Lower,     \* my_tolower
  States,    \* status_name
  Commands   \* the names in commands_list

ASSUME NullAssumption == NULL \notin Cell /\ NULL \in Messages /\ NULL # Blank
ASSUME WordAssumption ==
  /\ Names \cup Texts \subseteq Seq(DOMAIN Lower)
  /\ {States, Commands} \subseteq Seq(Seq(DOMAIN Lower))

VARIABLES
  mem,     \* what is allocated, and the heads of both lists
  cursor,  \* static temp_char of get_next_contact_list_name and of its twin
  place,   \* static cur and tmp of the other two generators
  by,      \* who is walking a list or an array
  text,    \* what is being completed
  got,     \* what the walk has found so far
  room,    \* bytes that build_accolades_contact_list has allocated
  shown    \* the last list shown or sent, or the last choice offered

vars == <<mem, cursor, place, by, text, got, room, shown>>
walk == <<cursor, place, by, text, got, room, shown>>

Lists == {"contacts", "ignores"}
Arrays == [state |-> States, command |-> Commands]

\* The list each loop over get_next_..._list_name walks.
Walks == [contacts |-> "contacts", build |-> "contacts", nick |-> "contacts",
          ignores |-> "ignores"]

-----------------------------------------------------------------------------
(* listes.c.  m is what is allocated: [head, cell].                         *)

Chain(m, l) ==
  LET n == Cardinality(DOMAIN m.cell)
      at[i \in 1 .. n + 1] ==
        IF i = 1 THEN m.head[l]
        ELSE IF at[i - 1] = NULL THEN NULL ELSE m.cell[at[i - 1]].next
  IN  [i \in 1 .. Cardinality({j \in 1 .. n : at[j] # NULL}) |-> at[i]]

\* At the end of the list, in a cell that malloc gives.
ajout_liste(m, l, c, n, msg) ==
  LET new == [name |-> n, message |-> msg, next |-> NULL]
      all == Chain(m, l)
  IN  [head |-> IF all = <<>> THEN [m.head EXCEPT ![l] = c] ELSE m.head,
       cell |-> [d \in DOMAIN m.cell \cup {c} |->
                   CASE d = c -> new
                     [] all # <<>> /\ d = Last(all) -> [m.cell[d] EXCEPT !.next = c]
                     [] OTHER -> m.cell[d]]]

\* (mutant: what follows el is lost with it)
virer_liste_tail(m, l, el) ==
  [head |-> IF m.head[l] = el THEN [m.head EXCEPT ![l] = NULL] ELSE m.head,
   cell |-> [d \in DOMAIN m.cell \ {el} |->
               IF m.cell[d].next = el THEN [m.cell[d] EXCEPT !.next = NULL]
               ELSE m.cell[d]]]

\* (mutant: the head of the list is left where it was)
virer_liste_head(m, l, el) ==
  [m EXCEPT !.cell = [d \in DOMAIN m.cell \ {el} |->
     IF m.cell[d].next = el THEN [m.cell[d] EXCEPT !.next = m.cell[el].next]
     ELSE m.cell[d]]]

\* Unless el is not in the list.
virer_liste(m, l, el) ==
  LET after == m.cell[el].next
  IN  IF el \notin ToSet(Chain(m, l)) THEN m
      ELSE [head |-> IF m.head[l] = el THEN [m.head EXCEPT ![l] = after] ELSE m.head,
            cell |-> [d \in DOMAIN m.cell \ {el} |->
                        IF m.cell[d].next = el THEN [m.cell[d] EXCEPT !.next = after]
                        ELSE m.cell[d]]]

-----------------------------------------------------------------------------
(* nsc_contact.c.  A name is looked for with what was typed behind it, and  *)
(* found only when nothing was: a blank is enough to list it again.         *)

Named(m, l, n) == Only(Chain(m, l), {c \in DOMAIN m.cell : m.cell[c].name = n})

Found(l, n, msg) == msg = NULL /\ Named(mem, l, n) # <<>>

Idle == by = "nobody"

\* strip_spaces leaves nothing of blanks, and no message is kept.
Stripped(msg) == IF msg = Blank THEN NULL ELSE msg

add(l, n, msg) ==
  /\ Idle
  /\ ~Found(l, n, msg)
  /\ \E c \in Cell \ DOMAIN mem.cell : mem' = ajout_liste(mem, l, c, n, Stripped(msg))
  /\ UNCHANGED walk

\* rem_contact and rem_ignore: until none is found.
rem(l, n) ==
  /\ Idle
  /\ mem' = FoldLeft(LAMBDA m, c : virer_liste(m, l, c), mem, Named(mem, l, n))
  /\ UNCHANGED walk

\* Both flush functions, as nsc_free_configuration calls them.
flush_lists ==
  /\ Idle
  /\ LET left == DOMAIN mem.cell
                   \ UNION {ToSet(Chain(mem, l)) : l \in Lists}
     IN  mem' = [head |-> [l \in Lists |-> NULL],
                 cell |-> [c \in left |-> mem.cell[c]]]
  /\ UNCHANGED walk

get_next(l) ==
  IF cursor[l] = NULL THEN mem.head[l] ELSE mem.cell[cursor[l]].next

\* list_contact, list_ignore, the saving of either list, num_contact_list.
BeginList(l) ==
  /\ Idle
  /\ by' = l
  /\ UNCHANGED <<mem, cursor, place, text, got, room, shown>>

BeginBuild ==
  /\ Idle
  /\ by' = "build"
  /\ room' = 2
  /\ UNCHANGED <<mem, cursor, place, text, got, shown>>

\* The length of what build_accolades_contact_list has made of the names in s:
\* no comma in front of a name while there is but the brace.
Joined(n, w) == (IF n = 1 THEN 1 ELSE n + 1) + Len(w)
Built(s) == FoldLeft(Joined, 1, s)

\* (mutant: no room for the comma)
Grown_tight(w) == Built(got) + Len(w) + 2
Grown(w) == Built(got) + Len(w) + 3

-----------------------------------------------------------------------------
(* nsc_user.c.  completion_matches calls a generator until it gives NULL.   *)

\* my_strncasecmp (s, t, n) == 0
SameStart(s, t, n) ==
  /\ \A i \in 1 .. n : i \in DOMAIN s <=> i \in DOMAIN t
  /\ \A i \in (1 .. n) \cap DOMAIN s : Lower[s[i]] = Lower[t[i]]

\* (mutant: all words compared to their own length)
Fits_own(w) ==
  by \in {"nick", "state", "command"} => SameStart(text, w, Len(w))

\* The states are compared to their own length, not to that of the text.
Fits(w) ==
  CASE by \in {"nick", "command"} -> SameStart(text, w, Len(text))
    [] by = "state" -> SameStart(text, w, Len(w))
    [] OTHER -> TRUE

Take(w) ==
  /\ got' = IF Fits(w) THEN Append(got, w) ELSE got
  /\ room' = IF by = "build" THEN Grown(w) ELSE room
  /\ UNCHANGED <<by, text, shown>>

Return(words) ==
  /\ by' = "nobody" /\ shown' = words
  /\ got' = <<>> /\ text' = <<>> /\ room' = 0

\* The generator, or the loop, has come to NULL.
Ends ==
  IF by \in {"nick", "state"} /\ got = <<>>
  THEN /\ by' = IF by = "nick" THEN "state" ELSE "command"
       /\ UNCHANGED <<got, text, room, shown>>
  ELSE Return(got)

complete(t, start) ==
  /\ Idle
  /\ text' = t
  /\ by' = IF start # 0 THEN "nick" ELSE "command"
  /\ UNCHANGED <<mem, cursor, place, got, room, shown>>

\* (mutant: a walk that ends with the first that fits)
TurnOfList_first ==
  /\ by \in DOMAIN Walks
  /\ LET l == Walks[by]
         c == get_next(l)
     IN  /\ cursor' = [cursor EXCEPT ![l] = c]
         /\ IF c = NULL THEN Ends
            ELSE IF by = "nick" /\ Fits(mem.cell[c].name)
            THEN Return(<<mem.cell[c].name>>)
            ELSE Take(mem.cell[c].name)
  /\ UNCHANGED <<mem, place>>

TurnOfList ==
  /\ by \in DOMAIN Walks
  /\ LET l == Walks[by]
         c == get_next(l)
     IN  /\ cursor' = [cursor EXCEPT ![l] = c]
         /\ IF c = NULL THEN Ends ELSE Take(mem.cell[c].name)
  /\ UNCHANGED <<mem, place>>

TurnOfArray ==
  /\ by \in DOMAIN Arrays
  /\ IF place[by] > Len(Arrays[by])
     THEN place' = [place EXCEPT ![by] = 1] /\ Ends
     ELSE /\ place' = [place EXCEPT ![by] = @ + 1]
          /\ Take(Arrays[by][place[by]])
  /\ UNCHANGED <<mem, cursor>>

-----------------------------------------------------------------------------
Init ==
  /\ mem = [head |-> [l \in Lists |-> NULL], cell |-> [c \in {} |-> NULL]]
  /\ cursor = [l \in Lists |-> NULL]
  /\ place = [a \in DOMAIN Arrays |-> 1]
  /\ by = "nobody" /\ text = <<>>
  /\ got = <<>> /\ room = 0 /\ shown = <<>>

Next ==
  \/ \E n \in Names :
       \/ add("contacts", n, NULL)
       \/ n # <<>> /\ \E msg \in Messages : add("ignores", n, msg)
       \/ \E l \in Lists : rem(l, n)
  \/ flush_lists
  \/ \E l \in Lists : BeginList(l)
  \/ BeginBuild
  \/ \E t \in Texts, start \in {0, 1} : complete(t, start)
  \/ TurnOfList
  \/ TurnOfArray

Spec == Init /\ [][Next]_vars

-----------------------------------------------------------------------------
\* Pointers to a cell are NULL or lead to one that is allocated.
TypeOK ==
  LET Pointer == DOMAIN mem.cell \cup {NULL}
  IN  /\ mem.head \in [Lists -> Pointer]
      /\ DOMAIN mem.cell \subseteq Cell
      /\ \A c \in DOMAIN mem.cell :
           mem.cell[c] \in [name : Names, message : Messages \cup {NULL}, next : Pointer]
      /\ cursor \in [Lists -> Pointer]
      /\ by \in {"nobody"} \cup DOMAIN Walks \cup DOMAIN Arrays
      /\ text \in Texts \cup {<<>>} /\ room \in Nat
      /\ \A a \in DOMAIN Arrays : place[a] \in 1 .. Len(Arrays[a]) + 1

(* No static cursor is left on a cell while nobody walks: a removal may free *)
(* that cell, and the next walk, of whomever, would start from it            *)
(* (nsc_contact.c:176-181).                                                  *)
CursorsRest == Idle => /\ \A l \in Lists : cursor[l] = NULL
                       /\ \A a \in DOMAIN Arrays : place[a] = 1

(* Each cell allocated is in one list, once: removals and flushes free what  *)
(* they take out and lose nothing else (listes.c:58-90, nsc_contact.c:       *)
(* 112-129).                                                                 *)
CellsListed ==
  LET all == Chain(mem, "contacts") \o Chain(mem, "ignores")
  IN  IsInjective(all) /\ ToSet(all) = DOMAIN mem.cell

(* The list between braces, its end included, fits in what was allocated for *)
(* it at the last name (nsc_contact.c:250-262), whatever the names.  Of an   *)
(* empty list only the braces fit, without the NUL.                          *)
BracesFit == by = "build" /\ got # <<>> => Built(got) + 2 <= room

R == INSTANCE Roster WITH
  list <- [l \in Lists |-> LET all == Chain(mem, l) IN
             [i \in DOMAIN all |-> [name |-> mem.cell[all[i]].name,
                                    message |-> mem.cell[all[i]].message]]]

(* The linked lists, their cursors and the generators implement Roster: each *)
(* walk shows its list whole and in order, each completion offers what fits, *)
(* whatever was walked or completed before.                                  *)
RosterSpec == R!Spec

=============================================================================
