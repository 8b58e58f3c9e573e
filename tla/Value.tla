------------------------------- MODULE Value -------------------------------
(***************************************************************************)
(* The class value of libnscutil (nsc_value.hh, nscutil_value.cc): a union *)
(* of an integer, a string it owns and a pointer it does not, which turns  *)
(* into what it is asked for.  Nothing writes "5" and reads 5 but a        *)
(* conversion; nothing frees a string but one.                             *)
(***************************************************************************)
EXTENDS Integers

CONSTANTS
  Values,   \* the objects of the class
  Addr,     \* where new may put a string
  Ptrs,     \* other addresses, as numbers; 0 is NULL
  Ints,     \* int
  Texts,    \* std::string
  Empty,    \* the string without characters
  Blank,    \* strings of which istringstream reads nothing into its int: those
            \* of blanks, and with an older library those that are no number
  Number,   \* what it reads of the others: 0 of those that are no number
  Numeral,  \* what ostringstream writes for an int
  Before    \* the order of std::string, as pairs

ASSUME PtrAssumption == Ptrs \subseteq Nat /\ 0 \in Ptrs
ASSUME IntAssumption == Ints \subseteq Int /\ 0 \in Ints
ASSUME TextAssumption == Empty \in Texts /\ Empty \in Blank
ASSUME NumberAssumption == Number \in [Texts -> Ints]
ASSUME NumeralAssumption ==
  /\ Numeral \in [Ints -> Texts \ Blank]
  /\ \A i \in Ints : Number[Numeral[i]] = i
ASSUME OrderAssumption ==
  /\ \A s \in Texts : <<s, s>> \notin Before
  /\ \A s, t, u \in Texts :
       <<s, t>> \in Before /\ <<t, u>> \in Before => <<s, u>> \in Before
  /\ \A s, t \in Texts : s = t \/ <<s, t>> \in Before \/ <<t, s>> \in Before

VARIABLES
  slot,  \* of each object my_type_ and my_data_
  heap   \* the strings that were allocated and not deleted

vars == <<slot, heap>>

Str(a) == [type |-> "str", data |-> a]
Integer(i) == [type |-> "integer", data |-> i]
Ptr(p) == [type |-> "ptr", data |-> p]

-----------------------------------------------------------------------------
(* What the const accessors see: the content of an object, with the text in *)
(* the place of the string's address.  m is what there is of objects and    *)
(* strings: [slot, heap].                                                   *)

Contents == [type : {"str"}, data : Texts] \cup [type : {"integer"}, data : Ints]
              \cup [type : {"ptr"}, data : Ptrs]

Has(m, v) == m.slot[v].type = "str"

View(m, v) == IF Has(m, v) THEN Str(m.heap[m.slot[v].data]) ELSE m.slot[v]

Memory == [slot |-> slot, heap |-> heap]

Content(v) == View(Memory, v)

\* What as_int() may give: of a blank text, whatever was in v.
Read(t) == IF t \in Blank THEN Ints ELSE {Number[t]}

as_int(c) ==
  CASE c.type = "integer" -> {c.data}
    [] c.type = "str" -> Read(c.data)
    [] c.type = "ptr" -> {0}

as_str(c) ==
  CASE c.type = "integer" -> Numeral[c.data]
    [] c.type = "str" -> c.data
    [] c.type = "ptr" -> Empty

equal(c, d) == c = d

\* (mutant: texts first, and numbers where one of the two is one)
less_mixed(c, d, i, j) ==
  IF c.type = "str" /\ d.type = "str" THEN <<c.data, d.data>> \in Before
  ELSE IF c.type = "ptr" /\ d.type = "ptr" THEN c.data < d.data
  ELSE d.type = "ptr" \/ (c.type # "ptr" /\ i < j)

\* i and j are what as_int() has given for either.
less(c, d, i, j) ==
  IF c.type = "ptr" /\ d.type = "ptr" THEN c.data < d.data
  ELSE IF d.type = "ptr" THEN TRUE
  ELSE IF c.type = "ptr" THEN FALSE
  ELSE IF i # 0 \/ j # 0 THEN i < j
  ELSE <<as_str(c), as_str(d)>> \in Before

Less(c, d) == \E i \in as_int(c), j \in as_int(d) : less(c, d, i, j)

-----------------------------------------------------------------------------
(* The other accessors change the object into what is asked for.            *)

Deleted(h, a) == [b \in DOMAIN h \ {a} |-> h[b]]
Put(h, a, t) == [b \in DOMAIN h \cup {a} |-> IF b = a THEN t ELSE h[b]]

\* (mutant: the string is forgotten)
to_ptr_leaks(m, v) ==
  IF m.slot[v].type = "ptr" THEN m ELSE [m EXCEPT !.slot[v] = Ptr(0)]

to_ptr(m, v) ==
  CASE m.slot[v].type = "ptr" -> m
    [] m.slot[v].type = "integer" -> [m EXCEPT !.slot[v] = Ptr(0)]
    [] m.slot[v].type = "str" ->
         [slot |-> [m.slot EXCEPT ![v] = Ptr(0)],
          heap |-> Deleted(m.heap, m.slot[v].data)]

release(m, v) == [to_ptr(m, v) EXCEPT !.slot[v] = Integer(0)]

\* (mutant: the type is left)
to_int_untyped(m, v, i) ==
  IF m.slot[v].type = "str"
  THEN [slot |-> [m.slot EXCEPT ![v].data = i],
        heap |-> Deleted(m.heap, m.slot[v].data)]
  ELSE IF m.slot[v].type = "ptr" THEN release(m, v) ELSE m

\* i is what is read, if there is a string to read.
to_int(m, v, i) ==
  CASE m.slot[v].type = "ptr" -> release(m, v)
    [] m.slot[v].type = "integer" -> m
    [] m.slot[v].type = "str" ->
         [slot |-> [m.slot EXCEPT ![v] = Integer(i)],
          heap |-> Deleted(m.heap, m.slot[v].data)]

\* a is where new puts the string, if there is none.
to_str(m, v, a) ==
  CASE m.slot[v].type = "ptr" ->
         [slot |-> [m.slot EXCEPT ![v] = Str(a)], heap |-> Put(m.heap, a, Empty)]
    [] m.slot[v].type = "integer" ->
         [slot |-> [m.slot EXCEPT ![v] = Str(a)],
          heap |-> Put(m.heap, a, Numeral[m.slot[v].data])]
    [] m.slot[v].type = "str" -> m

-----------------------------------------------------------------------------
(* What the accessor returns is a reference, through which = writes.        *)

SetInt(m, v, i, x) == [to_int(m, v, i) EXCEPT !.slot[v] = Integer(x)]

SetPtr(m, v, p) == [to_ptr(m, v) EXCEPT !.slot[v] = Ptr(p)]

\* (mutant: the text is for a new string only)
SetStr_new(m, v, a, t) ==
  IF m.slot[v].type = "str" THEN m
  ELSE [slot |-> [m.slot EXCEPT ![v] = Str(a)], heap |-> Put(m.heap, a, t)]

SetStr(m, v, a, t) ==
  LET n == to_str(m, v, a)
  IN  [n EXCEPT !.heap = Put(n.heap, n.slot[v].data, t)]

\* (mutant: the other object's content is moved)
assign_moves(m, v, w, i, a) ==
  [m EXCEPT !.slot[v] = m.slot[w], !.slot[w] = Integer(0)]

\* operator=(const value&).  A pointer is released first, that of w too if w
\* is the same object.
assign(m, v, w, i, a) ==
  LET n == IF m.slot[v].type = "ptr" THEN release(m, v) ELSE m
      c == n.slot[w]
  IN  CASE c.type = "ptr" -> SetPtr(n, v, c.data)
        [] c.type = "integer" -> SetInt(n, v, i, c.data)
        [] c.type = "str" -> SetStr(n, v, a, n.heap[c.data])

Becomes(m) == slot' = m.slot /\ heap' = m.heap

Unread(v) == IF slot[v].type = "str" THEN Read(heap[slot[v].data]) ELSE {0}

Fresh == Addr \ DOMAIN heap

AsInt(v) == \E i \in Unread(v) : Becomes(to_int(Memory, v, i))
AsPtr(v) == Becomes(to_ptr(Memory, v))
AsStr(v) == \E a \in Fresh : Becomes(to_str(Memory, v, a))
Release(v) == Becomes(release(Memory, v))
AssignInt(v, x) == \E i \in Unread(v) : Becomes(SetInt(Memory, v, i, x))
AssignPtr(v, p) == Becomes(SetPtr(Memory, v, p))
AssignStr(v, t) == \E a \in Fresh : Becomes(SetStr(Memory, v, a, t))
Assign(v, w) ==
  \E i \in Unread(v), a \in Fresh : Becomes(assign(Memory, v, w, i, a))

\* Objects begin as value().
Init ==
  /\ slot = [v \in Values |-> Integer(0)]
  /\ heap = [a \in {} |-> Empty]

Next ==
  \E v \in Values :
    \/ AsInt(v) \/ AsPtr(v) \/ AsStr(v) \/ Release(v)
    \/ \E x \in Ints : AssignInt(v, x)
    \/ \E p \in Ptrs : AssignPtr(v, p)
    \/ \E t \in Texts : AssignStr(v, t)
    \/ \E w \in Values : Assign(v, w)

Spec == Init /\ [][Next]_vars

-----------------------------------------------------------------------------
TypeOK ==
  /\ slot \in [Values -> [type : {"str"}, data : DOMAIN heap]
                         \cup [type : {"integer"}, data : Ints]
                         \cup [type : {"ptr"}, data : Ptrs]]
  /\ DOMAIN heap \subseteq Addr
  /\ heap \in [DOMAIN heap -> Texts]

IsStr(v) == slot[v].type = "str"

(* Each string belongs to one object, and each object's string is there:     *)
(* through all conversions and assignments none is deleted twice, shared or  *)
(* forgotten (nscutil_value.cc:30-166).                                      *)
OneOwner ==
  /\ \A v, w \in Values :
       IsStr(v) /\ IsStr(w) /\ slot[v].data = slot[w].data => v = w
  /\ \A a \in DOMAIN heap : \E v \in Values : IsStr(v) /\ slot[v].data = a

(* An assignment makes the object equal to what it was given, whatever both  *)
(* were before: the release, the conversion and the write through the        *)
(* reference agree (nscutil_value.cc:147-166).  An object that is given      *)
(* itself loses a pointer.                                                   *)
AssignedIsEqual ==
  \A v, w \in Values : v # w =>
    \A i \in Unread(v), a \in Fresh :
      LET n == assign(Memory, v, w, i, a) IN equal(View(n, v), Content(w))

(* What one object is asked for, or is given, changes no other: as_str() and *)
(* as_ptr() return references into the object, and assignments copy strings  *)
(* (nscutil_value.cc:113-166).                                               *)
OthersKept ==
  [][\E v \in Values : \A w \in Values \ {v} : Content(w)' = Content(w)]_vars

Readable(c) == c.type = "str" => c.data \notin Blank

Ties(c, d) == ~Less(c, d) /\ ~Less(d, c)

WeakOrder(S) ==
  /\ \A c \in S : ~Less(c, c)
  /\ \A c, d, e \in S : Less(c, d) /\ Less(d, e) => Less(c, e)
  /\ \A c, d, e \in S : Ties(c, d) /\ Ties(d, e) => Ties(c, e)

(* operator< can order a std::set: numbers, texts that are numbers, texts    *)
(* that are none and pointers fall in one strict weak order, unless a text   *)
(* is blank, of which as_int() gives what was on the stack                   *)
(* (nscutil_value.cc:54-59, 187-201).                                        *)
Ordered == WeakOrder({c \in {Content(v) : v \in Values} : Readable(c)})

=============================================================================
