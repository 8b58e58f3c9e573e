---------------------------- MODULE ValueProofs ----------------------------
(* That the objects of the class value keep apart from each other and are in *)
(* order, for every number of them, every text and every library.            *)
EXTENDS Value, TLAPS

-----------------------------------------------------------------------------
(* operator<                                                                 *)

\* The number a readable content stands for.
Key(c) == CASE c.type = "integer" -> c.data
            [] c.type = "str" -> Number[c.data]
            [] c.type = "ptr" -> 0

Plain(c) == c \in Contents /\ Readable(c)

LEMMA KeyIsRead ==
  ASSUME NEW c, Plain(c)
  PROVE  /\ Key(c) \in Int
         /\ as_int(c) = {Key(c)}
         /\ as_str(c) \in Texts
         /\ c.type \in {"ptr", "str", "integer"}
         /\ c.type = "ptr" => c.data \in Int
<1>1. CASE c.type = "integer"
  <2>1. c.data \in Ints
    BY <1>1 DEF Plain, Contents
  <2>2. Key(c) = c.data /\ as_int(c) = {c.data} /\ as_str(c) = Numeral[c.data]
    BY <1>1 DEF Key, as_int, as_str
  <2> QED
    BY <1>1, <2>1, <2>2, IntAssumption, NumeralAssumption
<1>2. CASE c.type = "str"
  <2>1. c.data \in Texts /\ c.data \notin Blank
    BY <1>2 DEF Plain, Contents, Readable
  <2>2. /\ Key(c) = Number[c.data]
        /\ as_int(c) = {Number[c.data]}
        /\ as_str(c) = c.data
    BY <1>2, <2>1 DEF Key, as_int, as_str, Read
  <2> QED
    BY <1>2, <2>1, <2>2, IntAssumption, NumberAssumption
<1>3. CASE c.type = "ptr"
  <2>1. c.data \in Ptrs
    BY <1>3 DEF Plain, Contents
  <2>2. Key(c) = 0 /\ as_int(c) = {0} /\ as_str(c) = Empty
    BY <1>3 DEF Key, as_int, as_str
  <2>3. c.data \in Nat
    BY <2>1, PtrAssumption
  <2>4. Empty \in Texts
    BY TextAssumption
  <2> QED
    BY <1>3, <2>2, <2>3, <2>4
<1> QED
  BY <1>1, <1>2, <1>3 DEF Plain, Contents

\* Pointers behind the rest, by their value; the rest by number, and what is
\* zero or no number as text.
LEMMA LessIs ==
  ASSUME NEW c, NEW d, Plain(c), Plain(d)
  PROVE  Less(c, d) <=>
           \/ c.type = "ptr" /\ d.type = "ptr" /\ c.data < d.data
           \/ c.type # "ptr" /\ d.type = "ptr"
           \/ /\ c.type # "ptr" /\ d.type # "ptr"
              /\ \/ Key(c) < Key(d)
                 \/ /\ Key(c) = 0 /\ Key(d) = 0
                    /\ <<as_str(c), as_str(d)>> \in Before
<1>1. Less(c, d) <=> less(c, d, Key(c), Key(d))
  BY KeyIsRead, Zenon DEF Less
<1>2. Key(c) \in Int /\ Key(d) \in Int
  BY KeyIsRead
<1> QED
  BY <1>1, <1>2 DEF less

LEMMA Irreflexive ==
  ASSUME NEW c, Plain(c)
  PROVE  ~Less(c, c)
<1>1. /\ Key(c) \in Int /\ as_str(c) \in Texts
      /\ c.type = "ptr" => c.data \in Int
  BY KeyIsRead
<1>2. <<as_str(c), as_str(c)>> \notin Before
  BY <1>1, OrderAssumption
<1>3. ASSUME Less(c, c) PROVE FALSE
  BY <1>1, <1>2, <1>3, LessIs
<1> QED
  BY <1>3

LEMMA Transitive ==
  ASSUME NEW c, NEW d, NEW e, Plain(c), Plain(d), Plain(e),
         Less(c, d), Less(d, e)
  PROVE  Less(c, e)
<1> DEFINE L(x, y) ==
      \/ x.type = "ptr" /\ y.type = "ptr" /\ x.data < y.data
      \/ x.type # "ptr" /\ y.type = "ptr"
      \/ /\ x.type # "ptr" /\ y.type # "ptr"
         /\ \/ Key(x) < Key(y)
            \/ /\ Key(x) = 0 /\ Key(y) = 0
               /\ <<as_str(x), as_str(y)>> \in Before
<1>1. L(c, d) /\ L(d, e)
  BY LessIs
<1>2. \A x \in {c, d, e} : /\ Key(x) \in Int /\ as_str(x) \in Texts
                           /\ x.type = "ptr" => x.data \in Int
  BY KeyIsRead
<1>3. <<as_str(c), as_str(d)>> \in Before /\ <<as_str(d), as_str(e)>> \in Before
        => <<as_str(c), as_str(e)>> \in Before
  BY <1>2, OrderAssumption
<1>4. L(c, e)
  BY <1>1, <1>2, <1>3
<1> QED
  BY <1>4, LessIs

\* Two contents tie when they are the same pointer, or the same number, and
\* the same text where that number is 0.
LEMMA TiesAre ==
  ASSUME NEW c, NEW d, Plain(c), Plain(d)
  PROVE  Ties(c, d) <=>
           \/ c.type = "ptr" /\ d.type = "ptr" /\ c.data = d.data
           \/ /\ c.type # "ptr" /\ d.type # "ptr"
              /\ Key(c) = Key(d)
              /\ Key(c) = 0 => as_str(c) = as_str(d)
<1>1. \A x \in {c, d} : /\ Key(x) \in Int /\ as_str(x) \in Texts
                        /\ x.type = "ptr" => x.data \in Int
  BY KeyIsRead
<1>2. /\ <<as_str(c), as_str(d)>> \notin Before /\ <<as_str(d), as_str(c)>> \notin Before
           <=> as_str(c) = as_str(d)
  BY <1>1, OrderAssumption
<1>3. Ties(c, d) <=> ~Less(c, d) /\ ~Less(d, c)
  BY DEF Ties
<1> QED
  BY <1>1, <1>2, <1>3, LessIs

(* operator< is a strict weak order on all contents that are not blank.      *)
THEOREM OrderIsWeak ==
  ASSUME NEW S, \A c \in S : Plain(c)
  PROVE  WeakOrder(S)
<1>1. \A c \in S : ~Less(c, c)
  BY Irreflexive
<1>2. \A c, d, e \in S : Less(c, d) /\ Less(d, e) => Less(c, e)
  BY Transitive
<1>3. ASSUME NEW c \in S, NEW d \in S, NEW e \in S, Ties(c, d), Ties(d, e)
      PROVE  Ties(c, e)
  BY <1>3, TiesAre
<1> QED
  BY <1>1, <1>2, <1>3 DEF WeakOrder

-----------------------------------------------------------------------------
(* Every accessor and assignment is one of three things: the object drops    *)
(* what it has for a number or a pointer, is given a new string, or writes   *)
(* into the one it has.                                                      *)

Plains == [type : {"integer"}, data : Ints] \cup [type : {"ptr"}, data : Ptrs]
Objects(h) == [type : {"str"}, data : DOMAIN h] \cup Plains

Sound(m) ==
  /\ m = [slot |-> m.slot, heap |-> m.heap]
  /\ m.slot \in [Values -> Objects(m.heap)]
  /\ DOMAIN m.heap \subseteq Addr
  /\ m.heap \in [DOMAIN m.heap -> Texts]
  /\ \A v, w \in Values :
       Has(m, v) /\ Has(m, w) /\ m.slot[v].data = m.slot[w].data => v = w
  /\ \A a \in DOMAIN m.heap : \E v \in Values : Has(m, v) /\ m.slot[v].data = a

\* What has become of m, when v was asked or given something.
Fine(m, n, v) == Sound(n) /\ \A w \in Values \ {v} : View(n, w) = View(m, w)

Drop(m, v, o) ==
  [slot |-> [m.slot EXCEPT ![v] = o],
   heap |-> IF Has(m, v) THEN Deleted(m.heap, m.slot[v].data) ELSE m.heap]

New(m, v, a, t) ==
  [slot |-> [m.slot EXCEPT ![v] = Str(a)], heap |-> Put(m.heap, a, t)]

Write(m, v, t) ==
  [slot |-> m.slot, heap |-> Put(m.heap, m.slot[v].data, t)]

LEMMA ObjectKinds ==
  ASSUME NEW h, NEW o \in Objects(h)
  PROVE  /\ o.type \in {"str", "integer", "ptr"}
         /\ o.type = "str" => o = Str(o.data) /\ o.data \in DOMAIN h
         /\ o.type = "integer" => o = Integer(o.data) /\ o.data \in Ints
         /\ o.type = "ptr" => o = Ptr(o.data) /\ o.data \in Ptrs
         /\ o.type # "str" => o \in Plains
BY DEF Objects, Plains, Str, Integer, Ptr

LEMMA Makes ==
  /\ \A h, a : a \in DOMAIN h => Str(a) \in Objects(h) /\ Str(a).type = "str"
                                /\ Str(a).data = a
  /\ \A i \in Ints : Integer(i) \in Plains
  /\ \A p \in Ptrs : Ptr(p) \in Plains
  /\ \A o \in Plains : o.type # "str" /\ \A h : o \in Objects(h)
  /\ Integer(0) \in Plains /\ Ptr(0) \in Plains
BY IntAssumption, PtrAssumption DEF Objects, Plains, Str, Integer, Ptr

LEMMA DropIsFine ==
  ASSUME NEW m, Sound(m), NEW v \in Values, NEW o \in Plains
  PROVE  Fine(m, Drop(m, v, o), v) /\ View(Drop(m, v, o), v) = o
<1> DEFINE n == Drop(m, v, o)
           b == m.slot[v].data
<1>1. /\ n = [slot |-> n.slot, heap |-> n.heap]
      /\ n.slot = [m.slot EXCEPT ![v] = o]
      /\ n.heap = IF Has(m, v) THEN Deleted(m.heap, b) ELSE m.heap
  BY DEF Drop
<1>2. /\ n.slot[v] = o
      /\ \A w \in Values \ {v} : n.slot[w] = m.slot[w]
  BY <1>1 DEF Sound
<1>3. ~Has(n, v) /\ \A w \in Values \ {v} : Has(n, w) = Has(m, w)
  BY <1>2, Makes DEF Has
<1>4. /\ DOMAIN n.heap = DOMAIN m.heap \ (IF Has(m, v) THEN {b} ELSE {})
      /\ \A a \in DOMAIN n.heap : n.heap[a] = m.heap[a]
      /\ n.heap \in [DOMAIN n.heap -> Texts]
  <2>1. CASE Has(m, v)
    BY <1>1, <2>1 DEF Deleted, Sound
  <2>2. CASE ~Has(m, v)
    BY <1>1, <2>2 DEF Sound
  <2> QED
    BY <2>1, <2>2
<1>5. ASSUME NEW w \in Values \ {v}, Has(m, w)
      PROVE  m.slot[w].data \in DOMAIN n.heap
  <2>1. m.slot[w].data \in DOMAIN m.heap
    BY <1>5, ObjectKinds DEF Sound, Has
  <2>2. Has(m, v) => m.slot[w].data # b
    BY <1>5 DEF Sound
  <2> QED
    BY <2>1, <2>2, <1>4
<1>6. n.slot \in [Values -> Objects(n.heap)]
  <2>1. \A w \in Values : n.slot[w] \in Objects(n.heap)
    <3>1. n.slot[v] \in Objects(n.heap)
      BY <1>2, Makes
    <3>2. ASSUME NEW w \in Values \ {v}
          PROVE  n.slot[w] \in Objects(n.heap)
      <4>1. m.slot[w] \in Objects(m.heap)
        BY DEF Sound
      <4>2. CASE Has(m, w)
        BY <4>1, <4>2, <1>2, <1>5, ObjectKinds, Makes DEF Has
      <4>3. CASE ~Has(m, w)
        BY <4>1, <4>3, <1>2, ObjectKinds, Makes DEF Has
      <4> QED
        BY <4>2, <4>3
    <3> QED
      BY <3>1, <3>2
  <2> QED
    BY <2>1, <1>1 DEF Sound
<1>7. ASSUME NEW a \in DOMAIN n.heap
      PROVE  \E w \in Values : Has(n, w) /\ n.slot[w].data = a
  <2>1. PICK w \in Values : Has(m, w) /\ m.slot[w].data = a
    BY <1>4 DEF Sound
  <2>2. w # v
    BY <2>1, <1>4
  <2> QED
    BY <2>1, <2>2, <1>2, <1>3
<1>8. Sound(n)
  <2>1. \A w, x \in Values :
          Has(n, w) /\ Has(n, x) /\ n.slot[w].data = n.slot[x].data => w = x
    BY <1>2, <1>3 DEF Sound
  <2>2. DOMAIN n.heap \subseteq Addr
    BY <1>4 DEF Sound
  <2> HIDE DEF n
  <2> QED
    BY <2>1, <2>2, <1>1, <1>4, <1>6, <1>7 DEF Sound
<1>9. \A w \in Values \ {v} : View(n, w) = View(m, w)
  BY <1>2, <1>3, <1>4, <1>5 DEF View
<1> QED
  BY <1>2, <1>3, <1>8, <1>9 DEF Fine, View

LEMMA NewIsFine ==
  ASSUME NEW m, Sound(m), NEW v \in Values, ~Has(m, v),
         NEW a \in Addr \ DOMAIN m.heap, NEW t \in Texts
  PROVE  Fine(m, New(m, v, a, t), v) /\ View(New(m, v, a, t), v) = Str(t)
<1> DEFINE n == New(m, v, a, t)
<1>1. /\ n = [slot |-> n.slot, heap |-> n.heap]
      /\ n.slot = [m.slot EXCEPT ![v] = Str(a)]
      /\ n.heap = Put(m.heap, a, t)
  BY DEF New
<1>2. /\ n.slot[v] = Str(a)
      /\ \A w \in Values \ {v} : n.slot[w] = m.slot[w]
  BY <1>1 DEF Sound
<1>3. /\ DOMAIN n.heap = DOMAIN m.heap \cup {a}
      /\ n.heap[a] = t
      /\ \A b \in DOMAIN m.heap : n.heap[b] = m.heap[b]
      /\ n.heap \in [DOMAIN n.heap -> Texts]
  BY <1>1 DEF Put, Sound
<1>4. /\ Has(n, v) /\ n.slot[v].data = a
      /\ \A w \in Values \ {v} : Has(n, w) = Has(m, w)
  BY <1>2, <1>3, Makes DEF Has
<1>5. \A w \in Values : Has(m, w) => m.slot[w].data \in DOMAIN m.heap
  BY ObjectKinds DEF Sound, Has
<1>6. n.slot \in [Values -> Objects(n.heap)]
  <2>1. ASSUME NEW w \in Values PROVE n.slot[w] \in Objects(n.heap)
    <3>1. CASE w = v
      BY <3>1, <1>2, <1>3, Makes
    <3>2. CASE w # v
      <4>1. m.slot[w] \in Objects(m.heap)
        BY DEF Sound
      <4>2. CASE Has(m, w)
        BY <3>2, <4>1, <4>2, <1>2, <1>3, ObjectKinds, Makes DEF Has
      <4>3. CASE ~Has(m, w)
        BY <3>2, <4>1, <4>3, <1>2, ObjectKinds, Makes DEF Has
      <4> QED
        BY <4>2, <4>3
    <3> QED
      BY <3>1, <3>2
  <2> QED
    BY <2>1, <1>1 DEF Sound
<1>7. Sound(n)
  <2>1. \A w, x \in Values :
          Has(n, w) /\ Has(n, x) /\ n.slot[w].data = n.slot[x].data => w = x
    BY <1>2, <1>4, <1>5 DEF Sound
  <2>2. \A b \in DOMAIN n.heap : \E w \in Values : Has(n, w) /\ n.slot[w].data = b
    <3>1. ASSUME NEW b \in DOMAIN m.heap
          PROVE  \E w \in Values : Has(n, w) /\ n.slot[w].data = b
      <4>1. PICK w \in Values : Has(m, w) /\ m.slot[w].data = b
        BY DEF Sound
      <4>2. w # v
        BY <4>1
      <4> QED
        BY <4>1, <4>2, <1>2, <1>4
    <3> QED
      BY <3>1, <1>3, <1>4
  <2>3. DOMAIN n.heap \subseteq Addr
    BY <1>3 DEF Sound
  <2> HIDE DEF n
  <2> QED
    BY <2>1, <2>2, <2>3, <1>1, <1>3, <1>6 DEF Sound
<1>8. \A w \in Values \ {v} : View(n, w) = View(m, w)
  BY <1>2, <1>3, <1>4, <1>5 DEF View
<1> QED
  BY <1>3, <1>4, <1>7, <1>8 DEF Fine, View

LEMMA WriteIsFine ==
  ASSUME NEW m, Sound(m), NEW v \in Values, Has(m, v), NEW t \in Texts
  PROVE  Fine(m, Write(m, v, t), v) /\ View(Write(m, v, t), v) = Str(t)
<1> DEFINE n == Write(m, v, t)
           a == m.slot[v].data
<1>1. /\ n = [slot |-> n.slot, heap |-> n.heap]
      /\ n.slot = m.slot
      /\ n.heap = Put(m.heap, a, t)
  BY DEF Write
<1>2. a \in DOMAIN m.heap
  BY ObjectKinds DEF Sound, Has
<1>3. /\ DOMAIN n.heap = DOMAIN m.heap
      /\ n.heap[a] = t
      /\ \A b \in DOMAIN m.heap \ {a} : n.heap[b] = m.heap[b]
      /\ n.heap \in [DOMAIN n.heap -> Texts]
  BY <1>1, <1>2 DEF Put, Sound
<1>4. \A w \in Values : Has(n, w) = Has(m, w)
  BY <1>1 DEF Has
<1>5. Objects(n.heap) = Objects(m.heap)
  BY <1>3 DEF Objects
<1>6. Sound(n)
  <2> HIDE DEF n
  <2> QED
    BY <1>1, <1>3, <1>4, <1>5 DEF Sound
<1>7. ASSUME NEW w \in Values \ {v} PROVE View(n, w) = View(m, w)
  <2>1. Has(m, w) => m.slot[w].data \in DOMAIN m.heap \ {a}
    BY ObjectKinds DEF Sound, Has
  <2> QED
    BY <2>1, <1>1, <1>3, <1>4 DEF View
<1> QED
  BY <1>1, <1>3, <1>4, <1>6, <1>7 DEF Fine, View

-----------------------------------------------------------------------------
(* Which of the three each accessor and each assignment is.                  *)

LEMMA Kinds ==
  ASSUME NEW m, Sound(m), NEW v \in Values
  PROVE  /\ m.slot[v].type \in {"str", "integer", "ptr"}
         /\ m.slot[v].type = "str" =>
              m.slot[v].data \in DOMAIN m.heap /\ m.heap[m.slot[v].data] \in Texts
         /\ m.slot[v].type = "integer" =>
              m.slot[v] = Integer(m.slot[v].data) /\ m.slot[v].data \in Ints
         /\ m.slot[v].type = "ptr" =>
              m.slot[v] = Ptr(m.slot[v].data) /\ m.slot[v].data \in Ptrs
<1>1. m.slot[v] \in Objects(m.heap)
  BY DEF Sound
<1>2. m.heap \in [DOMAIN m.heap -> Texts]
  BY DEF Sound
<1> QED
  BY <1>1, <1>2, ObjectKinds

LEMMA SlotExcept ==
  ASSUME NEW m, m = [slot |-> m.slot, heap |-> m.heap], NEW v, NEW o
  PROVE  [m EXCEPT !.slot[v] = o]
           = [slot |-> [m.slot EXCEPT ![v] = o], heap |-> m.heap]
OBVIOUS

LEMMA DropAgain ==
  ASSUME NEW m, NEW v, NEW o, NEW p
  PROVE  [Drop(m, v, o) EXCEPT !.slot[v] = p] = Drop(m, v, p)
<1>1. [[m.slot EXCEPT ![v] = o] EXCEPT ![v] = p] = [m.slot EXCEPT ![v] = p]
  OBVIOUS
<1> QED
  BY <1>1 DEF Drop

LEMMA ToPtr ==
  ASSUME NEW m, Sound(m), NEW v \in Values
  PROVE  to_ptr(m, v) = IF m.slot[v].type = "ptr" THEN m ELSE Drop(m, v, Ptr(0))
<1>1. m = [slot |-> m.slot, heap |-> m.heap]
  BY DEF Sound
<1> QED
  BY <1>1, Kinds, SlotExcept DEF to_ptr, Drop, Has

LEMMA Releases ==
  ASSUME NEW m, Sound(m), NEW v \in Values
  PROVE  release(m, v) = Drop(m, v, Integer(0))
<1>1. m = [slot |-> m.slot, heap |-> m.heap]
  BY DEF Sound
<1>2. CASE m.slot[v].type = "ptr"
  BY <1>1, <1>2, ToPtr, SlotExcept DEF release, Drop, Has
<1>3. CASE m.slot[v].type # "ptr"
  BY <1>3, ToPtr, DropAgain DEF release
<1> QED
  BY <1>2, <1>3

LEMMA ToInt ==
  ASSUME NEW m, Sound(m), NEW v \in Values, NEW i
  PROVE  to_int(m, v, i) =
           CASE m.slot[v].type = "integer" -> m
             [] m.slot[v].type = "ptr" -> Drop(m, v, Integer(0))
             [] m.slot[v].type = "str" -> Drop(m, v, Integer(i))
<1>1. m.slot[v].type \in {"str", "integer", "ptr"}
  BY Kinds
<1> QED
  BY <1>1, Releases DEF to_int, Drop, Has

LEMMA SetsPtr ==
  ASSUME NEW m, Sound(m), NEW v \in Values, NEW p
  PROVE  SetPtr(m, v, p) = Drop(m, v, Ptr(p))
<1>1. m = [slot |-> m.slot, heap |-> m.heap]
  BY DEF Sound
<1>2. CASE m.slot[v].type = "ptr"
  BY <1>1, <1>2, ToPtr, SlotExcept DEF SetPtr, Drop, Has
<1>3. CASE m.slot[v].type # "ptr"
  BY <1>3, ToPtr, DropAgain DEF SetPtr
<1> QED
  BY <1>2, <1>3

LEMMA SetsInt ==
  ASSUME NEW m, Sound(m), NEW v \in Values, NEW i, NEW x
  PROVE  SetInt(m, v, i, x) = Drop(m, v, Integer(x))
<1>1. m = [slot |-> m.slot, heap |-> m.heap]
  BY DEF Sound
<1>2. CASE m.slot[v].type = "integer"
  BY <1>1, <1>2, ToInt, SlotExcept DEF SetInt, Drop, Has
<1>3. CASE m.slot[v].type = "ptr"
  BY <1>3, ToInt, DropAgain DEF SetInt
<1>4. CASE m.slot[v].type = "str"
  BY <1>4, ToInt, DropAgain DEF SetInt
<1> QED
  BY <1>2, <1>3, <1>4, Kinds

LEMMA ToStr ==
  ASSUME NEW m, Sound(m), NEW v \in Values, NEW a
  PROVE  to_str(m, v, a) =
           IF Has(m, v) THEN m
           ELSE New(m, v, a, IF m.slot[v].type = "ptr" THEN Empty
                             ELSE Numeral[m.slot[v].data])
<1>1. m.slot[v].type \in {"str", "integer", "ptr"}
  BY Kinds
<1> QED
  BY <1>1 DEF to_str, New, Has

LEMMA SetsStr ==
  ASSUME NEW m, Sound(m), NEW v \in Values, NEW a, a \notin DOMAIN m.heap,
         NEW t
  PROVE  SetStr(m, v, a, t) =
           IF Has(m, v) THEN Write(m, v, t) ELSE New(m, v, a, t)
<1> DEFINE n == to_str(m, v, a)
<1>1. SetStr(m, v, a, t) = [n EXCEPT !.heap = Put(n.heap, n.slot[v].data, t)]
  BY DEF SetStr
<1>2. CASE Has(m, v)
  <2>1. n = m /\ m = [slot |-> m.slot, heap |-> m.heap]
    BY <1>2, ToStr DEF Sound
  <2> QED
    BY <1>1, <1>2, <2>1 DEF Write
<1>3. CASE ~Has(m, v)
  <2>1. PICK u : n = New(m, v, a, u)
    BY <1>3, ToStr
  <2>2. v \in DOMAIN m.slot
    BY DEF Sound
  <2>3. n.slot[v].data = a
    BY <2>1, <2>2 DEF New, Str
  <2>4. Put(n.heap, a, t) = Put(m.heap, a, t)
    BY <2>1 DEF New, Put
  <2> QED
    BY <1>1, <1>3, <2>1, <2>3, <2>4 DEF New
<1> QED
  BY <1>2, <1>3

-----------------------------------------------------------------------------
(* Each operation of the class is sound, and touches one object.             *)

LEMMA StaysFine ==
  ASSUME NEW m, Sound(m), NEW v PROVE Fine(m, m, v)
BY DEF Fine

LEMMA ThenFine ==
  ASSUME NEW m, NEW n, NEW o, NEW v, Fine(m, n, v), Fine(n, o, v)
  PROVE  Fine(m, o, v)
BY DEF Fine

LEMMA Conversions ==
  ASSUME NEW m, Sound(m), NEW v \in Values, NEW i \in Ints,
         NEW a \in Addr \ DOMAIN m.heap
  PROVE  /\ Fine(m, to_int(m, v, i), v)
         /\ Fine(m, to_ptr(m, v), v)
         /\ Fine(m, to_str(m, v, a), v)
         /\ Fine(m, release(m, v), v)
<1>1. Integer(i) \in Plains /\ Integer(0) \in Plains /\ Ptr(0) \in Plains
  BY Makes
<1>2. Fine(m, to_int(m, v, i), v)
  BY <1>1, Kinds, ToInt, DropIsFine, StaysFine
<1>3. Fine(m, to_ptr(m, v), v)
  BY <1>1, ToPtr, DropIsFine, StaysFine
<1>4. Fine(m, to_str(m, v, a), v)
  <2>1. CASE Has(m, v)
    BY <2>1, ToStr, StaysFine
  <2>2. CASE ~Has(m, v)
    <3> DEFINE t == IF m.slot[v].type = "ptr" THEN Empty ELSE Numeral[m.slot[v].data]
    <3>1. t \in Texts
      <4>1. m.slot[v].type # "ptr" => m.slot[v].data \in Ints
        BY <2>2, Kinds DEF Has
      <4> QED
        BY <4>1, TextAssumption, NumeralAssumption
    <3>2. to_str(m, v, a) = New(m, v, a, t)
      BY <2>2, ToStr
    <3> HIDE DEF t
    <3> QED
      BY <2>2, <3>1, <3>2, NewIsFine
  <2> QED
    BY <2>1, <2>2
<1>5. Fine(m, release(m, v), v)
  BY <1>1, Releases, DropIsFine
<1> QED
  BY <1>2, <1>3, <1>4, <1>5

LEMMA Settings ==
  ASSUME NEW m, Sound(m), NEW v \in Values, NEW i, NEW a \in Addr \ DOMAIN m.heap,
         NEW x \in Ints, NEW p \in Ptrs, NEW t \in Texts
  PROVE  /\ Fine(m, SetInt(m, v, i, x), v) /\ View(SetInt(m, v, i, x), v) = Integer(x)
         /\ Fine(m, SetPtr(m, v, p), v) /\ View(SetPtr(m, v, p), v) = Ptr(p)
         /\ Fine(m, SetStr(m, v, a, t), v) /\ View(SetStr(m, v, a, t), v) = Str(t)
<1>1. Integer(x) \in Plains /\ Ptr(p) \in Plains
  BY Makes
<1>2. /\ SetInt(m, v, i, x) = Drop(m, v, Integer(x))
      /\ SetPtr(m, v, p) = Drop(m, v, Ptr(p))
  BY SetsInt, SetsPtr
<1>3. SetStr(m, v, a, t) = IF Has(m, v) THEN Write(m, v, t) ELSE New(m, v, a, t)
  BY SetsStr
<1>4. Has(m, v) => Fine(m, Write(m, v, t), v) /\ View(Write(m, v, t), v) = Str(t)
  BY WriteIsFine
<1>5. ~Has(m, v) => Fine(m, New(m, v, a, t), v) /\ View(New(m, v, a, t), v) = Str(t)
  BY NewIsFine
<1> QED
  BY <1>1, <1>2, <1>3, <1>4, <1>5, DropIsFine

LEMMA Assigning ==
  ASSUME NEW m, Sound(m), NEW v \in Values, NEW w \in Values, NEW i,
         NEW a \in Addr \ DOMAIN m.heap
  PROVE  /\ Fine(m, assign(m, v, w, i, a), v)
         /\ v # w => View(assign(m, v, w, i, a), v) = View(m, w)
<1> DEFINE n == IF m.slot[v].type = "ptr" THEN release(m, v) ELSE m
           c == n.slot[w]
           o == assign(m, v, w, i, a)
<1>1. Integer(0) \in Plains
  BY Makes
<1>2. Fine(m, n, v)
  BY <1>1, Releases, DropIsFine, StaysFine
<1>3. a \in Addr \ DOMAIN n.heap
  <2>1. m.slot[v].type = "ptr" => n.heap = m.heap
    BY Releases DEF Drop, Has
  <2> QED
    BY <2>1
<1>4. o = CASE c.type = "ptr" -> SetPtr(n, v, c.data)
            [] c.type = "integer" -> SetInt(n, v, i, c.data)
            [] c.type = "str" -> SetStr(n, v, a, n.heap[c.data])
  BY DEF assign
<1> HIDE DEF n, o
<1>5. Sound(n)
  BY <1>2 DEF Fine
<1>6. v # w => View(n, w) = View(m, w)
  BY <1>2 DEF Fine
<1>7. Fine(n, o, v) /\ View(o, v) = View(n, w)
  <2>1. CASE c.type = "ptr"
    <3>1. c = Ptr(c.data) /\ c.data \in Ptrs /\ View(n, w) = c
      BY <1>5, <2>1, Kinds DEF View, Has
    <3>2. \A t \in Ptrs : Fine(n, SetPtr(n, v, t), v) /\ View(SetPtr(n, v, t), v) = Ptr(t)
      BY <1>3, <1>5, IntAssumption, TextAssumption, Settings
    <3> QED
      BY <1>4, <2>1, <3>1, <3>2
  <2>2. CASE c.type = "integer"
    <3>1. c = Integer(c.data) /\ c.data \in Ints /\ View(n, w) = c
      BY <1>5, <2>2, Kinds DEF View, Has
    <3>2. \A t \in Ints : /\ Fine(n, SetInt(n, v, i, t), v)
                          /\ View(SetInt(n, v, i, t), v) = Integer(t)
      BY <1>3, <1>5, PtrAssumption, TextAssumption, Settings
    <3> QED
      BY <1>4, <2>2, <3>1, <3>2
  <2>3. CASE c.type = "str"
    <3>1. n.heap[c.data] \in Texts /\ View(n, w) = Str(n.heap[c.data])
      BY <1>5, <2>3, Kinds DEF View, Has
    <3>2. \A t \in Texts : /\ Fine(n, SetStr(n, v, a, t), v)
                           /\ View(SetStr(n, v, a, t), v) = Str(t)
      BY <1>3, <1>5, PtrAssumption, IntAssumption, Settings
    <3> QED
      BY <1>4, <2>3, <3>1, <3>2
  <2> QED
    BY <1>5, <2>1, <2>2, <2>3, Kinds
<1>8. Fine(m, o, v)
  BY <1>2, <1>7, ThenFine
<1> QED
  BY <1>6, <1>7, <1>8 DEF o

-----------------------------------------------------------------------------
(* The invariant.                                                            *)

IInv == Sound(Memory)

LEMMA ViewIsContent ==
  ASSUME NEW v PROVE View(Memory, v) = Content(v) /\ Has(Memory, v) = IsStr(v)
BY DEF View, Content, Memory, Has, IsStr

LEMMA UnreadIsInt ==
  ASSUME IInv, NEW v \in Values PROVE Unread(v) \subseteq Ints
<1>1. IsStr(v) => heap[slot[v].data] \in Texts
  BY Kinds DEF IInv, Memory, IsStr
<1> QED
  BY <1>1, IntAssumption, NumberAssumption DEF Unread, Read, IsStr

LEMMA Initially == Init => IInv
<1> SUFFICES ASSUME Init PROVE IInv
  OBVIOUS
<1>1. /\ slot = [v \in Values |-> Integer(0)] /\ DOMAIN heap = {}
      /\ heap \in [DOMAIN heap -> Texts]
  BY DEF Init
<1>2. \A v \in Values : slot[v] \in Objects(heap) /\ slot[v].type # "str"
  BY <1>1, Makes
<1> QED
  BY <1>1, <1>2 DEF IInv, Sound, Memory, Has

\* Every step is one operation on one object.
LEMMA StepIsFine ==
  ASSUME IInv, NEW v \in Values,
         \/ AsInt(v) \/ AsPtr(v) \/ AsStr(v) \/ Release(v)
         \/ \E x \in Ints : AssignInt(v, x)
         \/ \E p \in Ptrs : AssignPtr(v, p)
         \/ \E t \in Texts : AssignStr(v, t)
         \/ \E w \in Values : Assign(v, w)
  PROVE  Fine(Memory, Memory', v)
<1>1. Sound(Memory) /\ Memory.heap = heap
  BY DEF IInv, Memory
<1>2. \A n : Becomes(n) /\ Fine(Memory, n, v) => Fine(Memory, Memory', v)
  BY DEF Becomes, Memory, Fine, Sound
<1>3. /\ 0 \in Ints /\ 0 \in Ptrs /\ Empty \in Texts
  BY IntAssumption, PtrAssumption, TextAssumption
<1>4. \A i \in Unread(v) : i \in Ints
  BY UnreadIsInt
<1>5. \A a \in Fresh : a \in Addr \ DOMAIN Memory.heap
  BY <1>1 DEF Fresh
<1>6. CASE AsInt(v)
  <2>1. PICK i \in Unread(v) : Becomes(to_int(Memory, v, i))
    BY <1>6 DEF AsInt
  <2>2. Fine(Memory, to_int(Memory, v, i), v)
    BY <1>1, <1>4, Makes, Kinds, ToInt, DropIsFine, StaysFine
  <2> QED
    BY <1>2, <2>1, <2>2
<1>7. CASE AsPtr(v)
  <2>1. Fine(Memory, to_ptr(Memory, v), v)
    BY <1>1, Makes, ToPtr, DropIsFine, StaysFine
  <2> QED
    BY <1>2, <1>7, <2>1 DEF AsPtr
<1>8. CASE AsStr(v)
  <2>1. PICK a \in Fresh : Becomes(to_str(Memory, v, a))
    BY <1>8 DEF AsStr
  <2>2. Fine(Memory, to_str(Memory, v, a), v)
    BY <1>1, <1>3, <1>5, Conversions
  <2> QED
    BY <1>2, <2>1, <2>2
<1>9. CASE Release(v)
  <2>1. Fine(Memory, release(Memory, v), v)
    BY <1>1, Makes, Releases, DropIsFine
  <2> QED
    BY <1>2, <1>9, <2>1 DEF Release
<1>10. CASE \E x \in Ints : AssignInt(v, x)
  <2>1. PICK x \in Ints, i \in Unread(v) : Becomes(SetInt(Memory, v, i, x))
    BY <1>10 DEF AssignInt
  <2>2. Fine(Memory, SetInt(Memory, v, i, x), v)
    BY <1>1, Makes, SetsInt, DropIsFine
  <2> QED
    BY <1>2, <2>1, <2>2
<1>11. CASE \E p \in Ptrs : AssignPtr(v, p)
  <2>1. PICK p \in Ptrs : Becomes(SetPtr(Memory, v, p))
    BY <1>11 DEF AssignPtr
  <2>2. Fine(Memory, SetPtr(Memory, v, p), v)
    BY <1>1, Makes, SetsPtr, DropIsFine
  <2> QED
    BY <1>2, <2>1, <2>2
<1>12. CASE \E t \in Texts : AssignStr(v, t)
  <2>1. PICK t \in Texts, a \in Fresh : Becomes(SetStr(Memory, v, a, t))
    BY <1>12 DEF AssignStr
  <2>2. Fine(Memory, SetStr(Memory, v, a, t), v)
    BY <1>1, <1>3, <1>5, Settings
  <2> QED
    BY <1>2, <2>1, <2>2
<1>13. CASE \E w \in Values : Assign(v, w)
  <2>1. PICK w \in Values, i \in Unread(v), a \in Fresh :
          Becomes(assign(Memory, v, w, i, a))
    BY <1>13 DEF Assign
  <2>2. Fine(Memory, assign(Memory, v, w, i, a), v)
    BY <1>1, <1>5, Assigning
  <2> QED
    BY <1>2, <2>1, <2>2
<1> QED
  BY <1>6, <1>7, <1>8, <1>9, <1>10, <1>11, <1>12, <1>13

LEMMA Kept == IInv /\ [Next]_vars => IInv'
<1> SUFFICES ASSUME IInv, [Next]_vars PROVE IInv'
  OBVIOUS
<1>1. CASE Next
  <2>1. PICK v \in Values : Fine(Memory, Memory', v)
    BY <1>1, StepIsFine DEF Next
  <2>2. Sound(Memory')
    BY <2>1 DEF Fine
  <2> QED
    BY <2>2 DEF IInv, Sound, Has
<1>2. CASE UNCHANGED vars
  <2>1. Memory' = Memory
    BY <1>2 DEF vars, Memory
  <2> QED
    BY <2>1 DEF IInv, Sound, Has
<1> QED
  BY <1>1, <1>2

(* The objects and their strings stay sound through every operation of the   *)
(* class (nscutil_value.cc:30-166).                                          *)
THEOREM Invariance == Spec => []IInv
<1>1. Init => IInv
  BY Initially
<1>2. IInv /\ [Next]_vars => IInv'
  BY Kept
<1> QED
  BY <1>1, <1>2, PTL DEF Spec

(* The type of every object, and its data, are of one kind.                  *)
THEOREM Types == Spec => []TypeOK
<1>1. IInv => TypeOK
  BY DEF IInv, Sound, Memory, Has, TypeOK, Objects, Plains
<1> QED
  BY <1>1, Invariance, PTL

(* Every string has one owner: none is leaked, shared or deleted twice.      *)
THEOREM Owners == Spec => []OneOwner
<1>1. IInv => OneOwner
  BY DEF IInv, Sound, Memory, Has, OneOwner, IsStr
<1> QED
  BY <1>1, Invariance, PTL

(* operator< orders what is held, if none of it is blank.                    *)
THEOREM Orders == Spec => []Ordered
<1>1. IInv => Ordered
  <2> SUFFICES ASSUME IInv PROVE Ordered
    OBVIOUS
  <2>1. ASSUME NEW v \in Values PROVE Content(v) \in Contents
    <3>1. CASE IsStr(v)
      BY <3>1, Kinds DEF IInv, Memory, IsStr, View, Has, Content, Contents, Str
    <3>2. CASE ~IsStr(v)
      <4>1. Content(v) = slot[v]
        BY <3>2 DEF Content, View, Has, Memory, IsStr
      <4>2. \/ slot[v] = Integer(slot[v].data) /\ slot[v].data \in Ints
            \/ slot[v] = Ptr(slot[v].data) /\ slot[v].data \in Ptrs
        BY <3>2, Kinds DEF IInv, Memory, IsStr
      <4> QED
        BY <4>1, <4>2 DEF Contents, Integer, Ptr
    <3> QED
      BY <3>1, <3>2
  <2>2. \A c \in {d \in {Content(v) : v \in Values} : Readable(d)} : Plain(c)
    BY <2>1 DEF Plain
  <2> QED
    BY <2>2, OrderIsWeak DEF Ordered
<1> QED
  BY <1>1, Invariance, PTL

(* What one object is asked for or given changes no other.                   *)
THEOREM Apart == Spec => OthersKept
<1>1. IInv /\ [Next]_vars =>
        [\E v \in Values : \A w \in Values \ {v} : Content(w)' = Content(w)]_vars
  <2> SUFFICES ASSUME IInv, Next
               PROVE \E v \in Values : \A w \in Values \ {v} : Content(w)' = Content(w)
    OBVIOUS
  <2>1. PICK v \in Values : Fine(Memory, Memory', v)
    BY StepIsFine DEF Next
  <2>2. \A w \in Values \ {v} : View(Memory', w) = View(Memory, w)
    BY <2>1 DEF Fine
  <2>3. \A w : View(Memory, w) = Content(w) /\ View(Memory', w) = Content(w)'
    BY DEF View, Content, Memory, Has
  <2> QED
    BY <2>2, <2>3
<1> QED
  BY <1>1, Invariance, PTL DEF Spec, OthersKept

(* What is assigned is equal to what it was assigned from.                   *)
THEOREM Assigns == Spec => []AssignedIsEqual
<1>1. IInv => AssignedIsEqual
  <2> SUFFICES ASSUME IInv, NEW v \in Values, NEW w \in Values, v # w,
                      NEW i \in Unread(v), NEW a \in Fresh
               PROVE View(assign(Memory, v, w, i, a), v) = View(Memory, w)
    BY DEF AssignedIsEqual, Content, equal
  <2>1. Sound(Memory) /\ a \in Addr \ DOMAIN Memory.heap
    BY DEF IInv, Fresh, Memory
  <2> QED
    BY <2>1, Assigning
<1> QED
  BY <1>1, Invariance, PTL

=============================================================================
