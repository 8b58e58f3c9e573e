--------------------------- MODULE ContactsProofs ---------------------------
(***************************************************************************)
(* Proofs about Contacts: the linked lists and their cursors, whatever the  *)
(* names, however many the cells, the states and the commands.              *)
(***************************************************************************)
EXTENDS Contacts, Recursion, FiniteSetTheorems

-----------------------------------------------------------------------------
(* The cells of a list.                                                     *)

\* s is what the pointers lead to from the head of l, to the end.
Linked(m, l, s) ==
  /\ s \in Seq(DOMAIN m.cell)
  /\ \A i, j \in 1 .. Len(s) : s[i] = s[j] => i = j
  /\ m.head[l] = IF Len(s) = 0 THEN NULL ELSE s[1]
  /\ \A i \in 1 .. Len(s) : m.cell[s[i]].next = IF i = Len(s) THEN NULL ELSE s[i + 1]

LEMMA ChainIs ==
  ASSUME NEW m, NEW l, NEW s, Linked(m, l, s),
         IsFiniteSet(DOMAIN m.cell), NULL \notin DOMAIN m.cell
  PROVE  Chain(m, l) = s
<1> DEFINE D == DOMAIN m.cell
           n == Cardinality(D)
           k == Len(s)
           P(at) == at = [i \in 1 .. n + 1 |->
                            IF i = 1 THEN m.head[l]
                            ELSE IF at[i - 1] = NULL THEN NULL
                            ELSE m.cell[at[i - 1]].next]
           c == CHOOSE at : P(at)
           g == [i \in 1 .. n + 1 |-> IF i <= k THEN s[i] ELSE NULL]
<1>1. /\ k \in Nat /\ s \in [1 .. k -> D]
      /\ \A i, j \in 1 .. k : s[i] = s[j] => i = j
      /\ m.head[l] = IF k = 0 THEN NULL ELSE s[1]
      /\ \A i \in 1 .. k : m.cell[s[i]].next = IF i = k THEN NULL ELSE s[i + 1]
  BY LenProperties DEF Linked
<1>2. n \in Nat
  BY FS_CardinalityType
<1>3. IsFiniteSet(D) /\ NULL \notin D
  OBVIOUS
<1>4. Chain(m, l) = [i \in 1 .. Cardinality({j \in 1 .. n : c[j] # NULL}) |-> c[i]]
  BY DEF Chain
<1>a. n = Cardinality(D)
  OBVIOUS
<1> HIDE DEF D, n, k, g, c, P
<1>b. k <= n
  <2> SUFFICES ASSUME n < k PROVE FALSE
    BY <1>1, <1>2
  <2>1. IsFiniteSet(1 .. k) /\ Cardinality(1 .. k) = k
    <3>1. IsFiniteSet(1 .. k) /\ Cardinality(1 .. k) = IF 1 > k THEN 0 ELSE k - 1 + 1
      <4>1. 1 \in Int /\ k \in Int
        BY <1>1
      <4> QED BY <4>1, FS_Interval, Zenon
    <3> QED BY <1>1, <3>1
  <2>2. Cardinality(D) < Cardinality(1 .. k)
    BY <1>a, <2>1
  <2>3. \E x, y \in 1 .. k : x # y /\ s[x] = s[y]
    BY <1>1, <1>3, <2>1, <2>2, FS_PigeonHole
  <2> QED BY <1>1, <2>3
<1>5. \A i \in 1 .. k : s[i] \in D /\ s[i] # NULL
  BY <1>1, <1>3
<1> USE DEF g, c, P
<1>6. P(g)
  <2>1. ASSUME NEW i \in 1 .. n + 1
        PROVE  (IF i <= k THEN s[i] ELSE NULL)
                 = IF i = 1 THEN m.head[l]
                   ELSE IF g[i - 1] = NULL THEN NULL ELSE m.cell[g[i - 1]].next
    <3>1. CASE i = 1
      BY <1>1, <3>1
    <3>2. CASE i # 1
      <4>1. i - 1 \in 1 .. n + 1 /\ (i - 1) + 1 = i
        BY <1>2, <3>2
      <4>2. CASE i - 1 <= k
        <5>1. g[i - 1] = s[i - 1] /\ i - 1 \in 1 .. k
          BY <1>1, <4>1, <4>2
        <5>2. g[i - 1] # NULL /\ m.cell[g[i - 1]].next = IF i - 1 = k THEN NULL ELSE s[i]
          BY <1>1, <1>5, <4>1, <5>1
        <5> HIDE DEF g
        <5> QED BY <1>1, <3>2, <4>2, <5>2
      <4>3. CASE ~(i - 1 <= k)
        BY <1>1, <3>2, <4>1, <4>3
      <4> QED BY <4>2, <4>3
    <3> QED BY <3>1, <3>2
  <2> QED BY <2>1
<1>7. P(c)
  <2> HIDE DEF P
  <2> QED BY <1>6
<1>8. \A i \in 1 .. n + 1 : c[i] = IF i = 1 THEN m.head[l]
                                   ELSE IF c[i - 1] = NULL THEN NULL
                                   ELSE m.cell[c[i - 1]].next
  <2> HIDE DEF c
  <2> DEFINE h == [i \in 1 .. n + 1 |->
                     IF i = 1 THEN m.head[l]
                     ELSE IF c[i - 1] = NULL THEN NULL
                     ELSE m.cell[c[i - 1]].next]
  <2>1. c = h
    BY <1>7
  <2>2. \A i \in 1 .. n + 1 : h[i] = IF i = 1 THEN m.head[l]
                                     ELSE IF c[i - 1] = NULL THEN NULL
                                     ELSE m.cell[c[i - 1]].next
    OBVIOUS
  <2> HIDE DEF h
  <2> QED BY <2>1, <2>2
<1>9. \A i \in 1 .. n + 1 : g[i] = IF i = 1 THEN m.head[l]
                                   ELSE IF g[i - 1] = NULL THEN NULL
                                   ELSE m.cell[g[i - 1]].next
  <2> HIDE DEF g
  <2> DEFINE h == [i \in 1 .. n + 1 |->
                     IF i = 1 THEN m.head[l]
                     ELSE IF g[i - 1] = NULL THEN NULL
                     ELSE m.cell[g[i - 1]].next]
  <2>1. g = h
    BY <1>6
  <2>2. \A i \in 1 .. n + 1 : h[i] = IF i = 1 THEN m.head[l]
                                     ELSE IF g[i - 1] = NULL THEN NULL
                                     ELSE m.cell[g[i - 1]].next
    OBVIOUS
  <2> HIDE DEF h
  <2> QED BY <2>1, <2>2
<1>10. \A i \in 1 .. n + 1 : c[i] = g[i]
  <2> HIDE DEF c, g, P
  <2> DEFINE T == {i \in 0 .. n + 1 : i = 0 \/ c[i] = g[i]}
  <2>1. 0 \in T
    BY <1>2
  <2>2. ASSUME NEW i \in 1 .. n + 1, i - 1 \in T PROVE i \in T
    <3>1. CASE i = 1
      BY <1>8, <1>9, <3>1
    <3>2. CASE i # 1
      <4>1. c[i - 1] = g[i - 1]
        BY <2>2, <3>2
      <4>2. c[i] = IF c[i - 1] = NULL THEN NULL ELSE m.cell[c[i - 1]].next
        BY <1>8, <3>2
      <4>3. g[i] = IF g[i - 1] = NULL THEN NULL ELSE m.cell[g[i - 1]].next
        BY <1>9, <3>2
      <4>4. c[i] = g[i]
        BY <4>1, <4>2, <4>3
      <4> QED BY <4>4
    <3> QED BY <3>1, <3>2
  <2>3. 0 .. n + 1 \subseteq T
    <3> HIDE DEF T
    <3> QED BY <1>2, <2>1, <2>2, UpTo
  <2> QED BY <2>3
<1>11. {j \in 1 .. n : c[j] # NULL} = 1 .. k
  <2> HIDE DEF c, P
  <2>1. \A j \in 1 .. n : c[j] = IF j <= k THEN s[j] ELSE NULL
    BY <1>2, <1>10
  <2> QED BY <1>1, <1>2, <1>b, <1>5, <2>1
<1>12. Chain(m, l) = [i \in 1 .. k |-> c[i]]
  <2> HIDE DEF c, P
  <2>1. Cardinality(1 .. k) = k
    BY <1>1, FS_Interval
  <2> QED BY <1>4, <1>11, <2>1
<1>13. \A i \in 1 .. k : c[i] = s[i]
  <2> HIDE DEF c, P
  <2>1. \A i \in 1 .. k : i \in 1 .. n + 1 /\ i <= k
    BY <1>1, <1>2, <1>b
  <2> QED BY <1>10, <2>1
<1> QED
  <2> HIDE DEF c, P
  <2> QED BY <1>1, <1>12, <1>13

\* What is allocated: the lists share no cell, and each cell is in one of them.
Apart(f) == \A l, k \in Lists : l # k => \A i \in 1 .. Len(f[l]), j \in 1 .. Len(f[k]) : f[l][i] # f[k][j]
Covered(D, f) == \A c \in D : \E l \in Lists : \E i \in 1 .. Len(f[l]) : f[l][i] = c

Chains(m) == [l \in Lists |-> Chain(m, l)]

Sound(m) ==
  /\ IsFiniteSet(DOMAIN m.cell)
  /\ \A l \in Lists : Linked(m, l, Chains(m)[l])
  /\ Apart(Chains(m)) /\ Covered(DOMAIN m.cell, Chains(m))

CellType == [name : Names, message : Messages, next : Cell \cup {NULL}]
Heap == {m \in [head : [Lists -> Cell \cup {NULL}], cell : UNION {[D -> CellType] : D \in SUBSET Cell}] :
           Sound(m)}

LEMMA SoundBy ==
  ASSUME NEW m, IsFiniteSet(DOMAIN m.cell), NULL \notin DOMAIN m.cell,
         NEW f, DOMAIN f = Lists, f = [l \in Lists |-> f[l]],
         \A l \in Lists : Linked(m, l, f[l]),
         Apart(f), Covered(DOMAIN m.cell, f)
  PROVE  Sound(m) /\ Chains(m) = f
<1>1. \A l \in Lists : Chain(m, l) = f[l]
  BY ChainIs
<1>2. Chains(m) = f
  BY <1>1 DEF Chains
<1> QED
  BY <1>2 DEF Sound

\* One more cell, at the end of a list.
LEMMA AddLinks ==
  ASSUME NEW D, NEW c, c \notin D, NEW s \in Seq(D), NEW m, NEW l, Linked(m, l, s), DOMAIN m.cell = D,
         NEW m2, DOMAIN m2.cell = D \cup {c}, m2.cell[c].next = NULL,
         m2.head[l] = IF Len(s) = 0 THEN c ELSE m.head[l],
         \A d \in D : m2.cell[d].next = IF Len(s) # 0 /\ d = s[Len(s)] THEN c
                                        ELSE m.cell[d].next
  PROVE  Linked(m2, l, Append(s, c))
<1> DEFINE k == Len(s)
           t == Append(s, c)
           E == D \cup {c}
<1>1. /\ k \in Nat /\ \A i \in 1 .. k : s[i] \in D
      /\ \A i, j \in 1 .. k : s[i] = s[j] => i = j
      /\ m.head[l] = IF k = 0 THEN NULL ELSE s[1]
      /\ \A i \in 1 .. k : m.cell[s[i]].next = IF i = k THEN NULL ELSE s[i + 1]
  BY LenProperties, ElementOfSeq DEF Linked
<1>2. /\ t \in Seq(E) /\ Len(t) = k + 1 /\ t[k + 1] = c
      /\ \A i \in 1 .. k : t[i] = s[i]
  <2>1. s \in Seq(E) /\ c \in E
    BY SeqMonotonic
  <2> QED BY <2>1, AppendProperties
<1>3. /\ m2.head[l] = IF k = 0 THEN c ELSE m.head[l]
      /\ \A d \in D : m2.cell[d].next = IF k # 0 /\ d = s[k] THEN c ELSE m.cell[d].next
  OBVIOUS
<1> HIDE DEF k, t
<1>4. \A i, j \in 1 .. k + 1 : t[i] = t[j] => i = j
  <2> SUFFICES ASSUME NEW i \in 1 .. k + 1, NEW j \in 1 .. k + 1, t[i] = t[j] PROVE i = j
    OBVIOUS
  <2>1. \A n \in 1 .. k + 1 : n \in 1 .. k \/ n = k + 1
    BY <1>1
  <2> QED BY <1>1, <1>2, <2>1
<1>5. m2.head[l] = t[1]
  <2>1. k # 0 => 1 \in 1 .. k
    BY <1>1
  <2>2. k = 0 => t[1] = c
    BY <1>2
  <2> QED BY <1>1, <1>2, <1>3, <2>1, <2>2
<1>6. ASSUME NEW i \in 1 .. k + 1
      PROVE  m2.cell[t[i]].next = IF i = k + 1 THEN NULL ELSE t[i + 1]
  <2>1. CASE i = k + 1
    BY <1>2, <2>1
  <2>2. CASE i = k /\ i # k + 1
    <3>1. k # 0 /\ i \in 1 .. k /\ s[i] \in D
      BY <1>1, <2>2
    <3> QED BY <1>2, <1>3, <2>2, <3>1
  <2>3. CASE i # k + 1 /\ i # k
    <3>1. i \in 1 .. k /\ i + 1 \in 1 .. k /\ k \in 1 .. k
      BY <1>1, <2>3
    <3>2. s[i] # s[k] /\ s[i] \in D
      BY <1>1, <2>3, <3>1
    <3>3. m2.cell[s[i]].next = m.cell[s[i]].next
      BY <1>3, <3>2
    <3>4. m.cell[s[i]].next = s[i + 1]
      BY <1>1, <2>3, <3>1
    <3>5. t[i] = s[i] /\ t[i + 1] = s[i + 1]
      BY <1>2, <3>1
    <3> QED BY <2>3, <3>3, <3>4, <3>5
  <2> QED BY <2>1, <2>2, <2>3
<1>7. Len(t) # 0
  BY <1>1, <1>2
<1> QED
  BY <1>2, <1>4, <1>5, <1>6, <1>7 DEF Linked, t

\* The other list, of which no cell is touched.
LEMMA SameLinks ==
  ASSUME NEW m, NEW l, NEW s, Linked(m, l, s),
         NEW m2, m2.head[l] = m.head[l],
         \A i \in 1 .. Len(s) : s[i] \in DOMAIN m2.cell /\ m2.cell[s[i]].next = m.cell[s[i]].next
  PROVE  Linked(m2, l, s)
<1> DEFINE E == DOMAIN m2.cell
           k == Len(s)
<1>1. s \in Seq(DOMAIN m.cell) /\ k \in Nat
  BY LenProperties DEF Linked
<1>2. s \in Seq(E)
  <2>1. \A i \in 1 .. k : s[i] \in E
    OBVIOUS
  <2>2. DOMAIN s = 1 .. k /\ s = [i \in 1 .. k |-> s[i]]
    BY <1>1, LenProperties
  <2> HIDE DEF E, k
  <2> QED BY <1>1, <2>1, <2>2
<1> QED
  BY <1>2 DEF Linked

LEMMA OnlyAll ==
  ASSUME NEW A, NEW S, NEW s \in Seq(A), \A i \in 1 .. Len(s) : s[i] \in S
  PROVE  Only(s, S) = s
<1> DEFINE G(r) == \A i \in 1 .. Len(r) : r[i] \in S
           U == {r \in Seq(A) : G(r) => Only(r, S) = r}
<1>1. <<>> \in U
  BY OnlyNone, EmptySeq
<1>2. ASSUME NEW r \in Seq(A), r \in U, NEW x \in A PROVE Append(r, x) \in U
  <2> DEFINE t == Append(r, x)
  <2>1. /\ t \in Seq(A) /\ Len(t) = Len(r) + 1 /\ Len(r) \in Nat /\ t[Len(r) + 1] = x
        /\ \A i \in 1 .. Len(r) : t[i] = r[i] /\ i \in 1 .. Len(r) + 1
    BY AppendProperties, LenProperties
  <2> HIDE DEF t
  <2>2. Len(r) + 1 \in 1 .. Len(t)
    BY <2>1
  <2>3. ASSUME G(t) PROVE Only(t, S) = t
    <3>1. G(r) /\ x \in S
      BY <2>1, <2>2, <2>3
    <3>2. Only(r, S) = r
      BY <1>2, <3>1
    <3>3. Only(t, S) = IF x \in S THEN Append(Only(r, S), x) ELSE Only(r, S)
      BY <1>2, OnlyMore DEF t
    <3> QED BY <3>1, <3>2, <3>3 DEF t
  <2> QED BY <2>1, <2>3 DEF t
<1>3. Seq(A) \subseteq U
  <2> HIDE DEF U
  <2> QED BY <1>1, <1>2, SeqAll
<1> QED BY <1>3

\* A list without its k-th cell.
Cut(s, k) == [i \in 1 .. Len(s) - 1 |-> IF i < k THEN s[i] ELSE s[i + 1]]

LEMMA CutType ==
  ASSUME NEW A, NEW s \in Seq(A), NEW k \in 1 .. Len(s)
  PROVE  /\ Cut(s, k) \in Seq(A) /\ Len(Cut(s, k)) = Len(s) - 1 /\ Len(s) \in Nat
         /\ \A i \in 1 .. Len(s) - 1 : Cut(s, k)[i] = IF i < k THEN s[i] ELSE s[i + 1]
<1> DEFINE n == Len(s)
<1>1. n \in Nat /\ n - 1 \in Nat /\ k \in 1 .. n /\ \A i \in 1 .. n : s[i] \in A
  BY LenProperties, ElementOfSeq
<1>2. Cut(s, k) = [i \in 1 .. n - 1 |-> IF i < k THEN s[i] ELSE s[i + 1]]
  BY DEF Cut
<1> HIDE DEF n
<1>3. \A i \in 1 .. n - 1 : i \in 1 .. n /\ i + 1 \in 1 .. n
  BY <1>1
<1>4. \A i \in 1 .. n - 1 : (IF i < k THEN s[i] ELSE s[i + 1]) \in A
  BY <1>1, <1>3
<1> QED BY <1>1, <1>2, <1>4 DEF n

LEMMA CutOnly ==
  ASSUME NEW A, NEW s \in Seq(A), \A i, j \in 1 .. Len(s) : s[i] = s[j] => i = j,
         NEW k \in 1 .. Len(s)
  PROVE  Only(s, A \ {s[k]}) = Cut(s, k)
<1> DEFINE G(r) == \A i, j \in 1 .. Len(r) : r[i] = r[j] => i = j
           H(r) == \A h \in 1 .. Len(r) : Only(r, A \ {r[h]}) = Cut(r, h)
           U == {r \in Seq(A) : G(r) => H(r)}
<1>1. <<>> \in U
  BY EmptySeq
<1>2. ASSUME NEW r \in Seq(A), r \in U, NEW x \in A PROVE Append(r, x) \in U
  <2> DEFINE t == Append(r, x)
             n == Len(r)
  <2>1. /\ t \in Seq(A) /\ Len(t) = n + 1 /\ n \in Nat /\ t[n + 1] = x
        /\ \A i \in 1 .. n : t[i] = r[i] /\ i \in 1 .. n + 1
    BY AppendProperties, LenProperties
  <2>2. \A i \in 1 .. n : r[i] \in A
    BY ElementOfSeq
  <2> SUFFICES ASSUME G(t), NEW h \in 1 .. Len(t) PROVE Only(t, A \ {t[h]}) = Cut(t, h)
    BY <2>1
  <2>3. G(r) /\ \A i \in 1 .. n : x # r[i]
    <3> HIDE DEF t, n
    <3>1. n + 1 \in 1 .. Len(t)
      BY <2>1
    <3>2. \A i \in 1 .. n : i # n + 1
      BY <2>1
    <3>3. \A i \in 1 .. n : i \in 1 .. Len(t)
      BY <2>1
    <3>4. \A i \in 1 .. n : x # r[i]
      BY <2>1, <3>1, <3>2, <3>3
    <3>5. \A i, j \in 1 .. n : r[i] = r[j] => i = j
      BY <2>1, <3>3
    <3> QED BY <3>4, <3>5 DEF n
  <2>4. /\ Cut(t, h) \in Seq(A) /\ Len(Cut(t, h)) = n
        /\ \A i \in 1 .. n : Cut(t, h)[i] = IF i < h THEN t[i] ELSE t[i + 1]
    <3>1. \A v \in Seq(A) : \A w \in 1 .. Len(v) :
            /\ Cut(v, w) \in Seq(A) /\ Len(Cut(v, w)) = Len(v) - 1
            /\ \A i \in 1 .. Len(v) - 1 : Cut(v, w)[i] = IF i < w THEN v[i] ELSE v[i + 1]
      BY CutType
    <3> HIDE DEF t, n
    <3>2. Len(t) - 1 = n
      BY <2>1
    <3> QED BY <2>1, <3>1, <3>2
  <2>5. CASE h = n + 1
    <3>1. Only(t, A \ {x}) = Only(r, A \ {x})
      <4>1. x \notin A \ {x}
        OBVIOUS
      <4> QED BY <4>1, OnlyMore
    <3>2. Only(r, A \ {x}) = r
      <4> DEFINE S == A \ {x}
      <4>1. \A i \in 1 .. Len(r) : r[i] \in S
        BY <2>2, <2>3
      <4> HIDE DEF S
      <4> QED BY <4>1, OnlyAll
    <3>3. Cut(t, h) = r
      <4> DEFINE c == Cut(t, h)
      <4>1. c \in Seq(A) /\ Len(c) = n /\ \A i \in 1 .. n : c[i] = IF i < h THEN t[i] ELSE t[i + 1]
        BY <2>4
      <4> HIDE DEF c, t
      <4>2. \A i \in 1 .. n : c[i] = r[i]
        BY <2>1, <2>5, <4>1
      <4> HIDE DEF n
      <4>3. Len(r) = n
        BY DEF n
      <4>4. c = r
        BY <4>1, <4>2, <4>3, SeqEqual
      <4> QED BY <4>4 DEF c
    <3>4. t[h] = x
      BY <2>1, <2>5
    <3> QED BY <3>1, <3>2, <3>3, <3>4
  <2>6. CASE h # n + 1
    <3>1. h \in 1 .. n /\ t[h] = r[h]
      BY <2>1, <2>6
    <3>2. Only(t, A \ {r[h]}) = Append(Only(r, A \ {r[h]}), x)
      <4> DEFINE S == A \ {r[h]}
      <4>1. x \in S
        BY <2>3, <3>1
      <4> HIDE DEF S
      <4>2. Only(t, S) = IF x \in S THEN Append(Only(r, S), x) ELSE Only(r, S)
        BY OnlyMore
      <4> HIDE DEF t
      <4>3. Only(t, S) = Append(Only(r, S), x)
        BY <4>1, <4>2
      <4> QED BY <4>3 DEF S
    <3>3. Only(r, A \ {r[h]}) = Cut(r, h)
      BY <1>2, <2>3, <3>1
    <3>4. Cut(t, h) = Append(Cut(r, h), x)
      <4> DEFINE c == Cut(t, h)
                 b == Cut(r, h)
                 e == Append(b, x)
      <4>1. c \in Seq(A) /\ Len(c) = n /\ \A i \in 1 .. n : c[i] = IF i < h THEN t[i] ELSE t[i + 1]
        BY <2>4
      <4>2. /\ b \in Seq(A) /\ Len(b) = n - 1
            /\ \A i \in 1 .. n - 1 : b[i] = IF i < h THEN r[i] ELSE r[i + 1]
        BY <3>1, CutType
      <4>3. /\ e \in Seq(A) /\ Len(e) = Len(b) + 1 /\ e[Len(b) + 1] = x
            /\ \A i \in 1 .. Len(b) : e[i] = b[i]
        BY <4>2, AppendProperties
      <4> HIDE DEF c, b, e, t, n
      <4>4. Len(b) + 1 = n /\ Len(e) = n
        BY <2>1, <4>2, <4>3
      <4>5. ASSUME NEW i \in 1 .. n PROVE c[i] = e[i]
        <5>1. CASE i = n
          <6>1. c[i] = t[n + 1]
            BY <2>1, <3>1, <4>1, <5>1
          <6> QED BY <2>1, <4>3, <4>4, <5>1, <6>1
        <5>2. CASE i # n
          <6>1. i \in 1 .. n - 1 /\ i + 1 \in 1 .. n /\ i \in 1 .. Len(b)
            BY <2>1, <4>4, <5>2
          <6>2. t[i] = r[i] /\ t[i + 1] = r[i + 1]
            BY <2>1, <6>1
          <6>3. e[i] = b[i]
            BY <4>3, <6>1
          <6> QED BY <4>1, <4>2, <6>1, <6>2, <6>3
        <5> QED BY <5>1, <5>2
      <4>6. c = e
        BY <4>1, <4>3, <4>4, <4>5, SeqEqual
      <4> QED BY <4>6 DEF c, b, e
    <3> QED BY <3>1, <3>2, <3>3, <3>4
  <2> QED BY <2>5, <2>6
<1>3. Seq(A) \subseteq U
  <2> HIDE DEF U
  <2> QED BY <1>1, <1>2, SeqAll
<1> QED BY <1>3

\* The k-th cell is taken out.
LEMMA CutLinks ==
  ASSUME NEW D, NULL \notin D, NEW s \in Seq(D), NEW m, NEW l, Linked(m, l, s),
         NEW k \in 1 .. Len(s), NEW el, el = s[k],
         NEW m2, DOMAIN m2.cell = D \ {el},
         m2.head[l] = IF m.head[l] = el THEN m.cell[el].next ELSE m.head[l],
         \A d \in D \ {el} : m2.cell[d].next = IF m.cell[d].next = el THEN m.cell[el].next
                                               ELSE m.cell[d].next
  PROVE  Linked(m2, l, Cut(s, k))
<1> DEFINE n == Len(s)
           r == Cut(s, k)
           E == D \ {el}
<1>1. /\ n \in Nat /\ k \in 1 .. n /\ \A i \in 1 .. n : s[i] \in D /\ s[i] # NULL
      /\ \A i, j \in 1 .. n : s[i] = s[j] => i = j
      /\ m.head[l] = IF n = 0 THEN NULL ELSE s[1]
      /\ \A i \in 1 .. n : m.cell[s[i]].next = IF i = n THEN NULL ELSE s[i + 1]
  BY LenProperties, ElementOfSeq DEF Linked
<1>2. /\ r \in Seq(D) /\ Len(r) = n - 1
      /\ \A i \in 1 .. n - 1 : r[i] = IF i < k THEN s[i] ELSE s[i + 1]
  BY CutType
<1>3. /\ m2.head[l] = IF m.head[l] = el THEN m.cell[el].next ELSE m.head[l]
      /\ \A d \in E : m2.cell[d].next = IF m.cell[d].next = el THEN m.cell[el].next
                                        ELSE m.cell[d].next
  OBVIOUS
<1> DEFINE at(i) == IF i < k THEN i ELSE i + 1
<1>4. ASSUME NEW i \in 1 .. n - 1
      PROVE  at(i) \in 1 .. n /\ at(i) # k /\ r[i] = s[at(i)] /\ r[i] \in E
  <2> HIDE DEF n, r
  <2>1. at(i) \in 1 .. n /\ at(i) # k /\ r[i] = s[at(i)]
    BY <1>1, <1>2
  <2> HIDE DEF at
  <2> QED BY <1>1, <2>1
<1> HIDE DEF n, r, E
<1>5. r \in Seq(E)
  <2>1. r = [i \in 1 .. n - 1 |-> r[i]]
    BY <1>2, LenProperties
  <2>2. n - 1 \in Nat
    BY <1>1
  <2> HIDE DEF at
  <2>3. \A i \in 1 .. n - 1 : r[i] \in E
    BY <1>4
  <2> QED BY <2>1, <2>2, <2>3
<1>6. ASSUME NEW i \in 1 .. n - 1, NEW j \in 1 .. n - 1, r[i] = r[j] PROVE i = j
  <2>1. at(i) = at(j)
    <3>1. at(i) \in 1 .. n /\ r[i] = s[at(i)]
      BY <1>4
    <3>2. at(j) \in 1 .. n /\ r[j] = s[at(j)]
      BY <1>4
    <3> DEFINE x == at(i)
               y == at(j)
    <3> HIDE DEF at, x, y
    <3>3. x \in 1 .. n /\ y \in 1 .. n /\ s[x] = s[y]
      BY <1>6, <3>1, <3>2 DEF x, y
    <3>4. x = y
      BY <1>1, <3>3
    <3> QED BY <3>4 DEF x, y
  <2> QED BY <1>1, <2>1
<1>7. m2.head[l] = IF n - 1 = 0 THEN NULL ELSE r[1]
  <2>0. 1 \in 1 .. n /\ m.head[l] = s[1]
    BY <1>1
  <2>1. CASE k = 1
    <3>1. m2.head[l] = m.cell[s[1]].next
      BY <1>3, <2>0, <2>1
    <3>2. n # 1 => r[1] = s[2]
      BY <1>1, <1>2, <2>1
    <3> QED BY <1>1, <2>0, <3>1, <3>2
  <2>2. CASE k # 1
    <3>1. s[1] # el
      BY <1>1, <2>0, <2>2
    <3>2. n - 1 # 0 /\ r[1] = s[1]
      BY <1>1, <1>2, <2>2
    <3> QED BY <1>3, <2>0, <3>1, <3>2
  <2> QED BY <2>1, <2>2
<1>8. ASSUME NEW i \in 1 .. n - 1
      PROVE  m2.cell[r[i]].next = IF i = n - 1 THEN NULL ELSE r[i + 1]
  <2>0. /\ at(i) \in 1 .. n /\ r[i] = s[at(i)] /\ r[i] \in E
        /\ m2.cell[r[i]].next = IF m.cell[r[i]].next = el THEN m.cell[el].next
                                ELSE m.cell[r[i]].next
        /\ m.cell[r[i]].next = IF at(i) = n THEN NULL ELSE s[at(i) + 1]
    <3>1. at(i) \in 1 .. n /\ r[i] = s[at(i)] /\ r[i] \in E
      BY <1>4
    <3> HIDE DEF at
    <3>2. m.cell[s[at(i)]].next = IF at(i) = n THEN NULL ELSE s[at(i) + 1]
      BY <1>1, <3>1
    <3>3. m2.cell[r[i]].next = IF m.cell[r[i]].next = el THEN m.cell[el].next
                               ELSE m.cell[r[i]].next
      BY <1>3, <3>1
    <3>4. m.cell[r[i]].next = IF at(i) = n THEN NULL ELSE s[at(i) + 1]
      BY <3>1, <3>2
    <3> QED BY <3>1, <3>3, <3>4
  <2>1. CASE i < k - 1
    <3>1. at(i) = i /\ at(i) # n /\ i + 1 \in 1 .. n /\ i + 1 # k /\ i + 1 \in 1 .. n - 1
          /\ i # n - 1
      BY <1>1, <2>1
    <3>2. m.cell[r[i]].next = s[i + 1]
      BY <2>0, <3>1
    <3>3. s[i + 1] # el
      BY <1>1, <3>1
    <3>4. r[i + 1] = s[i + 1]
      BY <1>2, <2>1, <3>1
    <3> QED BY <2>0, <3>1, <3>2, <3>3, <3>4
  <2>2. CASE i = k - 1
    <3>1. at(i) = i /\ at(i) # n /\ i + 1 = k
      BY <1>1, <2>2
    <3>2. m.cell[r[i]].next = el
      BY <2>0, <3>1
    <3>3. m2.cell[r[i]].next = IF k = n THEN NULL ELSE s[k + 1]
      BY <1>1, <2>0, <3>2
    <3>4. i = n - 1 <=> k = n
      BY <1>1, <2>2
    <3>5. k # n => r[k] = s[k + 1]
      BY <1>1, <1>2
    <3> QED BY <3>1, <3>3, <3>4, <3>5
  <2>3. CASE i > k - 1
    <3>1. at(i) = i + 1 /\ (at(i) = n <=> i = n - 1)
      BY <1>1, <2>3
    <3>2. CASE i = n - 1
      <4>1. m.cell[r[i]].next = NULL
        BY <2>0, <3>1, <3>2
      <4>2. NULL # el
        BY <1>1
      <4> QED BY <2>0, <3>2, <4>1, <4>2
    <3>3. CASE i # n - 1
      <4>1. m.cell[r[i]].next = s[(i + 1) + 1]
        BY <2>0, <3>1, <3>3
      <4>2. (i + 1) + 1 \in 1 .. n /\ (i + 1) + 1 # k /\ i + 1 \in 1 .. n - 1 /\ ~(i + 1 < k)
        BY <1>1, <2>3, <3>3
      <4>3. s[(i + 1) + 1] # el
        BY <1>1, <4>2
      <4>4. r[i + 1] = s[(i + 1) + 1]
        BY <1>2, <4>2
      <4> QED BY <2>0, <3>3, <4>1, <4>3, <4>4
    <3> QED BY <3>2, <3>3
  <2> QED BY <1>1, <2>1, <2>2, <2>3
<1>9. Linked(m2, l, r)
  <2>1. DOMAIN m2.cell = E /\ Len(r) = n - 1
    BY <1>2 DEF E
  <2> HIDE DEF at
  <2> QED BY <1>5, <1>6, <1>7, <1>8, <2>1 DEF Linked
<1> QED BY <1>9 DEF r

-----------------------------------------------------------------------------
(* What an addition and a removal do to the lists.                          *)

\* Nothing but the pointers changes in the cells that stay.
Kept(m, m2) ==
  \A d \in DOMAIN m2.cell \cap DOMAIN m.cell :
    m2.cell[d].name = m.cell[d].name /\ m2.cell[d].message = m.cell[d].message

LEMMA HeapIs ==
  ASSUME NEW m \in Heap
  PROVE  /\ m.head \in [Lists -> Cell \cup {NULL}] /\ DOMAIN m.cell \subseteq Cell
         /\ m.cell \in [DOMAIN m.cell -> CellType] /\ IsFiniteSet(DOMAIN m.cell)
         /\ NULL \notin DOMAIN m.cell
         /\ \A l \in Lists : Linked(m, l, Chain(m, l)) /\ Chain(m, l) \in Seq(DOMAIN m.cell)
         /\ Apart(Chains(m)) /\ Covered(DOMAIN m.cell, Chains(m))
<1>1. Sound(m) /\ m.head \in [Lists -> Cell \cup {NULL}]
      /\ m.cell \in UNION {[D -> CellType] : D \in SUBSET Cell}
  BY DEF Heap
<1>2. PICK D \in SUBSET Cell : m.cell \in [D -> CellType]
  BY <1>1
<1>3. DOMAIN m.cell = D /\ NULL \notin D
  BY <1>2, NullAssumption
<1>4. \A l \in Lists : Linked(m, l, Chain(m, l))
  BY <1>1 DEF Sound, Chains
<1> QED
  BY <1>1, <1>2, <1>3, <1>4 DEF Sound, Linked

LEMMA AddIs ==
  ASSUME NEW m \in Heap, NEW l \in Lists, NEW c \in Cell \ DOMAIN m.cell,
         NEW n \in Names, NEW msg \in Messages, NEW m2, m2 = ajout_liste(m, l, c, n, msg)
  PROVE  /\ m2 \in Heap /\ Kept(m, m2) /\ DOMAIN m2.cell = DOMAIN m.cell \cup {c}
         /\ Chains(m2) = [Chains(m) EXCEPT ![l] = Append(@, c)]
         /\ m2.cell[c].name = n /\ m2.cell[c].message = msg
<1> DEFINE D == DOMAIN m.cell
           s == Chain(m, l)
           E == D \cup {c}
           f == [Chains(m) EXCEPT ![l] = Append(@, c)]
           new == [name |-> n, message |-> msg, next |-> NULL]
           Before(d) == s # <<>> /\ d = Last(s)
<1>1. /\ m.head \in [Lists -> Cell \cup {NULL}] /\ D \subseteq Cell
      /\ m.cell \in [D -> CellType] /\ IsFiniteSet(D) /\ NULL \notin D
      /\ \A k \in Lists : Linked(m, k, Chain(m, k)) /\ Chain(m, k) \in Seq(D)
      /\ Apart(Chains(m)) /\ Covered(D, Chains(m))
  BY HeapIs
<1>2. /\ m2 = [head |-> m2.head, cell |-> m2.cell]
      /\ m2.head = IF s = <<>> THEN [m.head EXCEPT ![l] = c] ELSE m.head
      /\ m2.cell = [d \in E |-> CASE d = c -> new
                                  [] Before(d) -> [m.cell[d] EXCEPT !.next = c]
                                  [] OTHER -> m.cell[d]]
  BY DEF ajout_liste
<1>3. c \notin D /\ c \in Cell /\ new \in CellType /\ NULL \notin E
  BY <1>1, NullAssumption DEF CellType
<1> HIDE DEF D, new, Before
<1>4. m2.cell[c] = new
  <2>1. ~Before(c)
    <3>1. s # <<>> => Last(s) \in D
      <4>1. s \in Seq(D) /\ (s # <<>> => Len(s) \in 1 .. Len(s))
        BY <1>1, EmptySeq, LenProperties
      <4> QED BY <4>1, ElementOfSeq DEF Last
    <3> QED BY <1>3, <3>1 DEF Before
  <2>2. c \in E
    OBVIOUS
  <2> HIDE DEF E
  <2> QED BY <1>2, <2>1, <2>2
<1>5. ASSUME NEW d \in D
      PROVE  /\ m2.cell[d] \in CellType
             /\ m2.cell[d].name = m.cell[d].name /\ m2.cell[d].message = m.cell[d].message
             /\ m2.cell[d].next = IF Before(d) THEN c ELSE m.cell[d].next
  <2>1. m2.cell[d] = IF Before(d) THEN [m.cell[d] EXCEPT !.next = c] ELSE m.cell[d]
    BY <1>2, <1>3
  <2>2. m.cell[d] \in CellType
    BY <1>1
  <2> QED BY <1>3, <2>1, <2>2 DEF CellType
<1>6. m2.cell \in [E -> CellType] /\ DOMAIN m2.cell = E
  <2>1. \A d \in E : m2.cell[d] \in CellType
    BY <1>3, <1>4, <1>5
  <2> QED BY <1>2, <2>1
<1>7. m2 \in [head : [Lists -> Cell \cup {NULL}], cell : UNION {[B -> CellType] : B \in SUBSET Cell}]
  <2>1. E \in SUBSET Cell
    BY <1>1, <1>3
  <2>2. m2.head \in [Lists -> Cell \cup {NULL}]
    BY <1>1, <1>2, <1>3
  <2>3. m2.cell \in UNION {[B -> CellType] : B \in SUBSET Cell}
    <3> HIDE DEF E
    <3> QED BY <1>6, <2>1
  <2>4. \A h, g : h \in [Lists -> Cell \cup {NULL}] /\ g \in UNION {[B -> CellType] : B \in SUBSET Cell}
          => [head |-> h, cell |-> g] \in [head : [Lists -> Cell \cup {NULL}],
                                           cell : UNION {[B -> CellType] : B \in SUBSET Cell}]
    OBVIOUS
  <2> QED BY <1>2, <2>2, <2>3, <2>4
<1>8. /\ s \in Seq(D) /\ Linked(m, l, s) /\ (s = <<>> <=> Len(s) = 0)
      /\ Last(s) = s[Len(s)]
  BY <1>1, EmptySeq DEF Last
<1>9. Linked(m2, l, Append(s, c))
  <2>1. m2.head[l] = IF Len(s) = 0 THEN c ELSE m.head[l]
    BY <1>1, <1>2, <1>8
  <2>2. \A d \in D : m2.cell[d].next = IF Len(s) # 0 /\ d = s[Len(s)] THEN c ELSE m.cell[d].next
    BY <1>5, <1>8 DEF Before
  <2>3. m2.cell[c].next = NULL
    BY <1>4 DEF new
  <2>4. DOMAIN m.cell = D
    BY DEF D
  <2> HIDE DEF s, E
  <2> QED BY <1>3, <1>6, <1>8, <2>1, <2>2, <2>3, <2>4, AddLinks DEF E
<1>10. ASSUME NEW k \in Lists, k # l PROVE Linked(m2, k, Chain(m, k))
  <2> DEFINE t == Chain(m, k)
  <2>1. Linked(m, k, t) /\ t \in Seq(D)
    BY <1>1
  <2>2. m2.head[k] = m.head[k]
    BY <1>1, <1>2, <1>10
  <2>3. ASSUME NEW i \in 1 .. Len(t) PROVE t[i] \in DOMAIN m2.cell /\ m2.cell[t[i]].next = m.cell[t[i]].next
    <3>1. t[i] \in D
      BY <2>1, ElementOfSeq
    <3>2. s # <<>> => t[i] # s[Len(s)]
      <4>1. s # <<>> => Len(s) \in 1 .. Len(s)
        BY <1>8, LenProperties
      <4> QED BY <1>1, <1>10, <4>1 DEF Apart, Chains
    <3>3. ~Before(t[i])
      BY <1>8, <3>2 DEF Before
    <3> QED BY <1>5, <1>6, <3>1, <3>3
  <2> HIDE DEF t
  <2>4. Linked(m2, k, t)
    BY <2>1, <2>2, <2>3, SameLinks
  <2> QED BY <2>4 DEF t
<1>11. /\ DOMAIN f = Lists /\ f[l] = Append(s, c)
       /\ \A k \in Lists : k # l => f[k] = Chain(m, k)
  BY DEF Chains
<1>12. \A k \in Lists : Linked(m2, k, f[k])
  <2> HIDE DEF f
  <2> QED BY <1>9, <1>10, <1>11
<1>13. /\ Len(f[l]) = Len(s) + 1 /\ f[l][Len(s) + 1] = c /\ Len(s) \in Nat
       /\ \A i \in 1 .. Len(s) : f[l][i] = s[i]
  <2>1. s \in Seq(E) /\ c \in E
    BY <1>8, SeqMonotonic
  <2> HIDE DEF s, E, f
  <2> QED BY <1>11, <2>1, AppendProperties, LenProperties
<1>14. \A k \in Lists : \A i \in 1 .. Len(Chain(m, k)) : Chain(m, k)[i] \in D /\ Chain(m, k)[i] # c
  <2> TAKE k \in Lists
  <2> DEFINE t == Chain(m, k)
  <2>1. t \in Seq(D)
    BY <1>1
  <2> HIDE DEF t
  <2>2. \A i \in 1 .. Len(t) : t[i] \in D /\ t[i] # c
    BY <1>3, <2>1, ElementOfSeq
  <2> QED BY <2>2 DEF t
<1>15. Apart(f)
  <2> SUFFICES ASSUME NEW g \in Lists, NEW k \in Lists, g # k,
                      NEW i \in 1 .. Len(f[g]), NEW j \in 1 .. Len(f[k])
               PROVE  f[g][i] # f[k][j]
    BY DEF Apart
  <2> HIDE DEF f
  <2>0. \A h \in Lists : Chains(m)[h] = Chain(m, h)
    BY DEF Chains
  <2>1. CASE g # l /\ k # l
    BY <1>1, <1>11, <2>0, <2>1 DEF Apart
  <2>2. CASE g = l
    <3>1. k # l /\ f[k] = Chain(m, k)
      BY <1>11, <2>2
    <3>2. i = Len(s) + 1 \/ i \in 1 .. Len(s)
      BY <1>13, <2>2
    <3>3. i \in 1 .. Len(s) => s[i] # Chain(m, k)[j]
      BY <1>1, <2>0, <3>1 DEF Apart
    <3> QED BY <1>13, <1>14, <2>2, <3>1, <3>2, <3>3
  <2>3. CASE k = l
    <3>1. g # l /\ f[g] = Chain(m, g)
      BY <1>11, <2>3
    <3>2. j = Len(s) + 1 \/ j \in 1 .. Len(s)
      BY <1>13, <2>3
    <3>3. j \in 1 .. Len(s) => s[j] # Chain(m, g)[i]
      BY <1>1, <2>0, <3>1 DEF Apart
    <3> QED BY <1>13, <1>14, <2>3, <3>1, <3>2, <3>3
  <2> QED BY <2>1, <2>2, <2>3
<1>16. Covered(E, f)
  <2> SUFFICES ASSUME NEW d \in E PROVE \E k \in Lists : \E i \in 1 .. Len(f[k]) : f[k][i] = d
    BY DEF Covered
  <2> HIDE DEF f
  <2>1. CASE d = c
    <3>1. Len(s) + 1 \in 1 .. Len(f[l])
      BY <1>13
    <3> QED BY <1>13, <2>1, <3>1
  <2>2. CASE d # c
    <3>1. d \in D
      BY <2>2
    <3>2. PICK k \in Lists : \E i \in 1 .. Len(Chain(m, k)) : Chain(m, k)[i] = d
      BY <1>1, <3>1 DEF Covered, Chains
    <3>3. PICK i \in 1 .. Len(Chain(m, k)) : Chain(m, k)[i] = d
      BY <3>2
    <3>4. i \in 1 .. Len(f[k]) /\ f[k][i] = d
      <4>1. CASE k = l
        BY <1>13, <3>3, <4>1
      <4>2. CASE k # l
        BY <1>11, <3>3, <4>2
      <4> QED BY <4>1, <4>2
    <3> QED BY <3>4
  <2> QED BY <2>1, <2>2
<1>17. Sound(m2) /\ Chains(m2) = f
  <2>1. IsFiniteSet(E)
    BY <1>1, FS_AddElement
  <2>2. f = [k \in Lists |-> f[k]]
    BY DEF Chains
  <2>3. NULL \notin E
    BY <1>3
  <2> HIDE DEF E, f
  <2> QED BY <1>6, <1>11, <1>12, <1>15, <1>16, <2>1, <2>2, <2>3, SoundBy
<1>18. m2 \in Heap
  BY <1>7, <1>17 DEF Heap
<1>19. Kept(m, m2)
  BY <1>5 DEF Kept, D
<1>20. m2.cell[c].name = n /\ m2.cell[c].message = msg
  BY <1>4 DEF new
<1> QED
  BY <1>6, <1>17, <1>18, <1>19, <1>20 DEF D

\* No cell of another list leads to one of this list.
LEMMA RemIs ==
  ASSUME NEW m \in Heap, NEW l \in Lists, NEW el, el \in ToSet(Chain(m, l)),
         NEW m2, m2 = virer_liste(m, l, el)
  PROVE  /\ m2 \in Heap /\ Kept(m, m2) /\ DOMAIN m2.cell = DOMAIN m.cell \ {el}
         /\ Chains(m2) = [Chains(m) EXCEPT ![l] = Only(@, DOMAIN m.cell \ {el})]
<1> DEFINE D == DOMAIN m.cell
           s == Chain(m, l)
           E == D \ {el}
           f == [Chains(m) EXCEPT ![l] = Only(@, E)]
           after == m.cell[el].next
<1>1. /\ m.head \in [Lists -> Cell \cup {NULL}] /\ D \subseteq Cell
      /\ m.cell \in [D -> CellType] /\ IsFiniteSet(D) /\ NULL \notin D
      /\ \A k \in Lists : Linked(m, k, Chain(m, k)) /\ Chain(m, k) \in Seq(D)
      /\ Apart(Chains(m)) /\ Covered(D, Chains(m))
  BY HeapIs
<1>2. PICK p \in 1 .. Len(s) : el = s[p]
  BY <1>1, LenProperties DEF ToSet
<1>3. el \in D /\ s \in Seq(D) /\ Linked(m, l, s) /\ p \in 1 .. Len(s)
  BY <1>1, <1>2, ElementOfSeq
<1>4. /\ m2 = [head |-> m2.head, cell |-> m2.cell]
      /\ m2.head = IF m.head[l] = el THEN [m.head EXCEPT ![l] = after] ELSE m.head
      /\ m2.cell = [d \in E |-> IF m.cell[d].next = el THEN [m.cell[d] EXCEPT !.next = after]
                                ELSE m.cell[d]]
  BY DEF virer_liste
<1>5. after \in Cell \cup {NULL}
  BY <1>1, <1>3 DEF CellType
<1> HIDE DEF D, after
<1>6. ASSUME NEW d \in E
      PROVE  /\ m2.cell[d] \in CellType
             /\ m2.cell[d].name = m.cell[d].name /\ m2.cell[d].message = m.cell[d].message
             /\ m2.cell[d].next = IF m.cell[d].next = el THEN after ELSE m.cell[d].next
  <2>1. m2.cell[d] = IF m.cell[d].next = el THEN [m.cell[d] EXCEPT !.next = after] ELSE m.cell[d]
    BY <1>4
  <2>2. m.cell[d] \in CellType
    BY <1>1
  <2> QED BY <1>5, <2>1, <2>2 DEF CellType
<1>7. m2.cell \in [E -> CellType] /\ DOMAIN m2.cell = E
  BY <1>4, <1>6
<1>8. m2 \in [head : [Lists -> Cell \cup {NULL}], cell : UNION {[B -> CellType] : B \in SUBSET Cell}]
  <2>1. E \in SUBSET Cell
    BY <1>1
  <2>2. m2.head \in [Lists -> Cell \cup {NULL}]
    BY <1>1, <1>4, <1>5
  <2>3. m2.cell \in UNION {[B -> CellType] : B \in SUBSET Cell}
    <3> HIDE DEF E
    <3> QED BY <1>7, <2>1
  <2>4. \A h, g : h \in [Lists -> Cell \cup {NULL}] /\ g \in UNION {[B -> CellType] : B \in SUBSET Cell}
          => [head |-> h, cell |-> g] \in [head : [Lists -> Cell \cup {NULL}],
                                           cell : UNION {[B -> CellType] : B \in SUBSET Cell}]
    OBVIOUS
  <2> QED BY <1>4, <2>2, <2>3, <2>4
<1>9. /\ \A i, j \in 1 .. Len(s) : s[i] = s[j] => i = j
      /\ Len(s) \in Nat
  BY <1>3, LenProperties DEF Linked
<1>10. Only(s, E) = Cut(s, p)
  <2> HIDE DEF s
  <2> QED BY <1>2, <1>3, <1>9, CutOnly
<1>11. Linked(m2, l, Only(s, E))
  <2>1. m2.head[l] = IF m.head[l] = el THEN m.cell[el].next ELSE m.head[l]
    BY <1>1, <1>4 DEF after
  <2>2. \A d \in D \ {el} : m2.cell[d].next = IF m.cell[d].next = el THEN m.cell[el].next
                                              ELSE m.cell[d].next
    BY <1>6 DEF after
  <2>3. DOMAIN m2.cell = D \ {el} /\ NULL \notin D
    BY <1>1, <1>7
  <2> HIDE DEF s, E
  <2>4. Linked(m2, l, Cut(s, p))
    BY <1>2, <1>3, <2>1, <2>2, <2>3, CutLinks, SMTT(30)
  <2> QED BY <1>10, <2>4
<1>12. \A k \in Lists : k # l => \A i \in 1 .. Len(Chain(m, k)) :
         Chain(m, k)[i] # el /\ Chain(m, k)[i] \in E
  <2> TAKE k \in Lists
  <2> DEFINE t == Chain(m, k)
  <2>1. t \in Seq(D)
    BY <1>1
  <2>2. \A h \in Lists : Chains(m)[h] = Chain(m, h)
    BY DEF Chains
  <2>3. k # l => \A i \in 1 .. Len(t), j \in 1 .. Len(s) : t[i] # s[j]
    <3>1. k # l => \A i \in 1 .. Len(Chains(m)[k]), j \in 1 .. Len(Chains(m)[l]) :
                     Chains(m)[k][i] # Chains(m)[l][j]
      BY <1>1 DEF Apart
    <3> QED BY <2>2, <3>1
  <2> HIDE DEF t, s
  <2>4. \A i \in 1 .. Len(t) : t[i] \in D
    BY <2>1, ElementOfSeq
  <2>5. k # l => \A i \in 1 .. Len(t) : t[i] # el /\ t[i] \in E
    BY <1>2, <2>3, <2>4
  <2> QED BY <2>5 DEF t
<1>13. ASSUME NEW k \in Lists, k # l PROVE Linked(m2, k, Chain(m, k))
  <2> DEFINE t == Chain(m, k)
  <2>1. Linked(m, k, t) /\ t \in Seq(D) /\ Len(t) \in Nat
    BY <1>1, LenProperties
  <2>2. m2.head[k] = m.head[k]
    BY <1>1, <1>4, <1>13
  <2>3. \A i \in 1 .. Len(t) : t[i] # el /\ t[i] \in E
    BY <1>12, <1>13
  <2> HIDE DEF t
  <2>4. ASSUME NEW i \in 1 .. Len(t) PROVE t[i] \in DOMAIN m2.cell /\ m2.cell[t[i]].next = m.cell[t[i]].next
    <3>1. m.cell[t[i]].next = IF i = Len(t) THEN NULL ELSE t[i + 1]
      BY <2>1 DEF Linked
    <3>2. m.cell[t[i]].next # el
      <4>1. i # Len(t) => i + 1 \in 1 .. Len(t)
        BY <2>1
      <4>2. el # NULL
        BY <1>1, <1>3
      <4> QED BY <2>3, <3>1, <4>1, <4>2
    <3> QED BY <1>6, <1>7, <2>3, <3>2
  <2>5. Linked(m2, k, t)
    BY <2>1, <2>2, <2>4, SameLinks
  <2> QED BY <2>5 DEF t
<1>14. /\ DOMAIN f = Lists /\ f[l] = Only(s, E) /\ Only(s, E) = Cut(s, p)
       /\ \A k \in Lists : k # l => f[k] = Chain(m, k)
  BY <1>10 DEF Chains
<1>15. \A k \in Lists : Linked(m2, k, f[k])
  <2> HIDE DEF f
  <2> QED BY <1>11, <1>13, <1>14
<1>16. /\ Len(f[l]) = Len(s) - 1
       /\ \A i \in 1 .. Len(s) - 1 : f[l][i] = IF i < p THEN s[i] ELSE s[i + 1]
  <2> HIDE DEF s, f
  <2> QED BY <1>3, <1>14, CutType
<1>17. Apart(f)
  <2> SUFFICES ASSUME NEW g \in Lists, NEW k \in Lists, g # k,
                      NEW i \in 1 .. Len(f[g]), NEW j \in 1 .. Len(f[k])
               PROVE  f[g][i] # f[k][j]
    BY DEF Apart
  <2> HIDE DEF f
  <2>0. \A h \in Lists : Chains(m)[h] = Chain(m, h)
    BY DEF Chains
  <2>1. \A h \in Lists : \A x \in 1 .. Len(f[h]) :
          \E y \in 1 .. Len(Chain(m, h)) : f[h][x] = Chain(m, h)[y]
    <3> TAKE h \in Lists
    <3>1. CASE h = l
      <4> SUFFICES ASSUME NEW x \in 1 .. Len(f[l]) PROVE \E y \in 1 .. Len(s) : f[l][x] = s[y]
        BY <3>1
      <4>1. x \in 1 .. Len(s) /\ x + 1 \in 1 .. Len(s)
        BY <1>9, <1>16
      <4> HIDE DEF s
      <4>2. f[l][x] = s[x] \/ f[l][x] = s[x + 1]
        BY <1>16
      <4> QED BY <4>1, <4>2
    <3>2. CASE h # l
      BY <1>14, <3>2
    <3> QED BY <3>1, <3>2
  <2>2. PICK x \in 1 .. Len(Chain(m, g)) : f[g][i] = Chain(m, g)[x]
    BY <2>1
  <2>3. PICK y \in 1 .. Len(Chain(m, k)) : f[k][j] = Chain(m, k)[y]
    BY <2>1
  <2>4. Chain(m, g)[x] # Chain(m, k)[y]
    BY <1>1, <2>0 DEF Apart
  <2> QED BY <2>2, <2>3, <2>4
<1>18. Covered(E, f)
  <2> SUFFICES ASSUME NEW d \in E PROVE \E k \in Lists : \E i \in 1 .. Len(f[k]) : f[k][i] = d
    BY DEF Covered
  <2> HIDE DEF f
  <2>2. PICK k \in Lists : \E i \in 1 .. Len(Chain(m, k)) : Chain(m, k)[i] = d
    BY <1>1 DEF Covered, Chains
  <2>3. PICK i \in 1 .. Len(Chain(m, k)) : Chain(m, k)[i] = d
    BY <2>2
  <2>4. CASE k # l
    BY <1>14, <2>3, <2>4
  <2>5. CASE k = l
    <3>1. i \in 1 .. Len(s) /\ s[i] = d /\ i # p
      BY <1>2, <2>3, <2>5
    <3>2. CASE i < p
      <4>1. i \in 1 .. Len(s) - 1
        BY <1>9, <3>1, <3>2
      <4> QED BY <1>16, <3>1, <3>2, <4>1
    <3>3. CASE i > p
      <4>1. i - 1 \in 1 .. Len(s) - 1 /\ ~(i - 1 < p) /\ (i - 1) + 1 = i
        BY <1>9, <3>1, <3>3
      <4>2. f[l][i - 1] = s[i]
        BY <1>16, <4>1
      <4> QED BY <1>16, <3>1, <4>1, <4>2
    <3> QED BY <1>9, <3>1, <3>2, <3>3
  <2> QED BY <2>4, <2>5
<1>19. Sound(m2) /\ Chains(m2) = f
  <2>1. IsFiniteSet(E)
    BY <1>1, FS_Subset
  <2>2. f = [k \in Lists |-> f[k]]
    BY DEF Chains
  <2>3. NULL \notin E
    BY <1>1
  <2> HIDE DEF E, f
  <2> QED BY <1>7, <1>14, <1>15, <1>17, <1>18, <2>1, <2>2, <2>3, SoundBy
<1>20. m2 \in Heap
  BY <1>8, <1>19 DEF Heap
<1>21. Kept(m, m2)
  BY <1>6, <1>7 DEF Kept
<1> QED
  BY <1>7, <1>19, <1>20, <1>21 DEF D


LEMMA OnlyBoth ==
  ASSUME NEW A, NEW S, NEW T, NEW s \in Seq(A)
  PROVE  Only(Only(s, S), T) = Only(s, S \cap T)
<1> DEFINE R0 == S \cap T
           U == {r \in Seq(A) : Only(Only(r, S), T) = Only(r, R0)}
<1>1. <<>> \in U
  BY OnlyNone, EmptySeq
<1>2. ASSUME NEW r \in Seq(A), r \in U, NEW x \in A PROVE Append(r, x) \in U
  <2> DEFINE t == Append(r, x)
             u == Only(r, S)
             w == Only(r, R0)
  <2>1. /\ u \in Seq(A) /\ t \in Seq(A) /\ Only(t, S) = IF x \in S THEN Append(u, x) ELSE u
        /\ Only(t, R0) = IF x \in R0 THEN Append(w, x) ELSE w
    BY <1>2, OnlyMore, AppendProperties
  <2>2. Only(u, T) = w
    BY <1>2
  <2>3. x \in R0 <=> x \in S /\ x \in T
    OBVIOUS
  <2> HIDE DEF t, u, w, R0
  <2>4. Only(Append(u, x), T) = IF x \in T THEN Append(Only(u, T), x) ELSE Only(u, T)
    BY <2>1, OnlyMore
  <2>5. Only(Only(t, S), T) = Only(t, R0)
    BY <2>1, <2>2, <2>3, <2>4
  <2> QED BY <2>1, <2>5 DEF t
<1>3. Seq(A) \subseteq U
  <2> HIDE DEF U
  <2> QED BY <1>1, <1>2, SeqAll
<1> QED BY <1>3

LEMMA ToSetMore ==
  ASSUME NEW A, NEW s \in Seq(A), NEW x \in A
  PROVE  ToSet(Append(s, x)) = ToSet(s) \cup {x}
<1> DEFINE t == Append(s, x)
           n == Len(s)
<1>1. /\ n \in Nat /\ DOMAIN s = 1 .. n /\ DOMAIN t = 1 .. n + 1 /\ t[n + 1] = x
      /\ \A i \in 1 .. n : t[i] = s[i]
  BY AppendProperties, LenProperties
<1> HIDE DEF t, n
<1>2. \A i \in 1 .. n + 1 : i \in 1 .. n \/ i = n + 1
  BY <1>1
<1>3. n + 1 \in 1 .. n + 1 /\ \A i \in 1 .. n : i \in 1 .. n + 1
  BY <1>1
<1>4. ToSet(t) = ToSet(s) \cup {x}
  BY <1>1, <1>2, <1>3, Zenon DEF ToSet
<1> QED BY <1>4 DEF t

LEMMA OnlyIn ==
  ASSUME NEW A, NEW S, NEW s \in Seq(A)
  PROVE  ToSet(Only(s, S)) = ToSet(s) \cap S
<1> DEFINE U == {r \in Seq(A) : ToSet(Only(r, S)) = ToSet(r) \cap S}
<1>1. <<>> \in U
  <2>1. ToSet(<<>>) = {}
    BY EmptySeq DEF ToSet
  <2> QED BY <2>1, OnlyNone, EmptySeq
<1>2. ASSUME NEW r \in Seq(A), r \in U, NEW x \in A PROVE Append(r, x) \in U
  <2> DEFINE t == Append(r, x)
             u == Only(r, S)
  <2>1. u \in Seq(A) /\ t \in Seq(A) /\ Only(t, S) = IF x \in S THEN Append(u, x) ELSE u
    BY <1>2, OnlyMore, AppendProperties
  <2>2. ToSet(t) = ToSet(r) \cup {x} /\ ToSet(u) = ToSet(r) \cap S
    BY <1>2, ToSetMore
  <2> HIDE DEF t, u
  <2>3. ToSet(Append(u, x)) = ToSet(u) \cup {x}
    BY <2>1, ToSetMore
  <2>4. ToSet(Only(t, S)) = ToSet(t) \cap S
    BY <2>1, <2>2, <2>3
  <2> QED BY <2>1, <2>4 DEF t
<1>3. Seq(A) \subseteq U
  <2> HIDE DEF U
  <2> QED BY <1>1, <1>2, SeqAll
<1> QED BY <1>3

Agrees(F, A, S, T) == \A x \in A : x \in S <=> F[x] \in T

Follows(F, A, S, T) == \A s \in Seq(A) : Each(F, Only(s, S)) = Only(Each(F, s), T)

LEMMA OnlyMap ==
  ASSUME NEW A, NEW B, NEW F \in [A -> B], NEW S, NEW T, Agrees(F, A, S, T)
  PROVE  Follows(F, A, S, T)
<1> DEFINE U == {r \in Seq(A) : Each(F, r) \in Seq(B) /\ Each(F, Only(r, S)) = Only(Each(F, r), T)}
<1>1. <<>> \in U
  <2>1. Each(F, <<>>) = <<>>
    BY EmptySeq DEF Each
  <2>2. <<>> \in Seq(B) /\ <<>> \in Seq(A)
    BY EmptySeq
  <2> QED BY <2>1, <2>2, OnlyNone
<1>2. ASSUME NEW r \in Seq(A), r \in U, NEW x \in A PROVE Append(r, x) \in U
  <2> DEFINE t == Append(r, x)
             u == Only(r, S)
             v == Each(F, r)
  <2>1. u \in Seq(A) /\ t \in Seq(A) /\ Only(t, S) = IF x \in S THEN Append(u, x) ELSE u
    BY <1>2, OnlyMore, AppendProperties
  <2>2. v \in Seq(B) /\ Each(F, u) = Only(v, T) /\ F[x] \in B
    BY <1>2
  <2>3. /\ Each(F, t) = Append(v, F[x]) /\ Each(F, t) \in Seq(B)
        /\ Each(F, Append(u, x)) = Append(Each(F, u), F[x])
    <3>1. Grows(A, B, F)
      BY EachMore
    <3>2. \A a \in Seq(A) : Each(F, a) \in Seq(B) /\ Each(F, Append(a, x)) = Append(Each(F, a), F[x])
      BY <3>1 DEF Grows
    <3> QED BY <2>1, <3>2
  <2> HIDE DEF t, u, v
  <2>5. Only(Append(v, F[x]), T) = IF F[x] \in T THEN Append(Only(v, T), F[x]) ELSE Only(v, T)
    <3> DEFINE y == F[x]
    <3>1. y \in B
      BY <2>2
    <3> HIDE DEF y
    <3>2. Only(Append(v, y), T) = IF y \in T THEN Append(Only(v, T), y) ELSE Only(v, T)
      BY <2>2, <3>1, OnlyMore
    <3> QED BY <3>2 DEF y
  <2>6. Each(F, Only(t, S)) = Only(Each(F, t), T)
    <3>1. x \in S <=> F[x] \in T
      BY DEF Agrees
    <3> QED BY <2>1, <2>2, <2>3, <2>5, <3>1
  <2> QED BY <2>1, <2>3, <2>6 DEF t
<1>3. Seq(A) \subseteq U
  <2> HIDE DEF U
  <2> QED BY <1>1, <1>2, SeqAll
<1> QED BY <1>3 DEF Follows

\* What is left when the cells of T are taken out of a list.
Removed(m, l, T, m2) ==
  /\ m2 \in Heap /\ Kept(m, m2) /\ DOMAIN m2.cell \subseteq DOMAIN m.cell
  /\ Chains(m2) = [Chains(m) EXCEPT ![l] = Only(@, Cell \ T)]

LEMMA RemStep ==
  ASSUME NEW m \in Heap, NEW l \in Lists, NEW el \in Cell
  PROVE  Removed(m, l, {el}, virer_liste(m, l, el))
<1> DEFINE D == DOMAIN m.cell
           s == Chain(m, l)
           m2 == virer_liste(m, l, el)
<1>1. D \subseteq Cell /\ s \in Seq(D)
  BY HeapIs
<1>2. Chains(m)[l] = s /\ Chains(m) = [k \in Lists |-> Chains(m)[k]]
  BY DEF Chains
<1>3. \A i \in 1 .. Len(s) : s[i] \in D
  BY <1>1, ElementOfSeq
<1>4. CASE el \in ToSet(s)
  <2>1. /\ m2 \in Heap /\ Kept(m, m2) /\ DOMAIN m2.cell = D \ {el}
        /\ Chains(m2) = [Chains(m) EXCEPT ![l] = Only(@, D \ {el})]
    BY <1>4, RemIs
  <2>2. Only(s, D \ {el}) = Only(s, Cell \ {el})
    <3> DEFINE S == D \ {el}
               T == Cell \ {el}
    <3>1. \A i \in 1 .. Len(s) : s[i] \in S <=> s[i] \in T
      BY <1>1, <1>3
    <3> HIDE DEF S, T, s
    <3> QED BY <1>1, <3>1, OnlySame
  <2> QED BY <1>2, <2>1, <2>2 DEF Removed
<1>5. CASE el \notin ToSet(s)
  <2>1. m2 = m
    BY <1>5 DEF virer_liste
  <2>2. Only(s, Cell \ {el}) = s
    <3> DEFINE T == Cell \ {el}
    <3>1. \A i \in 1 .. Len(s) : s[i] \in T
      <4>1. \A i \in 1 .. Len(s) : s[i] \in ToSet(s)
        BY <1>1, LenProperties DEF ToSet
      <4> QED BY <1>1, <1>3, <1>5, <4>1
    <3> HIDE DEF T, s
    <3>2. Only(s, T) = s
      BY <1>1, <3>1, OnlyAll
    <3> QED BY <3>2 DEF T
  <2>3. Kept(m, m)
    BY DEF Kept
  <2>4. [Chains(m) EXCEPT ![l] = s] = Chains(m)
    BY <1>2
  <2> QED BY <1>2, <2>1, <2>2, <2>3, <2>4 DEF Removed
<1> QED BY <1>4, <1>5

LEMMA RemMore ==
  ASSUME NEW m \in Heap, NEW l \in Lists, NEW T, NEW x \in Cell, NEW u, NEW w,
         Removed(m, l, T, u), Removed(u, l, {x}, w)
  PROVE  Removed(m, l, T \cup {x}, w)
<1> DEFINE s == Chains(m)[l]
           S == Cell \ T
           Z == Cell \ {x}
<1>1. s \in Seq(Cell) /\ Chains(m) = [k \in Lists |-> Chains(m)[k]] /\ Chains(m)[l] = s
  <2>1. \A k \in Lists : Chain(m, k) \in Seq(DOMAIN m.cell) /\ DOMAIN m.cell \subseteq Cell
    BY HeapIs
  <2>2. \A k \in Lists : Chain(m, k) \in Seq(Cell)
    BY <2>1, SeqMonotonic
  <2> QED BY <2>2 DEF Chains
<1>2. Only(Only(s, S), Z) = Only(s, Cell \ (T \cup {x}))
  <2>1. S \cap Z = Cell \ (T \cup {x})
    OBVIOUS
  <2> HIDE DEF s, S, Z
  <2>2. Only(Only(s, S), Z) = Only(s, S \cap Z)
    BY <1>1, OnlyBoth
  <2> QED BY <2>1, <2>2
<1>3. Chains(u) = [Chains(m) EXCEPT ![l] = Only(s, S)] /\ Chains(w) = [Chains(u) EXCEPT ![l] = Only(@, Z)]
  BY DEF Removed
<1>4. Chains(u)[l] = Only(s, S)
  BY <1>1, <1>3
<1>5. Chains(w) = [Chains(m) EXCEPT ![l] = Only(s, Cell \ (T \cup {x}))]
  <2> HIDE DEF s, S, Z
  <2> QED BY <1>1, <1>2, <1>3, <1>4
<1>6. Kept(m, w)
  BY DEF Removed, Kept
<1> QED BY <1>5, <1>6 DEF Removed


LEMMA RemAll ==
  ASSUME NEW m \in Heap, NEW l \in Lists, NEW r \in Seq(Cell)
  PROVE  Removed(m, l, ToSet(r), FoldLeft(LAMBDA w, c : virer_liste(w, l, c), m, r))
<1> DEFINE m2 == FoldLeft(LAMBDA w, c : virer_liste(w, l, c), m, r)
           L == Len(r)
           V == Heap
           Without(v, x) == virer_liste(v, l, x)
           G == [n \in 1 .. L |-> [v \in V |-> Without(v, r[n])]]
           D == SUBSET (1 .. L)
           Q(it) == it = [t \in D |-> IF t = {} THEN m
                           ELSE Without(it[t \ {Max(t)}], r[Max(t)])]
           c == CHOOSE it : Q(it)
<1>1. L \in Nat /\ DOMAIN r = 1 .. L /\ \A n \in 1 .. L : r[n] \in Cell
  BY LenProperties, ElementOfSeq
<1>2. m \in V
  OBVIOUS
<1>3. \A v \in V, x \in Cell : Without(v, x) \in V /\ Removed(v, l, {x}, Without(v, x))
  <2>1. \A v \in V, x \in Cell : Removed(v, l, {x}, Without(v, x))
    BY RemStep
  <2> HIDE DEF Without, m2
  <2> QED BY <2>1 DEF Removed
<1>a. m2 = c[1 .. L]
  BY <1>1 DEF FoldLeft, MapThenFoldSet
<1> HIDE DEF m2, V, Without, L
<1>4. /\ G \in [1 .. L -> [V -> V]]
      /\ \A n \in 1 .. L, v \in V : G[n][v] = Without(v, r[n])
  <2>1. \A n \in 1 .. L : [v \in V |-> Without(v, r[n])] \in [V -> V]
    BY <1>1, <1>3
  <2> QED BY <2>1
<1>5. PICK it \in [D -> V] : Iterated(it, L, m, G)
  <2> HIDE DEF G
  <2> QED BY <1>1, <1>2, <1>4, IteratedExists
<1> HIDE DEF G
<1>6. Q(it)
  <2>1. ASSUME NEW t \in D, t # {}
        PROVE  G[Max(t)][it[t \ {Max(t)}]] = Without(it[t \ {Max(t)}], r[Max(t)])
    <3>1. Max(t) \in 1 .. L
      BY <1>1, <2>1, MaxIs
    <3>2. it[t \ {Max(t)}] \in V
      BY <2>1
    <3> QED BY <1>4, <3>1, <3>2
  <2> QED BY <1>5, <2>1 DEF Iterated
<1>7. Q(c)
  <2> HIDE DEF Q
  <2> QED BY <1>6
<1>8. \A t \in D : c[t] = IF t = {} THEN m
                          ELSE Without(c[t \ {Max(t)}], r[Max(t)])
  <2> HIDE DEF c
  <2> DEFINE g == [t \in D |-> IF t = {} THEN m
                           ELSE Without(c[t \ {Max(t)}], r[Max(t)])]
  <2>1. c = g
    BY <1>7
  <2>2. \A t \in D : g[t] = IF t = {} THEN m
                            ELSE Without(c[t \ {Max(t)}], r[Max(t)])
    OBVIOUS
  <2> HIDE DEF g
  <2> QED BY <2>1, <2>2
<1> HIDE DEF c
<1>10. ASSUME NEW n \in 1 .. L, c[1 .. n - 1] \in V
       PROVE  c[1 .. n] = G[n][c[1 .. n - 1]]
  <2>1. n \in Nat /\ n > 0 /\ 1 .. n \in D
    BY <1>1
  <2>2. c[1 .. n] = Without(c[1 .. n - 1], r[n])
    BY <1>8, <2>1, MaxUpTo
  <2> QED BY <1>4, <1>10, <2>2
<1>11. Folds(c, L, m, G, V)
  <2>1. c[{}] = m
    <3>1. {} \in D
      OBVIOUS
    <3> QED BY <1>8, <3>1
  <2> QED BY <1>10, <2>1 DEF Folds
<1>12. PICK f \in [0 .. L -> V] : Steps(f, L, m, G) /\ c[1 .. L] = f[L]
  <2> QED BY <1>1, <1>2, <1>4, <1>11, FoldIs
<1> HIDE DEF Q, D
<1> DEFINE T(n) == {r[i] : i \in 1 .. n}
           S == {n \in 0 .. L : Removed(m, l, T(n), f[n])}
<1>13. 0 \in S
  <2>1. T(0) = {} /\ f[0] = m
    BY <1>12 DEF Steps
  <2>2. Removed(m, l, {}, m)
    <3>1. \A k \in Lists : Chain(m, k) \in Seq(DOMAIN m.cell) /\ DOMAIN m.cell \subseteq Cell
      BY HeapIs
    <3>2. \A k \in Lists : Chain(m, k) \in Seq(Cell)
      BY <3>1, SeqMonotonic
    <3> DEFINE s == Chains(m)[l]
    <3>3. s \in Seq(Cell)
      BY <3>2 DEF Chains
    <3> HIDE DEF s
    <3>4. Only(s, Cell) = s
      BY <3>3, ElementOfSeq, OnlyAll
    <3>5. Cell \ {} = Cell /\ Chains(m) = [k \in Lists |-> Chains(m)[k]]
      BY DEF Chains
    <3>6. [Chains(m) EXCEPT ![l] = s] = Chains(m)
      BY <3>5 DEF s
    <3>7. Kept(m, m)
      BY DEF Kept
    <3> QED BY <3>4, <3>5, <3>6, <3>7 DEF Removed, s
  <2> HIDE DEF T
  <2> QED BY <1>1, <2>1, <2>2
<1>14. ASSUME NEW n \in 1 .. L, n - 1 \in S PROVE n \in S
  <2>1. n - 1 \in 0 .. L /\ n \in 0 .. L /\ Removed(m, l, T(n - 1), f[n - 1]) /\ f[n - 1] \in V
    BY <1>14
  <2>2. f[n] = Without(f[n - 1], r[n])
    BY <1>4, <1>12, <2>1 DEF Steps
  <2>3. Removed(f[n - 1], l, {r[n]}, f[n])
    BY <1>1, <1>3, <2>1, <2>2
  <2>4. T(n) = T(n - 1) \cup {r[n]}
    <3>1. \A i \in 1 .. n : i \in 1 .. n - 1 \/ i = n
      OBVIOUS
    <3>2. n \in 1 .. n /\ \A i \in 1 .. n - 1 : i \in 1 .. n
      OBVIOUS
    <3> QED BY <3>1, <3>2, Zenon
  <2>5. Removed(m, l, T(n - 1) \cup {r[n]}, f[n])
    <3> DEFINE B == T(n - 1)
               x == r[n]
               u == f[n - 1]
               w == f[n]
    <3>1. x \in Cell /\ Removed(m, l, B, u) /\ Removed(u, l, {x}, w)
      BY <1>1, <2>1, <2>3
    <3> HIDE DEF B, x, u, w
    <3>2. Removed(m, l, B \cup {x}, w)
      BY <3>1, RemMore
    <3> QED BY <3>2 DEF B, x, u, w
  <2> HIDE DEF T
  <2> QED BY <2>1, <2>4, <2>5
<1>15. 0 .. L \subseteq S
  <2> HIDE DEF S
  <2> QED BY <1>1, <1>13, <1>14, UpTo
<1>16. Removed(m, l, T(L), f[L])
  <2>1. L \in 0 .. L
    BY <1>1
  <2> HIDE DEF T
  <2> QED BY <1>15, <2>1
<1>17. ToSet(r) = T(L)
  BY <1>1 DEF ToSet
<1> QED
  BY <1>12, <1>16, <1>17, <1>a DEF m2


\* rem_contact and rem_ignore take out all that has the name, and keep the
\* others in their order.
Others(m, n) == {c \in DOMAIN m.cell : m.cell[c].name # n}

LEMMA RemLeaves ==
  ASSUME NEW m \in Heap, NEW l \in Lists, NEW n,
         NEW m2, Removed(m, l, ToSet(Named(m, l, n)), m2)
  PROVE  /\ m2 \in Heap /\ Kept(m, m2) /\ DOMAIN m2.cell \subseteq DOMAIN m.cell
         /\ Chains(m2) = [Chains(m) EXCEPT ![l] = Only(@, Others(m, n))]
<1> DEFINE s == Chain(m, l)
           B == {c \in DOMAIN m.cell : m.cell[c].name = n}
           T == Cell \ (ToSet(s) \cap B)
           O == Others(m, n)
<1>1. s \in Seq(DOMAIN m.cell) /\ DOMAIN m.cell \subseteq Cell /\ s \in Seq(Cell)
  <2>1. s \in Seq(DOMAIN m.cell) /\ DOMAIN m.cell \subseteq Cell
    BY HeapIs
  <2> QED BY <2>1, SeqMonotonic
<1>2. ToSet(Named(m, l, n)) = ToSet(s) \cap B
  <2> HIDE DEF s, B
  <2>1. Named(m, l, n) = Only(s, B)
    BY DEF Named, s, B
  <2> QED BY <1>1, <2>1, OnlyIn
<1>3. \A i \in 1 .. Len(s) : s[i] \in DOMAIN m.cell /\ s[i] \in ToSet(s)
  <2> HIDE DEF s
  <2> QED BY <1>1, ElementOfSeq, LenProperties DEF ToSet
<1>4. \A i \in 1 .. Len(s) : s[i] \in T <=> s[i] \in O
  BY <1>1, <1>3 DEF Others
<1>5. Only(s, T) = Only(s, O)
  <2> HIDE DEF s, T, O
  <2> QED BY <1>1, <1>4, OnlySame
<1>6. Chains(m)[l] = s
  BY DEF Chains
<1> QED
  BY <1>2, <1>5, <1>6 DEF Removed

LEMMA Emptied ==
  ASSUME NEW m, m \in [head : [Lists -> Cell \cup {NULL}], cell : UNION {[B -> CellType] : B \in SUBSET Cell}],
         DOMAIN m.cell = {}, \A l \in Lists : m.head[l] = NULL
  PROVE  m \in Heap /\ Chains(m) = [l \in Lists |-> <<>>]
<1> DEFINE f == [l \in Lists |-> <<>>]
<1>1. \A l \in Lists : Linked(m, l, <<>>) /\ f[l] = <<>>
  BY EmptySeq DEF Linked
<1>2. Len(<<>>) = 0
  BY EmptySeq
<1>3. Apart(f) /\ Covered({}, f)
  BY <1>2 DEF Apart, Covered
<1>4. IsFiniteSet({}) /\ f = [l \in Lists |-> f[l]] /\ DOMAIN f = Lists
  BY FS_EmptySet
<1>5. Sound(m) /\ Chains(m) = f
  <2> HIDE DEF f
  <2>1. IsFiniteSet(DOMAIN m.cell) /\ Covered(DOMAIN m.cell, f) /\ NULL \notin DOMAIN m.cell
    BY <1>3, <1>4
  <2>2. \A l \in Lists : Linked(m, l, f[l])
    BY <1>1
  <2> QED BY <1>3, <1>4, <2>1, <2>2, SoundBy
<1> QED
  BY <1>5 DEF Heap

LEMMA FlushIs ==
  ASSUME NEW m \in Heap, NEW m2,
         m2 = [head |-> [l \in Lists |-> NULL],
               cell |-> [c \in DOMAIN m.cell \ UNION {ToSet(Chain(m, l)) : l \in Lists} |-> m.cell[c]]]
  PROVE  m2 \in Heap /\ Chains(m2) = [l \in Lists |-> <<>>]
<1>1. /\ Covered(DOMAIN m.cell, Chains(m))
      /\ \A l \in Lists : Chain(m, l) \in Seq(DOMAIN m.cell)
  BY HeapIs
<1>2. DOMAIN m.cell \ UNION {ToSet(Chain(m, l)) : l \in Lists} = {}
  <2> SUFFICES ASSUME NEW c \in DOMAIN m.cell
               PROVE  \E l \in Lists : c \in ToSet(Chain(m, l))
    OBVIOUS
  <2>1. PICK l \in Lists : \E i \in 1 .. Len(Chain(m, l)) : Chain(m, l)[i] = c
    BY <1>1 DEF Covered, Chains
  <2> DEFINE s == Chain(m, l)
  <2>2. s \in Seq(DOMAIN m.cell) /\ \E i \in 1 .. Len(s) : s[i] = c
    BY <1>1, <2>1
  <2> HIDE DEF s
  <2>3. c \in ToSet(s)
    BY <2>2, LenProperties DEF ToSet
  <2> QED BY <2>3 DEF s
<1>3. DOMAIN m2.cell = {} /\ \A l \in Lists : m2.head[l] = NULL
  BY <1>2
<1>4. m2 \in [head : [Lists -> Cell \cup {NULL}], cell : UNION {[B -> CellType] : B \in SUBSET Cell}]
  <2>1. m2.cell \in [{} -> CellType] /\ {} \in SUBSET Cell
    BY <1>2
  <2>2. m2.cell \in UNION {[B -> CellType] : B \in SUBSET Cell}
    BY <2>1
  <2>3. m2.head \in [Lists -> Cell \cup {NULL}]
    OBVIOUS
  <2>4. m2 = [head |-> m2.head, cell |-> m2.cell]
    OBVIOUS
  <2> DEFINE h == m2.head
             g == m2.cell
             Y == [Lists -> Cell \cup {NULL}]
             Z == UNION {[B -> CellType] : B \in SUBSET Cell}
  <2>5. m2 = [head |-> h, cell |-> g] /\ h \in Y /\ g \in Z
    BY <2>2, <2>3, <2>4
  <2> HIDE DEF h, g, Y, Z
  <2>6. m2 \in [head : Y, cell : Z]
    BY <2>5
  <2> QED BY <2>6 DEF Y, Z
<1> QED
  BY <1>3, <1>4, Emptied


-----------------------------------------------------------------------------
(* What a walk has found when it has come to the k-th entry.                *)

Upto(s, k) == [i \in 1 .. k |-> s[i]]

LEMMA UptoIs ==
  ASSUME NEW A, NEW s \in Seq(A)
  PROVE  /\ Upto(s, 0) = <<>> /\ Upto(s, Len(s)) = s
         /\ \A k \in 0 .. Len(s) : Upto(s, k) \in Seq(A)
         /\ \A k \in 1 .. Len(s) : Upto(s, k) = Append(Upto(s, k - 1), s[k])
<1> DEFINE n == Len(s)
<1>1. n \in Nat /\ DOMAIN s = 1 .. n /\ s = [i \in 1 .. n |-> s[i]] /\ \A i \in 1 .. n : s[i] \in A
  BY LenProperties, ElementOfSeq
<1> HIDE DEF n
<1>2. ASSUME NEW k \in 0 .. n
      PROVE  /\ Upto(s, k) \in Seq(A) /\ Len(Upto(s, k)) = k
             /\ \A i \in 1 .. k : Upto(s, k)[i] = s[i]
  <2> DEFINE r == [i \in 1 .. k |-> s[i]]
  <2>1. k \in Nat /\ \A i \in 1 .. k : s[i] \in A
    BY <1>1
  <2>2. r \in Seq(A) /\ Len(r) = k
    BY <2>1
  <2>3. Upto(s, k) = r
    BY DEF Upto
  <2> QED BY <2>2, <2>3
<1>3. Upto(s, 0) = <<>>
  <2>1. 0 \in 0 .. n
    BY <1>1
  <2>2. Upto(s, 0) \in Seq(A) /\ Len(Upto(s, 0)) = 0
    BY <1>2, <2>1
  <2> QED BY <2>2, EmptySeq
<1>4. Upto(s, n) = s
  BY <1>1 DEF Upto
<1>5. ASSUME NEW k \in 1 .. n PROVE Upto(s, k) = Append(Upto(s, k - 1), s[k])
  <2> DEFINE u == Upto(s, k - 1)
             x == s[k]
             w == Upto(s, k)
  <2>1. k - 1 \in 0 .. n /\ k \in 0 .. n /\ k - 1 \in Nat /\ (k - 1) + 1 = k
    BY <1>1
  <2>2. /\ u \in Seq(A) /\ Len(u) = k - 1 /\ x \in A
        /\ \A i \in 1 .. k - 1 : u[i] = s[i]
    BY <1>1, <1>2, <2>1
  <2>3. w \in Seq(A) /\ Len(w) = k /\ \A i \in 1 .. k : w[i] = s[i]
    BY <1>2, <2>1
  <2> HIDE DEF u, x, w
  <2>4. /\ Append(u, x) \in Seq(A) /\ Len(Append(u, x)) = k /\ Append(u, x)[k] = x
        /\ \A i \in 1 .. k - 1 : Append(u, x)[i] = u[i]
    BY <2>1, <2>2, AppendProperties
  <2>5. ASSUME NEW i \in 1 .. k PROVE Append(u, x)[i] = w[i]
    <3>1. i = k \/ i \in 1 .. k - 1
      BY <2>1
    <3> QED BY <2>2, <2>3, <2>4, <3>1 DEF x
  <2>6. w = Append(u, x)
    BY <2>3, <2>4, <2>5, SeqEqual
  <2> QED BY <2>6 DEF u, x, w
<1> QED BY <1>2, <1>3, <1>4, <1>5 DEF n

LEMMA UptoOnly ==
  ASSUME NEW A, NEW s \in Seq(A), NEW S, NEW k \in 1 .. Len(s), NEW got0,
         got0 = Only(Upto(s, k - 1), S)
  PROVE  Only(Upto(s, k), S) = IF s[k] \in S THEN Append(got0, s[k]) ELSE got0
<1> DEFINE u == Upto(s, k - 1)
           x == s[k]
<1>1. u \in Seq(A) /\ Upto(s, k) = Append(u, x) /\ x \in A
  <2>1. k - 1 \in 0 .. Len(s)
    BY LenProperties
  <2> QED BY <2>1, UptoIs, ElementOfSeq
<1> HIDE DEF u, x
<1>2. Only(Append(u, x), S) = IF x \in S THEN Append(Only(u, S), x) ELSE Only(u, S)
  BY <1>1, OnlyMore
<1> QED BY <1>1, <1>2 DEF u, x

(* The room for the names.                                                  *)

Joining(A) == [w \in Seq(A) |-> [n \in Nat |-> Joined(n, w)]]

LEMMA JoiningType ==
  ASSUME NEW A
  PROVE  /\ Joining(A) \in [Seq(A) -> [Nat -> Nat]]
         /\ \A w \in Seq(A), n \in Nat : Joining(A)[w][n] = Joined(n, w)
<1>1. \A w \in Seq(A), n \in Nat : Joined(n, w) \in Nat
  <2> SUFFICES ASSUME NEW w \in Seq(A), NEW n \in Nat PROVE Joined(n, w) \in Nat
    OBVIOUS
  <2>1. Len(w) \in Nat
    BY LenProperties
  <2> QED BY <2>1 DEF Joined
<1>2. \A w \in Seq(A) : [n \in Nat |-> Joined(n, w)] \in [Nat -> Nat]
  BY <1>1
<1>3. Joining(A) \in [Seq(A) -> [Nat -> Nat]]
  BY <1>2 DEF Joining
<1> QED BY <1>3 DEF Joining

LEMMA BuiltFold ==
  ASSUME NEW A, NEW s \in Seq(Seq(A))
  PROVE  Folding(Built(s), s, 1, Joining(A), Nat)
<1> DEFINE L == Len(s)
           V == Nat
           z == 1
           H == Joining(A)
           G == [n \in 1 .. L |-> H[s[n]]]
           D == SUBSET (1 .. L)
           Q(it) == it = [t \in D |-> IF t = {} THEN z
                           ELSE Joined(it[t \ {Max(t)}], s[Max(t)])]
           c == CHOOSE it : Q(it)
<1>1. L \in Nat /\ DOMAIN s = 1 .. L /\ \A n \in 1 .. L : s[n] \in Seq(A)
  BY LenProperties, ElementOfSeq
<1>2. z \in V
  OBVIOUS
<1>9. Built(s) = c[1 .. L]
  BY <1>1 DEF Built, FoldLeft, MapThenFoldSet
<1>3. H \in [Seq(A) -> [V -> V]] /\ \A x \in Seq(A), v \in V : H[x][v] = Joined(v, x)
  BY JoiningType
<1>z. z = 1 /\ V = Nat
  OBVIOUS
<1> HIDE DEF H, z, V
<1>4. /\ G \in [1 .. L -> [V -> V]]
      /\ \A n \in 1 .. L, v \in V : G[n][v] = Joined(v, s[n])
  BY <1>1, <1>3
<1>5. PICK it \in [D -> V] : Iterated(it, L, z, G)
  <2> HIDE DEF G, L
  <2> QED BY <1>1, <1>2, <1>4, IteratedExists
<1> HIDE DEF G
<1>6. Q(it)
  <2>1. ASSUME NEW t \in D, t # {}
        PROVE  G[Max(t)][it[t \ {Max(t)}]] = Joined(it[t \ {Max(t)}], s[Max(t)])
    <3>1. Max(t) \in 1 .. L
      BY <1>1, <2>1, MaxIs
    <3>2. it[t \ {Max(t)}] \in V
      <4> HIDE DEF L
      <4> QED BY <2>1
    <3> HIDE DEF L
    <3> QED BY <1>4, <3>1, <3>2
  <2> HIDE DEF L
  <2> QED BY <1>5, <2>1 DEF Iterated
<1>7. Q(c)
  <2> HIDE DEF Q
  <2> QED BY <1>6
<1>8. \A t \in D : c[t] = IF t = {} THEN z
                          ELSE Joined(c[t \ {Max(t)}], s[Max(t)])
  <2> HIDE DEF c
  <2> DEFINE g == [t \in D |-> IF t = {} THEN z
                           ELSE Joined(c[t \ {Max(t)}], s[Max(t)])]
  <2>1. c = g
    BY <1>7
  <2>2. \A t \in D : g[t] = IF t = {} THEN z
                            ELSE Joined(c[t \ {Max(t)}], s[Max(t)])
    OBVIOUS
  <2> HIDE DEF g
  <2> QED BY <2>1, <2>2
<1> HIDE DEF c
<1>10. ASSUME NEW n \in 1 .. L, c[1 .. n - 1] \in V
       PROVE  c[1 .. n] = G[n][c[1 .. n - 1]]
  <2>1. n \in Nat /\ n > 0 /\ 1 .. n \in D
    BY <1>1
  <2>2. c[1 .. n] = Joined(c[1 .. n - 1], s[n])
    BY <1>8, <2>1, MaxUpTo
  <2> QED BY <1>4, <1>10, <2>2
<1>11. Folds(c, L, z, G, V)
  <2>1. c[{}] = z
    <3>1. {} \in D
      OBVIOUS
    <3> QED BY <1>8, <3>1
  <2> QED BY <1>10, <2>1 DEF Folds
<1> QED
  BY <1>9, <1>11, <1>z DEF Folding, G, H

LEMMA BuiltMore ==
  ASSUME NEW A, NEW s \in Seq(Seq(A)), NEW w \in Seq(A)
  PROVE  /\ Built(s) \in Nat
         /\ Built(Append(s, w)) <= Built(s) + Len(w) + 1
<1> DEFINE V == Nat
           H == Joining(A)
           B == Seq(A)
           t == Append(s, w)
           u == Built(s)
           v == Built(t)
<1>1. 1 \in V /\ t \in Seq(B) /\ s \in Seq(B) /\ w \in B
  BY AppendProperties
<1>2. H \in [B -> [V -> V]]
  BY JoiningType
<1>3. Folding(u, s, 1, H, V) /\ Folding(v, t, 1, H, V)
  BY <1>1, BuiltFold
<1>4. u \in V /\ v = H[w][u]
  <2> HIDE DEF u, v, H, V, B
  <2> QED BY <1>1, <1>2, <1>3, FoldMore
<1>5. H[w][u] = Joined(u, w)
  BY <1>4, JoiningType
<1>6. Len(w) \in Nat
  BY LenProperties
<1> HIDE DEF u, v, H, B, t
<1>7. u \in Nat /\ v <= u + Len(w) + 1
  BY <1>4, <1>5, <1>6 DEF Joined
<1> QED
  BY <1>7 DEF u, v, t


-----------------------------------------------------------------------------
(* The walks.                                                               *)

Words == Seq(DOMAIN Lower)

FitsIn(b, t, w) ==
  CASE b \in {"nick", "command"} -> SameStart(t, w, Len(t))
    [] b = "state" -> SameStart(t, w, Len(w))
    [] OTHER -> TRUE

Fit(b, t) == {w \in Words : FitsIn(b, t, w)}

NamesAt(m, l) == [i \in 1 .. Len(Chain(m, l)) |-> m.cell[Chain(m, l)[i]].name]

\* Where a list and an array have been walked to, and what has been found.
OnList ==
  by \in DOMAIN Walks =>
    \E k \in 0 .. Len(Chain(mem, Walks[by])) :
      /\ cursor[Walks[by]] = IF k = 0 THEN NULL ELSE Chain(mem, Walks[by])[k]
      /\ got = Only(Upto(NamesAt(mem, Walks[by]), k), Fit(by, text))

OnArray ==
  by \in DOMAIN Arrays =>
    /\ place[by] \in 1 .. Len(Arrays[by]) + 1
    /\ got = Only(Upto(Arrays[by], place[by] - 1), Fit(by, text))

\* Nobody else is walking, and the states are tried when no name has fitted.
AtRest ==
  /\ \A l \in Lists : cursor[l] # NULL => by \in DOMAIN Walks /\ Walks[by] = l
  /\ \A a \in DOMAIN Arrays : place[a] # 1 => by = a
  /\ by = "nobody" => got = <<>> /\ text = <<>>
  /\ by = "state" => Only(NamesAt(mem, "contacts"), Fit("nick", text)) = <<>>

TypeInv ==
  /\ mem \in Heap
  /\ cursor \in [Lists -> Cell \cup {NULL}]
  /\ place \in [DOMAIN Arrays -> Nat]
  /\ by \in {"nobody"} \cup DOMAIN Walks \cup DOMAIN Arrays
  /\ text \in Texts \cup {<<>>}
  /\ by \in {"nick", "state", "command"} => text \in Texts
  /\ room \in Nat

IInv == TypeInv /\ AtRest /\ OnList /\ OnArray /\ BracesFit

LEMMA Strings ==
  /\ DOMAIN Walks = {"contacts", "build", "nick", "ignores"}
  /\ \A b \in DOMAIN Walks : Walks[b] \in Lists
  /\ Walks["nick"] = "contacts" /\ Walks["contacts"] = "contacts"
  /\ Walks["build"] = "contacts" /\ Walks["ignores"] = "ignores"
  /\ DOMAIN Arrays = {"state", "command"} /\ Arrays["state"] = States /\ Arrays["command"] = Commands
BY DEF Walks, Arrays, Lists

LEMMA FitsAre ==
  /\ \A w : Fits(w) <=> FitsIn(by, text, w)
  /\ Names \subseteq Words /\ Texts \subseteq Words
  /\ \A a \in DOMAIN Arrays : Arrays[a] \in Seq(Words)
<1>1. \A w : Fits(w) <=> FitsIn(by, text, w)
  BY DEF Fits, FitsIn
<1>2. Names \subseteq Words /\ Texts \subseteq Words
  BY WordAssumption DEF Words
<1>3. \A a \in DOMAIN Arrays : Arrays[a] \in Seq(Words)
  BY WordAssumption, Strings DEF Words
<1> QED BY <1>1, <1>2, <1>3

LEMMA NamesType ==
  ASSUME NEW m \in Heap, NEW l \in Lists
  PROVE  /\ Chain(m, l) \in Seq(DOMAIN m.cell) /\ NamesAt(m, l) \in Seq(Names)
         /\ NamesAt(m, l) \in Seq(Words)
         /\ Len(NamesAt(m, l)) = Len(Chain(m, l)) /\ Len(Chain(m, l)) \in Nat
         /\ \A i \in 1 .. Len(Chain(m, l)) :
              /\ Chain(m, l)[i] \in DOMAIN m.cell /\ Chain(m, l)[i] # NULL
              /\ NamesAt(m, l)[i] = m.cell[Chain(m, l)[i]].name
<1> DEFINE s == Chain(m, l)
           D == DOMAIN m.cell
           n == Len(s)
           r == [i \in 1 .. n |-> m.cell[s[i]].name]
<1>1. s \in Seq(D) /\ NULL \notin D /\ m.cell \in [D -> CellType]
  BY HeapIs
<1>2. n \in Nat /\ \A i \in 1 .. n : s[i] \in D /\ s[i] # NULL
  BY <1>1, LenProperties, ElementOfSeq
<1>3. NamesAt(m, l) = r
  BY DEF NamesAt
<1> HIDE DEF n, s
<1>4. \A i \in 1 .. n : m.cell[s[i]].name \in Names
  BY <1>1, <1>2 DEF CellType
<1>5. r \in Seq(Names) /\ Len(r) = n
  BY <1>2, <1>4
<1>6. r \in Seq(Words)
  <2> HIDE DEF r
  <2> QED BY <1>5, FitsAre, SeqMonotonic
<1> QED BY <1>1, <1>2, <1>3, <1>5, <1>6 DEF s, n

LEMMA NextIs ==
  ASSUME NEW m \in Heap, NEW l \in Lists, NEW k \in 0 .. Len(Chain(m, l)),
         NEW cur, cur = IF k = 0 THEN NULL ELSE Chain(m, l)[k]
  PROVE  (IF cur = NULL THEN m.head[l] ELSE m.cell[cur].next)
           = IF k = Len(Chain(m, l)) THEN NULL ELSE Chain(m, l)[k + 1]
<1> DEFINE s == Chain(m, l)
           n == Len(s)
<1>1. /\ n \in Nat /\ \A i \in 1 .. n : s[i] # NULL
      /\ m.head[l] = IF n = 0 THEN NULL ELSE s[1]
      /\ \A i \in 1 .. n : m.cell[s[i]].next = IF i = n THEN NULL ELSE s[i + 1]
  BY HeapIs, NamesType DEF Linked
<1>2. k \in 0 .. n /\ cur = IF k = 0 THEN NULL ELSE s[k]
  OBVIOUS
<1> HIDE DEF s, n
<1>3. (IF cur = NULL THEN m.head[l] ELSE m.cell[cur].next) = IF k = n THEN NULL ELSE s[k + 1]
  <2>1. CASE k = 0
    BY <1>1, <1>2, <2>1
  <2>2. CASE k # 0
    <3>1. k \in 1 .. n
      BY <1>1, <1>2, <2>2
    <3> QED BY <1>1, <1>2, <2>2, <3>1
  <2> QED BY <2>1, <2>2
<1> QED BY <1>3 DEF s, n


LEMMA ListTurn ==
  ASSUME IInv, by \in DOMAIN Walks, NEW l, l = Walks[by], NEW c, c = get_next(l)
  PROVE  \/ c = NULL /\ got = Only(NamesAt(mem, l), Fit(by, text))
         \/ /\ c \in DOMAIN mem.cell /\ c # NULL /\ mem.cell[c].name \in Names
            /\ \E k \in 0 .. Len(Chain(mem, l)) :
                 /\ k # 0 /\ c = Chain(mem, l)[k]
                 /\ (IF Fits(mem.cell[c].name) THEN Append(got, mem.cell[c].name) ELSE got)
                      = Only(Upto(NamesAt(mem, l), k), Fit(by, text))
<1> DEFINE s == Chain(mem, l)
           n == Len(s)
           N == NamesAt(mem, l)
           F == Fit(by, text)
<1>1. l \in Lists /\ mem \in Heap
  BY Strings DEF IInv, TypeInv
<1>2. PICK k \in 0 .. n : cursor[l] = (IF k = 0 THEN NULL ELSE s[k]) /\ got = Only(Upto(N, k), F)
  BY DEF IInv, OnList
<1>3. c = IF k = n THEN NULL ELSE s[k + 1]
  BY <1>1, <1>2, NextIs DEF get_next
<1>4. /\ N \in Seq(Names) /\ N \in Seq(Words) /\ Len(N) = n /\ n \in Nat
      /\ \A i \in 1 .. n : s[i] \in DOMAIN mem.cell /\ s[i] # NULL /\ N[i] = mem.cell[s[i]].name
  BY <1>1, NamesType
<1> HIDE DEF s, n, N, F
<1>5. CASE k = n
  <2>1. Upto(N, n) = N
    BY <1>4, UptoIs
  <2> QED BY <1>2, <1>3, <1>5, <2>1 DEF N, F
<1>6. CASE k # n
  <2> DEFINE j == k + 1
             w == N[j]
  <2>1. j \in 1 .. n /\ j - 1 = k /\ j \in 0 .. n /\ j # 0
    BY <1>2, <1>4, <1>6
  <2>2. c = s[j] /\ c \in DOMAIN mem.cell /\ c # NULL /\ w = mem.cell[c].name
    BY <1>3, <1>4, <1>6, <2>1
  <2> HIDE DEF j
  <2>3. w \in Names /\ w \in Words
    BY <1>4, <2>1, ElementOfSeq
  <2> HIDE DEF w
  <2>4. Fits(w) <=> w \in F
    BY <2>3, FitsAre DEF F, Fit
  <2>5. Only(Upto(N, j), F) = IF w \in F THEN Append(got, w) ELSE got
    <3>1. got = Only(Upto(N, j - 1), F) /\ j \in 1 .. Len(N)
      BY <1>2, <1>4, <2>1
    <3> QED BY <1>4, <3>1, UptoOnly DEF w
  <2>6. (IF Fits(w) THEN Append(got, w) ELSE got) = Only(Upto(N, j), F)
    BY <2>4, <2>5
  <2> QED BY <2>1, <2>2, <2>3, <2>6 DEF s, n, N, F
<1> QED BY <1>5, <1>6

LEMMA ArrayTurn ==
  ASSUME IInv, by \in DOMAIN Arrays
  PROVE  /\ place[by] \in Nat /\ place[by] # 0
         /\ place[by] > Len(Arrays[by]) => got = Only(Arrays[by], Fit(by, text))
         /\ ~(place[by] > Len(Arrays[by])) =>
              /\ place[by] + 1 \in 1 .. Len(Arrays[by]) + 1
              /\ LET w == Arrays[by][place[by]]
                 IN  (IF Fits(w) THEN Append(got, w) ELSE got)
                       = Only(Upto(Arrays[by], (place[by] + 1) - 1), Fit(by, text))
<1> DEFINE N == Arrays[by]
           n == Len(N)
           p == place[by]
           F == Fit(by, text)
<1>1. N \in Seq(Words) /\ n \in Nat
  BY FitsAre, LenProperties
<1>2. p \in 1 .. n + 1 /\ got = Only(Upto(N, p - 1), F)
  BY DEF IInv, OnArray
<1>3. Upto(N, n) = N
  BY <1>1, UptoIs
<1> DEFINE w == N[p]
<1> HIDE DEF N, n, p, F, w
<1>4. p > n => got = Only(N, F)
  <2>1. p > n => p - 1 = n
    BY <1>1, <1>2
  <2> QED BY <1>2, <1>3, <2>1
<1>5. ASSUME ~(p > n)
      PROVE  /\ p + 1 \in 1 .. n + 1
             /\ (IF Fits(w) THEN Append(got, w) ELSE got) = Only(Upto(N, (p + 1) - 1), F)
  <2>1. p \in 1 .. n /\ p + 1 \in 1 .. n + 1 /\ (p + 1) - 1 = p
    BY <1>1, <1>2, <1>5
  <2>2. w \in Words
    BY <1>1, <2>1, ElementOfSeq DEF n, w
  <2>3. Fits(w) <=> w \in F
    BY <2>2, FitsAre DEF F, Fit
  <2>4. Only(Upto(N, p), F) = IF w \in F THEN Append(got, w) ELSE got
    <3>1. p \in 1 .. Len(N)
      BY <2>1 DEF n
    <3>2. Only(Upto(N, p), F) = IF N[p] \in F THEN Append(got, N[p]) ELSE got
      BY <1>1, <1>2, <3>1, UptoOnly
    <3> QED BY <3>2 DEF w
  <2> QED BY <2>1, <2>3, <2>4
<1>6. p \in Nat /\ p # 0
  BY <1>1, <1>2
<1> QED
  BY <1>4, <1>5, <1>6 DEF N, n, p, F, w


LEMMA GotType == IInv => got \in Seq(Words)
<1> SUFFICES ASSUME IInv PROVE got \in Seq(Words)
  OBVIOUS
<1>1. CASE by = "nobody"
  BY <1>1, EmptySeq DEF IInv, AtRest
<1>2. CASE by \in DOMAIN Walks
  <2> DEFINE l == Walks[by]
             N == NamesAt(mem, l)
             F == Fit(by, text)
  <2>1. l \in Lists /\ mem \in Heap
    BY <1>2, Strings DEF IInv, TypeInv
  <2>2. PICK k \in 0 .. Len(Chain(mem, l)) : got = Only(Upto(N, k), F)
    BY <1>2 DEF IInv, OnList
  <2>3. N \in Seq(Words) /\ k \in 0 .. Len(N)
    BY <2>1, NamesType
  <2> HIDE DEF N, F
  <2>4. Upto(N, k) \in Seq(Words)
    BY <2>3, UptoIs
  <2> QED BY <2>2, <2>4, OnlyType
<1>3. CASE by \in DOMAIN Arrays
  <2> DEFINE N == Arrays[by]
             F == Fit(by, text)
             k == place[by] - 1
  <2>1. N \in Seq(Words) /\ Len(N) \in Nat
    BY <1>3, FitsAre, LenProperties
  <2>2. got = Only(Upto(N, k), F) /\ k \in 0 .. Len(N)
    BY <1>3, <2>1 DEF IInv, OnArray
  <2> HIDE DEF N, F, k
  <2>4. Upto(N, k) \in Seq(Words)
    BY <2>1, <2>2, UptoIs
  <2> QED BY <2>2, <2>4, OnlyType
<1> QED BY <1>1, <1>2, <1>3 DEF IInv, TypeInv

LEMMA TakeFits ==
  ASSUME IInv, NEW w \in Words, Take(w)
  PROVE  room' \in Nat /\ BracesFit'
<1>1. /\ got \in Seq(Seq(DOMAIN Lower)) /\ w \in Seq(DOMAIN Lower) /\ room \in Nat
      /\ Built(got) \in Nat /\ Len(w) \in Nat
      /\ Built(Append(got, w)) <= Built(got) + Len(w) + 1
  <2>1. got \in Seq(Seq(DOMAIN Lower)) /\ w \in Seq(DOMAIN Lower) /\ room \in Nat
    BY GotType DEF Words, IInv, TypeInv
  <2> DEFINE A == DOMAIN Lower
  <2> HIDE DEF A
  <2>2. got \in Seq(Seq(A)) /\ w \in Seq(A)
    BY <2>1 DEF A
  <2>3. Built(got) \in Nat /\ Built(Append(got, w)) <= Built(got) + Len(w) + 1
    BY <2>2, BuiltMore
  <2>4. Len(w) \in Nat
    BY <2>1, LenProperties
  <2> QED BY <2>1, <2>3, <2>4
<1>2. CASE by = "build"
  <2>1. Fits(w)
    BY <1>2 DEF Fits
  <2>2. got' = Append(got, w) /\ room' = Built(got) + Len(w) + 3
    BY <1>2, <2>1 DEF Take, Grown
  <2>3. Built(Append(got, w)) \in Nat
    <3>1. Append(got, w) \in Seq(Seq(DOMAIN Lower))
      BY <1>1, AppendProperties
    <3> DEFINE A == DOMAIN Lower
               t == Append(got, w)
    <3> HIDE DEF A, t
    <3>2. t \in Seq(Seq(A)) /\ \E x : x \in Seq(A)
      BY <1>1, <3>1 DEF A, t
    <3>3. Built(t) \in Nat
      BY <3>2, BuiltMore
    <3> QED BY <3>3 DEF t
  <2>4. Built(got)' = Built(got')
    OBVIOUS
  <2>5. Built(got') + 2 <= room' /\ room' \in Nat
    BY <1>1, <2>2, <2>3
  <2> QED BY <2>4, <2>5 DEF BracesFit
<1>3. CASE by # "build"
  BY <1>1, <1>3 DEF Take, BracesFit
<1> QED BY <1>2, <1>3

LEMMA InitInv == Init => IInv
<1> SUFFICES ASSUME Init PROVE IInv
  OBVIOUS
<1>1. mem \in Heap
  <2>1. mem.cell \in [{} -> CellType] /\ {} \in SUBSET Cell
    BY DEF Init
  <2>2. mem.cell \in UNION {[B -> CellType] : B \in SUBSET Cell}
    BY <2>1
  <2>3. mem.head \in [Lists -> Cell \cup {NULL}] /\ \A l \in Lists : mem.head[l] = NULL
    BY DEF Init
  <2>4. mem = [head |-> mem.head, cell |-> mem.cell] /\ DOMAIN mem.cell = {}
    BY DEF Init
  <2> DEFINE h == mem.head
             g == mem.cell
             Y == [Lists -> Cell \cup {NULL}]
             Z == UNION {[B -> CellType] : B \in SUBSET Cell}
  <2>5. mem = [head |-> h, cell |-> g] /\ h \in Y /\ g \in Z
    BY <2>2, <2>3, <2>4
  <2> HIDE DEF h, g, Y, Z
  <2>6. mem \in [head : Y, cell : Z]
    BY <2>5
  <2> QED BY <2>3, <2>4, <2>6, Emptied DEF Y, Z
<1>2. TypeInv
  BY <1>1 DEF Init, TypeInv, Arrays
<1> QED
  BY <1>2, Strings DEF Init, IInv, AtRest, OnList, OnArray, BracesFit


LEMMA IdleInv ==
  ASSUME IInv, Idle, mem' \in Heap, UNCHANGED walk
  PROVE  IInv'
<1>1. by = "nobody" /\ by' = by /\ cursor' = cursor /\ place' = place /\ text' = text
      /\ got' = got /\ room' = room
  BY DEF Idle, walk
<1>2. by \notin DOMAIN Walks /\ by \notin DOMAIN Arrays
  BY <1>1, Strings
<1>3. TypeInv' /\ AtRest'
  BY <1>1 DEF IInv, TypeInv, AtRest
<1>4. OnList' /\ OnArray' /\ BracesFit'
  BY <1>1, <1>2 DEF OnList, OnArray, BracesFit
<1> QED BY <1>3, <1>4 DEF IInv

LEMMA StrippedType ==
  ASSUME NEW msg \in Messages
  PROVE  Stripped(msg) \in Messages
BY NullAssumption DEF Stripped

LEMMA AddInv ==
  ASSUME IInv, NEW l \in Lists, NEW n \in Names, NEW msg \in Messages, add(l, n, msg)
  PROVE  IInv'
<1>1. PICK c \in Cell \ DOMAIN mem.cell : mem' = ajout_liste(mem, l, c, n, Stripped(msg))
  BY DEF add
<1>2. mem' \in Heap
  BY <1>1, AddIs, StrippedType DEF IInv, TypeInv
<1> QED BY <1>2, IdleInv DEF add

LEMMA RemHeap ==
  ASSUME IInv, NEW l \in Lists, NEW n, rem(l, n)
  PROVE  Removed(mem, l, ToSet(Named(mem, l, n)), mem')
<1> DEFINE r == Named(mem, l, n)
<1>1. mem \in Heap /\ r \in Seq(Cell)
  <2> DEFINE s == Chain(mem, l)
             B == {c \in DOMAIN mem.cell : mem.cell[c].name = n}
  <2>1. mem \in Heap /\ s \in Seq(DOMAIN mem.cell) /\ DOMAIN mem.cell \subseteq Cell
    BY HeapIs DEF IInv, TypeInv
  <2>2. s \in Seq(Cell)
    BY <2>1, SeqMonotonic
  <2>3. r = Only(s, B)
    BY DEF Named
  <2> HIDE DEF r, s, B
  <2> QED BY <2>1, <2>2, <2>3, OnlyType
<1>2. mem' = FoldLeft(LAMBDA m, c : virer_liste(m, l, c), mem, r)
  BY DEF rem
<1> HIDE DEF r
<1>3. Removed(mem, l, ToSet(r), FoldLeft(LAMBDA m, c : virer_liste(m, l, c), mem, r))
  BY <1>1, RemAll
<1> QED BY <1>2, <1>3 DEF r

LEMMA RemInv ==
  ASSUME IInv, NEW l \in Lists, NEW n \in Names, rem(l, n)
  PROVE  IInv'
<1>1. mem' \in Heap
  BY RemHeap DEF Removed
<1> QED BY <1>1, IdleInv DEF rem

LEMMA FlushInv == ASSUME IInv, flush_lists PROVE IInv' /\ Chains(mem') = [l \in Lists |-> <<>>]
<1>1. mem \in Heap /\ mem' = [head |-> [l \in Lists |-> NULL],
               cell |-> [c \in DOMAIN mem.cell \ UNION {ToSet(Chain(mem, l)) : l \in Lists} |-> mem.cell[c]]]
  BY DEF flush_lists, IInv, TypeInv
<1>2. mem' \in Heap /\ Chains(mem') = [l \in Lists |-> <<>>]
  BY <1>1, FlushIs
<1> QED BY <1>2, IdleInv DEF flush_lists

\* Nothing has been found when a walk begins.
LEMMA BeginInv ==
  ASSUME IInv, Idle, by' \in DOMAIN Walks \cup {"command"},
         text' \in Texts \cup {<<>>}, by' \in {"nick", "command"} => text' \in Texts,
         room' \in Nat, UNCHANGED <<mem, cursor, place, got>>
  PROVE  IInv'
<1>1. /\ by = "nobody" /\ got = <<>> /\ \A l \in Lists : cursor[l] = NULL
      /\ \A a \in DOMAIN Arrays : place[a] = 1
  BY Strings DEF Idle, IInv, AtRest
<1>2. TypeInv' /\ AtRest'
  BY <1>1, Strings DEF IInv, TypeInv, AtRest
<1>3. OnList'
  <2> SUFFICES ASSUME by' \in DOMAIN Walks
               PROVE  \E k \in 0 .. Len(Chain(mem, Walks[by'])) :
                        /\ cursor[Walks[by']] = IF k = 0 THEN NULL ELSE Chain(mem, Walks[by'])[k]
                        /\ got = Only(Upto(NamesAt(mem, Walks[by']), k), Fit(by', text'))
    BY DEF OnList
  <2> DEFINE l == Walks[by']
             N == NamesAt(mem, l)
             F == Fit(by', text')
  <2>1. l \in Lists /\ mem \in Heap
    BY Strings DEF IInv, TypeInv
  <2>2. N \in Seq(Words) /\ 0 \in 0 .. Len(Chain(mem, l))
    BY <2>1, NamesType
  <2> HIDE DEF l, N, F
  <2>3. got = Only(Upto(N, 0), F)
    BY <1>1, <2>2, UptoIs, OnlyNone
  <2>4. cursor[l] = NULL
    BY <1>1, <2>1
  <2> QED BY <2>2, <2>3, <2>4 DEF l, N, F
<1>4. OnArray'
  <2> SUFFICES ASSUME by' = "command"
               PROVE  /\ place[by'] \in 1 .. Len(Arrays[by']) + 1
                      /\ got = Only(Upto(Arrays[by'], place[by'] - 1), Fit(by', text'))
    BY Strings DEF OnArray
  <2> DEFINE N == Arrays[by']
             F == Fit(by', text')
  <2>1. place[by'] = 1 /\ N \in Seq(Words) /\ Len(N) \in Nat
    BY <1>1, Strings, FitsAre, LenProperties
  <2> HIDE DEF N, F
  <2>2. got = Only(Upto(N, 0), F)
    BY <1>1, <2>1, UptoIs, OnlyNone
  <2>3. place[by'] - 1 = 0 /\ 1 \in 1 .. Len(N) + 1
    BY <2>1
  <2> QED BY <2>1, <2>2, <2>3 DEF N, F
<1>5. BracesFit'
  BY <1>1 DEF BracesFit
<1> QED BY <1>2, <1>3, <1>4, <1>5 DEF IInv

\* What each walk leaves when it comes to the end.
LEMMA EndsInv ==
  ASSUME IInv, Ends, mem' = mem, by # "nobody",
         cursor' = [l \in Lists |-> NULL], place' = [a \in DOMAIN Arrays |-> 1],
         by = "nick" => got = Only(NamesAt(mem, "contacts"), Fit(by, text))
  PROVE  IInv'
<1>1. CASE by \in {"nick", "state"} /\ got = <<>>
  <2>1. /\ by' = IF by = "nick" THEN "state" ELSE "command"
        /\ got' = <<>> /\ text' = text /\ room' = room /\ text \in Texts
    BY <1>1 DEF Ends, IInv, TypeInv
  <2>2. TypeInv'
    BY <2>1, Strings DEF IInv, TypeInv
  <2>3. AtRest'
    <3>1. by' = "state" => Only(NamesAt(mem, "contacts"), Fit("nick", text)) = <<>>
      <4>1. by' = "state" => by = "nick"
        BY <2>1
      <4> QED BY <1>1, <4>1
    <3>2. by' # "nobody"
      BY <2>1
    <3> QED BY <2>1, <3>1, <3>2 DEF AtRest
  <2>4. OnList' /\ BracesFit'
    BY <2>1, Strings DEF OnList, BracesFit
  <2>5. OnArray'
    <3> DEFINE N == Arrays[by']
               F == Fit(by', text')
    <3>1. by' \in DOMAIN Arrays
      BY <2>1, Strings
    <3>2. N \in Seq(Words) /\ Len(N) \in Nat /\ place'[by'] = 1
      BY <3>1, FitsAre, LenProperties
    <3> HIDE DEF N, F
    <3>3. got' = Only(Upto(N, 0), F)
      BY <2>1, <3>2, UptoIs, OnlyNone
    <3>4. place'[by'] - 1 = 0 /\ 1 \in 1 .. Len(N) + 1
      BY <3>2
    <3> QED BY <3>2, <3>3, <3>4 DEF N, F, OnArray
  <2> QED BY <2>2, <2>3, <2>4, <2>5 DEF IInv
<1>2. CASE ~(by \in {"nick", "state"} /\ got = <<>>)
  <2>1. by' = "nobody" /\ got' = <<>> /\ text' = <<>> /\ room' = 0
    BY <1>2 DEF Ends, Return
  <2>2. by' \notin DOMAIN Walks /\ by' \notin DOMAIN Arrays
    BY <2>1, Strings
  <2>3. TypeInv'
    BY <2>1, Strings DEF IInv, TypeInv
  <2>4. AtRest'
    BY <2>1 DEF AtRest
  <2>5. OnList' /\ OnArray' /\ BracesFit'
    BY <2>1, <2>2 DEF OnList, OnArray, BracesFit
  <2> QED BY <2>3, <2>4, <2>5 DEF IInv
<1> QED BY <1>1, <1>2


LEMMA ListTurnInv ==
  ASSUME IInv, TurnOfList
  PROVE  IInv'
<1> DEFINE l == Walks[by]
           c == get_next(l)
           s == Chain(mem, l)
           N == NamesAt(mem, l)
<1>1. /\ by \in DOMAIN Walks /\ l \in Lists /\ mem' = mem /\ place' = place
      /\ cursor' = [cursor EXCEPT ![l] = c] /\ cursor \in [Lists -> Cell \cup {NULL}]
      /\ IF c = NULL THEN Ends ELSE Take(mem.cell[c].name)
      /\ mem \in Heap /\ by # "nobody" /\ by \notin DOMAIN Arrays
  <2>1. by \in DOMAIN Walks /\ by # "nobody" /\ by \notin DOMAIN Arrays /\ l \in Lists
    BY Strings DEF TurnOfList
  <2> QED BY <2>1 DEF TurnOfList, IInv, TypeInv
<1>2. /\ \A k \in Lists : k # l => cursor[k] = NULL
      /\ \A a \in DOMAIN Arrays : place[a] = 1
  BY <1>1 DEF IInv, AtRest
<1>3. CASE c = NULL
  <2>1. got = Only(N, Fit(by, text))
    <3>1. \/ c = NULL /\ got = Only(N, Fit(by, text))
          \/ c # NULL
      BY <1>1, ListTurn
    <3> QED BY <1>3, <3>1
  <2>2. by = "nick" => l = "contacts"
    BY Strings
  <2>3. cursor' = [k \in Lists |-> NULL]
    BY <1>1, <1>2, <1>3
  <2>4. place' = [a \in DOMAIN Arrays |-> 1]
    BY <1>1, <1>2 DEF IInv, TypeInv
  <2>5. by = "nick" => got = Only(NamesAt(mem, "contacts"), Fit(by, text))
    BY <2>1, <2>2
  <2> HIDE DEF l, c
  <2> QED BY <1>1, <1>3, <2>3, <2>4, <2>5, EndsInv
<1>4. CASE c # NULL
  <2> DEFINE w == mem.cell[c].name
  <2>1. /\ c \in DOMAIN mem.cell /\ w \in Names
        /\ \E k \in 0 .. Len(s) :
                 /\ k # 0 /\ c = s[k]
                 /\ (IF Fits(w) THEN Append(got, w) ELSE got) = Only(Upto(N, k), Fit(by, text))
    <3>1. \/ c = NULL
          \/ /\ c \in DOMAIN mem.cell /\ c # NULL /\ w \in Names
             /\ \E k \in 0 .. Len(s) :
                 /\ k # 0 /\ c = s[k]
                 /\ (IF Fits(w) THEN Append(got, w) ELSE got) = Only(Upto(N, k), Fit(by, text))
      BY <1>1, ListTurn
    <3> QED BY <1>4, <3>1
  <2>2. w \in Words /\ Take(w)
    BY <1>1, <1>4, <2>1, FitsAre
  <2>3. /\ got' = (IF Fits(w) THEN Append(got, w) ELSE got)
        /\ by' = by /\ text' = text
    BY <2>2 DEF Take
  <2>4. room' \in Nat /\ BracesFit'
    <3> HIDE DEF w
    <3> QED BY <2>2, TakeFits
  <2>5. c \in Cell
    BY <1>1, <2>1, HeapIs
  <2> HIDE DEF w, c, s, N
  <2>6. TypeInv'
    <3>1. cursor' \in [Lists -> Cell \cup {NULL}]
      BY <1>1, <2>5
    <3> QED BY <1>1, <2>3, <2>4, <3>1 DEF IInv, TypeInv
  <2>7. AtRest'
    <3>1. \A k \in Lists : cursor'[k] # NULL => k = l
      BY <1>1, <1>2
    <3> QED BY <1>1, <2>3, <3>1, Strings DEF IInv, AtRest
  <2>8. OnList'
    <3>1. PICK k \in 0 .. Len(s) :
                 /\ k # 0 /\ c = s[k]
                 /\ (IF Fits(w) THEN Append(got, w) ELSE got) = Only(Upto(N, k), Fit(by, text))
      BY <2>1
    <3>2. cursor'[l] = IF k = 0 THEN NULL ELSE s[k]
      BY <1>1, <3>1
    <3>3. got' = Only(Upto(N, k), Fit(by, text))
      BY <2>3, <3>1
    <3> QED BY <1>1, <2>3, <3>2, <3>3 DEF OnList, s, N
  <2>9. OnArray'
    BY <1>1, <2>3 DEF OnArray
  <2> QED BY <2>4, <2>6, <2>7, <2>8, <2>9 DEF IInv
<1> QED BY <1>3, <1>4

LEMMA ArrayTurnInv ==
  ASSUME IInv, TurnOfArray
  PROVE  IInv'
<1> DEFINE N == Arrays[by]
           p == place[by]
<1>1. /\ by \in DOMAIN Arrays /\ by \in {"state", "command"} /\ mem' = mem /\ cursor' = cursor
      /\ by # "nobody" /\ by \notin DOMAIN Walks
  <2>1. by \in DOMAIN Arrays /\ by # "nobody" /\ by \notin DOMAIN Walks
    BY Strings DEF TurnOfArray
  <2> QED BY <2>1, Strings DEF TurnOfArray
<1>2. /\ \A k \in Lists : cursor[k] = NULL
      /\ \A a \in DOMAIN Arrays : a # by => place[a] = 1
      /\ place \in [DOMAIN Arrays -> Nat] /\ cursor \in [Lists -> Cell \cup {NULL}]
  BY <1>1 DEF IInv, TypeInv, AtRest
<1>3. CASE p > Len(N)
  <2>1. place' = [place EXCEPT ![by] = 1] /\ Ends
    BY <1>3 DEF TurnOfArray
  <2>2. place' = [a \in DOMAIN Arrays |-> 1]
    BY <1>1, <1>2, <2>1
  <2>3. cursor' = [k \in Lists |-> NULL]
    BY <1>1, <1>2
  <2>4. by # "nick"
    BY <1>1
  <2> QED BY <1>1, <2>1, <2>2, <2>3, <2>4, EndsInv
<1>4. CASE ~(p > Len(N))
  <2> DEFINE w == N[p]
             F == Fit(by, text)
             q == p + 1
  <2>1. place' = [place EXCEPT ![by] = q] /\ Take(w)
    BY <1>1, <1>2, <1>4 DEF TurnOfArray
  <2>2. /\ q \in 1 .. Len(N) + 1 /\ p \in Nat /\ p # 0
        /\ (IF Fits(w) THEN Append(got, w) ELSE got) = Only(Upto(N, q - 1), F)
    BY <1>1, <1>4, ArrayTurn
  <2>3. w \in Words
    <3>1. N \in Seq(Words) /\ Len(N) \in Nat
      BY <1>1, FitsAre, LenProperties
    <3>2. p \in 1 .. Len(N)
      BY <1>4, <2>2, <3>1
    <3> HIDE DEF N, p
    <3> QED BY <3>1, <3>2, ElementOfSeq
  <2>4. /\ got' = (IF Fits(w) THEN Append(got, w) ELSE got)
        /\ by' = by /\ text' = text
    BY <2>1 DEF Take
  <2>5. room' \in Nat /\ BracesFit'
    <3> HIDE DEF w
    <3> QED BY <2>1, <2>3, TakeFits
  <2>a. q \in Nat
    BY <2>2
  <2> HIDE DEF w, N, p, F, q
  <2>6. TypeInv'
    <3>1. place' \in [DOMAIN Arrays -> Nat]
      BY <1>2, <2>1, <2>a
    <3> QED BY <1>1, <2>4, <2>5, <3>1 DEF IInv, TypeInv
  <2>7. AtRest'
    <3>1. \A a \in DOMAIN Arrays : a # by => place'[a] = 1
      BY <1>2, <2>1
    <3> QED BY <1>1, <1>2, <2>4, <3>1 DEF IInv, AtRest
  <2>8. OnArray'
    <3>1. place'[by] = q
      BY <1>1, <1>2, <2>1
    <3> QED BY <2>2, <2>4, <3>1 DEF OnArray, N, F
  <2>9. OnList'
    BY <1>1, <2>4 DEF OnList
  <2> QED BY <2>5, <2>6, <2>7, <2>8, <2>9 DEF IInv
<1> QED BY <1>3, <1>4

LEMMA NextInv == IInv /\ [Next]_vars => IInv'
<1> SUFFICES ASSUME IInv, [Next]_vars PROVE IInv'
  OBVIOUS
<1>1. ASSUME NEW n \in Names, add("contacts", n, NULL) PROVE IInv'
  BY <1>1, AddInv, NullAssumption DEF Lists
<1>2. ASSUME NEW n \in Names, NEW msg \in Messages, add("ignores", n, msg) PROVE IInv'
  BY <1>2, AddInv DEF Lists
<1>3. ASSUME NEW n \in Names, NEW l \in Lists, rem(l, n) PROVE IInv'
  BY <1>3, RemInv
<1>4. CASE flush_lists
  BY <1>4, FlushInv
<1>5. ASSUME NEW l \in Lists, BeginList(l) PROVE IInv'
  <2>1. l \in DOMAIN Walks /\ l \notin {"nick", "command"}
    BY Strings DEF Lists
  <2> QED BY <1>5, <2>1, BeginInv DEF BeginList, IInv, TypeInv
<1>6. CASE BeginBuild
  <2>1. "build" \in DOMAIN Walks
    BY Strings
  <2> QED BY <1>6, <2>1, BeginInv DEF BeginBuild, IInv, TypeInv
<1>7. ASSUME NEW t \in Texts, NEW start \in {0, 1}, complete(t, start) PROVE IInv'
  <2>1. "nick" \in DOMAIN Walks
    BY Strings
  <2> QED BY <1>7, <2>1, BeginInv DEF complete, IInv, TypeInv
<1>8. CASE TurnOfList
  BY <1>8, ListTurnInv
<1>9. CASE TurnOfArray
  BY <1>9, ArrayTurnInv
<1>10. CASE UNCHANGED vars
  <2>1. mem' = mem /\ cursor' = cursor /\ place' = place /\ by' = by /\ text' = text
        /\ got' = got /\ room' = room
    BY <1>10 DEF vars
  <2> QED BY <2>1 DEF IInv, TypeInv, AtRest, OnList, OnArray, BracesFit
<1> QED
  BY <1>1, <1>2, <1>3, <1>4, <1>5, <1>6, <1>7, <1>8, <1>9, <1>10 DEF Next

(* What is allocated is two lists that share no cell, and while one of them *)
(* or an array is walked its cursor alone is set, on what has been found so *)
(* far (listes.c, nsc_contact.c:176-262, nsc_user.c: the generators).       *)
THEOREM Walking == Spec => []IInv
<1>1. Init => IInv
  BY InitInv
<1>2. IInv /\ [Next]_vars => IInv'
  BY NextInv
<1> QED
  BY <1>1, <1>2, PTL DEF Spec


-----------------------------------------------------------------------------
(* What follows.                                                            *)

LEMMA InvType == IInv => TypeOK
<1> SUFFICES ASSUME IInv PROVE TypeOK
  OBVIOUS
<1> DEFINE D == DOMAIN mem.cell
           Pointer == D \cup {NULL}
<1>1. /\ mem \in Heap /\ mem.head \in [Lists -> Cell \cup {NULL}] /\ D \subseteq Cell
      /\ mem.cell \in [D -> CellType]
      /\ \A l \in Lists : Linked(mem, l, Chain(mem, l))
      /\ Covered(D, Chains(mem))
  BY HeapIs DEF IInv, TypeInv
<1>2. ASSUME NEW l \in Lists
      PROVE  /\ \A i \in 1 .. Len(Chain(mem, l)) :
                  Chain(mem, l)[i] \in D /\ mem.cell[Chain(mem, l)[i]].next \in Pointer
             /\ mem.head[l] \in Pointer
  <2> DEFINE s == Chain(mem, l)
             n == Len(s)
  <2>1. n \in Nat /\ \A i \in 1 .. n : s[i] \in D
    BY <1>1, NamesType
  <2>2. /\ mem.head[l] = IF n = 0 THEN NULL ELSE s[1]
        /\ \A i \in 1 .. n : mem.cell[s[i]].next = IF i = n THEN NULL ELSE s[i + 1]
    BY <1>1 DEF Linked
  <2> HIDE DEF s, n, D
  <2>3. n # 0 => 1 \in 1 .. n
    BY <2>1
  <2>4. mem.head[l] \in Pointer
    BY <2>1, <2>2, <2>3
  <2>5. ASSUME NEW i \in 1 .. n PROVE mem.cell[s[i]].next \in Pointer
    <3>1. i # n => i + 1 \in 1 .. n
      BY <2>1
    <3> QED BY <2>1, <2>2, <3>1
  <2> QED BY <2>1, <2>4, <2>5 DEF s, n
<1>3. mem.head \in [Lists -> Pointer]
  BY <1>1, <1>2
<1>4. ASSUME NEW c \in D PROVE mem.cell[c] \in [name : Names, message : Messages \cup {NULL}, next : Pointer]
  <2>1. PICK l \in Lists : \E i \in 1 .. Len(Chain(mem, l)) : Chain(mem, l)[i] = c
    BY <1>1 DEF Covered, Chains
  <2>2. mem.cell[c].next \in Pointer
    BY <1>2, <2>1
  <2>3. mem.cell[c] \in CellType
    BY <1>1
  <2> HIDE DEF Pointer, D
  <2> QED BY <2>2, <2>3 DEF CellType
<1>5. cursor \in [Lists -> Pointer]
  <2>1. ASSUME NEW l \in Lists PROVE cursor[l] \in Pointer
    <3>1. CASE cursor[l] = NULL
      BY <3>1
    <3>2. CASE cursor[l] # NULL
      <4>1. by \in DOMAIN Walks /\ Walks[by] = l
        BY <3>2 DEF IInv, AtRest
      <4>2. PICK k \in 0 .. Len(Chain(mem, l)) : cursor[l] = IF k = 0 THEN NULL ELSE Chain(mem, l)[k]
        BY <4>1 DEF IInv, OnList
      <4>3. k \in 1 .. Len(Chain(mem, l))
        <5>1. k # 0
          BY <3>2, <4>2
        <5>2. Len(Chain(mem, l)) \in Nat
          BY <1>1, NamesType
        <5> QED BY <5>1, <5>2
      <4> QED BY <1>2, <3>2, <4>2, <4>3
    <3> QED BY <3>1, <3>2
  <2> QED BY <2>1 DEF IInv, TypeInv
<1>6. ASSUME NEW a \in DOMAIN Arrays PROVE place[a] \in 1 .. Len(Arrays[a]) + 1
  <2>1. Len(Arrays[a]) \in Nat
    BY FitsAre, LenProperties
  <2>2. CASE by = a
    BY <2>2 DEF IInv, OnArray
  <2>3. CASE by # a
    <3>1. place[a] = 1
      BY <2>3 DEF IInv, AtRest
    <3> QED BY <2>1, <3>1
  <2> QED BY <2>2, <2>3
<1> HIDE DEF D, Pointer
<1>7. /\ by \in {"nobody"} \cup DOMAIN Walks \cup DOMAIN Arrays
      /\ text \in Texts \cup {<<>>} /\ room \in Nat
  BY DEF IInv, TypeInv
<1> QED
  BY <1>1, <1>3, <1>4, <1>5, <1>6, <1>7 DEF TypeOK, D, Pointer

(* The pointers of the lists and of the cursors are NULL or lead to a cell  *)
(* that is allocated, whatever is added, removed, listed and completed      *)
(* (listes.c, nsc_contact.c).                                               *)
THEOREM TypeCorrect == Spec => []TypeOK
BY Walking, InvType, PTL

(* CursorsRest, however many the cells and the words.                       *)
THEOREM Rest == Spec => []CursorsRest
<1>1. IInv => CursorsRest
  BY Strings DEF IInv, AtRest, CursorsRest, Idle
<1> QED BY <1>1, Walking, PTL

(* BracesFit, whatever the names: each of them grows the room by its own    *)
(* length and the comma.                                                    *)
THEOREM Room == Spec => []BracesFit
<1>1. IInv => BracesFit
  BY DEF IInv
<1> QED BY <1>1, Walking, PTL

LEMMA InvListed == IInv => CellsListed
<1> SUFFICES ASSUME IInv PROVE CellsListed
  OBVIOUS
<1> DEFINE D == DOMAIN mem.cell
           s == Chain(mem, "contacts")
           t == Chain(mem, "ignores")
           all == s \o t
           m == Len(s)
           n == Len(t)
<1>1. /\ mem \in Heap /\ "contacts" \in Lists /\ "ignores" \in Lists
      /\ \A l \in Lists : l = "contacts" \/ l = "ignores"
  BY DEF IInv, TypeInv, Lists
<1>2. /\ Linked(mem, "contacts", s) /\ Linked(mem, "ignores", t)
      /\ s \in Seq(D) /\ t \in Seq(D)
      /\ Apart(Chains(mem)) /\ Covered(D, Chains(mem))
  BY <1>1, HeapIs
<1>3. /\ \A i, j \in 1 .. m : s[i] = s[j] => i = j
      /\ \A i, j \in 1 .. n : t[i] = t[j] => i = j
      /\ \A i \in 1 .. m, j \in 1 .. n : s[i] # t[j]
      /\ \A c \in D : (\E i \in 1 .. m : s[i] = c) \/ (\E i \in 1 .. n : t[i] = c)
  <2>1. Chains(mem)["contacts"] = s /\ Chains(mem)["ignores"] = t
    BY <1>1 DEF Chains
  <2>2. /\ \A i, j \in 1 .. m : s[i] = s[j] => i = j
        /\ \A i, j \in 1 .. n : t[i] = t[j] => i = j
    BY <1>2 DEF Linked
  <2>3. "contacts" # "ignores"
    OBVIOUS
  <2> HIDE DEF s, t
  <2>4. \A i \in 1 .. m, j \in 1 .. n : s[i] # t[j]
    BY <1>1, <1>2, <2>1, <2>3 DEF Apart
  <2>5. \A c \in D : (\E i \in 1 .. m : s[i] = c) \/ (\E i \in 1 .. n : t[i] = c)
    <3> SUFFICES ASSUME NEW c \in D
                 PROVE  (\E i \in 1 .. m : s[i] = c) \/ (\E i \in 1 .. n : t[i] = c)
      OBVIOUS
    <3>1. PICK l \in Lists : \E i \in 1 .. Len(Chains(mem)[l]) : Chains(mem)[l][i] = c
      BY <1>2 DEF Covered
    <3>2. l = "contacts" \/ l = "ignores"
      BY <1>1
    <3> QED BY <2>1, <3>1, <3>2
  <2> QED BY <2>2, <2>4, <2>5
<1>4. /\ m \in Nat /\ n \in Nat /\ \A i \in 1 .. m : s[i] \in D
      /\ \A i \in 1 .. n : t[i] \in D
  BY <1>2, LenProperties, ElementOfSeq
<1>5. /\ all \in Seq(D) /\ Len(all) = m + n
      /\ \A i \in 1 .. m + n : all[i] = IF i <= m THEN s[i] ELSE t[i - m]
  BY <1>2, ConcatProperties
<1> HIDE DEF s, t, all, m, n, D
<1>6. DOMAIN all = 1 .. m + n
  BY <1>5, LenProperties
<1>7. \A i \in 1 .. m + n : \/ i <= m /\ i \in 1 .. m /\ all[i] = s[i]
                            \/ ~(i <= m) /\ i - m \in 1 .. n /\ all[i] = t[i - m]
  BY <1>4, <1>5
<1>8. ASSUME NEW i \in 1 .. m + n, NEW j \in 1 .. m + n, all[i] = all[j] PROVE i = j
  <2>1. CASE i <= m
    <3>1. i \in 1 .. m /\ all[i] = s[i]
      BY <1>7, <2>1
    <3>2. \/ j \in 1 .. m /\ all[j] = s[j]
          \/ j - m \in 1 .. n /\ all[j] = t[j - m]
      BY <1>7
    <3>3. ~(j - m \in 1 .. n /\ all[j] = t[j - m])
      BY <1>3, <1>8, <3>1
    <3>4. s[i] = s[j] /\ j \in 1 .. m
      BY <1>8, <3>1, <3>2, <3>3
    <3> QED BY <1>3, <3>1, <3>4
  <2>2. CASE ~(i <= m)
    <3>1. i - m \in 1 .. n /\ all[i] = t[i - m]
      BY <1>7, <2>2
    <3>2. \/ j \in 1 .. m /\ all[j] = s[j]
          \/ j - m \in 1 .. n /\ all[j] = t[j - m]
      BY <1>7
    <3>a. ~(j \in 1 .. m /\ all[j] = s[j])
      BY <1>3, <1>8, <3>1
    <3>3. j - m \in 1 .. n /\ all[j] = t[j - m]
      BY <3>2, <3>a
    <3>4. i - m = j - m
      BY <1>3, <1>8, <3>1, <3>3
    <3> QED BY <1>4, <3>4
  <2> QED BY <2>1, <2>2
<1>9. IsInjective(all)
  BY <1>6, <1>8 DEF IsInjective
<1>10. ToSet(all) = D
  <2>1. ASSUME NEW i \in 1 .. m + n PROVE all[i] \in D
    <3>1. \/ i \in 1 .. m /\ all[i] = s[i]
          \/ i - m \in 1 .. n /\ all[i] = t[i - m]
      BY <1>7
    <3>2. CASE i \in 1 .. m /\ all[i] = s[i]
      BY <1>4, <3>2
    <3>3. CASE i - m \in 1 .. n /\ all[i] = t[i - m]
      <4> DEFINE j == i - m
      <4>1. j \in 1 .. n /\ all[i] = t[j]
        BY <3>3
      <4> HIDE DEF j
      <4> QED BY <1>4, <4>1
    <3> QED BY <3>1, <3>2, <3>3
  <2>2. ASSUME NEW c \in D PROVE \E i \in 1 .. m + n : all[i] = c
    <3>1. CASE \E i \in 1 .. m : s[i] = c
      <4>1. PICK i \in 1 .. m : s[i] = c
        BY <3>1
      <4>2. i \in 1 .. m + n /\ i <= m
        BY <1>4
      <4> QED BY <1>5, <4>1, <4>2
    <3>2. CASE \E i \in 1 .. n : t[i] = c
      <4>1. PICK i \in 1 .. n : t[i] = c
        BY <3>2
      <4>2. i + m \in 1 .. m + n /\ ~(i + m <= m) /\ (i + m) - m = i
        BY <1>4
      <4>3. all[i + m] = t[i]
        BY <1>5, <4>2
      <4> QED BY <4>1, <4>2, <4>3
    <3> QED BY <1>3, <3>1, <3>2
  <2> QED BY <1>6, <2>1, <2>2 DEF ToSet
<1> QED
  BY <1>9, <1>10 DEF CellsListed, all, s, t, D

(* CellsListed, whatever is added, removed and flushed.                     *)
THEOREM Listed == Spec => []CellsListed
BY Walking, InvListed, PTL


-----------------------------------------------------------------------------
(* Contacts implements Roster: what the lists hold.                         *)

Entries == [name : Names, message : Messages]

Entry(m) == [c \in DOMAIN m.cell |-> [name |-> m.cell[c].name, message |-> m.cell[c].message]]

ListOf(m) == [l \in Lists |-> LET all == Chain(m, l) IN
               [i \in DOMAIN all |-> [name |-> m.cell[all[i]].name,
                                      message |-> m.cell[all[i]].message]]]

LEMMA EntryType ==
  ASSUME NEW m \in Heap
  PROVE  /\ Entry(m) \in [DOMAIN m.cell -> Entries]
         /\ \A c \in DOMAIN m.cell : /\ Entry(m)[c].name = m.cell[c].name
                                     /\ Entry(m)[c].message = m.cell[c].message
<1>1. \A c \in DOMAIN m.cell : m.cell[c].name \in Names /\ m.cell[c].message \in Messages
  BY HeapIs DEF CellType
<1> QED BY <1>1 DEF Entry, Entries

LEMMA ListIs ==
  ASSUME NEW m \in Heap, NEW l \in Lists
  PROVE  /\ ListOf(m)[l] = Each(Entry(m), Chain(m, l)) /\ ListOf(m)[l] \in Seq(Entries)
         /\ DOMAIN ListOf(m)[l] = 1 .. Len(Chain(m, l))
         /\ \A i \in 1 .. Len(Chain(m, l)) : ListOf(m)[l][i].name = NamesAt(m, l)[i]
<1> DEFINE s == Chain(m, l)
           D == DOMAIN m.cell
<1>1. /\ s \in Seq(D) /\ DOMAIN s = 1 .. Len(s) /\ Len(s) \in Nat
      /\ \A i \in 1 .. Len(s) : s[i] \in D /\ NamesAt(m, l)[i] = m.cell[s[i]].name
  BY NamesType, LenProperties
<1>2. ListOf(m)[l] = [i \in DOMAIN s |-> [name |-> m.cell[s[i]].name, message |-> m.cell[s[i]].message]]
  BY DEF ListOf
<1> HIDE DEF s
<1>3. ListOf(m)[l] = Each(Entry(m), s)
  BY <1>1, <1>2 DEF Each, Entry
<1>4. ListOf(m)[l] \in Seq(Entries)
  <2> DEFINE n == Len(s)
             f == ListOf(m)[l]
  <2>1. n \in Nat /\ f = [i \in 1 .. n |-> [name |-> m.cell[s[i]].name, message |-> m.cell[s[i]].message]]
    BY <1>1, <1>2
  <2>2. \A i \in 1 .. n : [name |-> m.cell[s[i]].name, message |-> m.cell[s[i]].message] \in Entries
    <3>1. \A i \in 1 .. n : s[i] \in D
      BY <1>1
    <3>2. \A c \in D : m.cell[c].name \in Names /\ m.cell[c].message \in Messages
      BY HeapIs DEF CellType
    <3> QED BY <3>1, <3>2 DEF Entries
  <2> HIDE DEF n, f
  <2>3. f \in Seq(Entries)
    BY <2>1, <2>2
  <2> QED BY <2>3 DEF f
<1>5. \A i \in 1 .. Len(s) : ListOf(m)[l][i].name = NamesAt(m, l)[i]
  BY <1>1, <1>2
<1>6. DOMAIN ListOf(m)[l] = 1 .. Len(s)
  BY <1>1, <1>2
<1> QED BY <1>3, <1>4, <1>5, <1>6 DEF s

LEMMA SameEntries ==
  ASSUME NEW m \in Heap, NEW m2 \in Heap, Kept(m, m2),
         NEW s \in Seq(DOMAIN m.cell), s \in Seq(DOMAIN m2.cell)
  PROVE  Each(Entry(m2), s) = Each(Entry(m), s)
<1> DEFINE n == Len(s)
<1>1. DOMAIN s = 1 .. n /\ \A i \in 1 .. n : s[i] \in DOMAIN m.cell /\ s[i] \in DOMAIN m2.cell
  BY LenProperties, ElementOfSeq
<1> HIDE DEF n
<1>2. \A i \in 1 .. n : Entry(m2)[s[i]] = Entry(m)[s[i]]
  BY <1>1 DEF Entry, Kept
<1> QED BY <1>1, <1>2 DEF Each

LEMMA AddList ==
  ASSUME NEW m \in Heap, NEW l \in Lists, NEW c \in Cell \ DOMAIN m.cell,
         NEW n \in Names, NEW msg \in Messages, NEW m2, m2 = ajout_liste(m, l, c, n, msg)
  PROVE  ListOf(m2) = [ListOf(m) EXCEPT ![l] = Append(@, [name |-> n, message |-> msg])]
<1>1. /\ m2 \in Heap /\ Kept(m, m2) /\ DOMAIN m2.cell = DOMAIN m.cell \cup {c}
      /\ Chains(m2) = [Chains(m) EXCEPT ![l] = Append(@, c)]
      /\ m2.cell[c].name = n /\ m2.cell[c].message = msg
  BY AddIs
<1>2. \A k \in Lists : Chain(m2, k) = IF k = l THEN Append(Chain(m, k), c) ELSE Chain(m, k)
  BY <1>1 DEF Chains
<1>3. ASSUME NEW k \in Lists
      PROVE  ListOf(m2)[k] = IF k = l THEN Append(ListOf(m)[k], [name |-> n, message |-> msg])
                             ELSE ListOf(m)[k]
  <2> DEFINE s == Chain(m, k)
             D == DOMAIN m.cell
             E == DOMAIN m2.cell
             e == [name |-> n, message |-> msg]
  <2>1. /\ s \in Seq(D) /\ ListOf(m)[k] = Each(Entry(m), s)
        /\ ListOf(m2)[k] = Each(Entry(m2), Chain(m2, k))
    BY <1>1, ListIs, NamesType
  <2>2. s \in Seq(E) /\ c \in E
    BY <1>1, <2>1, SeqMonotonic
  <2>3. Each(Entry(m2), s) = Each(Entry(m), s)
    BY <1>1, <2>1, <2>2, SameEntries
  <2>4. Entry(m2)[c] = e
    BY <1>1, <2>2 DEF Entry
  <2>5. Each(Entry(m2), Append(s, c)) = Append(Each(Entry(m2), s), Entry(m2)[c])
    <3> DEFINE F == Entry(m2)
    <3>1. F \in [E -> Entries]
      BY <1>1, EntryType
    <3> HIDE DEF F, E, s
    <3>2. Grows(E, Entries, F)
      BY <3>1, EachMore
    <3>3. Each(F, Append(s, c)) = Append(Each(F, s), F[c])
      BY <2>2, <3>2 DEF Grows
    <3> QED BY <3>3 DEF F
  <2> HIDE DEF s, D, E, e
  <2> QED BY <1>2, <2>1, <2>3, <2>4, <2>5 DEF s, e
<1> QED
  <2>1. /\ ListOf(m2) = [k \in Lists |-> ListOf(m2)[k]]
        /\ ListOf(m) = [k \in Lists |-> ListOf(m)[k]]
    BY DEF ListOf
  <2> DEFINE f == ListOf(m)
             g == ListOf(m2)
             e == [name |-> n, message |-> msg]
  <2> HIDE DEF f, g, e
  <2>2. g = [k \in Lists |-> g[k]] /\ f = [k \in Lists |-> f[k]]
    BY <2>1 DEF f, g
  <2>3. \A k \in Lists : g[k] = IF k = l THEN Append(f[k], e) ELSE f[k]
    BY <1>3 DEF f, g, e
  <2>4. g = [f EXCEPT ![l] = Append(@, e)]
    BY <2>2, <2>3
  <2> QED BY <2>4 DEF f, g, e

Without(s, n) == Only(s, {e \in ToSet(s) : e.name # n})

LEMMA RemList ==
  ASSUME NEW m \in Heap, NEW l \in Lists, NEW n,
         NEW m2, Removed(m, l, ToSet(Named(m, l, n)), m2)
  PROVE  ListOf(m2) = [ListOf(m) EXCEPT ![l] = Without(@, n)]
<1>1. /\ m2 \in Heap /\ Kept(m, m2) /\ DOMAIN m2.cell \subseteq DOMAIN m.cell
      /\ Chains(m2) = [Chains(m) EXCEPT ![l] = Only(@, Others(m, n))]
  BY RemLeaves
<1>2. \A k \in Lists : Chain(m2, k) = IF k = l THEN Only(Chain(m, k), Others(m, n)) ELSE Chain(m, k)
  BY <1>1 DEF Chains
<1>3. ASSUME NEW k \in Lists
      PROVE  /\ ListOf(m2)[k] = Each(Entry(m), Chain(m2, k))
             /\ ListOf(m)[k] = Each(Entry(m), Chain(m, k))
  <2>1. Chain(m2, k) \in Seq(DOMAIN m2.cell) /\ ListOf(m2)[k] = Each(Entry(m2), Chain(m2, k))
    BY <1>1, ListIs, NamesType
  <2>2. Chain(m2, k) \in Seq(DOMAIN m.cell)
    BY <1>1, <2>1, SeqMonotonic
  <2>3. Each(Entry(m2), Chain(m2, k)) = Each(Entry(m), Chain(m2, k))
    BY <1>1, <2>1, <2>2, SameEntries
  <2> QED BY <2>1, <2>3, ListIs
<1>4. Each(Entry(m), Only(Chain(m, l), Others(m, n))) = Without(ListOf(m)[l], n)
  <2> DEFINE D == DOMAIN m.cell
             F == Entry(m)
             s == Chain(m, l)
             r == ListOf(m)[l]
             S == Others(m, n)
             T == {e \in Entries : e.name # n}
             T2 == {e \in ToSet(r) : e.name # n}
  <2>1. F \in [D -> Entries] /\ s \in Seq(D) /\ r = Each(F, s) /\ r \in Seq(Entries)
    BY EntryType, ListIs, NamesType
  <2>2. Agrees(F, D, S, T)
    BY EntryType DEF Agrees, Others
  <2>3. \A i \in 1 .. Len(r) : r[i] \in T <=> r[i] \in T2
    <3> HIDE DEF r
    <3>1. \A i \in 1 .. Len(r) : r[i] \in Entries /\ r[i] \in ToSet(r)
      BY <2>1, ElementOfSeq, LenProperties DEF ToSet
    <3> QED BY <3>1
  <2> HIDE DEF D, F, s, r, S, T, T2
  <2>4. Each(F, Only(s, S)) = Only(Each(F, s), T)
    <3>1. Follows(F, D, S, T)
      BY <2>1, <2>2, OnlyMap
    <3> QED BY <2>1, <3>1 DEF Follows
  <2>5. Only(r, T) = Only(r, T2)
    BY <2>1, <2>3, OnlySame
  <2>6. Each(F, Only(s, S)) = Only(r, T2)
    BY <2>1, <2>4, <2>5
  <2> QED BY <2>6 DEF F, s, S, r, T2, Without
<1> QED
  <2> DEFINE f == ListOf(m)
             g == ListOf(m2)
  <2>1. g = [k \in Lists |-> g[k]] /\ f = [k \in Lists |-> f[k]]
    BY DEF ListOf
  <2>2. \A k \in Lists : g[k] = IF k = l THEN Without(f[k], n) ELSE f[k]
    BY <1>2, <1>3, <1>4
  <2> HIDE DEF f, g
  <2>4. g = [f EXCEPT ![l] = Without(@, n)]
    BY <2>1, <2>2
  <2> QED BY <2>4 DEF f, g


-----------------------------------------------------------------------------
(* Contacts implements Roster: what is shown.                               *)

LEMMA BeginsIs ==
  ASSUME NEW t \in Words, NEW w \in Words
  PROVE  R!Begins(w, t) <=> SameStart(t, w, Len(t))
<1> DEFINE A == DOMAIN Lower
           n == Len(t)
           m == Len(w)
           r == SubSeq(w, 1, n)
<1>1. /\ t \in Seq(A) /\ w \in Seq(A) /\ n \in Nat /\ m \in Nat
      /\ DOMAIN t = 1 .. n /\ DOMAIN w = 1 .. m
  BY LenProperties DEF Words
<1>2. n <= m => DOMAIN r = 1 .. n /\ Len(r) = n /\ \A i \in 1 .. n : r[i] = w[i]
  BY <1>1, SubSeqProperties
<1>3. R!Begins(w, t) <=> /\ n <= m /\ Len(r) = n
                         /\ \A i \in DOMAIN r : Lower[r[i]] = Lower[t[i]]
  BY DEF R!Begins, R!Same
<1>4. SameStart(t, w, n) <=> /\ \A i \in 1 .. n : i \in DOMAIN t <=> i \in DOMAIN w
                             /\ \A i \in (1 .. n) \cap DOMAIN t : Lower[t[i]] = Lower[w[i]]
  BY DEF SameStart
<1> HIDE DEF A, n, m, r
<1>5. CASE n <= m
  <2>1. \A i \in 1 .. n : i \in 1 .. m
    BY <1>1, <1>5
  <2>2. SameStart(t, w, n) <=> \A i \in 1 .. n : Lower[t[i]] = Lower[w[i]]
    BY <1>1, <1>4, <2>1
  <2>3. R!Begins(w, t) <=> \A i \in 1 .. n : Lower[w[i]] = Lower[t[i]]
    BY <1>2, <1>3, <1>5
  <2> QED BY <2>2, <2>3 DEF n
<1>6. CASE ~(n <= m)
  <2>1. n \in 1 .. n /\ n \notin 1 .. m
    BY <1>1, <1>6
  <2>2. ~SameStart(t, w, n)
    BY <1>1, <1>4, <2>1
  <2> QED BY <1>3, <1>6, <2>2 DEF n
<1> QED BY <1>5, <1>6

\* my_strncasecmp does not tell its first two arguments apart.
LEMMA SameIsSame ==
  ASSUME NEW t, NEW w, NEW n
  PROVE  SameStart(t, w, n) <=> SameStart(w, t, n)
BY DEF SameStart

LEMMA NamesOfIs ==
  ASSUME mem \in Heap, NEW l \in Lists
  PROVE  R!NamesOf(l) = NamesAt(mem, l)
<1>1. R!NamesOf(l) = [i \in DOMAIN ListOf(mem)[l] |-> ListOf(mem)[l][i].name]
  BY DEF R!NamesOf, ListOf
<1>2. /\ DOMAIN ListOf(mem)[l] = 1 .. Len(Chain(mem, l))
      /\ \A i \in 1 .. Len(Chain(mem, l)) : ListOf(mem)[l][i].name = NamesAt(mem, l)[i]
  BY ListIs
<1>3. NamesAt(mem, l) = [i \in 1 .. Len(Chain(mem, l)) |-> NamesAt(mem, l)[i]]
  BY DEF NamesAt
<1> DEFINE f == ListOf(mem)[l]
           g == NamesAt(mem, l)
           n == Len(Chain(mem, l))
<1> HIDE DEF f, g, n
<1>4. [i \in DOMAIN f |-> f[i].name] = g
  BY <1>2, <1>3 DEF f, g, n
<1> QED BY <1>1, <1>4 DEF f, g

LEMMA SameOnly ==
  /\ \A s, S : R!Only(s, S) = Only(s, S)
  /\ \A s : R!ToSet(s) = ToSet(s)
<1>1. \A s, S : R!Only(s, S) = Only(s, S)
  BY DEF R!Only, Only, R!FoldLeft, FoldLeft, R!MapThenFoldSet, MapThenFoldSet, R!Max, Max
<1>2. \A s : R!ToSet(s) = ToSet(s)
  BY DEF R!ToSet, ToSet
<1> QED BY <1>1, <1>2

LEMMA OfferedIs ==
  ASSUME mem \in Heap, NEW t \in Texts, NEW start
  PROVE  LET nicks == Only(NamesAt(mem, "contacts"), Fit("nick", t))
             states == Only(States, Fit("state", t))
             commands == Only(Commands, Fit("command", t))
         IN  R!Offered(t, start) = IF start # 0 /\ nicks # <<>> THEN nicks
                                   ELSE IF start # 0 /\ states # <<>> THEN states ELSE commands
<1>1. /\ t \in Words /\ States \in Seq(Words) /\ Commands \in Seq(Words) /\ "contacts" \in Lists
      /\ Names \subseteq Words
  BY FitsAre, Strings DEF Lists
<1> DEFINE N == NamesAt(mem, "contacts")
<1>2. N \in Seq(Names) /\ N \in Seq(Words) /\ R!NamesOf("contacts") = N
  BY <1>1, NamesType, NamesOfIs
<1>3. \A w \in Words : /\ w \in Fit("nick", t) <=> R!Begins(w, t)
                       /\ w \in Fit("state", t) <=> R!Begins(t, w)
                       /\ w \in Fit("command", t) <=> R!Begins(w, t)
  <2> TAKE w \in Words
  <2>1. w \in Fit("nick", t) <=> SameStart(t, w, Len(t))
    BY DEF Fit, FitsIn
  <2>2. w \in Fit("state", t) <=> SameStart(t, w, Len(w))
    BY DEF Fit, FitsIn
  <2>3. w \in Fit("command", t) <=> SameStart(t, w, Len(t))
    BY DEF Fit, FitsIn
  <2>4. R!Begins(w, t) <=> SameStart(t, w, Len(t))
    BY <1>1, BeginsIs
  <2>5. R!Begins(t, w) <=> SameStart(w, t, Len(w))
    BY <1>1, BeginsIs
  <2>6. SameStart(t, w, Len(w)) <=> SameStart(w, t, Len(w))
    BY SameIsSame
  <2> QED BY <2>1, <2>2, <2>3, <2>4, <2>5, <2>6
<1> DEFINE nickset == {w \in Names : R!Begins(w, t)}
           stateset == {w \in ToSet(States) : R!Begins(t, w)}
           comset == {w \in ToSet(Commands) : R!Begins(w, t)}
<1>4. R!Offered(t, start) = IF start # 0 /\ Only(N, nickset) # <<>> THEN Only(N, nickset)
                            ELSE IF start # 0 /\ Only(States, stateset) # <<>> THEN Only(States, stateset)
                            ELSE Only(Commands, comset)
  BY <1>2, SameOnly DEF R!Offered
<1>5. Only(N, nickset) = Only(N, Fit("nick", t))
  <2> HIDE DEF N
  <2>1. \A i \in 1 .. Len(N) : N[i] \in Names /\ N[i] \in Words
    BY <1>2, ElementOfSeq
  <2>2. \A i \in 1 .. Len(N) : N[i] \in nickset <=> N[i] \in Fit("nick", t)
    BY <1>3, <2>1
  <2> HIDE DEF nickset
  <2> QED BY <1>2, <2>2, OnlySame
<1>6. ASSUME NEW s \in Seq(Words)
      PROVE  \A i \in 1 .. Len(s) : s[i] \in ToSet(s) /\ s[i] \in Words
  BY ElementOfSeq, LenProperties DEF ToSet
<1>7. Only(States, stateset) = Only(States, Fit("state", t))
  <2>1. \A i \in 1 .. Len(States) : States[i] \in ToSet(States) /\ States[i] \in Words
    BY <1>1, <1>6
  <2>2. \A i \in 1 .. Len(States) : States[i] \in stateset <=> States[i] \in Fit("state", t)
    BY <1>3, <2>1
  <2> HIDE DEF stateset
  <2> QED BY <1>1, <2>2, OnlySame
<1>8. Only(Commands, comset) = Only(Commands, Fit("command", t))
  <2>1. \A i \in 1 .. Len(Commands) : Commands[i] \in ToSet(Commands) /\ Commands[i] \in Words
    BY <1>1, <1>6
  <2>2. \A i \in 1 .. Len(Commands) : Commands[i] \in comset <=> Commands[i] \in Fit("command", t)
    BY <1>3, <2>1
  <2> HIDE DEF comset
  <2> QED BY <1>1, <2>2, OnlySame
<1> HIDE DEF N, nickset, stateset, comset
<1> QED BY <1>4, <1>5, <1>7, <1>8 DEF N


-----------------------------------------------------------------------------
(* Contacts implements Roster, step by step.                                *)

LEMMA RosterSteps ==
  /\ R!Clear <=> ListOf(mem') = [l \in DOMAIN ListOf(mem) |-> <<>>] /\ shown' = shown
  /\ \A l : R!Show(l) <=> shown' = R!NamesOf(l) /\ ListOf(mem') = ListOf(mem)
  /\ \A t, start : R!Complete(t, start) <=> shown' = R!Offered(t, start) /\ ListOf(mem') = ListOf(mem)
<1>1. R!Clear <=> ListOf(mem') = [l \in DOMAIN ListOf(mem) |-> <<>>] /\ shown' = shown
  BY DEF R!Clear, ListOf
<1>2. \A l : R!Show(l) <=> shown' = R!NamesOf(l) /\ ListOf(mem') = ListOf(mem)
  BY DEF R!Show, ListOf
<1>3. \A t, start : R!Complete(t, start) <=> shown' = R!Offered(t, start) /\ ListOf(mem') = ListOf(mem)
  BY DEF R!Complete, ListOf
<1> QED BY <1>1, <1>2, <1>3

LEMMA RosterNext ==
  R!Next <=> \/ \E l \in DOMAIN ListOf(mem) :
                  \/ R!Show(l)
                  \/ \E n \in Names : \/ R!Forget(l, n)
                                      \/ \E msg \in Messages : R!Add(l, n, msg)
             \/ R!Clear
             \/ \E t \in Texts, start \in {0, 1} : R!Complete(t, start)
BY DEF R!Next, ListOf

LEMMA AddImpl ==
  ASSUME IInv, NEW l \in Lists, NEW n \in Names, NEW msg \in Messages, add(l, n, msg)
  PROVE  R!Add(l, n, msg)
<1>1. mem \in Heap
  BY DEF IInv, TypeInv
<1>2. PICK c \in Cell \ DOMAIN mem.cell : mem' = ajout_liste(mem, l, c, n, Stripped(msg))
  BY DEF add
<1>3. ListOf(mem') = [ListOf(mem) EXCEPT ![l] = Append(@, [name |-> n, message |-> Stripped(msg)])]
  BY <1>1, <1>2, AddList, StrippedType
<1>4. msg = NULL => \A i \in DOMAIN ListOf(mem)[l] : ListOf(mem)[l][i].name # n
  <2> SUFFICES ASSUME msg = NULL, NEW i \in 1 .. Len(Chain(mem, l)), NamesAt(mem, l)[i] = n
               PROVE  FALSE
    BY <1>1, ListIs
  <2> DEFINE s == Chain(mem, l)
             B == {c0 \in DOMAIN mem.cell : mem.cell[c0].name = n}
  <2>1. Only(s, B) = <<>>
    BY DEF add, Found, Named
  <2>2. s \in Seq(DOMAIN mem.cell) /\ s[i] \in B
    BY <1>1, NamesType
  <2> HIDE DEF s, B
  <2>3. s[i] \in ToSet(s)
    BY <2>2, LenProperties DEF ToSet, s
  <2>4. ToSet(Only(s, B)) = ToSet(s) \cap B
    BY <2>2, OnlyIn
  <2>5. ToSet(<<>>) = {}
    BY EmptySeq DEF ToSet
  <2> QED BY <2>1, <2>2, <2>3, <2>4, <2>5
<1>5. shown' = shown
  BY DEF add, walk
<1> QED BY <1>3, <1>4, <1>5 DEF R!Add, ListOf, Stripped

LEMMA RemImpl ==
  ASSUME IInv, NEW l \in Lists, NEW n \in Names, rem(l, n)
  PROVE  R!Forget(l, n)
<1>1. mem \in Heap /\ Removed(mem, l, ToSet(Named(mem, l, n)), mem')
  BY RemHeap DEF IInv, TypeInv
<1>2. ListOf(mem') = [ListOf(mem) EXCEPT ![l] = Without(@, n)]
  BY <1>1, RemList
<1>3. \A s : Without(s, n) = R!Only(s, {e \in R!ToSet(s) : e.name # n})
  BY SameOnly DEF Without
<1>4. ListOf(mem') = [ListOf(mem) EXCEPT ![l] = R!Only(@, {e \in R!ToSet(@) : e.name # n})]
  BY <1>2, <1>3
<1>5. shown' = shown
  BY DEF rem, walk
<1> QED BY <1>4, <1>5 DEF R!Forget, ListOf

LEMMA EmptySame ==
  ASSUME NEW m \in Heap, NEW l \in Lists, Chain(m, l) = <<>>
  PROVE  ListOf(m)[l] = <<>>
<1> DEFINE f == ListOf(m)[l]
<1>1. Len(<<>>) = 0 /\ 1 .. 0 = {}
  BY EmptySeq
<1>2. f \in Seq(Entries) /\ DOMAIN f = {}
  BY <1>1, ListIs
<1> HIDE DEF f
<1>3. f = <<>>
  BY <1>2, LenProperties, EmptySeq
<1> QED BY <1>3 DEF f

LEMMA FlushImpl ==
  ASSUME IInv, flush_lists
  PROVE  R!Clear
<1>1. IInv' /\ Chains(mem') = [l \in Lists |-> <<>>]
  BY FlushInv
<1>2. mem' \in Heap
  BY <1>1 DEF IInv, TypeInv
<1>3. ASSUME NEW l \in Lists PROVE ListOf(mem')[l] = <<>>
  <2>1. Chain(mem', l) = <<>>
    BY <1>1 DEF Chains
  <2> QED BY <1>2, <2>1, EmptySame
<1>4. ListOf(mem') = [l \in DOMAIN ListOf(mem) |-> <<>>]
  <2>1. DOMAIN ListOf(mem) = Lists /\ ListOf(mem') = [l \in Lists |-> ListOf(mem')[l]]
    BY DEF ListOf
  <2> QED BY <1>3, <2>1
<1>5. shown' = shown
  BY DEF flush_lists, walk
<1> QED BY <1>4, <1>5, RosterSteps

LEMMA ListTurnImpl ==
  ASSUME IInv, TurnOfList
  PROVE  R!Next \/ (ListOf(mem') = ListOf(mem) /\ shown' = shown)
<1> DEFINE l == Walks[by]
           c == get_next(l)
           N == NamesAt(mem, l)
<1>1. /\ by \in DOMAIN Walks /\ l \in Lists /\ mem' = mem /\ mem \in Heap
      /\ IF c = NULL THEN Ends ELSE Take(mem.cell[c].name)
  BY Strings DEF TurnOfList, IInv, TypeInv
<1>2. DOMAIN ListOf(mem) = Lists /\ ListOf(mem') = ListOf(mem)
  BY <1>1 DEF ListOf
<1>3. CASE c # NULL
  BY <1>1, <1>2, <1>3 DEF Take
<1>4. CASE c = NULL /\ by = "nick" /\ got = <<>>
  BY <1>1, <1>2, <1>4 DEF Ends
<1>5. CASE c = NULL /\ ~(by = "nick" /\ got = <<>>)
  <2>1. got = Only(N, Fit(by, text))
    <3>1. \/ c = NULL /\ got = Only(N, Fit(by, text))
          \/ c # NULL
      BY <1>1, ListTurn
    <3> QED BY <1>5, <3>1
  <2>2. shown' = got
    <3>1. by # "state"
      BY <1>1, Strings
    <3> QED BY <1>1, <1>5, <3>1 DEF Ends, Return
  <2>3. CASE by = "nick"
    <3>1. l = "contacts" /\ got # <<>> /\ text \in Texts
      BY <1>5, <2>3, Strings DEF IInv, TypeInv
    <3>2. R!Offered(text, 1) = got
      <4>1. Only(NamesAt(mem, "contacts"), Fit("nick", text)) = got
        BY <2>1, <2>3, <3>1
      <4> QED BY <1>1, <3>1, <4>1, OfferedIs
    <3>3. R!Complete(text, 1)
      BY <1>2, <2>2, <3>2, RosterSteps
    <3> QED BY <3>1, <3>3, RosterNext
  <2>4. CASE by # "nick"
    <3>1. got = N
      <4>1. N \in Seq(Words)
        BY <1>1, NamesType
      <4>2. \A w \in Words : w \in Fit(by, text)
        BY <1>1, <2>4, Strings DEF Fit, FitsIn
      <4> DEFINE F == Fit(by, text)
      <4> HIDE DEF N, F
      <4>3. \A i \in 1 .. Len(N) : N[i] \in F
        BY <4>1, <4>2, ElementOfSeq DEF F
      <4>4. Only(N, F) = N
        BY <4>1, <4>3, OnlyAll
      <4> QED BY <2>1, <4>4 DEF F
    <3>2. R!NamesOf(l) = got
      BY <1>1, <3>1, NamesOfIs
    <3>3. R!Show(l)
      BY <1>2, <2>2, <3>2, RosterSteps
    <3> QED BY <1>1, <1>2, <3>3, RosterNext
  <2> QED BY <2>3, <2>4
<1> QED BY <1>3, <1>4, <1>5

LEMMA ArrayTurnImpl ==
  ASSUME IInv, TurnOfArray
  PROVE  R!Next \/ (ListOf(mem') = ListOf(mem) /\ shown' = shown)
<1> DEFINE N == Arrays[by]
           p == place[by]
           F == Fit(by, text)
<1>1. /\ by \in DOMAIN Arrays /\ by \in {"state", "command"} /\ mem' = mem /\ mem \in Heap
      /\ text \in Texts
  BY Strings DEF TurnOfArray, IInv, TypeInv
<1>2. ListOf(mem') = ListOf(mem)
  BY <1>1 DEF ListOf
<1>3. CASE ~(p > Len(N))
  BY <1>2, <1>3 DEF TurnOfArray, Take
<1>4. CASE p > Len(N) /\ by = "state" /\ got = <<>>
  BY <1>2, <1>4 DEF TurnOfArray, Ends
<1>5. CASE p > Len(N) /\ ~(by = "state" /\ got = <<>>)
  <2>1. got = Only(N, F)
    BY <1>1, <1>5, ArrayTurn
  <2>2. shown' = got
    <3>1. Ends
      BY <1>5 DEF TurnOfArray
    <3> QED BY <1>1, <1>5, <3>1 DEF Ends, Return
  <2>3. \E start \in {0, 1} : R!Offered(text, start) = got
    <3> DEFINE nicks == Only(NamesAt(mem, "contacts"), Fit("nick", text))
               states == Only(States, Fit("state", text))
               commands == Only(Commands, Fit("command", text))
    <3>1. \A start : R!Offered(text, start) = IF start # 0 /\ nicks # <<>> THEN nicks
                                   ELSE IF start # 0 /\ states # <<>> THEN states ELSE commands
      BY <1>1, OfferedIs
    <3>2. CASE by = "state"
      <4>1. nicks = <<>> /\ got = states /\ got # <<>>
        BY <1>1, <1>5, <2>1, <3>2, Strings DEF IInv, AtRest
      <4> HIDE DEF nicks, states, commands
      <4>2. R!Offered(text, 1) = got
        BY <3>1, <4>1
      <4> QED BY <4>2
    <3>3. CASE by = "command"
      <4>1. got = commands
        BY <2>1, <3>3, Strings
      <4> HIDE DEF nicks, states, commands
      <4>2. R!Offered(text, 0) = got
        BY <3>1, <4>1
      <4> QED BY <4>2
    <3> QED BY <1>1, <3>2, <3>3
  <2>4. PICK start \in {0, 1} : R!Offered(text, start) = got
    BY <2>3
  <2>5. R!Complete(text, start)
    BY <1>2, <2>2, <2>4, RosterSteps
  <2> QED BY <1>1, <2>5, RosterNext
<1> QED BY <1>3, <1>4, <1>5

LEMMA RosterInit == Init => R!Init
<1> SUFFICES ASSUME Init PROVE R!Init
  OBVIOUS
<1>1. mem \in Heap /\ IInv
  BY InitInv DEF IInv, TypeInv
<1>2. ASSUME NEW l \in Lists PROVE ListOf(mem)[l] = <<>>
  <2>1. mem.head[l] = NULL /\ Linked(mem, l, Chain(mem, l))
    BY <1>1, HeapIs DEF Init
  <2> DEFINE s == Chain(mem, l)
  <2>2. Len(s) \in Nat /\ \A i \in 1 .. Len(s) : s[i] # NULL
    BY <1>1, NamesType
  <2>3. s \in Seq(DOMAIN mem.cell) /\ mem.head[l] = IF Len(s) = 0 THEN NULL ELSE s[1]
    BY <2>1 DEF Linked
  <2> HIDE DEF s
  <2>4. Len(s) = 0
    BY <2>1, <2>2, <2>3
  <2>5. s = <<>>
    BY <2>3, <2>4, EmptySeq
  <2> QED BY <1>1, <2>5, EmptySame DEF s
<1>3. ListOf(mem) = [l \in {"contacts", "ignores"} |-> <<>>]
  <2> DEFINE f == ListOf(mem)
  <2>1. f = [l \in Lists |-> f[l]]
    BY DEF ListOf
  <2> HIDE DEF f
  <2>2. f = [l \in Lists |-> <<>>]
    BY <1>2, <2>1 DEF f
  <2> QED BY <2>2 DEF f, Lists
<1>4. shown = <<>>
  BY DEF Init
<1> QED BY <1>3, <1>4 DEF R!Init, ListOf

LEMMA RosterStep == IInv /\ [Next]_vars => R!Next \/ (ListOf(mem') = ListOf(mem) /\ shown' = shown)
<1> SUFFICES ASSUME IInv, [Next]_vars
             PROVE  R!Next \/ (ListOf(mem') = ListOf(mem) /\ shown' = shown)
  OBVIOUS
<1>0. DOMAIN ListOf(mem) = Lists /\ "contacts" \in Lists /\ "ignores" \in Lists
  BY DEF ListOf, Lists
<1>1. ASSUME NEW n \in Names, add("contacts", n, NULL) PROVE R!Next
  <2>1. R!Add("contacts", n, NULL) /\ NULL \in Messages
    BY <1>0, <1>1, AddImpl, NullAssumption
  <2> QED BY <1>0, <2>1, RosterNext
<1>2. ASSUME NEW n \in Names, NEW msg \in Messages, add("ignores", n, msg) PROVE R!Next
  <2>1. R!Add("ignores", n, msg)
    BY <1>0, <1>2, AddImpl
  <2> QED BY <1>0, <2>1, RosterNext
<1>3. ASSUME NEW n \in Names, NEW l \in Lists, rem(l, n) PROVE R!Next
  <2>1. R!Forget(l, n)
    BY <1>3, RemImpl
  <2> QED BY <1>0, <2>1, RosterNext
<1>4. CASE flush_lists
  BY <1>4, FlushImpl, RosterNext
<1>5. CASE (\E l \in Lists : BeginList(l)) \/ BeginBuild \/ (\E t \in Texts, start \in {0, 1} : complete(t, start))
  BY <1>5 DEF BeginList, BeginBuild, complete
<1>6. CASE TurnOfList
  BY <1>6, ListTurnImpl
<1>7. CASE TurnOfArray
  BY <1>7, ArrayTurnImpl
<1>8. CASE UNCHANGED vars
  BY <1>8 DEF vars
<1> QED
  BY <1>1, <1>2, <1>3, <1>4, <1>5, <1>6, <1>7, <1>8 DEF Next

(* RosterSpec: the linked lists, their cursors and the generators implement *)
(* Roster, whatever the names, however many the cells, the states and the   *)
(* commands: each walk shows its list whole and in order, each completion   *)
(* offers what fits (listes.c, nsc_contact.c, nsc_user.c:204-299).          *)
THEOREM Implements == Spec => RosterSpec
<1>1. Init => R!Init
  BY RosterInit
<1>2. IInv /\ [Next]_vars => [R!Next]_<<[l \in Lists |-> LET all == Chain(mem, l) IN
             [i \in DOMAIN all |-> [name |-> mem.cell[all[i]].name,
                                    message |-> mem.cell[all[i]].message]]], shown>>
  BY RosterStep DEF ListOf
<1> QED
  BY <1>1, <1>2, Walking, PTL DEF Spec, RosterSpec, R!Spec


=============================================================================
