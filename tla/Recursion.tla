------------------------------ MODULE Recursion ------------------------------
(***************************************************************************)
(* Induction and recursion over data, in terms of sets and functions in the *)
(* place of operators: what the folds and recursive functions of the other  *)
(* modules need to be reasoned about.                                       *)
(***************************************************************************)
EXTENDS Sublist, SequenceTheorems, WellFoundedInduction, TLAPS

(* Every nonempty set of naturals has a least element.                      *)
LEMMA NatLeast ==
  ASSUME NEW T \in SUBSET Nat, T # {}
  PROVE  \E x \in T : \A y \in T : x <= y
<1>1. IsWellFoundedOn(OpToRel(<, Nat), Nat)
  BY NatLessThanWellFounded
<1>2. PICK x \in T : \A y \in T : ~(<<y, x>> \in OpToRel(<, Nat))
  BY <1>1, WFMin
<1>3. \A y \in T : ~(y < x)
  BY <1>2 DEF OpToRel
<1> QED
  BY <1>3

(* A set that holds 0, and with each number the next one, holds them all.   *)
LEMMA NatAll ==
  ASSUME NEW S, 0 \in S, \A n \in Nat : n \in S => n + 1 \in S
  PROVE  Nat \subseteq S
<1> SUFFICES ASSUME Nat \ S # {} PROVE FALSE
  OBVIOUS
<1>1. PICK x \in Nat \ S : \A y \in Nat \ S : x <= y
  BY NatLeast
<1>2. x # 0 /\ x - 1 \in Nat /\ x - 1 \in S
  BY <1>1
<1> QED
  BY <1>1, <1>2

(* The same up to a bound.                                                  *)
LEMMA UpTo ==
  ASSUME NEW L \in Nat, NEW S, 0 \in S,
         \A n \in 1 .. L : n - 1 \in S => n \in S
  PROVE  0 .. L \subseteq S
<1> DEFINE T == {n \in Nat : n <= L => n \in S}
<1>1. 0 \in T
  OBVIOUS
<1>2. \A n \in Nat : n \in T => n + 1 \in T
  <2> SUFFICES ASSUME NEW n \in Nat, n \in T, n + 1 <= L PROVE n + 1 \in S
    OBVIOUS
  <2>1. n + 1 \in 1 .. L /\ n \in S /\ (n + 1) - 1 = n
    OBVIOUS
  <2> QED
    BY <2>1
<1>3. Nat \subseteq T
  <2> HIDE DEF T
  <2> QED BY <1>1, <1>2, NatAll
<1> QED
  BY <1>3

-----------------------------------------------------------------------------
(* Values computed one from the other, beginning with b.                     *)
Steps(f, L, b, G) == f[0] = b /\ \A n \in 1 .. L : f[n] = G[n][f[n - 1]]

LEMMA RunExists ==
  ASSUME NEW V, NEW b \in V, NEW L \in Nat, NEW G \in [1 .. L -> [V -> V]]
  PROVE  \E f \in [0 .. L -> V] : Steps(f, L, b, G)
<1> DEFINE P(n, f) == /\ f \in [0 .. n -> V] /\ f[0] = b
                      /\ \A m \in 1 .. n : f[m] = G[m][f[m - 1]]
           S == {n \in 0 .. L : \E f : P(n, f)}
<1>1. 0 \in S
  <2>1. P(0, [n \in 0 .. 0 |-> b])
    OBVIOUS
  <2> HIDE DEF P
  <2> QED BY <2>1
<1>2. ASSUME NEW n \in 1 .. L, n - 1 \in S PROVE n \in S
  <2>1. PICK f : P(n - 1, f)
    BY <1>2
  <2> DEFINE g == [m \in 0 .. n |-> IF m = n THEN G[n][f[n - 1]] ELSE f[m]]
  <2>2. g \in [0 .. n -> V]
    BY <2>1
  <2>3. g[0] = b
    BY <2>1
  <2>4. \A m \in 1 .. n : g[m] = G[m][g[m - 1]]
    BY <2>1, SMTT(20)
  <2>5. P(n, g)
    BY <2>2, <2>3, <2>4
  <2> HIDE DEF P, g
  <2> QED
    BY <2>5
<1>3. L \in S
  <2> HIDE DEF S
  <2>1. 0 .. L \subseteq S
    BY <1>1, <1>2, UpTo
  <2> QED BY <2>1
<1>4. PICK f : P(L, f)
  BY <1>3
<1> QED
  BY <1>4 DEF Steps

-----------------------------------------------------------------------------
(* The folds of the community modules.                                       *)

LEMMA MinIs ==
  ASSUME NEW S \in SUBSET Nat, S # {}
  PROVE  Min(S) \in S /\ \A y \in S : Min(S) <= y
<1>1. \E x \in S : \A y \in S : x <= y
  BY NatLeast
<1> QED
  BY <1>1 DEF Min

LEMMA MaxIs ==
  ASSUME NEW L \in Nat, NEW S \in SUBSET (1 .. L), S # {}
  PROVE  Max(S) \in S /\ \A y \in S : y <= Max(S)
<1> DEFINE T == {L - x : x \in S}
<1>1. T \in SUBSET Nat /\ T # {}
  <2>1. \A x \in S : x \in 1 .. L /\ L - x \in Nat
    OBVIOUS
  <2>2. PICK s \in S : TRUE
    OBVIOUS
  <2>3. L - s \in T
    BY <2>2
  <2> QED BY <2>1, <2>3
<1>2. PICK t \in T : \A y \in T : t <= y
  <2> HIDE DEF T
  <2> QED BY <1>1, NatLeast
<1>3. PICK x \in S : t = L - x
  BY <1>2
<1>4. ASSUME NEW y \in S PROVE x >= y
  <2>1. L - y \in T
    OBVIOUS
  <2>2. L - x <= L - y
    BY <1>2, <1>3, <2>1
  <2>3. x \in Int /\ y \in Int
    OBVIOUS
  <2> QED BY <2>2, <2>3
<1>5. Max(S) \in S /\ \A y \in S : Max(S) >= y
  BY <1>4 DEF Max
<1> QED
  BY <1>5

\* What MapThenFoldSet computes for FoldLeft: the value of each set of indices.
Iterated(it, L, b, G) ==
  it = [s \in SUBSET (1 .. L) |->
          IF s = {} THEN b ELSE G[Max(s)][it[s \ {Max(s)}]]]

LEMMA IteratedExists ==
  ASSUME NEW V, NEW b \in V, NEW L \in Nat, NEW G \in [1 .. L -> [V -> V]]
  PROVE  \E it \in [SUBSET (1 .. L) -> V] : Iterated(it, L, b, G)
<1> DEFINE D == SUBSET (1 .. L)
           W == [D -> V]
           B == [s \in D |-> b]
           K == [k \in 1 .. L |-> [h \in W |->
                   [s \in D |-> IF k \in s THEN G[k][h[s \ {k}]] ELSE h[s]]]]
<1>1. B \in W
  OBVIOUS
<1>2. K \in [1 .. L -> [W -> W]]
  <2> SUFFICES ASSUME NEW k \in 1 .. L, NEW h \in W, NEW s \in D
               PROVE  (IF k \in s THEN G[k][h[s \ {k}]] ELSE h[s]) \in V
    OBVIOUS
  <2>1. s \ {k} \in D /\ h[s \ {k}] \in V /\ h[s] \in V /\ G[k] \in [V -> V]
    OBVIOUS
  <2> QED BY <2>1
<1>3. PICK f \in [0 .. L -> W] : Steps(f, L, B, K)
  <2> HIDE DEF W, B, K
  <2> QED BY <1>1, <1>2, RunExists
<1>4. /\ f[0] = B /\ \A k \in 1 .. L : f[k] = K[k][f[k - 1]]
      /\ \A k \in 0 .. L : f[k] \in W
      /\ L \in 0 .. L /\ \A k \in 1 .. L : k - 1 \in 0 .. L
  <2> HIDE DEF W, B, K
  <2> QED BY <1>3 DEF Steps
<1>5. \A k \in 1 .. L, s \in D :
        f[k][s] = IF k \in s THEN G[k][f[k - 1][s \ {k}]] ELSE f[k - 1][s]
  <2> SUFFICES ASSUME NEW k \in 1 .. L, NEW s \in D
               PROVE f[k][s] = IF k \in s THEN G[k][f[k - 1][s \ {k}]] ELSE f[k - 1][s]
    OBVIOUS
  <2>1. f[k - 1] \in W
    BY <1>4, Zenon
  <2>2. f[k] = [r \in D |-> IF k \in r THEN G[k][f[k - 1][r \ {k}]] ELSE f[k - 1][r]]
    BY <1>4, <2>1
  <2> QED
    BY <2>2
<1>6. ASSUME NEW s \in D, NEW j \in 0 .. L, \A k \in s : k <= j
      PROVE  f[L][s] = f[j][s]
  <2> DEFINE S == {n \in 0 .. L : n >= j => f[n][s] = f[j][s]}
  <2>1. 0 \in S
    OBVIOUS
  <2>2. ASSUME NEW n \in 1 .. L, n - 1 \in S PROVE n \in S
    <3>1. CASE n <= j
      BY <3>1
    <3>2. CASE n > j
      <4>1. n \notin s
        BY <1>6, <3>2
      <4>2. f[n][s] = f[n - 1][s]
        BY <1>5, <4>1
      <4>3. n - 1 >= j /\ f[n - 1][s] = f[j][s]
        BY <2>2, <3>2
      <4> QED
        BY <4>2, <4>3
    <3> QED
      BY <3>1, <3>2
  <2>3. 0 .. L \subseteq S
    <3> HIDE DEF S
    <3> QED BY <2>1, <2>2, UpTo
  <2> QED
    BY <2>3
<1>7. ASSUME NEW s \in D
      PROVE f[L][s] = IF s = {} THEN b ELSE G[Max(s)][f[L][s \ {Max(s)}]]
  <2>1. CASE s = {}
    <3>1. f[L][s] = f[0][s]
      BY <1>6, <2>1
    <3> QED BY <1>4, <2>1, <3>1
  <2>2. CASE s # {}
    <3> DEFINE m == Max(s)
    <3>1. m \in s /\ m \in 1 .. L /\ \A y \in s : y <= m
      BY <2>2, MaxIs
    <3> HIDE DEF m
    <3>2. f[L][s] = f[m][s]
      BY <1>6, <3>1
    <3>3. f[m][s] = G[m][f[m - 1][s \ {m}]]
      BY <1>5, <3>1
    <3>4. s \ {m} \in D /\ \A y \in s \ {m} : y <= m - 1
      BY <3>1
    <3>5. f[L][s \ {m}] = f[m - 1][s \ {m}]
      BY <1>6, <3>1, <3>4
    <3> QED
      BY <2>2, <3>2, <3>3, <3>5 DEF m
  <2> QED
    BY <2>1, <2>2
<1>8. f[L] \in W /\ f[L] = [s \in D |-> f[L][s]]
  <2>1. f[L] \in W
    BY <1>4, Zenon
  <2> QED BY <2>1
<1> QED
  BY <1>7, <1>8, ZenonT(40) DEF Iterated

(* What holds of the empty sequence, and of one with one more element when   *)
(* it holds of the sequence, holds of all.                                   *)
LEMMA SeqAll ==
  ASSUME NEW A, NEW T, <<>> \in T,
         \A s \in Seq(A) : s \in T => \A x \in A : Append(s, x) \in T
  PROVE  Seq(A) \subseteq T
<1> DEFINE S == {n \in Nat : \A s \in Seq(A) : Len(s) = n => s \in T}
<1>1. 0 \in S
  BY EmptySeq
<1>2. \A n \in Nat : n \in S => n + 1 \in S
  <2> SUFFICES ASSUME NEW n \in Nat, n \in S, NEW s \in Seq(A), Len(s) = n + 1
               PROVE  s \in T
    OBVIOUS
  <2>1. s # <<>>
    BY EmptySeq
  <2>2. PICK r \in Seq(A), x \in A : s = Append(r, x)
    BY <2>1, SequenceEmptyOrAppend
  <2>3. Len(r) = n
    BY <2>2, AppendProperties, LenProperties
  <2>4. r \in T
    BY <2>3
  <2> QED BY <2>2, <2>4
<1>3. Nat \subseteq S
  <2> HIDE DEF S
  <2> QED BY <1>1, <1>2, NatAll
<1> QED
  BY <1>3, LenProperties

(* FoldLeft on a sequence: c is the function that its definition chooses,    *)
(* and each step is known as far as the values stay in V.                    *)
Folds(c, L, b, G, V) ==
  /\ c[{}] = b
  /\ \A n \in 1 .. L : c[1 .. n - 1] \in V => c[1 .. n] = G[n][c[1 .. n - 1]]

LEMMA FoldIs ==
  ASSUME NEW V, NEW b \in V, NEW L \in Nat, NEW G \in [1 .. L -> [V -> V]], NEW c,
         Folds(c, L, b, G, V)
  PROVE  \E f \in [0 .. L -> V] : Steps(f, L, b, G) /\ c[1 .. L] = f[L]
<1>1. PICK f \in [0 .. L -> V] : Steps(f, L, b, G)
  BY RunExists
<1> DEFINE S == {n \in 0 .. L : c[1 .. n] = f[n]}
<1>2. 0 \in S
  <2>1. 1 .. 0 = {}
    OBVIOUS
  <2> QED BY <1>1, <2>1 DEF Steps, Folds
<1>3. ASSUME NEW n \in 1 .. L, n - 1 \in S PROVE n \in S
  <2>1. n - 1 \in 0 .. L /\ n \in 0 .. L /\ c[1 .. n - 1] = f[n - 1]
    BY <1>3
  <2>2. f[n - 1] \in V
    BY <2>1
  <2>3. c[1 .. n] = G[n][f[n - 1]]
    BY <2>1, <2>2 DEF Folds
  <2>4. f[n] = G[n][f[n - 1]]
    BY <1>1 DEF Steps
  <2> QED BY <2>1, <2>3, <2>4
<1>4. 0 .. L \subseteq S
  <2> HIDE DEF S
  <2> QED BY <1>2, <1>3, UpTo
<1> QED
  BY <1>1, <1>4

LEMMA MaxUpTo ==
  ASSUME NEW n \in Nat, n > 0
  PROVE  Max(1 .. n) = n /\ (1 .. n) \ {n} = 1 .. n - 1 /\ 1 .. n # {}
<1>1. 1 .. n \in SUBSET (1 .. n) /\ n \in 1 .. n
  OBVIOUS
<1>2. Max(1 .. n) \in 1 .. n /\ \A y \in 1 .. n : y <= Max(1 .. n)
  BY <1>1, MaxIs
<1> QED
  BY <1>1, <1>2

(* What a fold over s computes when an element x turns v into H[x][v].       *)
Folding(u, s, b, H, V) ==
  \E c : Folds(c, Len(s), b, [n \in 1 .. Len(s) |-> H[s[n]]], V) /\ u = c[1 .. Len(s)]

LEMMA FoldNone ==
  ASSUME NEW u, NEW b, NEW H, NEW V, Folding(u, <<>>, b, H, V)
  PROVE  u = b
<1>1. Len(<<>>) = 0 /\ 1 .. 0 = {}
  BY EmptySeq
<1> QED BY <1>1 DEF Folding, Folds

(* Two folds that agree as far as the first goes.                            *)
Longer(K, G, L, V) == G \in [1 .. L -> [V -> V]] /\ \A n \in 1 .. L : K[n] = G[n]

LEMMA FoldNext ==
  ASSUME NEW V, NEW b \in V, NEW L \in Nat, NEW M, M = L + 1,
         NEW G, NEW K, Longer(K, G, L, V),
         NEW c, Folds(c, L, b, G, V), NEW d, Folds(d, M, b, K, V)
  PROVE  c[1 .. L] \in V /\ d[1 .. M] = K[M][c[1 .. L]]
<1>0. G \in [1 .. L -> [V -> V]] /\ \A n \in 1 .. L : K[n] = G[n]
  BY DEF Longer
<1>1. PICK f \in [0 .. L -> V] : Steps(f, L, b, G) /\ c[1 .. L] = f[L]
  BY <1>0, FoldIs
<1> DEFINE S == {n \in 0 .. L : d[1 .. n] = f[n]}
<1>2. 0 \in S
  <2>1. 1 .. 0 = {}
    OBVIOUS
  <2> QED BY <1>1, <2>1 DEF Steps, Folds
<1>3. ASSUME NEW n \in 1 .. L, n - 1 \in S PROVE n \in S
  <2>1. n - 1 \in 0 .. L /\ n \in 0 .. L /\ d[1 .. n - 1] = f[n - 1] /\ n \in 1 .. M
    BY <1>3
  <2>2. f[n - 1] \in V
    BY <2>1
  <2>3. d[1 .. n] = K[n][f[n - 1]]
    BY <2>1, <2>2 DEF Folds
  <2>4. f[n] = G[n][f[n - 1]] /\ K[n] = G[n]
    BY <1>0, <1>1 DEF Steps
  <2> QED BY <2>1, <2>3, <2>4
<1>4. 0 .. L \subseteq S
  <2> HIDE DEF S
  <2> QED BY <1>2, <1>3, UpTo
<1>5. d[1 .. L] = f[L] /\ f[L] \in V
  <2>1. L \in 0 .. L
    OBVIOUS
  <2> QED BY <1>4, <2>1
<1>6. M \in 1 .. M /\ M - 1 = L
  OBVIOUS
<1> QED
  BY <1>1, <1>5, <1>6 DEF Folds

LEMMA FoldMore ==
  ASSUME NEW A, NEW V, NEW b \in V, NEW H \in [A -> [V -> V]], NEW s \in Seq(A), NEW x \in A,
         NEW u, Folding(u, s, b, H, V), NEW w, Folding(w, Append(s, x), b, H, V)
  PROVE  u \in V /\ w = H[x][u]
<1> DEFINE L == Len(s)
           t == Append(s, x)
           M == Len(t)
           G == [n \in 1 .. L |-> H[s[n]]]
           K == [n \in 1 .. M |-> H[t[n]]]
<1>1. /\ t \in Seq(A) /\ M = L + 1 /\ t[L + 1] = x /\ L \in Nat
      /\ \A n \in 1 .. L : t[n] = s[n] /\ s[n] \in A
  BY AppendProperties, LenProperties, ElementOfSeq
<1> HIDE DEF t
<1>2. G \in [1 .. L -> [V -> V]]
  BY <1>1
<1>3. PICK c : Folds(c, L, b, G, V) /\ u = c[1 .. L]
  BY DEF Folding
<1>4. PICK d : Folds(d, M, b, K, V) /\ w = d[1 .. M]
  BY DEF Folding, t
<1>5. Longer(K, G, L, V) /\ K[M] = H[x]
  BY <1>1, <1>2 DEF Longer
<1>6. L \in Nat /\ M = L + 1 /\ b \in V
  BY <1>1
<1>7. c[1 .. L] \in V /\ d[1 .. M] = K[M][c[1 .. L]]
  <2> HIDE DEF L, M, G, K
  <2> QED BY <1>3, <1>4, <1>5, <1>6, FoldNext
<1> HIDE DEF L, M, G, K
<1> QED
  BY <1>3, <1>4, <1>5, <1>7

(* FlattenSeq appends one sequence after the other.                          *)
Flattens(ss, f, L) ==
  /\ f[0] = <<>>
  /\ \A i \in 1 .. L : f[i] = f[i - 1] \o ss[i]
  /\ FlattenSeq(ss) = f[L]

LEMMA FlattenIs ==
  ASSUME NEW V, NEW ss \in Seq(Seq(V)), NEW L, L = Len(ss)
  PROVE  \E f \in [0 .. L -> Seq(V)] : Flattens(ss, f, L)
<1> DEFINE W == Seq(V)
           G == [i \in 1 .. L |-> [s \in W |-> s \o ss[i]]]
           flat(g) == g = [i \in 1 .. L |-> IF i = 1 THEN ss[i] ELSE g[i - 1] \o ss[i]]
<1>1. /\ L \in Nat /\ <<>> \in W
      /\ \A i \in 1 .. L : ss[i] \in W
  BY LenProperties, ElementOfSeq
<1>2. G \in [1 .. L -> [W -> W]]
  BY <1>1, ConcatProperties
<1>3. PICK f \in [0 .. L -> W] :
        Steps(f, L, <<>>, G)
  <2> HIDE DEF G, W
  <2> QED BY <1>1, <1>2, RunExists
<1>4. /\ f[0] = <<>> /\ \A i \in 1 .. L : f[i] = G[i][f[i - 1]]
      /\ \A i \in 0 .. L : f[i] \in W
  <2> HIDE DEF G, W
  <2> QED BY <1>3 DEF Steps
<1>5. ASSUME NEW i \in 1 .. L PROVE f[i] = f[i - 1] \o ss[i]
  <2>1. i - 1 \in 0 .. L
    BY <1>1
  <2>2. f[i - 1] \in W
    BY <1>4, <2>1, Zenon
  <2>3. G[i][f[i - 1]] = f[i - 1] \o ss[i]
    BY <2>2
  <2> QED BY <1>4, <2>3, Zenon
<1>6. L > 0 => f[1] = ss[1]
  <2> SUFFICES ASSUME L > 0 PROVE f[1] = ss[1]
    OBVIOUS
  <2>1. 1 \in 1 .. L /\ 1 - 1 = 0
    BY <1>1
  <2>2. f[1] = f[1 - 1] \o ss[1] /\ ss[1] \in W
    <3> HIDE DEF W, G
    <3> QED BY <1>1, <1>5, <2>1
  <2>3. f[1] = <<>> \o ss[1]
    BY <1>4, <2>1, <2>2
  <2> QED BY <2>2, <2>3, ConcatEmptySeq
<1>7. FlattenSeq(ss) = f[L]
  <2>1. CASE L = 0
    BY <2>1, <1>4, EmptySeq, LenProperties DEF FlattenSeq
  <2>2. CASE L # 0
    <3> DEFINE h == [i \in 1 .. L |-> f[i]]
               c == CHOOSE g : flat(g)
    <3>1. flat(h)
      <4> SUFFICES ASSUME NEW i \in 1 .. L
                   PROVE f[i] = IF i = 1 THEN ss[i] ELSE h[i - 1] \o ss[i]
        OBVIOUS
      <4>1. CASE i = 1
        BY <1>6, <4>1
      <4>2. CASE i # 1
        <5>1. i - 1 \in 1 .. L
          BY <1>1, <4>2
        <5>2. h[i - 1] = f[i - 1]
          BY <5>1
        <5> HIDE DEF h
        <5> QED BY <1>5, <4>2, <5>2
      <4> QED BY <4>1, <4>2
    <3>2. flat(c)
      <4> HIDE DEF flat, h
      <4> QED BY <3>1
    <3>3. \A i \in 1 .. L : c[i] = IF i = 1 THEN ss[i] ELSE c[i - 1] \o ss[i]
      <4> DEFINE d == [i \in 1 .. L |-> IF i = 1 THEN ss[i] ELSE c[i - 1] \o ss[i]]
      <4>1. \A i \in 1 .. L : d[i] = IF i = 1 THEN ss[i] ELSE c[i - 1] \o ss[i]
        OBVIOUS
      <4>2. c = d
        BY <3>2
      <4> HIDE DEF c, d
      <4> QED BY <4>1, <4>2
    <3>4. FlattenSeq(ss) = c[L]
      BY <2>2 DEF FlattenSeq
    <3> DEFINE S == {n \in 0 .. L : n > 0 => c[n] = f[n]}
    <3>5. 0 \in S
      OBVIOUS
    <3> HIDE DEF c
    <3>6. ASSUME NEW n \in 1 .. L, n - 1 \in S PROVE n \in S
      <4>1. CASE n = 1
        BY <1>6, <3>3, <4>1
      <4>2. CASE n # 1
        <5>1. n - 1 > 0 /\ c[n - 1] = f[n - 1] /\ n \in 0 .. L
          BY <1>1, <3>6, <4>2
        <5>2. c[n] = f[n]
          BY <1>5, <3>3, <4>2, <5>1
        <5> QED BY <5>1, <5>2
      <4> QED BY <4>1, <4>2
    <3>7. 0 .. L \subseteq S
      <4> HIDE DEF S
      <4> QED BY <1>1, <3>5, <3>6, UpTo
    <3> QED
      BY <1>1, <2>2, <3>4, <3>7
  <2> QED
    BY <2>1, <2>2
<1> QED
  BY <1>3, <1>4, <1>5, <1>7 DEF Flattens

LEMMA FlattenMore ==
  ASSUME NEW V, NEW ss \in Seq(Seq(V)), NEW x \in Seq(V)
  PROVE  /\ FlattenSeq(ss) \in Seq(V)
         /\ FlattenSeq(Append(ss, x)) = FlattenSeq(ss) \o x
<1> DEFINE L == Len(ss)
           tt == Append(ss, x)
<1>1. /\ L \in Nat /\ tt \in Seq(Seq(V)) /\ Len(tt) = L + 1 /\ tt[L + 1] = x
      /\ \A i \in 1 .. L : tt[i] = ss[i]
  BY AppendProperties, LenProperties
<1> HIDE DEF tt
<1>2. PICK f \in [0 .. L -> Seq(V)] : Flattens(ss, f, L)
  BY FlattenIs
<1> DEFINE M == L + 1
<1>3. M \in Nat /\ M = Len(tt) /\ M - 1 = L /\ M \in 1 .. M
      /\ \A n \in 1 .. L : n \in 1 .. M
  BY <1>1
<1> HIDE DEF M
<1>4. PICK g \in [0 .. M -> Seq(V)] : Flattens(tt, g, M)
  BY <1>1, <1>3, FlattenIs
<1> DEFINE S == {n \in 0 .. L : f[n] = g[n]}
<1>5. 0 \in S
  BY <1>1, <1>2, <1>4 DEF Flattens
<1>6. ASSUME NEW n \in 1 .. L, n - 1 \in S PROVE n \in S
  <2>1. n \in 1 .. M /\ n \in 0 .. L /\ f[n - 1] = g[n - 1]
    BY <1>1, <1>3, <1>6
  <2> QED BY <1>1, <1>2, <1>4, <2>1 DEF Flattens
<1>7. 0 .. L \subseteq S
  <2> HIDE DEF S
  <2> QED BY <1>1, <1>5, <1>6, UpTo
<1>8. f[L] = g[L] /\ f[L] \in Seq(V)
  <2>1. L \in 0 .. L
    BY <1>1
  <2> HIDE DEF L
  <2> QED BY <1>7, <2>1
<1>9. g[M] = g[L] \o x
  <2>1. g[M] = g[M - 1] \o tt[M]
    BY <1>3, <1>4 DEF Flattens
  <2> QED BY <1>1, <1>3, <2>1 DEF M
<1> QED
  BY <1>2, <1>4, <1>8, <1>9 DEF Flattens, tt

LEMMA FlattenNone == FlattenSeq(<<>>) = <<>>
BY EmptySeq DEF FlattenSeq

(* A sequence with one element more, as a function of the positions.         *)
Each(F, s) == [i \in DOMAIN s |-> F[s[i]]]

Grows(A, B, F) ==
  \A s \in Seq(A), c \in A :
    Each(F, s) \in Seq(B) /\ Each(F, Append(s, c)) = Append(Each(F, s), F[c])

LEMMA EachMore ==
  ASSUME NEW A, NEW B, NEW F \in [A -> B]
  PROVE  Grows(A, B, F)
<1> SUFFICES ASSUME NEW s \in Seq(A), NEW c \in A
             PROVE  Each(F, s) \in Seq(B) /\ Each(F, Append(s, c)) = Append(Each(F, s), F[c])
  BY DEF Grows
<1> DEFINE t == Append(s, c)
           m == [i \in DOMAIN s |-> F[s[i]]]
           k == [i \in DOMAIN t |-> F[t[i]]]
<1>1. /\ t \in Seq(A) /\ Len(t) = Len(s) + 1 /\ t[Len(s) + 1] = c
      /\ \A i \in 1 .. Len(s) : t[i] = s[i]
      /\ Len(s) \in Nat /\ DOMAIN s = 1 .. Len(s) /\ DOMAIN t = 1 .. Len(s) + 1
      /\ \A i \in 1 .. Len(s) : s[i] \in A
  BY AppendProperties, LenProperties, ElementOfSeq
<1> HIDE DEF t
<1>2. m \in Seq(B) /\ Len(m) = Len(s)
  BY <1>1
<1>3. k \in Seq(B) /\ Len(k) = Len(s) + 1
  BY <1>1
<1>4. /\ Append(m, F[c]) \in Seq(B) /\ Len(Append(m, F[c])) = Len(s) + 1
      /\ Append(m, F[c])[Len(s) + 1] = F[c]
      /\ \A i \in 1 .. Len(s) : Append(m, F[c])[i] = m[i]
  <2>1. F[c] \in B
    OBVIOUS
  <2> HIDE DEF m
  <2> QED BY <1>2, <2>1, AppendProperties
<1>5. ASSUME NEW i \in 1 .. Len(k) PROVE k[i] = Append(m, F[c])[i]
  <2>1. CASE i = Len(s) + 1
    BY <1>1, <1>4, <2>1
  <2>2. CASE i # Len(s) + 1
    <3>1. i \in 1 .. Len(s)
      BY <1>1, <1>3, <2>2
    <3>2. Append(m, F[c])[i] = F[s[i]]
      BY <1>1, <1>4, <3>1
    <3>3. k[i] = F[t[i]] /\ t[i] = s[i]
      BY <1>1, <3>1
    <3> QED BY <3>2, <3>3
  <2> QED BY <2>1, <2>2
<1>6. k = Append(m, F[c])
  <2> HIDE DEF k, m
  <2> QED BY <1>3, <1>4, <1>5, SeqEqual
<1> QED
  BY <1>2, <1>6 DEF t, Each

LEMMA MapMore ==
  ASSUME NEW A, NEW B, NEW s \in Seq(A), NEW c \in A, NEW F \in [A -> B]
  PROVE  Each(F, s) \in Seq(B) /\ Each(F, Append(s, c)) = Append(Each(F, s), F[c])
<1>1. Grows(A, B, F)
  BY EachMore
<1> QED BY <1>1 DEF Grows

LEMMA ConcatMore ==
  ASSUME NEW A, NEW s \in Seq(A), NEW t \in Seq(A), NEW c \in A, NEW d \in A
  PROVE  /\ s \o <<c>> = Append(s, c)
         /\ s \o <<c, d>> = Append(Append(s, c), d)
         /\ s \o Append(t, c) = Append(s \o t, c)
<1>1. s \o <<c>> = Append(s, c)
  BY AppendIsConcat
<1>2. s \o Append(t, c) = Append(s \o t, c)
  <2>1. <<c>> \in Seq(A) /\ s \o t \in Seq(A) /\ Append(t, c) = t \o <<c>>
    BY AppendIsConcat, ConcatProperties
  <2>2. (s \o t) \o <<c>> = s \o (t \o <<c>>)
    BY <2>1, ConcatAssociative
  <2> QED BY <2>1, <2>2, AppendIsConcat
<1>3. s \o <<c, d>> = Append(Append(s, c), d)
  <2>1. <<c>> \in Seq(A) /\ <<c, d>> = Append(<<c>>, d)
    OBVIOUS
  <2>2. s \o Append(<<c>>, d) = Append(s \o <<c>>, d)
    <3>1. /\ <<c>> \o <<d>> = Append(<<c>>, d) /\ <<d>> \in Seq(A) /\ s \o <<c>> \in Seq(A)
      BY <2>1, AppendIsConcat, ConcatProperties
    <3>2. (s \o <<c>>) \o <<d>> = s \o (<<c>> \o <<d>>)
      BY <2>1, <3>1, ConcatAssociative
    <3> QED BY <3>1, <3>2, AppendIsConcat
  <2> QED BY <1>1, <2>1, <2>2
<1> QED
  BY <1>1, <1>2, <1>3

LEMMA TupleIs ==
  ASSUME NEW A, NEW a \in A, NEW b \in A, NEW c \in A, NEW d \in A
  PROVE  /\ <<a, b, c, d>> \in Seq(A) /\ Len(<<a, b, c, d>>) = 4
         /\ <<b, c, d>> \in Seq(A) /\ Len(<<b, c, d>>) = 3
OBVIOUS

LEMMA AppendConcat ==
  ASSUME NEW A, NEW s \in Seq(A), NEW a \in A, NEW f \in Seq(A), NEW t \in Seq(A),
         Len(f) = Len(t) + 1, f[1] = a, \A i \in 1 .. Len(t) : f[i + 1] = t[i]
  PROVE  s \o f = Append(s, a) \o t
<1> DEFINE o == <<a>>
<1>1. o \in Seq(A) /\ Len(o) = 1 /\ o[1] = a /\ Len(t) \in Nat
  BY LenProperties
<1> HIDE DEF o
<1>2. /\ o \o t \in Seq(A) /\ Len(o \o t) = Len(o) + Len(t)
      /\ \A i \in 1 .. Len(o) + Len(t) :
           (o \o t)[i] = IF i <= Len(o) THEN o[i] ELSE t[i - Len(o)]
  BY <1>1, ConcatProperties
<1>3. ASSUME NEW i \in 1 .. Len(f) PROVE (o \o t)[i] = f[i]
  <2>1. CASE i = 1
    BY <1>1, <1>2, <2>1
  <2>2. CASE i # 1
    <3>1. i - 1 \in 1 .. Len(t) /\ ~(i <= Len(o)) /\ i \in 1 .. Len(o) + Len(t)
      BY <1>1, <2>2
    <3>2. (o \o t)[i] = t[i - 1]
      BY <1>1, <1>2, <3>1
    <3>3. f[(i - 1) + 1] = t[i - 1] /\ (i - 1) + 1 = i
      BY <3>1
    <3> QED BY <3>2, <3>3
  <2> QED BY <2>1, <2>2
<1>4. o \o t = f
  BY <1>1, <1>2, <1>3, SeqEqual
<1>5. Append(s, a) = s \o o
  BY AppendIsConcat DEF o
<1> HIDE DEF o
<1>6. ASSUME NEW u \in Seq(A) PROVE (s \o u) \o t = s \o (u \o t)
  BY ConcatAssociative, SMTT(30)
<1>7. (s \o o) \o t = s \o (o \o t)
  BY <1>1, <1>6, Zenon
<1> QED
  BY <1>4, <1>5, <1>7

-----------------------------------------------------------------------------
(* The entries of a list that are in a set.                                 *)

Picked(S, kept, e) == IF e \in S THEN Append(kept, e) ELSE kept

Picking(A, S) == [x \in A |-> [v \in Seq(A) |-> Picked(S, v, x)]]

LEMMA PickingType ==
  ASSUME NEW A, NEW S
  PROVE  /\ Picking(A, S) \in [A -> [Seq(A) -> Seq(A)]]
         /\ \A x \in A, v \in Seq(A) : Picking(A, S)[x][v] = Picked(S, v, x)
<1> DEFINE V == Seq(A)
           H == Picking(A, S)
<1>1. \A x \in A, v \in V : Picked(S, v, x) \in V
  BY AppendProperties DEF Picked
<1>2. \A x \in A : [v \in V |-> Picked(S, v, x)] \in [V -> V]
  <2> HIDE DEF V
  <2> QED BY <1>1
<1>3. H \in [A -> [V -> V]]
  BY <1>2 DEF Picking
<1> QED
  BY <1>3 DEF Picking

LEMMA OnlyFold ==
  ASSUME NEW A, NEW S, NEW s \in Seq(A)
  PROVE  Folding(Only(s, S), s, <<>>, Picking(A, S), Seq(A))
<1> DEFINE L == Len(s)
           V == Seq(A)
           H == Picking(A, S)
           G == [n \in 1 .. L |-> H[s[n]]]
           D == SUBSET (1 .. L)
           Q(it) == it = [t \in D |-> IF t = {} THEN <<>>
                           ELSE Picked(S, it[t \ {Max(t)}], s[Max(t)])]
           c == CHOOSE it : Q(it)
<1>1. L \in Nat /\ DOMAIN s = 1 .. L /\ \A n \in 1 .. L : s[n] \in A
  BY LenProperties, ElementOfSeq
<1>2. <<>> \in V
  BY EmptySeq
<1>3. H \in [A -> [V -> V]] /\ \A x \in A, v \in V : H[x][v] = Picked(S, v, x)
  BY PickingType
<1> HIDE DEF H
<1>4. /\ G \in [1 .. L -> [V -> V]]
      /\ \A n \in 1 .. L, v \in V : G[n][v] = Picked(S, v, s[n])
  BY <1>1, <1>3
<1>5. PICK it \in [D -> V] : Iterated(it, L, <<>>, G)
  <2> HIDE DEF V, G, L
  <2> QED BY <1>1, <1>2, <1>4, IteratedExists
<1> HIDE DEF G
<1>6. Q(it)
  <2>1. ASSUME NEW t \in D, t # {}
        PROVE  G[Max(t)][it[t \ {Max(t)}]] = Picked(S, it[t \ {Max(t)}], s[Max(t)])
    <3>1. Max(t) \in 1 .. L
      BY <1>1, <2>1, MaxIs
    <3>2. it[t \ {Max(t)}] \in V
      <4> HIDE DEF V, L
      <4> QED BY <2>1
    <3> HIDE DEF V, L
    <3> QED BY <1>4, <3>1, <3>2
  <2> HIDE DEF V, L
  <2> QED BY <1>5, <2>1 DEF Iterated
<1>7. Q(c)
  <2> HIDE DEF Q
  <2> QED BY <1>6
<1>8. \A t \in D : c[t] = IF t = {} THEN <<>>
                          ELSE Picked(S, c[t \ {Max(t)}], s[Max(t)])
  <2> HIDE DEF c
  <2> DEFINE g == [t \in D |-> IF t = {} THEN <<>>
                           ELSE Picked(S, c[t \ {Max(t)}], s[Max(t)])]
  <2>1. c = g
    BY <1>7
  <2>2. \A t \in D : g[t] = IF t = {} THEN <<>>
                            ELSE Picked(S, c[t \ {Max(t)}], s[Max(t)])
    OBVIOUS
  <2> HIDE DEF g
  <2> QED BY <2>1, <2>2
<1>9. Only(s, S) = c[1 .. L]
  BY <1>1 DEF Only, FoldLeft, MapThenFoldSet, Picked
<1> HIDE DEF c
<1>10. ASSUME NEW n \in 1 .. L, c[1 .. n - 1] \in V
       PROVE  c[1 .. n] = G[n][c[1 .. n - 1]]
  <2>1. n \in Nat /\ n > 0 /\ 1 .. n \in D
    BY <1>1
  <2>2. c[1 .. n] = Picked(S, c[1 .. n - 1], s[n])
    BY <1>8, <2>1, MaxUpTo
  <2> QED BY <1>4, <1>10, <2>2
<1>11. Folds(c, L, <<>>, G, V)
  <2>1. c[{}] = <<>>
    <3>1. {} \in D
      OBVIOUS
    <3> QED BY <1>8, <3>1
  <2> HIDE DEF V
  <2> QED BY <1>10, <2>1 DEF Folds
<1> QED
  BY <1>9, <1>11 DEF Folding, G, H

LEMMA OnlyNone ==
  ASSUME NEW S
  PROVE  Only(<<>>, S) = <<>>
<1> DEFINE A == {}
           u == Only(<<>>, S)
           H == Picking(A, S)
<1>1. <<>> \in Seq(A)
  BY EmptySeq
<1>2. Folding(u, <<>>, <<>>, H, Seq(A))
  BY <1>1, OnlyFold
<1> HIDE DEF A, u, H
<1> QED BY <1>2, FoldNone DEF u

LEMMA OnlyMore ==
  ASSUME NEW A, NEW S, NEW s \in Seq(A), NEW x \in A
  PROVE  /\ Only(s, S) \in Seq(A)
         /\ Only(Append(s, x), S) = IF x \in S THEN Append(Only(s, S), x) ELSE Only(s, S)
<1> DEFINE V == Seq(A)
           H == Picking(A, S)
           t == Append(s, x)
           u == Only(s, S)
           w == Only(t, S)
<1>1. <<>> \in V /\ t \in Seq(A)
  BY EmptySeq, AppendProperties
<1>2. H \in [A -> [V -> V]]
  BY PickingType
<1>3. Folding(u, s, <<>>, H, V) /\ Folding(w, t, <<>>, H, V)
  BY <1>1, OnlyFold
<1>4. u \in V /\ w = H[x][u]
  <2> HIDE DEF u, w, H, V
  <2> QED BY <1>1, <1>2, <1>3, FoldMore
<1>5. H[x][u] = Picked(S, u, x)
  BY <1>4, PickingType
<1> QED
  BY <1>4, <1>5 DEF Picked

LEMMA OnlyType ==
  ASSUME NEW A, NEW S, NEW s \in Seq(A)
  PROVE  Only(s, S) \in Seq(A)
<1>1. CASE s = <<>>
  BY <1>1, OnlyNone, EmptySeq
<1>2. CASE s # <<>>
  <2>1. PICK r \in Seq(A), x \in A : s = Append(r, x)
    BY <1>2, SequenceEmptyOrAppend
  <2> QED BY <2>1, OnlyMore, AppendProperties
<1> QED BY <1>1, <1>2

LEMMA AppendLast ==
  ASSUME NEW A, NEW s \in Seq(A), NEW t \in Seq(A), NEW x \in A
  PROVE  s \o Append(t, x) = Append(s \o t, x)
<1>1. <<x>> \in Seq(A) /\ s \o t \in Seq(A)
  BY ConcatProperties
<1>2. Append(t, x) = t \o <<x>> /\ Append(s \o t, x) = (s \o t) \o <<x>>
  BY <1>1, AppendIsConcat
<1>3. (s \o t) \o <<x>> = s \o (t \o <<x>>)
  BY <1>1, ConcatAssociative
<1> QED
  BY <1>2, <1>3

LEMMA OnlySame ==
  ASSUME NEW A, NEW S, NEW T, NEW s \in Seq(A),
         \A i \in 1 .. Len(s) : s[i] \in S <=> s[i] \in T
  PROVE  Only(s, S) = Only(s, T)
<1> DEFINE G(r) == \A i \in 1 .. Len(r) : r[i] \in S <=> r[i] \in T
           U == {r \in Seq(A) : G(r) => Only(r, S) = Only(r, T)}
<1>1. <<>> \in U
  BY OnlyNone, EmptySeq
<1>2. ASSUME NEW r \in Seq(A), r \in U, NEW x \in A PROVE Append(r, x) \in U
  <2> DEFINE t == Append(r, x)
  <2>1. /\ t \in Seq(A) /\ Len(t) = Len(r) + 1 /\ Len(r) \in Nat /\ t[Len(r) + 1] = x
        /\ \A i \in 1 .. Len(r) : t[i] = r[i] /\ i \in 1 .. Len(r) + 1
    BY AppendProperties, LenProperties
  <2> HIDE DEF t
  <2>2. Len(r) + 1 \in 1 .. Len(t)
    BY <2>1
  <2>3. ASSUME G(t) PROVE Only(t, S) = Only(t, T)
    <3>1. G(r) /\ (x \in S <=> x \in T)
      BY <2>1, <2>2, <2>3
    <3>2. Only(r, S) = Only(r, T)
      BY <1>2, <3>1
    <3>3. /\ Only(t, S) = IF x \in S THEN Append(Only(r, S), x) ELSE Only(r, S)
          /\ Only(t, T) = IF x \in T THEN Append(Only(r, T), x) ELSE Only(r, T)
      BY <1>2, OnlyMore DEF t
    <3> QED BY <3>1, <3>2, <3>3
  <2> QED BY <2>1, <2>3 DEF t
<1>3. Seq(A) \subseteq U
  <2> HIDE DEF U
  <2> QED BY <1>1, <1>2, SeqAll
<1> QED BY <1>3

LEMMA OnlyOnly ==
  ASSUME NEW A, NEW S, NEW T, NEW s \in Seq(A)
  PROVE  /\ Only(Only(s, S), S) = Only(s, S)
         /\ S \cap T = {} => Only(Only(s, S), T) = <<>>
<1> DEFINE U == {r \in Seq(A) : /\ Only(Only(r, S), S) = Only(r, S)
                                /\ S \cap T = {} => Only(Only(r, S), T) = <<>>}
<1>1. <<>> \in U
  BY OnlyNone, EmptySeq
<1>2. ASSUME NEW r \in Seq(A), r \in U, NEW x \in A PROVE Append(r, x) \in U
  <2> DEFINE t == Append(r, x)
             u == Only(r, S)
             v == Only(t, S)
  <2>1. u \in Seq(A) /\ t \in Seq(A) /\ v = IF x \in S THEN Append(u, x) ELSE u
    BY <1>2, OnlyMore, AppendProperties
  <2>2. Only(u, S) = u /\ (S \cap T = {} => Only(u, T) = <<>>)
    BY <1>2
  <2> HIDE DEF t, u, v
  <2>3. /\ Only(Append(u, x), S) = IF x \in S THEN Append(Only(u, S), x) ELSE Only(u, S)
        /\ Only(Append(u, x), T) = IF x \in T THEN Append(Only(u, T), x) ELSE Only(u, T)
    BY <2>1, OnlyMore
  <2>4. Only(v, S) = v /\ (S \cap T = {} => Only(v, T) = <<>>)
    BY <2>1, <2>2, <2>3
  <2> QED BY <2>1, <2>4 DEF t, v
<1>3. Seq(A) \subseteq U
  <2> HIDE DEF U
  <2> QED BY <1>1, <1>2, SeqAll
<1> QED BY <1>3

LEMMA OnlyConcat ==
  ASSUME NEW A, NEW S, NEW s \in Seq(A), NEW t \in Seq(A)
  PROVE  Only(s \o t, S) = Only(s, S) \o Only(t, S)
<1> DEFINE u == Only(s, S)
           U == {r \in Seq(A) : Only(s \o r, S) = u \o Only(r, S)}
<1>0. u \in Seq(A)
  BY OnlyType
<1>1. <<>> \in U
  <2>1. s \o <<>> = s /\ u \o <<>> = u /\ <<>> \in Seq(A)
    BY <1>0, ConcatEmptySeq, EmptySeq
  <2> QED BY <2>1, OnlyNone
<1> HIDE DEF u
<1>2. ASSUME NEW r \in Seq(A), r \in U, NEW x \in A PROVE Append(r, x) \in U
  <2> DEFINE v == Only(r, S)
             t2 == Append(r, x)
  <2>1. v \in Seq(A) /\ t2 \in Seq(A) /\ Only(t2, S) = IF x \in S THEN Append(v, x) ELSE v
    BY <1>2, OnlyMore, AppendProperties
  <2>2. s \o t2 = Append(s \o r, x) /\ s \o r \in Seq(A)
    BY AppendLast, ConcatProperties
  <2>3. u \o Append(v, x) = Append(u \o v, x)
    BY <1>0, <2>1, AppendLast
  <2> HIDE DEF v, t2
  <2>4. Only(s \o r, S) = u \o v
    BY <1>2 DEF v
  <2>5. Only(s \o t2, S) = IF x \in S THEN Append(u \o v, x) ELSE u \o v
    <3> DEFINE q == s \o r
    <3>1. q \in Seq(A) /\ s \o t2 = Append(q, x) /\ Only(q, S) = u \o v
      BY <2>2, <2>4
    <3> HIDE DEF q
    <3>2. Only(Append(q, x), S) = IF x \in S THEN Append(Only(q, S), x) ELSE Only(q, S)
      BY <3>1, OnlyMore, SMTT(20)
    <3> QED BY <3>1, <3>2
  <2>6. Only(s \o t2, S) = u \o Only(t2, S)
    BY <2>1, <2>3, <2>5
  <2> QED BY <2>1, <2>6 DEF t2
<1>3. Seq(A) \subseteq U
  <2> HIDE DEF U
  <2> QED BY <1>1, <1>2, SeqAll
<1> QED BY <1>3 DEF u

=============================================================================
