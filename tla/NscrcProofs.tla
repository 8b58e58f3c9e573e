----------------------------- MODULE NscrcProofs -----------------------------
(***************************************************************************)
(* Proofs about Nscrc: what the configuration keeps of what was typed and   *)
(* read, whatever the names, texts, items and files, and however long its   *)
(* lists.                                                                   *)
(***************************************************************************)
EXTENDS Nscrc, Recursion, FiniteSetTheorems

-----------------------------------------------------------------------------
(* The lines of the file.                                                   *)

\* What follows a name there, and the message of an entry.
Wording == Texts \cup {NULL}
Note == (Texts \ {Empty}) \cup {NULL}

LEMMA LineKinds ==
  ASSUME NEW l \in Line
  PROVE  \/ l[1] \in Items /\ l[2] \in Texts /\ l[3] = NULL
         \/ l[1] = "port" /\ l[2] \in Int /\ l[3] = NULL
         \/ l[1] \in Flags /\ l[2] = NULL /\ l[3] = NULL
         \/ l[1] = "contact" /\ l[2] \in Names /\ l[3] = NULL
         \/ l[1] = "ignore" /\ l[2] \in Names /\ l[3] \in Wording
         \/ l[1] \in {"", "EOC"} /\ l[2] = NULL /\ l[3] = NULL
BY DEF Line, Wording

\* The kinds exclude each other.
LEMMA KindsApart ==
  /\ \A k \in Items : k \notin Flags \cup {"port", "contact", "ignore", "set", "", "EOC"}
  /\ \A k \in Flags : k \notin Items \cup {"port", "contact", "ignore", "set", "", "EOC"}
BY ItemAssumption

LEMMA OneKind ==
  ASSUME NEW v
  PROVE  /\ v \in Items => v # "port" /\ v \notin Flags /\ v # "contact" /\ v # "ignore"
         /\ v \in Flags => v \notin Items /\ v # "port" /\ v # "contact" /\ v # "ignore"
         /\ v = "port" => v \notin Items \cup Flags /\ v # "contact" /\ v # "ignore"
         /\ v = "contact" => v \notin Items \cup Flags /\ v # "port" /\ v # "ignore"
         /\ v = "ignore" => v \notin Items \cup Flags /\ v # "port" /\ v # "contact"
<1> DEFINE F == {"port", "contact", "ignore", "set", "", "EOC"}
<1>1. (\A k \in Items : k \notin Flags \cup F) /\ (\A k \in Flags : k \notin Items \cup F)
  BY KindsApart
<1>2. "port" \in F /\ "contact" \in F /\ "ignore" \in F
  OBVIOUS
<1>3. "port" # "contact" /\ "port" # "ignore" /\ "contact" # "ignore"
  OBVIOUS
<1> HIDE DEF F
<1>4. \A x \in F : x \notin Items \cup Flags
  BY <1>1
<1>5. v \in Items => v \notin Flags /\ v \notin F
  BY <1>1
<1>6. v \in Flags => v \notin Items /\ v \notin F
  BY <1>1
<1> QED
  BY <1>2, <1>3, <1>4, <1>5, <1>6

\* Memory, where the ignored have names in N; and the lines that keep it so.
Ignored(N) == [name : N, message : Note]
Wide(N) == [item : [Items -> Texts \cup {NULL}], port : Port, flag : SUBSET Flags,
            contacts : Seq(Names), ignores : Seq(Ignored(N))]
Lines(N) == {l \in Line : l[1] = "ignore" => l[2] \in N}

LEMMA AddType ==
  ASSUME NEW N
  PROVE  /\ \A s \in Seq(Names), n \in Names : add_contact(s, n) \in Seq(Names)
         /\ \A s \in Seq(Ignored(N)), n \in N, msg \in Wording :
              add_ignore(s, n, msg) \in Seq(Ignored(N))
<1>1. ASSUME NEW s \in Seq(Names), NEW n \in Names PROVE add_contact(s, n) \in Seq(Names)
  BY AppendProperties DEF add_contact
<1>2. ASSUME NEW s \in Seq(Ignored(N)), NEW n \in N, NEW msg \in Wording
      PROVE  add_ignore(s, n, msg) \in Seq(Ignored(N))
  <2> DEFINE e == Entered(n, msg)
  <2>1. e \in Ignored(N)
    BY DEF Ignored, Entered, Wording, Note
  <2> HIDE DEF e
  <2>2. Append(s, e) \in Seq(Ignored(N))
    BY <2>1, AppendProperties
  <2> QED BY <2>2 DEF add_ignore, e
<1> QED
  BY <1>1, <1>2

(* What a line does to each part of the memory.                             *)
Changed(m, l, r) ==
  /\ r.item = [k \in Items |-> IF k = l[1] THEN l[2] ELSE m.item[k]]
  /\ r.port = IF l[1] = "port" THEN l[2] % 65536 ELSE m.port
  /\ r.flag = IF l[1] \in Flags THEN m.flag \cup {l[1]} ELSE m.flag
  /\ r.contacts =
       IF l[1] = "contact" THEN add_contact(m.contacts, l[2]) ELSE m.contacts
  /\ r.ignores =
       IF l[1] = "ignore" THEN add_ignore(m.ignores, l[2], l[3]) ELSE m.ignores

LEMMA ModPort ==
  /\ \A v \in Int : v % 65536 \in Port
  /\ \A v \in Port : v \in Int /\ v % 65536 = v
BY DEF Port

LEMMA ReadParts ==
  ASSUME NEW N \in SUBSET Names, NEW m \in Wide(N), NEW l \in Lines(N)
  PROVE  Read(m, l) \in Wide(N) /\ Changed(m, l, Read(m, l))
<1>1. l \in Line /\ (l[1] = "ignore" => l[2] \in N)
  BY DEF Lines
<1> DEFINE r == Read(m, l)
           k == l[1]
           A1 == [m EXCEPT !.item[k] = l[2]]
           A2 == [m EXCEPT !.port = l[2] % 65536]
           A3 == [m EXCEPT !.flag = @ \cup {k}]
           A4 == [m EXCEPT !.contacts = add_contact(@, l[2])]
           A5 == [m EXCEPT !.ignores = add_ignore(@, l[2], l[3])]
<1>2. /\ m = [item |-> m.item, port |-> m.port, flag |-> m.flag,
               contacts |-> m.contacts, ignores |-> m.ignores]
      /\ m.item \in [Items -> Texts \cup {NULL}] /\ m.port \in Port
      /\ m.flag \in SUBSET Flags /\ m.contacts \in Seq(Names)
      /\ m.ignores \in Seq(Ignored(N))
  BY DEF Wide
<1>3. /\ k \in Items => k \notin Flags \cup {"port", "contact", "ignore", "set", "", "EOC"}
      /\ k \in Flags => k \notin Items \cup {"port", "contact", "ignore", "set", "", "EOC"}
  BY KindsApart
<1>4. r = CASE k \in Items -> A1 [] k = "port" -> A2 [] k \in Flags -> A3
            [] k = "contact" -> A4 [] k = "ignore" -> A5 [] OTHER -> m
  BY DEF Read
<1> HIDE DEF A1, A2, A3, A4, A5, k, r
<1>5. CASE k \in Items /\ l[2] \in Texts
  <2>0. k # "port" /\ k \notin Flags /\ k # "contact" /\ k # "ignore" /\ k \in Items
    BY <1>3, <1>5
  <2>1. r = A1
    BY <1>4, <2>0
  <2>2. /\ r.item = [m.item EXCEPT ![k] = l[2]] /\ r.port = m.port /\ r.flag = m.flag
        /\ r.contacts = m.contacts /\ r.ignores = m.ignores
        /\ r = [item |-> [m.item EXCEPT ![k] = l[2]], port |-> m.port, flag |-> m.flag,
                contacts |-> m.contacts, ignores |-> m.ignores]
    BY <1>2, <2>0, <2>1 DEF A1
  <2>3. [m.item EXCEPT ![k] = l[2]] = [j \in Items |-> IF j = k THEN l[2] ELSE m.item[j]]
    BY <1>2
  <2>4. [m.item EXCEPT ![k] = l[2]] \in [Items -> Texts \cup {NULL}]
    BY <1>2, <1>5
  <2>5. r \in Wide(N)
    BY <1>2, <2>2, <2>4 DEF Wide
  <2>6. Changed(m, l, r)
    BY <2>0, <2>2, <2>3 DEF k, Changed
  <2> QED BY <2>5, <2>6 DEF r
<1>6. ASSUME k \notin Items
      PROVE  m.item = [j \in Items |-> IF j = k THEN l[2] ELSE m.item[j]]
  BY <1>2, <1>6
<1>7. CASE k = "port" /\ l[2] \in Int
  <2>0. k = "port" /\ k \notin Flags /\ k # "contact" /\ k # "ignore" /\ k \notin Items
    BY <1>3, <1>7
  <2>1. r = A2
    BY <1>4, <2>0
  <2>2. l[2] % 65536 \in Port
    BY <1>7, ModPort
  <2>3. /\ r.item = m.item /\ r.port = l[2] % 65536 /\ r.flag = m.flag
        /\ r.contacts = m.contacts /\ r.ignores = m.ignores
        /\ r \in Wide(N)
    BY <1>2, <2>1, <2>2 DEF Wide, A2
  <2>4. Changed(m, l, r)
    BY <1>6, <2>0, <2>3 DEF k, Changed
  <2> QED BY <2>3, <2>4 DEF r
<1>8. CASE k \in Flags
  <2>0. k # "port" /\ k \in Flags /\ k # "contact" /\ k # "ignore" /\ k \notin Items
    BY <1>3, <1>8
  <2>1. r = A3
    BY <1>4, <2>0
  <2>2. /\ r.item = m.item /\ r.port = m.port /\ r.flag = m.flag \cup {k}
        /\ r.contacts = m.contacts /\ r.ignores = m.ignores
        /\ r \in Wide(N)
    BY <1>2, <2>0, <2>1 DEF Wide, A3
  <2>3. Changed(m, l, r)
    BY <1>6, <2>0, <2>2 DEF k, Changed
  <2> QED BY <2>2, <2>3 DEF r
<1>9. CASE k = "contact" /\ l[2] \in Names
  <2>0. k # "port" /\ k \notin Flags /\ k = "contact" /\ k # "ignore" /\ k \notin Items
    BY <1>3, <1>9
  <2>1. r = A4
    BY <1>4, <2>0
  <2>2. add_contact(m.contacts, l[2]) \in Seq(Names)
    BY <1>2, <1>9, AddType
  <2>3. /\ r.item = m.item /\ r.port = m.port /\ r.flag = m.flag
        /\ r.contacts = add_contact(m.contacts, l[2]) /\ r.ignores = m.ignores
        /\ r \in Wide(N)
    BY <1>2, <2>1, <2>2 DEF Wide, A4
  <2>4. Changed(m, l, r)
    BY <1>6, <2>0, <2>3 DEF k, Changed
  <2> QED BY <2>3, <2>4 DEF r
<1>10. CASE k = "ignore" /\ l[3] \in Wording
  <2>0. k # "port" /\ k \notin Flags /\ k # "contact" /\ k = "ignore" /\ k \notin Items
    BY <1>3, <1>10
  <2>1. r = A5
    BY <1>4, <2>0
  <2>2. add_ignore(m.ignores, l[2], l[3]) \in Seq(Ignored(N))
    BY <1>1, <1>2, <1>10, AddType DEF k
  <2>3. /\ r.item = m.item /\ r.port = m.port /\ r.flag = m.flag
        /\ r.contacts = m.contacts /\ r.ignores = add_ignore(m.ignores, l[2], l[3])
        /\ r \in Wide(N)
    BY <1>2, <2>1, <2>2 DEF Wide, A5
  <2>4. Changed(m, l, r)
    BY <1>6, <2>0, <2>3 DEF k, Changed
  <2> QED BY <2>3, <2>4 DEF r
<1>11. CASE k \in {"", "EOC"}
  <2>0. k # "port" /\ k \notin Flags /\ k # "contact" /\ k # "ignore" /\ k \notin Items
    BY <1>3, <1>11
  <2>1. r = m
    BY <1>4, <2>0
  <2>2. Changed(m, l, r)
    BY <1>6, <2>0, <2>1 DEF k, Changed
  <2> QED BY <2>1, <2>2 DEF r
<1> QED
  BY <1>1, <1>5, <1>7, <1>8, <1>9, <1>10, <1>11, LineKinds DEF k

-----------------------------------------------------------------------------
(* A file read into some memory.                                            *)

Loads(m, lines) == FoldLeft(Read, m, lines)

Reading(N) == [l \in Lines(N) |-> [v \in Wide(N) |-> Read(v, l)]]

LEMMA ReadingType ==
  ASSUME NEW N \in SUBSET Names
  PROVE  /\ Reading(N) \in [Lines(N) -> [Wide(N) -> Wide(N)]]
         /\ \A l \in Lines(N), v \in Wide(N) : Reading(N)[l][v] = Read(v, l)
<1>1. \A l \in Lines(N), v \in Wide(N) : Read(v, l) \in Wide(N)
  BY ReadParts
<1>2. \A l \in Lines(N) : [v \in Wide(N) |-> Read(v, l)] \in [Wide(N) -> Wide(N)]
  BY <1>1
<1> QED
  BY <1>2 DEF Reading

LEMMA LoadFold ==
  ASSUME NEW N \in SUBSET Names, NEW m \in Wide(N), NEW s \in Seq(Lines(N))
  PROVE  Folding(Loads(m, s), s, m, Reading(N), Wide(N))
<1> DEFINE L == Len(s)
           A == Lines(N)
           V == Wide(N)
           H == Reading(N)
           G == [n \in 1 .. L |-> H[s[n]]]
           D == SUBSET (1 .. L)
           Q(it) == it = [t \in D |-> IF t = {} THEN m
                           ELSE Read(it[t \ {Max(t)}], s[Max(t)])]
           c == CHOOSE it : Q(it)
<1>1. L \in Nat /\ DOMAIN s = 1 .. L /\ \A n \in 1 .. L : s[n] \in A
  BY LenProperties, ElementOfSeq
<1>2. m \in V
  OBVIOUS
<1>3. H \in [A -> [V -> V]] /\ \A x \in A, v \in V : H[x][v] = Read(v, x)
  BY ReadingType
<1> HIDE DEF H
<1>4. /\ G \in [1 .. L -> [V -> V]]
      /\ \A n \in 1 .. L, v \in V : G[n][v] = Read(v, s[n])
  <2> HIDE DEF A, V
  <2> QED BY <1>1, <1>3
<1>5. PICK it \in [D -> V] : Iterated(it, L, m, G)
  <2> HIDE DEF V, G, L
  <2> QED BY <1>1, <1>2, <1>4, IteratedExists
<1> HIDE DEF G, A, V
<1>6. Q(it)
  <2>1. ASSUME NEW t \in D, t # {}
        PROVE  G[Max(t)][it[t \ {Max(t)}]] = Read(it[t \ {Max(t)}], s[Max(t)])
    <3>1. Max(t) \in 1 .. L
      BY <1>1, <2>1, MaxIs
    <3>2. it[t \ {Max(t)}] \in V
      <4> HIDE DEF L
      <4> QED BY <2>1
    <3> HIDE DEF L
    <3> QED BY <1>4, <3>1, <3>2
  <2> HIDE DEF L
  <2> QED BY <1>5, <2>1 DEF Iterated
<1>7. Q(c)
  <2> HIDE DEF Q
  <2> QED BY <1>6
<1>8. \A t \in D : c[t] = IF t = {} THEN m ELSE Read(c[t \ {Max(t)}], s[Max(t)])
  <2> HIDE DEF c
  <2> DEFINE g == [t \in D |-> IF t = {} THEN m ELSE Read(c[t \ {Max(t)}], s[Max(t)])]
  <2>1. c = g
    BY <1>7
  <2>2. \A t \in D : g[t] = IF t = {} THEN m ELSE Read(c[t \ {Max(t)}], s[Max(t)])
    OBVIOUS
  <2> HIDE DEF g
  <2> QED BY <2>1, <2>2
<1>9. Loads(m, s) = c[1 .. L]
  BY <1>1 DEF Loads, FoldLeft, MapThenFoldSet
<1> HIDE DEF c
<1>10. ASSUME NEW n \in 1 .. L, c[1 .. n - 1] \in V
       PROVE  c[1 .. n] = G[n][c[1 .. n - 1]]
  <2>1. n \in Nat /\ n > 0 /\ 1 .. n \in D
    BY <1>1
  <2>2. c[1 .. n] = Read(c[1 .. n - 1], s[n])
    BY <1>8, <2>1, MaxUpTo
  <2> QED BY <1>4, <1>10, <2>2
<1>11. Folds(c, L, m, G, V)
  <2>1. c[{}] = m
    <3>1. {} \in D
      OBVIOUS
    <3> QED BY <1>8, <3>1
  <2> QED BY <1>10, <2>1 DEF Folds
<1> QED
  BY <1>9, <1>11 DEF Folding, G, H, V

LEMMA LoadNone ==
  ASSUME NEW m \in Wide(Names)
  PROVE  Loads(m, <<>>) = m
<1> DEFINE u == Loads(m, <<>>)
           H == Reading(Names)
           V == Wide(Names)
<1>1. Folding(u, <<>>, m, H, V)
  <2>1. <<>> \in Seq(Lines(Names))
    BY EmptySeq
  <2> QED BY <2>1, LoadFold
<1> HIDE DEF u, H, V
<1> QED BY <1>1, FoldNone DEF u

LEMMA LoadMore ==
  ASSUME NEW N \in SUBSET Names, NEW m \in Wide(N), NEW s \in Seq(Lines(N)),
         NEW l \in Lines(N)
  PROVE  /\ Loads(m, s) \in Wide(N)
         /\ Loads(m, Append(s, l)) = Read(Loads(m, s), l)
<1> DEFINE V == Wide(N)
           A == Lines(N)
           H == Reading(N)
           t == Append(s, l)
           u == Loads(m, s)
           w == Loads(m, t)
<1>1. m \in V /\ t \in Seq(A) /\ l \in A /\ s \in Seq(A)
  BY AppendProperties
<1>2. H \in [A -> [V -> V]]
  BY ReadingType
<1>3. Folding(u, s, m, H, V) /\ Folding(w, t, m, H, V)
  BY <1>1, LoadFold
<1>4. u \in V /\ w = H[l][u]
  <2> HIDE DEF u, w, H, V, A
  <2> QED BY <1>1, <1>2, <1>3, FoldMore
<1>5. H[l][u] = Read(u, l)
  BY <1>4, ReadingType
<1> QED
  BY <1>4, <1>5

-----------------------------------------------------------------------------
(* The sequences that saving is made of.                                    *)

LEMMA SetToSeqIs ==
  ASSUME NEW S, IsFiniteSet(S)
  PROVE  /\ SetToSeq(S) \in Seq(S)
         /\ \A x \in S : \E i \in 1 .. Len(SetToSeq(S)) : SetToSeq(S)[i] = x
<1> DEFINE n == Cardinality(S)
           D == 1 .. n
           c == SetToSeq(S)
<1>1. n \in Nat /\ ExistsBijection(D, S)
  BY FS_CardinalityType
<1>2. \E f \in [D -> S] : IsInjective(f)
  BY <1>1 DEF ExistsBijection, Bijection, Injection
<1>3. c \in [D -> S] /\ IsInjective(c)
  BY <1>2 DEF SetToSeq
<1>4. c \in Injection(D, S)
  BY <1>3 DEF Injection
<1> HIDE DEF c
<1>5. IsFiniteSet(D) /\ Cardinality(D) = n
  BY <1>1, FS_Interval
<1>6. c \in Surjection(D, S)
  <2> HIDE DEF D
  <2> QED BY <1>4, <1>5, FS_Injection
<1>7. c \in Seq(S) /\ Len(c) = n
  BY <1>1, <1>3
<1>8. \A x \in S : \E i \in D : c[i] = x
  BY <1>6 DEF Surjection
<1> QED
  BY <1>7, <1>8 DEF c

LEMMA MapType ==
  ASSUME NEW A, NEW B, NEW F \in [A -> B], NEW s \in Seq(A)
  PROVE  Each(F, s) \in Seq(B) /\ Len(Each(F, s)) = Len(s)
BY LenProperties, ElementOfSeq DEF Each

LEMMA SubSeqType ==
  ASSUME NEW A, NEW s \in Seq(A), NEW n \in 0 .. Len(s)
  PROVE  /\ SubSeq(s, 1, n) \in Seq(A) /\ Len(SubSeq(s, 1, n)) = n
         /\ \A i \in 1 .. n : SubSeq(s, 1, n)[i] = s[i]
<1>1. Len(s) \in Nat /\ \A i \in 1 .. n : s[i] \in A
  BY LenProperties, ElementOfSeq
<1>2. n \in Int /\ 1 \in Int
  BY <1>1
<1> DEFINE r == SubSeq(s, 1, n)
<1>3. /\ r \in Seq(A)
      /\ Len(r) = IF 1 <= n THEN n - 1 + 1 ELSE 0
      /\ \A i \in 1 .. n - 1 + 1 : r[i] = s[1 + i - 1]
  BY <1>1, <1>2, SubSeqProperties
<1> HIDE DEF r
<1> QED
  BY <1>1, <1>3 DEF r

-----------------------------------------------------------------------------
(* What is saved.                                                           *)

ItemLine(m) == [k \in Items |-> <<k, Text(m.item[k]), NULL>>]
FlagLine == [f \in Flags |-> <<f, NULL, NULL>>]
ContactLine == [n \in Names |-> <<"contact", n, NULL>>]
IgnoreLine(N) == [e \in Ignored(N) |-> <<"ignore", e.name, e.message>>]
PortLine(m) == <<"port", m.port, NULL>>

Stated(m) == Always \cup {k \in Optional : m.item[k] # NULL}

LEMMA LineTypes ==
  ASSUME NEW N \in SUBSET Names, NEW m \in Wide(N)
  PROVE  /\ ItemLine(m) \in [Items -> Lines(N)] /\ PortLine(m) \in Lines(N)
         /\ FlagLine \in [Flags -> Lines(N)] /\ ContactLine \in [Names -> Lines(N)]
         /\ IgnoreLine(N) \in [Ignored(N) -> Lines(N)]
<1>1. ASSUME NEW k \in Items PROVE <<k, Text(m.item[k]), NULL>> \in Lines(N)
  <2>1. m.item[k] \in Texts \cup {NULL}
    BY DEF Wide
  <2>2. Text(m.item[k]) \in Texts
    BY <2>1, NullAssumption DEF Text
  <2>3. k # "ignore"
    BY KindsApart
  <2> QED BY <2>2, <2>3 DEF Lines, Line
<1>2. ASSUME NEW k \in Flags PROVE <<k, NULL, NULL>> \in Lines(N)
  <2>1. k # "ignore"
    BY KindsApart
  <2> QED BY <2>1 DEF Lines, Line
<1>3. ASSUME NEW n \in Names PROVE <<"contact", n, NULL>> \in Lines(N)
  BY DEF Lines, Line
<1>4. ASSUME NEW e \in Ignored(N) PROVE <<"ignore", e.name, e.message>> \in Lines(N)
  <2>1. e.name \in N /\ e.name \in Names /\ e.message \in Note
    BY DEF Ignored
  <2> QED BY <2>1 DEF Lines, Line, Note
<1>5. PortLine(m) \in Lines(N)
  <2>1. m.port \in Int
    BY ModPort DEF Wide
  <2> QED BY <2>1 DEF Lines, Line, PortLine
<1> QED
  BY <1>1, <1>2, <1>3, <1>4, <1>5 DEF ItemLine, FlagLine, ContactLine, IgnoreLine

(* Sequences one after the other.                                           *)
Joined(A, s, t, v) ==
  /\ v \in Seq(A) /\ Len(v) = Len(s) + Len(t)
  /\ \A i \in 1 .. Len(s) : v[i] = s[i]
  /\ \A i \in 1 .. Len(t) : v[Len(s) + i] = t[i]

LEMMA JoinIs ==
  ASSUME NEW A, NEW s \in Seq(A), NEW t \in Seq(A)
  PROVE  Joined(A, s, t, s \o t)
<1> DEFINE v == s \o t
<1>1. /\ v \in Seq(A) /\ Len(v) = Len(s) + Len(t)
      /\ \A i \in 1 .. Len(s) + Len(t) : v[i] = IF i <= Len(s) THEN s[i] ELSE t[i - Len(s)]
  BY ConcatProperties
<1>2. Len(s) \in Nat /\ Len(t) \in Nat
  BY LenProperties
<1> HIDE DEF v
<1>3. \A i \in 1 .. Len(s) : v[i] = s[i]
  BY <1>1, <1>2
<1>4. ASSUME NEW i \in 1 .. Len(t) PROVE v[Len(s) + i] = t[i]
  <2>1. /\ Len(s) + i \in 1 .. Len(s) + Len(t) /\ ~(Len(s) + i <= Len(s))
        /\ (Len(s) + i) - Len(s) = i
    BY <1>2
  <2> QED BY <1>1, <2>1
<1> QED
  BY <1>1, <1>3, <1>4 DEF Joined, v

Parts(A, s1, x, s3, s4, s5, w) ==
  /\ w \in Seq(A)
  /\ Len(w) = Len(s1) + 1 + Len(s3) + Len(s4) + Len(s5)
  /\ \A i \in 1 .. Len(s1) : w[i] = s1[i]
  /\ w[Len(s1) + 1] = x
  /\ \A i \in 1 .. Len(s3) : w[Len(s1) + 1 + i] = s3[i]
  /\ \A i \in 1 .. Len(s4) : w[Len(s1) + 1 + Len(s3) + i] = s4[i]
  /\ \A i \in 1 .. Len(s5) : w[Len(s1) + 1 + Len(s3) + Len(s4) + i] = s5[i]

LEMMA FiveParts ==
  ASSUME NEW A, NEW s1 \in Seq(A), NEW x \in A, NEW s3 \in Seq(A),
         NEW s4 \in Seq(A), NEW s5 \in Seq(A), NEW w, w = s1 \o <<x>> \o s3 \o s4 \o s5
  PROVE  Parts(A, s1, x, s3, s4, s5, w)
<1> DEFINE v1 == Append(s1, x)
           v2 == v1 \o s3
           v3 == v2 \o s4
           v4 == v3 \o s5
<1>1. Len(s1) \in Nat /\ Len(s3) \in Nat /\ Len(s4) \in Nat /\ Len(s5) \in Nat
  BY LenProperties
<1>2. w = v4
  BY AppendIsConcat
<1>3. /\ v1 \in Seq(A) /\ Len(v1) = Len(s1) + 1 /\ v1[Len(s1) + 1] = x
      /\ \A i \in 1 .. Len(s1) : v1[i] = s1[i]
  BY AppendProperties
<1>4. v1 \in Seq(A)
  BY <1>3
<1> HIDE DEF v1
<1>5. Joined(A, v1, s3, v2)
  BY <1>4, JoinIs
<1>6. v2 \in Seq(A)
  BY <1>5 DEF Joined
<1> HIDE DEF v2
<1>7. Joined(A, v2, s4, v3)
  BY <1>6, JoinIs
<1>8. v3 \in Seq(A)
  BY <1>7 DEF Joined
<1> HIDE DEF v3
<1>9. Joined(A, v3, s5, v4)
  BY <1>8, JoinIs
<1> HIDE DEF v4
<1>10. Len(v2) = Len(s1) + 1 + Len(s3) /\ Len(v3) = Len(s1) + 1 + Len(s3) + Len(s4)
  BY <1>3, <1>5, <1>7 DEF Joined
<1>11. w \in Seq(A) /\ Len(w) = Len(s1) + 1 + Len(s3) + Len(s4) + Len(s5)
  BY <1>2, <1>9, <1>10 DEF Joined
<1>12. \A i \in 1 .. Len(v3) : w[i] = v3[i]
  BY <1>2, <1>9 DEF Joined
<1>13. \A i \in 1 .. Len(v2) : w[i] = v2[i]
  <2>1. \A i \in 1 .. Len(v2) : i \in 1 .. Len(v3)
    BY <1>1, <1>10
  <2> QED BY <1>7, <1>12, <2>1 DEF Joined
<1>14. \A i \in 1 .. Len(v1) : w[i] = v1[i]
  <2>1. \A i \in 1 .. Len(v1) : i \in 1 .. Len(v2)
    BY <1>1, <1>3, <1>10
  <2> QED BY <1>5, <1>13, <2>1 DEF Joined
<1>15. (\A i \in 1 .. Len(s1) : w[i] = s1[i]) /\ w[Len(s1) + 1] = x
  <2>1. (\A i \in 1 .. Len(s1) : i \in 1 .. Len(v1)) /\ Len(s1) + 1 \in 1 .. Len(v1)
    BY <1>1, <1>3
  <2> QED BY <1>3, <1>14, <2>1
<1>16. \A i \in 1 .. Len(s3) : w[Len(v1) + i] = s3[i]
  <2>1. \A i \in 1 .. Len(s3) : Len(v1) + i \in 1 .. Len(v2)
    BY <1>1, <1>3, <1>10
  <2> QED BY <1>5, <1>13, <2>1 DEF Joined
<1>17. \A i \in 1 .. Len(s4) : w[Len(v2) + i] = s4[i]
  <2>1. \A i \in 1 .. Len(s4) : Len(v2) + i \in 1 .. Len(v3)
    BY <1>1, <1>10
  <2> QED BY <1>7, <1>12, <2>1 DEF Joined
<1>18. \A i \in 1 .. Len(s5) : w[Len(v3) + i] = s5[i]
  BY <1>2, <1>9 DEF Joined
<1> QED
  BY <1>3, <1>10, <1>11, <1>15, <1>16, <1>17, <1>18 DEF Parts

\* The lines of w are those for keys, the port, flags, and the lists of m.
Saves(m, N, keys, flags, w) ==
  /\ w \in Seq(Lines(N))
  /\ Len(w) = Len(keys) + 1 + Len(flags) + Len(m.contacts) + Len(m.ignores)
  /\ \A i \in 1 .. Len(keys) : w[i] = ItemLine(m)[keys[i]]
  /\ w[Len(keys) + 1] = PortLine(m)
  /\ \A i \in 1 .. Len(flags) : w[Len(keys) + 1 + i] = FlagLine[flags[i]]
  /\ \A i \in 1 .. Len(m.contacts) :
       w[Len(keys) + 1 + Len(flags) + i] = ContactLine[m.contacts[i]]
  /\ \A i \in 1 .. Len(m.ignores) :
       w[Len(keys) + 1 + Len(flags) + Len(m.contacts) + i] = IgnoreLine(N)[m.ignores[i]]

LEMMA SaveIs ==
  ASSUME NEW N \in SUBSET Names, NEW m \in Wide(N)
  PROVE  \E keys \in Seq(Stated(m)), flags \in Seq(m.flag) :
           /\ \A k \in Stated(m) : \E i \in 1 .. Len(keys) : keys[i] = k
           /\ \A f \in m.flag : \E i \in 1 .. Len(flags) : flags[i] = f
           /\ keys \in Seq(Items) /\ flags \in Seq(Flags)
           /\ Saves(m, N, keys, flags, nsc_save_configuration(m))
<1> DEFINE keys == SetToSeq(Stated(m))
           flags == SetToSeq(m.flag)
           A == Lines(N)
           w == nsc_save_configuration(m)
           s1 == Each(ItemLine(m), keys)
           s3 == Each(FlagLine, flags)
           s4 == Each(ContactLine, m.contacts)
           s5 == Each(IgnoreLine(N), m.ignores)
<1>1. /\ Stated(m) \subseteq Items /\ m.flag \subseteq Flags
      /\ m.contacts \in Seq(Names) /\ m.ignores \in Seq(Ignored(N))
  BY DEF Stated, Items, Wide
<1>2. IsFiniteSet(Stated(m)) /\ IsFiniteSet(m.flag)
  BY <1>1, ItemAssumption, FS_Subset
<1>3. /\ keys \in Seq(Stated(m)) /\ flags \in Seq(m.flag)
      /\ \A k \in Stated(m) : \E i \in 1 .. Len(keys) : keys[i] = k
      /\ \A f \in m.flag : \E i \in 1 .. Len(flags) : flags[i] = f
  BY <1>2, SetToSeqIs
<1>4. keys \in Seq(Items) /\ flags \in Seq(Flags)
  BY <1>1, <1>3, SeqMonotonic
<1>5. /\ s1 \in Seq(A) /\ Len(s1) = Len(keys) /\ s3 \in Seq(A) /\ Len(s3) = Len(flags)
      /\ s4 \in Seq(A) /\ Len(s4) = Len(m.contacts)
      /\ s5 \in Seq(A) /\ Len(s5) = Len(m.ignores)
  <2>1. /\ ItemLine(m) \in [Items -> A] /\ FlagLine \in [Flags -> A]
        /\ ContactLine \in [Names -> A] /\ IgnoreLine(N) \in [Ignored(N) -> A]
    BY LineTypes
  <2> HIDE DEF A, keys, flags
  <2> DEFINE Typed(B) == \A F \in [B -> A], s \in Seq(B) :
                           Each(F, s) \in Seq(A) /\ Len(Each(F, s)) = Len(s)
  <2>0. ASSUME NEW B PROVE Typed(B)
    BY MapType, ZenonT(40)
  <2>2. Typed(Items) /\ Typed(Flags) /\ Typed(Names) /\ Typed(Ignored(N))
    BY <2>0
  <2>3. s1 \in Seq(A) /\ Len(s1) = Len(keys)
    BY <1>4, <2>1, <2>2
  <2>4. s3 \in Seq(A) /\ Len(s3) = Len(flags)
    BY <1>4, <2>1, <2>2
  <2>5. s4 \in Seq(A) /\ Len(s4) = Len(m.contacts)
    BY <1>1, <2>1, <2>2
  <2>6. s5 \in Seq(A) /\ Len(s5) = Len(m.ignores)
    BY <1>1, <2>1, <2>2
  <2> QED BY <2>3, <2>4, <2>5, <2>6
<1>6. /\ DOMAIN keys = 1 .. Len(keys) /\ DOMAIN flags = 1 .. Len(flags)
      /\ DOMAIN m.contacts = 1 .. Len(m.contacts)
      /\ DOMAIN m.ignores = 1 .. Len(m.ignores)
      /\ \A i \in 1 .. Len(keys) : keys[i] \in Items
      /\ \A i \in 1 .. Len(flags) : flags[i] \in Flags
      /\ \A i \in 1 .. Len(m.contacts) : m.contacts[i] \in Names
      /\ \A i \in 1 .. Len(m.ignores) : m.ignores[i] \in Ignored(N)
  BY <1>1, <1>4, LenProperties, ElementOfSeq
<1> DEFINE t1 == [i \in DOMAIN keys |-> <<keys[i], Text(m.item[keys[i]]), NULL>>]
           t3 == [i \in DOMAIN flags |-> <<flags[i], NULL, NULL>>]
           t4 == [i \in DOMAIN m.contacts |-> <<"contact", m.contacts[i], NULL>>]
           t5 == [i \in DOMAIN m.ignores |->
                    <<"ignore", m.ignores[i].name, m.ignores[i].message>>]
<1>7. w = t1 \o <<PortLine(m)>> \o t3 \o t4 \o t5
  BY DEF nsc_save_configuration, PortLine, Stated
<1>8. t1 = s1
  BY <1>6 DEF Each, ItemLine
<1>9. t3 = s3
  BY <1>6 DEF Each, FlagLine
<1>10. t4 = s4
  BY <1>6 DEF Each, ContactLine
<1>11. t5 = s5
  BY <1>6 DEF Each, IgnoreLine
<1>12. PortLine(m) \in A
  BY LineTypes
<1>13. /\ \A i \in 1 .. Len(keys) : s1[i] = ItemLine(m)[keys[i]]
       /\ \A i \in 1 .. Len(flags) : s3[i] = FlagLine[flags[i]]
       /\ \A i \in 1 .. Len(m.contacts) : s4[i] = ContactLine[m.contacts[i]]
       /\ \A i \in 1 .. Len(m.ignores) : s5[i] = IgnoreLine(N)[m.ignores[i]]
  BY <1>6 DEF Each
<1> HIDE DEF keys, flags, A, w, s1, s3, s4, s5, t1, t3, t4, t5
<1>14. w = s1 \o <<PortLine(m)>> \o s3 \o s4 \o s5
  BY <1>7, <1>8, <1>9, <1>10, <1>11
<1>15. Parts(A, s1, PortLine(m), s3, s4, s5, w)
  <2>1. s1 \in Seq(A) /\ s3 \in Seq(A) /\ s4 \in Seq(A) /\ s5 \in Seq(A)
    BY <1>5
  <2> QED BY <1>12, <1>14, <2>1, FiveParts
<1>16. Saves(m, N, keys, flags, w)
  <2>1. w \in Seq(A)
    BY <1>15 DEF Parts
  <2>2. Len(w) = Len(keys) + 1 + Len(flags) + Len(m.contacts) + Len(m.ignores)
    BY <1>5, <1>15 DEF Parts
  <2>3. (\A i \in 1 .. Len(keys) : w[i] = s1[i]) /\ w[Len(keys) + 1] = PortLine(m)
    BY <1>5, <1>15 DEF Parts
  <2>4. \A i \in 1 .. Len(flags) : w[Len(keys) + 1 + i] = s3[i]
    BY <1>5, <1>15 DEF Parts
  <2>5. \A i \in 1 .. Len(m.contacts) : w[Len(keys) + 1 + Len(flags) + i] = s4[i]
    BY <1>5, <1>15 DEF Parts
  <2>6. \A i \in 1 .. Len(m.ignores) :
          w[Len(keys) + 1 + Len(flags) + Len(m.contacts) + i] = s5[i]
    BY <1>5, <1>15 DEF Parts
  <2> QED BY <1>13, <2>1, <2>2, <2>3, <2>4, <2>5, <2>6, ZenonT(40) DEF Saves, A
<1> QED
  BY <1>3, <1>4, <1>16 DEF w

(* Where a line is among those saved.                                       *)
Place(n, a, b, c, d) ==
  \/ n \in 1 .. a
  \/ n = a + 1
  \/ \E i \in 1 .. b : n = a + 1 + i
  \/ \E i \in 1 .. c : n = a + 1 + b + i
  \/ \E i \in 1 .. d : n = a + 1 + b + c + i

LEMMA Places ==
  ASSUME NEW a \in Nat, NEW b \in Nat, NEW c \in Nat, NEW d \in Nat,
         NEW n \in 1 .. a + 1 + b + c + d
  PROVE  Place(n, a, b, c, d)
<1>1. CASE n <= a + 1
  <2>1. n \in 1 .. a \/ n = a + 1
    BY <1>1
  <2> QED BY <2>1 DEF Place
<1>2. CASE n > a + 1 /\ n <= a + 1 + b
  <2>1. n - (a + 1) \in 1 .. b /\ n = a + 1 + (n - (a + 1))
    BY <1>2
  <2> QED BY <2>1 DEF Place
<1>3. CASE n > a + 1 + b /\ n <= a + 1 + b + c
  <2>1. n - (a + 1 + b) \in 1 .. c /\ n = a + 1 + b + (n - (a + 1 + b))
    BY <1>3
  <2> QED BY <2>1 DEF Place
<1>4. CASE n > a + 1 + b + c
  <2>1. n - (a + 1 + b + c) \in 1 .. d /\ n = a + 1 + b + c + (n - (a + 1 + b + c))
    BY <1>4
  <2> QED BY <2>1 DEF Place
<1> QED
  BY <1>1, <1>2, <1>3, <1>4

(* What may be left of a line.                                              *)
Part(l, b) ==
  \/ b = <<"", NULL, NULL>>
  \/ l[1] = "port" /\ \E v \in Int : b = <<"port", v, NULL>>
  \/ l[1] \in Items \cup {"contact", "ignore"} /\ \E t \in Shorter[l[2]] : b = <<l[1], t, NULL>>
  \/ /\ l[1] = "ignore" /\ l[3] # NULL
     /\ \E t \in Shorter[l[3]] \cup {NULL} : b = <<l[1], l[2], t>>

LEMMA LessPortIs ==
  ASSUME NEW l, l[2] \in Int, NEW b \in LessPort(l)
  PROVE  \E v \in Int : b = <<"port", v, NULL>>
<1> DEFINE v == l[2]
           T == {10, 100, 1000, 10000, 100000}
<1>1. LessPort(l) = {<<"port", v \div d, NULL>> : d \in T}
  BY DEF LessPort
<1>2. v \in Int
  OBVIOUS
<1>3. T \subseteq Nat \ {0}
  OBVIOUS
<1> HIDE DEF v, T
<1>4. PICK d \in T : b = <<"port", v \div d, NULL>>
  BY <1>1
<1>5. d \in Nat /\ d > 0
  BY <1>3
<1>6. v \div d \in Int
  BY <1>2, <1>5
<1> QED BY <1>4, <1>6

LEMMA BegunIs ==
  ASSUME NEW l \in Line, l[1] \notin {"", "EOC"}, NEW b \in Begun(l)
  PROVE  b \in Bare \/ Part(l, b)
<1> DEFINE k == l[1]
<1>1. Begun(l) = {<<"", NULL, NULL>>} \cup ({<<k>>} \cap Bare) \cup
        (CASE k = "port" -> LessPort(l)
           [] k = "ignore" /\ l[3] # NULL -> LessNote(l) \cup LessText(l)
           [] k \in Flags -> {} [] OTHER -> LessText(l))
  BY DEF Begun
<1>2. /\ k \in Items => k \notin Flags \cup {"port", "contact", "ignore", "set", "", "EOC"}
      /\ k \in Flags => k \notin Items \cup {"port", "contact", "ignore", "set", "", "EOC"}
  BY KindsApart
<1>3. /\ k = "port" => l[2] \in Int
      /\ k \in Items \cup Flags \cup {"port", "contact", "ignore"}
  BY LineKinds, KindsApart
<1> HIDE DEF k
<1>4. \/ b = <<"", NULL, NULL>> \/ b \in Bare
      \/ k = "port" /\ b \in LessPort(l)
      \/ k = "ignore" /\ l[3] # NULL /\ b \in LessNote(l)
      \/ k \in Items \cup {"contact", "ignore"} /\ b \in LessText(l)
  BY <1>1, <1>2, <1>3
<1>5. CASE k = "port" /\ b \in LessPort(l)
  BY <1>3, <1>5, LessPortIs DEF Part, k
<1>6. CASE k = "ignore" /\ l[3] # NULL /\ b \in LessNote(l)
  BY <1>6 DEF Part, k, LessNote
<1>7. CASE k \in Items \cup {"contact", "ignore"} /\ b \in LessText(l)
  BY <1>7 DEF Part, k, LessText
<1>8. CASE b = <<"", NULL, NULL>>
  BY <1>8 DEF Part
<1> QED
  BY <1>4, <1>5, <1>6, <1>7, <1>8

LEMMA MakeLine ==
  /\ <<"", NULL, NULL>> \in Line
  /\ \A v \in Int : <<"port", v, NULL>> \in Line
  /\ \A k \in Items, t \in Texts : <<k, t, NULL>> \in Line
  /\ \A n \in Names : <<"contact", n, NULL>> \in Line
  /\ \A n \in Names, t \in Wording : <<"ignore", n, t>> \in Line
BY DEF Line, Wording

LEMMA PartType ==
  ASSUME NEW l \in Line, NEW b, Part(l, b)
  PROVE  b \in Line
<1>1. /\ l[1] \in Items => l[2] \in Texts
      /\ l[1] = "contact" => l[2] \in Names
      /\ l[1] = "ignore" => l[2] \in Names /\ l[3] \in Wording
  BY LineKinds, KindsApart
<1>2. CASE b = <<"", NULL, NULL>>
  BY <1>2, MakeLine
<1>3. CASE \E v \in Int : b = <<"port", v, NULL>>
  BY <1>3, MakeLine
<1>4. CASE l[1] \in Items \cup {"contact", "ignore"} /\ \E t \in Shorter[l[2]] : b = <<l[1], t, NULL>>
  <2>1. PICK t \in Shorter[l[2]] : b = <<l[1], t, NULL>>
    BY <1>4
  <2>2. (l[2] \in Texts => t \in Texts) /\ (l[2] \in Names => t \in Names)
    BY ShorterAssumption
  <2>3. NULL \in Wording
    BY DEF Wording
  <2> QED BY <1>1, <1>4, <2>1, <2>2, <2>3, MakeLine
<1>5. CASE /\ l[1] = "ignore" /\ l[3] # NULL
           /\ \E t \in Shorter[l[3]] \cup {NULL} : b = <<l[1], l[2], t>>
  <2>1. PICK t \in Shorter[l[3]] \cup {NULL} : b = <<l[1], l[2], t>>
    BY <1>5
  <2>2. t \in Wording
    BY <1>1, <1>5, ShorterAssumption DEF Wording
  <2> QED BY <1>1, <1>5, <2>1, <2>2, MakeLine
<1> QED
  BY <1>2, <1>3, <1>4, <1>5 DEF Part

-----------------------------------------------------------------------------
(* The types.                                                               *)

LEMMA AllLines == Lines(Names) = Line
BY LineKinds, KindsApart DEF Lines

\* The lines of a file, and what nsc sees of them.
AnyLine == Line \cup Bare \cup Odd
Sights(s) == [i \in DOMAIN s |-> Sees(s[i])]

LEMMA SightIs ==
  /\ \A l \in AnyLine : Sees(l) \in Line
  /\ \A l \in Line : Sees(l) = l
  /\ \A l \in Bare : Sees(l) = <<"", NULL, NULL>>
<1>1. \A l \in Bare : l \notin Line
  <2> SUFFICES ASSUME NEW l \in Bare, l \in Line PROVE FALSE
    OBVIOUS
  <2>1. PICK k : l = <<k>>
    BY DEF Bare
  <2>2. l = <<l[1], l[2], l[3]>>
    <3>1. \A A, B, C : \A x \in A \X B \X C : x = <<x[1], x[2], x[3]>>
      OBVIOUS
    <3> QED BY <3>1, Zenon DEF Line
  <2>3. Len(<<k>>) = 1 /\ \A x, y, z : Len(<<x, y, z>>) = 3
    OBVIOUS
  <2> QED BY <2>1, <2>2, <2>3
<1>2. \A l \in Odd : l \notin Line /\ l \notin Bare /\ Seen[l] \in Line
  BY OddAssumption
<1>3. <<"", NULL, NULL>> \in Line
  BY MakeLine
<1> QED
  BY <1>1, <1>2, <1>3 DEF AnyLine, Sees

LEMMA SightsAre ==
  /\ \A s \in Seq(AnyLine) : Sights(s) \in Seq(Line) /\ Len(Sights(s)) = Len(s)
  /\ \A s \in Seq(Line) : Sights(s) = s /\ s \in Seq(AnyLine)
<1>1. ASSUME NEW s \in Seq(AnyLine) PROVE Sights(s) \in Seq(Line) /\ Len(Sights(s)) = Len(s)
  <2>1. Len(s) \in Nat /\ DOMAIN s = 1 .. Len(s) /\ \A i \in 1 .. Len(s) : s[i] \in AnyLine
    BY LenProperties, ElementOfSeq
  <2>2. \A i \in 1 .. Len(s) : Sees(s[i]) \in Line
    BY <2>1, SightIs
  <2>3. Sights(s) = [i \in 1 .. Len(s) |-> Sees(s[i])]
    BY <2>1 DEF Sights
  <2>4. Sights(s) \in [1 .. Len(s) -> Line]
    BY <2>2, <2>3
  <2>5. Sights(s) \in Seq(Line)
    BY <2>1, <2>4
  <2>6. DOMAIN Sights(s) = 1 .. Len(s)
    BY <2>3
  <2> HIDE DEF Sights
  <2> QED BY <2>1, <2>5, <2>6, LenProperties
<1>2. ASSUME NEW s \in Seq(Line) PROVE Sights(s) = s /\ s \in Seq(AnyLine)
  <2>1. Len(s) \in Nat /\ DOMAIN s = 1 .. Len(s) /\ \A i \in 1 .. Len(s) : s[i] \in Line
    BY LenProperties, ElementOfSeq
  <2>2. \A i \in 1 .. Len(s) : Sees(s[i]) = s[i]
    BY <2>1, SightIs
  <2>3. s = [i \in 1 .. Len(s) |-> s[i]]
    BY <2>1
  <2>4. Sights(s) = s
    BY <2>1, <2>2, <2>3 DEF Sights
  <2>5. Line \subseteq AnyLine
    BY DEF AnyLine
  <2>6. s \in Seq(AnyLine)
    BY <2>5, SeqMonotonic
  <2> QED BY <2>4, <2>6
<1> QED
  BY <1>1, <1>2

LEMMA SightsMore ==
  ASSUME NEW s \in Seq(AnyLine), NEW l \in AnyLine
  PROVE  Sights(Append(s, l)) = Append(Sights(s), Sees(l))
<1> DEFINE t == Append(s, l)
           u == Sights(t)
           v == Sights(s)
           w == Append(v, Sees(l))
           L == Len(s)
<1>1. L \in Nat /\ DOMAIN s = 1 .. L
  BY LenProperties
<1>2. /\ t \in Seq(AnyLine) /\ Len(t) = L + 1 /\ t[L + 1] = l
      /\ \A i \in 1 .. L : t[i] = s[i]
  BY AppendProperties
<1>3. v \in Seq(Line) /\ Len(v) = L /\ Sees(l) \in Line
  BY SightsAre, SightIs
<1>4. \A i \in 1 .. L : v[i] = Sees(s[i])
  BY <1>1 DEF Sights
<1>5. DOMAIN t = 1 .. L + 1
  BY <1>2, LenProperties
<1>6. \A i \in 1 .. L + 1 : u[i] = Sees(t[i])
  BY <1>5 DEF Sights
<1>7. u \in Seq(Line) /\ Len(u) = L + 1
  BY <1>2, SightsAre
<1> HIDE DEF v, u, t, L
<1>8. /\ w \in Seq(Line) /\ Len(w) = L + 1 /\ w[L + 1] = Sees(l)
      /\ \A i \in 1 .. L : w[i] = v[i]
  BY <1>3, AppendProperties
<1> HIDE DEF w
<1>9. \A i \in 1 .. L + 1 : u[i] = w[i]
  <2> SUFFICES ASSUME NEW i \in 1 .. L + 1 PROVE u[i] = w[i]
    OBVIOUS
  <2>1. i \in 1 .. L \/ i = L + 1
    BY <1>1
  <2>2. CASE i \in 1 .. L
    <3>1. u[i] = Sees(t[i]) /\ t[i] = s[i] /\ w[i] = v[i] /\ v[i] = Sees(s[i])
      BY <1>2, <1>4, <1>6, <1>8, <2>2
    <3> QED BY <3>1
  <2>3. CASE i = L + 1
    BY <1>2, <1>6, <1>8, <2>3
  <2> QED BY <2>1, <2>2, <2>3
<1>10. u = w
  BY <1>7, <1>8, <1>9, SeqEqual
<1> QED BY <1>10 DEF u, t, w, v

LEMMA SavedKinds ==
  ASSUME NEW N \in SUBSET Names, NEW m \in Wide(N), NEW w, w = nsc_save_configuration(m)
  PROVE  /\ w \in Seq(Lines(N))
         /\ \A n \in 1 .. Len(w) : w[n][1] \notin {"", "EOC"}
<1>1. PICK keys \in Seq(Stated(m)), flags \in Seq(m.flag) :
        keys \in Seq(Items) /\ flags \in Seq(Flags) /\ Saves(m, N, keys, flags, w)
  BY SaveIs
<1>2. /\ m.contacts \in Seq(Names) /\ m.ignores \in Seq(Ignored(N))
      /\ \A i \in 1 .. Len(keys) : keys[i] \in Items
      /\ \A i \in 1 .. Len(flags) : flags[i] \in Flags
      /\ \A i \in 1 .. Len(m.contacts) : m.contacts[i] \in Names
      /\ \A i \in 1 .. Len(m.ignores) : m.ignores[i] \in Ignored(N)
  BY <1>1, ElementOfSeq DEF Wide
<1>3. w \in Seq(Lines(N))
  BY <1>1 DEF Saves
<1> DEFINE a == Len(keys)
           b == Len(flags)
           c == Len(m.contacts)
           d == Len(m.ignores)
<1>4. a \in Nat /\ b \in Nat /\ c \in Nat /\ d \in Nat /\ Len(w) = a + 1 + b + c + d
  BY <1>1, <1>2, LenProperties DEF Saves
<1>5. /\ \A k \in Items : ItemLine(m)[k][1] = k
      /\ PortLine(m)[1] = "port"
      /\ \A f \in Flags : FlagLine[f][1] = f
      /\ \A n \in Names : ContactLine[n][1] = "contact"
      /\ \A e \in Ignored(N) : IgnoreLine(N)[e][1] = "ignore"
  BY DEF ItemLine, PortLine, FlagLine, ContactLine, IgnoreLine
<1> SUFFICES ASSUME NEW n \in 1 .. Len(w) PROVE w[n][1] \notin {"", "EOC"}
  BY <1>3
<1>6. Place(n, a, b, c, d)
  <2> HIDE DEF a, b, c, d
  <2> QED BY <1>4, Places
<1>7. CASE n \in 1 .. a
  <2>1. w[n] = ItemLine(m)[keys[n]] /\ keys[n] \in Items
    BY <1>1, <1>2, <1>7 DEF Saves
  <2>2. w[n][1] = keys[n]
    BY <1>5, <2>1
  <2> QED BY <2>1, <2>2, KindsApart
<1>8. CASE n = a + 1
  <2>1. w[n] = PortLine(m)
    BY <1>1, <1>8 DEF Saves
  <2> QED BY <1>5, <2>1
<1>9. ASSUME NEW i \in 1 .. b, n = a + 1 + i PROVE w[n][1] \notin {"", "EOC"}
  <2>1. w[n] = FlagLine[flags[i]] /\ flags[i] \in Flags
    BY <1>1, <1>2, <1>9 DEF Saves
  <2>2. w[n][1] = flags[i]
    BY <1>5, <2>1
  <2> QED BY <2>1, <2>2, KindsApart
<1>10. ASSUME NEW i \in 1 .. c, n = a + 1 + b + i PROVE w[n][1] \notin {"", "EOC"}
  <2>1. w[n] = ContactLine[m.contacts[i]]
    BY <1>1, <1>10 DEF Saves
  <2> QED BY <1>2, <1>5, <2>1
<1>11. ASSUME NEW i \in 1 .. d, n = a + 1 + b + c + i PROVE w[n][1] \notin {"", "EOC"}
  <2>1. w[n] = IgnoreLine(N)[m.ignores[i]]
    BY <1>1, <1>11 DEF Saves
  <2> QED BY <1>2, <1>5, <2>1
<1> QED
  <2> HIDE DEF a, b, c, d
  <2> QED BY <1>6, <1>7, <1>8, <1>9, <1>10, <1>11 DEF Place

LEMMA CutType ==
  ASSUME NEW m \in Wide(Names), NEW f \in Cuttings(nsc_save_configuration(m))
  PROVE  f \in Seq(AnyLine)
<1> DEFINE w == nsc_save_configuration(m)
<1>1. w \in Seq(Line) /\ \A n \in 1 .. Len(w) : w[n][1] \notin {"", "EOC"}
  <2>1. w \in Seq(Lines(Names)) /\ \A n \in 1 .. Len(w) : w[n][1] \notin {"", "EOC"}
    BY SavedKinds
  <2> QED BY <2>1, AllLines
<1> HIDE DEF w
<1>2. Len(w) \in Nat /\ DOMAIN w = 1 .. Len(w) /\ \A n \in 1 .. Len(w) : w[n] \in Line
  BY <1>1, LenProperties, ElementOfSeq
<1>3. \/ \E n \in 0 .. Len(w) : f = SubSeq(w, 1, n)
      \/ \E n \in 1 .. Len(w) : \E b \in Begun(w[n]) : f = Append(SubSeq(w, 1, n - 1), b)
  BY <1>2 DEF Cuttings, w
<1>4. ASSUME NEW n \in 0 .. Len(w), f = SubSeq(w, 1, n) PROVE f \in Seq(AnyLine)
  BY <1>1, <1>4, SubSeqType, SightsAre
<1>5. ASSUME NEW n \in 1 .. Len(w), NEW b \in Begun(w[n]),
             f = Append(SubSeq(w, 1, n - 1), b)
      PROVE  f \in Seq(AnyLine)
  <2>1. w[n] \in Line /\ w[n][1] \notin {"", "EOC"}
    BY <1>1, <1>2
  <2>2. b \in AnyLine
    BY <2>1, BegunIs, PartType DEF AnyLine
  <2>3. n - 1 \in 0 .. Len(w)
    BY <1>2
  <2>4. SubSeq(w, 1, n - 1) \in Seq(AnyLine)
    BY <1>1, <2>3, SubSeqType, SightsAre
  <2> QED BY <1>5, <2>2, <2>4, AppendProperties
<1> QED
  BY <1>3, <1>4, <1>5

LEMMA UpToEOCIs ==
  ASSUME NEW A, NEW s \in Seq(A)
  PROVE  \/ UpToEOC(s) = s /\ \A i \in 1 .. Len(s) : s[i] # EOC
         \/ \E n \in 1 .. Len(s) : s[n] = EOC /\ UpToEOC(s) = SubSeq(s, 1, n - 1)
<1> DEFINE I == {i \in 1 .. Len(s) : s[i] = EOC}
           n == IF I # {} THEN Min(I) ELSE 0
<1>1. Len(s) \in Nat
  BY LenProperties
<1>2. UpToEOC(s) = IF n = 0 THEN s ELSE SubSeq(s, 1, n - 1)
  BY DEF UpToEOC, SelectInSeq
<1>3. CASE I = {}
  BY <1>2, <1>3
<1>4. CASE I # {}
  <2>1. I \in SUBSET Nat
    OBVIOUS
  <2> HIDE DEF I
  <2>2. Min(I) \in I
    BY <1>4, <2>1, MinIs
  <2>3. n = Min(I)
    BY <1>4
  <2> HIDE DEF n
  <2>4. n \in 1 .. Len(s) /\ s[n] = EOC
    BY <2>2, <2>3 DEF I
  <2>5. UpToEOC(s) = SubSeq(s, 1, n - 1)
    BY <1>1, <1>2, <2>4
  <2> QED BY <2>4, <2>5
<1> QED
  BY <1>3, <1>4

LEMMA UpToEOCType ==
  ASSUME NEW A, NEW s \in Seq(A)
  PROVE  UpToEOC(s) \in Seq(A)
<1>1. ASSUME NEW n \in 1 .. Len(s) PROVE SubSeq(s, 1, n - 1) \in Seq(A)
  <2>1. n - 1 \in 0 .. Len(s)
    BY LenProperties
  <2> QED BY <2>1, SubSeqType
<1> QED BY <1>1, UpToEOCIs

\* What libnscutil makes of the lines.
Kempt == Line \cup Odd
Tidiness(s) == [i \in DOMAIN s |-> Tidy(s[i])]

LEMMA TidyType == \A l \in AnyLine : Tidy(l) \in Kempt
<1> SUFFICES ASSUME NEW l \in AnyLine PROVE Tidy(l) \in Kempt
  OBVIOUS
<1>1. CASE l \in Bare
  <2>1. PICK k \in Items \cup {"port", "contact", "ignore"} : l = <<k>>
    BY <1>1 DEF Bare
  <2>2. l[1] = k
    BY <2>1
  <2>3. Tidy(l) = <<k, IF k = "port" THEN 0 ELSE Empty, NULL>>
    BY <1>1, <2>2 DEF Tidy
  <2>4. /\ \A j \in Items : j # "port" /\ <<j, Empty, NULL>> \in Line
        /\ <<"port", 0, NULL>> \in Line
        /\ <<"contact", Empty, NULL>> \in Line /\ <<"ignore", Empty, NULL>> \in Line
    <3>1. NULL \in Wording /\ Empty \in Names /\ Empty \in Texts /\ 0 \in Int
      BY EmptyAssumption DEF Wording
    <3>2. /\ \A j \in Items : <<j, Empty, NULL>> \in Line
          /\ <<"port", 0, NULL>> \in Line
          /\ <<"contact", Empty, NULL>> \in Line /\ <<"ignore", Empty, NULL>> \in Line
      BY <3>1, MakeLine
    <3>3. \A j \in Items : j # "port"
      BY OneKind
    <3> QED BY <3>2, <3>3
  <2>5. "contact" # "port" /\ "ignore" # "port"
    OBVIOUS
  <2> HIDE DEF AnyLine
  <2>6. Tidy(l) \in Line
    BY <2>3, <2>4, <2>5
  <2> QED BY <2>6 DEF Kempt
<1>2. CASE l \in Odd
  <2>1. l \notin Bare /\ Tidied[l] \in Kempt
    BY <1>2, OddAssumption DEF Kempt
  <2> QED BY <1>2, <2>1 DEF Tidy
<1>3. CASE l \notin Bare /\ l \notin Odd
  <2>1. l \in Line
    BY <1>3 DEF AnyLine
  <2> DEFINE v == l[1]
  <2>2. Tidy(l) = IF v \in Items \cup {"contact"} THEN <<v, Trim[l[2]], NULL>> ELSE l
    BY <1>3 DEF Tidy
  <2>3. (v \in Items => l[2] \in Texts) /\ (v = "contact" => l[2] \in Names)
    BY <2>1, LineKinds, KindsApart
  <2> HIDE DEF v
  <2>4. /\ v \in Items => <<v, Trim[l[2]], NULL>> \in Line
        /\ v = "contact" => <<v, Trim[l[2]], NULL>> \in Line
    BY <2>3, MakeLine, TrimAssumption
  <2>5. Tidy(l) \in Line
    BY <2>1, <2>2, <2>4
  <2> QED BY <2>5 DEF Kempt
<1> QED
  BY <1>1, <1>2, <1>3

LEMMA TidinessType ==
  ASSUME NEW s \in Seq(AnyLine)
  PROVE  Tidiness(s) \in Seq(Kempt)
<1>1. Len(s) \in Nat /\ DOMAIN s = 1 .. Len(s) /\ \A i \in 1 .. Len(s) : s[i] \in AnyLine
  BY LenProperties, ElementOfSeq
<1>2. \A i \in 1 .. Len(s) : Tidy(s[i]) \in Kempt
  BY <1>1, TidyType
<1>3. Tidiness(s) \in [1 .. Len(s) -> Kempt]
  BY <1>1, <1>2 DEF Tidiness
<1> QED
  BY <1>1, <1>3

LEMMA RewriteType ==
  ASSUME NEW s \in Seq(AnyLine), NEW A, Tidiness(s) \in Seq(A), EOC \in A
  PROVE  conf_read(s) \in Seq(Seq(A)) /\ conf_write(conf_read(s)) \in Seq(A)
<1> DEFINE all == UpToEOC(Tidiness(s))
           data == conf_read(s)
<1>1. \A k : Values(all, k) \in Seq(A)
  <2> HIDE DEF Tidiness
  <2>1. all \in Seq(A)
    BY UpToEOCType
  <2> HIDE DEF all
  <2> QED BY <2>1, OnlyType DEF Values
<1>2. Len(Order) \in Nat /\ DOMAIN Order = 1 .. Len(Order)
  BY OrderAssumption, LenProperties
<1>3. data = [i \in 1 .. Len(Order) |-> Values(all, Order[i])]
  BY <1>2 DEF conf_read, Tidiness
<1> HIDE DEF all
<1>4. data \in Seq(Seq(A))
  BY <1>1, <1>2, <1>3
<1> HIDE DEF data
<1>5. FlattenSeq(data) \in Seq(A)
  BY <1>4, EmptySeq, FlattenMore
<1> QED
  BY <1>4, <1>5, AppendProperties DEF conf_write, data

LEMMA RewrittenType ==
  ASSUME NEW s \in Seq(AnyLine)
  PROVE  conf_write(conf_read(s)) \in Seq(AnyLine)
<1>1. EOC \in Kempt /\ Kempt \subseteq AnyLine
  BY MakeLine DEF EOC, Line, Kempt, AnyLine
<1>2. conf_write(conf_read(s)) \in Seq(Kempt)
  BY <1>1, TidinessType, RewriteType
<1> QED BY <1>1, <1>2, SeqMonotonic

\* The names that an entry may have.
Proper == Names \ {Empty}

LEMMA MemoryIs == Memory = Wide(Proper)
BY DEF Memory, Wide, Entry, Ignored, Note, Proper

LEMMA FreeType == \A N : nsc_free_configuration \in Wide(N)
<1>1. [k \in Items |-> NULL] \in [Items -> Texts \cup {NULL}] /\ {} \in SUBSET Flags
  OBVIOUS
<1>2. 0 \in Port
  BY DEF Port
<1>3. \A N : <<>> \in Seq(Names) /\ <<>> \in Seq(Ignored(N))
  BY EmptySeq
<1> QED
  BY <1>1, <1>2, <1>3 DEF nsc_free_configuration, Wide

LEMMA WideIs ==
  ASSUME NEW N \in SUBSET Names
  PROVE  Wide(N) \subseteq Wide(Names)
<1>1. Ignored(N) \subseteq Ignored(Names)
  BY DEF Ignored
<1>2. Seq(Ignored(N)) \subseteq Seq(Ignored(Names))
  BY <1>1, SeqMonotonic
<1> QED BY <1>2 DEF Wide

LEMMA LoadType ==
  ASSUME NEW N \in SUBSET Names, NEW m \in Wide(N), NEW s \in Seq(Lines(N))
  PROVE  Loads(m, s) \in Wide(N)
<1>1. CASE s = <<>>
  <2>1. m \in Wide(Names)
    BY WideIs
  <2> QED BY <1>1, <2>1, LoadNone
<1>2. CASE s # <<>>
  <2>1. PICK r \in Seq(Lines(N)), l \in Lines(N) : s = Append(r, l)
    BY <1>2, SequenceEmptyOrAppend
  <2>2. Loads(m, r) \in Wide(N) /\ Loads(m, s) = Read(Loads(m, r), l)
    BY <2>1, LoadMore
  <2> QED BY <2>1, <2>2, ReadParts
<1> QED BY <1>1, <1>2

LEMMA ReadableIs ==
  ASSUME NEW s \in Seq(AnyLine)
  PROVE  Readable(s) <=> Sights(s) \in Seq(Lines(Proper))
<1> DEFINE t == Sights(s)
<1>1. t \in Seq(Line) /\ Len(t) = Len(s)
  BY SightsAre
<1>2. DOMAIN s = 1 .. Len(s)
  BY LenProperties
<1>3. \A i \in 1 .. Len(s) : t[i] = Sees(s[i])
  BY <1>2 DEF Sights
<1> HIDE DEF t
<1>4. Len(t) \in Nat /\ DOMAIN t = 1 .. Len(t) /\ \A i \in 1 .. Len(t) : t[i] \in Line
  BY <1>1, LenProperties, ElementOfSeq
<1>5. \A l \in Line : ~Deadly(l) <=> l \in Lines(Proper)
  <2> SUFFICES ASSUME NEW l \in Line PROVE ~Deadly(l) <=> l \in Lines(Proper)
    OBVIOUS
  <2>1. l[1] = "ignore" => l[2] \in Names
    BY LineKinds, KindsApart
  <2> QED BY <2>1 DEF Deadly, Lines, Proper
<1>6. Readable(s) <=> \A i \in 1 .. Len(t) : ~Deadly(t[i])
  BY <1>1, <1>2, <1>3 DEF Readable
<1>7. Readable(s) <=> \A i \in 1 .. Len(t) : t[i] \in Lines(Proper)
  BY <1>4, <1>5, <1>6
<1>8. t \in Seq(Lines(Proper)) => \A i \in 1 .. Len(t) : t[i] \in Lines(Proper)
  BY ElementOfSeq
<1>9. (\A i \in 1 .. Len(t) : t[i] \in Lines(Proper)) => t \in Seq(Lines(Proper))
  BY <1>1, <1>4
<1> QED
  BY <1>7, <1>8, <1>9 DEF t

LEMMA WideLines ==
  ASSUME NEW N, NEW s \in Seq(Lines(N))
  PROVE  s \in Seq(Line)
<1>1. Lines(N) \subseteq Line
  BY DEF Lines
<1> QED BY <1>1, SeqMonotonic

LEMMA LoadIs ==
  /\ \A s : nsc_load_configuration(s) = Loads(nsc_free_configuration, Sights(s))
  /\ \A s \in Seq(Line) :
       nsc_load_configuration(s) = Loads(nsc_free_configuration, s)
<1>1. \A s : nsc_load_configuration(s) = Loads(nsc_free_configuration, Sights(s))
  BY DEF nsc_load_configuration, Loads, Sights
<1>2. \A s \in Seq(Line) : Sights(s) = s
  BY SightsAre
<1> HIDE DEF nsc_load_configuration, Loads, Sights
<1> QED
  BY <1>1, <1>2

LEMMA LoadedIs ==
  ASSUME NEW s \in Seq(AnyLine), Readable(s)
  PROVE  nsc_load_configuration(s) \in Memory
<1>1. Sights(s) \in Seq(Lines(Proper)) /\ Proper \in SUBSET Names
  BY ReadableIs DEF Proper
<1>2. Loads(nsc_free_configuration, Sights(s)) \in Wide(Proper)
  BY <1>1, FreeType, LoadType
<1> QED
  BY <1>2, MemoryIs, LoadIs

LEMMA HandmadeType == Handmade \subseteq Seq(AnyLine)
<1>1. Line \cup Odd \subseteq AnyLine
  BY DEF AnyLine
<1>2. Seq(Line \cup Odd) \subseteq Seq(AnyLine)
  BY <1>1, SeqMonotonic
<1> QED BY <1>2, HandmadeAssumption

LEMMA TypeHolds == TypeOK /\ [Next]_vars => TypeOK'
<1> SUFFICES ASSUME TypeOK, [Next]_vars PROVE TypeOK'
  OBVIOUS
<1> USE DEF TypeOK
<1>1. /\ mem.contacts \in Seq(Names) /\ mem.ignores \in Seq(Entry)
      /\ mem.item \in [Items -> Texts \cup {NULL}] /\ mem.port \in Port
      /\ mem.flag \in SUBSET Flags
  BY DEF Memory
<1>2. unsaved \in Nat /\ MaxUnsaved \in Nat /\ 0 \in 0 .. MaxUnsaved
  BY BoundAssumption
<1>3. nsc_free_configuration \in Memory
  BY FreeType, MemoryIs
<1>4. ASSUME Ends PROVE pc' = "off" /\ mem' \in Memory /\ unsaved' \in 0 .. MaxUnsaved
  BY <1>2, <1>3, <1>4 DEF Ends
<1>5. ASSUME NEW m \in Memory, Changes(m) PROVE TypeOK'
  <2>1. unsaved + 1 \in 0 .. MaxUnsaved
    BY <1>2, <1>5 DEF Changes
  <2> QED BY <1>5, <2>1 DEF Changes
<1>0. file \in Seq(AnyLine)
  BY DEF AnyLine
<1>6. CASE Start
  BY <1>0, <1>6, LoadedIs DEF Start, AnyLine
<1>7. CASE cmd_reload_config
  BY <1>0, <1>2, <1>4, <1>7, LoadedIs DEF cmd_reload_config, AnyLine
<1>8. ASSUME NEW n \in TypedNames, cmd_add_contact(n) PROVE TypeOK'
  <2>1. n \in Names
    BY TypedAssumption
  <2>2. add_contact(mem.contacts, n) \in Seq(Names)
    BY <1>1, <2>1, AddType
  <2>3. [mem EXCEPT !.contacts = add_contact(@, n)] \in Memory
    BY <2>2 DEF Memory
  <2> QED BY <1>5, <1>8, <2>3 DEF cmd_add_contact
<1>9. ASSUME NEW n \in TypedNames, NEW msg \in TypedTexts \cup {NULL, Empty},
             cmd_add_ignore(n, msg)
      PROVE  TypeOK'
  <2>1. n \in Proper /\ msg \in Wording
    BY <1>9, TypedAssumption, EmptyAssumption DEF Proper, Wording, cmd_add_ignore
  <2>2. Entry = Ignored(Proper)
    BY DEF Entry, Ignored, Proper, Note
  <2>3. add_ignore(mem.ignores, n, msg) \in Seq(Entry)
    BY <1>1, <2>1, <2>2, AddType
  <2>4. [mem EXCEPT !.ignores = add_ignore(@, n, msg)] \in Memory
    BY <2>3 DEF Memory
  <2> QED BY <1>5, <1>9, <2>4 DEF cmd_add_ignore
<1>10. ASSUME NEW n \in Names, cmd_rem_contact(n) PROVE TypeOK'
  <2>1. rem_contact(mem.contacts, n) \in Seq(Names)
    BY <1>1, OnlyType DEF rem_contact
  <2>2. [mem EXCEPT !.contacts = rem_contact(@, n)] \in Memory
    BY <2>1 DEF Memory
  <2> QED BY <1>5, <1>10, <2>2 DEF cmd_rem_contact
<1>11. ASSUME NEW n \in Names, cmd_rem_ignore(n) PROVE TypeOK'
  <2>1. rem_ignore(mem.ignores, n) \in Seq(Entry)
    BY <1>1, OnlyType DEF rem_ignore
  <2>2. [mem EXCEPT !.ignores = rem_ignore(@, n)] \in Memory
    BY <2>1 DEF Memory
  <2> QED BY <1>5, <1>11, <2>2 DEF cmd_rem_ignore
<1>12. ASSUME NEW k \in Always, NEW t \in TypedTexts, cmd_item(k, t) PROVE TypeOK'
  <2>1. k \in Items /\ t \in Texts
    BY TypedAssumption DEF Items
  <2>2. [mem EXCEPT !.item[k] = t] \in Memory
    BY <2>1 DEF Memory
  <2> QED BY <1>5, <1>12, <2>2 DEF cmd_item
<1>13. ASSUME NEW then \in {"saving", "exiting"}, Save(then) \/ SaveFails(then) PROVE TypeOK'
  <2>1. CASE Save(then)
    BY <2>1, EmptySeq DEF Save
  <2>2. CASE SaveFails(then)
    BY <1>4, <2>2 DEF SaveFails
  <2> QED BY <1>13, <2>1, <2>2
<1>14. CASE Saved
  <2>1. mem \in Wide(Names)
    BY MemoryIs, WideIs DEF Proper
  <2>2. file' \in Seq(Line \cup Bare \cup Odd)
    BY <1>14, <2>1, CutType DEF Saved, AnyLine
  <2> QED BY <1>2, <1>4, <1>14, <2>2 DEF Saved
<1>15. CASE Killed
  BY <1>4, <1>15 DEF Killed
<1>16. CASE Edited
  <2>1. file' \in Seq(Line \cup Bare \cup Odd)
    BY <1>16, HandmadeType DEF Edited, AnyLine
  <2> QED BY <1>16, <2>1 DEF Edited
<1>17. CASE Rewritten
  <2>1. file' \in Seq(AnyLine)
    BY <1>0, <1>17, RewrittenType DEF Rewritten
  <2> QED BY <1>17, <2>1 DEF Rewritten, AnyLine
<1>18. CASE UNCHANGED vars
  BY <1>18 DEF vars
<1> QED
  BY <1>6, <1>7, <1>8, <1>9, <1>10, <1>11, <1>12, <1>13, <1>14, <1>15, <1>16, <1>17, <1>18
  DEF Next

LEMMA Begins == Init => TypeOK
BY FreeType, MemoryIs, HandmadeType, BoundAssumption DEF Init, TypeOK, AnyLine

(* What is in memory, and what may stand in the file, whatever was typed,    *)
(* read, cut short or rewritten.                                            *)
THEOREM Typed == Spec => []TypeOK
<1> QED
  BY Begins, TypeHolds, PTL DEF Spec

(* What is saved whole never holds the line that the next start dies of.     *)
THEOREM NeverDeadly == Spec => []SavedIsReadable
<1>1. TypeOK => SavedIsReadable
  <2> SUFFICES ASSUME TypeOK PROVE SavedIsReadable
    OBVIOUS
  <2>1. mem \in Wide(Proper) /\ Proper \in SUBSET Names
    BY MemoryIs DEF TypeOK, Proper
  <2>2. nsc_save_configuration(mem) \in Seq(Lines(Proper))
    BY <2>1, SavedKinds
  <2>3. Lines(Proper) \subseteq Line
    BY DEF Lines
  <2>4. nsc_save_configuration(mem) \in Seq(Line)
    BY <2>2, <2>3, SeqMonotonic
  <2>5. Sights(nsc_save_configuration(mem)) = nsc_save_configuration(mem)
        /\ nsc_save_configuration(mem) \in Seq(AnyLine)
    BY <2>4, SightsAre
  <2> QED BY <2>2, <2>5, ReadableIs DEF SavedIsReadable
<1> QED
  BY <1>1, Typed, PTL

-----------------------------------------------------------------------------
(* The contacts: none twice.                                                *)

Distinct(s) == \A i, j \in 1 .. Len(s) : s[i] = s[j] => i = j
Named(s, n) == \E i \in 1 .. Len(s) : s[i].name = n

LEMMA NothingListed ==
  /\ Distinct(<<>>)
  /\ \A x : ~Contains(<<>>, x) /\ ~Named(<<>>, x)
BY EmptySeq DEF Distinct, Contains, Named

LEMMA OneMore ==
  ASSUME NEW A, NEW s \in Seq(A), NEW e \in A
  PROVE  /\ \A x : Contains(Append(s, e), x) <=> Contains(s, x) \/ x = e
         /\ \A x : Named(Append(s, e), x) <=> Named(s, x) \/ x = e.name
         /\ Distinct(Append(s, e)) <=> Distinct(s) /\ ~Contains(s, e)
<1> DEFINE L == Len(s)
           M == L + 1
           t == Append(s, e)
<1>1. L \in Nat /\ Len(t) = M /\ t[M] = e /\ \A i \in 1 .. L : t[i] = s[i]
  BY AppendProperties, LenProperties
<1> HIDE DEF t
<1>2. /\ \A i \in 1 .. M : i \in 1 .. L \/ i = M
      /\ \A i \in 1 .. L : i \in 1 .. M /\ i # M /\ i < M /\ ~(M < i)
      /\ M \in 1 .. M /\ ~(M < M) /\ M \notin 1 .. L
  BY <1>1
<1> HIDE DEF M, L
<1>3. \A x : Contains(t, x) <=> Contains(s, x) \/ x = e
  BY <1>1, <1>2 DEF Contains, L
<1>4. \A x : Named(t, x) <=> Named(s, x) \/ x = e.name
  BY <1>1, <1>2 DEF Named, L
<1>5. Distinct(t) <=> Distinct(s) /\ ~Contains(s, e)
  BY <1>1, <1>2 DEF Distinct, Contains, L
<1> QED
  BY <1>3, <1>4, <1>5 DEF t

LEMMA OnlyKeeps ==
  ASSUME NEW A, NEW S, NEW s \in Seq(A)
  PROVE  Distinct(s) => Distinct(Only(s, S))
<1> DEFINE T == {r \in Seq(A) :
                   /\ \A x : Contains(Only(r, S), x) => Contains(r, x)
                   /\ Distinct(r) => Distinct(Only(r, S))}
<1>1. <<>> \in T
  BY OnlyNone, EmptySeq
<1>2. ASSUME NEW r \in Seq(A), r \in T, NEW e \in A PROVE Append(r, e) \in T
  <2> DEFINE t == Append(r, e)
             u == Only(r, S)
             v == Only(t, S)
  <2>1. u \in Seq(A) /\ v = IF e \in S THEN Append(u, e) ELSE u
    BY OnlyMore
  <2>2. t \in Seq(A)
    BY AppendProperties
  <2>3. (\A x : Contains(u, x) => Contains(r, x)) /\ (Distinct(r) => Distinct(u))
    BY <1>2
  <2> HIDE DEF t, u, v
  <2>4. /\ \A x : Contains(t, x) <=> Contains(r, x) \/ x = e
        /\ Distinct(t) <=> Distinct(r) /\ ~Contains(r, e)
    BY OneMore DEF t
  <2>5. CASE e \in S
    <3>1. v = Append(u, e)
      BY <2>1, <2>5
    <3>2. /\ \A x : Contains(v, x) <=> Contains(u, x) \/ x = e
          /\ Distinct(v) <=> Distinct(u) /\ ~Contains(u, e)
      BY <2>1, <3>1, OneMore
    <3> QED BY <2>2, <2>3, <2>4, <3>2 DEF t, v
  <2>6. CASE e \notin S
    BY <2>1, <2>2, <2>3, <2>4, <2>6 DEF t, v
  <2> QED BY <2>5, <2>6
<1>3. Seq(A) \subseteq T
  <2> HIDE DEF T
  <2> QED BY <1>1, <1>2, SeqAll
<1> QED BY <1>3

LEMMA AddKeeps ==
  ASSUME NEW s \in Seq(Names), NEW n \in Names, Distinct(s)
  PROVE  Distinct(add_contact(s, n))
BY OneMore DEF add_contact

\* The contacts of m are as nsc makes them.
Listed(m) == Distinct(m.contacts)

LEMMA LoadKeeps ==
  ASSUME NEW s \in Seq(Lines(Proper))
  PROVE  Listed(Loads(nsc_free_configuration, s))
<1> DEFINE z == nsc_free_configuration
           N == Proper
           T == {r \in Seq(Lines(N)) : Listed(Loads(z, r))}
<1>1. N \in SUBSET Names /\ z \in Wide(N) /\ z \in Wide(Names)
  BY FreeType DEF Proper
<1>2. <<>> \in T
  <2>1. Listed(z)
    BY NothingListed DEF Listed, nsc_free_configuration
  <2> HIDE DEF z
  <2> QED BY <1>1, <2>1, LoadNone, EmptySeq
<1> HIDE DEF z, N
<1>3. ASSUME NEW r \in Seq(Lines(N)), r \in T, NEW l \in Lines(N) PROVE Append(r, l) \in T
  <2> DEFINE m == Loads(z, r)
             k == Read(m, l)
  <2>1. m \in Wide(N) /\ Loads(z, Append(r, l)) = k
    BY <1>1, LoadMore
  <2>2. Listed(m) /\ Append(r, l) \in Seq(Lines(N))
    BY <1>3, AppendProperties
  <2> HIDE DEF m
  <2>3. Changed(m, l, k)
    BY <1>1, <2>1, ReadParts
  <2> HIDE DEF k
  <2>4. m.contacts \in Seq(Names) /\ (l[1] = "contact" => l[2] \in Names)
    BY <2>1, LineKinds, KindsApart DEF Wide, Lines
  <2>5. Distinct(k.contacts)
    BY <2>2, <2>3, <2>4, AddKeeps DEF Listed, Changed
  <2> QED BY <2>1, <2>2, <2>5 DEF Listed
<1>4. Seq(Lines(N)) \subseteq T
  <2> HIDE DEF T
  <2> QED BY <1>2, <1>3, SeqAll
<1> QED BY <1>4 DEF z, N

\* The inductive invariant.
IInv == TypeOK /\ Listed(mem)

LEMMA ListedHolds == IInv /\ [Next]_vars => IInv'
<1> SUFFICES ASSUME IInv, [Next]_vars PROVE IInv'
  OBVIOUS
<1>1. TypeOK /\ TypeOK' /\ Listed(mem)
  BY TypeHolds DEF IInv
<1>2. /\ mem \in [item : [Items -> Texts \cup {NULL}], port : Port, flag : SUBSET Flags,
                   contacts : Seq(Names), ignores : Seq(Entry)]
      /\ mem.contacts \in Seq(Names) /\ mem.ignores \in Seq(Entry)
      /\ Distinct(mem.contacts)
  BY <1>1 DEF TypeOK, Memory, Listed
<1>3. Listed(nsc_free_configuration)
  BY NothingListed DEF Listed, nsc_free_configuration
<1>4. ASSUME Readable(file) PROVE Listed(nsc_load_configuration(file))
  <2>1. file \in Seq(AnyLine)
    BY <1>1 DEF TypeOK, AnyLine
  <2>2. Sights(file) \in Seq(Lines(Proper))
    BY <1>4, <2>1, ReadableIs
  <2> QED BY <2>2, LoadIs, LoadKeeps
<1>5. Ends => Listed(mem')
  BY <1>3 DEF Ends
<1> SUFFICES Listed(mem')
  BY <1>1 DEF IInv, Listed
<1>6. CASE Start
  BY <1>4, <1>6 DEF Start
<1>7. CASE cmd_reload_config
  BY <1>4, <1>5, <1>7 DEF cmd_reload_config
<1>8. ASSUME NEW n \in TypedNames, cmd_add_contact(n) PROVE Listed(mem')
  <2>1. n \in Names
    BY TypedAssumption
  <2>2. Distinct(add_contact(mem.contacts, n))
    BY <1>2, <2>1, AddKeeps
  <2>3. mem' = [mem EXCEPT !.contacts = add_contact(@, n)]
    BY <1>8 DEF cmd_add_contact, Changes
  <2>4. mem'.contacts = add_contact(mem.contacts, n)
    BY <1>2, <2>3
  <2> QED BY <2>2, <2>4 DEF Listed
<1>9. ASSUME NEW n \in TypedNames, NEW msg \in TypedTexts \cup {NULL, Empty},
             cmd_add_ignore(n, msg)
      PROVE  Listed(mem')
  <2>1. mem' = [mem EXCEPT !.ignores = add_ignore(@, n, msg)]
    BY <1>9 DEF cmd_add_ignore, Changes
  <2>2. mem'.contacts = mem.contacts
    BY <1>2, <2>1
  <2> QED BY <1>2, <2>2 DEF Listed
<1>10. ASSUME NEW n \in Names, cmd_rem_contact(n) PROVE Listed(mem')
  <2>1. Distinct(rem_contact(mem.contacts, n))
    BY <1>2, OnlyKeeps DEF rem_contact
  <2>2. mem' = [mem EXCEPT !.contacts = rem_contact(@, n)]
    BY <1>10 DEF cmd_rem_contact, Changes
  <2>3. mem'.contacts = rem_contact(mem.contacts, n)
    BY <1>2, <2>2
  <2> QED BY <2>1, <2>3 DEF Listed
<1>11. ASSUME NEW n \in Names, cmd_rem_ignore(n) PROVE Listed(mem')
  <2>1. mem' = [mem EXCEPT !.ignores = rem_ignore(@, n)]
    BY <1>11 DEF cmd_rem_ignore, Changes
  <2>2. mem'.contacts = mem.contacts
    BY <1>2, <2>1
  <2> QED BY <1>2, <2>2 DEF Listed
<1>12. ASSUME NEW k \in Always, NEW t \in TypedTexts, cmd_item(k, t) PROVE Listed(mem')
  <2>1. mem' = [mem EXCEPT !.item[k] = t]
    BY <1>12 DEF cmd_item, Changes
  <2>2. mem'.contacts = mem.contacts
    BY <1>2, <2>1
  <2> QED BY <1>2, <2>2 DEF Listed
<1>13. ASSUME NEW then \in {"saving", "exiting"}, Save(then) \/ SaveFails(then)
       PROVE  Listed(mem')
  BY <1>1, <1>5, <1>13 DEF Save, SaveFails
<1>14. CASE Saved
  BY <1>1, <1>5, <1>14 DEF Saved
<1>15. CASE Killed
  BY <1>5, <1>15 DEF Killed
<1>16. CASE Edited \/ Rewritten \/ UNCHANGED vars
  BY <1>1, <1>16 DEF Edited, Rewritten, vars
<1> QED
  BY <1>6, <1>7, <1>8, <1>9, <1>10, <1>11, <1>12, <1>13, <1>14, <1>15, <1>16
  DEF Next

LEMMA Kept == Spec => []IInv
<1>1. Init => IInv
  BY Begins, NothingListed DEF Init, IInv, Listed, nsc_free_configuration
<1> QED
  BY <1>1, ListedHolds, PTL DEF Spec

-----------------------------------------------------------------------------
(* The first k entries of a list, none or all of them at its ends.           *)

First(s, k) == SubSeq(s, 1, IF k <= 0 THEN 0 ELSE IF k >= Len(s) THEN Len(s) ELSE k)

LEMMA FirstIs ==
  ASSUME NEW A, NEW s \in Seq(A)
  PROVE  /\ \A k \in Int : k <= 0 => First(s, k) = <<>>
         /\ \A k \in Int : k >= Len(s) => First(s, k) = s
         /\ \A k \in Int : First(s, k) \in Seq(A)
         /\ \A k \in 1 .. Len(s) : First(s, k) = Append(First(s, k - 1), s[k])
<1>1. Len(s) \in Nat
  BY LenProperties
<1>2. ASSUME NEW k \in Int, k <= 0 PROVE First(s, k) = <<>>
  BY <1>2, SubSeqEmpty DEF First
<1>3. SubSeq(s, 1, Len(s)) = s
  BY SubSeqFull
<1>4. ASSUME NEW k \in Int, k >= Len(s) PROVE First(s, k) = s
  <2>1. CASE k <= 0
    <3>1. Len(s) = 0
      BY <1>1, <1>4, <2>1
    <3> QED BY <1>2, <1>4, <2>1, <3>1, EmptySeq
  <2>2. CASE k > 0
    BY <1>1, <1>3, <1>4, <2>2 DEF First
  <2> QED BY <2>1, <2>2
<1>5. ASSUME NEW k \in Int PROVE First(s, k) \in Seq(A)
  <2> DEFINE n == IF k <= 0 THEN 0 ELSE IF k >= Len(s) THEN Len(s) ELSE k
  <2>1. n \in 0 .. Len(s)
    BY <1>1
  <2> HIDE DEF n
  <2>2. SubSeq(s, 1, n) \in Seq(A)
    BY <2>1, SubSeqType
  <2> QED BY <2>2 DEF First, n
<1>6. \A k \in 0 .. Len(s) : First(s, k) = SubSeq(s, 1, k)
  BY <1>1 DEF First
<1>7. ASSUME NEW k \in 1 .. Len(s) PROVE First(s, k) = Append(First(s, k - 1), s[k])
  <2>1. k - 1 \in 0 .. Len(s) /\ k \in 0 .. Len(s) /\ 1 \in 1 .. Len(s) /\ s[k] \in A
    BY <1>1, ElementOfSeq
  <2>2. SubSeq(s, 1, k) = SubSeq(s, 1, k - 1) \o <<s[k]>>
    BY <2>1, SubSeqRecursiveSecond
  <2>3. SubSeq(s, 1, k - 1) \in Seq(A)
    BY <2>1, SubSeqType
  <2> QED BY <1>6, <2>1, <2>2, <2>3, AppendIsConcat
<1> QED
  BY <1>2, <1>4, <1>5, <1>7

LEMMA FirstSame ==
  ASSUME NEW A, NEW s \in Seq(A), NEW k \in Int, k <= 0 \/ k > Len(s)
  PROVE  First(s, k) = First(s, k - 1)
<1>1. Len(s) \in Nat /\ k - 1 \in Int
  BY LenProperties
<1>2. CASE k <= 0
  <2>1. k - 1 <= 0
    BY <1>1, <1>2
  <2> QED BY <1>1, <1>2, <2>1, FirstIs
<1>3. CASE k > Len(s)
  <2>1. k - 1 >= Len(s) /\ k >= Len(s)
    BY <1>1, <1>3
  <2> QED BY <1>1, <2>1, FirstIs
<1> QED BY <1>2, <1>3

\* A list without doubles has nothing that is refused after what is before it.
LEMMA FirstNext ==
  ASSUME NEW A, NEW s \in Seq(A), NEW k \in 1 .. Len(s)
  PROVE  /\ First(s, k) = Append(First(s, k - 1), s[k])
         /\ Distinct(s) => ~Contains(First(s, k - 1), s[k])
<1> DEFINE r == First(s, k - 1)
           L == Len(s)
<1>1. L \in Nat /\ k - 1 \in 0 .. L
  BY LenProperties
<1>2. r = SubSeq(s, 1, k - 1)
  BY <1>1 DEF First
<1>3. Len(r) = k - 1 /\ \A i \in 1 .. k - 1 : r[i] = s[i]
  BY <1>1, <1>2, SubSeqProperties
<1> HIDE DEF r
<1>4. /\ \A i \in 1 .. Len(r) : r[i] = s[i] /\ i \in 1 .. L /\ i # k /\ i < k
      /\ k \in 1 .. L
  BY <1>1, <1>3
<1> HIDE DEF L
<1>5. Distinct(s) => ~Contains(r, s[k])
  BY <1>4 DEF Distinct, Contains, L
<1> QED
  BY <1>5, FirstIs DEF r

-----------------------------------------------------------------------------
(* The ignored, as they are read again one after the other.                  *)

\* The places of a list that Once keeps.
First1(s, i) == s[i].message # NULL \/ \A j \in 1 .. i - 1 : s[j].name # s[i].name
Kept1(s) == {i \in 1 .. Len(s) : First1(s, i)}
Upto(n) == [i \in 1 .. n |-> i]

LEMMA UptoMore ==
  ASSUME NEW n \in Nat
  PROVE  /\ Upto(n) \in Seq(1 .. n) /\ Len(Upto(n)) = n
         /\ Upto(n + 1) = Append(Upto(n), n + 1)
<1> DEFINE u == Upto(n)
           v == Upto(n + 1)
           w == Append(u, n + 1)
           M == n + 1
<1>1. \A k \in Nat : Upto(k) \in Seq(1 .. k) /\ Len(Upto(k)) = k
                    /\ \A i \in 1 .. k : Upto(k)[i] = i
  <2> SUFFICES ASSUME NEW k \in Nat
               PROVE  /\ Upto(k) \in Seq(1 .. k) /\ Len(Upto(k)) = k
                      /\ \A i \in 1 .. k : Upto(k)[i] = i
    OBVIOUS
  <2>1. Upto(k) \in [1 .. k -> 1 .. k] /\ \A i \in 1 .. k : Upto(k)[i] = i
    BY DEF Upto
  <2>2. Upto(k) \in Seq(1 .. k) /\ DOMAIN Upto(k) = 1 .. k
    BY <2>1
  <2> HIDE DEF Upto
  <2> QED BY <2>1, <2>2, LenProperties
<1>2. n + 1 \in Nat /\ n + 1 \in Int
  OBVIOUS
<1> HIDE DEF Upto
<1>3. /\ v \in Seq(Int) /\ Len(v) = n + 1 /\ \A i \in 1 .. n + 1 : v[i] = i
      /\ u \in Seq(Int) /\ Len(u) = n /\ \A i \in 1 .. n : u[i] = i
  <2>1. 1 .. n \subseteq Int /\ 1 .. n + 1 \subseteq Int
    OBVIOUS
  <2>2. v \in Seq(1 .. n + 1) /\ u \in Seq(1 .. n)
    BY <1>1, <1>2
  <2>3. v \in Seq(Int) /\ u \in Seq(Int)
    BY <2>1, <2>2, SeqMonotonic
  <2> QED BY <1>1, <1>2, <2>3
<1> HIDE DEF u, v
<1>4. /\ w \in Seq(Int) /\ Len(w) = n + 1 /\ w[n + 1] = n + 1
      /\ \A i \in 1 .. n : w[i] = u[i]
  BY <1>2, <1>3, AppendProperties
<1> HIDE DEF w
<1>5. \A i \in 1 .. n + 1 : v[i] = w[i]
  BY <1>3, <1>4
<1>6. v = w
  BY <1>3, <1>4, <1>5, SeqEqual
<1> QED BY <1>1, <1>6 DEF u, v, w

LEMMA OnceIs ==
  ASSUME NEW A, NEW s \in Seq(A)
  PROVE  Once(s) = Each(s, Only(Upto(Len(s)), Kept1(s)))
<1> DEFINE K == {i \in DOMAIN s : \/ s[i].message # NULL
                                 \/ \A j \in 1 .. i - 1 : s[j].name # s[i].name}
           at == Only([i \in DOMAIN s |-> i], K)
<1>1. Len(s) \in Nat /\ DOMAIN s = 1 .. Len(s)
  BY LenProperties
<1>2. K = Kept1(s)
  BY <1>1 DEF Kept1, First1
<1>3. [i \in DOMAIN s |-> i] = Upto(Len(s))
  BY <1>1 DEF Upto
<1> HIDE DEF K
<1>4. at = Only(Upto(Len(s)), Kept1(s))
  BY <1>2, <1>3
<1>5. Only(Upto(Len(s)), Kept1(s)) \in Seq(1 .. Len(s))
  BY <1>1, UptoMore, OnlyType
<1> HIDE DEF at
<1>6. Once(s) = [k \in DOMAIN at |-> s[at[k]]]
  BY DEF Once, at, K
<1>7. DOMAIN at = 1 .. Len(at)
  BY <1>4, <1>5, LenProperties
<1> QED
  BY <1>4, <1>6, <1>7 DEF Each

LEMMA OnceNone == Once(<<>>) = <<>>
<1>1. <<>> \in Seq({}) /\ Len(<<>>) = 0
  BY EmptySeq
<1>2. Once(<<>>) = Each(<<>>, Only(Upto(0), Kept1(<<>>)))
  BY <1>1, OnceIs
<1>3. Upto(0) = <<>>
  BY UptoMore, EmptySeq
<1> HIDE DEF Once
<1>4. Once(<<>>) = Each(<<>>, <<>>)
  BY <1>2, <1>3, OnlyNone
<1> QED
  BY <1>1, <1>4 DEF Each

LEMMA OnceStep ==
  ASSUME NEW A, NEW s \in Seq(A), NEW e \in A
  PROVE  /\ Once(s) \in Seq(A)
         /\ Once(Append(s, e)) = IF e.message = NULL /\ Named(s, e.name)
                                 THEN Once(s) ELSE Append(Once(s), e)
<1> DEFINE L == Len(s)
           t == Append(s, e)
           u == Upto(L)
           a == Only(u, Kept1(s))
           b == Only(Upto(L + 1), Kept1(t))
<1>1. L \in Nat /\ DOMAIN s = 1 .. L /\ \A i \in 1 .. L : s[i] \in A
  BY LenProperties, ElementOfSeq
<1>2. /\ t \in Seq(A) /\ Len(t) = L + 1 /\ t[L + 1] = e
      /\ \A i \in 1 .. L : t[i] = s[i]
  BY AppendProperties
<1>3. /\ Once(s) = Each(s, a) /\ Once(t) = Each(t, b)
  BY <1>2, OnceIs
<1>4. u \in Seq(1 .. L) /\ Len(u) = L /\ Upto(L + 1) = Append(u, L + 1)
  BY <1>1, UptoMore
<1> HIDE DEF t, u, L
<1>5. \A i \in 1 .. L : i \in Kept1(t) <=> i \in Kept1(s)
  <2> SUFFICES ASSUME NEW i \in 1 .. L PROVE i \in Kept1(t) <=> i \in Kept1(s)
    OBVIOUS
  <2>1. i \in 1 .. L + 1 /\ t[i] = s[i] /\ \A j \in 1 .. i - 1 : j \in 1 .. L /\ t[j] = s[j]
    BY <1>1, <1>2
  <2>2. First1(t, i) <=> First1(s, i)
    BY <2>1 DEF First1
  <2> QED BY <1>2, <2>1, <2>2 DEF Kept1, L
<1>6. L + 1 \in Kept1(t) <=> ~(e.message = NULL /\ Named(s, e.name))
  <2>1. L + 1 - 1 = L /\ L + 1 \in 1 .. L + 1
    BY <1>1
  <2>2. First1(t, L + 1) <=> e.message # NULL \/ \A j \in 1 .. L : s[j].name # e.name
    <3> DEFINE M == L + 1
    <3>1. t[M] = e /\ \A j \in 1 .. L : t[j] = s[j]
      BY <1>2
    <3>3. M - 1 = L
      BY <1>1
    <3> HIDE DEF M
    <3>2. First1(t, M) <=> t[M].message # NULL \/ \A j \in 1 .. M - 1 : t[j].name # t[M].name
      BY DEF First1
    <3> QED BY <3>1, <3>2, <3>3 DEF M
  <2>3. Named(s, e.name) <=> \E j \in 1 .. L : s[j].name = e.name
    BY DEF Named, L
  <2> QED BY <1>2, <2>1, <2>2, <2>3 DEF Kept1
<1>7. \A i \in 1 .. Len(u) : u[i] \in Kept1(t) <=> u[i] \in Kept1(s)
  BY <1>4, <1>5, ElementOfSeq
<1>8. Only(u, Kept1(t)) = a
  BY <1>4, <1>7, OnlySame
<1>9. a \in Seq(1 .. L)
  BY <1>4, OnlyType
<1>10. b = IF L + 1 \in Kept1(t) THEN Append(a, L + 1) ELSE a
  <2> DEFINE B == 1 .. L + 1
  <2>1. u \in Seq(B) /\ L + 1 \in B
    <3>1. 1 .. L \subseteq B /\ L + 1 \in B
      BY <1>1
    <3> QED BY <1>4, <3>1, SeqMonotonic
  <2> DEFINE M == L + 1
             S == Kept1(t)
  <2>2. M \in B /\ Upto(L + 1) = Append(u, M) /\ Only(u, S) = a
    BY <1>4, <1>8, <2>1
  <2> HIDE DEF M, S, B
  <2>3. Only(Append(u, M), S) = IF M \in S THEN Append(Only(u, S), M) ELSE Only(u, S)
    BY <2>1, <2>2, OnlyMore
  <2> QED BY <2>2, <2>3 DEF M, S
<1> HIDE DEF a, b
<1>11. s \in [1 .. L -> A] /\ t \in [1 .. L + 1 -> A]
  <2>1. s \in [1 .. L -> A]
    BY <1>1
  <2>2. DOMAIN t = 1 .. L + 1 /\ \A i \in 1 .. L + 1 : t[i] \in A
    BY <1>2, LenProperties, ElementOfSeq
  <2>3. t = [i \in DOMAIN t |-> t[i]]
    BY <1>2
  <2> QED BY <2>1, <2>2, <2>3
<1>12. Len(a) \in Nat /\ \A i \in 1 .. Len(a) : a[i] \in 1 .. L
  BY <1>9, LenProperties, ElementOfSeq
<1>13. Each(t, a) = Each(s, a) /\ Each(s, a) \in Seq(A) /\ Len(Each(s, a)) = Len(a)
  <2>1. \A i \in 1 .. Len(a) : t[a[i]] = s[a[i]] /\ s[a[i]] \in A
    BY <1>1, <1>2, <1>12
  <2>2. Each(t, a) = Each(s, a)
    BY <2>1 DEF Each
  <2>3. Each(s, a) \in Seq(A)
    BY <1>12, <2>1 DEF Each
  <2>4. DOMAIN Each(s, a) = 1 .. Len(a)
    BY DEF Each
  <2> QED BY <1>12, <2>2, <2>3, <2>4, LenProperties
<1>14. Each(t, Append(a, L + 1)) = Append(Each(t, a), t[L + 1])
  <2> DEFINE B == 1 .. L + 1
             M == L + 1
  <2>1. a \in Seq(B) /\ M \in B
    <3>1. 1 .. L \subseteq B /\ M \in B
      BY <1>1
    <3> QED BY <1>9, <3>1, SeqMonotonic
  <2>2. t \in [B -> A]
    BY <1>11
  <2> HIDE DEF B, M
  <2>3. Grows(B, A, t)
    BY <2>2, EachMore
  <2>4. Each(t, Append(a, M)) = Append(Each(t, a), t[M])
    BY <2>1, <2>3 DEF Grows
  <2> QED BY <2>4 DEF M
<1> QED
  BY <1>2, <1>3, <1>6, <1>10, <1>13, <1>14 DEF t

LEMMA OnceType ==
  ASSUME NEW A, NEW s \in Seq(A)
  PROVE  Once(s) \in Seq(A)
<1>1. CASE s = <<>>
  BY <1>1, OnceNone, EmptySeq
<1>2. CASE s # <<>>
  <2>1. PICK p \in Seq(A), e \in A : s = Append(p, e)
    BY <1>2, SequenceEmptyOrAppend
  <2>2. Once(p) \in Seq(A) /\ Append(Once(p), e) \in Seq(A)
    BY <2>1, OnceStep, AppendProperties
  <2> QED BY <2>1, <2>2, OnceStep
<1> QED BY <1>1, <1>2

LEMMA OnceNames ==
  ASSUME NEW A, NEW s \in Seq(A)
  PROVE  \A n : Named(Once(s), n) <=> Named(s, n)
<1> DEFINE T == {r \in Seq(A) : \A n : Named(Once(r), n) <=> Named(r, n)}
<1>1. <<>> \in T
  BY OnceNone, EmptySeq
<1>2. ASSUME NEW r \in Seq(A), r \in T, NEW e \in A PROVE Append(r, e) \in T
  <2> DEFINE u == Once(r)
             v == Once(Append(r, e))
             t == Append(r, e)
  <2>1. /\ u \in Seq(A) /\ t \in Seq(A)
        /\ v = IF e.message = NULL /\ Named(r, e.name) THEN u ELSE Append(u, e)
    BY OnceStep, AppendProperties
  <2>2. \A n : Named(u, n) <=> Named(r, n)
    BY <1>2
  <2>3. \A n : Named(t, n) <=> Named(r, n) \/ n = e.name
    BY OneMore
  <2> HIDE DEF u, v, t
  <2>4. \A n : Named(Append(u, e), n) <=> Named(u, n) \/ n = e.name
    BY <2>1, OneMore
  <2>5. \A n : Named(v, n) <=> Named(t, n)
    BY <2>1, <2>2, <2>3, <2>4
  <2> QED BY <2>1, <2>5 DEF v, t
<1>3. Seq(A) \subseteq T
  <2> HIDE DEF T
  <2> QED BY <1>1, <1>2, SeqAll
<1> QED BY <1>3

\* Once is what reading the entries one after the other makes of them.
LEMMA OnceAdds ==
  ASSUME NEW N, NEW s \in Seq(Ignored(N)), NEW e \in Ignored(N)
  PROVE  /\ Once(s) \in Seq(Ignored(N))
         /\ Once(Append(s, e)) = add_ignore(Once(s), e.name, e.message)
<1> DEFINE u == Once(s)
<1>1. /\ u \in Seq(Ignored(N))
      /\ Once(Append(s, e)) = IF e.message = NULL /\ Named(s, e.name)
                              THEN u ELSE Append(u, e)
  BY OnceStep
<1>2. Named(u, e.name) <=> Named(s, e.name)
  BY OnceNames
<1> HIDE DEF u
<1>3. DOMAIN u = 1 .. Len(u)
  BY <1>1, LenProperties
<1>4. Entered(e.name, e.message) = e
  <2>1. e.message # Empty /\ e = [name |-> e.name, message |-> e.message]
    BY NullAssumption, EmptyAssumption DEF Ignored, Note
  <2> QED BY <2>1 DEF Entered
<1>5. add_ignore(u, e.name, e.message) =
        IF e.message = NULL /\ Named(u, e.name) THEN u ELSE Append(u, e)
  BY <1>3, <1>4 DEF add_ignore, Named
<1> QED
  BY <1>1, <1>2, <1>5 DEF u

(* What has been read of the lines saved, after n of them: the items, the    *)
(* port and the flags that were among them, and the first contacts and       *)
(* ignored users.                                                           *)
ItemsRead(m, keys, n) ==
  [k \in Items |-> IF \E i \in 1 .. Len(keys) : i <= n /\ keys[i] = k
                   THEN Text(m.item[k]) ELSE NULL]
FlagsRead(keys, flags, n) ==
  {f \in Flags : \E i \in 1 .. Len(flags) : Len(keys) + 1 + i <= n /\ flags[i] = f}

Reached(m, keys, flags, n, r) ==
  /\ r.item = ItemsRead(m, keys, n)
  /\ r.port = IF n > Len(keys) THEN m.port ELSE 0
  /\ r.flag = FlagsRead(keys, flags, n)
  /\ r.contacts = First(m.contacts, n - (Len(keys) + 1 + Len(flags)))
  /\ r.ignores = Once(First(m.ignores, n - (Len(keys) + 1 + Len(flags) + Len(m.contacts))))

LEMMA OneLine ==
  ASSUME NEW N \in SUBSET Names, NEW m \in Wide(N), Listed(m),
         NEW keys \in Seq(Items), NEW flags \in Seq(Flags), NEW w,
         Saves(m, N, keys, flags, w), NEW n \in 1 .. Len(w), NEW q \in Wide(N),
         Reached(m, keys, flags, n - 1, q)
  PROVE  Reached(m, keys, flags, n, Read(q, w[n]))
<1> DEFINE a == Len(keys)
           b == Len(flags)
           c == Len(m.contacts)
           d == Len(m.ignores)
           l == w[n]
           r == Read(q, l)
<1>1. /\ m.contacts \in Seq(Names) /\ m.ignores \in Seq(Ignored(N))
      /\ m.item \in [Items -> Texts \cup {NULL}] /\ m.port \in Port
      /\ Distinct(m.contacts)
  BY DEF Wide, Listed
<1>2. a \in Nat /\ b \in Nat /\ c \in Nat /\ d \in Nat /\ Len(w) = a + 1 + b + c + d
  BY <1>1, LenProperties DEF Saves
<1>3. l \in Lines(N)
  BY ElementOfSeq DEF Saves
<1>4. Changed(q, l, r)
  BY <1>3, ReadParts
<1>5. /\ \A i \in 1 .. a : keys[i] \in Items
      /\ \A i \in 1 .. b : flags[i] \in Flags
      /\ \A i \in 1 .. c : m.contacts[i] \in Names
      /\ \A i \in 1 .. d : m.ignores[i] \in Ignored(N)
  BY <1>1, ElementOfSeq
<1>6. /\ \A i \in 1 .. a : w[i] = ItemLine(m)[keys[i]]
      /\ w[a + 1] = PortLine(m)
      /\ \A i \in 1 .. b : w[a + 1 + i] = FlagLine[flags[i]]
      /\ \A i \in 1 .. c : w[a + 1 + b + i] = ContactLine[m.contacts[i]]
      /\ \A i \in 1 .. d : w[a + 1 + b + c + i] = IgnoreLine(N)[m.ignores[i]]
  BY DEF Saves
<1>7. /\ \A k \in Items : ItemLine(m)[k][1] = k /\ ItemLine(m)[k][2] = Text(m.item[k])
      /\ PortLine(m)[1] = "port" /\ PortLine(m)[2] = m.port
      /\ \A f \in Flags : FlagLine[f][1] = f
      /\ \A x \in Names : ContactLine[x][1] = "contact" /\ ContactLine[x][2] = x
      /\ \A e \in Ignored(N) : /\ IgnoreLine(N)[e][1] = "ignore"
                               /\ IgnoreLine(N)[e][2] = e.name
                               /\ IgnoreLine(N)[e][3] = e.message
  BY DEF ItemLine, PortLine, FlagLine, ContactLine, IgnoreLine
<1>8. /\ q.item = ItemsRead(m, keys, n - 1)
      /\ q.port = IF n - 1 > a THEN m.port ELSE 0
      /\ q.flag = FlagsRead(keys, flags, n - 1)
      /\ q.contacts = First(m.contacts, n - 1 - (a + 1 + b))
      /\ q.ignores = Once(First(m.ignores, n - 1 - (a + 1 + b + c)))
  BY DEF Reached
<1>9. Place(n, a, b, c, d)
  <2> HIDE DEF a, b, c, d
  <2> QED BY <1>2, Places
<1> DEFINE e == n - (a + 1 + b)
           g == n - (a + 1 + b + c)
<1>10. /\ n \in Int /\ e \in Int /\ g \in Int
       /\ n - 1 - (a + 1 + b) = e - 1 /\ n - 1 - (a + 1 + b + c) = g - 1
  BY <1>2
<1>11. /\ q.contacts = First(m.contacts, e - 1) /\ q.ignores = Once(First(m.ignores, g - 1))
  BY <1>8, <1>10
<1>12. \A z : /\ z.item = ItemsRead(m, keys, n)
              /\ z.port = IF n > a THEN m.port ELSE 0
              /\ z.flag = FlagsRead(keys, flags, n)
              /\ z.contacts = First(m.contacts, e)
              /\ z.ignores = Once(First(m.ignores, g))
              => Reached(m, keys, flags, n, z)
  BY DEF Reached
<1> HIDE DEF a, b, c, d, l, r, e, g
\* What stays as it is when the line is somewhere else.
<1>13. ASSUME n > a PROVE ItemsRead(m, keys, n) = ItemsRead(m, keys, n - 1)
  <2>1. \A i \in 1 .. a : i <= n /\ i <= n - 1
    BY <1>2, <1>10, <1>13
  <2> QED BY <2>1 DEF ItemsRead, a
<1>14. ASSUME n <= a + 1 \/ n > a + 1 + b
       PROVE  FlagsRead(keys, flags, n) = FlagsRead(keys, flags, n - 1)
  <2>1. \A i \in 1 .. b : a + 1 + i <= n <=> a + 1 + i <= n - 1
    BY <1>2, <1>10, <1>14
  <2> QED BY <2>1 DEF FlagsRead, a, b
<1>15. ASSUME n <= a + 1 + b \/ n > a + 1 + b + c
       PROVE  First(m.contacts, e) = First(m.contacts, e - 1)
  <2>1. e <= 0 \/ e > c
    BY <1>2, <1>10, <1>15 DEF e
  <2>2. e <= 0 \/ e > Len(m.contacts)
    BY <2>1 DEF c
  <2> QED BY <1>1, <1>10, <2>2, FirstSame
<1>16. ASSUME n <= a + 1 + b + c
       PROVE  First(m.ignores, g) = First(m.ignores, g - 1)
  <2>1. g <= 0
    BY <1>2, <1>10, <1>16 DEF g
  <2> QED BY <1>1, <1>10, <2>1, FirstSame
\* What each line adds.
<1>17. CASE n \in 1 .. a
  <2>1. l = ItemLine(m)[keys[n]] /\ keys[n] \in Items
    BY <1>5, <1>6, <1>17 DEF l
  <2>2. l[1] = keys[n] /\ l[2] = Text(m.item[keys[n]])
    BY <1>7, <2>1
  <2>3. /\ l[1] # "port" /\ l[1] \notin Flags /\ l[1] # "contact" /\ l[1] # "ignore"
    BY <2>1, <2>2, OneKind
  <2>4. /\ n <= a /\ n - 1 <= a /\ ~(n > a) /\ ~(n - 1 > a) /\ n <= a + 1
        /\ n <= a + 1 + b /\ n <= a + 1 + b + c
    BY <1>2, <1>17
  <2>5. r.item = ItemsRead(m, keys, n)
    <3>1. r.item = [k \in Items |-> IF k = keys[n] THEN Text(m.item[keys[n]]) ELSE q.item[k]]
      BY <1>4, <2>2 DEF Changed
    <3>2. \A i \in 1 .. a : i <= n <=> i <= n - 1 \/ i = n
      BY <1>2, <1>10
    <3>3. n \in 1 .. a
      BY <1>17
    <3> QED BY <1>8, <3>1, <3>2, <3>3 DEF ItemsRead, a
  <2>6. r.port = 0 /\ r.flag = q.flag /\ r.contacts = q.contacts /\ r.ignores = q.ignores
    BY <1>4, <1>8, <2>3, <2>4 DEF Changed
  <2>7. Reached(m, keys, flags, n, r)
    BY <1>8, <1>11, <1>12, <1>14, <1>15, <1>16, <2>4, <2>5, <2>6
  <2> QED BY <2>7 DEF r, l
<1>18. CASE n = a + 1
  <2>1. l = PortLine(m)
    BY <1>6, <1>18 DEF l, a
  <2>2. l[1] = "port" /\ l[2] = m.port
    BY <1>7, <2>1
  <2>3. /\ l[1] \notin Items /\ l[1] \notin Flags /\ l[1] # "contact" /\ l[1] # "ignore"
    BY <2>2, OneKind
  <2>4. n > a /\ n <= a + 1 /\ n <= a + 1 + b /\ n <= a + 1 + b + c
    BY <1>2, <1>18
  <2>5. r.item = q.item
    <3>1. r.item = [k \in Items |-> q.item[k]]
      BY <1>4, <2>3 DEF Changed
    <3> QED BY <3>1 DEF Wide
  <2>6. m.port % 65536 = m.port
    BY <1>1, ModPort
  <2>7. /\ r.port = m.port /\ r.flag = q.flag
        /\ r.contacts = q.contacts /\ r.ignores = q.ignores
    BY <1>4, <2>2, <2>3, <2>6 DEF Changed
  <2>8. Reached(m, keys, flags, n, r)
    BY <1>8, <1>11, <1>12, <1>13, <1>14, <1>15, <1>16, <2>4, <2>5, <2>7
  <2> QED BY <2>8 DEF r, l
<1>19. ASSUME NEW i \in 1 .. b, n = a + 1 + i PROVE Reached(m, keys, flags, n, r)
  <2>1. l = FlagLine[flags[i]] /\ flags[i] \in Flags
    BY <1>5, <1>6, <1>19 DEF l, a, b
  <2>2. l[1] = flags[i]
    BY <1>7, <2>1
  <2>3. /\ l[1] \notin Items /\ l[1] # "port" /\ l[1] # "contact" /\ l[1] # "ignore"
    BY <2>1, <2>2, OneKind
  <2>4. n > a /\ n - 1 > a /\ n <= a + 1 + b /\ n <= a + 1 + b + c
    BY <1>2, <1>19
  <2>5. r.item = q.item
    <3>1. r.item = [k \in Items |-> q.item[k]]
      BY <1>4, <2>3 DEF Changed
    <3> QED BY <3>1 DEF Wide
  <2>6. r.flag = q.flag \cup {flags[i]}
    BY <1>4, <2>1, <2>2 DEF Changed
  <2>7. FlagsRead(keys, flags, n) = q.flag \cup {flags[i]}
    <3>1. \A j \in 1 .. b : a + 1 + j <= n <=> a + 1 + j <= n - 1 \/ j = i
      BY <1>2, <1>10, <1>19
    <3> QED BY <1>8, <2>1, <3>1 DEF FlagsRead, a, b
  <2>8. r.port = q.port /\ r.contacts = q.contacts /\ r.ignores = q.ignores
    BY <1>4, <2>3 DEF Changed
  <2> QED
    BY <1>8, <1>11, <1>12, <1>13, <1>15, <1>16, <2>4, <2>5, <2>6, <2>7, <2>8
<1>20. ASSUME NEW i \in 1 .. c, n = a + 1 + b + i PROVE Reached(m, keys, flags, n, r)
  <2>1. l = ContactLine[m.contacts[i]] /\ m.contacts[i] \in Names
    BY <1>5, <1>6, <1>20 DEF l, a, b, c
  <2>2. l[1] = "contact" /\ l[2] = m.contacts[i]
    BY <1>7, <2>1
  <2>3. /\ l[1] \notin Items /\ l[1] \notin Flags /\ l[1] # "port" /\ l[1] # "ignore"
    BY <2>2, OneKind
  <2>4. n > a /\ n - 1 > a /\ n > a + 1 + b /\ n <= a + 1 + b + c /\ e = i
    BY <1>2, <1>20 DEF e
  <2>5. r.item = q.item
    <3>1. r.item = [k \in Items |-> q.item[k]]
      BY <1>4, <2>3 DEF Changed
    <3> QED BY <3>1 DEF Wide
  <2>6. i \in 1 .. Len(m.contacts)
    BY <1>20 DEF c
  <2>7. ~Contains(q.contacts, m.contacts[i])
    BY <1>1, <1>11, <2>4, <2>6, FirstNext
  <2>8. First(m.contacts, e) = Append(q.contacts, m.contacts[i])
    BY <1>1, <1>11, <2>4, <2>6, FirstNext
  <2>9. r.contacts = First(m.contacts, e)
    BY <1>4, <2>2, <2>7, <2>8 DEF Changed, add_contact
  <2>10. r.port = q.port /\ r.flag = q.flag /\ r.ignores = q.ignores
    BY <1>4, <2>2, <2>3 DEF Changed
  <2> QED
    BY <1>8, <1>11, <1>12, <1>13, <1>14, <1>16, <2>4, <2>5, <2>9, <2>10
<1>21. ASSUME NEW i \in 1 .. d, n = a + 1 + b + c + i PROVE Reached(m, keys, flags, n, r)
  <2> DEFINE x == m.ignores[i]
  <2>1. l = IgnoreLine(N)[x] /\ x \in Ignored(N)
    BY <1>5, <1>6, <1>21 DEF l, a, b, c, d
  <2>2. l[1] = "ignore" /\ l[2] = x.name /\ l[3] = x.message
    BY <1>7, <2>1
  <2>3. /\ l[1] \notin Items /\ l[1] \notin Flags /\ l[1] # "port" /\ l[1] # "contact"
    BY <2>2, OneKind
  <2>4. n > a /\ n - 1 > a /\ n > a + 1 + b /\ n > a + 1 + b + c /\ g = i
    BY <1>2, <1>21 DEF g
  <2>5. r.item = q.item
    <3>1. r.item = [k \in Items |-> q.item[k]]
      BY <1>4, <2>3 DEF Changed
    <3> QED BY <3>1 DEF Wide
  <2>6. i \in 1 .. Len(m.ignores)
    BY <1>21 DEF d
  <2>7. First(m.ignores, g) = Append(First(m.ignores, g - 1), x)
    BY <1>1, <2>4, <2>6, FirstIs
  <2>8. First(m.ignores, g - 1) \in Seq(Ignored(N))
    <3>1. g - 1 \in Int
      BY <1>10
    <3> QED BY <1>1, <3>1, FirstIs
  <2>9. Once(First(m.ignores, g)) = add_ignore(q.ignores, x.name, x.message)
    <3> DEFINE p == First(m.ignores, g - 1)
    <3>1. p \in Seq(Ignored(N)) /\ q.ignores = Once(p) /\ First(m.ignores, g) = Append(p, x)
      BY <1>11, <2>7, <2>8
    <3> HIDE DEF p, x
    <3> QED BY <2>1, <3>1, OnceAdds
  <2>11. r.ignores = Once(First(m.ignores, g))
    BY <1>4, <2>2, <2>9 DEF Changed
  <2>12. r.port = q.port /\ r.flag = q.flag /\ r.contacts = q.contacts
    BY <1>4, <2>2, <2>3 DEF Changed
  <2> QED
    BY <1>8, <1>11, <1>12, <1>13, <1>14, <1>15, <2>4, <2>5, <2>11, <2>12
<1>22. Reached(m, keys, flags, n, r)
  <2>1. CASE n \in 1 .. a
    BY <1>17, <2>1 DEF r, l
  <2>2. CASE n = a + 1
    BY <1>18, <2>2 DEF r, l
  <2> QED BY <1>9, <1>19, <1>20, <1>21, <2>1, <2>2 DEF Place
<1> QED
  BY <1>22 DEF r, l

LEMMA AllReached ==
  ASSUME NEW N \in SUBSET Names, NEW m \in Wide(N), Listed(m),
         NEW keys \in Seq(Items), NEW flags \in Seq(Flags), NEW w,
         Saves(m, N, keys, flags, w)
  PROVE  \A n \in 0 .. Len(w) :
           /\ Loads(nsc_free_configuration, SubSeq(w, 1, n)) \in Wide(N)
           /\ Reached(m, keys, flags, n, Loads(nsc_free_configuration, SubSeq(w, 1, n)))
<1> DEFINE z == nsc_free_configuration
           R(n) == Loads(z, SubSeq(w, 1, n))
           S == {n \in 0 .. Len(w) : Reached(m, keys, flags, n, R(n))}
<1>1. /\ m.contacts \in Seq(Names) /\ m.ignores \in Seq(Ignored(N)) /\ w \in Seq(Lines(N))
      /\ Len(keys) \in Nat /\ Len(flags) \in Nat /\ Len(w) \in Nat
  BY LenProperties DEF Wide, Saves
<1>2. z \in Wide(N)
  BY FreeType
<1>3. \A n \in 0 .. Len(w) : R(n) \in Wide(N)
  <2> SUFFICES ASSUME NEW n \in 0 .. Len(w) PROVE R(n) \in Wide(N)
    OBVIOUS
  <2>1. SubSeq(w, 1, n) \in Seq(Lines(N))
    BY <1>1, SubSeqType
  <2> HIDE DEF z
  <2> QED BY <1>2, <2>1, LoadType
<1>4. Reached(m, keys, flags, 0, z)
  <2>1. /\ z.item = [k \in Items |-> NULL] /\ z.port = 0 /\ z.flag = {}
        /\ z.contacts = <<>> /\ z.ignores = <<>>
    BY DEF nsc_free_configuration
  <2>2. ItemsRead(m, keys, 0) = [k \in Items |-> NULL]
    <3>1. \A i \in 1 .. Len(keys) : ~(i <= 0)
      BY <1>1
    <3> QED BY <3>1 DEF ItemsRead
  <2>3. FlagsRead(keys, flags, 0) = {}
    <3>1. \A i \in 1 .. Len(flags) : ~(Len(keys) + 1 + i <= 0)
      BY <1>1
    <3> QED BY <3>1 DEF FlagsRead
  <2>4. Len(m.contacts) \in Nat
    BY <1>1, LenProperties
  <2>5. First(m.contacts, 0 - (Len(keys) + 1 + Len(flags))) = <<>>
    <3>1. 0 - (Len(keys) + 1 + Len(flags)) \in Int /\ 0 - (Len(keys) + 1 + Len(flags)) <= 0
      BY <1>1
    <3> QED BY <1>1, <3>1, FirstIs
  <2>6. Once(First(m.ignores, 0 - (Len(keys) + 1 + Len(flags) + Len(m.contacts)))) = <<>>
    <3> DEFINE a == Len(keys)
               b == Len(flags)
               c == Len(m.contacts)
               v == 0 - (a + 1 + b + c)
    <3>1. a \in Nat /\ b \in Nat /\ c \in Nat
      BY <1>1, <2>4
    <3> HIDE DEF a, b, c
    <3>2. v \in Int /\ v <= 0
      BY <3>1
    <3> HIDE DEF v
    <3>3. First(m.ignores, v) = <<>>
      BY <1>1, <3>2, FirstIs
    <3> QED BY <3>3, OnceNone DEF v, a, b, c
  <2>7. ~(0 > Len(keys))
    BY <1>1
  <2> HIDE DEF z
  <2> QED BY <2>1, <2>2, <2>3, <2>5, <2>6, <2>7 DEF Reached
<1>5. 0 \in S
  <2>1. SubSeq(w, 1, 0) = <<>>
    BY SubSeqEmpty
  <2>2. z \in Wide(Names)
    BY FreeType
  <2>3. R(0) = z
    BY <2>1, <2>2, LoadNone
  <2> HIDE DEF z, R
  <2> QED BY <1>1, <1>4, <2>3
<1> HIDE DEF z
<1>6. ASSUME NEW n \in 1 .. Len(w), n - 1 \in S PROVE n \in S
  <2>1. n - 1 \in 0 .. Len(w) /\ n \in 0 .. Len(w) /\ Reached(m, keys, flags, n - 1, R(n - 1))
    BY <1>1, <1>6
  <2>2. w[n] \in Lines(N) /\ 1 \in 1 .. Len(w)
    BY <1>1, ElementOfSeq
  <2>3. SubSeq(w, 1, n - 1) \in Seq(Lines(N))
    BY <1>1, <2>1, SubSeqType
  <2>4. SubSeq(w, 1, n) = Append(SubSeq(w, 1, n - 1), w[n])
    BY <1>1, <2>1, <2>2, <2>3, SubSeqRecursiveSecond, AppendIsConcat
  <2>5. R(n) = Read(R(n - 1), w[n])
    <3>1. Loads(z, Append(SubSeq(w, 1, n - 1), w[n])) = Read(Loads(z, SubSeq(w, 1, n - 1)), w[n])
      BY <1>2, <2>2, <2>3, LoadMore
    <3> QED BY <2>4, <3>1
  <2>6. R(n - 1) \in Wide(N)
    BY <1>3, <2>1
  <2> HIDE DEF R
  <2>7. Reached(m, keys, flags, n, Read(R(n - 1), w[n]))
    BY <2>1, <2>6, OneLine
  <2> QED BY <2>1, <2>5, <2>7
<1>7. 0 .. Len(w) \subseteq S
  <2> HIDE DEF S
  <2> QED BY <1>1, <1>5, <1>6, UpTo
<1> QED
  BY <1>3, <1>7 DEF z

LEMMA SameMemory ==
  ASSUME NEW N, NEW r \in Wide(N), NEW s \in Wide(N),
         r.item = s.item, r.port = s.port, r.flag = s.flag,
         r.contacts = s.contacts, r.ignores = s.ignores
  PROVE  r = s
BY DEF Wide

LEMMA WrittenIs ==
  ASSUME NEW N, NEW m \in Wide(N)
  PROVE  /\ Written(m) \in Wide(N) /\ Written(m).port = m.port
         /\ Written(m).flag = m.flag /\ Written(m).contacts = m.contacts
         /\ Written(m).ignores = m.ignores
         /\ Written(m).item \in [Items -> Texts \cup {NULL}]
         /\ \A k \in Items : Written(m).item[k] =
              IF k \in Stated(m) THEN Text(m.item[k]) ELSE NULL
<1> DEFINE I == [k \in Items |-> IF k \in Always THEN Text(m.item[k]) ELSE m.item[k]]
<1>1. /\ m \in [item : [Items -> Texts \cup {NULL}], port : Port, flag : SUBSET Flags,
                contacts : Seq(Names), ignores : Seq(Ignored(N))]
      /\ m.item \in [Items -> Texts \cup {NULL}]
  BY DEF Wide
<1>2. I \in [Items -> Texts \cup {NULL}]
  <2> SUFFICES ASSUME NEW k \in Items PROVE I[k] \in Texts \cup {NULL}
    OBVIOUS
  <2> QED BY <1>1, NullAssumption DEF Text
<1>3. \A k \in Items : I[k] = IF k \in Stated(m) THEN Text(m.item[k]) ELSE NULL
  BY ItemAssumption DEF Stated, Text, Items
<1>4. Written(m) = [m EXCEPT !.item = I]
  BY DEF Written
<1> HIDE DEF I
<1>5. /\ Written(m) \in Wide(N) /\ Written(m).port = m.port
      /\ Written(m).flag = m.flag /\ Written(m).contacts = m.contacts
      /\ Written(m).ignores = m.ignores /\ Written(m).item = I
  BY <1>1, <1>2, <1>4 DEF Wide
<1> QED
  BY <1>2, <1>3, <1>5

LEMMA ReadBack ==
  ASSUME NEW N \in SUBSET Names, NEW m \in Wide(N), Listed(m)
  PROVE  nsc_load_configuration(nsc_save_configuration(m))
           = [Written(m) EXCEPT !.ignores = Once(@)]
<1> DEFINE w == nsc_save_configuration(m)
           r == Loads(nsc_free_configuration, w)
<1>1. PICK keys \in Seq(Stated(m)), flags \in Seq(m.flag) :
        /\ \A k \in Stated(m) : \E i \in 1 .. Len(keys) : keys[i] = k
        /\ \A f \in m.flag : \E i \in 1 .. Len(flags) : flags[i] = f
        /\ keys \in Seq(Items) /\ flags \in Seq(Flags)
        /\ Saves(m, N, keys, flags, w)
  BY SaveIs
<1> DEFINE a == Len(keys)
           b == Len(flags)
           c == Len(m.contacts)
           d == Len(m.ignores)
<1> HIDE DEF w
<1>2. w \in Seq(Lines(N)) /\ Len(w) \in 0 .. Len(w) /\ SubSeq(w, 1, Len(w)) = w
  <2>1. w \in Seq(Lines(N))
    BY <1>1 DEF Saves
  <2>2. Len(w) \in Nat /\ SubSeq(w, 1, Len(w)) = w
    BY <2>1, LenProperties, SubSeqFull
  <2> QED BY <2>1, <2>2
<1>3. r \in Wide(N) /\ Reached(m, keys, flags, Len(w), r)
  BY <1>1, <1>2, AllReached
<1>4. /\ m.contacts \in Seq(Names) /\ m.ignores \in Seq(Ignored(N))
      /\ m.item \in [Items -> Texts \cup {NULL}] /\ m.flag \in SUBSET Flags
  BY DEF Wide
<1>5. a \in Nat /\ b \in Nat /\ c \in Nat /\ d \in Nat /\ Len(w) = a + 1 + b + c + d
  BY <1>1, <1>4, LenProperties DEF Saves
<1>6. /\ r.item = ItemsRead(m, keys, Len(w)) /\ r.port = IF Len(w) > a THEN m.port ELSE 0
      /\ r.flag = FlagsRead(keys, flags, Len(w))
      /\ r.contacts = First(m.contacts, Len(w) - (a + 1 + b))
      /\ r.ignores = Once(First(m.ignores, Len(w) - (a + 1 + b + c)))
  BY <1>3 DEF Reached
<1> HIDE DEF r
<1>7. r.item = Written(m).item
  <2>1. \A i \in 1 .. a : i <= Len(w) /\ keys[i] \in Stated(m)
    <3>1. \A i \in 1 .. a : keys[i] \in Stated(m)
      BY <1>1, ElementOfSeq
    <3> HIDE DEF a, b, c, d
    <3> QED BY <1>5, <3>1
  <2>2. \A k \in Items : (\E i \in 1 .. a : i <= Len(w) /\ keys[i] = k) <=> k \in Stated(m)
    BY <1>1, <2>1
  <2>3. ItemsRead(m, keys, Len(w)) =
          [k \in Items |-> IF k \in Stated(m) THEN Text(m.item[k]) ELSE NULL]
    BY <2>2 DEF ItemsRead
  <2>4. /\ Written(m).item \in [Items -> Texts \cup {NULL}]
        /\ \A k \in Items : Written(m).item[k] =
             IF k \in Stated(m) THEN Text(m.item[k]) ELSE NULL
    BY WrittenIs
  <2> QED BY <1>6, <2>3, <2>4
<1>8. r.flag = m.flag
  <2>1. \A i \in 1 .. b : a + 1 + i <= Len(w) /\ flags[i] \in m.flag
    <3>1. \A i \in 1 .. b : flags[i] \in m.flag
      BY <1>1, ElementOfSeq
    <3> HIDE DEF a, b, c, d
    <3> QED BY <1>5, <3>1
  <2>2. \A f \in Flags :
          (\E i \in 1 .. b : a + 1 + i <= Len(w) /\ flags[i] = f) <=> f \in m.flag
    BY <1>1, <2>1
  <2>3. FlagsRead(keys, flags, Len(w)) = {f \in Flags : f \in m.flag}
    BY <2>2 DEF FlagsRead
  <2> QED BY <1>4, <1>6, <2>3
<1>9. r.port = m.port
  <2> HIDE DEF a, b, c, d
  <2> QED BY <1>5, <1>6
<1>10. r.contacts = m.contacts
  <2>1. Len(w) - (a + 1 + b) \in Int /\ Len(w) - (a + 1 + b) >= c
    <3> HIDE DEF a, b, c, d
    <3> QED BY <1>5
  <2> QED BY <1>4, <1>6, <2>1, FirstIs
<1>11. r.ignores = Once(m.ignores)
  <2>1. Len(w) - (a + 1 + b + c) \in Int /\ Len(w) - (a + 1 + b + c) >= d
    <3> HIDE DEF a, b, c, d
    <3> QED BY <1>5
  <2>2. First(m.ignores, Len(w) - (a + 1 + b + c)) = m.ignores
    BY <1>4, <2>1, FirstIs
  <2> QED BY <1>6, <2>2
<1>12. /\ Written(m) \in Wide(N) /\ Written(m).port = m.port
       /\ Written(m).flag = m.flag /\ Written(m).contacts = m.contacts
       /\ Written(m).ignores = m.ignores
  BY WrittenIs
<1> DEFINE x == [Written(m) EXCEPT !.ignores = Once(@)]
<1>13. /\ x \in Wide(N) /\ x.item = Written(m).item /\ x.port = m.port /\ x.flag = m.flag
       /\ x.contacts = m.contacts /\ x.ignores = Once(m.ignores)
  <2> DEFINE o == Once(m.ignores)
             y == Written(m)
  <2>1. o \in Seq(Ignored(N))
    BY <1>4, OnceType
  <2>2. y \in Wide(N) /\ x = [y EXCEPT !.ignores = o]
    BY <1>12
  <2> HIDE DEF o, y, x
  <2>3. /\ x \in Wide(N) /\ x.item = y.item /\ x.port = y.port /\ x.flag = y.flag
        /\ x.contacts = y.contacts /\ x.ignores = o
    BY <2>1, <2>2 DEF Wide
  <2> QED BY <1>12, <2>3 DEF o, y
<1> HIDE DEF x
<1>14. r = x
  BY <1>3, <1>7, <1>8, <1>9, <1>10, <1>11, <1>13, SameMemory DEF r
<1>15. w \in Seq(Line)
  BY <1>2, WideLines
<1>16. nsc_load_configuration(w) = r
  BY <1>15, LoadIs DEF r
<1> QED
  BY <1>14, <1>16 DEF w, x

(* What is saved is what the next start reads (nsc_conf.c: the loading and  *)
(* the saving), for any lists and items, but for who is ignored again        *)
(* without a message and the items that are not set: because no contact is   *)
(* ever listed twice.                                                       *)
THEOREM Back == Spec => []RoundTrip
<1>1. IInv => RoundTrip
  BY MemoryIs, ReadBack DEF IInv, TypeOK, RoundTrip, Proper
<1> QED
  BY <1>1, Kept, PTL

-----------------------------------------------------------------------------
(* What a save that is cut short leaves.                                     *)

LEMMA FrontIs ==
  ASSUME NEW A, NEW r \in Seq(A), NEW x
  PROVE  Front(Append(r, x)) = r
<1>1. r \in Seq(A \cup {x}) /\ x \in A \cup {x}
  BY SeqMonotonic
<1> DEFINE B == A \cup {x}
           t == Append(r, x)
<1>2. /\ Len(r) \in Nat /\ Len(t) = Len(r) + 1 /\ t \in Seq(B)
      /\ \A i \in 1 .. Len(r) : t[i] = r[i]
  BY <1>1, AppendProperties, LenProperties
<1>3. r \in Seq(B)
  BY <1>1
<1> HIDE DEF B, t
<1>4. Len(t) - 1 = Len(r) /\ Len(r) \in 0 .. Len(t)
  BY <1>2
<1>5. /\ SubSeq(t, 1, Len(r)) \in Seq(B) /\ Len(SubSeq(t, 1, Len(r))) = Len(r)
      /\ \A i \in 1 .. Len(r) : SubSeq(t, 1, Len(r))[i] = t[i]
  BY <1>2, <1>4, SubSeqType
<1>6. SubSeq(t, 1, Len(r)) = r
  BY <1>2, <1>3, <1>5, SeqEqual
<1> QED BY <1>4, <1>6 DEF Front, t

LEMMA AlmostIs ==
  ASSUME NEW A, NEW s \in Seq(A), NEW k \in Int
  PROVE  /\ Almost(First(s, k), s)
         /\ \A x : Almost(Append(First(s, k), x), s)
<1>1. Len(s) \in Nat
  BY LenProperties
<1>2. ASSUME NEW n \in 0 .. Len(s) PROVE IsPrefix(SubSeq(s, 1, n), s)
  <2> DEFINE r == SubSeq(s, 1, n)
  <2>1. r \in Seq(A) /\ Len(r) = n
    BY SubSeqType
  <2>2. SubSeq(r, 1, Len(r)) = r
    BY <2>1, SubSeqFull
  <2> QED BY <1>1, <2>1, <2>2 DEF IsPrefix
<1>3. \A r \in Seq(A) : \A x : Front(Append(r, x)) = r
  BY FrontIs
<1>4. PICK n \in 0 .. Len(s) : First(s, k) = SubSeq(s, 1, n)
  BY <1>1 DEF First
<1>5. SubSeq(s, 1, n) \in Seq(A)
  BY SubSeqType
<1>6. \A x : Almost(Append(First(s, k), x), s)
  BY <1>2, <1>3, <1>4, <1>5 DEF Almost
<1>7. Almost(First(s, k), s)
  <2>1. CASE n = 0
    BY <1>4, <2>1, SubSeqEmpty DEF Almost
  <2>2. CASE n # 0
    <3>1. n - 1 \in 0 .. Len(s) /\ n \in 1 .. Len(s) /\ 1 \in 1 .. Len(s) /\ s[n] \in A
      BY <1>1, <2>2, ElementOfSeq
    <3>2. SubSeq(s, 1, n - 1) \in Seq(A)
      BY <3>1, SubSeqType
    <3>3. SubSeq(s, 1, n) = Append(SubSeq(s, 1, n - 1), s[n])
      BY <3>1, <3>2, SubSeqRecursiveSecond, AppendIsConcat
    <3> QED BY <1>2, <1>3, <1>4, <3>1, <3>2, <3>3 DEF Almost
  <2> QED BY <2>1, <2>2
<1> QED
  BY <1>6, <1>7

\* The first entries read one after the other are the first of all that are read.
LEMMA FirstBefore ==
  ASSUME NEW A, NEW s \in Seq(A), NEW e \in A, NEW k \in Int, k <= Len(s)
  PROVE  First(Append(s, e), k) = First(s, k)
<1> DEFINE t == Append(s, e)
           L == Len(s)
           n == IF k <= 0 THEN 0 ELSE k
           u == SubSeq(s, 1, n)
           v == SubSeq(t, 1, n)
<1>1. L \in Nat /\ t \in Seq(A) /\ Len(t) = L + 1 /\ \A i \in 1 .. L : t[i] = s[i]
  BY LenProperties, AppendProperties
<1>2. n \in 0 .. L /\ n \in 0 .. L + 1 /\ First(s, k) = u
  BY <1>1 DEF First
<1>3. First(t, k) = v
  <2> HIDE DEF t, L
  <2> QED BY <1>1 DEF First, L
<1> HIDE DEF t, L, n
<1>4. /\ u \in Seq(A) /\ Len(u) = n /\ \A i \in 1 .. n : u[i] = s[i]
      /\ v \in Seq(A) /\ Len(v) = n /\ \A i \in 1 .. n : v[i] = t[i]
  BY <1>1, <1>2, SubSeqType DEF L
<1>5. \A i \in 1 .. n : u[i] = v[i]
  BY <1>1, <1>2, <1>4
<1> HIDE DEF u, v
<1>6. u = v
  BY <1>4, <1>5, SeqEqual
<1> QED BY <1>2, <1>3, <1>6 DEF t

LEMMA FirstWithin ==
  ASSUME NEW A, NEW s \in Seq(A), NEW e \in A, NEW j \in Int
  PROVE  \E i \in Int : First(s, j) = First(Append(s, e), i)
<1>1. Len(s) \in Nat
  BY LenProperties
<1>2. CASE j <= Len(s)
  BY <1>2, FirstBefore
<1>3. CASE j > Len(s)
  <2>1. First(s, j) = s /\ First(s, Len(s)) = s
    <3>1. Len(s) \in Int /\ j >= Len(s) /\ Len(s) >= Len(s)
      BY <1>1, <1>3
    <3>2. \A k \in Int : k >= Len(s) => First(s, k) = s
      BY FirstIs
    <3> QED BY <3>1, <3>2
  <2>2. First(Append(s, e), Len(s)) = First(s, Len(s))
    BY <1>1, FirstBefore
  <2> QED BY <1>1, <2>1, <2>2
<1> QED BY <1>1, <1>2, <1>3

LEMMA OnceFirst ==
  ASSUME NEW A, NEW s \in Seq(A)
  PROVE  \A k \in Int : \E j \in Int : Once(First(s, k)) = First(Once(s), j)
<1> DEFINE P(r) == \A k \in Int : \E j \in Int : Once(First(r, k)) = First(Once(r), j)
           T == {r \in Seq(A) : P(r)}
<1>1. <<>> \in T
  <2>1. /\ <<>> \in Seq(A) /\ Len(<<>>) = 0
        /\ \A k \in Int : First(<<>>, k) = <<>>
    <3>1. <<>> \in Seq(A) /\ Len(<<>>) = 0
      BY EmptySeq
    <3>2. \A k \in Int : k <= 0 \/ k >= 0
      OBVIOUS
    <3> QED BY <3>1, <3>2, FirstIs
  <2> HIDE DEF First
  <2> QED BY <2>1, OnceNone
<1>2. ASSUME NEW r \in Seq(A), r \in T, NEW e \in A PROVE Append(r, e) \in T
  <2> DEFINE t == Append(r, e)
             u == Once(r)
             v == Once(t)
  <2>1. /\ u \in Seq(A) /\ (v = u \/ v = Append(u, e))
        /\ t \in Seq(A) /\ v \in Seq(A)
    <3>1. t \in Seq(A)
      BY AppendProperties
    <3>2. u \in Seq(A) /\ v = IF e.message = NULL /\ Named(r, e.name) THEN u ELSE Append(u, e)
      BY OnceStep
    <3> HIDE DEF t, u
    <3>3. v \in Seq(A)
      BY <3>1, OnceType
    <3> QED BY <3>1, <3>2, <3>3
  <2>2. Len(r) \in Nat /\ Len(t) = Len(r) + 1 /\ Len(v) \in Int
    BY <2>1, LenProperties, AppendProperties
  <2>3. P(r)
    BY <1>2
  <2>4. \A j \in Int : \E i \in Int : First(u, j) = First(v, i)
    <3> HIDE DEF u, v, t
    <3>1. CASE v = u
      BY <3>1
    <3>2. CASE v = Append(u, e)
      BY <2>1, <3>2, FirstWithin
    <3> QED BY <2>1, <3>1, <3>2
  <2>5. ASSUME NEW k \in Int PROVE \E j \in Int : Once(First(t, k)) = First(v, j)
    <3>1. CASE k <= Len(r)
      <4>1. First(t, k) = First(r, k)
        BY <3>1, FirstBefore
      <4>2. \E j \in Int : Once(First(r, k)) = First(u, j)
        BY <2>3
      <4> HIDE DEF u, v, t
      <4> QED BY <2>4, <4>1, <4>2
    <3>2. CASE k > Len(r)
      <4>1. First(t, k) = t
        <5> DEFINE M == Len(r)
                   K == Len(t)
        <5>1. M \in Nat /\ K = M + 1 /\ k > M
          BY <2>2, <3>2
        <5> HIDE DEF M, K
        <5>2. k >= K
          BY <5>1
        <5> HIDE DEF t
        <5> QED BY <2>1, <5>2, FirstIs DEF K
      <4>2. First(v, Len(v)) = v
        <5> HIDE DEF v
        <5>1. Len(v) >= Len(v)
          BY <2>2
        <5> QED BY <2>1, <2>2, <5>1, FirstIs
      <4> HIDE DEF t
      <4> QED BY <2>2, <4>1, <4>2
    <3> QED BY <2>2, <3>1, <3>2
  <2> HIDE DEF u, First
  <2> QED BY <2>1, <2>5 DEF t, v
<1>3. Seq(A) \subseteq T
  <2> HIDE DEF T
  <2> QED BY <1>1, <1>2, SeqAll
<1> QED BY <1>3

Less(m, r) ==
  /\ Almost(r.contacts, m.contacts)
  /\ Almost(r.ignores, Once(m.ignores))
  /\ r.flag \subseteq m.flag
  /\ \A k \in Items : LET t == Written(m).item[k]
                     IN  \/ r.item[k] \in {NULL, t}
                         \/ t # NULL /\ r.item[k] \in Shorter[t]

\* What whole lines leave.
Whole(m, r) ==
  /\ \E k \in Int : r.contacts = First(m.contacts, k)
  /\ \E k \in Int : r.ignores = First(Once(m.ignores), k)
  /\ r.flag \subseteq m.flag
  /\ \A k \in Items : r.item[k] \in {NULL, Written(m).item[k]}

LEMMA WholeIs ==
  ASSUME NEW m \in Wide(Names), NEW keys \in Seq(Stated(m)), NEW flags \in Seq(m.flag),
         NEW n \in Int, NEW r, Reached(m, keys, flags, n, r)
  PROVE  Whole(m, r)
<1> DEFINE a == Len(keys)
           b == Len(flags)
           c == Len(m.contacts)
<1>1. m.contacts \in Seq(Names) /\ m.ignores \in Seq(Ignored(Names))
  BY DEF Wide
<1>2. a \in Nat /\ b \in Nat /\ c \in Nat
  BY <1>1, LenProperties
<1>3. /\ r.item = ItemsRead(m, keys, n) /\ r.flag = FlagsRead(keys, flags, n)
      /\ r.contacts = First(m.contacts, n - (a + 1 + b))
      /\ r.ignores = Once(First(m.ignores, n - (a + 1 + b + c)))
  BY DEF Reached
<1>4. n - (a + 1 + b) \in Int /\ n - (a + 1 + b + c) \in Int
  <2> HIDE DEF a, b, c
  <2> QED BY <1>2
<1>5. r.flag \subseteq m.flag
  <2>1. \A i \in 1 .. b : flags[i] \in m.flag
    BY ElementOfSeq
  <2> QED BY <1>3, <2>1 DEF FlagsRead
<1>6. ASSUME NEW k \in Items PROVE r.item[k] \in {NULL, Written(m).item[k]}
  <2>1. \A i \in 1 .. a : keys[i] \in Stated(m)
    BY ElementOfSeq
  <2>2. r.item[k] = NULL \/ (k \in Stated(m) /\ r.item[k] = Text(m.item[k]))
    BY <1>3, <2>1 DEF ItemsRead
  <2>3. k \in Stated(m) => Written(m).item[k] = Text(m.item[k])
    BY WrittenIs
  <2> QED BY <2>2, <2>3
<1>7. \E k \in Int : r.ignores = First(Once(m.ignores), k)
  <2> DEFINE g == n - (a + 1 + b + c)
  <2>1. g \in Int /\ r.ignores = Once(First(m.ignores, g))
    BY <1>3, <1>4
  <2> DEFINE x == m.ignores
  <2>2. x \in Seq(Ignored(Names))
    BY <1>1
  <2> HIDE DEF g, x, First
  <2>3. \A k \in Int : \E j \in Int : Once(First(x, k)) = First(Once(x), j)
    BY <2>2, OnceFirst
  <2>4. PICK j \in Int : Once(First(x, g)) = First(Once(x), j)
    BY <2>1, <2>3
  <2> QED BY <2>1, <2>4 DEF x
<1> QED
  BY <1>3, <1>4, <1>5, <1>6, <1>7 DEF Whole

LEMMA WholeLess ==
  ASSUME NEW m \in Wide(Names), NEW r, Whole(m, r)
  PROVE  Less(m, r)
<1>1. m.contacts \in Seq(Names) /\ m.ignores \in Seq(Ignored(Names))
  BY DEF Wide
<1>2. Almost(r.contacts, m.contacts)
  BY <1>1, AlmostIs DEF Whole
<1>3. Almost(r.ignores, Once(m.ignores))
  BY <1>1, OnceType, AlmostIs DEF Whole
<1> QED
  BY <1>2, <1>3 DEF Whole, Less

\* The items are the first lines.
LEMMA ItemAt ==
  ASSUME NEW m \in Wide(Names), NEW keys \in Seq(Stated(m)), keys \in Seq(Items),
         NEW flags \in Seq(Flags), NEW w, Saves(m, Names, keys, flags, w),
         NEW n \in 1 .. Len(w), w[n][1] \in Items
  PROVE  w[n][1] \in Stated(m) /\ w[n][2] = Text(m.item[w[n][1]])
<1> DEFINE a == Len(keys)
           b == Len(flags)
           c == Len(m.contacts)
           d == Len(m.ignores)
<1>1. m.contacts \in Seq(Names) /\ m.ignores \in Seq(Ignored(Names))
  BY DEF Wide
<1>2. a \in Nat /\ b \in Nat /\ c \in Nat /\ d \in Nat /\ Len(w) = a + 1 + b + c + d
  BY <1>1, LenProperties DEF Saves
<1>3. Place(n, a, b, c, d)
  <2> HIDE DEF a, b, c, d
  <2> QED BY <1>2, Places
<1>4. /\ \A i \in 1 .. a : w[i] = ItemLine(m)[keys[i]]
      /\ w[a + 1] = PortLine(m)
      /\ \A i \in 1 .. b : w[a + 1 + i] = FlagLine[flags[i]]
      /\ \A i \in 1 .. c : w[a + 1 + b + i] = ContactLine[m.contacts[i]]
      /\ \A i \in 1 .. d : w[a + 1 + b + c + i] = IgnoreLine(Names)[m.ignores[i]]
  BY DEF Saves
<1>5. /\ \A i \in 1 .. a : keys[i] \in Items /\ keys[i] \in Stated(m)
      /\ \A i \in 1 .. b : flags[i] \in Flags
      /\ \A i \in 1 .. c : m.contacts[i] \in Names
      /\ \A i \in 1 .. d : m.ignores[i] \in Ignored(Names)
  BY <1>1, ElementOfSeq
<1>6. /\ \A k \in Items : ItemLine(m)[k][1] = k /\ ItemLine(m)[k][2] = Text(m.item[k])
      /\ PortLine(m)[1] = "port"
      /\ \A f \in Flags : FlagLine[f][1] = f
      /\ \A x \in Names : ContactLine[x][1] = "contact"
      /\ \A e \in Ignored(Names) : IgnoreLine(Names)[e][1] = "ignore"
  BY DEF ItemLine, PortLine, FlagLine, ContactLine, IgnoreLine
<1>7. "port" \notin Items /\ "contact" \notin Items /\ "ignore" \notin Items
      /\ \A f \in Flags : f \notin Items
  BY OneKind
<1> HIDE DEF a, b, c, d
<1>8. n \in 1 .. a
  <2>1. n # a + 1
    BY <1>4, <1>6, <1>7
  <2>2. ASSUME NEW i \in 1 .. b, n = a + 1 + i PROVE FALSE
    <3>1. w[n] = FlagLine[flags[i]] /\ flags[i] \in Flags
      BY <1>4, <1>5, <2>2
    <3>2. w[n][1] = flags[i]
      BY <1>6, <3>1
    <3> QED BY <1>7, <3>1, <3>2
  <2>3. ASSUME NEW i \in 1 .. c, n = a + 1 + b + i PROVE FALSE
    BY <1>4, <1>5, <1>6, <1>7, <2>3
  <2>4. ASSUME NEW i \in 1 .. d, n = a + 1 + b + c + i PROVE FALSE
    BY <1>4, <1>5, <1>6, <1>7, <2>4
  <2> QED BY <1>3, <2>1, <2>2, <2>3, <2>4 DEF Place
<1> QED
  BY <1>4, <1>5, <1>6, <1>8

LEMMA PartLess ==
  ASSUME NEW m \in Wide(Names), NEW q \in Wide(Names), Whole(m, q), NEW l \in Line,
         l[1] \in Items => l[1] \in Stated(m) /\ l[2] = Text(m.item[l[1]]),
         NEW b, Part(l, b)
  PROVE  Less(m, Read(q, b))
<1> DEFINE r == Read(q, b)
<1>1. m.contacts \in Seq(Names) /\ m.ignores \in Seq(Ignored(Names))
  BY DEF Wide
<1>2. b \in Lines(Names)
  BY PartType, AllLines
<1>3. Changed(q, b, r)
  BY <1>2, ReadParts
<1> HIDE DEF r
<1>4. /\ \A k \in Items : k = b[1] => r.item[k] = b[2]
      /\ \A k \in Items : k # b[1] => r.item[k] = q.item[k]
      /\ r.flag = IF b[1] \in Flags THEN q.flag \cup {b[1]} ELSE q.flag
      /\ r.contacts = IF b[1] = "contact" THEN add_contact(q.contacts, b[2]) ELSE q.contacts
      /\ r.ignores = IF b[1] = "ignore" THEN add_ignore(q.ignores, b[2], b[3]) ELSE q.ignores
  BY <1>3 DEF Changed
<1>5. Almost(r.contacts, m.contacts)
  <2>1. PICK k \in Int : q.contacts = First(m.contacts, k)
    BY DEF Whole
  <2>2. \A s, n : add_contact(s, n) = s \/ add_contact(s, n) = Append(s, n)
    BY DEF add_contact
  <2>3. r.contacts = q.contacts \/ \E x : r.contacts = Append(q.contacts, x)
    <3>1. r.contacts = q.contacts \/ r.contacts = add_contact(q.contacts, b[2])
      BY <1>4
    <3> QED BY <2>2, <3>1, Zenon
  <2>4. Almost(q.contacts, m.contacts) /\ \A x : Almost(Append(q.contacts, x), m.contacts)
    BY <1>1, <2>1, AlmostIs
  <2> QED BY <2>3, <2>4
<1>6. Almost(r.ignores, Once(m.ignores))
  <2>1. PICK k \in Int : q.ignores = First(Once(m.ignores), k)
    BY DEF Whole
  <2> DEFINE y == Entered(b[2], b[3])
  <2>2. \/ add_ignore(q.ignores, b[2], b[3]) = q.ignores
        \/ add_ignore(q.ignores, b[2], b[3]) = Append(q.ignores, y)
    BY DEF add_ignore
  <2> HIDE DEF y
  <2>3. r.ignores = q.ignores \/ \E x : r.ignores = Append(q.ignores, x)
    <3>1. r.ignores = q.ignores \/ r.ignores = add_ignore(q.ignores, b[2], b[3])
      BY <1>4
    <3> QED BY <2>2, <3>1, Zenon
  <2>4. /\ Almost(q.ignores, Once(m.ignores))
        /\ \A x : Almost(Append(q.ignores, x), Once(m.ignores))
    BY <1>1, <2>1, OnceType, AlmostIs
  <2> QED BY <2>3, <2>4
<1>7. b[1] \notin Flags /\ (b[1] \in Items => b[1] = l[1] /\ b[2] \in Shorter[l[2]])
  <2>1. CASE b = <<"", NULL, NULL>>
    <3>1. b[1] = ""
      BY <2>1
    <3>2. "" \notin Items \cup Flags
      BY KindsApart
    <3> QED BY <3>1, <3>2
  <2>2. CASE l[1] = "port" /\ \E v \in Int : b = <<"port", v, NULL>>
    <3>1. b[1] = "port"
      BY <2>2
    <3> QED BY <3>1, OneKind
  <2>3. CASE /\ l[1] \in Items \cup {"contact", "ignore"}
             /\ \E t \in Shorter[l[2]] : b = <<l[1], t, NULL>>
    <3>1. b[1] = l[1] /\ b[2] \in Shorter[l[2]]
      BY <2>3
    <3> QED BY <2>3, <3>1, OneKind
  <2>4. CASE /\ l[1] = "ignore" /\ l[3] # NULL
             /\ \E t \in Shorter[l[3]] \cup {NULL} : b = <<l[1], l[2], t>>
    <3>1. b[1] = "ignore"
      BY <2>4
    <3> QED BY <3>1, OneKind
  <2> QED BY <2>1, <2>2, <2>3, <2>4 DEF Part
<1>8. r.flag \subseteq m.flag
  BY <1>4, <1>7 DEF Whole
<1>9. ASSUME NEW k \in Items
      PROVE  \/ r.item[k] \in {NULL, Written(m).item[k]}
             \/ Written(m).item[k] # NULL /\ r.item[k] \in Shorter[Written(m).item[k]]
  <2>1. CASE k # b[1]
    BY <1>4, <2>1 DEF Whole
  <2>2. CASE k = b[1]
    <3>1. r.item[k] = b[2] /\ k = l[1] /\ b[2] \in Shorter[l[2]]
      BY <1>4, <1>7, <2>2
    <3>2. k \in Stated(m) /\ l[2] = Text(m.item[k])
      BY <3>1
    <3>3. Written(m).item[k] = l[2]
      BY <3>2, WrittenIs
    <3>4. l[2] # NULL
      <4> DEFINE v == l[1]
      <4>1. /\ v \notin Flags /\ v # "port" /\ v # "contact" /\ v # "ignore"
            /\ v # "" /\ v # "EOC"
        BY <3>1, OneKind, KindsApart
      <4> HIDE DEF v
      <4>2. l[2] \in Texts
        <5>1. (v \in Items /\ l[2] \in Texts) \/ v = "port" \/ v \in Flags \/ v = "contact"
              \/ v = "ignore" \/ v \in {"", "EOC"}
          BY LineKinds DEF v
        <5> QED BY <4>1, <5>1
      <4> QED BY <4>2, NullAssumption
    <3> QED BY <3>1, <3>3, <3>4
  <2> QED BY <2>1, <2>2
<1> QED
  BY <1>5, <1>6, <1>8, <1>9 DEF Less, r

\* A line more, and nsc dies of it or not.
LEMMA EnduredIs ==
  ASSUME NEW s \in Seq(AnyLine), Readable(s)
  PROVE  /\ Endured(s) = s
         /\ \A b \in AnyLine : IF Deadly(Sees(b)) THEN Endured(Append(s, b)) = s
                           ELSE /\ Endured(Append(s, b)) = Append(s, b)
                                /\ Readable(Append(s, b))
<1> DEFINE L == Len(s)
<1>1. L \in Nat /\ DOMAIN s = 1 .. L /\ (s # <<>> => L > 0)
  BY LenProperties, EmptySeq
<1>2. \A i \in 1 .. L : ~Deadly(Sees(s[i]))
  BY <1>1 DEF Readable
<1>3. Endured(s) = s
  <2>1. s # <<>> => ~Deadly(Sees(Last(s)))
    BY <1>1, <1>2 DEF Last
  <2> QED BY <2>1 DEF Endured
<1>4. ASSUME NEW b \in AnyLine
      PROVE  IF Deadly(Sees(b)) THEN Endured(Append(s, b)) = s
             ELSE Endured(Append(s, b)) = Append(s, b) /\ Readable(Append(s, b))
  <2> DEFINE t == Append(s, b)
  <2>1. /\ t \in Seq(AnyLine) /\ Len(t) = L + 1 /\ t[L + 1] = b
        /\ \A i \in 1 .. L : t[i] = s[i]
    BY AppendProperties
  <2>2. Front(t) = s
    BY FrontIs
  <2> HIDE DEF t, L
  <2>3. DOMAIN t = 1 .. L + 1 /\ t # <<>>
    <3>1. L + 1 # 0
      BY <1>1
    <3> QED BY <2>1, <3>1, LenProperties, EmptySeq
  <2>4. Last(t) = b
    BY <2>1 DEF Last
  <2>5. ASSUME ~Deadly(Sees(b)) PROVE Readable(t)
    <3> SUFFICES ASSUME NEW i \in 1 .. L + 1 PROVE ~Deadly(Sees(t[i]))
      BY <2>3 DEF Readable
    <3>1. i \in 1 .. L \/ i = L + 1
      BY <1>1
    <3> QED BY <1>2, <2>1, <2>5, <3>1
  <2> QED BY <2>2, <2>3, <2>4, <2>5 DEF Endured, t
<1> QED
  BY <1>3, <1>4

LEMMA CutLess ==
  ASSUME NEW m \in Wide(Proper), Listed(m), NEW f \in Cuttings(nsc_save_configuration(m))
  PROVE  /\ Readable(Endured(f))
         /\ Less(m, nsc_load_configuration(Endured(f)))
<1> DEFINE w == nsc_save_configuration(m)
           z == nsc_free_configuration
<1>1. Proper \in SUBSET Names /\ m \in Wide(Names)
  BY WideIs DEF Proper
<1>2. PICK keys \in Seq(Stated(m)), flags \in Seq(m.flag) :
        /\ keys \in Seq(Items) /\ flags \in Seq(Flags)
        /\ Saves(m, Names, keys, flags, w)
  BY <1>1, SaveIs
<1>3. /\ w \in Seq(Lines(Proper)) /\ w \in Seq(Line) /\ w \in Seq(Lines(Names))
      /\ \A n \in 1 .. Len(w) : w[n][1] \notin {"", "EOC"}
  <2>1. w \in Seq(Lines(Proper)) /\ \A n \in 1 .. Len(w) : w[n][1] \notin {"", "EOC"}
    BY <1>1, SavedKinds
  <2> HIDE DEF w
  <2> QED BY <2>1, WideLines, AllLines
<1> HIDE DEF w, z
<1>4. Len(w) \in Nat /\ DOMAIN w = 1 .. Len(w) /\ \A n \in 1 .. Len(w) : w[n] \in Line
  BY <1>3, LenProperties, ElementOfSeq
<1>5. \/ \E n \in 0 .. Len(w) : f = SubSeq(w, 1, n)
      \/ \E n \in 1 .. Len(w) : \E b \in Begun(w[n]) : f = Append(SubSeq(w, 1, n - 1), b)
  BY <1>4 DEF Cuttings, w
\* Whole lines.
<1>6. ASSUME NEW n \in 0 .. Len(w)
      PROVE  LET p == SubSeq(w, 1, n)
             IN  /\ p \in Seq(Line) /\ p \in Seq(AnyLine) /\ Sights(p) = p
                 /\ Readable(p) /\ nsc_load_configuration(p) = Loads(z, p)
                 /\ Loads(z, p) \in Wide(Names) /\ Whole(m, Loads(z, p))
  <2> DEFINE p == SubSeq(w, 1, n)
             r == Loads(z, p)
  <2>1. r \in Wide(Names) /\ Reached(m, keys, flags, n, r)
    BY <1>1, <1>2, AllReached DEF z
  <2>2. n \in Int
    OBVIOUS
  <2>3. p \in Seq(Line) /\ p \in Seq(Lines(Proper))
    BY <1>3, SubSeqType
  <2> HIDE DEF r, p
  <2>4. Whole(m, r)
    BY <1>1, <2>1, <2>2, WholeIs
  <2>5. p \in Seq(AnyLine) /\ Sights(p) = p
    BY <2>3, SightsAre
  <2>6. Readable(p)
    BY <2>3, <2>5, ReadableIs
  <2>7. nsc_load_configuration(p) = r
    BY <2>3, LoadIs DEF r, z
  <2> QED BY <2>1, <2>3, <2>4, <2>5, <2>6, <2>7 DEF r, p
<1>7. ASSUME NEW n \in 0 .. Len(w)
      PROVE  LET p == SubSeq(w, 1, n)
             IN  Readable(p) /\ Less(m, nsc_load_configuration(p)) /\ Endured(p) = p
  <2> DEFINE p == SubSeq(w, 1, n)
             r == Loads(z, p)
  <2>1. p \in Seq(AnyLine) /\ Readable(p) /\ nsc_load_configuration(p) = r /\ Whole(m, r)
    BY <1>6
  <2> HIDE DEF r, p
  <2>2. Less(m, r)
    BY <1>1, <2>1, WholeLess
  <2>3. Endured(p) = p
    BY <2>1, EnduredIs
  <2> QED BY <2>1, <2>2, <2>3 DEF p
\* The beginning of a line behind them.
<1>8. ASSUME NEW n \in 1 .. Len(w), NEW b \in Begun(w[n]),
             f = Append(SubSeq(w, 1, n - 1), b)
      PROVE  /\ Readable(Endured(f))
             /\ Less(m, nsc_load_configuration(Endured(f)))
  <2> DEFINE p == SubSeq(w, 1, n - 1)
             q == Loads(z, p)
             l == w[n]
             c == Sees(b)
  <2>1. n - 1 \in 0 .. Len(w)
    BY <1>4
  <2>2. l \in Line /\ l[1] \notin {"", "EOC"}
    BY <1>3, <1>4
  <2>3. b \in AnyLine /\ Part(l, c)
    <3>1. b \in Bare \/ Part(l, b)
      BY <2>2, BegunIs
    <3>2. CASE b \in Bare
      <4>1. c = <<"", NULL, NULL>>
        BY <3>2, SightIs
      <4> HIDE DEF c
      <4>2. Part(l, c)
        BY <4>1 DEF Part
      <4> QED BY <3>2, <4>2 DEF AnyLine
    <3>3. CASE Part(l, b)
      <4>1. b \in Line
        BY <2>2, <3>3, PartType
      <4>2. c = b
        BY <4>1, SightIs
      <4> HIDE DEF c
      <4> QED BY <3>3, <4>1, <4>2 DEF AnyLine
    <3> QED BY <3>1, <3>2, <3>3
  <2>4. /\ p \in Seq(Line) /\ p \in Seq(AnyLine) /\ Sights(p) = p /\ Readable(p)
        /\ q \in Wide(Names) /\ Whole(m, q)
    BY <1>6, <2>1
  <2>5. Less(m, nsc_load_configuration(p))
    BY <1>7, <2>1
  <2>6. l[1] \in Items => l[1] \in Stated(m) /\ l[2] = Text(m.item[l[1]])
    BY <1>1, <1>2, ItemAt
  <2> HIDE DEF p, l, c
  <2>7. c \in Line
    BY <2>2, <2>3, PartType
  <2>8. Less(m, Read(q, c))
    <3> HIDE DEF q
    <3> QED BY <1>1, <2>2, <2>3, <2>4, <2>6, PartLess
  <2>9. nsc_load_configuration(Append(p, b)) = Read(q, c)
    <3>1. Sights(Append(p, b)) = Append(p, c)
      BY <2>3, <2>4, SightsMore DEF c
    <3>2. z \in Wide(Names) /\ p \in Seq(Lines(Names)) /\ c \in Lines(Names)
      BY <2>4, <2>7, FreeType, AllLines DEF z
    <3>3. Loads(z, Append(p, c)) = Read(Loads(z, p), c)
      BY <3>2, LoadMore
    <3>4. nsc_load_configuration(Append(p, b)) = Loads(z, Sights(Append(p, b)))
      BY LoadIs DEF z
    <3> QED BY <3>1, <3>3, <3>4
  <2>10. f = Append(p, b)
    BY <1>8 DEF p
  <2>11. IF Deadly(c) THEN Endured(f) = p ELSE Endured(f) = f /\ Readable(f)
    BY <2>3, <2>4, <2>10, EnduredIs DEF c
  <2> HIDE DEF q
  <2> QED BY <2>4, <2>5, <2>8, <2>9, <2>10, <2>11
<1> QED
  BY <1>5, <1>7, <1>8

(* A save that is cut short, at any character and with any lists and items,  *)
(* leaves less: nothing but the last entry of a list, or one item, is other   *)
(* than what is in memory (nsc_conf.c: the file is written in place); and     *)
(* only its last line can be one that nsc dies of.                           *)
THEOREM CutShort == Spec => []CutIsLess
<1>1. IInv => CutIsLess
  <2> SUFFICES ASSUME IInv, NEW f \in Cuttings(nsc_save_configuration(mem))
               PROVE  /\ Readable(Endured(f))
                      /\ Less(mem, nsc_load_configuration(Endured(f)))
    BY DEF CutIsLess, Less
  <2>1. mem \in Wide(Proper) /\ Listed(mem)
    BY MemoryIs DEF IInv, TypeOK
  <2> QED BY <2>1, CutLess
<1> QED
  BY <1>1, Kept, PTL

-----------------------------------------------------------------------------
(* What libnscutil writes again: of each key the same values in the same     *)
(* order, which is all that matters to what is read.                        *)

\* The lines of one key, and what they decide of the memory.
Of(k) == {l \in Line : Key(l) = k}
Keys == Items \cup {"port", "set", "contact", "ignore"}

Agrees(k, m, r) ==
  /\ k \in Items => m.item[k] = r.item[k]
  /\ k = "port" => m.port = r.port
  /\ k = "set" => m.flag = r.flag
  /\ k = "contact" => m.contacts = r.contacts
  /\ k = "ignore" => m.ignores = r.ignores

LEMMA KeyIs ==
  ASSUME NEW l \in Line
  PROVE  /\ \A k \in Items : Key(l) = k <=> l[1] = k
         /\ Key(l) = "port" <=> l[1] = "port"
         /\ Key(l) = "set" <=> l[1] \in Flags
         /\ Key(l) = "contact" <=> l[1] = "contact"
         /\ Key(l) = "ignore" <=> l[1] = "ignore"
<1> DEFINE v == l[1]
<1>1. \/ v \in Items \/ v = "port" \/ v \in Flags \/ v = "contact"
      \/ v = "ignore" \/ v = "" \/ v = "EOC"
  BY LineKinds
<1>2. Key(l) = IF v \in Flags THEN "set" ELSE v
  BY DEF Key
<1>3. /\ \A k \in Items : k \notin Flags /\ k # "set"
      /\ "port" \notin Flags /\ "contact" \notin Flags /\ "ignore" \notin Flags
      /\ "set" \notin Items
  BY KindsApart
<1>4. /\ "port" # "set" /\ "contact" # "set" /\ "ignore" # "set"
      /\ "" # "set" /\ "EOC" # "set"
  OBVIOUS
<1> HIDE DEF v
<1>5. \A k \in Items : Key(l) = k <=> v = k
  BY <1>2, <1>3
<1>6. Key(l) = "port" <=> v = "port"
  BY <1>2, <1>3, <1>4
<1>7. Key(l) = "set" <=> v \in Flags
  BY <1>1, <1>2, <1>3, <1>4
<1>8. Key(l) = "contact" <=> v = "contact"
  BY <1>2, <1>3, <1>4
<1>9. Key(l) = "ignore" <=> v = "ignore"
  BY <1>2, <1>3, <1>4
<1> QED
  BY <1>5, <1>6, <1>7, <1>8, <1>9 DEF v

LEMMA StepAgrees ==
  ASSUME NEW k, NEW l \in Line, NEW u, NEW v, Agrees(k, u, v),
         NEW x, Changed(u, l, x), NEW y,
         Key(l) = k => Changed(v, l, y), Key(l) # k => y = v
  PROVE  Agrees(k, x, y)
<1>1. ASSUME k \in Items PROVE x.item[k] = y.item[k]
  <2>1. u.item[k] = v.item[k] /\ (Key(l) = k <=> l[1] = k)
    BY <1>1, KeyIs DEF Agrees
  <2>2. x.item[k] = IF k = l[1] THEN l[2] ELSE u.item[k]
    BY <1>1 DEF Changed
  <2>3. CASE Key(l) = k
    <3>1. y.item[k] = IF k = l[1] THEN l[2] ELSE v.item[k]
      BY <1>1, <2>3 DEF Changed
    <3> QED BY <2>1, <2>2, <2>3, <3>1
  <2>4. CASE Key(l) # k
    BY <2>1, <2>2, <2>4
  <2> QED BY <2>3, <2>4
<1>2. ASSUME k = "port" PROVE x.port = y.port
  <2>1. u.port = v.port /\ (Key(l) = k <=> l[1] = "port")
    BY <1>2, KeyIs DEF Agrees
  <2>2. x.port = IF l[1] = "port" THEN l[2] % 65536 ELSE u.port
    BY DEF Changed
  <2>3. CASE Key(l) = k
    <3>1. y.port = IF l[1] = "port" THEN l[2] % 65536 ELSE v.port
      BY <2>3 DEF Changed
    <3> QED BY <2>1, <2>2, <2>3, <3>1
  <2>4. CASE Key(l) # k
    BY <2>1, <2>2, <2>4
  <2> QED BY <2>3, <2>4
<1>3. ASSUME k = "set" PROVE x.flag = y.flag
  <2>1. u.flag = v.flag /\ (Key(l) = k <=> l[1] \in Flags)
    BY <1>3, KeyIs DEF Agrees
  <2>2. x.flag = IF l[1] \in Flags THEN u.flag \cup {l[1]} ELSE u.flag
    BY DEF Changed
  <2>3. CASE Key(l) = k
    <3>1. y.flag = IF l[1] \in Flags THEN v.flag \cup {l[1]} ELSE v.flag
      BY <2>3 DEF Changed
    <3> QED BY <2>1, <2>2, <2>3, <3>1
  <2>4. CASE Key(l) # k
    BY <2>1, <2>2, <2>4
  <2> QED BY <2>3, <2>4
<1>4. ASSUME k = "contact" PROVE x.contacts = y.contacts
  <2>1. u.contacts = v.contacts /\ (Key(l) = k <=> l[1] = "contact")
    BY <1>4, KeyIs DEF Agrees
  <2>2. x.contacts = IF l[1] = "contact" THEN add_contact(u.contacts, l[2]) ELSE u.contacts
    BY DEF Changed
  <2>3. CASE Key(l) = k
    <3>1. y.contacts = IF l[1] = "contact" THEN add_contact(v.contacts, l[2]) ELSE v.contacts
      BY <2>3 DEF Changed
    <3> QED BY <2>1, <2>2, <2>3, <3>1
  <2>4. CASE Key(l) # k
    BY <2>1, <2>2, <2>4
  <2> QED BY <2>3, <2>4
<1>5. ASSUME k = "ignore" PROVE x.ignores = y.ignores
  <2>1. u.ignores = v.ignores /\ (Key(l) = k <=> l[1] = "ignore")
    BY <1>5, KeyIs DEF Agrees
  <2>2. x.ignores = IF l[1] = "ignore" THEN add_ignore(u.ignores, l[2], l[3]) ELSE u.ignores
    BY DEF Changed
  <2>3. CASE Key(l) = k
    <3>1. y.ignores = IF l[1] = "ignore" THEN add_ignore(v.ignores, l[2], l[3]) ELSE v.ignores
      BY <2>3 DEF Changed
    <3> QED BY <2>1, <2>2, <2>3, <3>1
  <2>4. CASE Key(l) # k
    BY <2>1, <2>2, <2>4
  <2> QED BY <2>3, <2>4
<1> QED
  BY <1>1, <1>2, <1>3, <1>4, <1>5 DEF Agrees

LEMMA ReadOf ==
  ASSUME NEW k, NEW m \in Wide(Names), NEW s \in Seq(Line)
  PROVE  Agrees(k, Loads(m, s), Loads(m, Only(s, Of(k))))
<1> DEFINE U == {r \in Seq(Line) : Agrees(k, Loads(m, r), Loads(m, Only(r, Of(k))))}
<1>1. <<>> \in U
  <2>1. Only(<<>>, Of(k)) = <<>>
    BY OnlyNone
  <2> QED BY <2>1, EmptySeq DEF Agrees
<1>2. ASSUME NEW r \in Seq(Line), r \in U, NEW l \in Line PROVE Append(r, l) \in U
  <2> DEFINE p == Only(r, Of(k))
             u == Loads(m, r)
             v == Loads(m, p)
             x == Loads(m, Append(r, l))
             y == Loads(m, Only(Append(r, l), Of(k)))
  <2>1. /\ p \in Seq(Line)
        /\ Only(Append(r, l), Of(k)) = IF l \in Of(k) THEN Append(p, l) ELSE p
    BY OnlyMore
  <2>2. l \in Of(k) <=> Key(l) = k
    BY DEF Of
  <2> HIDE DEF p
  <2>3. Names \in SUBSET Names /\ Line = Lines(Names)
    BY AllLines
  <2>4. u \in Wide(Names) /\ x = Read(u, l)
    BY <2>3, LoadMore
  <2>5. v \in Wide(Names) /\ Loads(m, Append(p, l)) = Read(v, l)
    BY <2>1, <2>3, LoadMore
  <2>6. Agrees(k, u, v)
    BY <1>2 DEF p
  <2>7. y = IF Key(l) = k THEN Read(v, l) ELSE v
    BY <2>1, <2>2, <2>5
  <2> HIDE DEF u, v
  <2>8. Changed(u, l, Read(u, l)) /\ Changed(v, l, Read(v, l))
    BY <2>3, <2>4, <2>5, ReadParts
  <2> HIDE DEF x, y
  <2>9. Agrees(k, x, y)
    BY <2>4, <2>6, <2>7, <2>8, StepAgrees
  <2> QED BY <2>9, AppendProperties DEF x, y
<1>3. Seq(Line) \subseteq U
  <2> HIDE DEF U
  <2> QED BY <1>1, <1>2, SeqAll
<1> QED BY <1>3

LEMMA ReadSame ==
  ASSUME NEW m \in Wide(Names), NEW s \in Seq(Line), NEW t \in Seq(Line),
         \A k \in Keys : Only(s, Of(k)) = Only(t, Of(k))
  PROVE  Loads(m, s) = Loads(m, t)
<1> DEFINE u == Loads(m, s)
           v == Loads(m, t)
<1>1. u \in Wide(Names) /\ v \in Wide(Names)
  BY AllLines, LoadType
<1>2. \A k \in Keys : /\ Agrees(k, u, Loads(m, Only(s, Of(k))))
                      /\ Agrees(k, v, Loads(m, Only(s, Of(k))))
  BY ReadOf
<1>3. \A k \in Keys : Agrees(k, u, v)
  <2> HIDE DEF u, v
  <2> QED BY <1>2 DEF Agrees
<1> HIDE DEF u, v
<1>4. u.item = v.item
  <2>1. \A k \in Items : u.item[k] = v.item[k]
    BY <1>3 DEF Agrees, Keys
  <2>2. u.item \in [Items -> Texts \cup {NULL}] /\ v.item \in [Items -> Texts \cup {NULL}]
    BY <1>1 DEF Wide
  <2> QED BY <2>1, <2>2
<1>5. "port" \in Keys /\ "set" \in Keys /\ "contact" \in Keys /\ "ignore" \in Keys
  BY DEF Keys
<1>6. /\ Agrees("port", u, v) /\ Agrees("set", u, v)
      /\ Agrees("contact", u, v) /\ Agrees("ignore", u, v)
  BY <1>3, <1>5
<1>7. u.port = v.port /\ u.flag = v.flag /\ u.contacts = v.contacts /\ u.ignores = v.ignores
  BY <1>6 DEF Agrees
<1>8. u = v
  BY <1>1, <1>4, <1>7, SameMemory
<1> QED BY <1>8 DEF u, v

LEMMA EndLine == EOC \in Line /\ \A k \in Keys : EOC \notin Of(k)
<1>1. EOC[1] = "EOC" /\ EOC \in Line
  BY DEF EOC, Line
<1>2. "EOC" \notin Flags /\ "EOC" \notin Items
  BY KindsApart
<1>3. Key(EOC) = "EOC"
  BY <1>1, <1>2 DEF Key
<1>4. /\ "EOC" # "port" /\ "EOC" # "set" /\ "EOC" # "contact" /\ "EOC" # "ignore"
  OBVIOUS
<1>5. "EOC" \notin Keys
  BY <1>2, <1>4 DEF Keys
<1> QED
  BY <1>1, <1>3, <1>5 DEF Of

LEMMA ValuesIs ==
  ASSUME NEW s \in Seq(Line), NEW k
  PROVE  Values(s, k) = Only(s, Of(k))
<1> DEFINE S == {l \in ToSet(s) : Key(l) = k}
<1>1. \A i \in 1 .. Len(s) : s[i] \in Line /\ s[i] \in ToSet(s)
  BY ElementOfSeq, LenProperties DEF ToSet
<1>2. \A i \in 1 .. Len(s) : s[i] \in S <=> s[i] \in Of(k)
  BY <1>1 DEF Of
<1> HIDE DEF S
<1>3. Only(s, S) = Only(s, Of(k))
  BY <1>2, OnlySame
<1> QED BY <1>3 DEF Values, S

LEMMA OfApart ==
  ASSUME NEW k, NEW j, k # j
  PROVE  Of(k) \cap Of(j) = {}
BY DEF Of

\* Of the values of all keys, those of one.
LEMMA GatheredOf ==
  ASSUME NEW u \in Seq(Line), NEW L, L = Len(Order), NEW data \in Seq(Seq(Line)),
         Len(data) = L, \A i \in 1 .. L : data[i] = Only(u, Of(Order[i])),
         NEW j \in 1 .. L
  PROVE  Only(FlattenSeq(data), Of(Order[j])) = Only(u, Of(Order[j]))
<1> DEFINE K == Of(Order[j])
           d == Only(u, K)
<1>1. L \in Nat /\ L \in 0 .. L /\ DOMAIN Order = 1 .. L
  BY OrderAssumption, LenProperties
<1>2. PICK f \in [0 .. L -> Seq(Line)] : Flattens(data, f, L)
  BY FlattenIs
<1>3. /\ f[0] = <<>> /\ FlattenSeq(data) = f[L]
      /\ \A i \in 1 .. L : f[i] = f[i - 1] \o data[i]
  BY <1>2 DEF Flattens
<1>4. d \in Seq(Line) /\ <<>> \in Seq(Line)
  BY OnlyType, EmptySeq
<1>5. \A i \in 1 .. L : data[i] \in Seq(Line) /\ Only(data[i], K) = IF i = j THEN d ELSE <<>>
  <2> SUFFICES ASSUME NEW i \in 1 .. L
               PROVE  data[i] \in Seq(Line) /\ Only(data[i], K) = IF i = j THEN d ELSE <<>>
    OBVIOUS
  <2>1. data[i] = Only(u, Of(Order[i])) /\ data[i] \in Seq(Line)
    BY OnlyType
  <2>2. CASE i = j
    BY <2>1, <2>2, OnlyOnly
  <2>3. CASE i # j
    <3>1. Order[i] # Order[j]
      BY <1>1, <2>3, OrderAssumption DEF IsInjective
    <3>2. Of(Order[i]) \cap K = {}
      BY <3>1, OfApart
    <3> HIDE DEF K
    <3> QED BY <2>1, <2>3, <3>2, OnlyOnly
  <2> QED BY <2>2, <2>3
<1> HIDE DEF K, d
<1> DEFINE S == {n \in 0 .. L : Only(f[n], K) = IF n < j THEN <<>> ELSE d}
<1>6. 0 \in S
  <2>1. 0 < j /\ 0 \in 0 .. L
    BY <1>1
  <2> QED BY <1>3, <2>1, OnlyNone
<1>7. ASSUME NEW n \in 1 .. L, n - 1 \in S PROVE n \in S
  <2>1. n - 1 \in 0 .. L /\ n \in 0 .. L /\ n \in Int
    BY <1>1, <1>7
  <2>2. Only(f[n - 1], K) = IF n - 1 < j THEN <<>> ELSE d
    BY <1>7
  <2>3. f[n - 1] \in Seq(Line) /\ data[n] \in Seq(Line) /\ f[n] = f[n - 1] \o data[n]
    BY <1>3, <1>5, <2>1
  <2>4. Only(f[n], K) = Only(f[n - 1], K) \o Only(data[n], K)
    <3> DEFINE p == f[n - 1]
               q == data[n]
    <3>1. p \in Seq(Line) /\ q \in Seq(Line) /\ f[n] = p \o q
      BY <2>3
    <3> HIDE DEF p, q
    <3>2. Only(p \o q, K) = Only(p, K) \o Only(q, K)
      BY <3>1, OnlyConcat, ZenonT(40)
    <3> QED BY <3>1, <3>2 DEF p, q
  <2>5. <<>> \o d = d /\ d \o <<>> = d /\ <<>> \o <<>> = <<>>
    BY <1>4, ConcatEmptySeq
  <2>6. CASE n < j
    <3>1. n - 1 < j /\ n # j
      BY <2>1, <2>6
    <3> QED BY <1>5, <2>1, <2>2, <2>4, <2>5, <2>6, <3>1
  <2>7. CASE n = j
    <3>1. n - 1 < j /\ ~(n < j)
      BY <2>1, <2>7
    <3> QED BY <1>5, <2>1, <2>2, <2>4, <2>5, <2>7, <3>1
  <2>8. CASE n > j
    <3>1. ~(n - 1 < j) /\ ~(n < j) /\ n # j
      BY <2>1, <2>8
    <3> QED BY <1>5, <2>1, <2>2, <2>4, <2>5, <3>1
  <2> QED BY <2>1, <2>6, <2>7, <2>8
<1>8. L \in S
  <2>1. 0 .. L \subseteq S
    <3> HIDE DEF S
    <3> QED BY <1>1, <1>6, <1>7, UpTo
  <2> QED BY <1>1, <2>1
<1>9. Only(f[L], K) = d
  <2>1. ~(L < j)
    BY <1>1
  <2> QED BY <1>8, <2>1
<1> QED
  BY <1>3, <1>9 DEF K, d

\* The premise of RewriteKeeps.
Ended(s) == ~(\E i \in DOMAIN s : s[i] = EOC /\ i < Len(s))

LEMMA EndedIs ==
  ASSUME NEW s \in Seq(Line), Ended(s)
  PROVE  UpToEOC(s) = s \/ s = Append(UpToEOC(s), EOC)
<1>1. Len(s) \in Nat /\ DOMAIN s = 1 .. Len(s)
  BY LenProperties
<1>2. ASSUME NEW n \in 1 .. Len(s), s[n] = EOC, UpToEOC(s) = SubSeq(s, 1, n - 1)
      PROVE  s = Append(UpToEOC(s), EOC)
  <2>1. n = Len(s)
    <3>1. n \in DOMAIN s /\ s[n] = EOC
      BY <1>1, <1>2
    <3>2. ~(n < Len(s))
      BY <3>1 DEF Ended
    <3> DEFINE M == Len(s)
    <3>3. M \in Nat /\ n \in 1 .. M /\ ~(n < M)
      BY <1>1, <3>2
    <3> HIDE DEF M
    <3>4. n = M
      BY <3>3
    <3> QED BY <3>4 DEF M
  <2>2. n \in 0 .. Len(s) /\ n - 1 \in 0 .. Len(s) /\ 1 \in 1 .. Len(s)
    BY <1>1
  <2>3. SubSeq(s, 1, n) = SubSeq(s, 1, n - 1) \o <<s[n]>>
    BY <1>2, <2>2, SubSeqRecursiveSecond
  <2>4. SubSeq(s, 1, n) = s
    BY <2>1, SubSeqFull
  <2>5. SubSeq(s, 1, n - 1) \in Seq(Line)
    BY <2>2, SubSeqType
  <2> QED BY <1>2, <2>3, <2>4, <2>5, EndLine, AppendIsConcat
<1> QED
  BY <1>2, UpToEOCIs

\* Lines that are written as libnscutil writes them.
Plain(s) == \A i \in DOMAIN s : s[i] \notin Odd /\ Tidy(s[i]) = s[i]

LEMMA PlainIs ==
  ASSUME NEW s \in Seq(AnyLine), Plain(s)
  PROVE  s \in Seq(Line) /\ Tidiness(s) = s
<1>1. Len(s) \in Nat /\ DOMAIN s = 1 .. Len(s) /\ \A i \in 1 .. Len(s) : s[i] \in AnyLine
  BY LenProperties, ElementOfSeq
<1>2. ASSUME NEW i \in 1 .. Len(s) PROVE s[i] \in Line
  <2> DEFINE l == s[i]
  <2>1. l \in AnyLine /\ l \notin Odd /\ Tidy(l) = l
    BY <1>1 DEF Plain
  <2> HIDE DEF l
  <2>2. Tidy(l) \in Line \cup Odd
    BY <2>1, TidyType DEF Kempt
  <2> QED BY <2>1, <2>2 DEF l
<1>3. s \in Seq(Line)
  BY <1>1, <1>2
<1>4. \A i \in 1 .. Len(s) : Tidy(s[i]) = s[i]
  BY <1>1 DEF Plain
<1>5. Tidiness(s) = s
  <2>1. s = [i \in 1 .. Len(s) |-> s[i]]
    BY <1>1
  <2> QED BY <1>1, <1>4, <2>1 DEF Tidiness
<1> QED BY <1>3, <1>5

LEMMA WrittenAgain ==
  ASSUME NEW s \in Seq(Line), Tidiness(s) = s, Ended(s), NEW k \in Keys
  PROVE  Only(conf_write(conf_read(s)), Of(k)) = Only(s, Of(k))
<1> DEFINE u == UpToEOC(s)
           data == conf_read(s)
           L == Len(Order)
<1>1. L \in Nat /\ DOMAIN Order = 1 .. L
  BY OrderAssumption, LenProperties
<1>2. u \in Seq(Line) /\ data \in Seq(Seq(Line))
  <2>1. s \in Seq(AnyLine) /\ EOC \in Line
    BY SightsAre, EndLine
  <2> QED BY <2>1, UpToEOCType, RewriteType
<1>3. data = [i \in 1 .. L |-> Values(u, Order[i])]
  <2>1. [i \in DOMAIN s |-> Tidy(s[i])] = s
    BY DEF Tidiness
  <2> QED BY <1>1, <2>1 DEF conf_read
<1>4. u = s \/ s = Append(u, EOC)
  BY EndedIs
<1>5. PICK j \in 1 .. L : Order[j] = k
  BY <1>1, OrderAssumption DEF Keys, ToSet
<1> HIDE DEF u, data
<1>6. Len(data) = L /\ \A i \in 1 .. L : data[i] = Only(u, Of(Order[i]))
  <2>1. DOMAIN data = 1 .. L /\ \A i \in 1 .. L : data[i] = Values(u, Order[i])
    BY <1>3
  <2>2. Len(data) = L
    BY <1>1, <1>2, <2>1, LenProperties
  <2> QED BY <1>2, <2>1, <2>2, ValuesIs
<1>7. FlattenSeq(data) \in Seq(Line)
  BY <1>2, EmptySeq, FlattenMore
<1>8. Only(FlattenSeq(data), Of(k)) = Only(u, Of(k))
  BY <1>2, <1>5, <1>6, GatheredOf
<1>9. Only(Append(FlattenSeq(data), EOC), Of(k)) = Only(FlattenSeq(data), Of(k))
  <2> DEFINE v == FlattenSeq(data)
  <2> HIDE DEF v
  <2>1. Only(Append(v, EOC), Of(k)) = Only(v, Of(k))
    BY <1>7, EndLine, OnlyMore DEF v
  <2> QED BY <2>1 DEF v
<1>10. Only(s, Of(k)) = Only(u, Of(k))
  <2>1. Only(Append(u, EOC), Of(k)) = Only(u, Of(k))
    BY <1>2, EndLine, OnlyMore
  <2> QED BY <1>4, <2>1
<1> QED
  BY <1>8, <1>9, <1>10 DEF conf_write, data

(* libnscutil changes nothing for nsc (nscutil_conf.cc) in a file without     *)
(* blanks and capitals of its own: whatever the lines and their keys, in any  *)
(* order of the keys, what is read of the file after it has been written      *)
(* again is what was read of it before.                                      *)
THEOREM Rewriting == Spec => []RewriteKeeps
<1>1. IInv => RewriteKeeps
  <2> SUFFICES ASSUME TypeOK, Plain(file), Ended(file)
               PROVE  nsc_load_configuration(conf_write(conf_read(file)))
                        = nsc_load_configuration(file)
    BY DEF RewriteKeeps, Plain, Ended, IInv
  <2> DEFINE w == conf_write(conf_read(file))
  <2>1. file \in Seq(Line) /\ Tidiness(file) = file /\ w \in Seq(Line)
    <3>1. file \in Seq(AnyLine)
      BY DEF TypeOK, AnyLine
    <3>2. file \in Seq(Line) /\ Tidiness(file) = file /\ EOC \in Line
      BY <3>1, PlainIs, EndLine
    <3> QED BY <3>1, <3>2, RewriteType
  <2>2. \A k \in Keys : Only(w, Of(k)) = Only(file, Of(k))
    BY <2>1, WrittenAgain
  <2> HIDE DEF w
  <2>3. nsc_free_configuration \in Wide(Names)
    BY FreeType
  <2>4. Loads(nsc_free_configuration, w) = Loads(nsc_free_configuration, file)
    BY <2>1, <2>2, <2>3, ReadSame
  <2>5. /\ nsc_load_configuration(w) = Loads(nsc_free_configuration, w)
        /\ nsc_load_configuration(file) = Loads(nsc_free_configuration, file)
    BY <2>1, LoadIs
  <2> QED BY <2>4, <2>5 DEF w
<1> QED
  BY <1>1, Kept, PTL

=============================================================================
