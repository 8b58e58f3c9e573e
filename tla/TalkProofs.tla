----------------------------- MODULE TalkProofs -----------------------------
(***************************************************************************)
(* Proofs about Talk, and about the codec and the console it is made of.   *)
(***************************************************************************)
EXTENDS Talk, Recursion

Decoding(A) == [out : Seq(A), esc : BOOLEAN, gone : BOOLEAN]
Url(s) == FoldLeft(url_char, Undecoded, s)

LEMMA HexIs ==
  \A c \in Special : Hex[c] # "%" /\ CharOf(Hex[c]) = c
<1>1. \A c, d \in Special : Hex[c] = Hex[d] => c = d
  BY DEF Hex, Special
<1>2. \A c \in Special : Hex[c] # "%"
  BY DEF Hex, Special
<1> QED
  BY <1>1, <1>2 DEF CharOf

LEMMA CharOfIs ==
  ASSUME NEW h, \E x \in Special : Hex[x] = h
  PROVE  CharOf(h) \in Special
BY DEF CharOf

LEMMA UrlType ==
  ASSUME NEW A, Special \subseteq A, NEW d \in Decoding(A), NEW c \in A
  PROVE  url_char(d, c) \in Decoding(A)
BY AppendProperties, CharOfIs DEF Decoding, url_char

LEMMA UrlFold ==
  ASSUME NEW A, Special \subseteq A, NEW s \in Seq(A)
  PROVE  \E f \in [0 .. Len(s) -> Decoding(A)] :
           /\ f[0] = Undecoded
           /\ \A n \in 1 .. Len(s) : f[n] = url_char(f[n - 1], s[n])
           /\ Url(s) = f[Len(s)]
<1> DEFINE L == Len(s)
           V == Decoding(A)
           G == [n \in 1 .. L |-> [v \in V |-> url_char(v, s[n])]]
           D == SUBSET (1 .. L)
           Q(it) == it = [t \in D |-> IF t = {} THEN Undecoded
                           ELSE url_char(it[t \ {Max(t)}], s[Max(t)])]
           c == CHOOSE it : Q(it)
<1>1. L \in Nat /\ DOMAIN s = 1 .. L /\ \A n \in 1 .. L : s[n] \in A
  BY LenProperties, ElementOfSeq
<1>2. Undecoded \in V
  BY EmptySeq DEF Undecoded, Decoding
<1>3. \A n \in 1 .. L, v \in V : url_char(v, s[n]) \in V
  BY <1>1, UrlType
<1>4. G \in [1 .. L -> [V -> V]]
  <2> HIDE DEF V
  <2> QED BY <1>3
<1>5. PICK it \in [D -> V] : Iterated(it, L, Undecoded, G)
  <2> HIDE DEF V, G, L
  <2> QED BY <1>1, <1>2, <1>4, IteratedExists
<1>6. Q(it)
  <2>1. ASSUME NEW t \in D, t # {}
        PROVE  G[Max(t)][it[t \ {Max(t)}]] = url_char(it[t \ {Max(t)}], s[Max(t)])
    <3>1. Max(t) \in 1 .. L
      BY <1>1, <2>1, MaxIs
    <3>2. it[t \ {Max(t)}] \in V
      <4> HIDE DEF V, L
      <4> QED BY <2>1
    <3> HIDE DEF V, L
    <3> QED BY <3>1, <3>2
  <2> HIDE DEF G, V, L
  <2> QED BY <1>5, <2>1 DEF Iterated
<1>7. Q(c)
  <2> HIDE DEF Q
  <2> QED BY <1>6
<1>8. \A t \in D : c[t] = IF t = {} THEN Undecoded
                          ELSE url_char(c[t \ {Max(t)}], s[Max(t)])
  <2> HIDE DEF c
  <2> DEFINE g == [t \in D |-> IF t = {} THEN Undecoded
                           ELSE url_char(c[t \ {Max(t)}], s[Max(t)])]
  <2>1. c = g
    BY <1>7
  <2>2. \A t \in D : g[t] = IF t = {} THEN Undecoded
                           ELSE url_char(c[t \ {Max(t)}], s[Max(t)])
    OBVIOUS
  <2> HIDE DEF g
  <2> QED BY <2>1, <2>2
<1>9. Url(s) = c[1 .. L]
  BY <1>1 DEF Url, FoldLeft, MapThenFoldSet
<1> HIDE DEF c
<1>10. ASSUME NEW n \in 1 .. L, c[1 .. n - 1] \in V
       PROVE  c[1 .. n] = url_char(c[1 .. n - 1], s[n])
  <2>1. n \in Nat /\ n > 0 /\ 1 .. n \in D
    BY <1>1
  <2> QED BY <1>8, <2>1, MaxUpTo
<1>11. PICK f \in [0 .. L -> V] : Steps(f, L, Undecoded, G) /\ c[1 .. L] = f[L]
  <2>1. Folds(c, L, Undecoded, G, V)
    BY <1>8, <1>10 DEF Folds
  <2> HIDE DEF V, G, L
  <2> QED BY <1>1, <1>2, <1>4, <2>1, FoldIs
<1>12. ASSUME NEW n \in 1 .. L PROVE f[n] = url_char(f[n - 1], s[n])
  <2>1. n - 1 \in 0 .. L
    BY <1>1
  <2>2. f[n - 1] \in V /\ f[n] = G[n][f[n - 1]]
    <3> HIDE DEF V, G
    <3> QED BY <1>11, <2>1 DEF Steps
  <2> QED BY <2>2
<1> QED
  BY <1>9, <1>11, <1>12 DEF Steps

(* The loop, one character more.                                            *)
LEMMA UrlMore ==
  ASSUME NEW A, Special \subseteq A, NEW s \in Seq(A), NEW c \in A
  PROVE  /\ Url(s) \in Decoding(A)
         /\ Url(Append(s, c)) = url_char(Url(s), c)
<1> DEFINE L == Len(s)
           t == Append(s, c)
<1>1. /\ t \in Seq(A) /\ Len(t) = L + 1 /\ t[L + 1] = c /\ L \in Nat
      /\ \A n \in 1 .. L : t[n] = s[n]
  BY AppendProperties, LenProperties
<1>2. PICK f \in [0 .. L -> Decoding(A)] :
        /\ f[0] = Undecoded
        /\ \A n \in 1 .. L : f[n] = url_char(f[n - 1], s[n])
        /\ Url(s) = f[L]
  BY UrlFold
<1>3. PICK g \in [0 .. L + 1 -> Decoding(A)] :
        /\ g[0] = Undecoded
        /\ \A n \in 1 .. L + 1 : g[n] = url_char(g[n - 1], t[n])
        /\ Url(t) = g[L + 1]
  <2> HIDE DEF t
  <2>1. \E g \in [0 .. Len(t) -> Decoding(A)] :
          /\ g[0] = Undecoded
          /\ \A n \in 1 .. Len(t) : g[n] = url_char(g[n - 1], t[n])
          /\ Url(t) = g[Len(t)]
    BY <1>1, UrlFold
  <2> QED BY <1>1, <2>1
<1> DEFINE S == {n \in 0 .. L : f[n] = g[n]}
<1>4. 0 \in S
  BY <1>1, <1>2, <1>3
<1>5. ASSUME NEW n \in 1 .. L, n - 1 \in S PROVE n \in S
  <2>1. n \in 1 .. L + 1 /\ n \in 0 .. L /\ f[n - 1] = g[n - 1]
    BY <1>1, <1>5
  <2> HIDE DEF t
  <2> QED BY <1>1, <1>2, <1>3, <2>1
<1>6. 0 .. L \subseteq S
  <2> HIDE DEF S
  <2> QED BY <1>1, <1>4, <1>5, UpTo
<1>7. f[L] = g[L] /\ L + 1 \in 1 .. L + 1 /\ f[L] \in Decoding(A)
  BY <1>1, <1>6
<1> HIDE DEF t
<1> QED
  BY <1>1, <1>2, <1>3, <1>7 DEF t

LEMMA UrlNone == Url(<<>>) = Undecoded
<1>1. <<>> \in Seq(Special) /\ Len(<<>>) = 0
  BY EmptySeq
<1> QED
  BY <1>1, UrlFold

-----------------------------------------------------------------------------
(* The same of the other loop.                                               *)
Back(w, s) == FoldLeft(LAMBDA e, c : back_slash_char(w, e, c), Undecoded, s)

LEMMA BackType ==
  ASSUME NEW A, "\n" \in A, NEW w, \A k \in Nat : w[k] \in A,
         NEW d \in Decoding(A), NEW c \in A
  PROVE  back_slash_char(w, d, c) \in Decoding(A)
<1>1. d.out \in Seq(A) /\ Len(d.out) + 1 \in Nat
  BY LenProperties DEF Decoding
<1>2. Stays(w, d.out) \in Seq(A)
  BY <1>1, AppendProperties DEF Stays
<1>3. /\ Append(Stays(w, d.out), c) \in Seq(A) /\ Append(d.out, c) \in Seq(A)
      /\ Append(d.out, "\n") \in Seq(A)
  BY <1>1, <1>2, AppendProperties
<1> QED
  BY <1>3 DEF Decoding, back_slash_char

BackRun(w, s, f) ==
  /\ f[0] = Undecoded
  /\ \A n \in 1 .. Len(s) : f[n] = back_slash_char(w, f[n - 1], s[n])
  /\ Back(w, s) = f[Len(s)]

LEMMA BackFold ==
  ASSUME NEW A, "\n" \in A, NEW w, \A k \in Nat : w[k] \in A, NEW s \in Seq(A)
  PROVE  \E f \in [0 .. Len(s) -> Decoding(A)] : BackRun(w, s, f)
<1> DEFINE L == Len(s)
           V == Decoding(A)
           G == [n \in 1 .. L |-> [v \in V |-> back_slash_char(w, v, s[n])]]
           D == SUBSET (1 .. L)
           Q(it) == it = [t \in D |-> IF t = {} THEN Undecoded
                           ELSE back_slash_char(w, it[t \ {Max(t)}], s[Max(t)])]
           c == CHOOSE it : Q(it)
<1>1. L \in Nat /\ DOMAIN s = 1 .. L /\ \A n \in 1 .. L : s[n] \in A
  BY LenProperties, ElementOfSeq
<1>2. Undecoded \in V
  BY EmptySeq DEF Undecoded, Decoding
<1>3. \A n \in 1 .. L, v \in V : back_slash_char(w, v, s[n]) \in V
  BY <1>1, BackType
<1>4. G \in [1 .. L -> [V -> V]]
  <2> HIDE DEF V
  <2> QED BY <1>3
<1>5. PICK it \in [D -> V] : Iterated(it, L, Undecoded, G)
  <2> HIDE DEF V, G, L
  <2> QED BY <1>1, <1>2, <1>4, IteratedExists
<1>6. Q(it)
  <2>1. ASSUME NEW t \in D, t # {}
        PROVE  G[Max(t)][it[t \ {Max(t)}]] = back_slash_char(w, it[t \ {Max(t)}], s[Max(t)])
    <3>1. Max(t) \in 1 .. L
      BY <1>1, <2>1, MaxIs
    <3>2. it[t \ {Max(t)}] \in V
      <4> HIDE DEF V, L
      <4> QED BY <2>1
    <3> HIDE DEF V, L
    <3> QED BY <3>1, <3>2
  <2> HIDE DEF G, V, L
  <2> QED BY <1>5, <2>1 DEF Iterated
<1>7. Q(c)
  <2> HIDE DEF Q
  <2> QED BY <1>6
<1>8. \A t \in D : c[t] = IF t = {} THEN Undecoded
                          ELSE back_slash_char(w, c[t \ {Max(t)}], s[Max(t)])
  <2> HIDE DEF c
  <2> DEFINE g == [t \in D |-> IF t = {} THEN Undecoded
                           ELSE back_slash_char(w, c[t \ {Max(t)}], s[Max(t)])]
  <2>1. c = g
    BY <1>7
  <2>2. \A t \in D : g[t] = IF t = {} THEN Undecoded
                           ELSE back_slash_char(w, c[t \ {Max(t)}], s[Max(t)])
    OBVIOUS
  <2> HIDE DEF g
  <2> QED BY <2>1, <2>2
<1>9. Back(w, s) = c[1 .. L]
  BY <1>1 DEF Back, FoldLeft, MapThenFoldSet
<1> HIDE DEF c
<1>10. ASSUME NEW n \in 1 .. L, c[1 .. n - 1] \in V
       PROVE  c[1 .. n] = back_slash_char(w, c[1 .. n - 1], s[n])
  <2>1. n \in Nat /\ n > 0 /\ 1 .. n \in D
    BY <1>1
  <2> QED BY <1>8, <2>1, MaxUpTo
<1>11. PICK f \in [0 .. L -> V] : Steps(f, L, Undecoded, G) /\ c[1 .. L] = f[L]
  <2>1. Folds(c, L, Undecoded, G, V)
    BY <1>8, <1>10 DEF Folds
  <2> HIDE DEF V, G, L
  <2> QED BY <1>1, <1>2, <1>4, <2>1, FoldIs, SMTT(40)
<1>12. ASSUME NEW n \in 1 .. L PROVE f[n] = back_slash_char(w, f[n - 1], s[n])
  <2>1. n - 1 \in 0 .. L
    BY <1>1
  <2>2. f[n - 1] \in V /\ f[n] = G[n][f[n - 1]]
    <3> HIDE DEF V, G
    <3> QED BY <1>11, <2>1 DEF Steps
  <2> QED BY <2>2
<1> QED
  BY <1>9, <1>11, <1>12 DEF Steps, BackRun

(* The loop, one character more.                                            *)
LEMMA BackMore ==
  ASSUME NEW A, NEW w, NEW s \in Seq(A), NEW c \in A
  PROVE  Back(w, Append(s, c)) = back_slash_char(w, Back(w, s), c)
<1> DEFINE L == Len(s)
           t == Append(s, c)
           B == A \cup {"\n"} \cup {w[k] : k \in Nat}
<1>0. s \in Seq(B) /\ c \in B /\ "\n" \in B /\ \A k \in Nat : w[k] \in B
  <2>1. A \subseteq B
    OBVIOUS
  <2> HIDE DEF B
  <2>2. s \in Seq(B)
    BY <2>1, SeqMonotonic
  <2> QED BY <2>1, <2>2 DEF B
<1>1. /\ t \in Seq(B) /\ Len(t) = L + 1 /\ t[L + 1] = c /\ L \in Nat
      /\ \A n \in 1 .. L : t[n] = s[n]
  <2> HIDE DEF B
  <2> QED BY <1>0, AppendProperties, LenProperties
<1>2. PICK f \in [0 .. L -> Decoding(B)] :
        BackRun(w, s, f)
  <2> HIDE DEF B
  <2> QED BY <1>0, BackFold
<1>3. PICK g \in [0 .. L + 1 -> Decoding(B)] : BackRun(w, t, g)
  <2> HIDE DEF t, B
  <2>1. \E g \in [0 .. Len(t) -> Decoding(B)] : BackRun(w, t, g)
    BY <1>0, <1>1, BackFold
  <2> QED BY <1>1, <2>1
<1> HIDE DEF t
<1> DEFINE S == {n \in 0 .. L : f[n] = g[n]}
<1>4. 0 \in S
  BY <1>1, <1>2, <1>3 DEF BackRun
<1>5. ASSUME NEW n \in 1 .. L, n - 1 \in S PROVE n \in S
  <2>1. n \in 1 .. L + 1 /\ n \in 0 .. L /\ f[n - 1] = g[n - 1]
    BY <1>1, <1>5
  <2> HIDE DEF t
  <2> QED BY <1>1, <1>2, <1>3, <2>1 DEF BackRun
<1>6. 0 .. L \subseteq S
  <2> HIDE DEF S
  <2> QED BY <1>1, <1>4, <1>5, UpTo
<1>7. f[L] = g[L] /\ L + 1 \in 1 .. L + 1 /\ f[L] \in Decoding(B)
  BY <1>1, <1>6
<1> HIDE DEF t
<1> QED
  BY <1>1, <1>2, <1>3, <1>7 DEF t, BackRun

LEMMA BackNone == ASSUME NEW w PROVE Back(w, <<>>) = Undecoded
<1> DEFINE B == {"\n"} \cup {w[k] : k \in Nat}
<1>1. "\n" \in B /\ \A k \in Nat : w[k] \in B
  OBVIOUS
<1> HIDE DEF B
<1>2. <<>> \in Seq(B) /\ Len(<<>>) = 0
  BY EmptySeq
<1>3. \E f \in [0 .. Len(<<>>) -> Decoding(B)] : BackRun(w, <<>>, f)
  BY <1>1, <1>2, BackFold
<1> QED
  BY <1>2, <1>3 DEF BackRun

-----------------------------------------------------------------------------
(* The codec, one character more.                                            *)
Symbol(A) == Special \cup {Hex[c] : c \in Special} \cup {"n", Digit} \subseteq A

LEMMA UrlEncodeMore ==
  ASSUME NEW A, Symbol(A), NEW s \in Seq(A), NEW c \in A
  PROVE  /\ ns_url_encode(s) \in Seq(A)
         /\ ns_url_encode(Append(s, c))
              = ns_url_encode(s) \o (IF c \in Special THEN Code(c) ELSE <<c>>)
<1> DEFINE F == [x \in A |-> IF x \in Special THEN Code(x) ELSE <<x>>]
<1>1. F \in [A -> Seq(A)]
  <2>1. \A x \in Special : "%" \in A /\ Hex[x] \in A
    BY DEF Symbol, Special
  <2>2. \A x \in Special : Code(x) \in Seq(A)
    BY <2>1 DEF Code
  <2> QED BY <2>2
<1>2. \A r \in Seq(A) : ns_url_encode(r) = FlattenSeq(Each(F, r))
  <2> SUFFICES ASSUME NEW r \in Seq(A) PROVE ns_url_encode(r) = FlattenSeq(Each(F, r))
    OBVIOUS
  <2>1. \A i \in DOMAIN r : F[r[i]] = IF r[i] \in Special THEN Code(r[i]) ELSE <<r[i]>>
    BY LenProperties, ElementOfSeq
  <2>2. Each(F, r) = [i \in DOMAIN r |-> IF r[i] \in Special THEN Code(r[i]) ELSE <<r[i]>>]
    <3> HIDE DEF F
    <3> QED BY <2>1 DEF Each
  <2> QED BY <2>2 DEF ns_url_encode
<1>3. Append(s, c) \in Seq(A) /\ F[c] \in Seq(A)
  BY <1>1, AppendProperties
<1>4. Each(F, s) \in Seq(Seq(A)) /\ Each(F, Append(s, c)) = Append(Each(F, s), F[c])
  <2> DEFINE W == Seq(A)
  <2>1. F \in [A -> W]
    BY <1>1
  <2> HIDE DEF F, W
  <2>2. Each(F, s) \in Seq(W) /\ Each(F, Append(s, c)) = Append(Each(F, s), F[c])
    BY <2>1, MapMore, Z3T(40)
  <2> QED BY <2>2 DEF W
<1>5. F[c] = IF c \in Special THEN Code(c) ELSE <<c>>
  OBVIOUS
<1> DEFINE x == Each(F, s)
           y == F[c]
<1> HIDE DEF F
<1>6. x \in Seq(Seq(A)) /\ y \in Seq(A) /\ Each(F, Append(s, c)) = Append(x, y)
  BY <1>3, <1>4
<1>7. ns_url_encode(s) = FlattenSeq(x) /\ ns_url_encode(Append(s, c)) = FlattenSeq(Append(x, y))
  BY <1>2, <1>3, <1>6
<1> HIDE DEF x
<1>8. FlattenSeq(x) \in Seq(A) /\ FlattenSeq(Append(x, y)) = FlattenSeq(x) \o y
  <2> HIDE DEF y
  <2> QED BY <1>6, FlattenMore
<1> QED
  BY <1>5, <1>7, <1>8

LEMMA BackEncodeMore ==
  ASSUME NEW A, Symbol(A), NEW s \in Seq(A), NEW c \in A
  PROVE  /\ ns_back_slash_encode(s) \in Seq(A)
         /\ ns_back_slash_encode(Append(s, c))
              = ns_back_slash_encode(s) \o (IF c = "\n" THEN <<"\\", "n">> ELSE <<c>>)
<1> DEFINE F == [x \in A |-> IF x = "\n" THEN <<"\\", "n">> ELSE <<x>>]
<1>1. F \in [A -> Seq(A)]
  <2>1. "\\" \in A /\ "n" \in A
    BY DEF Symbol, Special
  <2> QED BY <2>1
<1>2. \A r \in Seq(A) : ns_back_slash_encode(r) = FlattenSeq(Each(F, r))
  <2> SUFFICES ASSUME NEW r \in Seq(A) PROVE ns_back_slash_encode(r) = FlattenSeq(Each(F, r))
    OBVIOUS
  <2>1. \A i \in DOMAIN r : F[r[i]] = IF r[i] = "\n" THEN <<"\\", "n">> ELSE <<r[i]>>
    BY LenProperties, ElementOfSeq
  <2>2. Each(F, r) = [i \in DOMAIN r |-> IF r[i] = "\n" THEN <<"\\", "n">> ELSE <<r[i]>>]
    <3> HIDE DEF F
    <3> QED BY <2>1 DEF Each
  <2> QED BY <2>2 DEF ns_back_slash_encode
<1>3. Append(s, c) \in Seq(A) /\ F[c] \in Seq(A)
  BY <1>1, AppendProperties
<1>4. Each(F, s) \in Seq(Seq(A)) /\ Each(F, Append(s, c)) = Append(Each(F, s), F[c])
  <2> DEFINE W == Seq(A)
  <2>1. F \in [A -> W]
    BY <1>1
  <2> HIDE DEF F, W
  <2>2. Each(F, s) \in Seq(W) /\ Each(F, Append(s, c)) = Append(Each(F, s), F[c])
    BY <2>1, MapMore, Z3T(40)
  <2> QED BY <2>2 DEF W
<1>5. F[c] = IF c = "\n" THEN <<"\\", "n">> ELSE <<c>>
  OBVIOUS
<1> DEFINE x == Each(F, s)
           y == F[c]
<1> HIDE DEF F
<1>6. x \in Seq(Seq(A)) /\ y \in Seq(A) /\ Each(F, Append(s, c)) = Append(x, y)
  BY <1>3, <1>4
<1>7. ns_back_slash_encode(s) = FlattenSeq(x) /\ ns_back_slash_encode(Append(s, c)) = FlattenSeq(Append(x, y))
  BY <1>2, <1>3, <1>6
<1> HIDE DEF x
<1>8. FlattenSeq(x) \in Seq(A) /\ FlattenSeq(Append(x, y)) = FlattenSeq(x) \o y
  <2> HIDE DEF y
  <2> QED BY <1>6, FlattenMore
<1> QED
  BY <1>5, <1>7, <1>8

LEMMA EncodeNone == ns_url_encode(<<>>) = <<>> /\ ns_back_slash_encode(<<>>) = <<>>
<1>1. DOMAIN <<>> = {}
  OBVIOUS
<1>2. \A F : [i \in {} |-> F[i]] = <<>>
  OBVIOUS
<1> QED
  BY <1>1, <1>2, FlattenNone DEF ns_url_encode, ns_back_slash_encode

(* ns_url_decode reads what ns_url_encode wrote.                             *)
Decoded(s) == [out |-> s, esc |-> FALSE, gone |-> FALSE]

Open(s) == [out |-> s, esc |-> TRUE, gone |-> FALSE]

LEMMA UrlChar ==
  ASSUME NEW s, NEW c
  PROVE  /\ c # "%" => url_char(Decoded(s), c) = Decoded(Append(s, c))
         /\ url_char(Decoded(s), "%") = Open(s)
         /\ c \in Special => url_char(Open(s), Hex[c]) = Decoded(Append(s, c))
<1>1. c # "%" => url_char(Decoded(s), c) = Decoded(Append(s, c))
  BY DEF url_char, Decoded
<1>2. url_char(Decoded(s), "%") = Open(s)
  BY DEF url_char, Decoded, Open
<1>3. ASSUME c \in Special PROVE url_char(Open(s), Hex[c]) = Decoded(Append(s, c))
  <2>1. Hex[c] # "%" /\ (\E x \in Special : Hex[x] = Hex[c]) /\ CharOf(Hex[c]) = c
    BY <1>3, HexIs
  <2> DEFINE h == Hex[c]
  <2> HIDE DEF h
  <2>2. h # "%" /\ (\E x \in Special : Hex[x] = h) /\ CharOf(h) = c
    BY <2>1 DEF h
  <2>3. url_char(Open(s), h) = Decoded(Append(s, c))
    BY <2>2 DEF url_char, Open, Decoded
  <2> QED BY <2>3 DEF h
<1> QED
  BY <1>1, <1>2, <1>3

LEMMA UrlUndone ==
  ASSUME NEW A, Symbol(A), NEW s \in Seq(A)
  PROVE  ns_url_encode(s) \in Seq(A) /\ Url(ns_url_encode(s)) = Decoded(s)
<1> DEFINE T == {r \in Seq(A) : /\ ns_url_encode(r) \in Seq(A)
                                /\ Url(ns_url_encode(r)) = Decoded(r)}
<1>1. <<>> \in T
  BY EncodeNone, UrlNone, EmptySeq DEF Undecoded, Decoded
<1>2. ASSUME NEW r \in Seq(A), r \in T, NEW c \in A PROVE Append(r, c) \in T
  <2> DEFINE e == ns_url_encode(r)
             x == Append(r, c)
  <2>1. e \in Seq(A) /\ Url(e) = Decoded(r) /\ x \in Seq(A) /\ Special \subseteq A
    BY <1>2, AppendProperties DEF Symbol
  <2>2. ns_url_encode(x) \in Seq(A)
    BY <2>1, UrlEncodeMore
  <2>3. ns_url_encode(x) = e \o (IF c \in Special THEN Code(c) ELSE <<c>>)
    BY UrlEncodeMore
  <2> HIDE DEF e
  <2>4. CASE c \in Special
    <3>1. "%" \in A /\ Hex[c] \in A
      BY <2>4 DEF Symbol, Special
    <3>2. ns_url_encode(x) = Append(Append(e, "%"), Hex[c])
      BY <2>1, <2>3, <2>4, <3>1, ConcatMore DEF Code
    <3>3. Append(e, "%") \in Seq(A)
      BY <2>1, <3>1, AppendProperties
    <3>4. Url(Append(e, "%")) = Open(r)
      BY <2>1, <3>1, UrlMore, UrlChar
    <3>5. Url(Append(Append(e, "%"), Hex[c])) = url_char(Url(Append(e, "%")), Hex[c])
      BY <2>1, <3>1, <3>3, UrlMore
    <3>6. url_char(Url(Append(e, "%")), Hex[c]) = Decoded(x)
      BY <2>4, <3>4, UrlChar
    <3> QED BY <2>1, <2>2, <3>2, <3>5, <3>6
  <2>5. CASE c \notin Special
    <3>1. ns_url_encode(x) = Append(e, c)
      BY <2>1, <2>3, <2>5, ConcatMore
    <3>2. Url(Append(e, c)) = url_char(Url(e), c)
      BY <2>1, UrlMore
    <3>3. c # "%"
      BY <2>5 DEF Special
    <3>4. url_char(Url(e), c) = Decoded(x)
      BY <2>1, <3>3, UrlChar
    <3> QED BY <2>1, <2>2, <3>1, <3>2, <3>4
  <2> QED BY <2>4, <2>5
<1>3. Seq(A) \subseteq T
  <2> HIDE DEF T
  <2> QED BY <1>1, <1>2, SeqAll
<1> QED
  BY <1>3

LEMMA BackChar ==
  ASSUME NEW w, NEW s, NEW c
  PROVE  /\ c # "\\" => back_slash_char(w, Decoded(s), c) = Decoded(Append(s, c))
         /\ c = "\\" => back_slash_char(w, Decoded(s), c) = Open(s)
         /\ c = "\\" => back_slash_char(w, Open(s), c) = Decoded(Append(s, c))
         /\ c = "n" => back_slash_char(w, Open(s), c) = Decoded(Append(s, "\n"))
         /\ c \notin {"\\", "n"} =>
              back_slash_char(w, Open(s), c) = Decoded(Append(Stays(w, s), c))
<1>1. c # "\\" => back_slash_char(w, Decoded(s), c) = Decoded(Append(s, c))
  BY DEF back_slash_char, Decoded
<1>2. c = "\\" => back_slash_char(w, Decoded(s), c) = Open(s)
  BY DEF back_slash_char, Decoded, Open
<1>3. c = "\\" => back_slash_char(w, Open(s), c) = Decoded(Append(s, c))
  BY DEF back_slash_char, Decoded, Open
<1>4. c = "n" => back_slash_char(w, Open(s), c) = Decoded(Append(s, "\n"))
  BY DEF back_slash_char, Decoded, Open
<1>5. c \notin {"\\", "n"} =>
        back_slash_char(w, Open(s), c) = Decoded(Append(Stays(w, s), c))
  BY DEF back_slash_char, Decoded, Open
<1> QED
  BY <1>1, <1>2, <1>3, <1>4, <1>5

(* ns_back_slash_decode reads what ns_back_slash_encode wrote of a text      *)
(* without backslashes ...                                                   *)
LEMMA BackUndone ==
  ASSUME NEW A, Symbol(A), NEW w, NEW s \in Seq(A), ~Contains(s, "\\")
  PROVE  Back(w, ns_back_slash_encode(s)) = Decoded(s)
<1> DEFINE T == {r \in Seq(A) : ~Contains(r, "\\") =>
                                  Back(w, ns_back_slash_encode(r)) = Decoded(r)}
<1>1. <<>> \in T
  BY EncodeNone, BackNone, EmptySeq DEF Undecoded, Decoded
<1>2. ASSUME NEW r \in Seq(A), r \in T, NEW c \in A PROVE Append(r, c) \in T
  <2> SUFFICES ASSUME ~Contains(Append(r, c), "\\")
               PROVE  Back(w, ns_back_slash_encode(Append(r, c))) = Decoded(Append(r, c))
    BY AppendProperties
  <2> DEFINE e == ns_back_slash_encode(r)
             x == Append(r, c)
  <2>1. c # "\\" /\ ~Contains(r, "\\")
    <3>1. /\ Len(x) = Len(r) + 1 /\ x[Len(r) + 1] = c /\ Len(r) \in Nat
          /\ \A i \in 1 .. Len(r) : x[i] = r[i]
      BY AppendProperties, LenProperties
    <3> HIDE DEF x
    <3> QED BY <3>1 DEF Contains, x
  <2>2. e \in Seq(A) /\ Back(w, e) = Decoded(r)
    BY <1>2, <2>1, BackEncodeMore
  <2>3. ns_back_slash_encode(x) = e \o (IF c = "\n" THEN <<"\\", "n">> ELSE <<c>>)
    BY BackEncodeMore
  <2> HIDE DEF e
  <2>4. CASE c = "\n"
    <3>1. "\\" \in A /\ "n" \in A
      BY DEF Symbol, Special
    <3>2. ns_back_slash_encode(x) = Append(Append(e, "\\"), "n")
      BY <2>2, <2>3, <2>4, <3>1, ConcatMore
    <3>3. Append(e, "\\") \in Seq(A)
      BY <2>2, <3>1, AppendProperties
    <3>4. Back(w, Append(e, "\\")) = Open(r)
      BY <2>2, <3>1, BackMore, BackChar
    <3>5. Back(w, Append(Append(e, "\\"), "n"))
            = back_slash_char(w, Back(w, Append(e, "\\")), "n")
      <4> DEFINE g == Append(e, "\\")
      <4>1. g \in Seq(A)
        BY <3>3
      <4> HIDE DEF g
      <4>2. Back(w, Append(g, "n")) = back_slash_char(w, Back(w, g), "n")
        BY <3>1, <4>1, BackMore
      <4> QED BY <4>2 DEF g
    <3>6. back_slash_char(w, Open(r), "n") = Decoded(x)
      BY <2>4, BackChar
    <3> QED BY <3>2, <3>4, <3>5, <3>6
  <2>5. CASE c # "\n"
    <3>1. ns_back_slash_encode(x) = Append(e, c)
      BY <2>2, <2>3, <2>5, ConcatMore
    <3>2. Back(w, Append(e, c)) = back_slash_char(w, Decoded(r), c)
      BY <2>2, BackMore
    <3>3. back_slash_char(w, Decoded(r), c) = Decoded(x)
      BY <2>1, BackChar
    <3> QED BY <3>1, <3>2, <3>3
  <2> QED BY <2>4, <2>5
<1>3. Seq(A) \subseteq T
  <2> HIDE DEF T
  <2> QED BY <1>1, <1>2, SeqAll
<1> QED
  BY <1>3

(* ... and of any other text gives something.                                *)
LEMMA BackShape ==
  ASSUME NEW A, NEW w, NEW s \in Seq(A), NEW B, A \subseteq B, "\n" \in B,
         \A k \in Nat : w[k] \in B
  PROVE  \E o \in Seq(B) : Back(w, s) \in {Decoded(o), Open(o)}
<1> DEFINE T == {r \in Seq(A) : \E o \in Seq(B) : Back(w, r) \in {Decoded(o), Open(o)}}
<1>1. <<>> \in T
  BY BackNone, EmptySeq DEF Undecoded, Decoded
<1>2. ASSUME NEW r \in Seq(A), r \in T, NEW c \in A PROVE Append(r, c) \in T
  <2>1. PICK o \in Seq(B) : Back(w, r) \in {Decoded(o), Open(o)}
    BY <1>2
  <2>2. Append(r, c) \in Seq(A) /\ Back(w, Append(r, c)) = back_slash_char(w, Back(w, r), c)
    BY AppendProperties, BackMore
  <2>3. /\ Append(o, c) \in Seq(B) /\ Append(o, "\n") \in Seq(B)
        /\ Append(Stays(w, o), c) \in Seq(B)
    <3>1. c \in B /\ w[Len(o) + 1] \in B
      BY LenProperties
    <3>2. Stays(w, o) \in Seq(B)
      BY <3>1, AppendProperties DEF Stays
    <3> QED BY <3>1, <3>2, AppendProperties
  <2>4. \E p \in Seq(B) : back_slash_char(w, Back(w, r), c) \in {Decoded(p), Open(p)}
    <3> DEFINE d == back_slash_char(w, Back(w, r), c)
    <3>1. CASE Back(w, r) = Decoded(o)
      <4>1. d = Open(o) \/ d = Decoded(Append(o, c))
        BY <3>1, BackChar
      <4> QED BY <2>3, <4>1
    <3>2. CASE Back(w, r) = Open(o)
      <4>1. \/ d = Decoded(Append(o, c)) \/ d = Decoded(Append(o, "\n"))
            \/ d = Decoded(Append(Stays(w, o), c))
        BY <3>2, BackChar
      <4> QED BY <2>3, <4>1
    <3> QED BY <2>1, <3>1, <3>2
  <2> QED BY <2>2, <2>4
<1>3. Seq(A) \subseteq T
  <2> HIDE DEF T
  <2> QED BY <1>1, <1>2, SeqAll
<1> QED
  BY <1>3

(* What follows and has nothing to decode stays as it is.                    *)
LEMMA UrlPlain ==
  ASSUME NEW A, Symbol(A), NEW e \in Seq(A), NEW s \in Seq(A), Url(e) = Decoded(s),
         NEW t \in Seq(A), ~Contains(t, "%")
  PROVE  Url(e \o t) = Decoded(s \o t)
<1> DEFINE T == {r \in Seq(A) : ~Contains(r, "%") => Url(e \o r) = Decoded(s \o r)}
<1>1. <<>> \in T
  BY ConcatEmptySeq, EmptySeq
<1>2. ASSUME NEW r \in Seq(A), r \in T, NEW c \in A PROVE Append(r, c) \in T
  <2> SUFFICES ASSUME ~Contains(Append(r, c), "%")
               PROVE  Url(e \o Append(r, c)) = Decoded(s \o Append(r, c))
    BY AppendProperties
  <2>1. c # "%" /\ ~Contains(r, "%")
    <3> DEFINE x == Append(r, c)
    <3>1. /\ Len(x) = Len(r) + 1 /\ x[Len(r) + 1] = c /\ Len(r) \in Nat
          /\ \A i \in 1 .. Len(r) : x[i] = r[i]
      BY AppendProperties, LenProperties
    <3> HIDE DEF x
    <3> QED BY <3>1 DEF Contains, x
  <2>2. e \o Append(r, c) = Append(e \o r, c) /\ s \o Append(r, c) = Append(s \o r, c)
    BY ConcatMore, SMTT(30)
  <2>3. e \o r \in Seq(A) /\ Special \subseteq A
    BY ConcatProperties DEF Symbol
  <2>4. Url(Append(e \o r, c)) = url_char(Decoded(s \o r), c)
    BY <1>2, <2>1, <2>3, UrlMore
  <2> QED BY <2>1, <2>2, <2>4, UrlChar
<1>3. Seq(A) \subseteq T
  <2> HIDE DEF T
  <2> QED BY <1>1, <1>2, SeqAll
<1> QED
  BY <1>3

LEMMA BackPlain ==
  ASSUME NEW A, NEW w, NEW e \in Seq(A), NEW B, NEW s \in Seq(B), A \subseteq B,
         Back(w, e) = Decoded(s), NEW t \in Seq(A), ~Contains(t, "\\")
  PROVE  Back(w, e \o t) = Decoded(s \o t)
<1> DEFINE T == {r \in Seq(A) : ~Contains(r, "\\") => Back(w, e \o r) = Decoded(s \o r)}
<1>1. <<>> \in T
  BY ConcatEmptySeq, EmptySeq
<1>2. ASSUME NEW r \in Seq(A), r \in T, NEW c \in A PROVE Append(r, c) \in T
  <2> SUFFICES ASSUME ~Contains(Append(r, c), "\\")
               PROVE  Back(w, e \o Append(r, c)) = Decoded(s \o Append(r, c))
    BY AppendProperties
  <2>1. c # "\\" /\ ~Contains(r, "\\")
    <3> DEFINE x == Append(r, c)
    <3>1. /\ Len(x) = Len(r) + 1 /\ x[Len(r) + 1] = c /\ Len(r) \in Nat
          /\ \A i \in 1 .. Len(r) : x[i] = r[i]
      BY AppendProperties, LenProperties
    <3> HIDE DEF x
    <3> QED BY <3>1 DEF Contains, x
  <2>2. e \o Append(r, c) = Append(e \o r, c) /\ s \o Append(r, c) = Append(s \o r, c)
    <3>1. r \in Seq(B) /\ c \in B
      BY SeqMonotonic
    <3> QED BY <3>1, ConcatMore, SMTT(20)
  <2>3. e \o r \in Seq(A)
    BY ConcatProperties
  <2>4. Back(w, Append(e \o r, c)) = back_slash_char(w, Decoded(s \o r), c)
    <3>1. Back(w, e \o r) = Decoded(s \o r)
      BY <1>2, <2>1
    <3>2. Back(w, Append(e \o r, c)) = back_slash_char(w, Back(w, e \o r), c)
      <4> DEFINE g == e \o r
      <4>1. g \in Seq(A)
        BY <2>3
      <4> HIDE DEF g
      <4>2. Back(w, Append(g, c)) = back_slash_char(w, Back(w, g), c)
        BY <4>1, BackMore
      <4> QED BY <4>2 DEF g
    <3> QED BY <3>1, <3>2
  <2> QED BY <2>1, <2>2, <2>4, BackChar
<1>3. Seq(A) \subseteq T
  <2> HIDE DEF T
  <2> QED BY <1>1, <1>2, SeqAll
<1> QED
  BY <1>3

-----------------------------------------------------------------------------
(* A text that the server relays.                                            *)
Dst == <<" ", "dst", "=", "me">>
NoBlank == <<"dst", "=", "me">>

LEMMA DstIs ==
  ASSUME NEW A, Symbol(A), "dst" \in A, "me" \in A
  PROVE  /\ Dst \in Seq(A) /\ Len(Dst) = 4 /\ NoBlank \in Seq(A) /\ Len(NoBlank) = 3
         /\ ~Contains(Dst, "%") /\ ~Contains(Dst, "\\") /\ ~Contains(NoBlank, "\\")
         /\ \A s \in Seq(A) : s \o Dst = Append(s, " ") \o NoBlank
<1> DEFINE a == " "
           b == "dst"
           c == "="
           d == "me"
<1>1. a \in A /\ b \in A /\ c \in A /\ d \in A
  BY DEF Symbol, Special
<1>2. Dst = <<a, b, c, d>> /\ NoBlank = <<b, c, d>>
  BY DEF Dst, NoBlank
<1>3. Dst \in Seq(A) /\ Len(Dst) = 4 /\ NoBlank \in Seq(A) /\ Len(NoBlank) = 3
  <2> HIDE DEF a, b, c, d
  <2> QED BY <1>1, <1>2, TupleIs
<1>4. /\ Dst[1] = " " /\ Dst[2] = "dst" /\ Dst[3] = "=" /\ Dst[4] = "me"
      /\ NoBlank[1] = "dst" /\ NoBlank[2] = "=" /\ NoBlank[3] = "me"
  BY DEF Dst, NoBlank
<1>7. ASSUME NEW s \in Seq(A) PROVE s \o Dst = Append(s, a) \o NoBlank
  <2> DEFINE f == Dst
             t == NoBlank
  <2>1. /\ f \in Seq(A) /\ t \in Seq(A) /\ Len(f) = Len(t) + 1 /\ f[1] = a
        /\ \A i \in 1 .. Len(t) : f[i + 1] = t[i]
    <3>1. ASSUME NEW i \in 1 .. 3 PROVE f[i + 1] = t[i]
      <4>1. (i = 1 /\ i + 1 = 2) \/ (i = 2 /\ i + 1 = 3) \/ (i = 3 /\ i + 1 = 4)
        OBVIOUS
      <4>2. f[2] = t[1] /\ f[3] = t[2] /\ f[4] = t[3]
        BY <1>4
      <4> HIDE DEF f, t
      <4> QED BY <4>1, <4>2
    <3>2. f[1] = a
      BY <1>4
    <3> HIDE DEF f, t, a
    <3>3. f \in Seq(A) /\ t \in Seq(A) /\ Len(f) = 4 /\ Len(t) = 3
      BY <1>3 DEF f, t
    <3> QED BY <3>1, <3>2, <3>3
  <2> HIDE DEF a, f, t
  <2>2. s \o f = Append(s, a) \o t
    BY <1>1, <2>1, AppendConcat, SMTT(30)
  <2> QED BY <2>2 DEF f, t
<1>5. \A x : x \notin {" ", "dst", "=", "me"} => ~Contains(Dst, x) /\ ~Contains(NoBlank, x)
  <2>1. \A i \in 1 .. 4 : Dst[i] \in {" ", "dst", "=", "me"}
    <3>1. \A i \in 1 .. 4 : i = 1 \/ i = 2 \/ i = 3 \/ i = 4
      OBVIOUS
    <3> QED BY <1>4, <3>1
  <2>2. \A i \in 1 .. 3 : NoBlank[i] \in {" ", "dst", "=", "me"}
    <3>1. \A i \in 1 .. 3 : i = 1 \/ i = 2 \/ i = 3
      OBVIOUS
    <3> QED BY <1>4, <3>1
  <2> QED BY <1>3, <2>1, <2>2 DEF Contains
<1>6. "%" \notin {" ", "dst", "=", "me"} /\ "\\" \notin {" ", "dst", "=", "me"}
  OBVIOUS
<1> QED
  BY <1>3, <1>5, <1>6, <1>7

LEMMA BackEnds ==
  ASSUME NEW w, NEW s, Back(w, w) = Decoded(s)
  PROVE  ns_back_slash_decode(w) = s
<1> DEFINE d == Back(w, w)
<1>1. ns_back_slash_decode(w) = IF d.esc THEN Stays(w, d.out) ELSE d.out
  BY DEF ns_back_slash_decode, Back
<1> HIDE DEF d
<1>2. d = Decoded(s)
  BY DEF d
<1> QED
  BY <1>1, <1>2 DEF Decoded

LEMMA UrlEnds ==
  ASSUME NEW w, NEW s, Url(w) = Decoded(s)
  PROVE  ns_url_decode(w) = s
<1> DEFINE d == Url(w)
<1>1. ns_url_decode(w) = IF d.esc \/ d.gone THEN NULL ELSE d.out
  BY DEF ns_url_decode, Url
<1> HIDE DEF d
<1>2. d = Decoded(s)
  BY DEF d
<1> QED
  BY <1>1, <1>2 DEF Decoded

LEMMA BackBlank ==
  ASSUME NEW A, NEW B, A \subseteq B, "\n" \in B, NEW w, \A k \in Nat : w[k] \in B,
         NEW s \in Seq(A), NEW c \in A, c # "\\", c # "n"
  PROVE  \E o \in Seq(B) : Len(o) >= 1 /\ Back(w, Append(s, c)) = Decoded(o)
<1>1. PICK o \in Seq(B) : Back(w, s) \in {Decoded(o), Open(o)}
  BY BackShape
<1>2. Back(w, Append(s, c)) = back_slash_char(w, Back(w, s), c)
  BY BackMore
<1>3. c \in B /\ w[Len(o) + 1] \in B
  BY LenProperties
<1>4. Stays(w, o) \in Seq(B)
  BY <1>3, AppendProperties DEF Stays
<1>5. /\ Append(o, c) \in Seq(B) /\ Len(Append(o, c)) >= 1
      /\ Append(Stays(w, o), c) \in Seq(B) /\ Len(Append(Stays(w, o), c)) >= 1
  <2> DEFINE p == Stays(w, o)
  <2>1. p \in Seq(B)
    BY <1>4
  <2> HIDE DEF p
  <2>2. /\ Append(o, c) \in Seq(B) /\ Len(Append(o, c)) >= 1
        /\ Append(p, c) \in Seq(B) /\ Len(Append(p, c)) >= 1
    BY <1>3, <2>1, AppendProperties, LenProperties
  <2> QED BY <2>2 DEF p
<1>6. CASE Back(w, s) = Decoded(o)
  <2>1. Back(w, Append(s, c)) = Decoded(Append(o, c))
    BY <1>2, <1>6, BackChar
  <2> QED BY <1>5, <2>1
<1>7. CASE Back(w, s) = Open(o)
  <2>1. Back(w, Append(s, c)) = Decoded(Append(Stays(w, o), c))
    BY <1>2, <1>7, BackChar
  <2> QED BY <1>5, <2>1
<1> QED
  BY <1>1, <1>6, <1>7

LEMMA Arrives ==
  ASSUME NEW A, Symbol(A), "dst" \in A, "me" \in A, NEW s \in Seq(A)
  PROVE  /\ ns_back_slash_encode(s) \in Seq(A)
         /\ ns_decode(ns_encode(s) \o Dst)
              = ns_back_slash_decode(ns_back_slash_encode(s) \o Dst)
<1> DEFINE b == ns_back_slash_encode(s)
           e == ns_url_encode(b)
<1>1. b \in Seq(A)
  BY BackEncodeMore DEF Symbol
<1>2. e \in Seq(A) /\ Url(e) = Decoded(b)
  <2> HIDE DEF b
  <2> QED BY <1>1, UrlUndone
<1> HIDE DEF b, e
<1>3. Url(e \o Dst) = Decoded(b \o Dst)
  <2>1. Dst \in Seq(A) /\ ~Contains(Dst, "%")
    BY DstIs
  <2> QED BY <1>1, <1>2, <2>1, UrlPlain
<1>4. ns_url_decode(e \o Dst) = b \o Dst
  BY <1>3, UrlEnds
<1>5. b \o Dst # NULL
  <2>1. Dst \in Seq(A) /\ Len(Dst) = 4
    BY DstIs
  <2>2. Len(b \o Dst) = Len(b) + 4 /\ Len(b) \in Nat
    <3> DEFINE D == Dst
    <3>1. D \in Seq(A) /\ Len(D) = 4
      BY <2>1
    <3> HIDE DEF D
    <3>2. Len(b \o D) = Len(b) + Len(D) /\ Len(b) \in Nat
      BY <1>1, <3>1, ConcatProperties, LenProperties
    <3> QED BY <3>1, <3>2 DEF D
  <2>3. Len(NULL) = 1
    BY DEF NULL
  <2> QED BY <2>2, <2>3, SMTT(20)
<1>6. ns_encode(s) = e
  BY DEF ns_encode, b, e
<1> QED
  BY <1>1, <1>4, <1>5, <1>6 DEF ns_decode, b

(* It is decoded to what was typed, if no backslash was ...                  *)
LEMMA ArrivesKept ==
  ASSUME NEW A, Symbol(A), "dst" \in A, "me" \in A, NEW s \in Seq(A),
         ~Contains(s, "\\")
  PROVE  ns_decode(ns_encode(s) \o Dst) = s \o Dst
<1> DEFINE b == ns_back_slash_encode(s)
           w == b \o Dst
<1>1. b \in Seq(A) /\ ns_decode(ns_encode(s) \o Dst) = ns_back_slash_decode(w)
  BY Arrives
<1>2. Back(w, b) = Decoded(s)
  <2> HIDE DEF w
  <2> QED BY BackUndone
<1>3. Back(w, b \o Dst) = Decoded(s \o Dst)
  <2> HIDE DEF w, b
  <2>1. Dst \in Seq(A) /\ ~Contains(Dst, "\\") /\ A \subseteq A
    BY DstIs
  <2> QED BY <1>1, <1>2, <2>1, BackPlain
<1>4. ns_back_slash_decode(w) = s \o Dst
  <2>1. Back(w, w) = Decoded(s \o Dst)
    BY <1>3
  <2> HIDE DEF w
  <2> QED BY <2>1, BackEnds
<1> QED
  BY <1>1, <1>4

(* ... and ends by dst= whatever was typed.                                  *)
LEMMA ArrivesEnded ==
  ASSUME NEW A, Symbol(A), "dst" \in A, "me" \in A, NEW s \in Seq(A)
  PROVE  \E B : \E o \in Seq(B) : /\ A \subseteq B /\ Len(o) >= 1
                                  /\ ns_decode(ns_encode(s) \o Dst) = o \o NoBlank
<1> DEFINE b == ns_back_slash_encode(s)
           w == b \o Dst
           B == A \cup {w[k] : k \in Nat}
<1>1. b \in Seq(A) /\ ns_decode(ns_encode(s) \o Dst) = ns_back_slash_decode(w)
  BY Arrives
<1>2. A \subseteq B /\ "\n" \in B /\ \A k \in Nat : w[k] \in B
  BY DEF Symbol, Special
<1>3. /\ " " \in A /\ " " # "\\" /\ " " # "n" /\ NoBlank \in Seq(A)
      /\ ~Contains(NoBlank, "\\")
  BY DstIs DEF Symbol, Special
<1>4. \E o \in Seq(B) : Len(o) >= 1 /\ Back(w, Append(b, " ")) = Decoded(o)
  <2> DEFINE c == " "
  <2>1. c \in A /\ c # "\\" /\ c # "n"
    BY <1>3
  <2> HIDE DEF w, B, b, c
  <2>2. \E o \in Seq(B) : Len(o) >= 1 /\ Back(w, Append(b, c)) = Decoded(o)
    BY <1>1, <1>2, <2>1, BackBlank
  <2> QED BY <2>2 DEF c
<1>5. Append(b, " ") \in Seq(A)
  BY <1>1, <1>3, AppendProperties
<1>7. PICK o \in Seq(B) : Len(o) >= 1 /\ Back(w, Append(b, " ")) = Decoded(o)
  BY <1>4
<1>8. w = Append(b, " ") \o NoBlank
  BY <1>1, DstIs
<1>9. Back(w, w) = Decoded(o \o NoBlank)
  <2> DEFINE g == Append(b, " ")
  <2>1. g \in Seq(A) /\ Back(w, g) = Decoded(o) /\ w = g \o NoBlank
    BY <1>5, <1>7, <1>8
  <2> DEFINE t == NoBlank
  <2>2. t \in Seq(A) /\ ~Contains(t, "\\")
    BY <1>3
  <2> HIDE DEF w, b, B, g, t
  <2>3. Back(w, g \o t) = Decoded(o \o t)
    BY <1>2, <2>1, <2>2, BackPlain
  <2> QED BY <2>1, <2>3 DEF t
<1>10. ns_back_slash_decode(w) = o \o NoBlank
  <2> HIDE DEF w
  <2> QED BY <1>9, BackEnds
<1> QED
  BY <1>1, <1>2, <1>7, <1>10

-----------------------------------------------------------------------------
(* What the console makes of a line.                                         *)

LEMMA PartIs ==
  ASSUME NEW A, NEW s \in Seq(A), NEW i \in Nat \ {0}, NEW j \in 0 .. Len(s)
  PROVE  /\ SubSeq(s, i, j) \in Seq(A)
         /\ Len(SubSeq(s, i, j)) = IF i <= j THEN j - i + 1 ELSE 0
         /\ \A k \in 1 .. j - i + 1 : SubSeq(s, i, j)[k] = s[i + k - 1]
<1>1. Len(s) \in Nat
  BY LenProperties
<1>2. \A k \in i .. j : s[k] \in A
  BY <1>1, ElementOfSeq
<1> QED
  BY <1>1, <1>2, SubSeqProperties

LEMMA FromIs ==
  ASSUME NEW A, NEW s \in Seq(A), NEW i \in Nat \ {0}
  PROVE  /\ From(s, i) \in Seq(A)
         /\ Len(From(s, i)) = IF i <= Len(s) THEN Len(s) - i + 1 ELSE 0
         /\ \A k \in 1 .. Len(s) - i + 1 : From(s, i)[k] = s[i + k - 1]
         /\ i > Len(s) => From(s, i) = <<>>
<1>1. Len(s) \in 0 .. Len(s) /\ Len(s) \in Nat
  BY LenProperties
<1>2. i > Len(s) => SubSeq(s, i, Len(s)) = <<>>
  BY <1>1, SubSeqEmpty
<1> QED
  BY <1>1, <1>2, PartIs DEF From

LEMMA RestIs ==
  ASSUME NEW A, NEW s \in Seq(A), NEW L \in Nat, Len(s) = L + 1
  PROVE  /\ From(s, 2) \in Seq(A) /\ Len(From(s, 2)) = L
         /\ \A j \in 1 .. L : From(s, 2)[j] = s[j + 1]
<1> DEFINE n == 2
<1>1. n \in Nat \ {0} /\ n <= L + 2
  OBVIOUS
<1>2. L + 1 - n + 1 = L /\ \A j \in 1 .. L : n + j - 1 = j + 1
  OBVIOUS
<1>3. n <= L + 1 <=> L # 0
  OBVIOUS
<1> HIDE DEF n
<1>4. /\ From(s, n) \in Seq(A)
      /\ Len(From(s, n)) = IF n <= Len(s) THEN Len(s) - n + 1 ELSE 0
      /\ \A k \in 1 .. Len(s) - n + 1 : From(s, n)[k] = s[n + k - 1]
  BY <1>1, FromIs
<1>5. /\ From(s, n) \in Seq(A) /\ Len(From(s, n)) = L
      /\ \A j \in 1 .. L : From(s, n)[j] = s[j + 1]
  <2> DEFINE r == From(s, n)
  <2>1. Len(s) - n + 1 = L /\ (n <= Len(s) <=> L # 0)
    BY <1>1, <1>2, <1>3
  <2>2. Len(r) = L /\ r \in Seq(A)
    BY <1>4, <2>1
  <2>3. \A j \in 1 .. L : r[j] = s[n + j - 1]
    BY <1>4, <2>1
  <2> QED BY <1>2, <2>2, <2>3
<1> QED
  BY <1>5 DEF n

LEMMA OneIs ==
  ASSUME NEW A, NEW s \in Seq(A), NEW n \in 1 .. Len(s)
  PROVE  SubSeq(s, n, n) = <<s[n]>>
<1> DEFINE m == n
           x == SubSeq(s, n, m)
           y == <<s[n]>>
<1>1. n \in Nat \ {0} /\ m \in 0 .. Len(s) /\ m = n /\ s[n] \in A
  BY LenProperties, ElementOfSeq
<1> HIDE DEF m
<1>2. /\ x \in Seq(A) /\ Len(x) = IF n <= m THEN m - n + 1 ELSE 0
      /\ \A k \in 1 .. m - n + 1 : x[k] = s[n + k - 1]
  BY <1>1, PartIs
<1>3. m - n + 1 = 1 /\ n <= m /\ n + 1 - 1 = n
  BY <1>1
<1>4. y \in Seq(A) /\ Len(y) = 1 /\ y[1] = s[n]
  BY <1>1
<1> HIDE DEF x, y
<1>5. Len(x) = 1 /\ x[1] = s[n]
  BY <1>2, <1>3
<1>6. Len(x) = Len(y) /\ \A i \in 1 .. Len(x) : x[i] = y[i]
  <2>1. \A i \in 1 .. 1 : i = 1
    OBVIOUS
  <2> QED BY <1>4, <1>5, <2>1
<1>7. x = y
  BY <1>2, <1>4, <1>6, SeqEqual
<1> QED
  BY <1>1, <1>7 DEF x, y

(* The first character that is blank, or the first that is not: that is what *)
(* the search of strip_spaces and str_to_first_word ends at.                 *)
LEMMA BlankIs ==
  ASSUME NEW A, NEW s \in Seq(A)
  PROVE  LET i == SelectInSeq(s, LAMBDA c : c = Blank)
         IN  \/ i = 0 /\ ~Contains(s, Blank)
             \/ /\ i \in 1 .. Len(s) /\ s[i] = Blank
                /\ \A k \in 1 .. i - 1 : s[k] # Blank
<1> DEFINE I == {i \in 1 .. Len(s) : s[i] = Blank}
<1>1. SelectInSeq(s, LAMBDA c : c = Blank) = IF I # {} THEN Min(I) ELSE 0
  BY DEF SelectInSeq
<1>2. I \in SUBSET Nat /\ Len(s) \in Nat
  BY LenProperties
<1>3. CASE I = {}
  BY <1>1, <1>3 DEF Contains
<1>4. CASE I # {}
  <2>1. Min(I) \in I /\ \A y \in I : Min(I) <= y
    <3> HIDE DEF I
    <3> QED BY <1>2, <1>4, MinIs
  <2> DEFINE m == Min(I)
  <2>2. m \in 1 .. Len(s) /\ s[m] = Blank
    BY <2>1
  <2>3. ASSUME NEW k \in 1 .. m - 1 PROVE s[k] # Blank
    <3>1. k \in 1 .. Len(s) /\ k \in Nat /\ m \in Nat /\ ~(m <= k)
      BY <1>2, <2>2
    <3> QED BY <2>1, <3>1
  <2>4. SelectInSeq(s, LAMBDA c : c = Blank) = m
    BY <1>1, <1>4
  <2> HIDE DEF m, I
  <2> QED BY <2>2, <2>3, <2>4
<1> QED
  BY <1>3, <1>4

LEMMA LetterIs ==
  ASSUME NEW A, NEW s \in Seq(A)
  PROVE  LET i == SelectInSeq(s, LAMBDA c : c # Blank)
         IN  \/ i = 0 /\ \A k \in 1 .. Len(s) : s[k] = Blank
             \/ /\ i \in 1 .. Len(s) /\ s[i] # Blank
                /\ \A k \in 1 .. i - 1 : s[k] = Blank
<1> DEFINE I == {i \in 1 .. Len(s) : s[i] # Blank}
<1>1. SelectInSeq(s, LAMBDA c : c # Blank) = IF I # {} THEN Min(I) ELSE 0
  BY DEF SelectInSeq
<1>2. I \in SUBSET Nat /\ Len(s) \in Nat
  BY LenProperties
<1>3. CASE I = {}
  BY <1>1, <1>3
<1>4. CASE I # {}
  <2>1. Min(I) \in I /\ \A y \in I : Min(I) <= y
    <3> HIDE DEF I
    <3> QED BY <1>2, <1>4, MinIs
  <2> DEFINE m == Min(I)
  <2>2. m \in 1 .. Len(s) /\ s[m] # Blank
    BY <2>1
  <2>3. ASSUME NEW k \in 1 .. m - 1 PROVE s[k] = Blank
    <3>1. k \in 1 .. Len(s) /\ k \in Nat /\ m \in Nat /\ ~(m <= k)
      BY <1>2, <2>2
    <3> QED BY <2>1, <3>1
  <2>4. SelectInSeq(s, LAMBDA c : c # Blank) = m
    BY <1>1, <1>4
  <2> HIDE DEF m, I
  <2> QED BY <2>2, <2>3, <2>4
<1> QED
  BY <1>3, <1>4

LEMMA StripIs ==
  ASSUME NEW A, NEW s \in Seq(A), NEW k \in Nat, k < Len(s), s[k + 1] # Blank,
         \A j \in 1 .. k : s[j] = Blank
  PROVE  strip_spaces(s) = From(s, k + 1)
<1> DEFINE i == SelectInSeq(s, LAMBDA c : c # Blank)
<1>1. Len(s) \in Nat
  BY LenProperties
<1>2. \/ i = 0 /\ \A j \in 1 .. Len(s) : s[j] = Blank
      \/ /\ i \in 1 .. Len(s) /\ s[i] # Blank
         /\ \A j \in 1 .. i - 1 : s[j] = Blank
  BY LetterIs
<1>3. strip_spaces(s) = IF i = 0 THEN <<>> ELSE From(s, i)
  BY DEF strip_spaces
<1> HIDE DEF i
<1>4. k + 1 \in 1 .. Len(s)
  BY <1>1
<1>5. i \in 1 .. Len(s) /\ s[i] # Blank /\ \A j \in 1 .. i - 1 : s[j] = Blank
  BY <1>2, <1>4
<1>6. ~(i <= k) /\ ~(i > k + 1)
  BY <1>4, <1>5
<1>7. i = k + 1
  BY <1>5, <1>6
<1> QED
  BY <1>3, <1>7

LEMMA StripType ==
  ASSUME NEW A, NEW s \in Seq(A)
  PROVE  strip_spaces(s) \in Seq(A)
<1> DEFINE i == SelectInSeq(s, LAMBDA c : c # Blank)
<1>1. \/ i = 0
      \/ i \in 1 .. Len(s)
  BY LetterIs
<1>2. strip_spaces(s) = IF i = 0 THEN <<>> ELSE From(s, i)
  BY DEF strip_spaces
<1> HIDE DEF i
<1>3. Len(s) \in Nat
  BY LenProperties
<1> QED
  BY <1>1, <1>2, <1>3, FromIs, EmptySeq

(* A word has no blank.                                                      *)
LEMMA WordType ==
  ASSUME NEW A, NEW s \in Seq(A)
  PROVE  str_to_first_word(s) \in Seq(A) /\ ~Contains(str_to_first_word(s), Blank)
<1> DEFINE w == strip_spaces(s)
           i == SelectInSeq(w, LAMBDA c : c = Blank)
<1>1. w \in Seq(A)
  BY StripType
<1>2. str_to_first_word(s) = IF i = 0 THEN w ELSE SubSeq(w, 1, i - 1)
  BY DEF str_to_first_word
<1> HIDE DEF w
<1>3. \/ i = 0 /\ ~Contains(w, Blank)
      \/ /\ i \in 1 .. Len(w) /\ w[i] = Blank
         /\ \A k \in 1 .. i - 1 : w[k] # Blank
  BY <1>1, BlankIs
<1> HIDE DEF i
<1>4. CASE i # 0
  <2>1. i \in 1 .. Len(w) /\ i - 1 \in 0 .. Len(w) /\ Len(w) \in Nat
    BY <1>1, <1>3, <1>4, LenProperties
  <2>2. /\ SubSeq(w, 1, i - 1) \in Seq(A)
        /\ Len(SubSeq(w, 1, i - 1)) = i - 1
        /\ \A k \in 1 .. i - 1 : SubSeq(w, 1, i - 1)[k] = w[k]
    <3>1. /\ SubSeq(w, 1, i - 1) \in Seq(A)
          /\ Len(SubSeq(w, 1, i - 1)) = IF 1 <= i - 1 THEN (i - 1) - 1 + 1 ELSE 0
          /\ \A k \in 1 .. (i - 1) - 1 + 1 : SubSeq(w, 1, i - 1)[k] = w[1 + k - 1]
      BY <1>1, <2>1, PartIs
    <3>2. (i - 1) - 1 + 1 = i - 1 /\ \A k \in 1 .. i - 1 : 1 + k - 1 = k
      BY <2>1
    <3> QED BY <2>1, <3>1, <3>2
  <2> QED BY <1>2, <1>3, <1>4, <2>2 DEF Contains
<1> QED
  BY <1>1, <1>2, <1>3, <1>4

(* The first word stands between the k blanks in front of it and the blank   *)
(* behind it, or the end.                                                    *)
LEMMA WordIs ==
  ASSUME NEW A, NEW s \in Seq(A), NEW k \in Nat, NEW e \in Nat, k < e, e <= Len(s),
         \A j \in 1 .. k : s[j] = Blank, \A j \in k + 1 .. e : s[j] # Blank,
         e = Len(s) \/ s[e + 1] = Blank
  PROVE  str_to_first_word(s) = SubSeq(s, k + 1, e)
<1> DEFINE w == From(s, k + 1)
           i == SelectInSeq(w, LAMBDA c : c = Blank)
<1>1. Len(s) \in Nat
  BY LenProperties
<1>2. strip_spaces(s) = w
  <2>1. k < Len(s) /\ s[k + 1] # Blank
    BY <1>1
  <2> QED BY <2>1, StripIs
<1>3. str_to_first_word(s) = IF i = 0 THEN w ELSE SubSeq(w, 1, i - 1)
  BY <1>2 DEF str_to_first_word
<1>4. /\ w \in Seq(A) /\ Len(w) = Len(s) - k
      /\ \A j \in 1 .. Len(s) - k : w[j] = s[k + j]
  <2>1. /\ w \in Seq(A)
        /\ Len(w) = IF k + 1 <= Len(s) THEN Len(s) - (k + 1) + 1 ELSE 0
        /\ \A j \in 1 .. Len(s) - (k + 1) + 1 : w[j] = s[(k + 1) + j - 1]
    <3> DEFINE n == k + 1
    <3>1. n \in Nat \ {0}
      OBVIOUS
    <3> HIDE DEF n
    <3>2. /\ From(s, n) \in Seq(A)
          /\ Len(From(s, n)) = IF n <= Len(s) THEN Len(s) - n + 1 ELSE 0
          /\ \A j \in 1 .. Len(s) - n + 1 : From(s, n)[j] = s[n + j - 1]
      BY <3>1, FromIs
    <3> QED BY <3>2 DEF n
  <2>2. /\ Len(s) - (k + 1) + 1 = Len(s) - k /\ k + 1 <= Len(s)
        /\ \A j \in 1 .. Len(s) - k : (k + 1) + j - 1 = k + j
    BY <1>1
  <2> HIDE DEF w
  <2> QED BY <2>1, <2>2
<1> HIDE DEF w
<1>5. \/ i = 0 /\ ~Contains(w, Blank)
      \/ /\ i \in 1 .. Len(w) /\ w[i] = Blank
         /\ \A j \in 1 .. i - 1 : w[j] # Blank
  BY <1>4, BlankIs
<1> HIDE DEF i
<1>6. \A j \in 1 .. e - k : w[j] # Blank
  <2> TAKE j \in 1 .. e - k
  <2>1. k + j \in k + 1 .. e /\ j \in 1 .. Len(s) - k
    BY <1>1
  <2> QED BY <1>4, <2>1
<1>7. e < Len(s) => e - k + 1 \in 1 .. Len(s) - k /\ w[e - k + 1] = Blank
  <2>1. e < Len(s) => e - k + 1 \in 1 .. Len(s) - k /\ k + (e - k + 1) = e + 1
    BY <1>1
  <2> QED BY <1>1, <1>4, <2>1
<1>8. str_to_first_word(s) = SubSeq(w, 1, e - k)
  <2>1. CASE e = Len(s)
    <3>1. i = 0
      BY <1>4, <1>5, <1>6, <2>1
    <3>2. SubSeq(w, 1, Len(w)) = w
      BY <1>4, SubSeqFull
    <3> QED BY <1>3, <1>4, <2>1, <3>1, <3>2
  <2>2. CASE e < Len(s)
    <3>1. i \in 1 .. Len(s) - k /\ w[i] = Blank /\ \A j \in 1 .. i - 1 : w[j] # Blank
      BY <1>4, <1>5, <1>7, <2>2 DEF Contains
    <3>2. ~(i <= e - k) /\ ~(i > e - k + 1)
      BY <1>1, <1>6, <1>7, <2>2, <3>1
    <3>3. i - 1 = e - k /\ i # 0
      BY <1>1, <3>1, <3>2
    <3> QED BY <1>3, <3>3
  <2> QED BY <1>1, <2>1, <2>2
<1>9. /\ SubSeq(w, 1, e - k) \in Seq(A) /\ Len(SubSeq(w, 1, e - k)) = e - k
      /\ \A j \in 1 .. e - k : SubSeq(w, 1, e - k)[j] = w[j]
  <2> DEFINE n == e - k
  <2>1. n \in 0 .. Len(w) /\ n \in Nat /\ n > 0
    BY <1>1, <1>4
  <2> HIDE DEF n
  <2>2. /\ SubSeq(w, 1, n) \in Seq(A)
        /\ Len(SubSeq(w, 1, n)) = IF 1 <= n THEN n - 1 + 1 ELSE 0
        /\ \A j \in 1 .. n - 1 + 1 : SubSeq(w, 1, n)[j] = w[1 + j - 1]
    BY <1>4, <2>1, PartIs
  <2>3. n - 1 + 1 = n /\ \A j \in 1 .. n : 1 + j - 1 = j
    BY <2>1
  <2>4. /\ SubSeq(w, 1, n) \in Seq(A) /\ Len(SubSeq(w, 1, n)) = n
        /\ \A j \in 1 .. n : SubSeq(w, 1, n)[j] = w[j]
    BY <2>1, <2>2, <2>3
  <2> QED BY <2>4 DEF n
<1>10. /\ SubSeq(s, k + 1, e) \in Seq(A) /\ Len(SubSeq(s, k + 1, e)) = e - k
       /\ \A j \in 1 .. e - k : SubSeq(s, k + 1, e)[j] = s[k + j]
  <2>1. e \in 0 .. Len(s) /\ k + 1 \in Nat \ {0}
    BY <1>1
  <2>2. /\ SubSeq(s, k + 1, e) \in Seq(A)
        /\ Len(SubSeq(s, k + 1, e)) = IF k + 1 <= e THEN e - (k + 1) + 1 ELSE 0
        /\ \A j \in 1 .. e - (k + 1) + 1 : SubSeq(s, k + 1, e)[j] = s[(k + 1) + j - 1]
    BY <2>1, PartIs
  <2>3. /\ e - (k + 1) + 1 = e - k /\ k + 1 <= e
        /\ \A j \in 1 .. e - k : (k + 1) + j - 1 = k + j
    BY <1>1
  <2> QED BY <2>2, <2>3
<1>11. \A j \in 1 .. e - k : j \in 1 .. Len(s) - k
  BY <1>1
<1>12. SubSeq(w, 1, e - k) = SubSeq(s, k + 1, e)
  <2> DEFINE x == SubSeq(w, 1, e - k)
             y == SubSeq(s, k + 1, e)
  <2>1. /\ x \in Seq(A) /\ y \in Seq(A) /\ Len(x) = Len(y)
        /\ \A j \in 1 .. Len(x) : x[j] = y[j]
    BY <1>4, <1>9, <1>10, <1>11
  <2> HIDE DEF x, y
  <2>2. x = y
    BY <2>1, SeqEqual
  <2> QED BY <2>2 DEF x, y
<1> QED
  BY <1>8, <1>12

LEMMA WordFirst ==
  ASSUME NEW A, NEW s \in Seq(A), NEW n \in Nat, n > 0, n <= Len(s),
         \A j \in 1 .. n : s[j] # Blank, n = Len(s) \/ s[n + 1] = Blank
  PROVE  str_to_first_word(s) = SubSeq(s, 1, n)
<1> DEFINE k == 0
           l == k + 1
<1>1. k \in Nat /\ k < n /\ \A j \in 1 .. k : s[j] = Blank
  OBVIOUS
<1>2. \A j \in l .. n : s[j] # Blank
  OBVIOUS
<1>3. l = 1
  OBVIOUS
<1> HIDE DEF k
<1>4. str_to_first_word(s) = SubSeq(s, k + 1, n)
  BY <1>1, <1>2, WordIs
<1> QED
  BY <1>3, <1>4

LEMMA GapIs ==
  ASSUME NEW A, NEW s \in Seq(A), NEW m \in Nat \ {0}
  PROVE  \A n, L \in Nat : \A t \in Seq(A) :
           /\ m = n + 2 /\ Len(s) = n + 1 + L /\ Len(t) = L
           /\ \A j \in 1 .. L : s[n + 1 + j] = t[j]
           => From(s, m) = t
<1> DEFINE x == From(s, m)
<1>1. /\ x \in Seq(A) /\ Len(x) = IF m <= Len(s) THEN Len(s) - m + 1 ELSE 0
      /\ \A k \in 1 .. Len(s) - m + 1 : x[k] = s[m + k - 1]
  BY FromIs
<1> HIDE DEF x
<1>2. SUFFICES ASSUME NEW n \in Nat, NEW L \in Nat, NEW t \in Seq(A),
                      m = n + 2, Len(s) = n + 1 + L, Len(t) = L,
                      \A j \in 1 .. L : s[n + 1 + j] = t[j]
               PROVE  x = t
  BY DEF x
<1>3. /\ Len(s) - m + 1 = L /\ (~(m <= Len(s)) => L = 0)
      /\ \A k \in 1 .. L : m + k - 1 = n + 1 + k
  BY <1>2
<1>4. Len(x) = L /\ \A k \in 1 .. L : x[k] = t[k]
  BY <1>1, <1>2, <1>3
<1> QED
  BY <1>1, <1>2, <1>4, SeqEqual

LEMMA SameIs ==
  ASSUME NEW A, NEW s \in Seq(A), NEW q \in Seq(A), NEW n \in 0 .. Len(s), Len(q) = n,
         \A j \in 1 .. n : s[j] = q[j]
  PROVE  SubSeq(s, 1, n) = q
<1> DEFINE o == 1
           x == SubSeq(s, o, n)
<1>1. o \in Nat \ {0} /\ n \in Nat /\ n - o + 1 = n /\ (~(o <= n) => n = 0)
  BY LenProperties
<1>2. \A k \in 1 .. n : o + k - 1 = k
  OBVIOUS
<1> HIDE DEF o
<1>3. /\ x \in Seq(A) /\ Len(x) = IF o <= n THEN n - o + 1 ELSE 0
      /\ \A k \in 1 .. n - o + 1 : x[k] = s[o + k - 1]
  BY <1>1, PartIs
<1> HIDE DEF x
<1>4. Len(x) = n /\ \A k \in 1 .. n : x[k] = q[k]
  BY <1>1, <1>2, <1>3
<1>5. x = q
  BY <1>3, <1>4, SeqEqual
<1> QED
  BY <1>5 DEF x, o

(* What the handler of msg is given: a message, or nothing.                  *)
LEMMA MessageType ==
  ASSUME NEW A, NEW str \in Seq(A)
  PROVE  LET m == cmd_user_message(str)
             rest == From(str, 2)
             user == str_to_first_word(rest)
         IN  /\ m \in [to : Seq(A), text : Seq(A)]
             /\ rest \in Seq(A) /\ user \in Seq(A)
             /\ m # Nothing => m = [to |-> user, text |-> From(rest, Len(user) + 2)]
<1> DEFINE m == cmd_user_message(str)
           rest == From(str, 2)
           user == str_to_first_word(rest)
           text == From(rest, Len(user) + 2)
<1>1. m = Nothing \/ m = [to |-> user, text |-> text]
  BY DEF cmd_user_message
<1>2. rest \in Seq(A)
  BY FromIs
<1> HIDE DEF rest
<1>3. user \in Seq(A)
  BY <1>2, WordType
<1> HIDE DEF user
<1>4. text \in Seq(A)
  <2> DEFINE n == Len(user) + 2
  <2>1. n \in Nat \ {0}
    BY <1>3, LenProperties
  <2> HIDE DEF n
  <2>2. From(rest, n) \in Seq(A)
    BY <1>2, <2>1, FromIs
  <2> QED BY <2>2 DEF n
<1>5. Nothing \in [to : Seq(A), text : Seq(A)]
  BY EmptySeq DEF Nothing
<1> HIDE DEF m, text
<1>6. m \in [to : Seq(A), text : Seq(A)]
  BY <1>1, <1>3, <1>4, <1>5
<1> QED
  BY <1>1, <1>2, <1>3, <1>6 DEF m, rest, user, text

(* To whom, whatever the blanks.                                             *)
LEMMA MessageTo ==
  ASSUME NEW A, NEW str \in Seq(A), NEW n \in Nat \ {0}, NEW d, d # Blank,
         n + 1 < Len(str), \A j \in 1 .. n : str[j] = Blank, str[n + 1] = d,
         str[n + 2] = Blank, cmd_user_message(str) # Nothing
  PROVE  cmd_user_message(str).to = <<d>>
<1> DEFINE rest == From(str, 2)
           user == str_to_first_word(rest)
<1>1. Len(str) \in Nat
  BY LenProperties
<1>2. cmd_user_message(str).to = user
  BY MessageType
<1>3. /\ rest \in Seq(A) /\ Len(rest) = Len(str) - 1
      /\ \A j \in 1 .. Len(str) - 1 : rest[j] = str[j + 1]
  <2> DEFINE l == Len(str) - 1
  <2>1. l \in Nat /\ Len(str) = l + 1
    BY <1>1
  <2> HIDE DEF l
  <2>2. /\ rest \in Seq(A) /\ Len(rest) = l /\ \A j \in 1 .. l : rest[j] = str[j + 1]
    BY <2>1, RestIs
  <2> QED BY <2>2 DEF l
<1> HIDE DEF rest
<1>4. \A j \in 1 .. n - 1 : rest[j] = Blank
  <2> TAKE j \in 1 .. n - 1
  <2>1. j \in 1 .. Len(str) - 1 /\ j + 1 \in 1 .. n
    BY <1>1
  <2> QED BY <1>3, <2>1
<1>5. rest[n] = d /\ rest[n + 1] = Blank /\ n < Len(rest)
  <2>1. n \in 1 .. Len(str) - 1 /\ n + 1 \in 1 .. Len(str) - 1 /\ (n + 1) + 1 = n + 2
    BY <1>1
  <2> QED BY <1>1, <1>3, <2>1
<1>6. user = SubSeq(rest, n, n)
  <2> DEFINE k == n - 1
  <2>1. /\ k \in Nat /\ k + 1 = n /\ k < n /\ n <= Len(rest) /\ n \in Nat
        /\ \A j \in 1 .. k : rest[j] = Blank
        /\ \A j \in k + 1 .. n : rest[j] # Blank
        /\ n = Len(rest) \/ rest[n + 1] = Blank
    <3>1. \A j \in (n - 1) + 1 .. n : j = n
      OBVIOUS
    <3> QED BY <1>1, <1>3, <1>4, <1>5, <3>1
  <2> HIDE DEF k
  <2>2. str_to_first_word(rest) = SubSeq(rest, k + 1, n)
    BY <1>3, <2>1, WordIs, ZenonT(40)
  <2> QED BY <2>1, <2>2
<1>7. SubSeq(rest, n, n) = <<d>>
  <2>1. n \in 1 .. Len(rest)
    BY <1>1, <1>3, <1>5
  <2>2. SubSeq(rest, n, n) = <<rest[n]>>
    BY <1>3, <2>1, OneIs
  <2> QED BY <1>5, <2>2
<1> QED
  BY <1>2, <1>6, <1>7

(* Which text, with one blank at each place.                                 *)
LEMMA MessageIs ==
  ASSUME NEW A, NEW str \in Seq(A), NEW q \in Seq(A), q # <<>>, ~Contains(q, Blank),
         NEW t \in Seq(A), Len(str) = Len(q) + 2 + Len(t),
         \A i \in 1 .. Len(q) : str[i + 1] = q[i], str[Len(q) + 2] = Blank,
         \A i \in 1 .. Len(t) : str[Len(q) + 2 + i] = t[i]
  PROVE  cmd_user_message(str) \in {Nothing, [to |-> q, text |-> t]}
<1> DEFINE rest == From(str, 2)
           user == str_to_first_word(rest)
           n == Len(q)
<1>1. Len(str) \in Nat /\ n \in Nat /\ Len(t) \in Nat /\ n > 0 /\ Len(str) = n + 2 + Len(t)
  BY LenProperties, EmptySeq
<1>2. /\ rest \in Seq(A) /\ Len(rest) = n + 1 + Len(t)
      /\ \A j \in 1 .. n + 1 + Len(t) : rest[j] = str[j + 1]
  <2> DEFINE l == n + 1 + Len(t)
  <2>1. l \in Nat /\ Len(str) = l + 1
    BY <1>1
  <2> HIDE DEF l, n
  <2>2. /\ rest \in Seq(A) /\ Len(rest) = l /\ \A j \in 1 .. l : rest[j] = str[j + 1]
    BY <2>1, RestIs
  <2> QED BY <2>2 DEF l
<1>3. /\ \A j \in 1 .. n : rest[j] = q[j] /\ q[j] # Blank
      /\ rest[n + 1] = Blank
      /\ \A j \in 1 .. Len(t) : rest[n + 1 + j] = t[j]
  <2>1. \A j \in 1 .. n : q[j] # Blank
    BY DEF Contains
  <2>2. str[n + 2] = Blank /\ \A i \in 1 .. Len(t) : str[n + 2 + i] = t[i]
    OBVIOUS
  <2>3. \A i \in 1 .. n : str[i + 1] = q[i]
    OBVIOUS
  <2> HIDE DEF rest, n
  <2>4. \A j \in 1 .. n : rest[j] = q[j]
    <3> TAKE j \in 1 .. n
    <3>1. j \in 1 .. n + 1 + Len(t)
      BY <1>1
    <3> QED BY <1>2, <2>3, <3>1
  <2>5. rest[n + 1] = Blank
    <3>1. n + 1 \in 1 .. n + 1 + Len(t) /\ (n + 1) + 1 = n + 2
      BY <1>1
    <3> QED BY <1>2, <2>2, <3>1
  <2>6. \A j \in 1 .. Len(t) : rest[n + 1 + j] = t[j]
    <3> TAKE j \in 1 .. Len(t)
    <3>1. n + 1 + j \in 1 .. n + 1 + Len(t) /\ (n + 1 + j) + 1 = n + 2 + j
      BY <1>1
    <3> QED BY <1>2, <2>2, <3>1
  <2> QED BY <2>1, <2>4, <2>5, <2>6
<1> HIDE DEF rest
<1>4. user = SubSeq(rest, 1, n)
  <2>1. /\ n \in Nat /\ n > 0 /\ n <= Len(rest) /\ (n = Len(rest) \/ rest[n + 1] = Blank)
        /\ \A j \in 1 .. n : rest[j] # Blank
    <3> HIDE DEF n
    <3>1. n <= Len(rest)
      BY <1>1, <1>2
    <3> QED BY <1>1, <1>3, <3>1
  <2> HIDE DEF n
  <2> QED BY <1>2, <2>1, WordFirst
<1>5. SubSeq(rest, 1, n) = q
  <2>1. Len(q) = n
    OBVIOUS
  <2> HIDE DEF n
  <2>2. n \in 0 .. Len(rest) /\ \A j \in 1 .. n : rest[j] = q[j]
    BY <1>1, <1>2, <1>3
  <2> QED BY <1>2, <2>1, <2>2, SameIs
<1>6. From(rest, n + 2) = t
  <2> DEFINE l == Len(t)
             m == n + 2
  <2> HIDE DEF n
  <2>1. /\ l \in Nat /\ n \in Nat /\ m \in Nat \ {0} /\ Len(rest) = n + 1 + l /\ Len(t) = l
        /\ \A j \in 1 .. l : rest[n + 1 + j] = t[j]
    BY <1>1, <1>2, <1>3
  <2>2. m = n + 2
    OBVIOUS
  <2> HIDE DEF m, l
  <2>3. \A i, j \in Nat : \A r \in Seq(A) :
          /\ m = i + 2 /\ Len(rest) = i + 1 + j /\ Len(r) = j
          /\ \A k \in 1 .. j : rest[i + 1 + k] = r[k]
          => From(rest, m) = r
    BY <1>2, <2>1, GapIs, ZenonT(40)
  <2>4. From(rest, m) = t
    BY <2>1, <2>2, <2>3
  <2> QED BY <2>2, <2>4
<1>7. user = q /\ From(rest, Len(user) + 2) = t
  BY <1>4, <1>5, <1>6
<1> QED
  BY <1>7, MessageType DEF rest

LEMMA SentType ==
  ASSUME NEW A, Blank \in A, NEW str \in Seq(A), NEW q \in Seq(A)
  PROVE  sent(str, q) \in [to : Seq(A), text : Seq(A)]
<1>1. Nothing \in [to : Seq(A), text : Seq(A)]
  BY EmptySeq DEF Nothing
<1>2. cmd_user_message(argument(str)) \in [to : Seq(A), text : Seq(A)]
  <2> DEFINE n == Len(str_to_first_word(str)) + 1
  <2>1. n \in Nat \ {0}
    BY WordType, LenProperties
  <2> HIDE DEF n
  <2>2. From(str, n) \in Seq(A)
    BY <2>1, FromIs
  <2>3. argument(str) \in Seq(A)
    BY <2>2 DEF argument, n
  <2> QED BY <2>3, MessageType
<1>3. cmd_user_message(<<Blank>> \o q \o <<Blank>> \o str) \in [to : Seq(A), text : Seq(A)]
  <2> DEFINE b == Blank
  <2>1. b \in A
    OBVIOUS
  <2> HIDE DEF b
  <2>2. <<b>> \o q \o <<b>> \o str \in Seq(A)
    BY <2>1
  <2> QED BY <2>2, MessageType DEF b
<1> QED
  BY <1>1, <1>2, <1>3 DEF sent

(* The messages of the auto-responder.                                       *)
LEMMA Joint ==
  ASSUME NEW A, NEW s \in Seq(A), NEW t \in Seq(A)
  PROVE  /\ s \o t \in Seq(A) /\ Len(s \o t) = Len(s) + Len(t)
         /\ \A i \in 1 .. Len(s) : (s \o t)[i] = s[i]
         /\ \A i \in 1 .. Len(t) : (s \o t)[Len(s) + i] = t[i]
<1> DEFINE r == s \o t
<1>1. /\ r \in Seq(A) /\ Len(r) = Len(s) + Len(t)
      /\ \A i \in 1 .. Len(s) + Len(t) : r[i] = IF i <= Len(s) THEN s[i] ELSE t[i - Len(s)]
  BY ConcatProperties
<1>2. Len(s) \in Nat /\ Len(t) \in Nat
  BY LenProperties
<1> HIDE DEF r
<1>3. \A i \in 1 .. Len(s) : r[i] = s[i]
  BY <1>1, <1>2
<1>4. \A i \in 1 .. Len(t) : r[Len(s) + i] = t[i]
  <2> TAKE i \in 1 .. Len(t)
  <2>1. /\ Len(s) + i \in 1 .. Len(s) + Len(t) /\ ~(Len(s) + i <= Len(s))
        /\ Len(s) + i - Len(s) = i
    BY <1>2
  <2> QED BY <1>1, <2>1
<1> QED
  BY <1>1, <1>3, <1>4 DEF r

LEMMA AnswerIs ==
  ASSUME NEW A, NEW b \in A, b = Blank, NEW d \in A, d # Blank, NEW t \in Seq(A)
  PROVE  cmd_user_message(<<b, d, b>> \o t) \in {Nothing, [to |-> <<d>>, text |-> t]}
<1> DEFINE q == <<d>>
           p == <<b, d, b>>
           str == p \o t
<1>1. q \in Seq(A) /\ q # <<>> /\ Len(q) = 1 /\ q[1] = d
  OBVIOUS
<1>2. p \in Seq(A) /\ Len(p) = 3 /\ p[1] = b /\ p[2] = d /\ p[3] = b
  OBVIOUS
<1> HIDE DEF q, p
<1>3. Len(t) \in Nat
  BY LenProperties
<1>4. /\ str \in Seq(A) /\ Len(str) = Len(p) + Len(t)
      /\ \A i \in 1 .. Len(p) : str[i] = p[i]
      /\ \A i \in 1 .. Len(t) : str[Len(p) + i] = t[i]
  <2>1. p \in Seq(A)
    BY <1>2
  <2> QED BY <2>1, Joint
<1> HIDE DEF str
<1>5. ~Contains(q, Blank)
  <2>1. \A i \in 1 .. 1 : i = 1
    OBVIOUS
  <2> QED BY <1>1, <2>1 DEF Contains
<1>6. /\ Len(str) = Len(q) + 2 + Len(t)
      /\ \A i \in 1 .. Len(q) : str[i + 1] = q[i]
      /\ str[Len(q) + 2] = Blank
  <2>1. 2 \in 1 .. 3 /\ 3 \in 1 .. 3
    OBVIOUS
  <2>2. str[2] = d /\ str[3] = b
    BY <1>2, <1>4, <2>1
  <2>3. \A i \in 1 .. 1 : i = 1 /\ i + 1 = 2
    OBVIOUS
  <2>4. Len(q) + 2 = 3
    BY <1>1
  <2> QED BY <1>1, <1>2, <1>3, <1>4, <2>2, <2>3, <2>4
<1>7. \A i \in 1 .. Len(t) : str[Len(q) + 2 + i] = t[i]
  <2> TAKE i \in 1 .. Len(t)
  <2>1. Len(q) + 2 + i = Len(p) + i
    BY <1>1, <1>2, <1>3
  <2> QED BY <1>4, <2>1
<1>8. cmd_user_message(str) \in {Nothing, [to |-> q, text |-> t]}
  BY <1>1, <1>4, <1>5, <1>6, <1>7, MessageIs
<1> QED
  BY <1>8 DEF q, str, p

(* What is said in a query.                                                  *)
LEMMA QueryIs ==
  ASSUME NEW A, NEW b \in A, b = Blank, NEW q \in Seq(A), q # <<>>,
         ~Contains(q, Blank), NEW t \in Seq(A)
  PROVE  cmd_user_message(<<b>> \o q \o <<b>> \o t) \in {Nothing, [to |-> q, text |-> t]}
<1> DEFINE o == <<b>>
           p == o \o q
           r == p \o o
           str == r \o t
           n == Len(q)
           l == Len(t)
<1>1. o \in Seq(A)
  OBVIOUS
<1>2. n \in Nat /\ l \in Nat /\ Len(o) = 1 /\ o[1] = b
  BY LenProperties
<1> HIDE DEF o
<1>3. /\ p \in Seq(A) /\ Len(p) = Len(o) + Len(q)
      /\ \A i \in 1 .. Len(o) : p[i] = o[i]
      /\ \A i \in 1 .. Len(q) : p[Len(o) + i] = q[i]
  BY <1>1, Joint
<1>3a. p \in Seq(A)
  BY <1>3
<1> HIDE DEF p
<1>4. /\ r \in Seq(A) /\ Len(r) = Len(p) + Len(o)
      /\ \A i \in 1 .. Len(p) : r[i] = p[i]
      /\ \A i \in 1 .. Len(o) : r[Len(p) + i] = o[i]
  BY <1>1, <1>3a, Joint
<1>4a. r \in Seq(A)
  BY <1>4
<1> HIDE DEF r
<1>5. /\ str \in Seq(A) /\ Len(str) = Len(r) + Len(t)
      /\ \A i \in 1 .. Len(r) : str[i] = r[i]
      /\ \A i \in 1 .. Len(t) : str[Len(r) + i] = t[i]
  BY <1>4a, Joint
<1> HIDE DEF str
<1>6. \A i \in 1 .. n : str[i + 1] = q[i]
  <2> TAKE i \in 1 .. n
  <2>1. /\ i + 1 \in 1 .. n + 2 /\ i + 1 \in 1 .. n + 1 /\ i + 1 = 1 + i
    BY <1>2
  <2>2. Len(r) = n + 2 /\ Len(p) = n + 1 /\ Len(o) = 1 /\ i \in 1 .. Len(q)
    BY <1>2, <1>3, <1>4
  <2> QED BY <1>3, <1>4, <1>5, <2>1, <2>2
<1>7. str[n + 2] = Blank
  <2>1. /\ n + 2 \in 1 .. n + 2 /\ 1 \in 1 .. 1 /\ n + 1 + 1 = n + 2
    BY <1>2
  <2>2. Len(r) = n + 2 /\ Len(p) = n + 1 /\ Len(o) = 1
    BY <1>2, <1>3, <1>4
  <2> QED BY <1>2, <1>4, <1>5, <2>1, <2>2
<1>8. \A i \in 1 .. l : str[n + 2 + i] = t[i]
  <2>1. Len(r) = n + 2
    BY <1>2, <1>3, <1>4
  <2> QED BY <1>5, <2>1
<1>9. Len(str) = n + 2 + l
  BY <1>2, <1>3, <1>4, <1>5
<1>10. cmd_user_message(str) \in {Nothing, [to |-> q, text |-> t]}
  BY <1>5, <1>6, <1>7, <1>8, <1>9, MessageIs
<1> QED
  BY <1>10 DEF str, r, p, o

LEMMA SentText ==
  ASSUME NEW A, Blank \in A, NEW q \in Seq(A), ~Contains(q, Blank), NEW t \in Seq(A),
         str_to_first_word(t) \notin {MSG, QUERY}
  PROVE  /\ sent(t, q) \in {Nothing, [to |-> q, text |-> t]}
         /\ q = <<>> => sent(t, q) = Nothing
<1> DEFINE m == cmd_user_message(<<Blank>> \o q \o <<Blank>> \o t)
<1>1. sent(t, q) = IF str_to_first_word(t) = <<>> \/ q = <<>> THEN Nothing ELSE m
  BY DEF sent
<1>2. q # <<>> => m \in {Nothing, [to |-> q, text |-> t]}
  <2> DEFINE b == Blank
  <2>1. b \in A /\ b = Blank
    OBVIOUS
  <2> HIDE DEF b
  <2>2. q # <<>> => cmd_user_message(<<b>> \o q \o <<b>> \o t)
                      \in {Nothing, [to |-> q, text |-> t]}
    BY <2>1, QueryIs
  <2> QED BY <2>1, <2>2
<1> HIDE DEF m
<1> QED
  BY <1>1, <1>2

Suffix(A, s, i, k, l) ==
  /\ From(s, i) \in Seq(A) /\ Len(From(s, i)) = l
  /\ \A j \in 1 .. l : From(s, i)[j] = s[k + j]

LEMMA SuffixIs ==
  ASSUME NEW A, NEW s \in Seq(A), NEW i \in Nat \ {0}, NEW k \in Nat, NEW l \in Nat,
         i = k + 1, Len(s) = k + l
  PROVE  Suffix(A, s, i, k, l)
<1> DEFINE x == From(s, i)
<1>1. /\ x \in Seq(A) /\ Len(x) = IF i <= Len(s) THEN Len(s) - i + 1 ELSE 0
      /\ \A j \in 1 .. Len(s) - i + 1 : x[j] = s[i + j - 1]
  BY FromIs
<1> HIDE DEF x
<1>2. /\ Len(s) - i + 1 = l /\ (~(i <= Len(s)) => l = 0)
      /\ \A j \in 1 .. l : i + j - 1 = k + j
  OBVIOUS
<1>3. x \in Seq(A) /\ Len(x) = l /\ \A j \in 1 .. l : x[j] = s[k + j]
  BY <1>1, <1>2
<1> QED
  BY <1>3 DEF x, Suffix

LEMMA SentMsg ==
  ASSUME NEW str, NEW q, str_to_first_word(str) = MSG
  PROVE  sent(str, q) = cmd_user_message(argument(str))
<1> DEFINE w == str_to_first_word(str)
           E == <<>>
           Q == QUERY
           M == MSG
           m == cmd_user_message(argument(str))
           r == IF q = <<>> THEN Nothing
                ELSE cmd_user_message(<<Blank>> \o q \o <<Blank>> \o str)
<1>1. M # E /\ M # Q
  BY DEF MSG, QUERY
<1>2. sent(str, q) = CASE w = E -> Nothing [] w = M -> m [] w = Q -> Nothing [] OTHER -> r
  BY DEF sent
<1>3. w = M
  OBVIOUS
<1> HIDE DEF w, E, Q, M, m, r
<1>4. sent(str, q) = m
  BY <1>1, <1>2, <1>3
<1> QED
  BY <1>4 DEF m

(* A line that begins by msg, with n blanks before the name and g behind it.  *)
MsgLine(str, n, g, d, t) ==
  /\ Len(str) = n + g + 4 + Len(t)
  /\ str[1] = "m" /\ str[2] = "s" /\ str[3] = "g"
  /\ \A j \in 1 .. n : str[3 + j] = Blank
  /\ str[n + 4] = d
  /\ \A j \in 1 .. g : str[n + 4 + j] = Blank
  /\ \A j \in 1 .. Len(t) : str[n + g + 4 + j] = t[j]

LEMMA MsgIs ==
  ASSUME NEW A, "m" \in A, "s" \in A, "g" \in A, NEW str \in Seq(A), NEW q,
         NEW n \in Nat \ {0}, NEW g \in Nat \ {0}, NEW d \in A, d # Blank,
         NEW t \in Seq(A), MsgLine(str, n, g, d, t)
  PROVE  /\ sent(str, q) # Nothing => sent(str, q).to = <<d>>
         /\ n = 1 /\ g = 1 => sent(str, q) \in {Nothing, [to |-> <<d>>, text |-> t]}
<1> DEFINE L == Len(t)
           k == 3
           arg == From(str, k + 1)
<1>1. L \in Nat /\ Len(str) = n + g + 4 + L /\ k = 3 /\ k \in Nat /\ k > 0
  BY LenProperties DEF MsgLine
<1>2. MSG \in Seq(A) /\ Len(MSG) = 3 /\ MSG[1] = "m" /\ MSG[2] = "s" /\ MSG[3] = "g"
  BY DEF MSG
<1>3. \A j \in 1 .. 3 : str[j] = MSG[j] /\ str[j] # Blank
  <2>1. \A j \in 1 .. 3 : j = 1 \/ j = 2 \/ j = 3
    OBVIOUS
  <2>2. "m" # Blank /\ "s" # Blank /\ "g" # Blank
    BY DEF Blank
  <2> QED BY <1>2, <2>1, <2>2 DEF MsgLine
<1> HIDE DEF k, L
<1>4. k \in 0 .. Len(str) /\ k <= Len(str) /\ str[k + 1] = Blank
  <2>1. 1 \in 1 .. n /\ 3 + 1 = k + 1
    BY <1>1
  <2>2. str[3 + 1] = Blank
    BY <2>1 DEF MsgLine
  <2>3. k \in 0 .. Len(str) /\ k <= Len(str)
    BY <1>1
  <2> QED BY <2>1, <2>2, <2>3
<1>5. str_to_first_word(str) = MSG
  <2>1. \A j \in 1 .. k : str[j] # Blank
    BY <1>1, <1>3
  <2>2. str_to_first_word(str) = SubSeq(str, 1, k)
    BY <1>1, <1>4, <2>1, WordFirst
  <2>3. Len(MSG) = k /\ \A j \in 1 .. k : str[j] = MSG[j]
    BY <1>1, <1>2, <1>3
  <2>4. SubSeq(str, 1, k) = MSG
    BY <1>2, <1>4, <2>3, SameIs
  <2> QED BY <2>2, <2>4
<1>6. sent(str, q) = cmd_user_message(arg)
  <2>1. argument(str) = arg
    BY <1>1, <1>2, <1>5 DEF argument
  <2> HIDE DEF arg
  <2> QED BY <1>5, <2>1, SentMsg
<1>7. /\ arg \in Seq(A) /\ Len(arg) = n + g + 1 + L
      /\ \A j \in 1 .. n + g + 1 + L : arg[j] = str[3 + j]
  <2> DEFINE i == k + 1
             l == n + g + 1 + L
  <2>1. i \in Nat \ {0} /\ l \in Nat /\ Len(str) = k + l /\ i = k + 1
    BY <1>1
  <2> HIDE DEF i, l
  <2>2. Suffix(A, str, i, k, l)
    BY <1>1, <2>1, SuffixIs
  <2>3. /\ From(str, i) \in Seq(A) /\ Len(From(str, i)) = l
        /\ \A j \in 1 .. l : From(str, i)[j] = str[k + j]
    BY <2>2 DEF Suffix
  <2> QED BY <1>1, <2>3 DEF i, l
<1> HIDE DEF arg
<1>8. \A j \in 1 .. n : arg[j] = Blank
  <2> TAKE j \in 1 .. n
  <2>1. j \in 1 .. n + g + 1 + L
    BY <1>1
  <2> QED BY <1>7, <2>1 DEF MsgLine
<1>9. arg[n + 1] = d
  <2>1. n + 1 \in 1 .. n + g + 1 + L /\ 3 + (n + 1) = n + 4
    BY <1>1
  <2> QED BY <1>7, <2>1 DEF MsgLine
<1>10. arg[n + 2] = Blank
  <2>1. n + 2 \in 1 .. n + g + 1 + L /\ 3 + (n + 2) = n + 4 + 1 /\ 1 \in 1 .. g
    BY <1>1
  <2>2. str[n + 4 + 1] = Blank
    BY <2>1 DEF MsgLine
  <2> QED BY <1>7, <2>1, <2>2
<1>11. ASSUME sent(str, q) # Nothing PROVE sent(str, q).to = <<d>>
  <2>1. n + 1 < Len(arg)
    BY <1>1, <1>7
  <2>2. arg \in Seq(A) /\ cmd_user_message(arg) # Nothing
    BY <1>6, <1>7, <1>11
  <2>3. cmd_user_message(arg).to = <<d>>
    BY <1>8, <1>9, <1>10, <2>1, <2>2, MessageTo
  <2> QED BY <1>6, <2>3
<1>12. ASSUME n = 1, g = 1
       PROVE  sent(str, q) \in {Nothing, [to |-> <<d>>, text |-> t]}
  <2> DEFINE u == <<d>>
  <2>1. u \in Seq(A) /\ u # <<>> /\ Len(u) = 1 /\ u[1] = d
    OBVIOUS
  <2> HIDE DEF u
  <2>2. \A i \in 1 .. Len(u) : i = 1
    BY <2>1
  <2>3. ~Contains(u, Blank)
    BY <2>1, <2>2 DEF Contains
  <2>4. Len(arg) = Len(u) + 2 + Len(t)
    BY <1>1, <1>7, <1>12, <2>1 DEF L
  <2>5. \A i \in 1 .. Len(u) : arg[i + 1] = u[i]
    BY <1>9, <1>12, <2>1, <2>2
  <2>6. arg[Len(u) + 2] = Blank
    BY <1>10, <1>12, <2>1
  <2>7. \A i \in 1 .. Len(t) : arg[Len(u) + 2 + i] = t[i]
    <3> TAKE i \in 1 .. Len(t)
    <3>1. i \in 1 .. L
      BY DEF L
    <3>2. /\ Len(u) + 2 + i = 3 + i /\ 3 + i \in 1 .. n + g + 1 + L
          /\ 3 + (3 + i) = n + g + 4 + i
      BY <1>1, <1>12, <2>1, <3>1
    <3>3. str[n + g + 4 + i] = t[i]
      BY DEF MsgLine
    <3> QED BY <1>7, <3>2, <3>3
  <2>8. cmd_user_message(arg) \in {Nothing, [to |-> u, text |-> t]}
    BY <1>7, <2>1, <2>3, <2>4, <2>5, <2>6, <2>7, MessageIs
  <2> QED BY <1>6, <2>8 DEF u
<1> QED
  BY <1>11, <1>12

LEMMA BlanksIs ==
  ASSUME NEW A, Blank \in A, NEW n \in Nat
  PROVE  /\ Blanks(n) \in Seq(A) /\ Len(Blanks(n)) = n
         /\ \A j \in 1 .. n : Blanks(n)[j] = Blank
         /\ n = 0 => Blanks(n) = <<>>
<1>1. [i \in 1 .. n |-> Blank] \in Seq(A)
  OBVIOUS
<1>2. Blanks(n) \in Seq(A) /\ Len(Blanks(n)) = n /\ \A j \in 1 .. n : Blanks(n)[j] = Blank
  BY <1>1 DEF Blanks
<1>3. n = 0 => Blanks(n) = <<>>
  BY <1>2, EmptySeq
<1> QED
  BY <1>2, <1>3

LEMMA TypedIs ==
  ASSUME NEW A, "m" \in A, "s" \in A, "g" \in A, Blank \in A, NEW q,
         NEW n \in Nat \ {0}, NEW g \in Nat \ {0}, NEW d \in A, d # Blank,
         NEW t \in Seq(A)
  PROVE  LET str == Blanks(0) \o MSG \o Blanks(n) \o <<d>> \o Blanks(g) \o t
         IN  /\ sent(str, q) # Nothing => sent(str, q).to = <<d>>
             /\ n = 1 /\ g = 1 => sent(str, q) \in {Nothing, [to |-> <<d>>, text |-> t]}
<1> DEFINE z == Blanks(0)
           M == MSG
           N == Blanks(n)
           D == <<d>>
           G == Blanks(g)
<1>1. z = <<>>
  BY BlanksIs
<1>2. M \in Seq(A)
  BY DEF MSG
<1>3. Len(M) = 3 /\ M[1] = "m" /\ M[2] = "s" /\ M[3] = "g"
  BY DEF MSG
<1>4. N \in Seq(A) /\ G \in Seq(A) /\ D \in Seq(A)
  BY BlanksIs
<1>5. Len(N) = n /\ \A j \in 1 .. n : N[j] = Blank
  BY BlanksIs
<1>6. Len(G) = g /\ \A j \in 1 .. g : G[j] = Blank
  BY BlanksIs
<1>7. Len(D) = 1 /\ D[1] = d
  OBVIOUS
<1> HIDE DEF z, M, N, D, G
<1> DEFINE a == M \o N
           b == a \o D
           c == b \o G
           str == c \o t
<1>8. z \o M \o N \o D \o G \o t = str
  <2>1. z \o M = M
    BY <1>1, <1>2, ConcatEmptySeq
  <2> QED BY <2>1
<1>9. /\ a \in Seq(A) /\ Len(a) = Len(M) + Len(N)
      /\ \A i \in 1 .. Len(M) : a[i] = M[i]
      /\ \A i \in 1 .. Len(N) : a[Len(M) + i] = N[i]
  BY <1>2, <1>4, Joint
<1>10. a \in Seq(A)
  BY <1>9
<1> HIDE DEF a
<1>11. /\ b \in Seq(A) /\ Len(b) = Len(a) + Len(D)
       /\ \A i \in 1 .. Len(a) : b[i] = a[i]
       /\ \A i \in 1 .. Len(D) : b[Len(a) + i] = D[i]
  BY <1>10, <1>4, Joint
<1>12. b \in Seq(A)
  BY <1>11
<1> HIDE DEF b
<1>13. /\ c \in Seq(A) /\ Len(c) = Len(b) + Len(G)
       /\ \A i \in 1 .. Len(b) : c[i] = b[i]
       /\ \A i \in 1 .. Len(G) : c[Len(b) + i] = G[i]
  BY <1>12, <1>4, Joint
<1>14. c \in Seq(A)
  BY <1>13
<1> HIDE DEF c
<1>15. /\ str \in Seq(A) /\ Len(str) = Len(c) + Len(t)
       /\ \A i \in 1 .. Len(c) : str[i] = c[i]
       /\ \A i \in 1 .. Len(t) : str[Len(c) + i] = t[i]
  BY <1>14, Joint
<1> HIDE DEF str
<1>16. /\ Len(a) = 3 + n /\ Len(b) = n + 4 /\ Len(c) = n + g + 4
       /\ Len(str) = n + g + 4 + Len(t)
  <2>1. Len(a) = 3 + n
    BY <1>3, <1>5, <1>9
  <2>2. Len(b) = n + 4
    BY <1>7, <1>11, <2>1
  <2>3. Len(c) = n + g + 4
    BY <1>6, <1>13, <2>2
  <2> QED BY <1>15, <2>1, <2>2, <2>3
<1>17. \A i \in 1 .. 3 + n : str[i] = a[i]
  <2> TAKE i \in 1 .. 3 + n
  <2>1. i \in 1 .. Len(a) /\ i \in 1 .. Len(b) /\ i \in 1 .. Len(c)
    BY <1>16
  <2> QED BY <1>11, <1>13, <1>15, <2>1
<1>18. str[1] = "m" /\ str[2] = "s" /\ str[3] = "g"
  <2>1. /\ 1 \in 1 .. 3 + n /\ 2 \in 1 .. 3 + n /\ 3 \in 1 .. 3 + n
        /\ 1 \in 1 .. 3 /\ 2 \in 1 .. 3 /\ 3 \in 1 .. 3
    OBVIOUS
  <2>2. a[1] = M[1] /\ a[2] = M[2] /\ a[3] = M[3]
    BY <1>3, <1>9, <2>1
  <2> QED BY <1>3, <1>17, <2>1, <2>2
<1>19. \A j \in 1 .. n : str[3 + j] = Blank
  <2> TAKE j \in 1 .. n
  <2>1. 3 + j \in 1 .. 3 + n
    OBVIOUS
  <2>2. a[3 + j] = N[j]
    BY <1>3, <1>5, <1>9
  <2> QED BY <1>5, <1>17, <2>1, <2>2
<1>20. str[n + 4] = d
  <2>1. n + 4 \in 1 .. n + 4 /\ n + 4 \in 1 .. n + g + 4 /\ 1 \in 1 .. 1 /\ 3 + n + 1 = n + 4
    OBVIOUS
  <2>2. b[n + 4] = d
    BY <1>7, <1>11, <1>16, <2>1
  <2> QED BY <1>13, <1>15, <1>16, <2>1, <2>2
<1>21. \A j \in 1 .. g : str[n + 4 + j] = Blank
  <2> TAKE j \in 1 .. g
  <2>1. n + 4 + j \in 1 .. n + g + 4
    OBVIOUS
  <2> QED BY <1>6, <1>13, <1>15, <1>16, <2>1
<1>22. \A j \in 1 .. Len(t) : str[n + g + 4 + j] = t[j]
  BY <1>15, <1>16
<1>23. MsgLine(str, n, g, d, t)
  BY <1>16, <1>18, <1>19, <1>20, <1>21, <1>22 DEF MsgLine
<1>24. /\ sent(str, q) # Nothing => sent(str, q).to = <<d>>
       /\ n = 1 /\ g = 1 => sent(str, q) \in {Nothing, [to |-> <<d>>, text |-> t]}
  BY <1>15, <1>23, MsgIs
<1>25. Blanks(0) \o MSG \o Blanks(n) \o <<d>> \o Blanks(g) \o t = str
  BY <1>8 DEF z, M, N, D, G
<1> QED
  BY <1>24, <1>25

(* A query is started with the one whose name is given, or ended.            *)
LEMMA WordNone ==
  ASSUME NEW A, NEW s \in Seq(A), \A k \in 1 .. Len(s) : s[k] = Blank
  PROVE  str_to_first_word(s) = <<>>
<1> DEFINE i == SelectInSeq(s, LAMBDA c : c # Blank)
           w == strip_spaces(s)
           j == SelectInSeq(w, LAMBDA c : c = Blank)
<1>1. i = 0
  <2>1. \/ i = 0 /\ \A k \in 1 .. Len(s) : s[k] = Blank
        \/ /\ i \in 1 .. Len(s) /\ s[i] # Blank
           /\ \A k \in 1 .. i - 1 : s[k] = Blank
    BY LetterIs
  <2> HIDE DEF i
  <2> QED BY <2>1
<1>2. w = <<>>
  BY <1>1 DEF strip_spaces
<1>3. str_to_first_word(s) = IF j = 0 THEN w ELSE SubSeq(w, 1, j - 1)
  BY DEF str_to_first_word
<1> HIDE DEF w
<1>4. w \in Seq(A) /\ Len(w) = 0
  BY <1>2, EmptySeq
<1>5. \/ j = 0 /\ ~Contains(w, Blank)
      \/ /\ j \in 1 .. Len(w) /\ w[j] = Blank
         /\ \A k \in 1 .. j - 1 : w[k] # Blank
  BY <1>4, BlankIs
<1> HIDE DEF j
<1>6. j = 0
  BY <1>4, <1>5
<1> QED
  BY <1>2, <1>3, <1>6

LEMMA QueriedType ==
  ASSUME NEW A, NEW str \in Seq(A), NEW q \in Seq(A), ~Contains(q, Blank)
  PROVE  queried(str, q) \in Seq(A) /\ ~Contains(queried(str, q), Blank)
<1>1. argument(str) \in Seq(A)
  <2> DEFINE n == Len(str_to_first_word(str)) + 1
  <2>1. n \in Nat \ {0}
    BY WordType, LenProperties
  <2> HIDE DEF n
  <2>2. From(str, n) \in Seq(A)
    BY <2>1, FromIs
  <2> QED BY <2>2 DEF argument, n
<1>2. /\ cmd_query(argument(str)) \in Seq(A) /\ ~Contains(cmd_query(argument(str)), Blank)
  BY <1>1, WordType DEF cmd_query
<1> QED
  BY <1>2 DEF queried

QueryLine(str, name) ==
  /\ Len(str) = 6 + Len(name)
  /\ \A j \in 1 .. 5 : str[j] = QUERY[j]
  /\ str[6] = Blank
  /\ \A j \in 1 .. Len(name) : str[6 + j] = name[j]

LEMMA QueriedIs ==
  ASSUME NEW A, QUERY \in Seq(A), NEW str \in Seq(A), NEW name \in Seq(A), NEW q,
         QueryLine(str, name), Len(name) <= 1, ~Contains(name, Blank)
  PROVE  queried(str, q) = name
<1> DEFINE k == 5
           l == Len(name) + 1
           i == k + 1
           arg == From(str, i)
<1>1. /\ k = 5 /\ k \in Nat /\ l \in Nat /\ i \in Nat \ {0} /\ i = k + 1
      /\ Len(str) = k + l /\ l = Len(name) + 1 /\ Len(name) \in Nat
  BY LenProperties DEF QueryLine
<1>2. Len(QUERY) = 5 /\ \A j \in 1 .. 5 : QUERY[j] # Blank
  <2>1. \A j \in 1 .. 5 : j = 1 \/ j = 2 \/ j = 3 \/ j = 4 \/ j = 5
    OBVIOUS
  <2>2. /\ QUERY[1] = "q" /\ QUERY[2] = "u" /\ QUERY[3] = "e" /\ QUERY[4] = "r"
        /\ QUERY[5] = "y" /\ Len(QUERY) = 5
    BY DEF QUERY
  <2>3. "q" # Blank /\ "u" # Blank /\ "e" # Blank /\ "r" # Blank /\ "y" # Blank
    BY DEF Blank
  <2> QED BY <2>1, <2>2, <2>3
<1> HIDE DEF k, l, i
<1>3. k \in 0 .. Len(str) /\ k <= Len(str) /\ k > 0
  BY <1>1
<1>4. str[k + 1] = Blank /\ \A j \in 1 .. k : str[j] = QUERY[j] /\ str[j] # Blank
  <2>1. k + 1 = 6
    BY <1>1
  <2>2. str[6] = Blank /\ \A j \in 1 .. 5 : str[j] = QUERY[j]
    BY DEF QueryLine
  <2> QED BY <1>1, <1>2, <2>1, <2>2
<1>5. str_to_first_word(str) = QUERY
  <2>1. str_to_first_word(str) = SubSeq(str, 1, k)
    BY <1>1, <1>3, <1>4, WordFirst
  <2>2. Len(QUERY) = k
    BY <1>1, <1>2
  <2>3. SubSeq(str, 1, k) = QUERY
    BY <1>3, <1>4, <2>2, SameIs
  <2> QED BY <2>1, <2>3
<1>6. queried(str, q) = str_to_first_word(arg)
  <2>1. argument(str) = arg
    BY <1>1, <1>2, <1>5 DEF argument
  <2> HIDE DEF arg
  <2> QED BY <1>5, <2>1 DEF queried, cmd_query
<1>7. Suffix(A, str, i, k, l)
  BY <1>1, SuffixIs
<1>8. arg \in Seq(A) /\ Len(arg) = l /\ \A j \in 1 .. l : arg[j] = str[k + j]
  BY <1>7 DEF Suffix
<1> HIDE DEF arg
<1>9. arg[1] = Blank
  <2>1. 1 \in 1 .. l
    BY <1>1
  <2> QED BY <1>4, <1>8, <2>1
<1>10. CASE Len(name) = 0
  <2>1. \A j \in 1 .. Len(arg) : arg[j] = Blank
    <3>1. \A j \in 1 .. Len(arg) : j = 1
      BY <1>1, <1>8, <1>10
    <3> QED BY <1>9, <3>1
  <2>2. str_to_first_word(arg) = <<>>
    BY <1>8, <2>1, WordNone
  <2>3. name = <<>>
    BY <1>10, EmptySeq
  <2> QED BY <1>6, <2>2, <2>3
<1>11. CASE Len(name) = 1
  <2>1. arg[2] = name[1] /\ Len(arg) = 2
    <3>1. 2 \in 1 .. l /\ k + 2 = 6 + 1 /\ 1 \in 1 .. Len(name) /\ l = 2
      BY <1>1, <1>11
    <3>2. str[6 + 1] = name[1]
      BY <3>1 DEF QueryLine
    <3> QED BY <1>8, <3>1, <3>2
  <2>2. name[1] # Blank
    <3>1. 1 \in 1 .. Len(name)
      BY <1>11
    <3> QED BY <3>1 DEF Contains
  <2> DEFINE a == 1
             e == 2
  <2>3. /\ a \in Nat /\ e \in Nat /\ a < e /\ e <= Len(arg) /\ e = Len(arg) /\ a + 1 = e
        /\ e \in 1 .. Len(arg)
    BY <2>1
  <2>4. (\A j \in 1 .. a : arg[j] = Blank) /\ \A j \in a + 1 .. e : arg[j] # Blank
    <3>1. (\A j \in 1 .. 1 : j = 1) /\ \A j \in 2 .. 2 : j = 2
      OBVIOUS
    <3>2. 1 + 1 = 2
      OBVIOUS
    <3> QED BY <1>9, <2>1, <2>2, <3>1, <3>2
  <2>5. arg[e] = name[1]
    BY <2>1
  <2> HIDE DEF a, e
  <2>6. str_to_first_word(arg) = SubSeq(arg, a + 1, e)
    BY <1>8, <2>3, <2>4, WordIs
  <2>7. SubSeq(arg, e, e) = <<arg[e]>>
    BY <1>8, <2>3, OneIs
  <2>8. name = <<name[1]>>
    <3> DEFINE x == <<name[1]>>
    <3>1. name[1] \in A
      <4>1. 1 \in 1 .. Len(name)
        BY <1>11
      <4> QED BY <4>1, ElementOfSeq
    <3>2. x \in Seq(A) /\ Len(x) = 1 /\ x[1] = name[1]
      BY <3>1
    <3> HIDE DEF x
    <3>3. \A j \in 1 .. Len(name) : name[j] = x[j]
      <4>1. \A j \in 1 .. Len(name) : j = 1
        BY <1>11
      <4> QED BY <3>2, <4>1
    <3>4. name = x
      BY <1>11, <3>2, <3>3, SeqEqual
    <3> QED BY <3>4 DEF x
  <2> QED BY <1>6, <2>3, <2>5, <2>6, <2>7, <2>8
<1>12. Len(name) = 0 \/ Len(name) = 1
  <2> DEFINE n == Len(name)
  <2>1. n \in Nat /\ n <= 1
    BY <1>1
  <2> HIDE DEF n
  <2>2. n = 0 \/ n = 1
    BY <2>1
  <2> QED BY <2>2 DEF n
<1> QED
  BY <1>10, <1>11, <1>12

-----------------------------------------------------------------------------
(* What is written of a text, and what is read of one that was relayed.      *)

LEMMA HexLine == \A c \in Special : Hex[c] # "\n"
BY DEF Hex, Special

(* A newline only ends a line: none is left in an encoded text.              *)
LEMMA NoLine ==
  ASSUME NEW A, Symbol(A), NEW s \in Seq(A)
  PROVE  ns_url_encode(s) \in Seq(A) /\ ~Contains(ns_url_encode(s), "\n")
<1> DEFINE T == {r \in Seq(A) : ~Contains(ns_url_encode(r), "\n")}
<1>1. <<>> \in T
  BY EncodeNone, EmptySeq DEF Contains
<1>2. ASSUME NEW r \in Seq(A), r \in T, NEW c \in A PROVE Append(r, c) \in T
  <2> DEFINE e == ns_url_encode(r)
             x == IF c \in Special THEN Code(c) ELSE <<c>>
             v == Append(r, c)
  <2>1. e \in Seq(A) /\ ns_url_encode(v) = e \o x
    BY UrlEncodeMore
  <2>2. v \in Seq(A) /\ ~Contains(e, "\n")
    BY <1>2, AppendProperties
  <2>3. x \in Seq(A) /\ \A i \in 1 .. Len(x) : x[i] # "\n"
    <3>1. CASE c \in Special
      <4> DEFINE p == "%"
                 h == Hex[c]
      <4>1. p # "\n" /\ h # "\n" /\ p \in A /\ h \in A
        BY <3>1, HexLine DEF Symbol, Special
      <4>2. x = <<p, h>>
        BY <3>1 DEF Code
      <4> HIDE DEF p, h, x
      <4>3. <<p, h>> \in Seq(A) /\ \A i \in 1 .. Len(<<p, h>>) : <<p, h>>[i] # "\n"
        <5> DEFINE y == <<p, h>>
        <5>1. y \in Seq(A) /\ Len(y) = 2 /\ y[1] = p /\ y[2] = h
          BY <4>1
        <5>2. \A i \in 1 .. 2 : i = 1 \/ i = 2
          OBVIOUS
        <5> HIDE DEF y
        <5> QED BY <4>1, <5>1, <5>2 DEF y
      <4> QED BY <4>2, <4>3
    <3>2. CASE c \notin Special
      <4>1. c # "\n"
        BY <3>2 DEF Special
      <4>2. x = <<c>>
        BY <3>2
      <4> HIDE DEF x
      <4>3. x \in Seq(A) /\ Len(x) = 1 /\ x[1] = c
        BY <4>2
      <4>4. \A i \in 1 .. 1 : i = 1
        OBVIOUS
      <4> QED BY <4>1, <4>3, <4>4
    <3> QED BY <3>1, <3>2
  <2> HIDE DEF e, x, v
  <2>4. ~Contains(e \o x, "\n")
    <3> DEFINE y == e \o x
    <3>1. /\ y \in Seq(A) /\ Len(y) = Len(e) + Len(x)
          /\ \A i \in 1 .. Len(e) + Len(x) : y[i] = IF i <= Len(e) THEN e[i] ELSE x[i - Len(e)]
      BY <2>1, <2>3, ConcatProperties
    <3>2. Len(e) \in Nat /\ Len(x) \in Nat
      BY <2>1, <2>3, LenProperties
    <3> HIDE DEF y
    <3>3. \A i \in 1 .. Len(y) : y[i] # "\n"
      <4> TAKE i \in 1 .. Len(y)
      <4>1. i \in 1 .. Len(e) + Len(x)
        BY <3>1
      <4>2. CASE i <= Len(e)
        <5>1. y[i] = e[i] /\ i \in 1 .. Len(e)
          BY <3>1, <3>2, <4>1, <4>2
        <5> QED BY <2>2, <5>1 DEF Contains
      <4>3. CASE ~(i <= Len(e))
        <5>1. y[i] = x[i - Len(e)] /\ i - Len(e) \in 1 .. Len(x)
          BY <3>1, <3>2, <4>1, <4>3
        <5> QED BY <2>3, <5>1
      <4> QED BY <4>2, <4>3
    <3> QED BY <3>3 DEF Contains, y
  <2>5. v \in T
    BY <2>1, <2>2, <2>4
  <2> QED BY <2>5 DEF v
<1>3. Seq(A) \subseteq T
  <2> HIDE DEF T
  <2> QED BY <1>1, <1>2, SeqAll
<1>4. ns_url_encode(s) \in Seq(A)
  BY UrlEncodeMore DEF Symbol
<1> QED
  BY <1>3, <1>4

LEMMA EncodeIs ==
  ASSUME NEW A, Symbol(A), NEW s \in Seq(A)
  PROVE  ns_encode(s) \in Seq(A) /\ ~Contains(ns_encode(s), "\n")
<1> DEFINE b == ns_back_slash_encode(s)
<1>1. b \in Seq(A)
  BY BackEncodeMore DEF Symbol
<1> HIDE DEF b
<1>2. ns_url_encode(b) \in Seq(A) /\ ~Contains(ns_url_encode(b), "\n")
  BY <1>1, NoLine
<1> QED
  BY <1>2 DEF ns_encode, b

(* writebuffer: what is written ends by a newline only if all of it is.      *)
LEMMA CutIs ==
  ASSUME NEW A, Symbol(A), NEW s \in Seq(A), NEW bytes \in Cuts(Whole(s))
  PROVE  /\ bytes \in Seq(A) /\ bytes # <<>>
         /\ Len(bytes) <= LineMax
         /\ Last(bytes) = "\n" => bytes = Whole(s)
         /\ Last(bytes) # "\n" => ~(Len(Whole(s)) <= LineMax)
<1> DEFINE e == ns_encode(s)
           z == "\n"
           w == Append(e, z)
<1>1. e \in Seq(A) /\ ~Contains(e, z) /\ z \in A
  BY EncodeIs DEF Symbol, Special
<1>2. Whole(s) = w
  BY DEF Whole
<1> HIDE DEF e, z
<1>3. /\ w \in Seq(A) /\ Len(w) = Len(e) + 1 /\ w[Len(e) + 1] = z
      /\ \A i \in 1 .. Len(e) : w[i] = e[i]
  BY <1>1, AppendProperties
<1>4. Len(e) \in Nat /\ LineMax \in Nat \ {0}
  BY <1>1, LenProperties, LineAssumption
<1> HIDE DEF w
<1>5. CASE Len(w) <= LineMax
  <2>1. bytes = w /\ w # <<>> /\ Last(w) = z
    BY <1>2, <1>3, <1>4, <1>5, EmptySeq DEF Cuts, Last
  <2> QED BY <1>2, <1>3, <1>5, <2>1 DEF z
<1>6. CASE ~(Len(w) <= LineMax)
  <2> DEFINE n == LineMax
             x == SubSeq(w, 1, n)
             y == Append(SubSeq(w, 1, n - 1), Digit)
  <2>1. n \in 0 .. Len(w) /\ 1 <= n /\ n \in 1 .. Len(e) /\ n \in Nat
    BY <1>3, <1>4, <1>6
  <2>2. bytes \in {x, y}
    BY <1>2, <1>6 DEF Cuts
  <2> HIDE DEF n, y
  <2>3. x \in Seq(A) /\ Len(x) = n /\ x[n] = w[n]
    <3> DEFINE o == 1
    <3>1. /\ SubSeq(w, o, n) \in Seq(A)
          /\ Len(SubSeq(w, o, n)) = IF o <= n THEN n - o + 1 ELSE 0
          /\ \A k \in 1 .. n - o + 1 : SubSeq(w, o, n)[k] = w[o + k - 1]
      <4>1. o \in Nat \ {0}
        OBVIOUS
      <4> HIDE DEF o
      <4> QED BY <1>3, <2>1, <4>1, PartIs
    <3>2. n - o + 1 = n /\ o <= n /\ o + n - 1 = n /\ n \in 1 .. n
      BY <2>1
    <3> HIDE DEF x
    <3>3. SubSeq(w, o, n) = x
      BY DEF x
    <3> HIDE DEF o
    <3> QED BY <3>1, <3>2, <3>3
  <2>4. w[n] # z
    BY <1>1, <1>3, <2>1 DEF Contains
  <2>5. x # <<>> /\ Last(x) # z
    <3> HIDE DEF x
    <3> QED BY <2>1, <2>3, <2>4, EmptySeq DEF Last
  <2>6. y \in Seq(A) /\ Len(y) = n /\ y[n] = Digit
    <3> DEFINE v == SubSeq(w, 1, n - 1)
               m == n - 1
               o == 1
    <3>1. /\ SubSeq(w, o, m) \in Seq(A)
          /\ Len(SubSeq(w, o, m)) = IF o <= m THEN m - o + 1 ELSE 0
      <4>1. o \in Nat \ {0} /\ m \in 0 .. Len(w)
        BY <2>1
      <4> HIDE DEF o, m
      <4> QED BY <1>3, <4>1, PartIs
    <3>2. v = SubSeq(w, o, m)
      OBVIOUS
    <3>3. v \in Seq(A) /\ Len(v) = IF o <= m THEN m - o + 1 ELSE 0
      <4> HIDE DEF v, o, m
      <4> QED BY <3>1, <3>2
    <3>4. Len(v) = n - 1
      <4> HIDE DEF v
      <4> QED BY <2>1, <3>3
    <3>5. Digit \in A
      BY DEF Symbol
    <3>6. y = Append(v, Digit)
      BY DEF y
    <3> HIDE DEF v, m, o
    <3>7. /\ Append(v, Digit) \in Seq(A) /\ Len(Append(v, Digit)) = Len(v) + 1
          /\ Append(v, Digit)[Len(v) + 1] = Digit
      BY <3>3, <3>5, AppendProperties
    <3> QED BY <2>1, <3>4, <3>6, <3>7
  <2>7. y # <<>> /\ Last(y) # z
    <3>1. Digit # z
      BY DEF Digit, z
    <3> QED BY <2>1, <2>6, <3>1, EmptySeq DEF Last
  <2> HIDE DEF x
  <2> QED BY <1>2, <1>6, <2>1, <2>2, <2>3, <2>5, <2>6, <2>7 DEF n, z
<1> QED
  BY <1>5, <1>6

(* parse_user_cmd finds the dst= that the server put there.                  *)
LEMMA EndsIs ==
  ASSUME NEW B, Symbol(B), "dst" \in B, "me" \in B, NEW o \in Seq(B), Len(o) >= 1
  PROVE  Ends(o \o NoBlank) = {Len(o) + 1} /\ Len(o \o NoBlank) = Len(o) + 3
<1> DEFINE t == NoBlank
           r == o \o t
           n == Len(o)
<1>1. t \in Seq(B) /\ Len(t) = 3
  BY DstIs
<1>2. t[1] = "dst" /\ t[2] = "=" /\ t[3] = "me" /\ "=" # "dst"
  BY DEF NoBlank
<1> HIDE DEF t
<1>3. /\ r \in Seq(B) /\ Len(r) = Len(o) + Len(t)
      /\ \A i \in 1 .. Len(t) : r[Len(o) + i] = t[i]
  <2>1. t \in Seq(B)
    BY <1>1
  <2> QED BY <2>1, Joint
<1> HIDE DEF r
<1>4. n \in Nat /\ n >= 1 /\ Len(r) = n + 3
  BY <1>1, <1>3, LenProperties
<1>5. r[n + 1] = "dst" /\ r[n + 2] = "="
  <2>1. 1 \in 1 .. 3 /\ 2 \in 1 .. 3
    OBVIOUS
  <2> QED BY <1>1, <1>2, <1>3, <2>1
<1> HIDE DEF n
<1>6. n + 1 \in DstAt(r)
  <2>1. n + 1 \in 2 .. Len(r) - 1 /\ (n + 1) + 1 = n + 2
    BY <1>4
  <2> QED BY <1>5, <2>1 DEF DstAt
<1>7. \A i \in DstAt(r) : i <= n + 1 /\ i \in Nat
  <2> TAKE i \in DstAt(r)
  <2>1. i \in 2 .. Len(r) - 1 /\ r[i] = "dst"
    BY DEF DstAt
  <2>2. i # n + 2
    BY <1>2, <1>5, <2>1
  <2> QED BY <1>4, <2>1, <2>2
<1>8. Ends(r) = {n + 1}
  <2>1. \A i : i \in Ends(r) <=> i = n + 1
    <3> TAKE i
    <3>1. i \in Ends(r) <=> i \in DstAt(r) /\ \A j \in DstAt(r) : j <= i
      BY DEF Ends
    <3>2. i \in DstAt(r) /\ n + 1 <= i => i = n + 1
      BY <1>4, <1>7
    <3> QED BY <1>6, <1>7, <3>1, <3>2
  <2> QED BY <2>1
<1> QED
  BY <1>4, <1>8 DEF n, r, t

(* A message that nobody joined another to, as its reader gets it: the text  *)
(* if no backslash was typed, and an end of it in any case.                  *)
LEMMA ReadKept ==
  ASSUME NEW A, Symbol(A), "dst" \in A, "me" \in A, NEW s \in Seq(A),
         ~Contains(s, "\\")
  PROVE  \A x, i : x = ns_decode(ns_encode(s) \o Dst) /\ i \in Ends(x)
                     => SubSeq(x, 1, i - 2) = s
<1> DEFINE n == Len(s)
           b == " "
           o == Append(s, b)
           y == s \o Dst
           c == Dst
<1>1. ns_decode(ns_encode(s) \o Dst) = y
  BY ArrivesKept
<1>2. b \in A /\ y = o \o NoBlank /\ c \in Seq(A) /\ Len(c) = 4
  BY DstIs DEF Symbol, Special
<1> HIDE DEF b, c
<1>3. o \in Seq(A) /\ Len(o) = n + 1 /\ n \in Nat
  BY <1>2, AppendProperties, LenProperties
<1>4. s \o c \in Seq(A) /\ Len(s \o c) = n + Len(c) /\ \A i \in 1 .. n : (s \o c)[i] = s[i]
  <2>1. c \in Seq(A)
    BY <1>2
  <2> QED BY <2>1, Joint
<1>5. y = s \o c
  BY DEF c
<1> HIDE DEF o, y
<1>6. Ends(y) = {n + 2}
  <2>1. Len(o) >= 1 /\ Len(o) + 1 = n + 2
    BY <1>3
  <2>2. Ends(o \o NoBlank) = {Len(o) + 1}
    BY <1>3, <2>1, EndsIs
  <2> QED BY <1>2, <2>1, <2>2
<1> HIDE DEF n
<1>7. SubSeq(y, 1, n) = s
  <2>1. y \in Seq(A) /\ n \in 0 .. Len(y) /\ \A i \in 1 .. n : y[i] = s[i]
    BY <1>2, <1>3, <1>4, <1>5
  <2>2. Len(s) = n
    BY DEF n
  <2> QED BY <2>1, <2>2, SameIs
<1>8. (n + 2) - 2 = n
  BY <1>3
<1> QED
  BY <1>1, <1>6, <1>7, <1>8

LEMMA ReadEnded ==
  ASSUME NEW A, Symbol(A), "dst" \in A, "me" \in A, NEW s \in Seq(A)
  PROVE  \A x : x = ns_decode(ns_encode(s) \o Dst) => x # NULL /\ Ends(x) # {}
<1>0. PICK B : \E o \in Seq(B) : /\ A \subseteq B /\ Len(o) >= 1
                                 /\ ns_decode(ns_encode(s) \o Dst) = o \o NoBlank
  BY ArrivesEnded
<1>1. PICK o \in Seq(B) : /\ A \subseteq B /\ Len(o) >= 1
                          /\ ns_decode(ns_encode(s) \o Dst) = o \o NoBlank
  BY <1>0
<1>2. Symbol(B) /\ "dst" \in B /\ "me" \in B
  BY <1>1 DEF Symbol
<1>3. Ends(o \o NoBlank) = {Len(o) + 1} /\ Len(o \o NoBlank) = Len(o) + 3
  BY <1>1, <1>2, EndsIs
<1>4. Len(NULL) = 1 /\ Len(o) \in Nat
  BY LenProperties DEF NULL
<1> DEFINE y == o \o NoBlank
           z == ns_decode(ns_encode(s) \o Dst)
<1>5. z = y /\ Len(y) = Len(o) + 3 /\ Ends(y) = {Len(o) + 1}
  BY <1>1, <1>3
<1> HIDE DEF y, z
<1>6. z # NULL /\ Ends(z) # {}
  <2>1. Len(y) # 1
    BY <1>4, <1>5
  <2> QED BY <1>4, <1>5, <2>1
<1> QED
  BY <1>6 DEF z

-----------------------------------------------------------------------------
(* The inductive invariant.                                                  *)

Sym == Words \cup Special \cup {Hex[c] : c \in Special}
       \cup {Digit, "n", "m", "s", "g", "q", "u", "e", "r", "y", "dst", "me"}

Meant == [to : Client \cup {None}, text : Seq(Sym) \cup {None}, fits : BOOLEAN]

\* s is sent where text is what must be shown.
Sentence(s, text) == text = None \/ (text = s /\ ~Contains(s, "\\"))

\* A write that ends by a newline is all of a message.
GoodWrite(w) ==
  /\ w.meant.to = None \/ w.to = <<w.meant.to>>
  /\ w.bytes # <<>> /\ Len(w.bytes) <= LineMax
  /\ IF Ended(w)
     THEN \E s \in Seq(Sym) : w.bytes = Whole(s) /\ Sentence(s, w.meant.text)
     ELSE ~w.meant.fits

Write == {w \in [to : Seq(Sym), bytes : Seq(Sym), meant : Meant] : GoodWrite(w)}

\* What the server puts behind a message.
Behind == IF DST THEN <<" ", "dst", "=", "me">> ELSE <<>>

\* A message for d of which no other was made a part is a whole one.
GoodMessage(d, m) ==
  /\ m.from \in Client
  /\ m.meants \in Seq(Meant)
  /\ \A i \in 1 .. Len(m.meants) - 1 : ~m.meants[i].fits
  /\ Len(m.meants) = 1 =>
       /\ m.meants[1].to \in {d, None}
       /\ \E s \in Seq(Sym) : /\ m.text = ns_encode(s) \o Behind
                              /\ Sentence(s, m.meants[1].text)

GoodQuery(c) ==
  /\ query[c] \in Seq(Sym) /\ ~Contains(query[c], Blank)
  /\ chosen[c] = "nobody" => query[c] = <<>>
  /\ chosen[c] \in Client => query[c] = <<chosen[c]>>

Users ==
  /\ DOMAIN query = Client /\ chosen \in [Client -> Client \cup {None, "nobody"}]
  /\ status \in [Client -> {"actif"} \cup DOMAIN AutoMessage]
  /\ foes \in [Client -> {"none", "ignored", "answered"}]
  /\ \A c \in Client : GoodQuery(c)

Writes == wire \in [Client -> Seq(Write)]

Messages ==
  /\ DOMAIN down = Client /\ DOMAIN dead = Client
  /\ \A d \in Client : \E X : down[d] \in Seq(X) /\ \A m \in X : GoodMessage(d, m)
  /\ \A d \in Client : ~Runs(d) => down[d] = <<>>

Screens == RightPerson /\ LinesApart /\ (DST => TextKept /\ Survives)

IInv == Users /\ Writes /\ Messages /\ Screens

LEMMA SymIs ==
  /\ Symbol(Sym) /\ "dst" \in Sym /\ "me" \in Sym /\ Blank \in Sym /\ "m" \in Sym
  /\ "s" \in Sym /\ "g" \in Sym /\ Client \subseteq Sym /\ Text \subseteq Seq(Sym)
  /\ \A d \in Client : d # Blank
<1>1. Symbol(Sym) /\ Blank \in Sym
  BY DEF Symbol, Sym, Special, Blank
<1>2. Words \cup Special \subseteq Sym
  BY DEF Sym
<1>3. Text \subseteq Seq(Sym)
  <2> DEFINE W == Words \cup Special
  <2>1. Text = Seq(W) /\ W \subseteq Sym
    BY <1>2 DEF Text
  <2> HIDE DEF W
  <2> QED BY <2>1
<1>4. Client \subseteq Sym /\ \A d \in Client : d # Blank
  BY <1>2, ClientAssumption DEF Special, Blank
<1> QED
  BY <1>1, <1>3, <1>4 DEF Sym

LEMMA Typeable == IInv => TypeOK
<1> SUFFICES ASSUME IInv PROVE TypeOK
  OBVIOUS
<1>1. ASSUME NEW c \in Client, NEW i \in DOMAIN wire[c]
      PROVE  wire[c][i].bytes # <<>> /\ Len(wire[c][i].bytes) <= LineMax
  <2>1. wire[c] \in Seq(Write)
    BY DEF IInv, Writes
  <2>2. wire[c][i] \in Write
    BY <2>1, LenProperties, ElementOfSeq
  <2> QED BY <2>2 DEF Write, GoodWrite
<1>2. ASSUME NEW c \in Client, NEW i \in DOMAIN down[c] PROVE down[c][i].from \in Client
  <2>1. PICK X : down[c] \in Seq(X) /\ \A m \in X : GoodMessage(c, m)
    BY DEF IInv, Messages
  <2>2. down[c][i] \in X
    BY <2>1, LenProperties, ElementOfSeq
  <2> QED BY <2>1, <2>2 DEF GoodMessage
<1> QED
  BY <1>1, <1>2 DEF IInv, Users, Messages, TypeOK

LEMMA InitIs == Init => IInv
<1> SUFFICES ASSUME Init PROVE IInv
  OBVIOUS
<1>1. <<>> \in Seq(Sym) /\ <<>> \in Seq(Write) /\ Len(<<>>) = 0 /\ <<>> \in Seq({})
  BY EmptySeq
<1>2. Users
  <2>1. ~Contains(<<>>, Blank)
    BY <1>1 DEF Contains
  <2> QED BY <1>1, <2>1, ReplyAssumption, ClientAssumption DEF Init, Users, GoodQuery
<1>3. Writes
  BY <1>1 DEF Init, Writes
<1>4. Messages
  <2>1. \A d \in Client : down[d] = <<>> /\ dead[d] = <<>>
    BY DEF Init
  <2>2. \A d \in Client : \E X : down[d] \in Seq(X) /\ \A m \in X : GoodMessage(d, m)
    <3> TAKE d \in Client
    <3>1. down[d] \in Seq({}) /\ \A m \in {} : GoodMessage(d, m)
      BY <1>1, <2>1
    <3> QED BY <3>1
  <2> QED BY <2>1, <2>2 DEF Init, Messages, Runs
<1>5. Screens
  BY <1>1 DEF Init, Screens, RightPerson, LinesApart, TextKept, Survives, IsShown
<1> QED
  BY <1>2, <1>3, <1>4, <1>5 DEF IInv

(* A message written is a good one.                                          *)
LEMMA SaidIs ==
  ASSUME Writes, NEW c \in Client, NEW m, NEW to, NEW text, Said(c, m, to, text),
         m \in [to : Seq(Sym), text : Seq(Sym)],
         m # Nothing =>
           /\ to = None \/ (to \in Client /\ m.to = <<to>>)
           /\ Sentence(m.text, text)
  PROVE  Writes'
<1>1. CASE m = Nothing
  BY <1>1 DEF Said, Writes
<1>2. CASE m # Nothing
  <2> DEFINE e == [to |-> to, text |-> text, fits |-> Len(Whole(m.text)) <= LineMax]
  <2>0. PICK bytes \in Cuts(Whole(m.text)) :
          wire' = [wire EXCEPT ![c] = Append(wire[c], [to |-> m.to, bytes |-> bytes, meant |-> e])]
    BY <1>2 DEF Said
  <2> DEFINE w == [to |-> m.to, bytes |-> bytes, meant |-> e]
  <2>1. wire' = [wire EXCEPT ![c] = Append(wire[c], w)]
    BY <2>0
  <2>2. m.to \in Seq(Sym) /\ m.text \in Seq(Sym)
    OBVIOUS
  <2>3. /\ bytes \in Seq(Sym) /\ bytes # <<>>
        /\ Len(bytes) <= LineMax
        /\ Last(bytes) = "\n" => bytes = Whole(m.text)
        /\ Last(bytes) # "\n" => ~(Len(Whole(m.text)) <= LineMax)
    BY <2>0, <2>2, SymIs, CutIs
  <2>4. e \in Meant
    <3>1. (Len(Whole(m.text)) <= LineMax) \in BOOLEAN
      OBVIOUS
    <3>2. text \in Seq(Sym) \cup {None}
      BY <1>2, <2>2 DEF Sentence
    <3> QED BY <1>2, <3>1, <3>2 DEF Meant
  <2>5. w \in [to : Seq(Sym), bytes : Seq(Sym), meant : Meant]
    BY <2>2, <2>3, <2>4
  <2>6. GoodWrite(w)
    <3>1. w.meant.to = None \/ w.to = <<w.meant.to>>
      BY <1>2
    <3>2. CASE Ended(w)
      <4>1. w.bytes = Whole(m.text) /\ Sentence(m.text, w.meant.text)
        BY <1>2, <2>3, <3>2 DEF Ended
      <4> QED BY <2>2, <2>3, <3>1, <3>2, <4>1 DEF GoodWrite
    <3>3. CASE ~Ended(w)
      <4>1. ~w.meant.fits
        BY <2>3, <3>3 DEF Ended
      <4> QED BY <2>3, <3>1, <3>3, <4>1 DEF GoodWrite
    <3> QED BY <3>2, <3>3
  <2>7. w \in Write
    BY <2>5, <2>6 DEF Write
  <2> HIDE DEF w
  <2>8. Append(wire[c], w) \in Seq(Write)
    <3>1. wire[c] \in Seq(Write)
      BY DEF Writes
    <3> QED BY <2>7, <3>1, AppendProperties
  <2> QED BY <2>1, <2>8 DEF Writes
<1> QED
  BY <1>1, <1>2

LEMMA PlainIs == ASSUME NEW t PROVE Sentence(t, Plain(t))
BY DEF Sentence, Plain

LEMMA AnswerOK ==
  ASSUME Writes, NEW c \in Client, NEW to \in Client, NEW text \in Text,
         Answer(c, to, text)
  PROVE  Writes'
<1> DEFINE m == cmd_user_message(<<Blank, to, Blank>> \o text)
<1>1. /\ text \in Seq(Sym) /\ to \in Sym /\ to # Blank /\ Blank \in Sym
  BY SymIs
<1>2. m \in {Nothing, [to |-> <<to>>, text |-> text]}
  <2> DEFINE b == Blank
  <2>1. b \in Sym /\ b = Blank
    BY <1>1
  <2> HIDE DEF b
  <2>2. cmd_user_message(<<b, to, b>> \o text) \in {Nothing, [to |-> <<to>>, text |-> text]}
    BY <1>1, <2>1, AnswerIs
  <2> QED BY <2>1, <2>2
<1>3. Said(c, m, to, Plain(text))
  BY DEF Answer
<1> HIDE DEF m
<1>4. m \in [to : Seq(Sym), text : Seq(Sym)]
  <2>1. <<to>> \in Seq(Sym)
    BY <1>1
  <2>2. Nothing \in [to : Seq(Sym), text : Seq(Sym)]
    BY EmptySeq DEF Nothing
  <2> DEFINE u == <<to>>
  <2>3. u \in Seq(Sym) /\ m \in {Nothing, [to |-> u, text |-> text]}
    BY <1>2, <2>1
  <2> HIDE DEF u
  <2>4. [to |-> u, text |-> text] \in [to : Seq(Sym), text : Seq(Sym)]
    BY <1>1, <2>3
  <2> QED BY <2>2, <2>3, <2>4
<1>5. m # Nothing => (to \in Client /\ m.to = <<to>>) /\ Sentence(m.text, Plain(text))
  BY <1>2, PlainIs
<1> QED
  BY <1>3, <1>4, <1>5, SaidIs

-----------------------------------------------------------------------------
(* Every step.                                                               *)

LEMMA Dark ==
  ASSUME Screens, last' = None, DST => Survives'
  PROVE  Screens'
BY DEF Screens, RightPerson, LinesApart, TextKept, IsShown

LEMMA UsersStay ==
  ASSUME Users, UNCHANGED talkVars
  PROVE  Users'
BY DEF Users, GoodQuery, talkVars

LEMMA MessagesStay ==
  ASSUME Messages, UNCHANGED <<down, dead>>
  PROVE  Messages'
BY DEF Messages, Runs

(* Nothing happens but what the user does.                                   *)
LEMMA TypesIs ==
  ASSUME IInv, NEW c \in Client, Types(c)
  PROVE  Messages' /\ Screens'
<1>1. UNCHANGED <<down, dead>> /\ last' = None
  BY DEF Types
<1>2. Survives => Survives'
  BY <1>1 DEF Survives
<1>3. DST => Survives'
  BY <1>2 DEF IInv, Screens
<1> QED
  BY <1>1, <1>3, Dark, MessagesStay DEF IInv

LEMMA TypeMessageIs ==
  ASSUME IInv, NEW c \in Client, TypeMessage(c)
  PROVE  IInv'
<1>1. PICK l \in Typed[c] :
        Said(c, sent(Blanks(l.pre) \o MSG \o Blanks(l.mid) \o <<l.to>>
                     \o Blanks(l.gap) \o l.text, query[c]),
             IF l.pre = 0 THEN l.to ELSE None, IF l.pre = 0 THEN Kept(l) ELSE None)
  BY DEF TypeMessage
<1>2. /\ l.pre \in Nat /\ l.mid \in Nat \ {0} /\ l.gap \in Nat \ {0} /\ l.to \in Client
      /\ l.text \in Seq(Sym)
  <2>1. l \in [pre : Nat, mid : Nat \ {0}, to : Client, gap : Nat \ {0}, text : Text]
    BY TypedAssumption
  <2> QED BY <2>1, SymIs
<1>3. query[c] \in Seq(Sym)
  BY DEF IInv, Users, GoodQuery
<1> DEFINE str == Blanks(l.pre) \o MSG \o Blanks(l.mid) \o <<l.to>> \o Blanks(l.gap) \o l.text
           m == sent(str, query[c])
           to == IF l.pre = 0 THEN l.to ELSE None
           text == IF l.pre = 0 THEN Kept(l) ELSE None
<1>4. str \in Seq(Sym)
  <2> DEFINE a == Blanks(l.pre)
             b == Blanks(l.mid)
             d == Blanks(l.gap)
             e == <<l.to>>
             g == MSG
  <2>1. /\ a \in Seq(Sym) /\ b \in Seq(Sym) /\ d \in Seq(Sym) /\ e \in Seq(Sym)
        /\ g \in Seq(Sym)
    BY <1>2, SymIs, BlanksIs DEF MSG
  <2> HIDE DEF a, b, d, e, g
  <2>2. a \o g \o b \o e \o d \o l.text \in Seq(Sym)
    BY <1>2, <2>1
  <2> QED BY <2>2 DEF a, b, d, e, g
<1>5. m \in [to : Seq(Sym), text : Seq(Sym)]
  <2> HIDE DEF str
  <2> QED BY <1>3, <1>4, SymIs, SentType
<1>6. m # Nothing => /\ to = None \/ (to \in Client /\ m.to = <<to>>)
                     /\ Sentence(m.text, text)
  <2>1. CASE l.pre # 0
    BY <2>1 DEF Sentence
  <2>2. CASE l.pre = 0
    <3>1. /\ m # Nothing => m.to = <<l.to>>
          /\ l.mid = 1 /\ l.gap = 1 => m \in {Nothing, [to |-> <<l.to>>, text |-> l.text]}
      <4> DEFINE n == l.mid
                 g == l.gap
                 d == l.to
                 t == l.text
      <4>1. /\ n \in Nat \ {0} /\ g \in Nat \ {0} /\ d \in Sym /\ d # Blank /\ t \in Seq(Sym)
            /\ str = Blanks(0) \o MSG \o Blanks(n) \o <<d>> \o Blanks(g) \o t
        BY <1>2, <2>2, SymIs
      <4> HIDE DEF n, g, d, t, str
      <4> DEFINE r == Blanks(0) \o MSG \o Blanks(n) \o <<d>> \o Blanks(g) \o t
                 q == query[c]
      <4>2. /\ sent(r, q) # Nothing => sent(r, q).to = <<d>>
            /\ n = 1 /\ g = 1 => sent(r, q) \in {Nothing, [to |-> <<d>>, text |-> t]}
        <5> HIDE DEF q
        <5> QED BY <4>1, SymIs, TypedIs
      <4>3. r = str
        BY <4>1
      <4> HIDE DEF r
      <4> QED BY <4>2, <4>3 DEF n, g, d, t
    <3> HIDE DEF m
    <3>2. m # Nothing => Sentence(m.text, Kept(l))
      <4>1. CASE l.mid = 1 /\ l.gap = 1
        <5>1. m # Nothing => m.text = l.text
          BY <3>1, <4>1
        <5>2. Kept(l) = Plain(l.text)
          BY <4>1 DEF Kept
        <5> QED BY <5>1, <5>2, PlainIs
      <4>2. CASE ~(l.mid = 1 /\ l.gap = 1)
        BY <4>2 DEF Kept, Sentence
      <4> QED BY <4>1, <4>2
    <3> QED BY <1>2, <2>2, <3>1, <3>2
  <2> QED BY <2>1, <2>2
<1>7. Said(c, m, to, text)
  BY <1>1
<1> HIDE DEF m, to, text
<1>8. Writes'
  BY <1>5, <1>6, <1>7, SaidIs DEF IInv
<1>9. Types(c) /\ UNCHANGED talkVars
  BY DEF TypeMessage
<1> QED
  BY <1>8, <1>9, TypesIs, UsersStay DEF IInv

LEMMA TypeTextIs ==
  ASSUME IInv, NEW c \in Client, TypeText(c)
  PROVE  IInv'
<1>1. PICK l \in Typed[c] :
        /\ str_to_first_word(l.text) \notin {MSG, QUERY}
        /\ Said(c, sent(l.text, query[c]), chosen[c], Plain(l.text))
  BY DEF TypeText
<1> DEFINE t == l.text
           q == query[c]
           m == sent(t, q)
<1>2. t \in Seq(Sym)
  <2>1. l \in [pre : Nat, mid : Nat \ {0}, to : Client, gap : Nat \ {0}, text : Text]
    BY TypedAssumption
  <2> QED BY <2>1, SymIs
<1>3. /\ q \in Seq(Sym) /\ ~Contains(q, Blank)
      /\ chosen[c] = "nobody" => q = <<>>
      /\ chosen[c] \in Client => q = <<chosen[c]>>
      /\ chosen[c] \in Client \cup {None, "nobody"}
  BY DEF IInv, Users, GoodQuery
<1> HIDE DEF q, t
<1>4. m \in {Nothing, [to |-> q, text |-> t]} /\ (q = <<>> => m = Nothing)
  <2>1. str_to_first_word(t) \notin {MSG, QUERY}
    BY <1>1 DEF t
  <2> QED BY <1>2, <1>3, <2>1, SymIs, SentText
<1>5. m \in [to : Seq(Sym), text : Seq(Sym)]
  <2>1. Nothing \in [to : Seq(Sym), text : Seq(Sym)]
    BY EmptySeq DEF Nothing
  <2>2. [to |-> q, text |-> t] \in [to : Seq(Sym), text : Seq(Sym)]
    BY <1>2, <1>3
  <2> QED BY <1>4, <2>1, <2>2
<1>6. Said(c, m, chosen[c], Plain(t))
  BY <1>1 DEF t, q
<1> HIDE DEF m
<1>7. m # Nothing => /\ chosen[c] = None \/ (chosen[c] \in Client /\ m.to = <<chosen[c]>>)
                     /\ Sentence(m.text, Plain(t))
  BY <1>3, <1>4, PlainIs
<1>8. Writes'
  BY <1>5, <1>6, <1>7, SaidIs DEF IInv
<1>9. Types(c) /\ UNCHANGED talkVars
  BY DEF TypeText
<1> QED
  BY <1>8, <1>9, TypesIs, UsersStay DEF IInv

LEMMA TypeStateIs ==
  ASSUME IInv, NEW c \in Client, TypeState(c)
  PROVE  IInv'
<1>1. Types(c) /\ UNCHANGED <<query, chosen, foes, wire>>
  BY DEF TypeState
<1>2. status' \in [Client -> {"actif"} \cup DOMAIN AutoMessage]
  BY DEF TypeState, IInv, Users
<1>3. Users' /\ Writes'
  BY <1>1, <1>2 DEF IInv, Users, GoodQuery, Writes
<1> QED
  BY <1>1, <1>3, TypesIs DEF IInv

LEMMA NoQuery == <<>> \in Seq(Sym) /\ ~Contains(<<>>, Blank)
BY EmptySeq DEF Contains

LEMMA TypeReloadIs ==
  ASSUME IInv, NEW c \in Client, TypeReload(c)
  PROVE  IInv'
<1>1. /\ Types(c) /\ UNCHANGED <<status, foes, wire>>
      /\ query' = [query EXCEPT ![c] = <<>>] /\ chosen' = [chosen EXCEPT ![c] = "nobody"]
  BY DEF TypeReload
<1>2. /\ DOMAIN query' = Client /\ chosen' \in [Client -> Client \cup {None, "nobody"}]
      /\ query'[c] = <<>> /\ chosen'[c] = "nobody"
      /\ \A d \in Client \ {c} : query'[d] = query[d] /\ chosen'[d] = chosen[d]
  BY <1>1 DEF IInv, Users
<1>3. \A d \in Client : GoodQuery(d)'
  BY <1>2, NoQuery, ClientAssumption DEF IInv, Users, GoodQuery
<1>4. Users' /\ Writes'
  BY <1>1, <1>2, <1>3 DEF IInv, Users, Writes
<1> QED
  BY <1>1, <1>4, TypesIs DEF IInv

LEMMA TypedQueryIs ==
  ASSUME NEW q, NEW name \in Seq(Sym), Len(name) <= 1, ~Contains(name, Blank)
  PROVE  queried(Blanks(0) \o QUERY \o <<Blank>> \o name, q) = name
<1> DEFINE z == Blanks(0)
           Q == QUERY
           B == <<Blank>>
           a == Q \o B
           str == a \o name
<1>1. z = <<>> /\ B \in Seq(Sym) /\ Len(B) = 1 /\ B[1] = Blank
  BY SymIs, BlanksIs
<1>2. Q \in Seq(Sym)
  BY DEF QUERY, Sym
<1>3. Len(Q) = 5
  BY DEF QUERY
<1> HIDE DEF z, Q, B
<1>4. z \o Q \o B \o name = str
  <2>1. z \o Q = Q
    BY <1>1, <1>2, ConcatEmptySeq
  <2> QED BY <2>1
<1>5. /\ a \in Seq(Sym) /\ Len(a) = Len(Q) + Len(B)
      /\ \A i \in 1 .. Len(Q) : a[i] = Q[i]
      /\ \A i \in 1 .. Len(B) : a[Len(Q) + i] = B[i]
  <2>1. B \in Seq(Sym)
    BY <1>1
  <2> QED BY <1>2, <2>1, Joint
<1>6. a \in Seq(Sym)
  BY <1>5
<1> HIDE DEF a
<1>7. /\ str \in Seq(Sym) /\ Len(str) = Len(a) + Len(name)
      /\ \A i \in 1 .. Len(a) : str[i] = a[i]
      /\ \A i \in 1 .. Len(name) : str[Len(a) + i] = name[i]
  BY <1>6, Joint
<1>8. str \in Seq(Sym)
  BY <1>7
<1> HIDE DEF str
<1>9. Len(a) = 6
  BY <1>1, <1>3, <1>5
<1>10. \A i \in 1 .. 5 : str[i] = Q[i]
  <2> TAKE i \in 1 .. 5
  <2>1. i \in 1 .. Len(a) /\ i \in 1 .. Len(Q)
    BY <1>3, <1>9
  <2> QED BY <1>5, <1>7, <2>1
<1>11. str[6] = Blank
  <2>1. 6 \in 1 .. Len(a) /\ 1 \in 1 .. Len(B) /\ Len(Q) + 1 = 6
    BY <1>1, <1>3, <1>9
  <2> QED BY <1>1, <1>5, <1>7, <2>1
<1>12. QueryLine(str, name)
  BY <1>7, <1>9, <1>10, <1>11 DEF QueryLine, Q
<1>13. queried(str, q) = name
  BY <1>2, <1>8, <1>12, QueriedIs DEF Q
<1> QED
  BY <1>4, <1>13 DEF z, Q, B

LEMMA TypeQueryIs ==
  ASSUME IInv, NEW c \in Client, TypeQuery(c)
  PROVE  IInv'
<1>1. PICK q \in Queries[c] :
        /\ query' = [query EXCEPT ![c] =
                       queried(Blanks(q.pre) \o QUERY \o <<Blank>> \o q.name, @)]
        /\ chosen' = [chosen EXCEPT ![c] =
                        CASE q.pre # 0 -> None
                          [] q.pre = 0 /\ q.name = <<>> -> "nobody"
                          [] q.pre = 0 /\ q.name # <<>> -> Head(q.name)]
  BY DEF TypeQuery
<1> DEFINE name == q.name
           str == Blanks(q.pre) \o QUERY \o <<Blank>> \o q.name
           new == queried(str, query[c])
           who == CASE q.pre # 0 -> None
                    [] q.pre = 0 /\ q.name = <<>> -> "nobody"
                    [] q.pre = 0 /\ q.name # <<>> -> Head(q.name)
<1>2. q.pre \in Nat /\ q.name \in {<<>>} \cup {<<d>> : d \in Client}
  BY QueriesAssumption
<1>3. name \in Seq(Sym) /\ Len(name) <= 1 /\ ~Contains(name, Blank)
  <2>1. CASE name = <<>>
    BY <2>1, EmptySeq, NoQuery
  <2>2. CASE name # <<>>
    <3>1. PICK d \in Client : name = <<d>>
      BY <1>2, <2>2
    <3>2. d \in Sym /\ d # Blank
      BY SymIs
    <3> DEFINE x == <<d>>
    <3>3. x \in Seq(Sym) /\ Len(x) = 1 /\ x[1] = d
      BY <3>2
    <3> HIDE DEF x
    <3>4. ~Contains(x, Blank)
      <4>1. \A i \in 1 .. 1 : i = 1
        OBVIOUS
      <4> QED BY <3>2, <3>3, <4>1 DEF Contains
    <3> QED BY <3>1, <3>3, <3>4 DEF x
  <2> QED BY <2>1, <2>2
<1>4. query[c] \in Seq(Sym) /\ ~Contains(query[c], Blank)
  BY DEF IInv, Users, GoodQuery
<1>5. str \in Seq(Sym)
  <2> DEFINE a == Blanks(q.pre)
             b == QUERY
             d == <<Blank>>
             n == q.name
  <2>1. a \in Seq(Sym) /\ b \in Seq(Sym) /\ d \in Seq(Sym) /\ n \in Seq(Sym)
    BY <1>2, <1>3, SymIs, BlanksIs DEF QUERY, Sym
  <2> HIDE DEF a, b, d, n
  <2>2. a \o b \o d \o n \in Seq(Sym)
    BY <2>1
  <2> QED BY <2>2 DEF a, b, d, n
<1> HIDE DEF str
<1>6. new \in Seq(Sym) /\ ~Contains(new, Blank)
  BY <1>4, <1>5, QueriedType
<1>7. q.pre = 0 => new = name
  <2> HIDE DEF name
  <2>1. queried(Blanks(0) \o QUERY \o <<Blank>> \o name, query[c]) = name
    BY <1>3, TypedQueryIs
  <2> QED BY <2>1 DEF str, name
<1> HIDE DEF new
<1>8. /\ who \in Client \cup {None, "nobody"}
      /\ who = "nobody" => new = <<>>
      /\ who \in Client => new = <<who>>
  <2>1. CASE q.pre # 0
    <3>1. who = None
      BY <2>1
    <3> HIDE DEF who
    <3> QED BY <3>1, ClientAssumption
  <2>2. CASE q.pre = 0 /\ name = <<>>
    <3>1. who = "nobody"
      BY <2>2
    <3> HIDE DEF who
    <3> QED BY <1>7, <2>2, <3>1, ClientAssumption
  <2>3. CASE q.pre = 0 /\ name # <<>>
    <3>1. PICK d \in Client : name = <<d>>
      BY <1>2, <2>3
    <3>2. who = d
      BY <2>3, <3>1
    <3> HIDE DEF who
    <3> QED BY <1>7, <2>3, <3>1, <3>2, ClientAssumption
  <2> QED BY <2>1, <2>2, <2>3
<1>9. query' = [query EXCEPT ![c] = new] /\ chosen' = [chosen EXCEPT ![c] = who]
  BY <1>1 DEF new, str
<1> HIDE DEF who
<1>10. /\ DOMAIN query' = Client /\ chosen' \in [Client -> Client \cup {None, "nobody"}]
       /\ query'[c] = new /\ chosen'[c] = who
       /\ \A d \in Client \ {c} : query'[d] = query[d] /\ chosen'[d] = chosen[d]
  BY <1>8, <1>9 DEF IInv, Users
<1>11. \A d \in Client : GoodQuery(d)'
  BY <1>6, <1>8, <1>10 DEF IInv, Users, GoodQuery
<1>12. Types(c) /\ UNCHANGED <<status, foes, wire>>
  BY DEF TypeQuery
<1>13. Users' /\ Writes'
  BY <1>10, <1>11, <1>12 DEF IInv, Users, Writes
<1> QED
  BY <1>12, <1>13, TypesIs DEF IInv

(* The server is given one write: nothing is joined to it.                   *)
LEMMA JoinedOne ==
  ASSUME NEW A, NEW ws \in Seq(A), Len(ws) = 1
  PROVE  Joined(ws) = ws[1].bytes
<1> DEFINE b == Head(ws).bytes
           t == Tail(ws)
           op(s, w) == s \o <<"user_cmd">> \o w.bytes
           Q(it) == it = [r \in SUBSET {} |-> IF r = {} THEN b
                            ELSE op(it[r \ {Max(r)}], t[Max(r)])]
           c == CHOOSE it : Q(it)
           g == [r \in SUBSET {} |-> b]
<1>1. ws # <<>> /\ Head(ws) = ws[1]
  BY EmptySeq
<1>2. t \in Seq(A) /\ Len(t) = 0
  BY <1>1, HeadTailProperties
<1>3. DOMAIN t = {}
  <2> HIDE DEF t
  <2> QED BY <1>2, LenProperties
<1>4. Q(g)
  <2>1. \A r \in SUBSET {} : r = {}
    OBVIOUS
  <2> QED BY <2>1
<1>5. Q(c)
  <2> HIDE DEF Q
  <2> QED BY <1>4
<1>6. c[{}] = b
  <2> HIDE DEF c, b
  <2> DEFINE h == [r \in SUBSET {} |-> IF r = {} THEN b
                            ELSE op(c[r \ {Max(r)}], t[Max(r)])]
  <2>1. c = h
    BY <1>5
  <2>2. h[{}] = b
    OBVIOUS
  <2> HIDE DEF h
  <2> QED BY <2>1, <2>2
<1>7. Joined(ws) = c[{}]
  BY <1>3 DEF Joined, FoldLeft, MapThenFoldSet
<1> QED
  BY <1>1, <1>6, <1>7

LEMMA FrontIs ==
  ASSUME NEW A, NEW s \in Seq(A), NEW c \in A
  PROVE  Front(Append(s, c)) = s
<1> DEFINE n == Len(s)
           x == Append(s, c)
<1>1. x \in Seq(A) /\ Len(x) = n + 1 /\ n \in Nat /\ \A i \in 1 .. n : x[i] = s[i]
  BY AppendProperties, LenProperties
<1> HIDE DEF x
<1>2. Front(x) = SubSeq(x, 1, n)
  <2>1. Len(x) - 1 = n
    BY <1>1
  <2> QED BY <2>1 DEF Front
<1>3. Len(s) = n
  OBVIOUS
<1> HIDE DEF n
<1>4. n \in 0 .. Len(x)
  BY <1>1
<1>5. SubSeq(x, 1, n) = s
  BY <1>1, <1>3, <1>4, SameIs
<1> QED
  BY <1>2, <1>5 DEF x

(* What the server relays is a good message for the one whose name leads it. *)
LEMMA RelayedIs ==
  ASSUME NEW c \in Client, NEW d \in Client, NEW ws \in Seq(Write), ws # <<>>,
         <<d>> = ws[1].to, Ended(ws[Len(ws)]),
         \A i \in 1 .. Len(ws) - 1 : ~Ended(ws[i])
  PROVE  GoodMessage(d, Relayed(c, ws))
<1> DEFINE n == Len(ws)
           ms == [i \in DOMAIN ws |-> ws[i].meant]
           m == Relayed(c, ws)
<1>1. n \in Nat /\ n > 0 /\ DOMAIN ws = 1 .. n /\ \A i \in 1 .. n : ws[i] \in Write
  BY LenProperties, EmptySeq, ElementOfSeq
<1>2. m.from = c /\ m.meants = ms
  BY DEF Relayed
<1>3. ms \in Seq(Meant) /\ Len(ms) = n /\ \A i \in 1 .. n : ms[i] = ws[i].meant
  <2>1. \A i \in 1 .. n : ws[i].meant \in Meant
    BY <1>1 DEF Write
  <2>2. ms = [i \in 1 .. n |-> ws[i].meant]
    BY <1>1
  <2> HIDE DEF n, ms
  <2> QED BY <1>1, <2>1, <2>2
<1> HIDE DEF ms
<1>4. \A i \in 1 .. n - 1 : ~ms[i].fits
  <2> TAKE i \in 1 .. n - 1
  <2>1. i \in 1 .. n /\ ~Ended(ws[i])
    BY <1>1
  <2>2. ~ws[i].meant.fits
    BY <1>1, <2>1 DEF Write, GoodWrite
  <2> QED BY <1>3, <2>1, <2>2
<1>5. ASSUME n = 1
      PROVE  /\ ms[1].to \in {d, None}
             /\ \E s \in Seq(Sym) : m.text = ns_encode(s) \o Behind /\ Sentence(s, ms[1].text)
  <2> DEFINE w == ws[1]
  <2>1. w \in Write /\ Ended(w) /\ ms[1] = w.meant /\ <<d>> = w.to
    BY <1>1, <1>3, <1>5
  <2> HIDE DEF w
  <2>2. w.meant.to \in {d, None}
    BY <2>1 DEF Write, GoodWrite
  <2>3. PICK s \in Seq(Sym) : w.bytes = Whole(s) /\ Sentence(s, w.meant.text)
    BY <2>1 DEF Write, GoodWrite
  <2>4. m.text = Front(Joined(ws)) \o Behind
    BY DEF Relayed, Behind
  <2>5. Joined(ws) = Whole(s)
    BY <1>5, <2>3, JoinedOne DEF w
  <2>6. Front(Whole(s)) = ns_encode(s)
    <3> DEFINE e == ns_encode(s)
               z == "\n"
    <3>1. e \in Seq(Sym) /\ z \in Sym
      BY SymIs, EncodeIs DEF Symbol, Special
    <3> HIDE DEF e, z
    <3>2. Front(Append(e, z)) = e
      BY <3>1, FrontIs
    <3> QED BY <3>2 DEF Whole, e, z
  <2> QED BY <2>1, <2>2, <2>3, <2>4, <2>5, <2>6
<1> HIDE DEF m
<1> QED
  BY <1>2, <1>3, <1>4, <1>5 DEF GoodMessage, m

LEMMA Inbox ==
  ASSUME NEW d, NEW q, \E X : q \in Seq(X) /\ \A m \in X : GoodMessage(d, m)
  PROVE  /\ \A n : GoodMessage(d, n) =>
              \E X : Append(q, n) \in Seq(X) /\ \A m \in X : GoodMessage(d, m)
         /\ q # <<>> =>
              /\ GoodMessage(d, Head(q))
              /\ \E X : Tail(q) \in Seq(X) /\ \A m \in X : GoodMessage(d, m)
         /\ \E X : <<>> \in Seq(X) /\ \A m \in X : GoodMessage(d, m)
<1>1. PICK X : q \in Seq(X) /\ \A m \in X : GoodMessage(d, m)
  OBVIOUS
<1>2. ASSUME NEW n, GoodMessage(d, n)
      PROVE  \E Y : Append(q, n) \in Seq(Y) /\ \A m \in Y : GoodMessage(d, m)
  <2> DEFINE Y == X \cup {n}
  <2>1. q \in Seq(Y) /\ n \in Y
    BY <1>1
  <2>2. \A m \in Y : GoodMessage(d, m)
    BY <1>1, <1>2
  <2> HIDE DEF Y
  <2>3. Append(q, n) \in Seq(Y)
    BY <2>1, AppendProperties
  <2> QED BY <2>2, <2>3
<1>3. q # <<>> => Head(q) \in X /\ Tail(q) \in Seq(X)
  BY <1>1, HeadTailProperties
<1>4. \E Y : <<>> \in Seq(Y) /\ \A m \in Y : GoodMessage(d, m)
  BY <1>1, EmptySeq
<1> QED
  BY <1>1, <1>2, <1>3, <1>4

LEMMA ServerIs ==
  ASSUME IInv, NEW c \in Client, Server(c)
  PROVE  IInv'
<1> DEFINE q == wire[c]
           n == Min(Lines(c))
           ws == SubSeq(q, 1, n)
           msg == Relayed(c, ws)
<1>1. q \in Seq(Write) /\ Len(q) \in Nat /\ DOMAIN q = 1 .. Len(q)
  BY LenProperties DEF IInv, Writes
<1>2. /\ n \in 1 .. Len(q) /\ Ended(q[n])
      /\ \A i \in 1 .. n - 1 : ~Ended(q[i])
  <2> DEFINE I == Lines(c)
  <2>1. I = {i \in 1 .. Len(q) : Ended(q[i])}
    BY <1>1 DEF Lines
  <2>2. I # {}
    BY DEF Server
  <2> HIDE DEF q, I
  <2>3. I \in SUBSET Nat
    BY <2>1
  <2>4. Min(I) \in I /\ \A y \in I : Min(I) <= y
    BY <2>2, <2>3, MinIs
  <2> DEFINE k == Min(I)
  <2>5. k \in 1 .. Len(q) /\ Ended(q[k])
    BY <2>1, <2>4
  <2>6. \A y \in I : k <= y
    BY <2>4
  <2> HIDE DEF k
  <2>7. ASSUME NEW i \in 1 .. k - 1 PROVE ~Ended(q[i])
    <3>1. i \in 1 .. Len(q) /\ ~(k <= i)
      BY <1>1, <2>5
    <3> QED BY <2>1, <2>6, <3>1
  <2> QED BY <2>5, <2>7 DEF k, I
<1>3. /\ wire' = [wire EXCEPT ![c] = SubSeq(q, n + 1, Len(q))]
      /\ down' = [d \in Client |-> IF <<d>> = Head(q).to /\ Runs(d)
                                   THEN Append(down[d], msg) ELSE down[d]]
      /\ last' = None /\ UNCHANGED <<talkVars, dead>>
  BY DEF Server, Takes
<1> HIDE DEF n
<1>4. /\ ws \in Seq(Write) /\ Len(ws) = n /\ \A i \in 1 .. n : ws[i] = q[i]
  <2> DEFINE o == 1
  <2>1. o \in Nat \ {0} /\ n \in 0 .. Len(q) /\ n - o + 1 = n /\ o <= n
    BY <1>1, <1>2
  <2>2. \A i \in 1 .. n : o + i - 1 = i
    BY <1>2
  <2> HIDE DEF o, q
  <2>3. /\ SubSeq(q, o, n) \in Seq(Write)
        /\ Len(SubSeq(q, o, n)) = IF o <= n THEN n - o + 1 ELSE 0
        /\ \A k \in 1 .. n - o + 1 : SubSeq(q, o, n)[k] = q[o + k - 1]
    BY <1>1, <2>1, PartIs
  <2> DEFINE x == SubSeq(q, o, n)
  <2>4. x \in Seq(Write) /\ Len(x) = n /\ \A i \in 1 .. n : x[i] = q[i]
    <3>1. x \in Seq(Write) /\ Len(x) = n
      BY <2>1, <2>3
    <3>2. \A i \in 1 .. n : x[i] = q[o + i - 1]
      BY <2>1, <2>3
    <3> HIDE DEF x
    <3> QED BY <2>2, <3>1, <3>2
  <2> QED BY <2>4 DEF o
<1>5. Writes'
  <2> DEFINE k == n + 1
             l == Len(q)
  <2>1. k \in Nat \ {0} /\ l \in 0 .. Len(q)
    BY <1>1, <1>2
  <2> HIDE DEF k, l
  <2>2. SubSeq(q, k, l) \in Seq(Write)
    BY <1>1, <2>1, PartIs
  <2>3. SubSeq(q, n + 1, Len(q)) \in Seq(Write)
    BY <2>2 DEF k, l
  <2> DEFINE r == SubSeq(q, n + 1, Len(q))
  <2>4. wire' = [wire EXCEPT ![c] = r] /\ r \in Seq(Write)
    BY <1>3, <2>3
  <2> HIDE DEF r
  <2> QED BY <2>4 DEF IInv, Writes
<1>6. ASSUME NEW d \in Client, <<d>> = Head(q).to PROVE GoodMessage(d, msg)
  <2>1. Head(q) = ws[1] /\ ws # <<>>
    <3>1. q # <<>> /\ 1 \in 1 .. n
      BY <1>1, <1>2, EmptySeq
    <3>2. Head(q) = q[1]
      BY <1>1, <3>1
    <3> HIDE DEF q, ws
    <3> QED BY <1>2, <1>4, <3>1, <3>2, EmptySeq
  <2>2. <<d>> = ws[1].to
    BY <1>6, <2>1
  <2>3. Ended(ws[Len(ws)])
    <3>1. n \in 1 .. n
      BY <1>2
    <3> HIDE DEF ws, q
    <3> QED BY <1>2, <1>4, <3>1
  <2>4. \A i \in 1 .. Len(ws) - 1 : ~Ended(ws[i])
    <3> HIDE DEF ws, q
    <3>1. \A i \in 1 .. n - 1 : i \in 1 .. n
      BY <1>2
    <3> QED BY <1>2, <1>4, <3>1
  <2>5. ws \in Seq(Write)
    BY <1>4
  <2> HIDE DEF ws
  <2> QED BY <2>1, <2>2, <2>3, <2>4, <2>5, RelayedIs
<1> HIDE DEF msg, q
<1>7. Messages'
  <2>1. ASSUME NEW d \in Client
        PROVE  /\ \E X : down'[d] \in Seq(X) /\ \A m \in X : GoodMessage(d, m)
               /\ ~Runs(d) => down'[d] = <<>>
    <3>1. /\ \E X : down[d] \in Seq(X) /\ \A m \in X : GoodMessage(d, m)
          /\ ~Runs(d) => down[d] = <<>>
      BY DEF IInv, Messages
    <3>2. CASE <<d>> = Head(q).to /\ Runs(d)
      <4>1. down'[d] = Append(down[d], msg) /\ GoodMessage(d, msg)
        BY <1>3, <1>6, <3>2
      <4> QED BY <3>1, <3>2, <4>1, Inbox
    <3>3. CASE ~(<<d>> = Head(q).to /\ Runs(d))
      <4>1. down'[d] = down[d]
        BY <1>3, <3>3
      <4> QED BY <3>1, <4>1
    <3> QED BY <3>2, <3>3
  <2>2. \A d \in Client : Runs(d)' <=> Runs(d)
    BY <1>3 DEF Runs
  <2>3. DOMAIN down' = Client /\ DOMAIN dead' = Client
    BY <1>3 DEF IInv, Messages
  <2> QED BY <2>1, <2>2, <2>3 DEF Messages
<1>8. Screens'
  <2>1. Survives => Survives'
    BY <1>3 DEF Survives
  <2> QED BY <1>3, <2>1, Dark DEF IInv, Screens
<1> QED
  BY <1>3, <1>5, <1>7, <1>8, UsersStay DEF IInv

LEMMA ReadsIs ==
  ASSUME IInv, NEW c \in Client, NEW rest, Reads(c, rest),
         rest \in {Tail(down[c]), <<>>}, DOMAIN dead' = Client,
         \A d \in Client \ {c} : dead'[d] = dead[d],
         dead'[c] = dead[c] \/ rest = <<>>
  PROVE  Messages' /\ GoodMessage(c, Head(down[c]))
<1>1. down' = [down EXCEPT ![c] = rest] /\ down[c] # <<>> /\ Runs(c)
  BY DEF Reads
<1>2. \E X : down[c] \in Seq(X) /\ \A m \in X : GoodMessage(c, m)
  BY DEF IInv, Messages
<1>3. /\ GoodMessage(c, Head(down[c]))
      /\ \E X : rest \in Seq(X) /\ \A m \in X : GoodMessage(c, m)
  BY <1>1, <1>2, Inbox
<1>4. /\ DOMAIN down' = Client /\ down'[c] = rest
      /\ \A d \in Client \ {c} : down'[d] = down[d]
  BY <1>1 DEF IInv, Messages
<1>5. \A d \in Client : \E X : down'[d] \in Seq(X) /\ \A m \in X : GoodMessage(d, m)
  <2> TAKE d \in Client
  <2>1. CASE d = c
    BY <1>3, <1>4, <2>1
  <2>2. CASE d # c
    BY <1>4, <2>2 DEF IInv, Messages
  <2> QED BY <2>1, <2>2
<1>6. \A d \in Client : dead'[d] # <<>> => down'[d] = <<>>
  BY <1>1, <1>4 DEF IInv, Messages, Runs
<1> QED
  BY <1>3, <1>4, <1>5, <1>6 DEF Messages, Runs

LEMMA IgnoredIs ==
  ASSUME IInv, NEW c \in Client, Ignored(c)
  PROVE  IInv'
<1> DEFINE from == Head(down[c]).from
<1>1. /\ Reads(c, Tail(down[c])) /\ last' = None /\ UNCHANGED <<talkVars, dead>>
      /\ IF foes[c] = "answered" THEN Answer(c, from, Foe) ELSE UNCHANGED wire
  BY DEF Ignored
<1>2. DOMAIN dead = Client
  BY DEF IInv, Messages
<1>3. Messages' /\ GoodMessage(c, Head(down[c]))
  BY <1>1, <1>2, ReadsIs
<1>4. from \in Client
  BY <1>3 DEF GoodMessage
<1> HIDE DEF from
<1>5. Writes'
  <2>1. CASE foes[c] = "answered"
    BY <1>1, <1>4, <2>1, AnswerOK, ReplyAssumption DEF IInv
  <2>2. CASE foes[c] # "answered"
    BY <1>1, <2>2 DEF IInv, Writes
  <2> QED BY <2>1, <2>2
<1>6. Screens'
  <2>1. Survives => Survives'
    BY <1>1 DEF Survives
  <2> QED BY <1>1, <2>1, Dark DEF IInv, Screens
<1> QED
  BY <1>1, <1>3, <1>5, <1>6, UsersStay DEF IInv

LEMMA OverrunsIs ==
  ASSUME IInv, NEW c \in Client, Overruns(c)
  PROVE  IInv'
<1> DEFINE from == Head(down[c]).from
<1>1. /\ Reads(c, <<>>) /\ last' = None /\ UNCHANGED talkVars
      /\ UNCHANGED wire \/ Answer(c, from, Foe)
      /\ dead' = [dead EXCEPT ![c] = Overrun]
  BY DEF Overruns
<1>2. /\ DOMAIN dead' = Client /\ dead'[c] = Overrun
      /\ \A e \in Client \ {c} : dead'[e] = dead[e]
  BY <1>1 DEF IInv, Messages
<1>3. Messages' /\ GoodMessage(c, Head(down[c]))
  BY <1>1, <1>2, ReadsIs
<1>4. from \in Client
  BY <1>3 DEF GoodMessage
<1> HIDE DEF from
<1>5. Writes'
  <2>1. CASE Answer(c, from, Foe)
    BY <1>4, <2>1, AnswerOK, ReplyAssumption DEF IInv
  <2>2. CASE UNCHANGED wire
    BY <2>2 DEF IInv, Writes
  <2> QED BY <1>1, <2>1, <2>2
<1>6. DST => Survives'
  BY <1>2 DEF IInv, Screens, Survives
<1> QED
  BY <1>1, <1>3, <1>5, <1>6, Dark, UsersStay DEF IInv

LEMMA ShowsIs ==
  ASSUME IInv, NEW c \in Client, Shows(c)
  PROVE  IInv'
<1> DEFINE d == Head(down[c])
<1>1. /\ Reads(c, Tail(down[c])) /\ UNCHANGED <<talkVars, dead>>
      /\ AutoReply(c, d.from)
      /\ \E s \in {ns_decode(d.text)} \ {NULL} : \E i \in Ends(s) :
            last' = [by |-> c, text |-> Shown(SubSeq(s, 1, i - 2)), meants |-> d.meants]
  BY DEF Shows
<1>2. DOMAIN dead = Client
  BY DEF IInv, Messages
<1>3. Messages' /\ GoodMessage(c, d)
  BY <1>1, <1>2, ReadsIs
<1> HIDE DEF d
<1>4. Writes'
  <2>1. CASE AutoText(c) # None
    <3>1. AutoText(c) \in Text
      BY <2>1, ReplyAssumption DEF AutoText
    <3>2. Answer(c, d.from, AutoText(c)) /\ d.from \in Client /\ Writes
      BY <1>1, <1>3, <2>1 DEF IInv, AutoReply, GoodMessage
    <3> QED BY <3>1, <3>2, AnswerOK
  <2>2. CASE AutoText(c) = None
    BY <1>1, <2>2 DEF IInv, Writes, AutoReply
  <2> QED BY <2>1, <2>2
<1>5. PICK x, i : /\ x = ns_decode(d.text) /\ i \in Ends(x)
                  /\ last' = [by |-> c, text |-> Shown(SubSeq(x, 1, i - 2)), meants |-> d.meants]
  BY <1>1
<1>6. last'.by = c /\ last'.text = Shown(SubSeq(x, 1, i - 2)) /\ last'.meants = d.meants
  BY <1>5
<1>7. Len(d.meants) = 1 => Head(d.meants) = d.meants[1]
  <2>1. d.meants \in Seq(Meant)
    BY <1>3 DEF GoodMessage
  <2> QED BY <2>1, EmptySeq
<1>8. RightPerson' /\ LinesApart'
  BY <1>3, <1>6, <1>7 DEF RightPerson, LinesApart, GoodMessage
<1>9. ASSUME DST PROVE TextKept'
  <2> SUFFICES ASSUME Len(d.meants) = 1
               PROVE  d.meants[1].text \in {SubSeq(x, 1, i - 2), None}
    BY <1>6, <1>7 DEF TextKept
  <2>1. PICK s \in Seq(Sym) : /\ d.text = ns_encode(s) \o Behind
                              /\ Sentence(s, d.meants[1].text)
    BY <1>3 DEF GoodMessage
  <2>2. d.text = ns_encode(s) \o Dst
    BY <1>9, <2>1 DEF Behind, Dst
  <2>3. CASE ~Contains(s, "\\")
    <3>1. SubSeq(x, 1, i - 2) = s
      BY <1>5, <2>2, <2>3, SymIs, ReadKept
    <3> QED BY <2>1, <3>1 DEF Sentence
  <2>4. CASE Contains(s, "\\")
    BY <2>1, <2>4 DEF Sentence
  <2> QED BY <2>3, <2>4
<1>10. Survives => Survives'
  BY <1>1 DEF Survives
<1>11. Screens'
  BY <1>8, <1>9, <1>10 DEF IInv, Screens
<1> QED
  BY <1>1, <1>3, <1>4, <1>11, UsersStay DEF IInv

LEMMA DiesIs ==
  ASSUME IInv, NEW c \in Client, Dies(c)
  PROVE  IInv'
<1> DEFINE d == Head(down[c])
<1>1. /\ Reads(c, <<>>) /\ last' = None /\ UNCHANGED <<talkVars, wire>>
      /\ \E s \in {ns_decode(d.text)} : s = NULL \/ Ends(s) = {}
      /\ dead' = [dead EXCEPT ![c] = d.meants]
  BY DEF Dies
<1>2. /\ DOMAIN dead' = Client /\ dead'[c] = d.meants
      /\ \A e \in Client \ {c} : dead'[e] = dead[e]
  BY <1>1 DEF IInv, Messages
<1>3. Messages' /\ GoodMessage(c, d)
  BY <1>1, <1>2, ReadsIs
<1> HIDE DEF d
<1>4. ASSUME DST PROVE Len(d.meants) # 1
  <2> SUFFICES ASSUME Len(d.meants) = 1 PROVE FALSE
    OBVIOUS
  <2>1. PICK s \in Seq(Sym) : d.text = ns_encode(s) \o Behind
    BY <1>3 DEF GoodMessage
  <2>2. d.text = ns_encode(s) \o Dst
    BY <1>4, <2>1 DEF Behind, Dst
  <2> QED BY <1>1, <2>2, SymIs, ReadEnded
<1>5. DST => Survives'
  BY <1>2, <1>4 DEF IInv, Screens, Survives
<1>6. Users' /\ Writes' /\ Screens'
  BY <1>1, <1>5, Dark, UsersStay DEF IInv, Writes
<1> QED
  BY <1>3, <1>6 DEF IInv

LEMMA StartIs ==
  ASSUME IInv, NEW c \in Client, Start(c)
  PROVE  IInv'
<1>1. /\ ~Runs(c) /\ last' = None /\ UNCHANGED <<foes, down>>
      /\ dead' = [dead EXCEPT ![c] = <<>>] /\ query' = [query EXCEPT ![c] = <<>>]
      /\ chosen' = [chosen EXCEPT ![c] = "nobody"]
      /\ status' = [status EXCEPT ![c] = "actif"]
      /\ wire' = [wire EXCEPT ![c] = <<>>]
  BY DEF Start
<1>2. /\ DOMAIN query' = Client /\ chosen' \in [Client -> Client \cup {None, "nobody"}]
      /\ status' \in [Client -> {"actif"} \cup DOMAIN AutoMessage]
      /\ query'[c] = <<>> /\ chosen'[c] = "nobody"
      /\ \A d \in Client \ {c} : query'[d] = query[d] /\ chosen'[d] = chosen[d]
  BY <1>1 DEF IInv, Users
<1>3. \A d \in Client : GoodQuery(d)'
  BY <1>2, NoQuery, ClientAssumption, ZenonT(40) DEF IInv, Users, GoodQuery
<1>4. Users'
  BY <1>1, <1>2, <1>3 DEF IInv, Users
<1>5. Writes'
  BY <1>1, EmptySeq DEF IInv, Writes
<1>6. /\ DOMAIN dead' = Client /\ dead'[c] = <<>>
      /\ \A d \in Client \ {c} : dead'[d] = dead[d]
  BY <1>1 DEF IInv, Messages
<1>7. Messages'
  BY <1>1, <1>6 DEF IInv, Messages, Runs
<1>8. Survives => Survives'
  BY <1>6, EmptySeq DEF Survives
<1>9. Screens'
  BY <1>1, <1>8, Dark DEF IInv, Screens
<1> QED
  BY <1>4, <1>5, <1>7, <1>9 DEF IInv

LEMMA Step == IInv /\ [Next]_vars => IInv'
<1> SUFFICES ASSUME IInv, [Next]_vars PROVE IInv'
  OBVIOUS
<1>1. ASSUME NEW c \in Client, Server(c) PROVE IInv'
  BY <1>1, ServerIs
<1>2. ASSUME NEW c \in Client, parse_user_cmd(c) PROVE IInv'
  BY <1>2, IgnoredIs, OverrunsIs, ShowsIs, DiesIs DEF parse_user_cmd
<1>3. ASSUME NEW c \in Client, TypeMessage(c) PROVE IInv'
  BY <1>3, TypeMessageIs
<1>4. ASSUME NEW c \in Client, TypeText(c) PROVE IInv'
  BY <1>4, TypeTextIs
<1>5. ASSUME NEW c \in Client, TypeQuery(c) PROVE IInv'
  BY <1>5, TypeQueryIs
<1>6. ASSUME NEW c \in Client, TypeState(c) PROVE IInv'
  BY <1>6, TypeStateIs
<1>7. ASSUME NEW c \in Client, TypeReload(c) PROVE IInv'
  BY <1>7, TypeReloadIs
<1>8. ASSUME NEW c \in Client, Start(c) PROVE IInv'
  BY <1>8, StartIs
<1>9. CASE UNCHANGED vars
  <2>1. UNCHANGED <<talkVars, wire, down, dead, last>>
    BY <1>9 DEF vars
  <2>2. Screens'
    BY <2>1 DEF IInv, Screens, RightPerson, LinesApart, TextKept, Survives, IsShown
  <2> QED BY <2>1, <2>2, UsersStay, MessagesStay DEF IInv, Writes
<1> QED
  BY <1>1, <1>2, <1>3, <1>4, <1>5, <1>6, <1>7, <1>8, <1>9 DEF Next

LEMMA Invariance == Spec => []IInv
<1> QED
  BY InitIs, Step, PTL DEF Spec

-----------------------------------------------------------------------------
(* Whatever is typed and to whomever, the messages, queries and configured   *)
(* answers keep their types, and nsc reads nothing once it has died.         *)
THEOREM TypeCorrect == Spec => []TypeOK
BY Invariance, Typeable, PTL

(* No message is shown by anybody but the one it was meant for, whatever the *)
(* texts, the blanks between the words and the queries started before        *)
(* (cmd_user_message, cmd_query and console_handler).                        *)
THEOREM Right == Spec => []RightPerson
<1>1. IInv => RightPerson
  BY DEF IInv, Screens
<1> QED
  BY <1>1, Invariance, PTL

(* Only a message that writebuffer cut has another one shown behind it, for  *)
(* every buffer: an encoded text has no newline left that could end a line.  *)
THEOREM Apart == Spec => []LinesApart
<1>1. IInv => LinesApart
  BY DEF IInv, Screens
<1> QED
  BY <1>1, Invariance, PTL

(* With a server that puts dst= behind a message, every text without a       *)
(* backslash is shown as it was typed, for all words, lengths and blanks, as *)
(* far as printf_cl shows a text: ns_decode undoes ns_encode, and the cut at *)
(* the last dst= what was added.                                            *)
THEOREM Undone == ASSUME DST PROVE Spec => []TextKept
<1>1. IInv => TextKept
  BY DEF IInv, Screens
<1> QED
  BY <1>1, Invariance, PTL

(* With such a server no message that is sent whole makes its reader die by  *)
(* what is in it, whatever escapes were typed: only answering an ignored     *)
(* user from a buffer that is a byte short may.                             *)
THEOREM Alive == ASSUME DST PROVE Spec => []Survives
<1>1. IInv => Survives
  BY DEF IInv, Screens
<1> QED
  BY <1>1, Invariance, PTL

=============================================================================
