----------------------------- MODULE LoopProofs -----------------------------
(***************************************************************************)
(* Proofs about Loop, for every number of sockets, every length of a read  *)
(* and of a line, every ~/.nscrc: what get_next_line keeps between calls,  *)
(* the delay of the pings, that the reader implements Lines and the linked *)
(* lists Watch, and the types.                                             *)
(***************************************************************************)
EXTENDS Loop, Recursion

(* The place of the first newline of a text w.                             *)
First(w, n) == /\ n \in 1 .. Len(w) /\ w[n] = NL
               /\ \A i \in 1 .. n - 1 : w[i] # NL

(* What Turn looks for in a chunk is its first newline, or 0.              *)
LEMMA SelectNewline ==
  ASSUME NEW chunk \in Seq(Char), NEW n,
         n = SelectInSeq(chunk, LAMBDA c : c = NL)
  PROVE  \/ n = 0 /\ \A i \in 1 .. Len(chunk) : chunk[i] # NL
         \/ First(chunk, n)
<1> DEFINE I == {i \in 1 .. Len(chunk) : chunk[i] = NL}
<1>1. n = IF I # {} THEN Min(I) ELSE 0
  BY DEF SelectInSeq
<1>2. I \in SUBSET Nat
  OBVIOUS
<1>3. CASE I = {}
  BY <1>1, <1>3
<1>4. CASE I # {}
  <2>1. n \in I /\ \A i \in I : n <= i
    BY <1>1, <1>2, <1>4, MinIs
  <2>2. n \in 1 .. Len(chunk) /\ chunk[n] = NL
    BY <2>1
  <2>3. ASSUME NEW i \in 1 .. n - 1 PROVE chunk[i] # NL
    <3>1. i \in 1 .. Len(chunk) /\ ~(n <= i)
      BY <2>2
    <3> QED BY <2>1, <3>1
  <2> QED BY <2>2, <2>3 DEF First
<1> QED BY <1>3, <1>4

(* The two parts of a text that is cut in two.                             *)
LEMMA Before ==
  ASSUME NEW w \in Seq(Char), NEW n \in 0 .. Len(w)
  PROVE  /\ SubSeq(w, 1, n) \in Seq(Char) /\ Len(SubSeq(w, 1, n)) = n
         /\ \A i \in 1 .. n : SubSeq(w, 1, n)[i] = w[i]
<1>1. \A i \in 1 .. n : w[i] \in Char
  OBVIOUS
<1>2. Len(SubSeq(w, 1, n)) = IF 1 <= n THEN n - 1 + 1 ELSE 0
  BY <1>1, SubSeqProperties
<1> QED BY <1>1, <1>2, SubSeqProperties

Begin(w, n) == SubSeq(w, 1, n - 1)
End(w, n) == SubSeq(w, n + 1, Len(w))

LEMMA After ==
  ASSUME NEW w \in Seq(Char), NEW n \in 0 .. Len(w)
  PROVE  /\ End(w, n) \in Seq(Char) /\ Len(End(w, n)) = Len(w) - n
         /\ \A i \in 1 .. Len(w) - n : End(w, n)[i] = w[n + i]
<1> DEFINE u == SubSeq(w, n + 1, Len(w))
<1>1. \A i \in n + 1 .. Len(w) : w[i] \in Char
  OBVIOUS
<1>2. /\ u \in Seq(Char)
      /\ Len(u) = IF n + 1 <= Len(w) THEN Len(w) - (n + 1) + 1 ELSE 0
      /\ \A i \in 1 .. Len(w) - (n + 1) + 1 : u[i] = w[(n + 1) + i - 1]
  BY <1>1, SubSeqProperties
<1>3. \A i \in 1 .. Len(w) - n : u[i] = w[n + i]
  <2> TAKE i \in 1 .. Len(w) - n
  <2>1. i \in 1 .. Len(w) - (n + 1) + 1 /\ (n + 1) + i - 1 = n + i
    OBVIOUS
  <2> QED BY <1>2, <2>1
<1> QED BY <1>2, <1>3 DEF End

(* Two texts that agree behind two places have the same end.               *)
LEMMA SameEnd ==
  ASSUME NEW w \in Seq(Char), NEW chunk \in Seq(Char), NEW rest \in Seq(Char),
         NEW k \in 0 .. Len(w), NEW n \in 0 .. Len(chunk),
         Len(w) - k = Len(chunk) - n + Len(rest),
         \A i \in 1 .. Len(w) - k :
           w[k + i] = IF n + i <= Len(chunk) THEN chunk[n + i]
                      ELSE rest[n + i - Len(chunk)]
  PROVE  End(w, k) = End(chunk, n) \o rest
<1> DEFINE u == End(w, k)
           b == End(chunk, n)
<1>1. /\ u \in Seq(Char) /\ Len(u) = Len(w) - k
      /\ \A i \in 1 .. Len(w) - k : u[i] = w[k + i]
  BY After
<1>2. /\ b \in Seq(Char) /\ Len(b) = Len(chunk) - n
      /\ \A i \in 1 .. Len(chunk) - n : b[i] = chunk[n + i]
  BY After
<1> HIDE DEF u, b
<1>3. b \o rest \in Seq(Char) /\ Len(b \o rest) = Len(w) - k
  <2>1. Len(w) - k = Len(b) + Len(rest)
    BY <1>2
  <2> QED BY <1>2, <2>1, ConcatProperties
<1>4. ASSUME NEW i \in 1 .. Len(w) - k PROVE (b \o rest)[i] = w[k + i]
  <2>1. (b \o rest)[i] = IF i <= Len(b) THEN b[i] ELSE rest[i - Len(b)]
    BY <1>2, SMTT(20)
  <2> QED BY <1>2, <2>1
<1>5. u = b \o rest
  <2>1. \A i \in 1 .. Len(u) : u[i] = (b \o rest)[i]
    BY <1>1, <1>4
  <2> QED BY <1>1, <1>3, <2>1, SeqEqual
<1> QED BY <1>5 DEF u, b

\* The first newline of w is its k-th character, between b and e.
CutAt(w, k, b, e) == First(w, k) /\ Begin(w, k) = b /\ End(w, k) = e

(* A text made of the beginning of a line, a chunk and the rest: its first  *)
(* newline is the chunk's, and cutting the text there cuts the chunk.      *)
LEMMA CutText ==
  ASSUME NEW a \in Seq(Letter), NEW chunk \in Seq(Char), NEW rest \in Seq(Char),
         NEW n, First(chunk, n)
  PROVE  \E k : CutAt(a \o chunk \o rest, k, a \o Begin(chunk, n), End(chunk, n) \o rest)
<1>a. SUFFICES ASSUME NEW w, w = a \o chunk \o rest, NEW k, k = Len(a) + n
      PROVE  CutAt(w, k, a \o Begin(chunk, n), End(chunk, n) \o rest)
  OBVIOUS
<1>0. /\ NL \notin Letter /\ a \in Seq(Char) /\ w \in Seq(Char)
      /\ Len(w) = Len(a) + Len(chunk) + Len(rest)
      /\ n \in 1 .. Len(chunk) /\ k \in 1 .. Len(w) /\ k = Len(a) + n
  BY <1>a, CharAssumption DEF Char, First
<1>1. \A i \in 1 .. Len(w) :
         w[i] = IF i <= Len(a) THEN a[i]
                ELSE IF i <= Len(a) + Len(chunk) THEN chunk[i - Len(a)]
                ELSE rest[i - Len(a) - Len(chunk)]
  BY <1>0, <1>a
<1>2. First(w, k)
  <2>1. w[k] = NL
    BY <1>0, <1>1 DEF First
  <2>2. ASSUME NEW i \in 1 .. k - 1 PROVE w[i] # NL
    <3>1. i \in 1 .. Len(w)
      BY <1>0
    <3>2. CASE i <= Len(a)
      <4>1. w[i] = a[i] /\ i \in 1 .. Len(a)
        BY <1>1, <3>1, <3>2
      <4>2. a[i] \in Letter
        BY <4>1
      <4> QED BY <1>0, <4>1, <4>2
    <3>3. CASE ~(i <= Len(a))
      <4>1. i - Len(a) \in 1 .. n - 1 /\ i <= Len(a) + Len(chunk)
        BY <1>0, <3>1, <3>3
      <4>2. w[i] = chunk[i - Len(a)]
        BY <1>1, <3>1, <3>3, <4>1
      <4> QED BY <4>1, <4>2 DEF First
    <3> QED BY <3>2, <3>3
  <2> QED BY <1>0, <2>1, <2>2 DEF First
<1>3. Begin(w, k) = a \o Begin(chunk, n)
  <2> DEFINE u == SubSeq(w, 1, k - 1)
             b == SubSeq(chunk, 1, n - 1)
  <2>1. u \in Seq(Char) /\ Len(u) = k - 1 /\ \A i \in 1 .. k - 1 : u[i] = w[i]
    BY <1>0, Before
  <2>2. b \in Seq(Char) /\ Len(b) = n - 1 /\ \A i \in 1 .. n - 1 : b[i] = chunk[i]
    BY <1>0, Before
  <2> HIDE DEF u, b
  <2>3. a \o b \in Seq(Char) /\ Len(a \o b) = k - 1
    <3>1. k - 1 = Len(a) + (n - 1) /\ a \in Seq(Char) /\ b \in Seq(Char)
      BY <1>0, <2>2
    <3>2. a \o b \in Seq(Char) /\ Len(a \o b) = Len(a) + Len(b)
      BY <3>1, ConcatProperties
    <3> QED BY <2>2, <3>1, <3>2
  <2>4. ASSUME NEW i \in 1 .. k - 1 PROVE (a \o b)[i] = w[i]
    <3>1. /\ i \in 1 .. Len(w) /\ i \in 1 .. Len(a) + Len(b)
          /\ i <= Len(a) + Len(chunk)
      BY <1>0, <2>2
    <3>2. (a \o b)[i] = IF i <= Len(a) THEN a[i] ELSE b[i - Len(a)]
      BY <1>0, <2>2, <3>1, ConcatProperties, SMTT(20)
    <3>3. CASE i <= Len(a)
      BY <1>1, <3>1, <3>2, <3>3
    <3>4. CASE ~(i <= Len(a))
      <4>1. i - Len(a) \in 1 .. n - 1
        BY <1>0, <3>1, <3>4
      <4> QED BY <1>1, <2>2, <3>1, <3>2, <3>4, <4>1
    <3> QED BY <3>3, <3>4
  <2>5. u = a \o b
    BY <2>1, <2>3, <2>4, SeqEqual
  <2> QED BY <2>5 DEF u, b, Begin
<1>4. End(w, k) = End(chunk, n) \o rest
  <2>1. \A i \in 1 .. Len(w) - k :
          w[k + i] = IF n + i <= Len(chunk) THEN chunk[n + i]
                     ELSE rest[n + i - Len(chunk)]
    BY <1>0, <1>1
  <2>2. /\ w \in Seq(Char)
        /\ k \in 0 .. Len(w) /\ n \in 0 .. Len(chunk)
        /\ Len(w) - k = Len(chunk) - n + Len(rest)
    BY <1>0
  <2> QED BY <2>1, <2>2, SameEnd, ZenonT(40)
<1> QED BY <1>2, <1>3, <1>4 DEF CutAt

-----------------------------------------------------------------------------
\* All that is at hand of a descriptor.
All(a, b, c) == a \o b \o c

LEMMA AllLemma ==
  ASSUME NEW a \in Seq(Char), NEW b \in Seq(Char), NEW c \in Seq(Char)
  PROVE  All(a, b, c) = All(a, <<>>, b \o c)
<1>1. b \o c \in Seq(Char)
  OBVIOUS
<1>2. (a \o b) \o c = a \o (b \o c)
  BY ConcatAssociative
<1>3. a \o <<>> = a
  BY ConcatEmptySeq
<1> QED BY <1>2, <1>3 DEF All

(* One turn of get_next_line on a chunk, with rest still to be read: either *)
(* the chunk is added to the line, or the first newline of all that is at   *)
(* hand ends the line, and what is behind it is kept.                       *)
LEMMA TurnLemma ==
  ASSUME str \in Seq(Letter), NEW chunk \in Seq(Char), NEW rest \in Seq(Char),
         NEW w, w = All(str, chunk, rest), Turn(chunk)
  PROVE  /\ str' \in Seq(Letter) /\ cequireste' \in Seq(Char)
         /\ r_len' = Len(cequireste')
         /\ \/ /\ line' = line /\ pc' = pc /\ cequireste' = <<>>
               /\ All(str', cequireste', rest) = w
            \/ /\ pc' = (IF pc = "load" THEN "load" ELSE "handle") /\ str' = <<>>
               /\ \E k : /\ First(w, k) /\ line' = <<fd, Begin(w, k)>>
                         /\ All(str', cequireste', rest) = End(w, k)
<1> DEFINE n == SelectInSeq(chunk, LAMBDA c : c = NL)
<1>1. \/ n = 0 /\ \A i \in 1 .. Len(chunk) : chunk[i] # NL
      \/ First(chunk, n)
  BY SelectNewline
<1>2. First(chunk, n) => n # 0
  BY DEF First
<1>3. IF n = 0
      THEN /\ str' = str \o chunk
           /\ r_len' = 0 /\ cequireste' = <<>>
           /\ UNCHANGED <<line, pc>>
      ELSE /\ line' = <<fd, str \o SubSeq(chunk, 1, n - 1)>>
           /\ str' = <<>>
           /\ r_len' = Len(chunk) - n
           /\ cequireste' = SubSeq(chunk, n + 1, Len(chunk))
           /\ pc' = IF pc = "load" THEN "load" ELSE "handle"
  BY DEF Turn
<1> HIDE DEF n
<1>4. CASE n = 0
  <2>1. /\ str' = str \o chunk /\ r_len' = 0 /\ cequireste' = <<>>
        /\ line' = line /\ pc' = pc
    BY <1>3, <1>4
  <2>2. chunk \in Seq(Letter)
    <3>1. \A i \in 1 .. Len(chunk) : chunk[i] \in Letter
      BY <1>1, <1>2, <1>4 DEF Char
    <3> QED BY <3>1, IsASeq
  <2>3. str' \in Seq(Letter) /\ cequireste' \in Seq(Char) /\ r_len' = Len(cequireste')
    BY <2>1, <2>2
  <2>4. All(str', cequireste', rest) = w
    BY <2>1, <2>3, ConcatEmptySeq DEF All
  <2> QED BY <2>1, <2>3, <2>4
<1>5. CASE n # 0
  <2>1. /\ line' = <<fd, str \o Begin(chunk, n)>> /\ str' = <<>>
        /\ r_len' = Len(chunk) - n /\ cequireste' = End(chunk, n)
        /\ pc' = IF pc = "load" THEN "load" ELSE "handle"
    BY <1>3, <1>5 DEF Begin, End
  <2>2. First(chunk, n) /\ n \in 0 .. Len(chunk)
    BY <1>1, <1>5 DEF First
  <2>3. End(chunk, n) \in Seq(Char) /\ Len(End(chunk, n)) = Len(chunk) - n
    BY <2>2, After
  <2>4. PICK k : CutAt(w, k, str \o Begin(chunk, n), End(chunk, n) \o rest)
    BY <2>2, CutText DEF All
  <2>5. All(str', cequireste', rest) = End(w, k)
    BY <2>1, <2>3, <2>4, ConcatEmptySeq DEF CutAt, All
  <2>6. str' \in Seq(Letter) /\ cequireste' \in Seq(Char) /\ r_len' = Len(cequireste')
    BY <2>1, <2>3
  <2> QED BY <2>1, <2>4, <2>5, <2>6 DEF CutAt
<1> QED BY <1>4, <1>5

-----------------------------------------------------------------------------
(* What the reader and the loop leave to each other.                       *)
Types ==
  /\ client_fd \in Fds \cup {0}
  /\ stream \in [Source -> Seq(Char)]
  /\ str \in Seq(Letter) /\ cequireste \in Seq(Char)

\* nsc_recv_data is only called for a connection.
Connected == pc \in {"recv", "handle"} => client_fd # 0

\* A line that is handed on leaves nothing of it in get_next_line.
HandedWhole == pc = "handle" => str = <<>>

\* ~/.nscrc is read to its end before it is closed.
ReadToTheEnd == pc # "load" => stream[Hand] = <<>>

ReadInv == Types /\ StaticsAgree /\ Connected /\ HandedWhole /\ ReadToTheEnd

LEMMA InitRead == Init => ReadInv
<1> SUFFICES ASSUME Init PROVE ReadInv
  OBVIOUS
<1>1. PICK text \in Nscrc : stream = [s \in Source |-> IF s = Hand THEN text ELSE <<>>]
  BY DEF Init
<1>2. text \in Seq(Char) /\ <<>> \in Seq(Char)
  BY CharAssumption
<1>3. stream \in [Source -> Seq(Char)]
  BY <1>1, <1>2
<1> QED
  BY <1>3 DEF Init, ReadInv, Types, StaticsAgree, Connected, HandedWhole, ReadToTheEnd

(* The steps of the reader itself.                                         *)
LEMMA TurnRead ==
  ASSUME ReadInv, NEW chunk \in Seq(Char), NEW rest \in Seq(Char), Turn(chunk),
         Reading, client_fd' = client_fd,
         stream' = [stream EXCEPT ![fd] = rest]
  PROVE  ReadInv'
<1>1. /\ str' \in Seq(Letter) /\ cequireste' \in Seq(Char)
      /\ r_len' = Len(cequireste')
      /\ \/ pc' = pc
         \/ pc' = (IF pc = "load" THEN "load" ELSE "handle") /\ str' = <<>>
  BY TurnLemma DEF ReadInv, Types
<1>2. fd \in Source /\ (pc = "recv" => fd # Hand)
  BY FdsAssumption DEF ReadInv, Types, Connected, Reading, fd, Source
<1>3. stream' \in [Source -> Seq(Char)] /\ (pc = "recv" => stream'[Hand] = stream[Hand])
  BY <1>2 DEF ReadInv, Types, Source
<1> QED
  BY <1>1, <1>3
  DEF ReadInv, Types, StaticsAgree, Connected, HandedWhole, ReadToTheEnd, Reading

(* Closing descriptors empties their streams.                              *)
LEMMA ClosingLemma ==
  ASSUME stream \in [Source -> Seq(Char)], NEW F, Closing(F)
  PROVE  /\ stream' \in [Source -> Seq(Char)]
         /\ stream[Hand] = <<>> => stream'[Hand] = <<>>
<1>1. stream' = [s \in Source |-> IF s \in F THEN <<>> ELSE stream[s]]
  BY DEF Closing
<1>2. <<>> \in Seq(Char)
  OBVIOUS
<1>3. stream' \in [Source -> Seq(Char)]
  BY <1>1, <1>2
<1> QED BY <1>1, <1>3 DEF Source

\* No descriptor is read: what select, commands and main do.
Idle == str = <<>> /\ cequireste = <<>> /\ UNCHANGED <<str, cequireste, r_len>>

(* Both kinds of turn are Turn, on what is at hand and what is still to be  *)
(* read.                                                                   *)
LEMMA WhichTurn ==
  ASSUME ReadInv, TurnOnRest \/ TurnOnRead
  PROVE  /\ fd \in Source /\ Reading /\ client_fd' = client_fd
         /\ \E chunk \in Seq(Char), rest \in Seq(Char) :
              /\ Turn(chunk)
              /\ stream' = [stream EXCEPT ![fd] = rest]
              /\ All(str, chunk, rest) = All(str, cequireste, stream[fd])
<1>1. Reading /\ client_fd' = client_fd
  BY DEF TurnOnRest, TurnOnRead, cnxVars
<1>2. /\ fd \in Source /\ stream[fd] \in Seq(Char)
      /\ str \in Seq(Char) /\ cequireste \in Seq(Char)
      /\ r_len = Len(cequireste) /\ stream \in [Source -> Seq(Char)]
  <2>1. fd \in Source
    BY <1>1 DEF ReadInv, Types, Connected, Reading, fd, Source
  <2> QED BY <2>1 DEF ReadInv, Types, StaticsAgree, Char
<1>3. CASE TurnOnRest
  <2>1. SubSeq(cequireste, 1, r_len) = cequireste
    BY <1>2, SubSeqFull
  <2>2. Turn(cequireste) /\ stream' = stream
    BY <1>3, <2>1 DEF TurnOnRest, kernelVars
  <2>3. stream' = [stream EXCEPT ![fd] = stream[fd]]
    BY <1>2, <2>2
  <2> QED BY <1>1, <1>2, <2>2, <2>3
<1>4. CASE TurnOnRead
  <2>1. PICK j \in 1 .. Len(stream[fd]) :
          /\ Turn(SubSeq(stream[fd], 1, j))
          /\ stream' = [stream EXCEPT ![fd] = SubSeq(@, j + 1, Len(@))]
    BY <1>4 DEF TurnOnRead
  <2> DEFINE t == stream[fd]
             chunk == SubSeq(t, 1, j)
             rest == End(t, j)
  <2>2. /\ chunk \in Seq(Char) /\ Len(chunk) = j /\ \A i \in 1 .. j : chunk[i] = t[i]
        /\ rest \in Seq(Char) /\ Len(rest) = Len(t) - j
        /\ \A i \in 1 .. Len(t) - j : rest[i] = t[j + i]
    <3>1. t \in Seq(Char) /\ j \in 0 .. Len(t)
      BY <1>2
    <3> QED BY <3>1, Before, After
  <2>3. Turn(chunk) /\ stream' = [stream EXCEPT ![fd] = rest]
    BY <1>2, <2>1 DEF End
  <2> HIDE DEF chunk, rest
  <2>4. chunk \o rest = t
    <3>1. chunk \o rest \in Seq(Char) /\ Len(chunk \o rest) = Len(t) /\ t \in Seq(Char)
      BY <1>2, <2>2
    <3>2. ASSUME NEW i \in 1 .. Len(t) PROVE (chunk \o rest)[i] = t[i]
      <4>1. (chunk \o rest)[i] = IF i <= j THEN chunk[i] ELSE rest[i - j]
        BY <1>2, <2>2
      <4> QED BY <1>2, <2>2, <4>1, SMTT(30)
    <3> QED BY <3>1, <3>2, SeqEqual
  <2>5. cequireste = <<>>
    <3>1. Len(cequireste) = 0
      BY <1>2, <1>4 DEF TurnOnRead
    <3> QED BY <1>2, <3>1, EmptySeq
  <2>6. All(str, chunk, rest) = All(str, cequireste, t)
    <3>1. str \in Seq(Char) /\ chunk \in Seq(Char) /\ rest \in Seq(Char)
      BY <1>2, <2>2
    <3>2. All(str, chunk, rest) = All(str, <<>>, chunk \o rest)
      BY <3>1, AllLemma
    <3> QED BY <2>4, <2>5, <3>2
  <2> QED BY <1>1, <1>2, <2>2, <2>3, <2>6
<1> QED BY <1>3, <1>4

(* Every other step but Handle, Arrive and TurnOnNothing finds the statics   *)
(* of get_next_line empty, and leaves them so.                             *)
LEMMA IdleRead ==
  ASSUME ReadInv, Idle,
         client_fd' \in Fds \cup {0}, pc' # "handle",
         pc' = "recv" => client_fd' # 0,
         stream' \in [Source -> Seq(Char)],
         pc' # "load" => stream'[Hand] = <<>>
  PROVE  ReadInv'
BY DEF Idle, ReadInv, Types, StaticsAgree, Connected, HandedWhole, ReadToTheEnd

(* All that is not the reader or the outside.                              *)
Elsewhere ==
  \/ Lost \/ Loaded \/ Connect
  \/ Select \/ SelectTimeout \/ SelectInterrupted \/ TakeSocket
  \/ CmdConnect \/ CmdClose \/ CmdReload \/ CmdOther \/ CmdExit
  \/ Exit

LEMMA ElsewhereIdle == ReadInv /\ Elsewhere => Idle
BY DEF ReadInv, StaticsAgree, Elsewhere, Idle, Lost, Loaded, Connect, Select,
       SelectTimeout, SelectInterrupted, Selecting, TakeSocket, Taken, CmdConnect,
       CmdClose, CmdReload, CmdOther, CmdExit, Exit, readVars

(* What these steps do to the bytes that were not read: nothing, except     *)
(* that main_cc and the exit close descriptors, and reload opens ~/.nscrc.  *)
LEMMA ElsewhereStream ==
  ASSUME ReadInv, Elsewhere
  PROVE  /\ client_fd' \in Fds \cup {0} /\ pc' # "handle"
         /\ pc' = "recv" => client_fd' # 0
         /\ \/ pc' # "load" /\ pc # "load" /\ UNCHANGED stream
            \/ pc' # "load" /\ pc # "load" /\ \E F : Closing(F)
            \/ /\ pc # "load" /\ pc' = "load"
               /\ \E text \in Nscrc : stream' = [stream EXCEPT ![Hand] = text]
<1>1. CASE Lost \/ CmdClose \/ Exit
  BY <1>1 DEF Lost, CmdClose, Exit, Taken, main_cc, destroy_socket_list, ReadInv, Types
<1>2. CASE Loaded \/ Connect \/ Select \/ TakeSocket
  BY <1>2, FdsAssumption
  DEF Loaded, Connect, Select, Selecting, TakeSocket, Taken, kernelVars, cnxVars,
      ReadInv, Types
<1>3. CASE SelectTimeout \/ SelectInterrupted
  BY <1>3 DEF SelectTimeout, SelectInterrupted, Selecting, send_ping, kernelVars,
              cnxVars, ReadInv, Types
<1>4. CASE CmdConnect \/ CmdReload \/ CmdOther \/ CmdExit
  BY <1>4 DEF CmdConnect, CmdReload, CmdOther, CmdExit, Taken, kernelVars, cnxVars,
              ReadInv, Types
<1> QED BY <1>1, <1>2, <1>3, <1>4 DEF Elsewhere

LEMMA NextRead == ReadInv /\ [Next]_vars => ReadInv'
<1> SUFFICES ASSUME ReadInv, [Next]_vars PROVE ReadInv'
  OBVIOUS
<1>0. stream \in [Source -> Seq(Char)] /\ Hand \in Source
  BY DEF ReadInv, Types, Source
<1>1. CASE TurnOnRest \/ TurnOnRead
  BY <1>1, WhichTurn, TurnRead
<1>2. CASE TurnOnNothing
  <2>1. /\ cequireste = <<>>
        /\ UNCHANGED <<cequireste, r_len, stream, client_fd>> /\ str' = <<>>
        /\ pc' \in {"load", "loaded", "handle", "lost"}
        /\ pc = "load" => pc' \in {"load", "loaded"} /\ stream[Hand] = <<>>
        /\ pc # "load" => pc = "recv" /\ pc' # "load"
    <3>1. r_len = 0 /\ r_len = Len(cequireste) /\ cequireste \in Seq(Char)
      BY <1>2 DEF TurnOnNothing, ReadInv, Types, StaticsAgree
    <3>2. cequireste = <<>>
      BY <3>1, EmptySeq
    <3> QED BY <1>2, <3>2 DEF TurnOnNothing, Reading, fd, kernelVars, cnxVars
  <2> QED
    BY <2>1 DEF ReadInv, Types, StaticsAgree, Connected, HandedWhole, ReadToTheEnd
<1>3. CASE Handle
  BY <1>3 DEF Handle, kernelVars, ReadInv, Types, StaticsAgree, Connected,
              HandedWhole, ReadToTheEnd
<1>4. CASE Elsewhere
  <2>1. stream' \in [Source -> Seq(Char)] /\ (pc' # "load" => stream'[Hand] = <<>>)
    <3>1. pc # "load" /\ stream[Hand] = <<>>
      BY <1>4, ElsewhereStream DEF ReadInv, ReadToTheEnd
    <3>2. CASE pc' # "load" /\ UNCHANGED stream
      BY <1>0, <3>1, <3>2
    <3>3. CASE \E F : Closing(F)
      BY <1>0, <3>1, <3>3, ClosingLemma
    <3>4. ASSUME NEW text \in Nscrc, stream' = [stream EXCEPT ![Hand] = text], pc' = "load"
          PROVE  stream' \in [Source -> Seq(Char)]
      BY <1>0, <3>4, CharAssumption
    <3> QED BY <1>4, <3>2, <3>3, <3>4, ElsewhereStream
  <2> QED BY <1>4, <2>1, ElsewhereIdle, ElsewhereStream, IdleRead
<1>5. ASSUME NEW f \in Fds, NEW c \in Char, Arrive(f, c) PROVE ReadInv'
  <2>1. stream' = [stream EXCEPT ![f] = Append(@, c)] /\ f \in Source /\ f # Hand
    BY <1>5, FdsAssumption DEF Arrive, Source
  <2>2. stream' \in [Source -> Seq(Char)] /\ stream'[Hand] = stream[Hand]
    BY <1>0, <2>1
  <2> QED
    BY <1>5, <2>2 DEF Arrive, readVars, cnxVars, ReadInv, Types, StaticsAgree,
                      Connected, HandedWhole, ReadToTheEnd
<1>6. CASE (\E f \in Fds : PeerCloses(f)) \/ Done \/ UNCHANGED vars
  <2>1. UNCHANGED <<pc, readVars, stream, client_fd>>
    BY <1>6 DEF PeerCloses, Done, vars, cnxVars, kernelVars
  <2> QED
    BY <2>1 DEF readVars, ReadInv, Types, StaticsAgree, Connected, HandedWhole,
                ReadToTheEnd
<1> QED BY <1>1, <1>2, <1>3, <1>4, <1>5, <1>6 DEF Next, Elsewhere

THEOREM Reader == Spec => []ReadInv
BY InitRead, NextRead, PTL DEF Spec

(* The statics of get_next_line agree with each other, and nothing read     *)
(* is left in them between two descriptors.                                *)
THEOREM Statics == Spec => []StaticsAgree
<1>1. ReadInv => StaticsAgree
  BY DEF ReadInv
<1> QED BY <1>1, Reader, PTL

-----------------------------------------------------------------------------
(* The pings.  Where select leaves its timeout alone, secondes never falls   *)
(* behind the time a connection has been quiet but for the selects that a    *)
(* descriptor ended.                                                        *)
PingInv ==
  /\ secondes \in 0 .. SENDPING /\ quiet \in Nat /\ unseen \in Nat
  /\ quiet <= secondes + unseen

\* How late a ping may be, for a step of time and for none.
LEMMA Late ==
  ASSUME NEW q \in Nat, NEW s \in Nat, NEW u \in Nat, q <= s + u,
         NEW e \in Nat, NEW s2 \in Nat, s + e <= s2
  PROVE  q + e <= s2 + u
OBVIOUS

LEMMA Zero == ASSUME NEW q, NEW s \in Nat, NEW u, q = 0, u = 0 PROVE q <= s + u
OBVIOUS

LEMMA NextPing == KEPT /\ PingInv /\ [Next]_vars => PingInv'
<1> SUFFICES ASSUME KEPT, PingInv, [Next]_vars PROVE PingInv'
  OBVIOUS
<1>0. SELECTSEC \in Nat \ {0} /\ SENDPING \in Nat
  BY TimeAssumption
<1>1. ASSUME NEW elapsed \in 0 .. SELECTSEC, send_ping(SELECTSEC, elapsed)
      PROVE  PingInv'
  <2>1. secondes' \in 0 .. SENDPING /\ secondes <= secondes'
    BY <1>0, <1>1 DEF send_ping, PingInv
  <2>2. CASE Heard
    <3>1. quiet' = 0 /\ unseen' = 0
      BY <2>2 DEF Heard
    <3>2. secondes' \in 0 .. SENDPING
      BY <2>1
    <3>3. quiet' <= secondes' + unseen'
      <4>1. secondes' \in Nat
        BY <1>0, <3>2
      <4> QED BY <3>1, <4>1, Zero
    <3> QED BY <3>1, <3>2, <3>3 DEF PingInv
  <2>3. CASE ~Heard
    <3>1. quiet' = quiet + elapsed /\ unseen' = unseen
      BY <1>1, <2>3 DEF send_ping
    <3>2. secondes' = secondes + SELECTSEC \/ secondes' = SENDPING
      BY <1>1 DEF send_ping
    <3>3. secondes' # SENDPING
      BY <1>1, <2>3, <3>1 DEF send_ping
    <3>4. quiet' \in Nat /\ unseen' \in Nat
      BY <3>1 DEF PingInv
    <3>5. secondes + elapsed <= secondes'
      BY <1>0, <3>2, <3>3 DEF PingInv
    <3>6. quiet + elapsed <= secondes' + unseen
      <4>1. elapsed \in Nat /\ secondes \in Nat /\ secondes' \in Nat /\ quiet <= secondes + unseen
        BY <1>0, <2>1 DEF PingInv
      <4> QED BY <3>5, <4>1, Late DEF PingInv
    <3>7. quiet' <= secondes' + unseen'
      BY <3>1, <3>6
    <3> QED BY <2>1, <3>4, <3>7 DEF PingInv
  <2> QED BY <2>2, <2>3
<1>2. CASE SelectTimeout
  BY <1>0, <1>1, <1>2 DEF SelectTimeout
<1>3. CASE SelectInterrupted
  BY <1>0, <1>1, <1>3 DEF SelectInterrupted
<1>4. CASE Select
  <2>1. PICK elapsed \in Nat : quiet' = quiet + elapsed /\ unseen' = unseen + elapsed
    BY <1>0, <1>4 DEF Select
  <2>2. secondes' = secondes
    BY <1>4 DEF Select
  <2> QED BY <2>1, <2>2 DEF PingInv
<1>5. CASE ~SelectTimeout /\ ~SelectInterrupted /\ ~Select
  <2>1. secondes' = secondes /\ (Heard \/ UNCHANGED <<quiet, unseen>>)
    BY <1>5 DEF Next, vars, timeVars, TurnOnRest, TurnOnRead, TurnOnNothing, Handle,
       Lost, Loaded, Connect, TakeSocket, Taken, CmdConnect, CmdClose,
       CmdReload, CmdOther, CmdExit, Exit, Arrive, PeerCloses, Done
  <2> QED BY <2>1 DEF PingInv, Heard
<1> QED BY <1>2, <1>3, <1>4, <1>5

(* A connection that gives nothing gets a ping before SENDPING seconds and a *)
(* timeout have passed, not counting the selects that a descriptor ended, if *)
(* select leaves its timeout alone: however signals cut the timeouts, and    *)
(* whatever is opened and closed.                                           *)
THEOREM Pings == KEPT => (Spec => []PingDue)
<1> SUFFICES ASSUME KEPT PROVE Spec => []PingDue
  OBVIOUS
<1>1. Init => PingInv
  BY TimeAssumption DEF Init, PingInv
<1>2. PingInv /\ [Next]_vars => PingInv'
  BY NextPing
<1>3. PingInv => PingDue
  BY TimeAssumption DEF PingInv, PingDue
<1> QED BY <1>1, <1>2, <1>3, PTL DEF Spec

-----------------------------------------------------------------------------
(* Loop implements Lines.                                                  *)
LineStep == L!Next \/ UNCHANGED <<todo, line>>

LEMMA TodoLemma ==
  /\ fd \in Source => todo[fd] = All(str, cequireste, stream[fd])
  /\ \A s \in Source \ {fd} : todo[s] = stream[s]
  /\ todo = [s \in Source |-> todo[s]]
BY DEF todo, All

LEMMA TodoPrime ==
  /\ fd' \in Source => todo'[fd'] = All(str', cequireste', stream'[fd'])
  /\ \A s \in Source \ {fd'} : todo'[s] = stream'[s]
  /\ todo' = [s \in Source |-> todo'[s]]
BY DEF todo, All

LEMMA AllOfOne == ASSUME NEW t \in Seq(Char) PROVE All(<<>>, <<>>, t) = t
<1>1. <<>> \o t = t
  BY ConcatEmptySeq
<1>2. <<>> \o <<>> = <<>>
  OBVIOUS
<1> QED BY <1>1, <1>2 DEF All

(* With empty statics, all that is still to be handed on is unread.        *)
LEMMA TodoIdle ==
  ASSUME ReadInv, ReadInv', Idle
  PROVE  todo = stream /\ todo' = stream'
<1>1. stream \in [Source -> Seq(Char)] /\ stream' \in [Source -> Seq(Char)]
  BY DEF ReadInv, Types
<1>2. \A s \in Source : todo[s] = stream[s]
  BY <1>1, AllOfOne, TodoLemma DEF Idle
<1>3. \A s \in Source : todo'[s] = stream'[s]
  BY <1>1, AllOfOne, TodoPrime DEF Idle
<1> QED BY <1>1, <1>2, <1>3, TodoLemma, TodoPrime

(* A step that hands nothing on and keeps all the bytes.                   *)
LEMMA StillLines ==
  ASSUME todo' = todo, line' \in {line, None}
  PROVE  LineStep
<1>1. CASE line' = line
  BY <1>1 DEF LineStep
<1>2. CASE line' = None
  <2>1. todo' = [s \in Source |-> IF s \in {} THEN <<>> ELSE todo[s]]
    BY TodoLemma
  <2>2. L!Close({})
    BY <1>2, <2>1 DEF L!Close, L!Forgotten
  <2> QED BY <2>2 DEF LineStep, L!Next
<1> QED BY <1>1, <1>2

LEMMA TurnLines ==
  ASSUME ReadInv, ReadInv', TurnOnRest \/ TurnOnRead
  PROVE  LineStep
<1>1. fd \in Source /\ Reading /\ client_fd' = client_fd
  BY WhichTurn
<1>2. PICK chunk \in Seq(Char), rest \in Seq(Char) :
        /\ Turn(chunk) /\ stream' = [stream EXCEPT ![fd] = rest]
        /\ All(str, chunk, rest) = All(str, cequireste, stream[fd])
  BY WhichTurn
<1> DEFINE w == All(str, chunk, rest)
<1>3. todo[fd] = w
  BY <1>1, <1>2, TodoLemma
<1>4. \/ /\ line' = line /\ pc' = pc
         /\ All(str', cequireste', rest) = w
      \/ /\ pc' = (IF pc = "load" THEN "load" ELSE "handle")
         /\ \E k : /\ First(w, k) /\ line' = <<fd, Begin(w, k)>>
                   /\ All(str', cequireste', rest) = End(w, k)
  BY <1>2, TurnLemma DEF ReadInv, Types
<1> HIDE DEF w
<1>5. fd' = fd
  BY <1>1, <1>4 DEF fd, Reading
<1>6. /\ todo'[fd] = All(str', cequireste', rest)
      /\ \A s \in Source \ {fd} : todo'[s] = todo[s]
  BY <1>1, <1>2, <1>5, TodoLemma, TodoPrime DEF ReadInv, Types
<1>7. CASE line' = line /\ todo'[fd] = w
  <2>1. todo' = todo
    BY <1>3, <1>6, <1>7, TodoLemma, TodoPrime
  <2> QED BY <1>7, <2>1, StillLines
<1>8. ASSUME NEW k, First(w, k), line' = <<fd, Begin(w, k)>>, todo'[fd] = End(w, k)
      PROVE  LineStep
  <2>1. todo' = [todo EXCEPT ![fd] = End(w, k)]
    BY <1>1, <1>6, <1>8, TodoLemma, TodoPrime
  <2>2. L!HandOn(fd, k) /\ k \in DOMAIN todo[fd]
    <3>1. /\ k \in 1 .. Len(w) /\ w[k] = NL /\ \A i \in 1 .. k - 1 : w[i] # NL
      BY <1>8 DEF First
    <3>2. k \in DOMAIN w
      <4>1. w \in Seq(Char)
        BY <1>2 DEF w, All, ReadInv, Types, Char
      <4> QED BY <3>1, <4>1
    <3>3. todo' = [todo EXCEPT ![fd] = SubSeq(@, k + 1, Len(@))]
      BY <1>1, <1>3, <2>1, TodoLemma DEF End
    <3> QED BY <1>3, <1>8, <3>1, <3>2, <3>3 DEF L!HandOn, Begin
  <2> QED BY <1>1, <2>2 DEF LineStep, L!Next
<1> QED BY <1>4, <1>6, <1>7, <1>8

(* The end of what there is: the beginning of a line is handed on as a line,*)
(* or nothing is.                                                          *)
LEMMA NothingLines ==
  ASSUME ReadInv, ReadInv', TurnOnNothing
  PROVE  LineStep
<1>1. /\ Reading /\ stream[fd] = <<>>
      /\ UNCHANGED <<cequireste, stream, client_fd>>
      /\ r_len = 0
  BY DEF TurnOnNothing, kernelVars, cnxVars
<1>2. cequireste = <<>>
  BY <1>1, EmptySeq DEF ReadInv, Types, StaticsAgree
<1>3. str \in Seq(Letter) /\ fd \in Source /\ stream \in [Source -> Seq(Char)]
  BY <1>1 DEF ReadInv, Types, Connected, Reading, fd, Source
<1>4. todo[fd] = str
  <2>1. All(str, <<>>, <<>>) = str
    BY <1>3, ConcatEmptySeq DEF All
  <2> QED BY <1>1, <1>2, <1>3, <2>1, TodoLemma
<1>5. CASE str # <<>>
  <2>1. line' = <<fd, str>> /\ str' = <<>> /\ fd' = fd
    BY <1>1, <1>5 DEF TurnOnNothing, fd, Reading
  <2>2. todo'[fd] = <<>> /\ \A s \in Source \ {fd} : todo'[s] = todo[s]
    <3>1. All(<<>>, <<>>, <<>>) = <<>>
      BY DEF All
    <3> QED BY <1>1, <1>2, <1>3, <2>1, <3>1, TodoLemma, TodoPrime
  <2>3. todo' = [todo EXCEPT ![fd] = <<>>]
    BY <1>3, <2>2, TodoLemma, TodoPrime
  <2>4. \A i \in DOMAIN str : str[i] # NL
    BY <1>3, CharAssumption
  <2>5. L!Cut(fd)
    BY <1>4, <1>5, <2>1, <2>3, <2>4 DEF L!Cut
  <2> QED BY <1>3, <2>5 DEF LineStep, L!Next
<1>6. CASE str = <<>>
  <2>1. line' = None /\ str' = str /\ pc' # "handle"
    BY <1>6 DEF TurnOnNothing
  <2>2. todo' = todo
    BY <1>1, <1>2, <1>6, <2>1, TodoIdle DEF Idle, TurnOnNothing
  <2> QED BY <2>1, <2>2, StillLines
<1> QED BY <1>5, <1>6

LEMMA HandleLines ==
  ASSUME ReadInv, ReadInv', Handle
  PROVE  LineStep
<1>1. /\ line' = None /\ fd' = fd
      /\ UNCHANGED <<str, cequireste, stream>>
  BY DEF Handle, kernelVars, fd
<1>2. todo' = todo
  BY <1>1 DEF todo
<1> QED BY <1>1, <1>2, StillLines

(* The others close a descriptor, open ~/.nscrc, or touch no stream.       *)
LEMMA ElsewhereLines ==
  ASSUME ReadInv, ReadInv', Elsewhere
  PROVE  LineStep
<1>1. todo = stream /\ todo' = stream' /\ stream \in [Source -> Seq(Char)]
  BY ElsewhereIdle, TodoIdle DEF ReadInv, Types
<1>2. line' = line
  BY DEF Elsewhere, Lost, Loaded, Connect, Select, SelectTimeout, SelectInterrupted,
         TakeSocket, Taken, CmdConnect, CmdClose, CmdReload, CmdOther, CmdExit, Exit,
         readVars
<1>3. pc # "load" /\ stream[Hand] = <<>> /\ Hand \in Source
  BY ElsewhereStream DEF ReadInv, ReadToTheEnd, Source
<1>4. CASE UNCHANGED stream
  BY <1>1, <1>2, <1>4, StillLines
<1>5. ASSUME NEW F, Closing(F) PROVE LineStep
  <2> DEFINE S == F \cap Source
  <2>1. stream' = [s \in Source |-> IF s \in S THEN <<>> ELSE stream[s]]
    BY <1>5 DEF Closing
  <2>2. L!Close(S)
    BY <1>1, <1>2, <1>3, <2>1 DEF L!Close, L!Forgotten
  <2> QED BY <2>2 DEF LineStep, L!Next
<1>6. ASSUME NEW text \in Nscrc, stream' = [stream EXCEPT ![Hand] = text] PROVE LineStep
  <2>1. L!Open(text)
    BY <1>1, <1>2, <1>3, <1>6 DEF L!Open, L!Forgotten
  <2> QED BY <2>1 DEF LineStep, L!Next
<1> QED BY <1>4, <1>5, <1>6, ElsewhereStream

(* A byte that arrives is behind all that is at hand.                      *)
LEMMA ArriveLines ==
  ASSUME ReadInv, ReadInv', NEW f \in Fds, NEW c \in Char, Arrive(f, c)
  PROVE  LineStep
<1>1. /\ stream' = [stream EXCEPT ![f] = Append(@, c)] /\ line' = line
      /\ UNCHANGED <<str, cequireste>> /\ fd' = fd
      /\ f \in Source /\ f # Hand
  BY FdsAssumption DEF Arrive, readVars, cnxVars, fd, Source
<1>2. /\ stream \in [Source -> Seq(Char)]
      /\ str \in Seq(Char) /\ cequireste \in Seq(Char)
  BY DEF ReadInv, Types, Char
<1>3. \A s \in Source \ {f} : todo'[s] = todo[s]
  BY <1>1, <1>2, TodoLemma, TodoPrime
<1>4. todo'[f] = Append(todo[f], c)
  <2>1. CASE f = fd
    <3> DEFINE a == str \o cequireste
               b == stream[f]
    <3>1. a \in Seq(Char) /\ b \in Seq(Char)
      BY <1>1, <1>2
    <3> HIDE DEF a, b
    <3>2. a \o Append(b, c) = Append(a \o b, c)
      BY <3>1
    <3>3. todo[f] = a \o b /\ todo'[f] = a \o Append(b, c)
      BY <1>1, <1>2, <2>1, TodoLemma, TodoPrime DEF All, a, b
    <3> QED BY <3>2, <3>3
  <2>2. CASE f # fd
    BY <1>1, <1>2, <2>2, TodoLemma, TodoPrime
  <2> QED BY <2>1, <2>2
<1>5. L!Arrive(f, c)
  <2>1. todo' = [todo EXCEPT ![f] = Append(@, c)]
    BY <1>1, <1>3, <1>4, TodoLemma, TodoPrime
  <2> QED BY <1>1, <2>1 DEF L!Arrive, L!Forgotten
<1> QED BY <1>1, <1>5 DEF LineStep, L!Next

LEMMA NextLines == ReadInv /\ ReadInv' /\ [Next]_vars => LineStep
<1> SUFFICES ASSUME ReadInv, ReadInv', [Next]_vars PROVE LineStep
  OBVIOUS
<1>1. CASE (\E f \in Fds : PeerCloses(f)) \/ Done \/ UNCHANGED vars
  <2>1. UNCHANGED <<pc, str, cequireste, stream, client_fd, line>>
    BY <1>1 DEF PeerCloses, Done, vars, cnxVars, kernelVars, readVars
  <2>2. todo' = todo
    BY <2>1 DEF todo, fd
  <2> QED BY <2>1, <2>2, StillLines
<1> QED
  BY <1>1, TurnLines, NothingLines, HandleLines, ElsewhereLines, ArriveLines
  DEF Next, Elsewhere

(* get_next_line, called for the socket and for ~/.nscrc in turn, hands on  *)
(* the lines of each as they are in its bytes, for reads and lines of any   *)
(* length, and whatever is opened and closed on the way.                   *)
THEOREM ReadsLines == Spec => LinesSpec
<1>1. Init => L!Init
  <2> SUFFICES ASSUME Init PROVE L!Init
    OBVIOUS
  <2>1. /\ str = <<>> /\ cequireste = <<>> /\ line = None
        /\ \E text \in Nscrc :
             stream = [s \in Source |-> IF s = Hand THEN text ELSE <<>>]
    BY DEF Init
  <2>2. stream \in [Source -> Seq(Char)]
    BY InitRead DEF ReadInv, Types
  <2>3. \A s \in Source : todo[s] = stream[s]
    BY <2>1, <2>2, AllOfOne, TodoLemma
  <2>4. todo = stream
    BY <2>2, <2>3, TodoLemma
  <2> QED BY <2>1, <2>4 DEF L!Init
<1>2. ReadInv /\ ReadInv' /\ [Next]_vars => [L!Next]_<<todo, line>>
  BY NextLines DEF LineStep
<1> QED BY <1>1, <1>2, Reader, PTL DEF Spec, LinesSpec, L!Spec

-----------------------------------------------------------------------------
(* The lists of ymca.c.  A descriptor is in a list once; the terminal, which *)
(* was added first, is the last of those watched and, since the loop over    *)
(* them prepends, the first of those found ready.                           *)
Watchable == Fds \cup {0}

List(l) == l \in Seq(Watchable) /\ \A i, j \in 1 .. Len(l) : l[i] = l[j] => i = j

Members(l) == {l[i] : i \in 1 .. Len(l)}

TerminalLast(l) == \A i \in 1 .. Len(l) : l[i] = 0 => i = Len(l)
TerminalFirst(l) == \A i \in 1 .. Len(l) : l[i] = 0 => i = 1

LEMMA ToSetIs == ASSUME NEW l \in Seq(Watchable) PROVE ToSet(l) = Members(l)
BY LenProperties DEF ToSet, Members

LEMMA NoneListed == List(<<>>) /\ Members(<<>>) = {} /\ TerminalLast(<<>>) /\ TerminalFirst(<<>>)
BY EmptySeq DEF List, Members, TerminalLast, TerminalFirst

(* A cell in front of a list that has not the descriptor.                   *)
LEMMA AddedIs ==
  ASSUME NEW l, List(l), NEW f \in Watchable
  PROVE  /\ List(Added(l, f)) /\ Members(Added(l, f)) = Members(l) \cup {f}
         /\ f # 0 /\ TerminalLast(l) => TerminalLast(Added(l, f))
         /\ f # 0 /\ 0 \notin Members(l) => 0 \notin Members(Added(l, f))
         /\ f = 0 /\ 0 \notin Members(l) => TerminalFirst(Added(l, f))
<1>0. l \in Seq(Watchable) /\ Len(l) \in Nat
      /\ \A i, j \in 1 .. Len(l) : l[i] = l[j] => i = j
  BY LenProperties DEF List
<1>1. CASE Contains(l, f)
  <2>1. Added(l, f) = l /\ f \in Members(l)
    BY <1>1 DEF Added, is_fd_in_socket_list, Contains, Members
  <2> QED BY <2>1
<1>2. CASE ~Contains(l, f)
  <2> DEFINE m == Added(l, f)
             o == <<f>>
  <2>1. o \in Seq(Watchable) /\ Len(o) = 1 /\ o[1] = f /\ m = o \o l
    BY <1>2 DEF Added, is_fd_in_socket_list
  <2> HIDE DEF o, m
  <2>2. /\ m \in Seq(Watchable) /\ Len(m) = Len(l) + 1 /\ m[1] = f
        /\ \A i \in 2 .. Len(m) : m[i] = l[i - 1]
    <3>1. /\ o \o l \in Seq(Watchable) /\ Len(o \o l) = Len(o) + Len(l)
          /\ \A i \in 1 .. Len(o) + Len(l) :
               (o \o l)[i] = IF i <= Len(o) THEN o[i] ELSE l[i - Len(o)]
      BY <1>0, <2>1, ConcatProperties
    <3> QED BY <1>0, <2>1, <3>1
  <2>3. \A i \in 1 .. Len(l) : l[i] # f
    BY <1>2 DEF Contains
  <2>4. ASSUME NEW i \in 2 .. Len(m) PROVE i - 1 \in 1 .. Len(l) /\ m[i] = l[i - 1]
    BY <1>0, <2>2
  <2>5. List(m)
    <3> SUFFICES ASSUME NEW i \in 1 .. Len(m), NEW j \in 1 .. Len(m), m[i] = m[j]
                 PROVE  i = j
      BY <2>2 DEF List
    <3>1. CASE i = 1 /\ j = 1
      BY <3>1
    <3>2. CASE i = 1 /\ j # 1
      BY <2>2, <2>3, <2>4, <3>2
    <3>3. CASE i # 1 /\ j = 1
      BY <2>2, <2>3, <2>4, <3>3
    <3>4. CASE i # 1 /\ j # 1
      <4>1. i - 1 = j - 1
        BY <1>0, <2>4, <3>4, SMTT(20)
      <4> QED BY <4>1
    <3> QED BY <3>1, <3>2, <3>3, <3>4
  <2>6. Members(m) = Members(l) \cup {f}
    <3>1. ASSUME NEW i \in 1 .. Len(l) PROVE l[i] \in Members(m)
      <4>1. i + 1 \in 2 .. Len(m) /\ i + 1 \in 1 .. Len(m) /\ (i + 1) - 1 = i
        BY <1>0, <2>2
      <4>2. m[i + 1] = l[i]
        BY <2>2, <4>1
      <4> QED BY <4>1, <4>2 DEF Members
    <3>2. f \in Members(m)
      BY <1>0, <2>2 DEF Members
    <3>3. ASSUME NEW i \in 1 .. Len(m) PROVE m[i] \in Members(l) \cup {f}
      BY <2>2, <2>4 DEF Members
    <3> QED BY <3>1, <3>2, <3>3 DEF Members
  <2>7. f # 0 /\ TerminalLast(l) => TerminalLast(m)
    BY <1>0, <2>2, <2>4, SMTT(20) DEF TerminalLast
  <2>8. f = 0 /\ 0 \notin Members(l) => TerminalFirst(m)
    BY <1>0, <2>2, <2>4 DEF TerminalFirst, Members
  <2> QED BY <2>5, <2>6, <2>7, <2>8 DEF m
<1> QED BY <1>1, <1>2

(* The cell of a descriptor is taken out of the list.                       *)
LEMMA RemovedIs ==
  ASSUME NEW l, List(l), NEW f \in Watchable, NEW m, m = remove_fd_from_socket_list(l, f)
  PROVE  /\ List(m) /\ Members(m) = Members(l) \ {f}
         /\ TerminalLast(l) => TerminalLast(m)
<1>0. l \in Seq(Watchable) /\ Len(l) \in Nat
      /\ \A i, j \in 1 .. Len(l) : l[i] = l[j] => i = j
  BY LenProperties DEF List
<1>1. CASE \A i \in 1 .. Len(l) : l[i] # f
  <2>1. m = l /\ f \notin Members(l)
    BY <1>1 DEF remove_fd_from_socket_list, RemoveFirst, Members
  <2> QED BY <2>1
<1>2. CASE \E i \in 1 .. Len(l) : l[i] = f
  <2> DEFINE I == {i \in 1 .. Len(l) : l[i] = f}
             k == Min(I)
             a == SubSeq(l, 1, k - 1)
             b == SubSeq(l, k + 1, Len(l))
  <2>1. k \in 1 .. Len(l) /\ l[k] = f
    <3>1. I \in SUBSET Nat /\ I # {}
      BY <1>2
    <3>2. k \in I
      <4> HIDE DEF I
      <4> QED BY <3>1, MinIs
    <3> QED BY <3>2
  <2>2. m = a \o b
    BY <1>2 DEF remove_fd_from_socket_list, RemoveFirst, RemoveAt, SelectInSeq
  <2> HIDE DEF k
  <2>3. /\ a \in Seq(Watchable) /\ Len(a) = k - 1
        /\ \A i \in 1 .. k - 1 : a[i] = l[i]
    <3>1. \A i \in 1 .. k - 1 : l[i] \in Watchable
      BY <1>0, <2>1
    <3>2. /\ Len(a) = IF 1 <= k - 1 THEN k - 1 - 1 + 1 ELSE 0
          /\ a \in Seq(Watchable)
          /\ \A i \in 1 .. k - 1 - 1 + 1 : a[i] = l[1 + i - 1]
      BY <1>0, <2>1, <3>1, SubSeqProperties
    <3> QED BY <1>0, <2>1, <3>2
  <2>4. /\ b \in Seq(Watchable) /\ Len(b) = Len(l) - k
        /\ \A i \in 1 .. Len(l) - k : b[i] = l[k + i]
    <3>1. \A i \in k + 1 .. Len(l) : l[i] \in Watchable
      BY <1>0, <2>1
    <3>2. /\ Len(b) = IF k + 1 <= Len(l) THEN Len(l) - (k + 1) + 1 ELSE 0
          /\ b \in Seq(Watchable)
          /\ \A i \in 1 .. Len(l) - (k + 1) + 1 : b[i] = l[(k + 1) + i - 1]
      BY <1>0, <2>1, <3>1, SubSeqProperties
    <3> QED BY <1>0, <2>1, <3>2
  <2> HIDE DEF a, b
  <2>5. /\ m \in Seq(Watchable) /\ Len(m) = Len(l) - 1
        /\ \A i \in 1 .. Len(m) : m[i] = IF i < k THEN l[i] ELSE l[i + 1]
    <3>0. /\ a \o b \in Seq(Watchable) /\ Len(a \o b) = Len(a) + Len(b)
          /\ \A i \in 1 .. Len(a) + Len(b) :
               (a \o b)[i] = IF i <= Len(a) THEN a[i] ELSE b[i - Len(a)]
      <4>1. a \in Seq(Watchable) /\ b \in Seq(Watchable)
        BY <2>3, <2>4
      <4> QED BY <4>1, ConcatProperties
    <3>1. /\ m \in Seq(Watchable) /\ Len(m) = Len(l) - 1
          /\ \A i \in 1 .. Len(m) : m[i] = IF i <= Len(a) THEN a[i] ELSE b[i - Len(a)]
      <4>1. Len(a) + Len(b) = Len(l) - 1
        BY <1>0, <2>1, <2>3, <2>4
      <4> QED BY <2>2, <3>0, <4>1, Zenon
    <3>2. ASSUME NEW i \in 1 .. Len(m) PROVE m[i] = IF i < k THEN l[i] ELSE l[i + 1]
      <4>1. CASE i < k
        BY <1>0, <2>1, <2>3, <3>1, <4>1
      <4>2. CASE ~(i < k)
        <5>1. i - (k - 1) \in 1 .. Len(l) - k /\ k + (i - (k - 1)) = i + 1
          BY <1>0, <2>1, <3>1, <4>2
        <5>2. m[i] = b[i - (k - 1)]
          BY <1>0, <2>1, <2>3, <3>1, <4>2
        <5> QED BY <2>4, <4>2, <5>1, <5>2
      <4> QED BY <4>1, <4>2
    <3> QED BY <3>1, <3>2
  <2>6. List(m)
    <3> SUFFICES ASSUME NEW i \in 1 .. Len(m), NEW j \in 1 .. Len(m), m[i] = m[j]
                 PROVE  i = j
      BY <2>5 DEF List
    <3> DEFINE at(n) == IF n < k THEN n ELSE n + 1
    <3>1. /\ at(i) \in 1 .. Len(l) /\ m[i] = l[at(i)]
          /\ at(j) \in 1 .. Len(l) /\ m[j] = l[at(j)]
      BY <1>0, <2>1, <2>5
    <3>2. at(i) = at(j)
      <4> HIDE DEF at
      <4> QED BY <1>0, <3>1
    <3> QED BY <2>1, <2>5, <3>2
  <2>7. Members(m) = Members(l) \ {f}
    <3>1. ASSUME NEW i \in 1 .. Len(m) PROVE m[i] \in Members(l) \ {f}
      <4> DEFINE n == IF i < k THEN i ELSE i + 1
      <4>1. n \in 1 .. Len(l) /\ n # k /\ m[i] = l[n]
        BY <1>0, <2>1, <2>5
      <4> HIDE DEF n
      <4> QED BY <1>0, <2>1, <4>1 DEF Members
    <3>2. ASSUME NEW n \in 1 .. Len(l), l[n] # f PROVE l[n] \in Members(m)
      <4> DEFINE i == IF n < k THEN n ELSE n - 1
      <4>1. i \in 1 .. Len(m) /\ m[i] = l[n]
        BY <1>0, <2>1, <2>5, <3>2
      <4> HIDE DEF i
      <4> QED BY <4>1 DEF Members
    <3> QED BY <3>1, <3>2 DEF Members
  <2>8. ASSUME TerminalLast(l), NEW i \in 1 .. Len(m), m[i] = 0 PROVE i = Len(m)
    BY <1>0, <2>1, <2>5, <2>8 DEF TerminalLast
  <2> QED BY <2>6, <2>7, <2>8 DEF TerminalLast
<1> QED BY <1>1, <1>2

(* The loop of get_next_active_fd over the list, one cell after the other.  *)
Found(R, ready, f) == IF f \in R THEN Added(ready, f) ELSE ready

LEMMA ReadyFold ==
  ASSUME NEW R, NEW l \in Seq(Watchable)
  PROVE  \E r \in [0 .. Len(l) -> {v \in Seq(Watchable) : List(v)}] :
           /\ r[0] = <<>>
           /\ \A n \in 1 .. Len(l) : r[n] = Found(R, r[n - 1], l[n])
           /\ Ready(l, R) = r[Len(l)]
<1> DEFINE H == Len(l)
           V == {v \in Seq(Watchable) : List(v)}
           G == [n \in 1 .. H |-> [v \in V |-> Found(R, v, l[n])]]
           D == SUBSET (1 .. H)
           Q(it) == it = [t \in D |-> IF t = {} THEN <<>>
                           ELSE Found(R, it[t \ {Max(t)}], l[Max(t)])]
           c == CHOOSE it : Q(it)
<1>1. H \in Nat /\ DOMAIN l = 1 .. H /\ \A n \in 1 .. H : l[n] \in Watchable
  BY LenProperties, ElementOfSeq
<1>2. <<>> \in V
  BY NoneListed DEF List
<1>3. \A n \in 1 .. H, v \in V : Found(R, v, l[n]) \in V
  <2> SUFFICES ASSUME NEW n \in 1 .. H, NEW v \in V PROVE Found(R, v, l[n]) \in V
    OBVIOUS
  <2>1. List(v) /\ l[n] \in Watchable
    BY <1>1
  <2>2. List(Added(v, l[n]))
    BY <2>1, AddedIs
  <2> QED BY <2>2 DEF Found, List
<1>4. G \in [1 .. H -> [V -> V]]
  <2> HIDE DEF V
  <2> QED BY <1>3
<1>5. PICK it \in [D -> V] : Iterated(it, H, <<>>, G)
  <2> HIDE DEF V, G, H
  <2> QED BY <1>1, <1>2, <1>4, IteratedExists
<1>6. Q(it)
  <2>1. ASSUME NEW t \in D, t # {}
        PROVE  G[Max(t)][it[t \ {Max(t)}]] = Found(R, it[t \ {Max(t)}], l[Max(t)])
    <3>1. Max(t) \in 1 .. H
      BY <1>1, <2>1, MaxIs
    <3>2. it[t \ {Max(t)}] \in V
      <4> HIDE DEF V, H
      <4> QED BY <2>1
    <3> HIDE DEF V, H
    <3> QED BY <3>1, <3>2
  <2> HIDE DEF G, V, H
  <2> QED BY <1>5, <2>1 DEF Iterated
<1>7. Q(c)
  <2> HIDE DEF Q
  <2> QED BY <1>6
<1>8. \A t \in D : c[t] = IF t = {} THEN <<>>
                          ELSE Found(R, c[t \ {Max(t)}], l[Max(t)])
  <2> HIDE DEF c
  <2> DEFINE g == [t \in D |-> IF t = {} THEN <<>>
                           ELSE Found(R, c[t \ {Max(t)}], l[Max(t)])]
  <2>1. c = g
    BY <1>7
  <2>2. \A t \in D : g[t] = IF t = {} THEN <<>>
                            ELSE Found(R, c[t \ {Max(t)}], l[Max(t)])
    OBVIOUS
  <2> HIDE DEF g
  <2> QED BY <2>1, <2>2
<1>9. Ready(l, R) = c[1 .. H]
  BY <1>1 DEF Ready, FoldLeft, MapThenFoldSet, Found
<1> HIDE DEF c
<1>10. ASSUME NEW n \in 1 .. H, c[1 .. n - 1] \in V
       PROVE  c[1 .. n] = Found(R, c[1 .. n - 1], l[n])
  <2>1. n \in Nat /\ n > 0 /\ 1 .. n \in D
    BY <1>1
  <2> QED BY <1>8, <2>1, MaxUpTo
<1>11. PICK r \in [0 .. H -> V] : Steps(r, H, <<>>, G) /\ c[1 .. H] = r[H]
  <2>1. Folds(c, H, <<>>, G, V)
    <3>1. c[{}] = <<>>
      <4>1. {} \in D
        OBVIOUS
      <4> QED BY <1>8, <4>1
    <3> HIDE DEF V
    <3> QED BY <1>10, <3>1 DEF Folds
  <2> HIDE DEF V, G, H
  <2> QED BY <1>1, <1>2, <1>4, <2>1, FoldIs
<1>12. ASSUME NEW n \in 1 .. H PROVE r[n] = Found(R, r[n - 1], l[n])
  <2>1. n - 1 \in 0 .. H
    BY <1>1
  <2>2. r[n - 1] \in V /\ r[n] = G[n][r[n - 1]]
    <3> HIDE DEF V, G
    <3> QED BY <1>11, <2>1 DEF Steps
  <2> QED BY <2>2
<1> QED
  BY <1>9, <1>11, <1>12 DEF Steps

(* Those of the list that are in R are all there, once, the terminal first. *)
LEMMA ReadyIs ==
  ASSUME NEW R, NEW l, List(l), TerminalLast(l)
  PROVE  /\ List(Ready(l, R)) /\ Members(Ready(l, R)) = Members(l) \cap R
         /\ TerminalFirst(Ready(l, R))
<1> DEFINE H == Len(l)
<1>0. l \in Seq(Watchable) /\ H \in Nat /\ \A n \in 1 .. H : l[n] \in Watchable
  BY LenProperties, ElementOfSeq DEF List
<1>1. PICK r \in [0 .. H -> {v \in Seq(Watchable) : List(v)}] :
        /\ r[0] = <<>>
        /\ \A n \in 1 .. H : r[n] = Found(R, r[n - 1], l[n])
        /\ Ready(l, R) = r[H]
  BY <1>0, ReadyFold
<1> DEFINE P(n) == {l[i] : i \in 1 .. n}
           S == {n \in 0 .. H : /\ Members(r[n]) = P(n) \cap R
                                /\ TerminalFirst(r[n])}
<1>2. 0 \in S
  BY <1>0, <1>1, NoneListed
<1>3. ASSUME NEW n \in 1 .. H, n - 1 \in S PROVE n \in S
  <2> DEFINE v == r[n - 1]
  <2>1. /\ n \in 0 .. H /\ n - 1 \in 0 .. H /\ l[n] \in Watchable
        /\ P(n) = P(n - 1) \cup {l[n]}
    BY <1>0
  <2>2. List(v) /\ Members(v) = P(n - 1) \cap R /\ TerminalFirst(v)
    <3>1. r[n - 1] \in {w \in Seq(Watchable) : List(w)}
      BY <1>1, <2>1
    <3> QED BY <1>3, <3>1
  <2>3. r[n] = Found(R, v, l[n])
    BY <1>1
  <2>4. 0 \notin P(n - 1)
    <3>1. ASSUME NEW i \in 1 .. n - 1 PROVE l[i] # 0
      <4>1. i \in 1 .. H /\ i # H
        BY <1>0
      <4> QED BY <4>1 DEF TerminalLast
    <3> QED BY <3>1
  <2> HIDE DEF P, v
  <2>5. CASE l[n] \notin R
    <3>1. r[n] = v
      BY <2>3, <2>5 DEF Found
    <3> QED BY <2>1, <2>2, <2>5, <3>1
  <2>6. CASE l[n] \in R
    <3>1. r[n] = Added(v, l[n])
      BY <2>3, <2>6 DEF Found
    <3>2. Members(r[n]) = Members(v) \cup {l[n]}
      BY <2>1, <2>2, <3>1, AddedIs
    <3>3. 0 \notin Members(v)
      BY <2>2, <2>4
    <3>4. TerminalFirst(r[n])
      <4>1. CASE l[n] = 0
        BY <2>1, <2>2, <3>1, <3>3, <4>1, AddedIs
      <4>2. CASE l[n] # 0
        <5>1. 0 \notin Members(r[n])
          BY <3>2, <3>3, <4>2
        <5> QED BY <5>1 DEF Members, TerminalFirst
      <4> QED BY <4>1, <4>2
    <3> QED BY <2>1, <2>2, <2>6, <3>2, <3>4
  <2> QED BY <2>5, <2>6
<1>4. 0 .. H \subseteq S
  <2> HIDE DEF S
  <2> QED BY <1>0, <1>2, <1>3, UpTo
<1>5. H \in S /\ Members(l) = P(H)
  <2>1. H \in 0 .. H
    BY <1>0
  <2>2. H \in S
    <3> HIDE DEF S, H
    <3> QED BY <1>4, <2>1
  <2> QED BY <2>2 DEF Members
<1>6. List(Ready(l, R))
  <2>1. r[H] \in {v \in Seq(Watchable) : List(v)}
    BY <1>0, <1>1
  <2> QED BY <1>1, <2>1
<1> QED
  BY <1>1, <1>5, <1>6

(* The first cell of the ready list is taken.                               *)
LEMMA TailIs ==
  ASSUME NEW l, List(l), TerminalFirst(l), l # <<>>
  PROVE  /\ List(Tail(l)) /\ TerminalFirst(Tail(l))
         /\ Members(Tail(l)) = Members(l) \ {Head(l)}
         /\ Head(l) \in Members(l) /\ (0 \in Members(l) => Head(l) = 0)
<1> DEFINE m == Tail(l)
<1>1. /\ l \in Seq(Watchable) /\ Len(l) \in Nat \ {0} /\ Head(l) = l[1]
      /\ \A i, j \in 1 .. Len(l) : l[i] = l[j] => i = j
  BY EmptySeq, LenProperties DEF List
<1>2. m \in Seq(Watchable) /\ Len(m) = Len(l) - 1 /\ \A i \in 1 .. Len(m) : m[i] = l[i + 1]
  BY <1>1, HeadTailProperties
<1> HIDE DEF m
<1>3. \A i \in 1 .. Len(m) : i + 1 \in 1 .. Len(l) /\ i + 1 # 1
  BY <1>1, <1>2
<1>4. 1 \in 1 .. Len(l)
  BY <1>1
<1>5. List(m)
  <2> SUFFICES ASSUME NEW i \in 1 .. Len(m), NEW j \in 1 .. Len(m), m[i] = m[j]
               PROVE  i = j
    BY <1>2 DEF List
  <2>1. i + 1 = j + 1
    BY <1>1, <1>2, <1>3
  <2> QED BY <2>1
<1>6. Members(m) = Members(l) \ {Head(l)}
  <2>1. ASSUME NEW i \in 1 .. Len(m) PROVE m[i] \in Members(l) \ {Head(l)}
    BY <1>1, <1>2, <1>3, <1>4 DEF Members
  <2>2. ASSUME NEW i \in 1 .. Len(l), l[i] # Head(l) PROVE l[i] \in Members(m)
    <3>1. i - 1 \in 1 .. Len(m) /\ (i - 1) + 1 = i
      BY <1>1, <1>2, <2>2
    <3>2. m[i - 1] = l[i]
      BY <1>2, <3>1
    <3> QED BY <3>1, <3>2 DEF Members
  <2> QED BY <2>1, <2>2 DEF Members
<1>7. Head(l) \in Members(l) /\ (0 \in Members(l) => Head(l) = 0)
  BY <1>1, <1>4 DEF Members, TerminalFirst
<1>8. TerminalFirst(m)
  BY <1>2, <1>3 DEF TerminalFirst
<1> QED
  BY <1>5, <1>6, <1>7, <1>8 DEF m

-----------------------------------------------------------------------------
(* Loop implements Watch.                                                   *)
ListInv == /\ List(people) /\ TerminalLast(people)
           /\ List(ready_fd) /\ TerminalFirst(ready_fd)

WatchStep == W!Next \/ UNCHANGED <<ToSet(people), ToSet(ready_fd)>>

\* What Watch sees of the lists, before and after.
Seen(p, r, q, s) ==
  /\ Members(people) = p /\ Members(ready_fd) = r
  /\ Members(people') = q /\ Members(ready_fd') = s

LEMMA SeenIs ==
  ASSUME ListInv, ListInv', NEW p, NEW r, NEW q, NEW s, Seen(p, r, q, s)
  PROVE  /\ ToSet(people) = p /\ ToSet(ready_fd) = r
         /\ ToSet(people)' = q /\ ToSet(ready_fd)' = s
<1>1. ToSet(people) = p /\ ToSet(ready_fd) = r
  BY ToSetIs DEF ListInv, List, Seen
<1>2. ToSet(people') = q /\ ToSet(ready_fd') = s
  BY ToSetIs DEF ListInv, List, Seen
<1> QED BY <1>1, <1>2

LEMMA InitLists == Init => ListInv
BY NoneListed DEF Init, ListInv

LEMMA StillWatch ==
  ASSUME ListInv, UNCHANGED listVars
  PROVE  ListInv' /\ WatchStep
<1>1. people' = people /\ ready_fd' = ready_fd
  BY DEF listVars
<1> QED BY <1>1 DEF ListInv, WatchStep

LEMMA AddWatch ==
  ASSUME ListInv, NEW f \in Watchable, f # 0 \/ people = <<>>,
         people' = Added(people, f), ready_fd' = ready_fd
  PROVE  ListInv' /\ WatchStep
<1>1. List(people') /\ Members(people') = Members(people) \cup {f}
  BY AddedIs DEF ListInv
<1>2. TerminalLast(people')
  <2>1. CASE f # 0
    BY <2>1, AddedIs DEF ListInv
  <2>2. CASE people = <<>>
    <3>1. Added(people, f) = <<f>>
      BY <2>2, ConcatEmptySeq DEF Added, is_fd_in_socket_list, Contains
    <3> QED BY <3>1 DEF TerminalLast
  <2> QED BY <2>1, <2>2
<1>3. ListInv'
  BY <1>1, <1>2 DEF ListInv
<1>4. W!Add(f)
  <2>1. Seen(Members(people), Members(ready_fd), Members(people) \cup {f}, Members(ready_fd))
    BY <1>1 DEF Seen
  <2>2. /\ ToSet(people) = Members(people) /\ ToSet(ready_fd) = Members(ready_fd)
        /\ ToSet(people)' = Members(people) \cup {f} /\ ToSet(ready_fd)' = Members(ready_fd)
    BY <1>3, <2>1, SeenIs
  <2> QED BY <2>2 DEF W!Add
<1> QED BY <1>3, <1>4 DEF WatchStep, W!Next, Watchable

LEMMA RemoveWatch ==
  ASSUME ListInv, NEW f \in Watchable,
         people' = remove_fd_from_socket_list(people, f), ready_fd' = ready_fd
  PROVE  ListInv' /\ WatchStep
<1>1. List(people') /\ TerminalLast(people') /\ Members(people') = Members(people) \ {f}
  BY RemovedIs DEF ListInv
<1>2. ListInv'
  BY <1>1 DEF ListInv
<1>3. W!Remove(f)
  <2>1. Seen(Members(people), Members(ready_fd), Members(people) \ {f}, Members(ready_fd))
    BY <1>1 DEF Seen
  <2>2. /\ ToSet(people) = Members(people) /\ ToSet(ready_fd) = Members(ready_fd)
        /\ ToSet(people)' = Members(people) \ {f} /\ ToSet(ready_fd)' = Members(ready_fd)
    BY <1>2, <2>1, SeenIs
  <2> QED BY <2>2 DEF W!Remove
<1> QED BY <1>2, <1>3 DEF WatchStep, W!Next, Watchable

(* select may find ready what it was not asked for: that is not in the list. *)
LEMMA SelectWatch ==
  ASSUME ListInv, Select
  PROVE  ListInv' /\ WatchStep
<1>1. /\ ready_fd = <<>> /\ people' = people
      /\ \E R : ready_fd' = Ready(people, R)
  BY DEF Select, Selecting
<1>2. PICK R : ready_fd' = Ready(people, R)
  BY <1>1
<1> DEFINE F == Members(people) \cap R
<1>3. List(ready_fd') /\ TerminalFirst(ready_fd') /\ Members(ready_fd') = F
  BY <1>2, ReadyIs DEF ListInv
<1>4. ListInv'
  BY <1>1, <1>3 DEF ListInv
<1>5. F \subseteq Members(people) /\ F \in SUBSET Watchable
  <2>1. Members(people) \subseteq Watchable
    BY ElementOfSeq DEF ListInv, List, Members
  <2> QED BY <2>1
<1> HIDE DEF F
<1>6. /\ ToSet(people) = Members(people) /\ ToSet(ready_fd) = {}
      /\ ToSet(people)' = Members(people) /\ ToSet(ready_fd)' = F
  <2>1. Seen(Members(people), {}, Members(people), F)
    BY <1>1, <1>3, NoneListed DEF Seen
  <2> QED BY <1>4, <2>1, SeenIs
<1>7. CASE F = {}
  BY <1>4, <1>6, <1>7 DEF WatchStep
<1>8. CASE F # {}
  <2>1. W!Find(F)
    BY <1>5, <1>6, <1>8 DEF W!Find
  <2> QED BY <1>4, <1>5, <2>1 DEF WatchStep, W!Next, Watchable
<1> QED BY <1>7, <1>8

LEMMA TakeWatch ==
  ASSUME ListInv, NEW f \in Watchable, Taken(f),
         \/ people' = people
         \/ /\ f = 0
            /\ \E g \in Watchable : people' = remove_fd_from_socket_list(people, g)
  PROVE  ListInv' /\ WatchStep
<1>1. ready_fd # <<>> /\ f = Head(ready_fd) /\ ready_fd' = Tail(ready_fd)
  BY DEF Taken
<1> DEFINE r == Members(ready_fd)
<1>2. /\ List(ready_fd') /\ TerminalFirst(ready_fd') /\ Members(ready_fd') = r \ {f}
      /\ f \in r /\ (0 \in r => f = 0)
  BY <1>1, TailIs DEF ListInv
<1>3. CASE people' = people
  <2>1. ListInv'
    BY <1>2, <1>3 DEF ListInv
  <2>2. /\ ToSet(people) = Members(people) /\ ToSet(ready_fd) = r
        /\ ToSet(people)' = Members(people) /\ ToSet(ready_fd)' = r \ {f}
    <3>1. Seen(Members(people), r, Members(people), r \ {f})
      BY <1>2, <1>3 DEF Seen
    <3> HIDE DEF r
    <3> QED BY <2>1, <3>1, SeenIs
  <2>3. W!Serve(f)
    BY <1>2, <2>2 DEF W!Serve
  <2> QED BY <2>1, <2>3 DEF WatchStep, W!Next, Watchable
<1>4. ASSUME f = 0, NEW g \in Watchable, people' = remove_fd_from_socket_list(people, g)
      PROVE  ListInv' /\ WatchStep
  <2> DEFINE p == Members(people)
  <2>1. List(people') /\ TerminalLast(people') /\ Members(people') = p \ {g}
    BY <1>4, RemovedIs DEF ListInv
  <2>2. ListInv'
    BY <1>2, <2>1 DEF ListInv
  <2>3. /\ ToSet(people) = p /\ ToSet(ready_fd) = r
        /\ ToSet(people)' = p \ {g} /\ ToSet(ready_fd)' = r \ {0}
    <3>1. Seen(p, r, p \ {g}, r \ {0})
      BY <1>2, <1>4, <2>1 DEF Seen
    <3> HIDE DEF r, p
    <3> QED BY <2>2, <3>1, SeenIs
  <2>4. W!ServeAndRemove(g)
    BY <1>2, <1>4, <2>3 DEF W!ServeAndRemove
  <2> QED BY <2>2, <2>4 DEF WatchStep, W!Next, Watchable
<1> QED BY <1>3, <1>4

LEMMA ExitWatch ==
  ASSUME ListInv, Exit
  PROVE  ListInv' /\ WatchStep
<1>1. people' = <<>> /\ ready_fd' = <<>>
  BY DEF Exit, destroy_socket_list
<1>2. ListInv'
  BY <1>1, NoneListed DEF ListInv
<1>3. ToSet(people)' = {} /\ ToSet(ready_fd)' = {}
  <2>1. Seen(Members(people), Members(ready_fd), {}, {})
    BY <1>1, NoneListed DEF Seen
  <2> QED BY <1>2, <2>1, SeenIs
<1>4. W!Destroy
  BY <1>3 DEF W!Destroy
<1> QED BY <1>2, <1>4 DEF WatchStep, W!Next

LEMMA NextWatch == ReadInv /\ ListInv /\ [Next]_vars => ListInv' /\ WatchStep
<1> SUFFICES ASSUME ReadInv, ListInv, [Next]_vars PROVE ListInv' /\ WatchStep
  OBVIOUS
<1>0. client_fd \in Watchable /\ Fds \subseteq Watchable /\ 0 \in Watchable /\ 0 \notin Fds
  BY FdsAssumption DEF ReadInv, Types, Watchable
<1>1. CASE TurnOnRest \/ TurnOnRead \/ TurnOnNothing \/ Handle \/ SelectTimeout
           \/ SelectInterrupted \/ Done \/ UNCHANGED vars
  <2>1. UNCHANGED listVars
    BY <1>1 DEF TurnOnRest, TurnOnRead, TurnOnNothing, Handle, SelectTimeout,
                SelectInterrupted, Done, vars
  <2> QED BY <2>1, StillWatch
<1>2. ASSUME NEW f \in Fds, (\E c \in Char : Arrive(f, c)) \/ PeerCloses(f)
      PROVE  ListInv' /\ WatchStep
  <2>1. UNCHANGED listVars
    BY <1>2 DEF Arrive, PeerCloses
  <2> QED BY <2>1, StillWatch
<1>3. CASE Lost
  <2>1. \/ people' = people
        \/ people' = remove_fd_from_socket_list(people, client_fd)
    BY <1>3 DEF Lost, main_cc
  <2>2. ready_fd' = ready_fd
    BY <1>3 DEF Lost
  <2> QED BY <1>0, <2>1, <2>2, RemoveWatch, StillWatch DEF listVars
<1>4. CASE Loaded
  <2>1. \/ people' = people
        \/ people = <<>> /\ people' = Added(people, 0)
    BY <1>4 DEF Loaded
  <2>2. ready_fd' = ready_fd
    BY <1>4 DEF Loaded
  <2> QED BY <1>0, <2>1, <2>2, AddWatch, StillWatch DEF listVars
<1>5. CASE Connect
  <2>1. \/ people' = people
        \/ \E f \in Fds : people' = Added(people, f)
    BY <1>5 DEF Connect
  <2>2. ready_fd' = ready_fd
    BY <1>5 DEF Connect
  <2> QED BY <1>0, <2>1, <2>2, AddWatch, StillWatch DEF listVars
<1>6. CASE TakeSocket
  BY <1>0, <1>6, TakeWatch DEF TakeSocket
<1>7. CASE CmdConnect \/ CmdReload \/ CmdOther \/ CmdExit
  <2>1. Taken(0) /\ people' = people
    BY <1>7 DEF CmdConnect, CmdReload, CmdOther, CmdExit
  <2> QED BY <1>0, <2>1, TakeWatch
<1>8. CASE CmdClose
  <2>1. /\ Taken(0)
        /\ \/ people' = people
           \/ people' = remove_fd_from_socket_list(people, client_fd)
    BY <1>8 DEF CmdClose, main_cc
  <2> QED BY <1>0, <2>1, TakeWatch
<1> QED
  BY <1>1, <1>2, <1>3, <1>4, <1>5, <1>6, <1>7, <1>8, SelectWatch, ExitWatch DEF Next

(* The linked lists of ymca.c are the set of descriptors watched and the     *)
(* set of those to be served, for any number of descriptors: each is there   *)
(* once, each that is found ready is served once and the terminal first,     *)
(* whatever is closed and opened in between.                                *)
THEOREM Serves == Spec => WatchSpec
<1>1. Init => W!Init
  <2> SUFFICES ASSUME Init PROVE W!Init
    OBVIOUS
  <2>1. people = <<>> /\ ready_fd = <<>>
    BY DEF Init
  <2>2. ToSet(people) = {} /\ ToSet(ready_fd) = {}
    BY <2>1, NoneListed, ToSetIs DEF List
  <2> QED BY <2>2 DEF W!Init
<1>2. ReadInv /\ ListInv /\ [Next]_vars => ListInv'
  BY NextWatch
<1>3. ReadInv /\ ListInv /\ [Next]_vars => [W!Next]_<<ToSet(people), ToSet(ready_fd)>>
  BY NextWatch DEF WatchStep
<1> QED
  BY <1>1, <1>2, <1>3, InitLists, Reader, PTL DEF Spec, WatchSpec, W!Spec

-----------------------------------------------------------------------------
(* Types.                                                                   *)
LineType == line = None \/ line \in Source \X Seq(Letter)

OtherTypes ==
  /\ pc \in {"load", "loaded", "connect", "select", "recv", "handle", "lost",
             "exit", "stopped"}
  /\ met \in BOOLEAN /\ ret \in {0, -1}
  /\ secondes \in 0 .. SENDPING /\ quiet \in Nat /\ unseen \in Nat

KernelTypes == open \subseteq Fds /\ gone \subseteq open

(* What is before the first newline has none.                               *)
LEMMA LineIs ==
  ASSUME NEW w \in Seq(Char), NEW k, First(w, k)
  PROVE  Begin(w, k) \in Seq(Letter)
<1>1. /\ k \in 1 .. Len(w) /\ k - 1 \in 0 .. Len(w) /\ Len(w) \in Nat
      /\ \A i \in 1 .. k - 1 : w[i] # NL /\ w[i] \in Char
  BY LenProperties, ElementOfSeq DEF First
<1> DEFINE b == SubSeq(w, 1, k - 1)
<1>2. b \in Seq(Char) /\ Len(b) = k - 1 /\ \A i \in 1 .. k - 1 : b[i] = w[i]
  BY <1>1, Before
<1> HIDE DEF b
<1>3. \A i \in 1 .. Len(b) : b[i] \in Letter
  BY <1>1, <1>2 DEF Char
<1>4. b \in Seq(Letter)
  BY <1>2, <1>3, IsASeq
<1> QED BY <1>4 DEF b, Begin

LEMMA NextLine == ReadInv /\ LineType /\ [Next]_vars => LineType'
<1> SUFFICES ASSUME ReadInv, LineType, [Next]_vars PROVE LineType'
  OBVIOUS
<1>1. CASE TurnOnRest \/ TurnOnRead
  <2>1. fd \in Source
    BY <1>1, WhichTurn
  <2>2. PICK chunk \in Seq(Char), rest \in Seq(Char) : Turn(chunk)
    BY <1>1, WhichTurn
  <2> DEFINE w == All(str, chunk, rest)
  <2>3. w \in Seq(Char) /\ str \in Seq(Letter)
    BY <2>2, ConcatProperties DEF All, ReadInv, Types, Char
  <2>4. line' = line \/ \E k : First(w, k) /\ line' = <<fd, Begin(w, k)>>
    BY <2>2, <2>3, TurnLemma
  <2> HIDE DEF w
  <2>5. ASSUME NEW k, First(w, k), line' = <<fd, Begin(w, k)>> PROVE LineType'
    <3>1. Begin(w, k) \in Seq(Letter)
      BY <2>3, <2>5, LineIs
    <3> QED BY <2>1, <2>5, <3>1 DEF LineType
  <2> QED BY <2>4, <2>5 DEF LineType
<1>2. CASE TurnOnNothing
  <2>1. fd \in Source /\ str \in Seq(Letter)
    BY <1>2 DEF TurnOnNothing, ReadInv, Types, Connected, Reading, fd, Source
  <2> QED BY <1>2, <2>1 DEF TurnOnNothing, LineType
<1>3. CASE Handle
  BY <1>3 DEF Handle, LineType
<1>4. CASE UNCHANGED line
  BY <1>4 DEF LineType
<1>5. UNCHANGED line \/ TurnOnRest \/ TurnOnRead \/ TurnOnNothing \/ Handle
  BY DEF Next, vars, readVars, Lost, Loaded, Connect, Select, SelectTimeout,
     SelectInterrupted, TakeSocket, Taken, CmdConnect, CmdClose, CmdReload, CmdOther,
     CmdExit, Exit, Arrive, PeerCloses, Done
<1> QED BY <1>1, <1>2, <1>3, <1>4, <1>5

LEMMA NextOthers == OtherTypes /\ [Next]_vars => OtherTypes'
<1> SUFFICES ASSUME OtherTypes, [Next]_vars PROVE OtherTypes'
  OBVIOUS
<1>0. SELECTSEC \in Nat \ {0} /\ SENDPING \in Nat \ {0}
  BY TimeAssumption
<1>1. ASSUME NEW chunk, Turn(chunk), UNCHANGED <<met, ret, secondes>>, Heard \/ UNCHANGED <<quiet, unseen>>
      PROVE  OtherTypes'
  <2>1. pc' \in {pc, "load", "handle"}
    BY <1>1 DEF Turn
  <2>2. met' = met /\ ret' = ret /\ secondes' = secondes /\ quiet' \in Nat /\ unseen' \in Nat
    BY <1>1 DEF OtherTypes, Heard
  <2> QED BY <2>1, <2>2 DEF OtherTypes
<1>2. CASE TurnOnRest \/ TurnOnRead
  BY <1>1, <1>2 DEF TurnOnRest, TurnOnRead, timeVars, cnxVars
<1>3. CASE TurnOnNothing \/ Handle
  BY <1>3 DEF TurnOnNothing, Handle, timeVars, cnxVars, OtherTypes
<1>4. CASE Lost \/ Loaded \/ Connect
  <2>1. /\ pc' \in {"connect", "select"} /\ met' \in {met, FALSE} /\ ret' \in {ret, 0}
        /\ secondes' = secondes /\ (Heard \/ UNCHANGED <<quiet, unseen>>)
    BY <1>4 DEF Lost, main_cc, Loaded, Connect, timeVars, cnxVars
  <2>2. met' \in BOOLEAN
    BY <2>1, Zenon DEF OtherTypes
  <2>3. ret' \in {0, -1} /\ secondes' \in 0 .. SENDPING /\ quiet' \in Nat /\ unseen' \in Nat
    BY <2>1 DEF OtherTypes, Heard
  <2> QED BY <2>1, <2>2, <2>3 DEF OtherTypes
<1>5. CASE TakeSocket \/ CmdConnect \/ CmdClose \/ CmdReload \/ CmdOther
           \/ CmdExit \/ Exit
  BY <1>5 DEF TakeSocket, Taken, CmdConnect, CmdClose, main_cc, CmdReload,
              CmdOther, CmdExit, Exit, timeVars, cnxVars, OtherTypes
<1>6. ASSUME NEW sec \in Nat, NEW elapsed \in Nat, send_ping(sec, elapsed),
             UNCHANGED <<met, ret>>
      PROVE  OtherTypes'
  BY <1>0, <1>6 DEF send_ping, OtherTypes, Heard
<1>7. CASE SelectTimeout
  <2>1. (IF KEPT THEN SELECTSEC ELSE 0) \in Nat /\ SELECTSEC \in Nat
    BY <1>0
  <2> QED BY <1>6, <1>7, <2>1 DEF SelectTimeout, cnxVars
<1>8. CASE SelectInterrupted
  <2>1. PICK elapsed \in 0 .. SELECTSEC - 1 :
          send_ping(IF KEPT THEN SELECTSEC ELSE SELECTSEC - elapsed, elapsed)
    BY <1>8 DEF SelectInterrupted
  <2>2. (IF KEPT THEN SELECTSEC ELSE SELECTSEC - elapsed) \in Nat /\ elapsed \in Nat
    BY <1>0
  <2> QED BY <1>6, <1>8, <2>1, <2>2 DEF SelectInterrupted, cnxVars
<1>9. CASE (\E f \in Fds : (\E c \in Char : Arrive(f, c)) \/ PeerCloses(f)) \/ Done
           \/ UNCHANGED vars
  BY <1>9 DEF Arrive, PeerCloses, Done, vars, timeVars, cnxVars, OtherTypes
<1>10. CASE Select
  <2>1. PICK elapsed \in Nat : quiet' = quiet + elapsed /\ unseen' = unseen + elapsed
    BY <1>0, <1>10 DEF Select
  <2>2. pc' = pc /\ met' = met /\ ret' = ret /\ secondes' = secondes
    BY <1>10 DEF Select, cnxVars
  <2> QED BY <2>1, <2>2 DEF OtherTypes
<1> QED
  BY <1>2, <1>3, <1>4, <1>5, <1>7, <1>8, <1>9, <1>10 DEF Next

LEMMA NextKernel == KernelTypes /\ [Next]_vars => KernelTypes'
<1> SUFFICES ASSUME KernelTypes, [Next]_vars PROVE KernelTypes'
  OBVIOUS
<1>1. CASE \E F : Closing(F)
  BY <1>1 DEF Closing, KernelTypes
<1>2. CASE Connect
  BY <1>2 DEF Connect, KernelTypes
<1>3. CASE \E f \in Fds : PeerCloses(f)
  BY <1>3 DEF PeerCloses, KernelTypes
<1>4. CASE UNCHANGED <<open, gone>>
  BY <1>4 DEF KernelTypes
<1>5. \/ \E F : Closing(F)
      \/ Connect
      \/ \E f \in Fds : PeerCloses(f)
      \/ UNCHANGED <<open, gone>>
  <2>1. CASE Lost \/ CmdClose \/ Exit
    BY <2>1 DEF Lost, CmdClose, Exit, main_cc, destroy_socket_list
  <2>2. CASE ~(Lost \/ CmdClose \/ Exit)
    BY <2>2 DEF Next, vars, kernelVars, TurnOnRest, TurnOnRead, TurnOnNothing, Handle,
       Loaded, Select, SelectTimeout, SelectInterrupted, TakeSocket, CmdConnect,
       CmdReload, CmdOther, CmdExit, Arrive, Done
  <2> QED BY <2>1, <2>2
<1> QED BY <1>1, <1>2, <1>3, <1>4, <1>5

(* Every variable keeps its type, for every number of descriptors, read     *)
(* size, delay and ~/.nscrc: the lists hold descriptors, a line no newline. *)
THEOREM Typed == Spec => []TypeOK
<1>1. Init => LineType /\ OtherTypes /\ KernelTypes
  <2> SUFFICES ASSUME Init PROVE LineType /\ OtherTypes /\ KernelTypes
    OBVIOUS
  <2>1. /\ pc = "load" /\ met = FALSE /\ ret = 0 /\ line = None
        /\ secondes = 0 /\ quiet = 0 /\ unseen = 0 /\ open = {} /\ gone = {}
    BY DEF Init
  <2>2. met \in BOOLEAN
    BY <2>1, Zenon
  <2>3. secondes \in 0 .. SENDPING /\ quiet \in Nat /\ unseen \in Nat
    BY <2>1, TimeAssumption
  <2> QED BY <2>1, <2>2, <2>3 DEF LineType, OtherTypes, KernelTypes
<1>2. ReadInv /\ ListInv /\ LineType /\ OtherTypes /\ KernelTypes => TypeOK
  <2>1. ReadInv => r_len \in Nat
    BY LenProperties DEF ReadInv, Types, StaticsAgree
  <2> QED
    BY <2>1 DEF ReadInv, Types, ListInv, List, Watchable, LineType, OtherTypes,
                KernelTypes, TypeOK
<1> QED
  BY <1>1, <1>2, NextLine, NextOthers, NextKernel, NextWatch, InitLists, Reader,
     PTL DEF Spec
=============================================================================
