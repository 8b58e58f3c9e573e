--------------------------- MODULE RepliesProofs ---------------------------
(* The counters of Replies, for any bounds.                                *)
EXTENDS Replies, SequenceTheorems, TLAPS

(* What one request more, and one less, make of those awaited.             *)
LEMMA AwaitedMore ==
  ASSUME awaited \in Seq(Request), NEW k \in Request
  PROVE  /\ Append(awaited, k) \in Seq(Request)
         /\ Len(Append(awaited, k)) = Len(awaited) + 1
         /\ Len(awaited) \in Nat
BY AppendProperties, LenProperties

LEMMA AwaitedLess ==
  ASSUME awaited \in Seq(Request), awaited # <<>>
  PROVE  /\ Tail(awaited) \in Seq(Request)
         /\ Len(Tail(awaited)) = Len(awaited) - 1
         /\ Head(awaited) \in Request
         /\ Len(awaited) \in Nat
BY HeadTailProperties, LenProperties

LEMMA NothingShown == Nothing \in Shown
BY DEF Nothing, Shown, Kind, Request

LEMMA SumNatural == \A w, l \in Nat : 0 <= w + l
OBVIOUS

(* A request is written to the connection, when there is one.              *)
LEMMA SendAdds ==
  ASSUME InvReplies, NEW k \in Request, Send(k)
  PROVE  /\ awaited' \in Seq(Request)
         /\ Len(awaited') \in Nat /\ Len(awaited') <= Len(awaited) + 1
         /\ Len(awaited) \in Nat
         /\ k \in asks
         /\ shown' \in Shown
         /\ asks' = asks /\ type' = type /\ up' = up
<1>1. awaited \in Seq(Request)
  BY DEF InvReplies, TypeOK
<1>2. CASE up
  BY <1>1, <1>2, AwaitedMore, LenProperties, NothingShown DEF Send, always
<1>3. CASE ~up
  BY <1>1, <1>3, AwaitedMore, NothingShown DEF Send, always
<1> QED BY <1>2, <1>3

(* A request keeps the books: it is remembered, and counted once.          *)
LEMMA RequestKeeps ==
  ASSUME InvReplies, cmd_user_whois \/ cmd_user_list \/ cmd_raw
  PROVE  InvReplies'
<1>1. /\ count_whois \in Nat /\ count_list \in Nat
      /\ last_cmd \in Kind \cup {"none"}
      /\ asks \subseteq Request /\ type \in {"externe", "interne"}
      /\ up \in BOOLEAN
      /\ last_cmd = "whois" => count_whois > 0
      /\ last_cmd = "list" => count_list > 0
      /\ "raw" \notin asks => Len(awaited) <= count_whois + count_list
  BY DEF InvReplies, TypeOK, RememberedIsCounted, OwedIsCounted
<1>2. PICK k \in Request :
        /\ Send(k)
        /\ \/ /\ k = "whois" /\ last_cmd' = "whois"
              /\ count_whois' = count_whois + 1 /\ count_list' = count_list
           \/ /\ k = "list" /\ last_cmd' = "list"
              /\ count_list' = count_list + 1 /\ count_whois' = count_whois
           \/ /\ k = "raw" /\ last_cmd' = last_cmd
              /\ count_list' = count_list /\ count_whois' = count_whois
  BY DEF cmd_user_whois, cmd_user_list, cmd_raw, Request, Kind
<1>3. /\ awaited' \in Seq(Request)
      /\ Len(awaited') \in Nat /\ Len(awaited') <= Len(awaited) + 1
      /\ Len(awaited) \in Nat
      /\ k \in asks
      /\ shown' \in Shown
      /\ asks' = asks /\ type' = type /\ up' = up
  BY <1>2, SendAdds
<1>4. TypeOK'
  BY <1>1, <1>2, <1>3 DEF TypeOK, Kind
<1>5. RememberedIsCounted'
  BY <1>1, <1>2 DEF RememberedIsCounted
<1>6. OwedIsCounted'
  BY <1>1, <1>2, <1>3 DEF OwedIsCounted
<1> QED BY <1>4, <1>5, <1>6 DEF InvReplies

(* An end takes one request from those awaited and at most one from the    *)
(* counters, and only from the counter of the command remembered.          *)
LEMMA EndKeeps ==
  ASSUME InvReplies, parse_cmd_end
  PROVE  InvReplies'
<1>1. /\ count_whois \in Nat /\ count_list \in Nat
      /\ last_cmd \in {"whois", "list", "none"}
      /\ asks \subseteq Request /\ type \in {"externe", "interne"}
      /\ up \in BOOLEAN
      /\ awaited \in Seq(Request) /\ awaited # <<>>
      /\ last_cmd = "whois" => count_whois > 0
      /\ last_cmd = "list" => count_list > 0
      /\ "raw" \notin asks => Len(awaited) <= count_whois + count_list
  BY DEF InvReplies, TypeOK, RememberedIsCounted, OwedIsCounted,
         parse_cmd_end, Kind
<1>2. /\ awaited' \in Seq(Request)
      /\ Len(awaited') = Len(awaited) - 1
      /\ Head(awaited) \in Request
      /\ Len(awaited) \in Nat
  BY <1>1, AwaitedLess DEF parse_cmd_end
<1>3. /\ count_whois' \in {count_whois, count_whois - 1}
      /\ last_cmd # "whois" => count_whois' = count_whois
      /\ count_list' \in {count_list, count_list - 1}
      /\ last_cmd # "list" => count_list' = count_list
      /\ \/ /\ last_cmd' = "none"
         \/ /\ last_cmd' = last_cmd
            /\ last_cmd = "whois" => count_whois' # 0
            /\ last_cmd = "list" => count_list' # 0
  BY DEF parse_cmd_end, Counted
<1>4. /\ count_whois' \in Nat /\ count_list' \in Nat
      /\ count_whois + count_list <= count_whois' + count_list' + 1
  <2>1. CASE last_cmd = "whois"
    <3>1. /\ count_whois \in Nat /\ count_list \in Nat /\ count_whois > 0
          /\ count_list' = count_list
          /\ count_whois' = count_whois \/ count_whois' = count_whois - 1
      BY <1>1, <1>3, <2>1
    <3> QED BY <3>1
  <2>2. CASE last_cmd = "list"
    <3>1. /\ count_whois \in Nat /\ count_list \in Nat /\ count_list > 0
          /\ count_whois' = count_whois
          /\ count_list' = count_list \/ count_list' = count_list - 1
      BY <1>1, <1>3, <2>2
    <3> QED BY <3>1
  <2>3. CASE last_cmd = "none"
    BY <1>1, <1>3, <2>3
  <2> QED BY <1>1, <2>1, <2>2, <2>3
<1>5. shown' \in Shown
  BY <1>1, <1>2, NothingShown DEF parse_cmd_end, Shown, Kind
<1>6. asks' = asks /\ type' = type /\ up' = up
  BY DEF parse_cmd_end, always
<1>7. TypeOK'
  BY <1>1, <1>2, <1>3, <1>4, <1>5, <1>6 DEF TypeOK, Kind
<1>8. RememberedIsCounted'
  BY <1>3, <1>4 DEF RememberedIsCounted
<1>9. OwedIsCounted'
  <2>1. /\ awaited' \in Seq(Request) /\ Len(awaited') \in Nat
        /\ Len(awaited) \in Nat /\ Len(awaited') = Len(awaited) - 1
        /\ count_whois \in Nat /\ count_list \in Nat
        /\ count_whois' \in Nat /\ count_list' \in Nat
        /\ count_whois + count_list <= count_whois' + count_list' + 1
        /\ "raw" \notin asks' => Len(awaited) <= count_whois + count_list
    BY <1>1, <1>2, <1>4, <1>6, LenProperties
  <2>2. "raw" \notin asks' => Len(awaited') <= count_whois' + count_list'
    <3>1. PICK w \in Nat, l \in Nat : w = count_whois' /\ l = count_list'
      BY <2>1
    <3>2. count_whois + count_list <= w + l + 1
      BY <2>1, <3>1
    <3>3. "raw" \notin asks' => Len(awaited') <= w + l
      BY <2>1, <3>2
    <3> QED BY <3>1, <3>3
  <2> QED BY <2>2 DEF OwedIsCounted
<1> QED BY <1>7, <1>8, <1>9 DEF InvReplies

(* The variables keep their types, and the two invariants of the counters  *)
(* hold of every user and every server.                                    *)
THEOREM RepliesInv == Spec => []InvReplies
<1>1. Init => InvReplies
  BY EmptySeq, NothingShown
  DEF Init, InvReplies, TypeOK, RememberedIsCounted, OwedIsCounted
<1>2. InvReplies /\ [Next]_vars => InvReplies'
  <2> SUFFICES ASSUME InvReplies, [Next]_vars
               PROVE  InvReplies'
    OBVIOUS
  <2>1. CASE cmd_user_whois \/ cmd_user_list \/ cmd_raw
    BY <2>1, RequestKeeps
  <2>2. CASE parse_cmd_end
    BY <2>2, EndKeeps
  <2>3. CASE Lost
    <3>1. /\ count_whois \in Nat /\ count_list \in Nat
          /\ awaited' \in Seq(Request) /\ Len(awaited') = 0
      BY <2>3, EmptySeq DEF Lost, InvReplies, TypeOK
    <3>2. TypeOK' /\ RememberedIsCounted'
      BY <2>3, <3>1, NothingShown
      DEF Lost, always, InvReplies, TypeOK, RememberedIsCounted
    <3>3. OwedIsCounted'
      <4>1. count_whois' \in Nat /\ count_list' \in Nat
        BY <3>2 DEF TypeOK
      <4>2. 0 <= count_whois' + count_list'
        BY <4>1, SumNatural
      <4> QED BY <3>1, <4>2 DEF OwedIsCounted
    <3> QED BY <3>2, <3>3 DEF InvReplies
  <2>4. CASE LoggedInAgain
    BY <2>4, NothingShown
    DEF LoggedInAgain, always, InvReplies, TypeOK, RememberedIsCounted,
        OwedIsCounted
  <2>5. CASE UNCHANGED vars
    BY <2>5 DEF vars, always, InvReplies, TypeOK, RememberedIsCounted,
                OwedIsCounted
  <2> QED BY <2>1, <2>2, <2>3, <2>4, <2>5 DEF Next
<1> QED BY <1>1, <1>2, PTL DEF Spec

(* Whom the last request is for, once another one is behind it, or the     *)
(* first is answered.                                                       *)
LEMMA LatestOfMore ==
  ASSUME awaited \in Seq(Request), NEW r \in Request, NEW k \in Kind,
         awaited' = Append(awaited, r), Latest(k)'
  PROVE  r = k \/ (r = "raw" /\ Latest(k))
<1>1. /\ DOMAIN awaited = 1 .. Len(awaited) /\ Len(awaited) \in Nat
      /\ DOMAIN awaited' = 1 .. Len(awaited) + 1
      /\ \A i \in 1 .. Len(awaited) : awaited'[i] = awaited[i]
      /\ awaited'[Len(awaited) + 1] = r
  BY AppendProperties, LenProperties
<1>2. PICK i \in DOMAIN awaited' :
        awaited'[i] = k /\ \A j \in DOMAIN awaited' : j > i => awaited'[j] = "raw"
  BY DEF Latest
<1>3. CASE i = Len(awaited) + 1
  BY <1>1, <1>2, <1>3
<1>4. CASE i # Len(awaited) + 1
  <2>1. i \in DOMAIN awaited /\ r = "raw"
    BY <1>1, <1>2, <1>4
  <2>2. awaited[i] = k /\ \A j \in DOMAIN awaited : j > i => awaited[j] = "raw"
    BY <1>1, <1>2, <2>1
  <2> QED
    BY <2>1, <2>2 DEF Latest
<1> QED
  BY <1>3, <1>4

LEMMA LatestOfLess ==
  ASSUME awaited \in Seq(Request), awaited # <<>>, NEW k \in Kind,
         awaited' = Tail(awaited), Latest(k)'
  PROVE  Latest(k)
<1>1. /\ DOMAIN awaited = 1 .. Len(awaited) /\ Len(awaited) \in Nat
      /\ DOMAIN awaited' = 1 .. Len(awaited) - 1
      /\ \A i \in 1 .. Len(awaited) - 1 : awaited'[i] = awaited[i + 1]
  BY HeadTailProperties, LenProperties
<1>2. PICK i \in DOMAIN awaited' :
        awaited'[i] = k /\ \A j \in DOMAIN awaited' : j > i => awaited'[j] = "raw"
  BY DEF Latest
<1>3. i + 1 \in DOMAIN awaited /\ awaited[i + 1] = k
  BY <1>1, <1>2
<1>4. ASSUME NEW j \in DOMAIN awaited, j > i + 1 PROVE awaited[j] = "raw"
  <2>1. j - 1 \in DOMAIN awaited' /\ j - 1 > i /\ awaited[j] = awaited'[j - 1]
    BY <1>1, <1>2, <1>4
  <2> QED
    BY <1>2, <2>1
<1> QED
  BY <1>3, <1>4 DEF Latest

(* Each step leaves the last request with its name, or, when the name was  *)
(* forgotten, with a counter at zero.                                       *)
LEMMA LatestKept ==
  ASSUME IInv, [Next]_vars
  PROVE  LatestIsNamed'
<1>1. /\ awaited \in Seq(Request)
      /\ last_cmd \in {"whois", "list", "none"}
      /\ last_cmd = "whois" => count_whois > 0
      /\ last_cmd = "list" => count_list > 0
      /\ count_whois \in Nat /\ count_list \in Nat
      /\ ~up => awaited = <<>>
  BY DEF IInv, InvReplies, TypeOK, RememberedIsCounted, LostIsNotOwed, Kind
<1>2. SUFFICES ASSUME NEW k \in Kind, Latest(k)'
               PROVE  \/ last_cmd' = k
                      \/ /\ last_cmd' = "none"
                         /\ (IF k = "whois" THEN count_whois' ELSE count_list') = 0
  BY DEF LatestIsNamed
<1>3. Latest(k) => \/ last_cmd = k
                   \/ /\ last_cmd = "none"
                      /\ (IF k = "whois" THEN count_whois ELSE count_list) = 0
  BY DEF IInv, LatestIsNamed
<1>4. CASE cmd_user_whois \/ cmd_user_list \/ cmd_raw
  <2>1. PICK r \in Request :
          /\ awaited' = IF up THEN Append(awaited, r) ELSE awaited
          /\ r \in Kind => last_cmd' = r
          /\ r = "raw" => UNCHANGED <<last_cmd, count_whois, count_list>>
          /\ r = "raw" \/ r \in Kind
    BY <1>4 DEF cmd_user_whois, cmd_user_list, cmd_raw, Send, Request, Kind
  <2>2. CASE up
    <3>1. r = k \/ (r = "raw" /\ Latest(k))
      BY <1>1, <1>2, <2>1, <2>2, LatestOfMore
    <3> QED
      BY <1>2, <1>3, <2>1, <3>1
  <2>3. CASE ~up /\ r = "raw"
    BY <1>2, <1>3, <2>1, <2>3 DEF Latest
  <2>4. CASE ~up /\ r \in Kind
    BY <1>1, <1>2, <2>1, <2>4 DEF Latest
  <2> QED
    BY <2>1, <2>2, <2>3, <2>4
<1>5. CASE parse_cmd_end
  <2>1. Latest(k)
    BY <1>1, <1>2, <1>5, LatestOfLess DEF parse_cmd_end
  <2>2. CASE last_cmd = "none"
    BY <1>3, <1>5, <2>1, <2>2 DEF parse_cmd_end, Counted, Kind
  <2>3. CASE last_cmd = k
    BY <1>5, <2>3 DEF parse_cmd_end, Kind
  <2> QED
    BY <1>3, <2>1, <2>2, <2>3
<1>6. CASE Lost
  BY <1>2, <1>6 DEF Lost, Latest
<1>7. CASE LoggedInAgain \/ UNCHANGED vars
  BY <1>2, <1>3, <1>7 DEF LoggedInAgain, vars, Latest
<1> QED
  BY <1>4, <1>5, <1>6, <1>7 DEF Next

THEOREM RepliesIInv == Spec => []IInv
<1>1. Init => LatestIsNamed /\ LostIsNotOwed
  BY DEF Init, LatestIsNamed, Latest, LostIsNotOwed
<1>2. IInv /\ [Next]_vars => LatestIsNamed'
  BY LatestKept
<1>3. IInv /\ [Next]_vars => LostIsNotOwed'
  BY DEF IInv, LostIsNotOwed, Next, cmd_user_whois, cmd_user_list, cmd_raw, Send,
         parse_cmd_end, Lost, LoggedInAgain, vars
<1>4. IInv <=> InvReplies /\ LatestIsNamed /\ LostIsNotOwed
  BY DEF IInv
<1> QED
  BY <1>1, <1>2, <1>3, <1>4, RepliesInv, PTL DEF Spec

(* Every variable keeps its type.                                           *)
THEOREM Types == Spec => []TypeOK
BY RepliesInv, PTL DEF InvReplies

(* When the counters are exact and answers to one command only are due, the *)
(* next end is printed as the end of that command, whatever was lost,       *)
(* answered out of turn or asked raw before.                                *)
THEOREM Named == Spec => []ExactIsNamed
<1>1. IInv => ExactIsNamed
  <2> SUFFICES ASSUME IInv, NEW k \in Kind,
                      awaited # <<>>, \A i \in DOMAIN awaited : awaited[i] = k,
                      count_whois = IF k = "whois" THEN Len(awaited) ELSE 0,
                      count_list = IF k = "list" THEN Len(awaited) ELSE 0
               PROVE  last_cmd = k
    BY DEF ExactIsNamed
  <2>1. awaited \in Seq(Request)
    BY DEF IInv, InvReplies, TypeOK
  <2>2. /\ Len(awaited) \in Nat /\ Len(awaited) # 0
        /\ DOMAIN awaited = 1 .. Len(awaited)
    BY <2>1, EmptySeq, LenProperties
  <2>3. Latest(k)
    <3>1. Len(awaited) \in DOMAIN awaited
      BY <2>2
    <3>2. \A j \in DOMAIN awaited : ~(j > Len(awaited))
      BY <2>2
    <3> QED
      BY <3>1, <3>2 DEF Latest
  <2>4. (IF k = "whois" THEN count_whois ELSE count_list) # 0
    BY <2>2 DEF Kind
  <2> QED
    BY <2>3, <2>4 DEF IInv, LatestIsNamed
<1> QED
  BY <1>1, RepliesIInv, PTL

(* A remembered command is counted: no counter goes below zero.            *)
THEOREM Remembered == Spec => []RememberedIsCounted
BY RepliesInv, PTL DEF InvReplies

(* An answer that is owed is counted, unless the user sends raw requests.  *)
THEOREM Owed == Spec => []OwedIsCounted
BY RepliesInv, PTL DEF InvReplies

=============================================================================
