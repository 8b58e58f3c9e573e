--------------------------- MODULE SessionProofs ---------------------------
(***************************************************************************)
(* The safety of Session for every set of connections and descriptors,     *)
(* every bound and every configuration: IInv is inductive.                 *)
(***************************************************************************)
EXTENDS Session, SequenceTheorems, TLAPS

-----------------------------------------------------------------------------
(* The connection in use is one, whenever there is a descriptor for it.    *)
LEMMA CurConn ==
  ASSUME TypeOK, WatchedAreOpen, Running, client_fd # 0
  PROVE  /\ client_fd \in Fds /\ file[client_fd] # NoConn
         /\ cur = file[client_fd] /\ cur \in Conn
BY DEF TypeOK, WatchedAreOpen, cur

(* A connection that is not open yet is one.                              *)
LEMMA IdleType == Idle \in LinkType
BY DEF Idle, LinkType, Begun, NoLine, Server, Word

(* Closing descriptors, the only thing main_cc and the end of the process  *)
(* do to the kernel, leaves files and connections well typed.              *)
LEMMA ClosingType ==
  ASSUME TypeOK, NEW F \in SUBSET Fds, Closing(F)
  PROVE  /\ file' \in [Fds -> Conn \cup {NoConn}]
         /\ link' \in [Conn -> LinkType]
BY IdleType DEF TypeOK, Closing

(* writebuffer of a handshake line adds it to what was said on the         *)
(* connection in use, and changes nothing else.                            *)
LEMMA WroteLemma ==
  ASSUME link \in [Conn -> LinkType], cur \in Conn, NEW m \in Handshake,
         NEW g, g = Wrote(m)
  PROVE  /\ g \in [Conn -> LinkType]
         /\ g[cur].out = Append(link[cur].out, m)
         /\ g[cur].digest = link[cur].digest /\ g[cur].told = link[cur].told
         /\ g[cur].net = link[cur].net /\ g[cur].begun = link[cur].begun
         /\ g[cur].srv = link[cur].srv /\ g[cur].heard = link[cur].heard
         /\ g[cur].cut = link[cur].cut
         /\ \A d \in Conn \ {cur} : g[d] = link[d]
<1>1. g = [link EXCEPT ![cur].out = Append(@, m)]
  BY DEF Wrote
<1>2. link[cur] \in LinkType /\ Append(link[cur].out, m) \in Seq(Handshake)
  BY DEF LinkType
<1>3. [link[cur] EXCEPT !.out = Append(@, m)] \in LinkType
  BY <1>2 DEF LinkType
<1>4. \A d \in Conn \ {cur} : g[d] = link[d]
  BY <1>1
<1>5. g[cur] = [link[cur] EXCEPT !.out = Append(@, m)]
  BY <1>1
<1>6. g \in [Conn -> LinkType]
  BY <1>1, <1>3
<1> QED BY <1>2, <1>4, <1>5, <1>6 DEF LinkType

(* Announcing a state changes only the last state the server was told.     *)
LEMMA ToldLemma ==
  ASSUME NEW lk \in [Conn -> LinkType], NEW c \in Conn,
         NEW w \in Word \cup {"none"}, NEW g, g = [lk EXCEPT ![c].told = w]
  PROVE  /\ g \in [Conn -> LinkType]
         /\ g[c].out = lk[c].out /\ g[c].digest = lk[c].digest
         /\ g[c].told = w /\ g[c].net = lk[c].net
         /\ g[c].begun = lk[c].begun /\ g[c].srv = lk[c].srv
         /\ g[c].heard = lk[c].heard /\ g[c].cut = lk[c].cut
         /\ \A d \in Conn \ {c} : g[d] = lk[d]
<1>1. lk[c] \in LinkType
  OBVIOUS
<1>2. g[c] = [lk[c] EXCEPT !.told = w]
  OBVIOUS
<1>3. g \in [Conn -> LinkType]
  BY <1>1 DEF LinkType
<1>4. \A d \in Conn \ {c} : g[d] = lk[d]
  OBVIOUS
<1> QED BY <1>1, <1>2, <1>3, <1>4 DEF LinkType

Talk(g) ==
  \A d \in Conn : /\ g[d].out = link[d].out
                  /\ g[d].told = link[d].told
                  /\ g[d].digest = link[d].digest

(* Bytes moving between server, kernel and program say nothing.            *)
LEMMA BytesLemma ==
  ASSUME link \in [Conn -> LinkType], NEW c \in Conn, NEW n \in Seq(Line),
         NEW g, g = [link EXCEPT ![c].net = n]
  PROVE  g \in [Conn -> LinkType] /\ Talk(g)
<1>0. link[c] \in LinkType
  OBVIOUS
<1>1. \A d \in Conn \ {c} : g[d] = link[d]
  OBVIOUS
<1>2. g[c] = [link[c] EXCEPT !.net = n]
  OBVIOUS
<1>3. /\ g[c] \in LinkType
      /\ g[c].out = link[c].out /\ g[c].told = link[c].told
      /\ g[c].digest = link[c].digest
  BY <1>0, <1>2 DEF LinkType
<1>4. g = [d \in Conn |-> g[d]]
  OBVIOUS
<1>5. g \in [Conn -> LinkType]
  BY <1>1, <1>3, <1>4
<1> QED BY <1>1, <1>3, <1>5 DEF Talk

(* Nor does reading a line that is cut.                                    *)
LEMMA CutLemma ==
  ASSUME link \in [Conn -> LinkType], NEW c \in Conn, NEW b \in Begun,
         NEW g, g = [link EXCEPT ![c].begun = b, ![c].cut = TRUE]
  PROVE  g \in [Conn -> LinkType] /\ Talk(g)
<1>0. link[c] \in LinkType
  OBVIOUS
<1>1. \A d \in Conn \ {c} : g[d] = link[d]
  OBVIOUS
<1>2. g[c] = [link[c] EXCEPT !.begun = b, !.cut = TRUE]
  OBVIOUS
<1>3. /\ g[c] \in LinkType
      /\ g[c].out = link[c].out /\ g[c].told = link[c].told
      /\ g[c].digest = link[c].digest
  BY <1>0, <1>2 DEF LinkType
<1>4. g = [d \in Conn |-> g[d]]
  OBVIOUS
<1>5. g \in [Conn -> LinkType]
  BY <1>1, <1>3, <1>4
<1> QED BY <1>1, <1>3, <1>5 DEF Talk

-----------------------------------------------------------------------------
(* IInv in three parts: Core, which most steps leave alone as a whole; the *)
(* types of what Core does not mention; and HalfBegun.                     *)
RestType ==
  /\ ready_fd \subseteq Fds \cup {0}
  /\ residue \in Seq(Line) /\ half \in BOOLEAN
  /\ conf \subseteq ConfItem
  /\ secondes \in 0 .. SENDPING /\ propagate_sigwinch \in BOOLEAN
  /\ typed \in BOOLEAN

SockType ==
  /\ pc \in {"select", "connect", "recv", "exit", "stopped", "killed"}
  /\ status \in Status
  /\ client_fd \in Fds \cup {0}
  /\ people \subseteq Fds \cup {0}
  /\ file \in [Fds -> Conn \cup {NoConn}]
  /\ link \in [Conn -> LinkType]
  /\ ret \in {0, -1}
  /\ chal \in Conn \cup {NoConn}

Core ==
  /\ SockType
  /\ WatchedAreOpen
  /\ OneDescriptor
  /\ PlaceFits
  /\ ResidueDrained
  /\ StatusSet
  /\ HandshakeInOrder
  /\ ChallengeAtHand
  /\ OwnChallenge
  /\ ~INTERNE => PresenceTold

(* The three parts are IInv.                                               *)
LEMMA Parts == IInv <=> Core /\ RestType /\ HalfBegun
BY DEF IInv, Core, RestType, SockType, TypeOK

(* The same after a step.                                                  *)
LEMMA PartsPrime == IInv' <=> Core' /\ RestType' /\ HalfBegun'
BY DEF IInv, Core, RestType, SockType, TypeOK

(* Appending to a tuple of one, or of two, gives the longer tuple.          *)
LEMMA AppendTwo ==
  ASSUME NEW x \in Handshake, NEW y \in Handshake
  PROVE  Append(<<x>>, y) = <<x, y>>
<1>1. <<x>> \in Seq(Handshake) /\ Len(<<x>>) = 1
  OBVIOUS
<1>2. /\ Append(<<x>>, y) \in Seq(Handshake) /\ Len(Append(<<x>>, y)) = 2
      /\ <<x, y>> \in Seq(Handshake) /\ Len(<<x, y>>) = 2
  BY <1>1
<1>3. \A i \in 1 .. 2 : Append(<<x>>, y)[i] = <<x, y>>[i]
  BY <1>1
<1> QED BY <1>2, <1>3, SeqEqual

(* The same, one line longer.                                              *)
LEMMA AppendThree ==
  ASSUME NEW x \in Handshake, NEW y \in Handshake, NEW z \in Handshake
  PROVE  Append(<<x, y>>, z) = <<x, y, z>>
<1>1. <<x, y>> \in Seq(Handshake) /\ Len(<<x, y>>) = 2
  OBVIOUS
<1>2. /\ Append(<<x, y>>, z) \in Seq(Handshake)
      /\ Len(Append(<<x, y>>, z)) = 3
      /\ <<x, y, z>> \in Seq(Handshake) /\ Len(<<x, y, z>>) = 3
  BY <1>1
<1>3. \A i \in 1 .. 3 : Append(<<x, y>>, z)[i] = <<x, y, z>>[i]
  BY <1>1
<1> QED BY <1>2, <1>3, SeqEqual

(* Each line of the handshake extends what was said before it.             *)
LEMMA SaidUpToLemma ==
  /\ SaidUpTo(0) = <<>>
  /\ SaidUpTo(1) = Append(SaidUpTo(0), "auth_ag")
  /\ SaidUpTo(2) = Append(SaidUpTo(1), "ext_user_log")
  /\ SaidUpTo(3) = Append(SaidUpTo(2), "watch_log_user")
<1>1. /\ SaidUpTo(0) = <<>>
      /\ SaidUpTo(1) = <<"auth_ag">>
      /\ SaidUpTo(2) = <<"auth_ag", "ext_user_log">>
      /\ SaidUpTo(3) = <<"auth_ag", "ext_user_log", "watch_log_user">>
  BY DEF SaidUpTo
<1>2. <<"auth_ag">> = Append(<<>>, "auth_ag")
  OBVIOUS
<1>3. {"auth_ag", "ext_user_log", "watch_log_user"} \subseteq Handshake
  BY DEF Handshake
<1> QED BY <1>1, <1>2, <1>3, AppendTwo, AppendThree, ZenonT(40)

-----------------------------------------------------------------------------
(* A signal, or a pointer that is NULL, ends the process: every descriptor *)
(* is closed and nothing is left to go wrong.                              *)
LEMMA DieCore ==
  ASSUME IInv, Die, chal' \in Conn \cup {NoConn}
  PROVE  Core' /\ HalfBegun'
<1>1. /\ file' \in [Fds -> Conn \cup {NoConn}]
      /\ link' \in [Conn -> LinkType]
      /\ \A f \in Fds : file'[f] = NoConn
      /\ \A c \in Conn : link'[c] \in {Idle, link[c]}
  BY ClosingType DEF Die, Closing, IInv, TypeOK
<1>2. SockType' /\ pc' = "killed" /\ ~Running'
  BY <1>1 DEF Die, SockType, IInv, TypeOK, Running
<1>3. \A c \in Conn : \E n \in 0 .. 3 : link'[c].out = SaidUpTo(n)
  BY <1>1, SaidUpToLemma DEF IInv, HandshakeInOrder, Idle
<1>4. OwnChallenge'
  BY <1>1 DEF IInv, OwnChallenge, Idle
<1>5. HandshakeInOrder'
  BY <1>2, <1>3 DEF HandshakeInOrder
<1>6. StatusSet'
  BY DEF Die, IInv, StatusSet
<1>7. OneDescriptor'
  BY <1>1 DEF OneDescriptor
<1> QED
  BY <1>2, <1>4, <1>5, <1>6, <1>7
  DEF Core, WatchedAreOpen, PlaceFits, ResidueDrained, HalfBegun,
      ChallengeAtHand, PresenceTold

(* main_cc: the connection, its descriptor and CNX_STATUS go together, at  *)
(* a place where nothing read from it is left.                             *)
LEMMA MainCcCore ==
  ASSUME IInv, Running, main_cc, pc' \in {"select", "connect"},
         residue' = <<>>, half' = FALSE, ret' \in {0, -1},
         chal' \in Conn \cup {NoConn}
  PROVE  Core' /\ HalfBegun'
<1> DEFINE F == {client_fd} \ {0}
<1>1. F \in SUBSET Fds
  BY DEF IInv, TypeOK
<1>2. Closing(F) /\ people' = people \ F
  BY DEF main_cc
<1>3. /\ file' \in [Fds -> Conn \cup {NoConn}]
      /\ link' \in [Conn -> LinkType]
  BY <1>1, <1>2, ClosingType DEF IInv
<1>4. /\ \A f \in Fds : file'[f] = IF f \in F THEN NoConn ELSE file[f]
      /\ \A c \in Conn : link'[c] \in {Idle, link[c]}
  BY <1>2 DEF Closing
<1>5. client_fd' = 0 /\ status' = "NOT_CONNECTED" /\ Running'
  BY DEF main_cc, Running
<1>6. SockType'
  BY <1>2, <1>3, <1>5 DEF SockType, IInv, TypeOK, Status, Handshaking
<1>7. WatchedAreOpen'
  BY <1>1, <1>2, <1>4, <1>5, FdsAssumption
  DEF IInv, TypeOK, WatchedAreOpen
<1>8. OneDescriptor'
  BY <1>4 DEF IInv, OneDescriptor
<1>9. \A c \in Conn : \E n \in 0 .. 3 : link'[c].out = SaidUpTo(n)
  BY <1>4, SaidUpToLemma DEF IInv, HandshakeInOrder, Idle
<1>10. HandshakeInOrder'
  BY <1>5, <1>9 DEF HandshakeInOrder
<1>11. OwnChallenge'
  BY <1>4 DEF IInv, OwnChallenge, Idle
<1> QED
  BY <1>5, <1>6, <1>7, <1>8, <1>10, <1>11
  DEF Core, StatusSet, PlaceFits, ResidueDrained, HalfBegun,
      ChallengeAtHand, PresenceTold

\* A step of the running program that leaves the connection where it is.
Stays ==
  /\ UNCHANGED <<client_fd, people, file>>
  /\ pc' \in {"select", "connect", "recv", "exit"}
  /\ pc' = "recv" => client_fd # 0
  /\ residue' # <<>> \/ half' => pc' = "recv"
  /\ ret' \in {0, -1}

(* A step that says nothing to the server and leaves CNX_STATUS alone.     *)
LEMMA QuietCore ==
  ASSUME IInv, Running, Stays, UNCHANGED status,
         pc' = "connect" => status = "NOT_CONNECTED",
         link' \in [Conn -> LinkType], Talk(link'), chal' \in {chal, NoConn}
  PROVE  Core'
<1>1. SockType' /\ Running' /\ cur' = cur
  BY DEF Stays, SockType, IInv, TypeOK, Running, cur
<1>2. WatchedAreOpen' /\ OneDescriptor' /\ PlaceFits' /\ ResidueDrained'
  BY DEF Stays, IInv, WatchedAreOpen, OneDescriptor, PlaceFits, ResidueDrained
<1>3. client_fd # 0 => cur \in Conn
  BY CurConn DEF IInv
<1>4. HandshakeInOrder'
  BY <1>1, <1>3 DEF Stays, Talk, IInv, HandshakeInOrder
<1>5. ChallengeAtHand' /\ StatusSet'
  BY <1>1 DEF Stays, IInv, ChallengeAtHand, StatusSet
<1>6. OwnChallenge'
  BY DEF Talk, IInv, OwnChallenge
<1>7. ~INTERNE => PresenceTold'
  BY <1>1, <1>3 DEF Stays, Talk, IInv, PresenceTold, StatusOf
<1> QED
  BY <1>1, <1>2, <1>4, <1>5, <1>6, <1>7 DEF Core

\* nsc_recv_data goes on, or returns, having said on the connection what lk
\* holds and set CNX_STATUS to s.
Kept(s, lk) == Stays /\ pc' # "connect" /\ status' = s /\ link' = lk

\* ... or it returned -1, or a write raised SIGPIPE.
Ended == Die \/ (Lost /\ residue' = <<>> /\ half' = FALSE)

(* The three lines of the handshake: each is said after the previous one,  *)
(* and CNX_STATUS moves with it.                                           *)
LEMMA SpeakCore ==
  ASSUME IInv, Running, client_fd # 0, Stays, pc' # "connect",
         link' \in [Conn -> LinkType],
         \A d \in Conn \ {cur} : link'[d] = link[d],
         \/ /\ status' = "NOT_AUTH" /\ link'[cur].out = SaidUpTo(1)
            /\ link'[cur].digest = link[cur].digest /\ chal' = cur
         \/ /\ status' = "ATTACH_SENT" /\ link'[cur].out = SaidUpTo(2)
            /\ link'[cur].digest \subseteq {cur, NoConn} /\ chal' = chal
         \/ /\ status' = "ACTIF" /\ link'[cur].out = SaidUpTo(3)
            /\ link'[cur].told = "actif"
            /\ link'[cur].digest = link[cur].digest /\ chal' = chal
  PROVE  Core'
<1>1. cur \in Conn /\ cur' = cur
  BY CurConn DEF IInv, Stays, cur
<1>2. SockType' /\ Running'
  BY <1>1 DEF Stays, SockType, IInv, TypeOK, Running, Status, Handshaking,
              Logged
<1>3. WatchedAreOpen' /\ OneDescriptor' /\ PlaceFits' /\ ResidueDrained'
  BY DEF Stays, IInv, WatchedAreOpen, OneDescriptor, PlaceFits, ResidueDrained
<1>4. \A c \in Conn : \E n \in 0 .. 3 : link'[c].out = SaidUpTo(n)
  BY <1>1 DEF IInv, HandshakeInOrder
<1>5. HandshakeInOrder'
  BY <1>1, <1>4 DEF Stays, HandshakeInOrder
<1>6. ChallengeAtHand' /\ StatusSet'
  BY <1>1 DEF Stays, IInv, ChallengeAtHand, StatusSet
<1>7. OwnChallenge'
  BY <1>1 DEF IInv, OwnChallenge
<1>8. PresenceTold'
  BY <1>1 DEF PresenceTold, StatusOf, Logged
<1> QED
  BY <1>2, <1>3, <1>5, <1>6, <1>7, <1>8 DEF Core

(* cmd_user_state: the last state announced and CNX_STATUS move together,  *)
(* whatever the handshake has reached.                                     *)
LEMMA StateCore ==
  ASSUME IInv, pc = "select", NEW w \in Word,
         status' = StatusOf(w), link' = Told(w), chal' = chal,
         UNCHANGED <<pc, client_fd, people, file, ret, residue, half>>
  PROVE  Core'
<1>1. Running /\ Running'
  BY DEF Running
<1>2. \/ status' \in Logged \ {"CONNECTION"}
      \/ w = "server" /\ status' = status
  BY DEF StatusOf, Logged, Word
<1>3. /\ link' \in [Conn -> LinkType]
      /\ \A d \in Conn : /\ link'[d].out = link[d].out
                         /\ link'[d].digest = link[d].digest
      /\ client_fd # 0 => link'[cur].told = w
  <2>1. CASE client_fd = 0
    BY <2>1 DEF Told, IInv, TypeOK
  <2>2. CASE client_fd # 0
    <3>1. cur \in Conn /\ link \in [Conn -> LinkType]
      BY <1>1, <2>2, CurConn DEF IInv, TypeOK
    <3>2. link' = [link EXCEPT ![cur].told = w]
      BY <2>2 DEF Told
    <3>3. /\ link' \in [Conn -> LinkType]
          /\ link'[cur].out = link[cur].out
          /\ link'[cur].digest = link[cur].digest /\ link'[cur].told = w
          /\ \A d \in Conn \ {cur} : link'[d] = link[d]
      BY <3>1, <3>2, ToldLemma
    <3> QED BY <3>1, <3>3
  <2> QED BY <2>1, <2>2
<1>4. cur' = cur /\ (client_fd # 0 => cur \in Conn)
  BY <1>1, CurConn DEF IInv, cur
<1>5. SockType'
  BY <1>2, <1>3 DEF SockType, IInv, TypeOK, Status
<1>6. WatchedAreOpen' /\ OneDescriptor' /\ PlaceFits' /\ ResidueDrained'
  BY <1>1 DEF IInv, WatchedAreOpen, OneDescriptor, PlaceFits, ResidueDrained
<1>7. \A c \in Conn : \E n \in 0 .. 3 : link'[c].out = SaidUpTo(n)
  BY <1>3 DEF IInv, HandshakeInOrder
<1>8. HandshakeInOrder'
  BY <1>1, <1>2, <1>3, <1>4, <1>7 DEF IInv, HandshakeInOrder, Logged
<1>9. ChallengeAtHand' /\ StatusSet'
  BY <1>1, <1>2, <1>4 DEF IInv, ChallengeAtHand, StatusSet, Logged
<1>10. OwnChallenge'
  BY <1>3 DEF IInv, OwnChallenge
<1>11. PresenceTold'
  BY <1>3, <1>4 DEF PresenceTold, StatusOf, Word
<1> QED
  BY <1>5, <1>6, <1>8, <1>9, <1>10, <1>11 DEF Core

(* nsc_connect_socket: the new connection starts with nothing said, on a   *)
(* descriptor that was free, and an internal user's is logged in at once.  *)
LEMMA ConnectCore ==
  ASSUME IInv, ConnectSucceeds
  PROVE  Core'
<1>1. PICK f \in Fds, c \in Conn :
        /\ file[f] = NoConn /\ \A g \in Fds : file[g] # c
        /\ file' = [file EXCEPT ![f] = c]
        /\ client_fd' = f
        /\ people' = people \cup {f}
        /\ IF INTERNE
           THEN /\ link' = [Told("actif") EXCEPT ![c] =
                            [Idle EXCEPT !.srv = "in", !.heard = 3]]
                /\ status' = "ACTIF"
           ELSE /\ link' = [link EXCEPT ![c] = [Idle EXCEPT !.srv = "accepted"]]
                /\ UNCHANGED status
  BY DEF ConnectSucceeds
<1>2. /\ pc = "connect" /\ pc' = "select" /\ Running /\ Running'
      /\ status = "NOT_CONNECTED" /\ residue = <<>> /\ half = FALSE
      /\ UNCHANGED <<ret, chal, residue, half>>
  BY DEF ConnectSucceeds, Connecting, Running, IInv, TypeOK, PlaceFits,
         ResidueDrained, confVars, readVars
<1>3. /\ file' \in [Fds -> Conn \cup {NoConn}]
      /\ file'[f] = c /\ \A g \in Fds \ {f} : file'[g] = file[g]
      /\ cur' = c
  BY <1>1, FdsAssumption DEF IInv, TypeOK, cur
<1>4. /\ [Idle EXCEPT !.srv = "accepted"] \in LinkType
      /\ [Idle EXCEPT !.srv = "in", !.heard = 3] \in LinkType
  <2>1. "accepted" \in Server /\ "in" \in Server /\ 3 \in 0 .. 3
    BY DEF Server
  <2> QED BY <2>1, IdleType DEF LinkType
<1>5. /\ link' \in [Conn -> LinkType]
      /\ link'[c].out = <<>> /\ link'[c].digest = {}
      /\ \A d \in Conn \ {c} : /\ link'[d].out = link[d].out
                               /\ link'[d].digest = link[d].digest
  <2>1. CASE ~INTERNE
    BY <1>1, <1>4, <2>1 DEF IInv, TypeOK, Idle, Server
  <2>2. CASE INTERNE
    <3> DEFINE g == Told("actif")
    <3>1. /\ g \in [Conn -> LinkType]
          /\ \A d \in Conn : g[d].out = link[d].out /\ g[d].digest = link[d].digest
      <4>1. CASE client_fd = 0
        BY <4>1 DEF Told, IInv, TypeOK
      <4>2. CASE client_fd # 0
        <5>1. cur \in Conn /\ link \in [Conn -> LinkType]
          BY <1>2, <4>2, CurConn DEF IInv, TypeOK
        <5>2. g = [link EXCEPT ![cur].told = "actif"] /\ "actif" \in Word
          BY <4>2 DEF Told, Word
        <5>3. /\ g \in [Conn -> LinkType]
              /\ g[cur].out = link[cur].out /\ g[cur].digest = link[cur].digest
              /\ \A d \in Conn \ {cur} : g[d] = link[d]
          BY <5>1, <5>2, ToldLemma
        <5> QED BY <5>1, <5>3
      <4> QED BY <4>1, <4>2
    <3>2. link' = [g EXCEPT ![c] =
                            [Idle EXCEPT !.srv = "in", !.heard = 3]]
      BY <1>1, <2>2
    <3> HIDE DEF g
    <3> QED BY <1>4, <3>1, <3>2 DEF Idle, Server
  <2> QED BY <2>1, <2>2
<1>6. SockType'
  BY <1>1, <1>2, <1>3, <1>5 DEF SockType, IInv, TypeOK, Status, Logged
<1>7. WatchedAreOpen'
  BY <1>1, <1>2, <1>3, ConnAssumption DEF IInv, TypeOK, WatchedAreOpen
<1>8. OneDescriptor' /\ PlaceFits' /\ ResidueDrained'
  BY <1>1, <1>2, <1>3 DEF IInv, OneDescriptor, PlaceFits, ResidueDrained
<1>9. status' = "ACTIF" \/ (~INTERNE /\ status' = "NOT_CONNECTED")
  BY <1>1, <1>2
<1>10. \A d \in Conn : \E n \in 0 .. 3 : link'[d].out = SaidUpTo(n)
  BY <1>5, SaidUpToLemma DEF IInv, HandshakeInOrder
<1>11. HandshakeInOrder'
  BY <1>1, <1>3, <1>5, <1>9, <1>10, FdsAssumption, SaidUpToLemma
  DEF HandshakeInOrder
<1>12. ChallengeAtHand' /\ StatusSet'
  BY <1>9 DEF ChallengeAtHand, StatusSet
<1>13. OwnChallenge'
  BY <1>5 DEF IInv, OwnChallenge
<1>14. ~INTERNE => PresenceTold'
  BY <1>9, <1>1, <1>2 DEF PresenceTold, Logged
<1> QED
  BY <1>6, <1>7, <1>8, <1>11, <1>12, <1>13, <1>14 DEF Core

(* After the loop, everything that was watched is closed.                  *)
LEMMA ExitCore ==
  ASSUME IInv, Exit
  PROVE  Core' /\ HalfBegun'
<1> DEFINE F == (people \cup {client_fd}) \ {0}
<1>1. F \in SUBSET Fds /\ Closing(F) /\ pc' = "stopped" /\ ~Running'
  BY DEF IInv, TypeOK, Exit, Running
<1>2. /\ file' \in [Fds -> Conn \cup {NoConn}]
      /\ link' \in [Conn -> LinkType]
  BY <1>1, ClosingType DEF IInv
<1>3. /\ \A f \in Fds : file'[f] \in {NoConn, file[f]}
      /\ \A c \in Conn : link'[c] \in {Idle, link[c]}
  BY <1>1 DEF Closing
<1>4. SockType'
  BY <1>1, <1>2 DEF Exit, SockType, IInv, TypeOK, Status, Handshaking, confVars
<1>5. OneDescriptor'
  BY <1>3 DEF IInv, OneDescriptor
<1>6. \A c \in Conn : \E n \in 0 .. 3 : link'[c].out = SaidUpTo(n)
  BY <1>3, SaidUpToLemma DEF IInv, HandshakeInOrder, Idle
<1>7. OwnChallenge'
  BY <1>3 DEF IInv, OwnChallenge, Idle
<1>8. HandshakeInOrder' /\ StatusSet'
  BY <1>1, <1>6 DEF HandshakeInOrder, StatusSet, Exit
<1> QED
  BY <1>1, <1>4, <1>5, <1>7, <1>8
  DEF Core, WatchedAreOpen, PlaceFits, ResidueDrained, HalfBegun,
      ChallengeAtHand, PresenceTold

-----------------------------------------------------------------------------
(* What `Return' and the two kinds of write come to.                       *)
LEMMA ReturnCases ==
  ASSUME IInv, pc = "recv", residue' \in Seq(Line), half' = half,
         NEW s, NEW r \in {0, -1}, NEW lk, Return(s, r, lk)
  PROVE  Kept(s, lk) \/ Ended
BY DEF Return, Kept, Ended, Stays, IInv, TypeOK, PlaceFits

(* The same when the line makes nsc write.                                *)
LEMMA WriteCases ==
  ASSUME IInv, pc = "recv", residue' \in Seq(Line), half' = half,
         NEW s, NEW lk, WriteThen(s, lk) \/ WriteAnyway(s, lk)
  PROVE  Kept(s, lk) \/ Ended
BY ReturnCases DEF WriteThen, WriteAnyway, Ended

(* A line, whatever it is, leaves the session in order.                    *)
LEMMA LineCore ==
  ASSUME IInv, RecvLine
  PROVE  Core' /\ HalfBegun'
<1>1. /\ pc = "recv" /\ Running /\ client_fd # 0
      /\ residue' \in Seq(Line) /\ half' = half /\ half \in BOOLEAN
      /\ Head(residue) \in Line
  BY DEF RecvLine, IInv, TypeOK, Running, PlaceFits
<1>2. /\ cur \in Conn /\ link \in [Conn -> LinkType]
      /\ chal \in Conn \cup {NoConn}
  BY <1>1, CurConn DEF IInv, TypeOK
<1>3. PICK l \in Line : Handle(l)
  BY <1>1 DEF RecvLine
<1>4. chal' \in Conn \cup {NoConn}
  BY <1>2, <1>3 DEF Handle, HelloLine, AuthLine, AttachLine, RefusedLine,
                    LoggedLine
<1>5. ASSUME Ended PROVE Core' /\ HalfBegun'
  <2>1. CASE Die
    BY <1>4, <2>1, DieCore
  <2>2. CASE Lost /\ residue' = <<>> /\ half' = FALSE
    <3>1. main_cc /\ pc' \in {"select", "connect"} /\ ret' = 0
      BY <2>2 DEF Lost
    <3> QED BY <1>1, <1>4, <2>2, <3>1, MainCcCore
  <2> QED BY <1>5, <2>1, <2>2 DEF Ended
<1>6. ASSUME NEW s, NEW lk, Kept(s, lk), lk \in [Conn -> LinkType],
             lk[cur].net = link[cur].net, lk[cur].begun = link[cur].begun
      PROVE  HalfBegun'
  BY <1>1, <1>6 DEF Kept, Stays, HalfBegun, IInv, cur
<1>7. CASE HelloLine(l)
  <2> DEFINE g == Wrote("auth_ag")
  <2>1. /\ g \in [Conn -> LinkType]
        /\ g[cur].out = Append(link[cur].out, "auth_ag")
        /\ g[cur].digest = link[cur].digest /\ g[cur].net = link[cur].net
        /\ g[cur].begun = link[cur].begun
        /\ \A d \in Conn \ {cur} : g[d] = link[d]
    <3>1. "auth_ag" \in Handshake /\ g = Wrote("auth_ag")
      BY DEF Handshake
    <3> HIDE DEF g
    <3> QED BY <1>2, <3>1, WroteLemma
  <2>2. g[cur].out = SaidUpTo(1)
    BY <1>1, <1>7, <2>1, SaidUpToLemma
    DEF HelloLine, IInv, HandshakeInOrder
  <2> HIDE DEF g
  <2>3. Kept("NOT_AUTH", g) \/ Ended
    BY <1>1, <1>7, WriteCases DEF HelloLine, g
  <2>4. CASE Kept("NOT_AUTH", g)
    <3>1. Core'
      BY <1>1, <1>7, <2>1, <2>2, <2>4, SpeakCore DEF Kept, HelloLine
    <3> QED BY <1>6, <2>1, <2>4, <3>1
  <2> QED BY <1>5, <2>3, <2>4
<1>8. CASE AuthLine(l)
  <2>1. status = "NOT_AUTH" /\ chal' = chal
    BY <1>8 DEF AuthLine, IInv, StatusSet
  <2>2. CASE Die
    BY <1>5, <2>2 DEF Ended
  <2>3. CASE ~Die
    <3> DEFINE h == Wrote("ext_user_log")
               g == [h EXCEPT ![cur].digest = @ \cup {chal}]
    <3>1. /\ h \in [Conn -> LinkType]
          /\ h[cur].out = Append(link[cur].out, "ext_user_log")
          /\ h[cur].digest = link[cur].digest /\ h[cur].net = link[cur].net
          /\ h[cur].begun = link[cur].begun
          /\ \A d \in Conn \ {cur} : h[d] = link[d]
      <4>1. "ext_user_log" \in Handshake /\ h = Wrote("ext_user_log")
        BY DEF Handshake
      <4> HIDE DEF h
      <4> QED BY <1>2, <4>1, WroteLemma
    <3>2. /\ g \in [Conn -> LinkType]
          /\ g[cur].out = h[cur].out
          /\ g[cur].digest = h[cur].digest \cup {chal}
          /\ g[cur].net = h[cur].net /\ g[cur].begun = h[cur].begun
          /\ \A d \in Conn \ {cur} : g[d] = h[d]
      <4> HIDE DEF h
      <4>1. h[cur] \in LinkType /\ h[cur].digest \cup {chal} \in SUBSET (Conn \cup {NoConn})
        BY <1>2, <3>1 DEF LinkType
      <4>2. g \in [Conn -> LinkType]
        BY <1>2, <3>1, <4>1 DEF LinkType
      <4>3. \A d \in Conn \ {cur} : g[d] = h[d]
        BY <1>2, <3>1
      <4>4. g[cur] = [h[cur] EXCEPT !.digest = @ \cup {chal}]
        BY <1>2, <3>1
      <4> QED BY <4>1, <4>2, <4>3, <4>4 DEF LinkType
    <3>3. WriteThen("ATTACH_SENT", g)
      BY <1>8, <2>1, <2>3 DEF AuthLine
    <3> HIDE DEF g, h
    <3>4. g[cur].out = SaidUpTo(2)
      BY <1>1, <2>1, <3>1, <3>2, SaidUpToLemma DEF IInv, HandshakeInOrder
    <3>5. g[cur].digest \subseteq {cur, NoConn}
      BY <1>1, <1>2, <2>1, <3>1, <3>2
      DEF IInv, OwnChallenge, ChallengeAtHand
    <3>6. Kept("ATTACH_SENT", g) \/ Ended
      BY <1>1, <3>3, WriteCases
    <3>7. CASE Kept("ATTACH_SENT", g)
      <4>1. Core'
        BY <1>1, <2>1, <3>1, <3>2, <3>4, <3>5, <3>7, SpeakCore DEF Kept
      <4> QED BY <1>6, <3>1, <3>2, <3>7, <4>1
    <3> QED BY <1>5, <3>6, <3>7
  <2> QED BY <2>2, <2>3
<1>9. CASE AttachLine(l)
  <2> DEFINE h == Wrote("watch_log_user")
             g == [h EXCEPT ![cur].told = "actif"]
  <2>1. /\ h \in [Conn -> LinkType]
        /\ h[cur].out = Append(link[cur].out, "watch_log_user")
        /\ h[cur].digest = link[cur].digest /\ h[cur].net = link[cur].net
        /\ h[cur].begun = link[cur].begun
        /\ \A d \in Conn \ {cur} : h[d] = link[d]
    <3>1. "watch_log_user" \in Handshake /\ h = Wrote("watch_log_user")
      BY DEF Handshake
    <3> HIDE DEF h
    <3> QED BY <1>2, <3>1, WroteLemma
  <2>2. /\ g \in [Conn -> LinkType]
        /\ g[cur].out = h[cur].out /\ g[cur].digest = h[cur].digest
        /\ g[cur].told = "actif"
        /\ g[cur].net = h[cur].net /\ g[cur].begun = h[cur].begun
        /\ \A d \in Conn \ {cur} : g[d] = h[d]
    <3> DEFINE c == cur
    <3>1. /\ c \in Conn /\ h \in [Conn -> LinkType]
          /\ g = [h EXCEPT ![c].told = "actif"]
          /\ "actif" \in Word \cup {"none"}
      BY <1>2, <2>1 DEF Word
    <3> HIDE DEF c, g, h
    <3>2. /\ g \in [Conn -> LinkType]
          /\ g[c].out = h[c].out /\ g[c].digest = h[c].digest
          /\ g[c].told = "actif"
          /\ g[c].net = h[c].net /\ g[c].begun = h[c].begun
          /\ \A d \in Conn \ {c} : g[d] = h[d]
      BY <3>1, ToldLemma
    <3> QED BY <3>2 DEF c
  <2>3. WriteAnyway("ACTIF", g) /\ chal' = chal /\ status = "ATTACH_SENT"
    BY <1>9 DEF AttachLine
  <2> HIDE DEF g, h
  <2>4. g[cur].out = SaidUpTo(3)
    BY <1>1, <2>1, <2>2, <2>3, SaidUpToLemma DEF IInv, HandshakeInOrder
  <2>5. Kept("ACTIF", g) \/ Ended
    BY <1>1, <2>3, WriteCases
  <2>6. CASE Kept("ACTIF", g)
    <3>1. Core'
      BY <1>1, <2>1, <2>2, <2>3, <2>4, <2>6, SpeakCore DEF Kept
    <3> QED BY <1>6, <2>1, <2>2, <2>6, <3>1
  <2> QED BY <1>5, <2>5, <2>6
<1>10. CASE RefusedLine(l) \/ LoggedLine(l)
  <2>1. Kept(status, link) \/ Ended
    <3>1. CASE RefusedLine(l)
      BY <1>1, <3>1, ReturnCases DEF RefusedLine
    <3>2. CASE LoggedLine(l)
      BY <1>1, <3>2, ReturnCases, WriteCases DEF LoggedLine, Ended
    <3> QED BY <1>10, <3>1, <3>2
  <2>2. chal' = chal
    BY <1>10 DEF RefusedLine, LoggedLine
  <2>3. CASE Kept(status, link)
    <3>1. Stays /\ pc' # "connect" /\ status' = status /\ link' = link
      BY <2>3 DEF Kept
    <3>2. Core'
      BY <1>1, <1>2, <2>2, <3>1, QuietCore DEF Talk
    <3> QED BY <1>2, <1>6, <2>3, <3>2
  <2> QED BY <1>5, <2>1, <2>3
<1> QED BY <1>3, <1>7, <1>8, <1>9, <1>10 DEF Handle

-----------------------------------------------------------------------------
(* A process that starts is in order.                                      *)
LEMMA InitInv == Init => IInv
<1> SUFFICES ASSUME Init PROVE IInv
  OBVIOUS
<1> USE DEF Init
<1>1. Core
  <2>1. \A c \in Conn : link[c] = Idle
    OBVIOUS
  <2>2. SockType
    BY IdleType DEF SockType, Status, Handshaking
  <2>3. WatchedAreOpen /\ OneDescriptor /\ PlaceFits /\ ResidueDrained
    BY DEF WatchedAreOpen, OneDescriptor, PlaceFits, ResidueDrained
  <2>4. HandshakeInOrder
    BY <2>1, SaidUpToLemma DEF HandshakeInOrder, Idle
  <2>5. StatusSet /\ ChallengeAtHand /\ OwnChallenge /\ PresenceTold
    BY <2>1 DEF StatusSet, ChallengeAtHand, OwnChallenge, PresenceTold, Idle
  <2> QED BY <2>2, <2>3, <2>4, <2>5 DEF Core
<1>2. RestType
  <2>1. conf \in ConfFiles /\ ConfFiles \subseteq SUBSET ConfItem
    BY DataAssumption
  <2>2. secondes \in 0 .. SENDPING
    BY TimeAssumption
  <2>3. residue \in Seq(Line) /\ ready_fd \subseteq Fds \cup {0}
    OBVIOUS
  <2>4. {half, propagate_sigwinch, typed} \subseteq BOOLEAN
    OBVIOUS
  <2> HIDE DEF Init
  <2> QED BY <2>1, <2>2, <2>3, <2>4 DEF RestType
<1>3. HalfBegun
  BY DEF HalfBegun
<1> QED BY <1>1, <1>2, <1>3, Parts

(* A step that moves nothing but what Core does not mention.               *)
LEMMA SameCore ==
  ASSUME IInv, UNCHANGED <<sockVars, readVars, chal>>
  PROVE  Core' /\ HalfBegun'
<1>1. Core /\ HalfBegun
  BY Parts
<1> USE DEF sockVars, readVars
<1>2. cur' = cur /\ (Running' <=> Running)
  BY DEF cur, Running
<1>3. SockType' /\ WatchedAreOpen' /\ OneDescriptor' /\ PlaceFits'
  BY <1>1, <1>2 DEF Core, SockType, WatchedAreOpen, OneDescriptor, PlaceFits
<1>4. ResidueDrained' /\ StatusSet' /\ HandshakeInOrder'
  BY <1>1, <1>2 DEF Core, ResidueDrained, StatusSet, HandshakeInOrder
<1>5. ChallengeAtHand' /\ OwnChallenge' /\ (~INTERNE => PresenceTold')
  BY <1>1, <1>2
  DEF Core, ChallengeAtHand, OwnChallenge, PresenceTold, StatusOf
<1>6. HalfBegun'
  BY <1>1, <1>2 DEF HalfBegun
<1> QED BY <1>3, <1>4, <1>5, <1>6 DEF Core

(* A step that only moves main() to another place where nothing is read.   *)
LEMMA GoCore ==
  ASSUME IInv, Running, residue = <<>>, half = FALSE,
         pc' \in {"select", "connect", "exit"},
         pc' = "connect" => status = "NOT_CONNECTED",
         UNCHANGED <<status, client_fd, people, file, link, ret, readVars>>,
         chal' \in {chal, NoConn}
  PROVE  Core' /\ HalfBegun'
<1>1. Stays /\ link' \in [Conn -> LinkType] /\ Talk(link')
  BY DEF Stays, Talk, readVars, IInv, TypeOK
<1>2. Core'
  BY <1>1, QuietCore
<1> QED BY <1>2 DEF HalfBegun

(* Nothing is left to read outside nsc_recv_data.                          *)
LEMMA Drained ==
  ASSUME IInv, Running, pc # "recv"
  PROVE  residue = <<>> /\ half = FALSE
BY DEF IInv, TypeOK, ResidueDrained

(* Hanging up, or dying, outside nsc_recv_data.                            *)
LEMMA HangUpCore ==
  ASSUME IInv, pc = "select", UNCHANGED <<readVars>>,
         \/ main_cc /\ pc' \in {"select", "connect"} /\ ret' \in {0, -1}
         \/ Die,
         chal' \in Conn \cup {NoConn}
  PROVE  Core' /\ HalfBegun'
<1>1. Running /\ residue' = <<>> /\ half' = FALSE
  BY Drained DEF Running, readVars
<1> QED BY <1>1, MainCcCore, DieCore

(* The keepalive, and the timeout or the signal that leads to it.          *)
LEMMA PingCore ==
  ASSUME IInv, Selecting, NEW sec \in 0 .. SELECTSEC, send_ping(sec),
         UNCHANGED <<readVars, confVars>>
  PROVE  Core' /\ HalfBegun' /\ secondes' \in 0 .. SENDPING
<1>1. secondes' \in 0 .. SENDPING
  BY TimeAssumption DEF send_ping, IInv, TypeOK
<1>2. pc = "select" /\ chal' = chal /\ chal' \in Conn \cup {NoConn}
  BY DEF Selecting, confVars, IInv, TypeOK
<1>3. CASE UNCHANGED sockVars
  BY <1>1, <1>2, <1>3, SameCore
<1>4. CASE Lost \/ Die
  <2>1. \/ main_cc /\ pc' \in {"select", "connect"} /\ ret' \in {0, -1}
        \/ Die
    BY <1>4 DEF Lost
  <2> QED BY <1>1, <1>2, <2>1, HangUpCore
<1>5. UNCHANGED sockVars \/ Lost \/ Die
  BY DEF send_ping
<1> QED BY <1>3, <1>4, <1>5

(* The parts of a step of the server: bytes, and nothing said.             *)
LEMMA ServerCore ==
  ASSUME IInv, NEW c \in Conn, Outside(c),
         NEW n \in Seq(Line), NEW b \in Begun, NEW s \in Server,
         NEW h, h \in 0 .. 3,
         \/ link' = [link EXCEPT ![c].net = n, ![c].srv = s, ![c].heard = h]
         \/ /\ link' = [link EXCEPT ![c].begun = b, ![c].srv = s, ![c].heard = h]
            /\ b \in Line
         \/ link' = [link EXCEPT ![c].net = n, ![c].begun = b] /\ Len(n) > 0
         \/ link' = [link EXCEPT ![c].srv = s],
         link[c].net # <<>> => n # <<>>
  PROVE  Core' /\ HalfBegun'
<1> USE DEF Outside
<1>1. link' \in [Conn -> LinkType] /\ Talk(link')
  <2>1. link \in [Conn -> LinkType]
    BY DEF IInv, TypeOK
  <2> DEFINE g == link'
  <2>2. \/ g = [link EXCEPT ![c].net = n, ![c].srv = s, ![c].heard = h]
        \/ g = [link EXCEPT ![c].begun = b, ![c].srv = s, ![c].heard = h]
        \/ g = [link EXCEPT ![c].net = n, ![c].begun = b]
        \/ g = [link EXCEPT ![c].srv = s]
    OBVIOUS
  <2> HIDE DEF g
  <2>3. \A d \in Conn \ {c} : g[d] = link[d]
    BY <2>1, <2>2
  <2>4. \/ g[c] = [link[c] EXCEPT !.net = n, !.srv = s, !.heard = h]
        \/ g[c] = [link[c] EXCEPT !.begun = b, !.srv = s, !.heard = h]
        \/ g[c] = [link[c] EXCEPT !.net = n, !.begun = b]
        \/ g[c] = [link[c] EXCEPT !.srv = s]
    BY <2>1, <2>2
  <2>5. /\ g[c] \in LinkType
        /\ g[c].out = link[c].out /\ g[c].told = link[c].told
        /\ g[c].digest = link[c].digest
    <3>1. link[c] \in LinkType
      BY <2>1
    <3>2. CASE g[c] = [link[c] EXCEPT !.net = n, !.srv = s, !.heard = h]
      BY <3>1, <3>2 DEF LinkType
    <3>3. CASE g[c] = [link[c] EXCEPT !.begun = b, !.srv = s, !.heard = h]
      BY <3>1, <3>3 DEF LinkType
    <3>4. CASE g[c] = [link[c] EXCEPT !.net = n, !.begun = b]
      BY <3>1, <3>4 DEF LinkType
    <3>5. CASE g[c] = [link[c] EXCEPT !.srv = s]
      BY <3>1, <3>5 DEF LinkType
    <3> QED BY <2>4, <3>2, <3>3, <3>4, <3>5
  <2>6. g = [d \in Conn |-> g[d]]
    BY <2>1, <2>2
  <2>7. g \in [Conn -> LinkType]
    BY <2>3, <2>5, <2>6, <2>1
  <2>8. Talk(g)
    BY <2>3, <2>5 DEF Talk
  <2> QED BY <2>7, <2>8 DEF g
<1>2. /\ cur' = cur /\ (Running' <=> Running)
      /\ UNCHANGED <<residue, half, chal>>
  BY DEF cur, Running, readVars, confVars
<1>3. Core
  BY Parts
<1>4. SockType' /\ WatchedAreOpen' /\ OneDescriptor' /\ PlaceFits'
  BY <1>1, <1>2, <1>3
  DEF Core, SockType, WatchedAreOpen, OneDescriptor, PlaceFits, confVars
<1>5. Running /\ client_fd # 0 => cur \in Conn
  BY CurConn DEF IInv
<1>6. ResidueDrained' /\ StatusSet' /\ HandshakeInOrder'
  BY <1>1, <1>2, <1>3, <1>5
  DEF Core, ResidueDrained, StatusSet, HandshakeInOrder, Talk
<1>7. ChallengeAtHand' /\ OwnChallenge' /\ (~INTERNE => PresenceTold')
  BY <1>1, <1>2, <1>3, <1>5
  DEF Core, ChallengeAtHand, OwnChallenge, PresenceTold, StatusOf, Talk
<1>8. HalfBegun'
  <2>1. SUFFICES ASSUME pc = "recv", half, link'[cur].net = <<>>
                 PROVE  link'[cur].begun \in Line
    BY <1>2 DEF HalfBegun
  <2>2. cur \in Conn
    BY <1>3, <1>5, <2>1 DEF Core, PlaceFits, Running
  <2>3. link \in [Conn -> LinkType] /\ link[cur] \in LinkType
    BY <2>2 DEF IInv, TypeOK
  <2>4. link[cur].net = <<>> => link[cur].begun \in Line
    BY <2>1 DEF IInv, HalfBegun
  <2>5. CASE c # cur
    BY <2>1, <2>2, <2>3, <2>4, <2>5
  <2>6. CASE c = cur
    <3>1. c \in Conn /\ link[c] \in LinkType /\ link \in [Conn -> LinkType]
      BY <2>3, <2>6
    <3>2. \/ link'[c] = [link[c] EXCEPT !.net = n, !.srv = s, !.heard = h]
          \/ /\ link'[c] = [link[c] EXCEPT !.begun = b, !.srv = s, !.heard = h]
             /\ b \in Line
          \/ link'[c] = [link[c] EXCEPT !.net = n, !.begun = b] /\ Len(n) > 0
          \/ link'[c] = [link[c] EXCEPT !.srv = s]
      BY <3>1
    <3>3. \/ link'[c].net = n /\ link'[c].begun = link[c].begun
          \/ link'[c].begun \in Line
          \/ link'[c].net = n /\ Len(n) > 0
          \/ link'[c].net = link[c].net /\ link'[c].begun = link[c].begun
      BY <3>1, <3>2 DEF LinkType
    <3> QED BY <2>1, <2>4, <2>6, <3>3
  <2> QED BY <2>5, <2>6
<1> QED BY <1>4, <1>6, <1>7, <1>8 DEF Core

(* The console commands.                                                   *)
LEMMA CommandInv ==
  ASSUME IInv, Command
  PROVE  Core' /\ HalfBegun' /\ RestType'
<1>1. /\ pc = "select" /\ Running /\ residue = <<>> /\ half = FALSE
      /\ chal \in Conn \cup {NoConn}
      /\ UNCHANGED <<readVars, timeVars>> /\ typed' = FALSE
      /\ ready_fd' \subseteq Fds \cup {0}
  BY Drained DEF Command, CmdConnect, CmdDeco, CmdReco, CmdExit, CmdState,
       CmdSay, CmdReload, CmdLocal, Console, Next_fd, Running, IInv, TypeOK
<1>2. conf' \in SUBSET ConfItem
  <2>1. conf \in SUBSET ConfItem
    BY DEF IInv, TypeOK
  <2> QED BY <2>1, DataAssumption
          DEF Command, CmdConnect, CmdDeco, CmdReco, CmdExit, CmdState,
              CmdSay, CmdReload, CmdLocal, confVars
<1>3. RestType'
  BY <1>1, <1>2 DEF RestType, IInv, TypeOK, readVars, timeVars
<1>4. CASE CmdConnect \/ CmdExit
  BY <1>1, <1>3, <1>4, GoCore DEF CmdConnect, CmdExit, confVars
<1>5. CASE CmdDeco \/ CmdReco
  <2>1. main_cc /\ pc' \in {"select", "connect"} /\ ret' \in {0, -1}
    BY <1>1, <1>5 DEF CmdDeco, CmdReco, IInv, TypeOK
  <2>2. chal' = chal
    BY <1>5 DEF CmdDeco, CmdReco, confVars
  <2> QED BY <1>1, <1>3, <2>1, <2>2, HangUpCore
<1>6. ASSUME NEW w \in UserWords, CmdState(w) PROVE Core' /\ HalfBegun'
  <2>1. chal' = chal /\ w \in Word
    BY <1>6, DataAssumption DEF CmdState, confVars
  <2>2. CASE Die
    BY <1>1, <2>1, <2>2, HangUpCore
  <2>3. CASE ~Die
    <3>1. /\ status' = StatusOf(w) /\ link' = Told(w)
          /\ UNCHANGED <<pc, client_fd, people, file, ret>>
      BY <1>6, <2>3 DEF CmdState
    <3>2. Core'
      BY <1>1, <2>1, <3>1, StateCore DEF readVars
    <3> QED BY <1>1, <3>1, <3>2 DEF HalfBegun
  <2> QED BY <2>2, <2>3
<1>7. CASE CmdSay \/ CmdLocal
  <2>1. chal' = chal /\ (UNCHANGED sockVars \/ Die)
    BY <1>7 DEF CmdSay, CmdLocal, confVars
  <2> QED BY <1>1, <1>3, <2>1, SameCore, HangUpCore DEF confVars
<1>8. CASE CmdReload
  <2>1. chal' = NoConn /\ UNCHANGED sockVars
    BY <1>8 DEF CmdReload
  <2> QED BY <1>1, <1>3, <2>1, GoCore DEF sockVars
<1> QED
  BY <1>3, <1>4, <1>5, <1>6, <1>7, <1>8 DEF Command

(* nsc_recv_data.                                                          *)
LEMMA RecvInv ==
  ASSUME IInv, Recv
  PROVE  Core' /\ HalfBegun' /\ RestType'
<1>1. /\ pc = "recv" /\ Running /\ client_fd # 0
      /\ UNCHANGED <<secondes, ready_fd, conf, typed>>
  BY DEF Recv, RecvRead, RecvLine, RecvCut, RecvNothing, ReadFails, IInv,
         PlaceFits, Running, confVars, timeVars
<1>2. /\ cur \in Conn /\ link \in [Conn -> LinkType]
      /\ link[cur] \in LinkType /\ cur = file[client_fd]
  BY <1>1, CurConn DEF IInv, TypeOK
<1>3. /\ link[cur].net \in Seq(Line) /\ link[cur].begun \in Begun
  BY <1>2 DEF LinkType
<1>4. propagate_sigwinch' \in BOOLEAN
  BY DEF Recv, RecvRead, RecvLine, RecvCut, RecvNothing, ReadFails, IInv,
         TypeOK, timeVars
<1>5. ASSUME residue' \in Seq(Line), half' \in BOOLEAN PROVE RestType'
  BY <1>1, <1>4, <1>5 DEF RestType, IInv, TypeOK
<1>6. CASE RecvRead
  <2>1. PICK k \in 0 .. Len(link[cur].net) :
          /\ residue' = SubSeq(link[cur].net, 1, k)
          /\ \/ k > 0 /\ half' = FALSE
             \/ /\ k = Len(link[cur].net) /\ link[cur].begun \in Line
                /\ half' = TRUE
          /\ link' = [link EXCEPT ![cur].net =
                        SubSeq(link[cur].net, k + 1, Len(link[cur].net))]
    BY <1>6 DEF RecvRead
  <2> DEFINE n == SubSeq(link[cur].net, k + 1, Len(link[cur].net))
  <2>2. n \in Seq(Line) /\ residue' \in Seq(Line) /\ half' \in BOOLEAN
    <3> DEFINE net == link[cur].net
    <3>1. /\ net \in Seq(Line) /\ Len(net) \in Nat /\ k \in 0 .. Len(net)
          /\ \A i \in 1 .. Len(net) : net[i] \in Line
      BY <1>3
    <3>2. residue' = SubSeq(net, 1, k) /\ n = SubSeq(net, k + 1, Len(net))
      BY <2>1
    <3>3. half' \in BOOLEAN
      BY <2>1
    <3> HIDE DEF net, n
    <3>4. residue' \in Seq(Line)
      BY <3>1, <3>2, SubSeqProperties
    <3>5. n \in Seq(Line)
      BY <3>1, <3>2, SubSeqProperties
    <3> QED BY <3>3, <3>4, <3>5
  <2>3. link' = [link EXCEPT ![cur].net = n]
    BY <2>1
  <2> HIDE DEF n
  <2>4. link' \in [Conn -> LinkType] /\ Talk(link')
    <3>1. "in" \in Server /\ 0 \in 0 .. 3
      BY DEF Server
    <3> QED BY <1>2, <1>3, <2>2, <2>3, <3>1, BytesLemma
  <2>5. link'[cur].begun = link[cur].begun /\ link'[cur].net = n
    BY <1>2, <2>3 DEF LinkType
  <2>6. Stays /\ status' = status /\ pc' = "recv" /\ chal' = chal
    BY <1>1, <1>6 DEF RecvRead, Stays, IInv, TypeOK, confVars
  <2>7. Core'
    BY <1>1, <2>4, <2>6, QuietCore
  <2>8. HalfBegun'
    BY <1>2, <2>1, <2>5, <2>6 DEF HalfBegun, Stays, cur
  <2> QED BY <1>5, <2>2, <2>7, <2>8
<1>7. CASE RecvLine
  <2>1. residue' \in Seq(Line) /\ half' \in BOOLEAN
    BY <1>7 DEF RecvLine, IInv, TypeOK
  <2> QED BY <1>5, <1>7, <2>1, LineCore
<1>8. CASE RecvCut
  <2>1. PICK l \in Cut(link[cur].begun) : residue' = <<l>>
    BY <1>8 DEF RecvCut
  <2>2. PICK b \in Begun : link' = [link EXCEPT ![cur].begun = b, ![cur].cut = TRUE]
    BY <1>8 DEF RecvCut, Begun
  <2>3. link' \in [Conn -> LinkType] /\ Talk(link')
    BY <1>2, <2>2, CutLemma
  <2>4. half' = FALSE /\ chal' = chal
    BY <1>8 DEF RecvCut, ReadFails, confVars
  <2>5. link[cur].begun \in Line
    BY <1>1, <1>8 DEF RecvCut, ReadFails, IInv, HalfBegun
  <2>6. residue' \in Seq(Line)
    BY <2>1, <2>5 DEF Cut, Line
  <2>7. Stays /\ status' = status /\ pc' = "recv"
    BY <1>1, <1>8 DEF RecvCut, Stays, IInv, TypeOK
  <2>8. Core'
    BY <1>1, <2>3, <2>4, <2>7, QuietCore
  <2>9. HalfBegun'
    BY <2>4 DEF HalfBegun
  <2> QED BY <1>5, <2>4, <2>6, <2>8, <2>9
<1>9. CASE RecvNothing
  <2>1. /\ main_cc /\ pc' \in {"select", "connect"} /\ ret' = 0
        /\ residue = <<>> /\ half = FALSE /\ UNCHANGED <<readVars, confVars>>
    BY <1>9 DEF RecvNothing, ReadFails, Lost, IInv, TypeOK
  <2>2. /\ chal' \in Conn \cup {NoConn}
        /\ residue' = <<>> /\ residue' \in Seq(Line) /\ half' = FALSE
    BY <2>1 DEF IInv, TypeOK, confVars, readVars
  <2> QED BY <1>1, <1>5, <2>1, <2>2, MainCcCore
<1> QED BY <1>6, <1>7, <1>8, <1>9 DEF Recv

(* Opening the connection, or not.                                         *)
LEMMA ConnectInv ==
  ASSUME IInv, Connect
  PROVE  Core' /\ HalfBegun' /\ RestType'
<1>1. /\ pc = "connect" /\ Running /\ residue = <<>> /\ half = FALSE
      /\ chal \in Conn \cup {NoConn}
      /\ UNCHANGED <<readVars, confVars, timeVars, ready_fd, typed>>
  BY Drained DEF Connect, ConnectUnconfigured, ConnectFails, ResolvFails,
       ConnectSucceeds, Connecting, Running, IInv, TypeOK
<1>2. RestType'
  BY <1>1 DEF RestType, IInv, TypeOK, readVars, confVars, timeVars
<1>3. CASE ConnectUnconfigured \/ ConnectFails
  <2>1. /\ pc' \in {"select", "connect"}
        /\ status = "NOT_CONNECTED"
        /\ UNCHANGED <<status, client_fd, people, file, link, ret>>
    BY <1>1, <1>3 DEF ConnectUnconfigured, ConnectFails, IInv, PlaceFits
  <2> QED BY <1>1, <1>2, <2>1, GoCore DEF confVars
<1>4. CASE ResolvFails
  BY <1>1, <1>2, <1>4, DieCore DEF ResolvFails, confVars
<1>5. CASE ConnectSucceeds
  <2>1. pc' = "select"
    BY <1>5 DEF ConnectSucceeds
  <2> QED BY <1>2, <1>5, <2>1, ConnectCore DEF HalfBegun
<1> QED BY <1>3, <1>4, <1>5 DEF Connect

(* The outside.                                                            *)
LEMMA EnvironmentInv ==
  ASSUME IInv, Environment
  PROVE  Core' /\ HalfBegun' /\ RestType'
<1>1. CASE UserTypes \/ Resize
  <2>1. /\ UNCHANGED <<sockVars, readVars, confVars, ready_fd, secondes>>
        /\ typed' \in BOOLEAN /\ propagate_sigwinch' \in BOOLEAN
    BY <1>1 DEF UserTypes, Resize, IInv, TypeOK, timeVars
  <2>2. RestType'
    BY <2>1 DEF RestType, IInv, TypeOK, readVars, confVars
  <2> QED BY <2>1, <2>2, SameCore DEF confVars
<1>2. ASSUME NEW c \in Conn,
             \/ ServerHello(c) \/ ServerAnswers(c) \/ ServerSays(c)
             \/ ServerCompletes(c) \/ ServerCloses(c)
      PROVE  Core' /\ HalfBegun' /\ RestType'
  <2>1. Outside(c)
    BY <1>2 DEF ServerHello, ServerAnswers, ServerSays, ServerCompletes,
                ServerCloses
  <2>2. RestType'
    BY <2>1 DEF Outside, RestType, IInv, TypeOK, readVars, confVars, timeVars
  <2>3. link[c] \in LinkType /\ link[c].net \in Seq(Line)
    BY DEF IInv, TypeOK, LinkType
  <2>4. ASSUME NEW l \in Line, NEW s \in Server, Arrives(c, l, s)
        PROVE  Core' /\ HalfBegun'
    <3> DEFINE n == Append(link[c].net, l)
    <3>1. n \in Seq(Line) /\ n # <<>> /\ l \in Begun
      BY <2>3 DEF Begun
    <3>2. \/ link' = [link EXCEPT ![c].net = n, ![c].srv = s,
                                   ![c].heard = HeardAt(s)]
          \/ link' = [link EXCEPT ![c].begun = l, ![c].srv = s,
                                   ![c].heard = HeardAt(s)]
      BY <2>4 DEF Arrives
    <3>3. link[c].net # <<>> => link[c].net \in Seq(Line) \ {<<>>}
      BY <2>3
    <3>4. HeardAt(s) \in 0 .. 3
      BY DEF HeardAt
    <3> HIDE DEF n
    <3> QED BY <2>1, <3>1, <3>2, <3>4, ServerCore
  <2>5. CASE ServerHello(c)
    BY <2>2, <2>4, <2>5 DEF ServerHello, Line, Server
  <2>6. CASE ServerAnswers(c)
    BY <2>2, <2>4, <2>6 DEF ServerAnswers, Line, Server
  <2>7. CASE ServerSays(c)
    BY <2>2, <2>4, <2>7, DataAssumption DEF ServerSays, Server
  <2>8. CASE ServerCompletes(c)
    <3>1. PICK l \in Line : link' =
            [link EXCEPT ![c].net = Append(link[c].net, l), ![c].begun = NoLine]
      BY <2>3, <2>8 DEF ServerCompletes, LinkType, Begun, Line
    <3> DEFINE n == Append(link[c].net, l)
    <3>2. n \in Seq(Line) /\ n # <<>> /\ Len(n) > 0
      BY <2>3
    <3>3. link' = [link EXCEPT ![c].net = n, ![c].begun = NoLine]
      BY <3>1
    <3>4. NoLine \in Begun /\ "in" \in Server /\ 0 \in 0 .. 3
      BY DEF Begun, Server
    <3> HIDE DEF n
    <3> QED BY <2>1, <2>2, <3>2, <3>3, <3>4, ServerCore
  <2>9. CASE ServerCloses(c)
    <3>1. /\ link' = [link EXCEPT ![c].srv = "gone"]
          /\ "gone" \in Server /\ NoLine \in Begun /\ 0 \in 0 .. 3
      BY <2>9 DEF ServerCloses, Server, Begun
    <3> QED BY <2>1, <2>2, <2>3, <3>1, ServerCore
  <2> QED BY <1>2, <2>5, <2>6, <2>7, <2>8, <2>9
<1> QED BY <1>1, <1>2 DEF Environment

(* Every step of the program and of the outside keeps IInv.                *)
LEMMA NextInv == IInv /\ [Next]_vars => IInv'
<1> SUFFICES ASSUME IInv, [Next]_vars
             PROVE  Core' /\ HalfBegun' /\ RestType'
  BY PartsPrime
<1>1. CASE Select
  <2>1. ready_fd' \subseteq Fds \cup {0}
    BY <1>1 DEF Select, Active, IInv, TypeOK
  <2>2. UNCHANGED <<sockVars, readVars, confVars, timeVars, typed>>
    BY <1>1 DEF Select
  <2>3. RestType'
    BY <2>1, <2>2 DEF RestType, IInv, TypeOK, readVars, confVars, timeVars
  <2> QED BY <2>2, <2>3, SameCore DEF confVars
<1>2. CASE SelectTimeout \/ SelectInterrupted
  <2>1. PICK sec \in 0 .. SELECTSEC : send_ping(sec)
    BY <1>2, TimeAssumption DEF SelectTimeout, SelectInterrupted
  <2>2. /\ Selecting /\ propagate_sigwinch' \in BOOLEAN
        /\ UNCHANGED <<readVars, confVars, ready_fd, typed>>
    BY <1>2 DEF SelectTimeout, SelectInterrupted, IInv, TypeOK
  <2>3. Core' /\ HalfBegun' /\ secondes' \in 0 .. SENDPING
    BY <2>1, <2>2, PingCore
  <2> QED BY <2>2, <2>3 DEF RestType, IInv, TypeOK, readVars, confVars
<1>3. CASE SelectError
  <2>1. /\ pc = "select" /\ pc' \in {"select", "exit"}
        /\ propagate_sigwinch' \in BOOLEAN
        /\ UNCHANGED <<status, client_fd, people, file, link, ret, readVars,
                       confVars, secondes, ready_fd, typed>>
    BY <1>3 DEF SelectError, Selecting, IInv, TypeOK
  <2>2. Running /\ residue = <<>> /\ half = FALSE
    BY <2>1, Drained DEF Running
  <2>3. RestType'
    BY <2>1 DEF RestType, IInv, TypeOK, readVars, confVars
  <2> QED BY <2>1, <2>2, <2>3, GoCore DEF confVars
<1>4. CASE SocketReady
  <2>1. PICK f \in Fds : Next_fd(f) /\ pc' = IF f = client_fd THEN "recv" ELSE pc
    BY <1>4 DEF SocketReady
  <2>2. /\ pc = "select" /\ ready_fd' \subseteq Fds \cup {0}
        /\ UNCHANGED <<status, client_fd, people, file, link, ret, readVars,
                       confVars, timeVars, typed>>
    BY <1>4, <2>1 DEF SocketReady, Next_fd, IInv, TypeOK
  <2>3. Running /\ residue = <<>> /\ half = FALSE
    BY <2>2, Drained DEF Running
  <2>4. RestType'
    BY <2>2 DEF RestType, IInv, TypeOK, readVars, confVars, timeVars
  <2>5. Stays /\ pc' # "connect" /\ link' \in [Conn -> LinkType] /\ Talk(link')
    BY <2>1, <2>2, <2>3, FdsAssumption
    DEF Stays, Talk, readVars, IInv, TypeOK
  <2>6. Core'
    BY <2>2, <2>3, <2>5, QuietCore DEF confVars
  <2>7. HalfBegun'
    BY <2>2, <2>3 DEF HalfBegun, readVars
  <2> QED BY <2>4, <2>6, <2>7
<1>5. CASE Command
  BY <1>5, CommandInv
<1>6. CASE Connect
  BY <1>6, ConnectInv
<1>7. CASE Recv
  BY <1>7, RecvInv
<1>8. CASE Exit
  <2>1. RestType'
    BY <1>8 DEF Exit, RestType, IInv, TypeOK, readVars, confVars, timeVars
  <2> QED BY <1>8, <2>1, ExitCore
<1>9. CASE Environment
  BY <1>9, EnvironmentInv
<1>10. CASE UNCHANGED vars
  <2>1. RestType'
    BY <1>10 DEF vars, RestType, IInv, TypeOK, readVars, confVars, timeVars
  <2> QED BY <1>10, <2>1, SameCore DEF vars, confVars
<1> QED
  BY <1>1, <1>2, <1>3, <1>4, <1>5, <1>6, <1>7, <1>8, <1>9, <1>10
  DEF Next, Turn, Done

-----------------------------------------------------------------------------
(* The inductive invariant: it holds whatever the number of connections    *)
(* and descriptors, the options of configure, the lines the server sends   *)
(* and the commands the user types.                                        *)
THEOREM Safety == Spec => []IInv
BY InitInv, NextInv, PTL DEF Spec

(* Every variable of the model keeps its type.                             *)
THEOREM Types == Spec => []TypeOK
<1>1. IInv => TypeOK
  BY DEF IInv
<1> QED BY <1>1, Safety, PTL

(* The select list and the kernel agree: no select on a closed descriptor, *)
(* and no socket forgotten at exit.                                        *)
THEOREM Watched == Spec => []WatchedAreOpen
<1>1. IInv => WatchedAreOpen
  BY DEF IInv
<1> QED BY <1>1, Safety, PTL

(* No byte of a connection outlives the call of nsc_recv_data that read it *)
(* in the buffer all descriptors share.                                    *)
THEOREM Drains == Spec => []ResidueDrained
<1>1. IInv => ResidueDrained
  BY DEF IInv
<1> QED BY <1>1, Safety, PTL

(* On every connection the lines of the handshake are said in order, each  *)
(* at most once, and CNX_STATUS says how many were.                        *)
THEOREM Ordered == Spec => []HandshakeInOrder
<1>1. IInv => HandshakeInOrder
  BY DEF IInv
<1> QED BY <1>1, Safety, PTL

(* No digest is computed from the challenge of another connection.         *)
THEOREM Challenged == Spec => []OwnChallenge
<1>1. IInv => OwnChallenge
  BY DEF IInv
<1> QED BY <1>1, Safety, PTL

(* Outside the PIE, the state nsc acts on is the last one it announced.    *)
THEOREM Presence == ~INTERNE => (Spec => []PresenceTold)
<1> SUFFICES ASSUME ~INTERNE PROVE Spec => []PresenceTold
  OBVIOUS
<1>1. IInv => PresenceTold
  BY DEF IInv
<1> QED BY <1>1, Safety, PTL

-----------------------------------------------------------------------------
(***************************************************************************)
(* What nsc has said and what it has heard.  Each lemma says what one kind *)
(* of step does to the connections; ServerHeard and Earned follow, and so  *)
(* does the step of Protocol it stands for.                                *)
(***************************************************************************)

\* Nothing that ServerHeard and Earned look at changes in a connection.
AsBefore(g, d) ==
  /\ g[d].net = link[d].net /\ g[d].begun = link[d].begun
  /\ g[d].srv = link[d].srv /\ g[d].heard = link[d].heard
  /\ g[d].cut = link[d].cut

\* Nothing that Protocol looks at does.
Unseen(g, d) ==
  /\ g[d].out = link[d].out /\ g[d].told = link[d].told
  /\ g[d].heard = link[d].heard /\ g[d].cut = link[d].cut

(* A line, or the beginning of one, reaches the kernel.                     *)
LEMMA ArrivesFields ==
  ASSUME TypeOK, NEW c \in Conn, NEW l \in Line, NEW s \in Server,
         Arrives(c, l, s)
  PROVE  /\ \A d \in Conn \ {c} : link'[d] = link[d]
         /\ link'[c].out = link[c].out /\ link'[c].told = link[c].told
         /\ link'[c].cut = link[c].cut /\ link'[c].srv = s
         /\ link'[c].heard = HeardAt(s) /\ link[c].begun = NoLine
         /\ \/ link'[c].net = Append(link[c].net, l) /\ link'[c].begun = NoLine
            \/ link'[c].net = link[c].net /\ link'[c].begun = l
<1>1. link \in [Conn -> LinkType] /\ link[c] \in LinkType
  BY DEF TypeOK
<1>2. CASE link' = [link EXCEPT ![c].net = Append(@, l), ![c].srv = s,
                                ![c].heard = HeardAt(s)]
  <2>1. \A d \in Conn \ {c} : link'[d] = link[d]
    BY <1>1, <1>2
  <2>2. link'[c] = [link[c] EXCEPT !.net = Append(link[c].net, l), !.srv = s,
                                   !.heard = HeardAt(s)]
    BY <1>1, <1>2
  <2>3. link[c].begun = NoLine
    BY DEF Arrives
  <2> QED BY <1>1, <2>1, <2>2, <2>3 DEF LinkType
<1>3. CASE link' = [link EXCEPT ![c].begun = l, ![c].srv = s,
                                ![c].heard = HeardAt(s)]
  <2>1. \A d \in Conn \ {c} : link'[d] = link[d]
    BY <1>1, <1>3
  <2>2. link'[c] = [link[c] EXCEPT !.begun = l, !.srv = s,
                                   !.heard = HeardAt(s)]
    BY <1>1, <1>3
  <2>3. link[c].begun = NoLine
    BY DEF Arrives
  <2> QED BY <1>1, <2>1, <2>2, <2>3 DEF LinkType
<1> QED BY <1>2, <1>3 DEF Arrives

(* The rest of a line follows.                                             *)
LEMMA CompletesFields ==
  ASSUME TypeOK, NEW c \in Conn, ServerCompletes(c)
  PROVE  /\ \A d \in Conn \ {c} : link'[d] = link[d]
         /\ link'[c].out = link[c].out /\ Unseen(link', c)
         /\ link'[c].srv = link[c].srv /\ link'[c].begun = NoLine
         /\ \E l \in Line : /\ link'[c].net = Append(link[c].net, l)
                            /\ link[c].begun # "tail" => link[c].begun = l
         /\ link[c].begun # NoLine
<1>1. link \in [Conn -> LinkType] /\ link[c] \in LinkType
  BY DEF TypeOK
<1>2. PICK l \in Line :
        /\ link' = [link EXCEPT ![c].net = Append(@, l), ![c].begun = NoLine]
        /\ link[c].begun # "tail" => link[c].begun = l
  <2>1. link[c].begun \in Begun /\ link[c].begun # NoLine
    BY <1>1 DEF LinkType, ServerCompletes
  <2> QED BY <2>1 DEF ServerCompletes, Begun, Line
<1>3. \A d \in Conn \ {c} : link'[d] = link[d]
  BY <1>1, <1>2
<1>4. link'[c] = [link[c] EXCEPT !.net = Append(link[c].net, l),
                                 !.begun = NoLine]
  BY <1>1, <1>2
<1>5. link[c].begun # NoLine
  BY DEF ServerCompletes
<1> QED BY <1>1, <1>2, <1>3, <1>4, <1>5 DEF LinkType, Unseen

(* The peer goes away.                                                     *)
LEMMA ClosesFields ==
  ASSUME TypeOK, NEW c \in Conn, ServerCloses(c)
  PROVE  /\ \A d \in Conn \ {c} : link'[d] = link[d]
         /\ link'[c].srv = "gone" /\ Unseen(link', c)
         /\ link'[c].net = link[c].net /\ link'[c].begun = link[c].begun
<1>1. link \in [Conn -> LinkType] /\ link[c] \in LinkType
  BY DEF TypeOK
<1>2. link' = [link EXCEPT ![c].srv = "gone"]
  BY DEF ServerCloses
<1>3. \A d \in Conn \ {c} : link'[d] = link[d]
  BY <1>1, <1>2
<1>4. link'[c] = [link[c] EXCEPT !.srv = "gone"]
  BY <1>1, <1>2
<1> QED BY <1>1, <1>3, <1>4 DEF LinkType, Unseen

(* Lines are read.                                                         *)
LEMMA ReadFields ==
  ASSUME IInv, RecvRead
  PROVE  /\ cur \in Conn /\ residue = <<>>
         /\ \A d \in Conn \ {cur} : link'[d] = link[d]
         /\ Unseen(link', cur) /\ link'[cur].srv = link[cur].srv
         /\ link'[cur].begun = link[cur].begun
         /\ \E k \in 0 .. Len(link[cur].net) :
              /\ residue' = SubSeq(link[cur].net, 1, k)
              /\ link'[cur].net = SubSeq(link[cur].net, k + 1, Len(link[cur].net))
<1>1. Running /\ client_fd # 0
  BY DEF RecvRead, IInv, PlaceFits, Running
<1>2. cur \in Conn /\ link \in [Conn -> LinkType] /\ link[cur] \in LinkType
  BY <1>1, CurConn DEF IInv, TypeOK
<1>3. PICK k \in 0 .. Len(link[cur].net) :
        /\ residue' = SubSeq(link[cur].net, 1, k)
        /\ link' = [link EXCEPT ![cur].net =
                      SubSeq(link[cur].net, k + 1, Len(link[cur].net))]
  BY DEF RecvRead
<1> DEFINE n == SubSeq(link[cur].net, k + 1, Len(link[cur].net))
<1>4. link' = [link EXCEPT ![cur].net = n]
  BY <1>3
<1>5. n = SubSeq(link[cur].net, k + 1, Len(link[cur].net))
  OBVIOUS
<1> HIDE DEF n
<1>6. \A d \in Conn \ {cur} : link'[d] = link[d]
  BY <1>2, <1>4
<1>7. link'[cur] = [link[cur] EXCEPT !.net = n]
  BY <1>2, <1>4
<1>8. /\ link'[cur].net = n /\ Unseen(link', cur)
      /\ link'[cur].srv = link[cur].srv
      /\ link'[cur].begun = link[cur].begun
  BY <1>2, <1>7 DEF LinkType, Unseen
<1>9. residue = <<>>
  BY DEF RecvRead
<1> QED BY <1>2, <1>3, <1>5, <1>6, <1>8, <1>9

(* A line is read cut.                                                     *)
LEMMA CutFields ==
  ASSUME IInv, RecvCut
  PROVE  /\ cur \in Conn
         /\ \A d \in Conn \ {cur} : link'[d] = link[d]
         /\ link'[cur].out = link[cur].out /\ link'[cur].told = link[cur].told
         /\ link'[cur].heard = link[cur].heard
         /\ link'[cur].srv = link[cur].srv /\ link'[cur].cut = TRUE
<1>1. Running /\ client_fd # 0
  BY DEF RecvCut, ReadFails, IInv, PlaceFits, Running
<1>2. cur \in Conn /\ link \in [Conn -> LinkType] /\ link[cur] \in LinkType
  BY <1>1, CurConn DEF IInv, TypeOK
<1>3. PICK b : link' = [link EXCEPT ![cur].begun = b, ![cur].cut = TRUE]
  BY DEF RecvCut
<1>4. \A d \in Conn \ {cur} : link'[d] = link[d]
  BY <1>2, <1>3
<1>5. link'[cur] = [link[cur] EXCEPT !.begun = b, !.cut = TRUE]
  BY <1>2, <1>3
<1> QED BY <1>2, <1>4, <1>5 DEF LinkType

(* A state is announced.                                                   *)
LEMMA ToldFields ==
  ASSUME IInv, Running, NEW w \in Word, link' = Told(w)
  PROVE  /\ \A d \in Conn : AsBefore(link', d) /\ link'[d].out = link[d].out
         /\ client_fd # 0 => link'[cur].told = w
<1>1. link \in [Conn -> LinkType]
  BY DEF IInv, TypeOK
<1>2. CASE client_fd = 0
  BY <1>2 DEF Told, AsBefore
<1>3. CASE client_fd # 0
  <2> DEFINE c == cur
  <2>1. c \in Conn /\ w \in Word \cup {"none"}
    BY <1>3, CurConn DEF IInv
  <2>2. link' = [link EXCEPT ![c].told = w]
    BY <1>3 DEF Told
  <2>3. c = cur
    OBVIOUS
  <2> HIDE DEF c
  <2> DEFINE g == link'
  <2>4. g = [link EXCEPT ![c].told = w]
    BY <2>2
  <2> HIDE DEF g
  <2>5. /\ g[c].out = link[c].out /\ g[c].told = w
        /\ g[c].net = link[c].net /\ g[c].begun = link[c].begun
        /\ g[c].srv = link[c].srv /\ g[c].heard = link[c].heard
        /\ g[c].cut = link[c].cut
        /\ \A d \in Conn \ {c} : g[d] = link[d]
    BY <1>1, <2>1, <2>4, ToldLemma
  <2>6. \A d \in Conn : AsBefore(g, d) /\ g[d].out = link[d].out
    BY <2>5 DEF AsBefore
  <2> QED BY <2>3, <2>5, <2>6 DEF g
<1> QED BY <1>2, <1>3

\* nsc is at one place of the handshake, and the line it says there moves it to
\* the next.
Speech(s, m) ==
  \/ status = "NOT_CONNECTED" /\ s = "NOT_AUTH" /\ m = "auth_ag"
  \/ status = "NOT_AUTH" /\ s = "ATTACH_SENT" /\ m = "ext_user_log"
  \/ status = "ATTACH_SENT" /\ s = "ACTIF" /\ m = "watch_log_user"

\* A line makes nsc say the next line of the handshake, or nothing new.
SaidMore ==
  \E s \in Status, m \in Handshake :
    /\ Speech(s, m) /\ status' = s
    /\ Head(residue) # "rep_err"
    /\ link'[cur].out = Append(link[cur].out, m)
    /\ link'[cur].told = IF m = "watch_log_user" THEN "actif" ELSE link[cur].told

SaidNothing ==
  /\ status' = status
  /\ link'[cur].out = link[cur].out /\ link'[cur].told = link[cur].told

(* A line handled: the connection ends, or goes on.                        *)
LEMMA LineFields ==
  ASSUME IInv, RecvLine
  PROVE  \/ main_cc \/ Die
         \/ /\ UNCHANGED <<client_fd, file>> /\ cur \in Conn
            /\ residue # <<>> /\ residue' = Tail(residue)
            /\ \A d \in Conn \ {cur} : link'[d] = link[d]
            /\ AsBefore(link', cur)
            /\ SaidMore \/ SaidNothing
<1>1. /\ pc = "recv" /\ client_fd # 0 /\ Running
      /\ residue # <<>> /\ residue' = Tail(residue)
      /\ residue' \in Seq(Line) /\ half' = half
      /\ Head(residue) \in Line /\ Handle(Head(residue))
  BY DEF RecvLine, IInv, TypeOK, PlaceFits, Running
<1>2. TypeOK /\ cur \in Conn /\ link \in [Conn -> LinkType]
  BY <1>1, CurConn DEF IInv, TypeOK
<1> DEFINE l == Head(residue)
<1>3. ASSUME Ended PROVE main_cc \/ Die
  BY <1>3 DEF Ended, Lost
<1>4. ASSUME NEW s, NEW lk, Kept(s, lk)
      PROVE  UNCHANGED <<client_fd, file>> /\ status' = s /\ link' = lk
  BY <1>4 DEF Kept, Stays
<1>5. CASE HelloLine(l)
  <2> DEFINE g == Wrote("auth_ag")
  <2>1. "auth_ag" \in Handshake /\ g = Wrote("auth_ag")
    BY DEF Handshake
  <2>2. /\ status = "NOT_CONNECTED" /\ WriteThen("NOT_AUTH", g)
        /\ Head(residue) = "salut"
    BY <1>5 DEF HelloLine, parse_hello
  <2> HIDE DEF g
  <2>3. /\ g \in [Conn -> LinkType]
        /\ g[cur].out = Append(link[cur].out, "auth_ag")
        /\ g[cur].told = link[cur].told /\ AsBefore(g, cur)
        /\ \A d \in Conn \ {cur} : g[d] = link[d]
    BY <1>2, <2>1, WroteLemma DEF AsBefore
  <2>4. Kept("NOT_AUTH", g) \/ Ended
    BY <1>1, <2>2, WriteCases
  <2>5. CASE Kept("NOT_AUTH", g)
    <3>1. UNCHANGED <<client_fd, file>> /\ status' = "NOT_AUTH" /\ link' = g
      BY <1>4, <2>5
    <3>2. SaidMore
      BY <2>1, <2>2, <2>3, <3>1 DEF SaidMore, Speech, Status, Handshaking
    <3>3. AsBefore(link', cur) /\ \A d \in Conn \ {cur} : link'[d] = link[d]
      BY <2>3, <3>1
    <3> QED BY <1>1, <1>2, <3>1, <3>2, <3>3
  <2> QED BY <1>3, <2>4, <2>5
<1>6. CASE AuthLine(l)
  <2>1. status = "NOT_AUTH" /\ Head(residue) = "rep_ok"
    BY <1>6 DEF AuthLine, IInv, StatusSet, parse_validity
  <2>2. CASE ~Die
    <3> DEFINE h == Wrote("ext_user_log")
               c == cur
               g == [h EXCEPT ![c].digest = @ \cup {chal}]
    <3>1. "ext_user_log" \in Handshake /\ h = Wrote("ext_user_log")
      BY DEF Handshake
    <3>2. WriteThen("ATTACH_SENT", g)
      BY <1>6, <2>1, <2>2 DEF AuthLine
    <3> HIDE DEF h
    <3>3. /\ h \in [Conn -> LinkType]
          /\ h[cur].out = Append(link[cur].out, "ext_user_log")
          /\ h[cur].told = link[cur].told /\ AsBefore(h, cur)
          /\ \A d \in Conn \ {cur} : h[d] = link[d]
      BY <1>2, <3>1, WroteLemma DEF AsBefore
    <3>4. /\ h[cur] \in LinkType
          /\ g[cur] = [h[cur] EXCEPT !.digest = @ \cup {chal}]
          /\ \A d \in Conn \ {cur} : g[d] = h[d]
      BY <1>2, <3>3
    <3>5. /\ g[cur].out = h[cur].out /\ g[cur].told = h[cur].told
          /\ g[cur].net = h[cur].net /\ g[cur].begun = h[cur].begun
          /\ g[cur].srv = h[cur].srv /\ g[cur].heard = h[cur].heard
          /\ g[cur].cut = h[cur].cut
      BY <3>4 DEF LinkType
    <3> HIDE DEF g, c
    <3>6. /\ g[cur].out = Append(link[cur].out, "ext_user_log")
          /\ g[cur].told = link[cur].told /\ AsBefore(g, cur)
          /\ \A d \in Conn \ {cur} : g[d] = link[d]
      BY <3>3, <3>4, <3>5 DEF AsBefore
    <3>7. Kept("ATTACH_SENT", g) \/ Ended
      BY <1>1, <3>2, WriteCases
    <3>8. CASE Kept("ATTACH_SENT", g)
      <4>1. UNCHANGED <<client_fd, file>> /\ status' = "ATTACH_SENT" /\ link' = g
        BY <1>4, <3>8
      <4>2. SaidMore
        BY <2>1, <3>1, <3>6, <4>1 DEF SaidMore, Speech, Status, Handshaking
      <4>3. AsBefore(link', cur) /\ \A d \in Conn \ {cur} : link'[d] = link[d]
        BY <3>6, <4>1
      <4> QED BY <1>1, <1>2, <4>1, <4>2, <4>3
    <3> QED BY <1>3, <3>7, <3>8
  <2> QED BY <2>2
<1>7. CASE AttachLine(l)
  <2> DEFINE h == Wrote("watch_log_user")
             c == cur
             g == [h EXCEPT ![c].told = "actif"]
  <2>1. "watch_log_user" \in Handshake /\ h = Wrote("watch_log_user")
    BY DEF Handshake
  <2>2. /\ status = "ATTACH_SENT" /\ WriteAnyway("ACTIF", g)
        /\ Head(residue) = "rep_ok"
    BY <1>7 DEF AttachLine, parse_validity
  <2>3. c \in Conn /\ "actif" \in Word \cup {"none"}
    BY <1>2 DEF Word
  <2> HIDE DEF h
  <2>4. /\ h \in [Conn -> LinkType]
        /\ h[cur].out = Append(link[cur].out, "watch_log_user")
        /\ AsBefore(h, cur)
        /\ \A d \in Conn \ {cur} : h[d] = link[d]
    BY <1>2, <2>1, WroteLemma DEF AsBefore
  <2>5. g = [h EXCEPT ![c].told = "actif"]
    OBVIOUS
  <2> HIDE DEF g, c
  <2>6. /\ g[c].out = h[c].out /\ g[c].told = "actif"
        /\ g[c].net = h[c].net /\ g[c].begun = h[c].begun
        /\ g[c].srv = h[c].srv /\ g[c].heard = h[c].heard
        /\ g[c].cut = h[c].cut
        /\ \A d \in Conn \ {c} : g[d] = h[d]
    BY <2>3, <2>4, <2>5, ToldLemma
  <2>7. /\ g[cur].out = Append(link[cur].out, "watch_log_user")
        /\ g[cur].told = "actif" /\ AsBefore(g, cur)
        /\ \A d \in Conn \ {cur} : g[d] = link[d]
    BY <2>4, <2>6 DEF c, AsBefore
  <2>8. Kept("ACTIF", g) \/ Ended
    BY <1>1, <2>2, WriteCases
  <2>9. CASE Kept("ACTIF", g)
    <3>1. UNCHANGED <<client_fd, file>> /\ status' = "ACTIF" /\ link' = g
      BY <1>4, <2>9
    <3>2. SaidMore
      BY <2>1, <2>2, <2>7, <3>1 DEF SaidMore, Speech, Status, Logged
    <3>3. AsBefore(link', cur) /\ \A d \in Conn \ {cur} : link'[d] = link[d]
      BY <2>7, <3>1
    <3> QED BY <1>1, <1>2, <3>1, <3>2, <3>3
  <2> QED BY <1>3, <2>8, <2>9
<1>8. CASE RefusedLine(l) \/ LoggedLine(l)
  <2>1. Kept(status, link) \/ Ended
    <3>1. CASE RefusedLine(l)
      BY <1>1, <3>1, ReturnCases DEF RefusedLine
    <3>2. CASE LoggedLine(l)
      BY <1>1, <3>2, ReturnCases, WriteCases DEF LoggedLine, Ended
    <3> QED BY <1>8, <3>1, <3>2
  <2>2. CASE Kept(status, link)
    <3>1. UNCHANGED <<client_fd, file>> /\ status' = status /\ link' = link
      BY <1>4, <2>2
    <3>2. SaidNothing /\ AsBefore(link', cur)
      BY <3>1 DEF SaidNothing, AsBefore
    <3> QED BY <1>1, <1>2, <3>1, <3>2
  <2> QED BY <1>3, <2>1, <2>2
<1> QED BY <1>1, <1>5, <1>6, <1>7, <1>8 DEF Handle

Still ==
  /\ UNCHANGED <<client_fd, file, status, link, residue>>
  /\ Running' => Running

Announces ==
  \E w \in Word :
    /\ status' = StatusOf(w) /\ link' = Told(w)
    /\ UNCHANGED <<pc, client_fd, file, residue>> /\ Running

ServerStep(c) ==
  \/ ServerHello(c) \/ ServerAnswers(c) \/ ServerSays(c)
  \/ ServerCompletes(c) \/ ServerCloses(c)

(* What a step can be, for what follows.                                   *)
LEMMA Kinds ==
  ASSUME IInv, [Next]_vars
  PROVE  \/ Still
         \/ main_cc \/ Exit \/ Die
         \/ RecvRead \/ RecvLine \/ RecvCut \/ ConnectSucceeds \/ Announces
         \/ \E c \in Conn : ServerStep(c)
<1>1. CASE Select \/ SelectError \/ SocketReady \/ UNCHANGED vars
  <2>1. UNCHANGED <<status, client_fd, file, link, residue>>
    BY <1>1 DEF Select, SelectError, SocketReady, vars, sockVars, readVars
  <2>2. Running' => Running
    BY <1>1 DEF Select, SelectError, SocketReady, Selecting, Next_fd, vars,
                sockVars, Running
  <2> QED BY <2>1, <2>2 DEF Still
<1>2. CASE SelectTimeout \/ SelectInterrupted
  <2>1. /\ main_cc \/ Die \/ UNCHANGED sockVars
        /\ UNCHANGED readVars /\ Running
    BY <1>2 DEF SelectTimeout, SelectInterrupted, send_ping, Lost, Selecting,
                Running
  <2> QED BY <2>1 DEF Still, sockVars, readVars
<1>3. CASE Connect
  <2>1. CASE ConnectUnconfigured \/ ConnectFails
    BY <2>1 DEF ConnectUnconfigured, ConnectFails, Connecting, Running, Still,
                readVars
  <2>2. CASE ResolvFails
    BY <2>2 DEF ResolvFails
  <2> QED BY <1>3, <2>1, <2>2 DEF Connect
<1>4. CASE Recv
  BY <1>4 DEF Recv, RecvNothing, Lost
<1>5. CASE Command
  <2>1. CASE CmdConnect \/ CmdExit \/ CmdReload \/ CmdLocal \/ CmdSay
    <3>1. /\ Die \/ UNCHANGED <<status, client_fd, file, link>>
          /\ UNCHANGED readVars /\ Running
      BY <2>1 DEF CmdConnect, CmdExit, CmdReload, CmdLocal, CmdSay, sockVars,
                  Console, Next_fd, Running
    <3> QED BY <3>1 DEF Still, readVars
  <2>2. CASE CmdDeco \/ CmdReco
    BY <2>2 DEF CmdDeco, CmdReco
  <2>3. ASSUME NEW w \in UserWords, CmdState(w) PROVE Die \/ Announces
    <3>1. CASE Die
      BY <3>1
    <3>2. CASE ~Die
      <4>1. /\ status' = StatusOf(w) /\ link' = Told(w) /\ w \in Word
            /\ UNCHANGED <<pc, client_fd, file, residue>> /\ Running
        BY <2>3, <3>2, DataAssumption
        DEF CmdState, Console, Next_fd, Running, readVars
      <4> QED BY <4>1 DEF Announces
    <3> QED BY <3>1, <3>2
  <2> QED BY <1>5, <2>1, <2>2, <2>3 DEF Command
<1>6. CASE Environment
  <2>1. CASE UserTypes \/ Resize
    BY <2>1 DEF UserTypes, Resize, sockVars, readVars, Still, Running
  <2> QED BY <1>6, <2>1 DEF Environment, ServerStep
<1> QED
  BY <1>1, <1>2, <1>3, <1>4, <1>5, <1>6 DEF Next, Turn, Done

(* Closing descriptors makes connections idle, or leaves them alone.       *)
LEMMA HungFields ==
  ASSUME TypeOK, main_cc \/ Exit \/ Die
  PROVE  /\ \A d \in Conn : link'[d] \in {Idle, link[d]}
         /\ client_fd' = 0 \/ ~Running'
         /\ cur' = NoConn
<1>1. \A d \in Conn : link'[d] \in {Idle, link[d]}
  BY DEF main_cc, Exit, Die, Closing
<1>2. client_fd' = 0 \/ ~Running'
  BY DEF main_cc, Exit, Die, Running
<1>3. CASE main_cc \/ Exit
  BY <1>1, <1>2, <1>3 DEF main_cc, Exit, cur
<1>4. CASE Die
  <2>1. client_fd \in Fds \cup {0}
    BY DEF TypeOK
  <2> QED BY <1>1, <1>2, <1>4, <2>1 DEF Die, Closing, cur
<1> QED BY <1>3, <1>4

(* A connection that is opened.                                            *)
LEMMA OpenFields ==
  ASSUME IInv, ConnectSucceeds
  PROVE  \E c \in Conn :
           /\ cur' = c /\ residue' = <<>> /\ Running
           /\ status = "NOT_CONNECTED"
           /\ link'[c] = IF INTERNE THEN [Idle EXCEPT !.srv = "in", !.heard = 3]
                                    ELSE [Idle EXCEPT !.srv = "accepted"]
           /\ status' = IF INTERNE THEN "ACTIF" ELSE status
           /\ \A d \in Conn \ {c} : AsBefore(link', d)
<1>1. PICK f \in Fds, c \in Conn :
        /\ file' = [file EXCEPT ![f] = c]
        /\ client_fd' = f
        /\ IF INTERNE
           THEN /\ link' = [Told("actif") EXCEPT ![c] =
                             [Idle EXCEPT !.srv = "in", !.heard = 3]]
                /\ status' = "ACTIF"
           ELSE /\ link' = [link EXCEPT ![c] = [Idle EXCEPT !.srv = "accepted"]]
                /\ UNCHANGED status
  BY DEF ConnectSucceeds
<1>2. /\ Running /\ status = "NOT_CONNECTED" /\ residue' = <<>>
      /\ link \in [Conn -> LinkType] /\ client_fd \in Fds \cup {0}
      /\ file \in [Fds -> Conn \cup {NoConn}]
  BY Drained
  DEF ConnectSucceeds, Connecting, Running, IInv, TypeOK, PlaceFits, readVars
<1>3. cur' = c
  BY <1>1, <1>2, FdsAssumption DEF cur
<1>4. \A d \in Conn \ {c} : AsBefore(link', d)
  <2>1. CASE ~INTERNE
    BY <1>1, <1>2, <2>1 DEF AsBefore
  <2>2. CASE INTERNE
    <3> DEFINE g == Told("actif")
    <3>1. /\ g \in [Conn -> LinkType]
          /\ \A d \in Conn : AsBefore(g, d)
      <4>1. CASE client_fd = 0
        BY <1>2, <4>1 DEF Told, AsBefore
      <4>2. CASE client_fd # 0
        <5>1. cur \in Conn /\ "actif" \in Word \cup {"none"}
          BY <1>2, <4>2, CurConn DEF IInv, Word
        <5> DEFINE k == cur
        <5>2. g = [link EXCEPT ![k].told = "actif"] /\ k \in Conn
          BY <4>2, <5>1 DEF Told
        <5> HIDE DEF k, g
        <5>3. /\ g \in [Conn -> LinkType]
              /\ g[k].net = link[k].net /\ g[k].begun = link[k].begun
              /\ g[k].srv = link[k].srv /\ g[k].heard = link[k].heard
              /\ g[k].cut = link[k].cut
              /\ \A d \in Conn \ {k} : g[d] = link[d]
          BY <1>2, <5>1, <5>2, ToldLemma
        <5> QED BY <5>3 DEF AsBefore
      <4> QED BY <4>1, <4>2
    <3>2. link' = [g EXCEPT ![c] = [Idle EXCEPT !.srv = "in", !.heard = 3]]
      BY <1>1, <2>2
    <3> HIDE DEF g
    <3> QED BY <3>1, <3>2 DEF AsBefore
  <2> QED BY <2>1, <2>2
<1>5. link'[c] = IF INTERNE THEN [Idle EXCEPT !.srv = "in", !.heard = 3]
                            ELSE [Idle EXCEPT !.srv = "accepted"]
  <2>1. CASE ~INTERNE
    BY <1>1, <1>2, <2>1
  <2>2. CASE INTERNE
    <3>1. DOMAIN Told("actif") = Conn
      BY <1>2 DEF Told
    <3> QED BY <1>1, <2>2, <3>1
  <2> QED BY <2>1, <2>2
<1> QED BY <1>1, <1>2, <1>3, <1>4, <1>5

(* What the server has sent is what its place says, until it goes away.    *)
LEMMA HeardNext ==
  ASSUME IInv, ServerHeard, [Next]_vars
  PROVE  ServerHeard'
<1>0. TypeOK /\ HeardAt("none") = 0 /\ HeardAt("accepted") = 0 /\ HeardAt("in") = 3
  BY DEF IInv, HeardAt
<1>1. ASSUME NEW d \in Conn, link'[d] = link[d] \/ AsBefore(link', d)
      PROVE  link'[d].srv # "gone" => link'[d].heard = HeardAt(link'[d].srv)
  BY <1>1 DEF ServerHeard, AsBefore
<1>2. CASE Still
  BY <1>1, <1>2 DEF Still, ServerHeard
<1>3. CASE main_cc \/ Exit \/ Die
  BY <1>0, <1>1, <1>3, HungFields DEF ServerHeard, Idle
<1>4. CASE RecvRead
  BY <1>1, <1>4, ReadFields DEF ServerHeard, Unseen
<1>5. CASE RecvLine
  <2>1. CASE main_cc \/ Die
    BY <1>3, <2>1
  <2>2. CASE ~(main_cc \/ Die)
    BY <1>1, <1>5, <2>2, LineFields DEF ServerHeard
  <2> QED BY <2>1, <2>2
<1>6. CASE RecvCut
  BY <1>1, <1>6, CutFields DEF ServerHeard
<1>7. CASE ConnectSucceeds
  <2>1. PICK c \in Conn :
          /\ link'[c] = IF INTERNE THEN [Idle EXCEPT !.srv = "in", !.heard = 3]
                                   ELSE [Idle EXCEPT !.srv = "accepted"]
          /\ \A d \in Conn \ {c} : AsBefore(link', d)
    BY <1>7, OpenFields
  <2>2. link'[c].srv # "gone" => link'[c].heard = HeardAt(link'[c].srv)
    BY <1>0, <2>1 DEF Idle
  <2>3. ASSUME NEW d \in Conn
        PROVE  link'[d].srv # "gone" => link'[d].heard = HeardAt(link'[d].srv)
    <3>1. CASE d = c
      BY <2>2, <3>1
    <3>2. CASE d # c
      <4>1. AsBefore(link', d)
        BY <2>1, <3>2
      <4> QED BY <1>1, <4>1
    <3> QED BY <3>1, <3>2
  <2> QED BY <2>3 DEF ServerHeard
<1>8. CASE Announces
  BY <1>1, <1>8, ToldFields DEF Announces, ServerHeard
<1>9. ASSUME NEW c \in Conn, ServerStep(c) PROVE ServerHeard'
  <2>1. ASSUME NEW l \in Line, NEW s \in Server, Arrives(c, l, s)
        PROVE  ServerHeard'
    BY <1>0, <1>1, <2>1, ArrivesFields DEF ServerHeard
  <2>2. CASE ServerHello(c)
    <3>1. "salut" \in Line /\ "greeted" \in Server
      BY DEF Line, Server
    <3>2. Arrives(c, "salut", "greeted")
      BY <2>2 DEF ServerHello
    <3> QED BY <2>1, <3>1, <3>2
  <2>3. CASE ServerAnswers(c)
    BY <2>1, <2>3 DEF ServerAnswers, Line, Server
  <2>4. CASE ServerSays(c)
    BY <2>1, <2>4, DataAssumption DEF ServerSays, Server
  <2>5. CASE ServerCompletes(c)
    BY <1>0, <1>1, <2>5, CompletesFields DEF ServerHeard, Unseen
  <2>6. CASE ServerCloses(c)
    BY <1>0, <1>1, <2>6, ClosesFields DEF ServerHeard
  <2> QED BY <1>9, <2>2, <2>3, <2>4, <2>5, <2>6 DEF ServerStep
<1> QED BY <1>2, <1>3, <1>4, <1>5, <1>6, <1>7, <1>8, <1>9, Kinds

(* A sequence of at most one line is read whole or not at all.             *)
LEMMA ReadOne ==
  ASSUME NEW net \in Seq(Line), Len(net) <= 1, NEW k \in 0 .. Len(net)
  PROVE  \/ /\ SubSeq(net, 1, k) = <<>>
            /\ SubSeq(net, k + 1, Len(net)) = net
         \/ /\ SubSeq(net, 1, k) = net
            /\ SubSeq(net, k + 1, Len(net)) = <<>>
<1>1. CASE k = 0
  <2>1. SubSeq(net, 1, 0) = <<>>
    BY SubSeqProperties
  <2>2. SubSeq(net, 1, Len(net)) = net
    BY SubSeqProperties, SeqEqual
  <2> QED BY <1>1, <2>1, <2>2
<1>2. CASE k = 1
  <2>1. Len(net) = 1
    <3> DEFINE n == Len(net)
    <3>1. n \in Nat /\ 1 \in 0 .. n /\ n <= 1
      BY <1>2
    <3> HIDE DEF n
    <3>2. n = 1
      BY <3>1
    <3> QED BY <3>2 DEF n
  <2>2. SubSeq(net, 2, 1) = <<>>
    BY SubSeqProperties
  <2>3. SubSeq(net, 1, 1) = net
    BY <2>1, SubSeqProperties, SeqEqual
  <2> QED BY <1>2, <2>1, <2>2, <2>3
<1> QED BY <1>1, <1>2

(* ... and is empty or a tuple of one.                                     *)
LEMMA OneLine ==
  ASSUME NEW s \in Seq(Line), Len(s) <= 1
  PROVE  s = <<>> \/ \E l \in Line : s = <<l>>
<1>1. CASE Len(s) = 1
  <2>1. s[1] \in Line /\ <<s[1]>> \in Seq(Line) /\ Len(<<s[1]>>) = 1
    BY <1>1
  <2>2. s = <<s[1]>>
    BY <1>1, <2>1, SeqEqual
  <2> QED BY <2>1, <2>2
<1>2. CASE Len(s) = 0
  BY <1>2, EmptySeq
<1>3. Len(s) = 0 \/ Len(s) = 1
  <2>1. Len(s) \in Nat
    OBVIOUS
  <2> QED BY <2>1
<1> QED BY <1>1, <1>2, <1>3

(* A client that has answered all it has heard has nothing to read, unless *)
(* its server has refused it.                                              *)
LEMMA NothingToRead ==
  ASSUME NEW c \in LinkType, NEW res \in Seq(Line), InStep(c, res),
         c.srv \notin {"refused", "gone"}, ~(Len(c.out) < c.heard)
  PROVE  res = <<>> /\ c.net = <<>> /\ c.begun = NoLine
<1>1. c.net \in Seq(Line) /\ c.begun \in Begun
  BY DEF LinkType
<1>2. \A l \in Line : l # c.begun /\ res # <<l>> /\ c.net # <<l>>
  BY DEF InStep, Refusal
<1>3. c.begun = NoLine
  BY <1>1, <1>2 DEF InStep, Begun
<1>4. Len(res) <= 1 /\ Len(c.net) <= 1
  BY <1>1, <1>3 DEF InStep
<1> QED BY <1>1, <1>2, <1>3, <1>4, OneLine

(* What Earned asks of the connection c, with res read of it.               *)
Fine(c, res) == c.cut \/ c.heard = 3 \/ InStep(c, res)

(* Arithmetic of the two: nothing lies between n and n + 1.                 *)
LEMMA Between ==
  \A x \in Nat : /\ x > 0 /\ x <= 1 => x = 1
                 /\ x > 1 /\ x <= 2 => x = 2
OBVIOUS

(* The same, the other way about.                                          *)
LEMMA Above ==
  \A x \in 0 .. 3 : /\ 0 < x => x >= 1
                    /\ 1 < x => x >= 2
                    /\ 2 < x => x >= 3
OBVIOUS

(* A sum of at most one has at most one part that is not 0.                *)
LEMMA OnePart ==
  \A x, y \in Nat, z \in {0, 1} :
    x + y + z <= 1 => /\ x <= 1 /\ y <= 1
                      /\ x # 0 => x = 1 /\ y = 0 /\ z = 0
                      /\ y + x + z <= 1
OBVIOUS

(* One more line of the server keeps a client in step: it is the answer the *)
(* client waits for.                                                       *)
LEMMA ServerFine ==
  ASSUME IInv, ServerHeard, NEW c \in Conn, ServerStep(c),
         NEW res \in Seq(Line), Fine(link[c], res)
  PROVE  Fine(link'[c], res)
<1>1. /\ TypeOK /\ link[c] \in LinkType /\ link[c].net \in Seq(Line)
      /\ link[c].out \in Seq(Handshake) /\ link[c].heard \in 0 .. 3
      /\ link[c].begun \in Begun
  BY DEF IInv, TypeOK, LinkType
<1>2. CASE link[c].cut
  <2>1. link'[c].cut = link[c].cut
    <3>1. ASSUME NEW l \in Line, NEW s \in Server, Arrives(c, l, s)
          PROVE  link'[c].cut = link[c].cut
      BY <1>1, <3>1, ArrivesFields
    <3>2. {"salut", "rep_ok", "rep_err"} \subseteq Line /\ ServerLines \subseteq Line
          /\ {"greeted", "auth_ok", "in", "refused"} \subseteq Server
      BY DataAssumption DEF Line, Server
    <3>3. CASE ServerHello(c) \/ ServerAnswers(c) \/ ServerSays(c)
      BY <3>1, <3>2, <3>3 DEF ServerHello, ServerAnswers, ServerSays
    <3>4. CASE ServerCompletes(c) \/ ServerCloses(c)
      BY <1>1, <3>4, CompletesFields, ClosesFields DEF Unseen
    <3> QED BY <3>3, <3>4 DEF ServerStep
  <2> QED BY <1>2, <2>1 DEF Fine
<1>3. ASSUME ~link[c].cut, link[c].heard # 3 PROVE Fine(link'[c], res)
  <2>1. InStep(link[c], res)
    BY <1>3 DEF Fine
  <2>2. ASSUME NEW l \in Line, NEW s \in Server, Arrives(c, l, s),
               link[c].srv \notin {"refused", "gone"},
               Len(link[c].out) = link[c].heard,
               \/ HeardAt(s) = 3
               \/ HeardAt(s) = link[c].heard + 1
               \/ HeardAt(s) = link[c].heard /\ l = "rep_err" /\ s = "refused"
        PROVE  Fine(link'[c], res)
    <3>1. res = <<>> /\ link[c].net = <<>>
      BY <1>1, <2>1, <2>2, NothingToRead
    <3>2. /\ link'[c].out = link[c].out /\ link'[c].srv = s
          /\ link'[c].heard = HeardAt(s)
          /\ \/ link'[c].net = <<l>> /\ link'[c].begun = NoLine
             \/ link'[c].net = <<>> /\ link'[c].begun = l
      BY <1>1, <2>2, <3>1, ArrivesFields
    <3>3. l # NoLine /\ NoLine # "tail" /\ l # "tail" /\ NoLine \notin Line
      BY DEF Line, NoLine
    <3>4. CASE HeardAt(s) = 3
      BY <3>2, <3>4 DEF Fine
    <3>5. CASE HeardAt(s) # 3
      <4>1. /\ Len(link[c].out) <= HeardAt(s)
            /\ Refusal(l, s) \/ Len(link[c].out) < HeardAt(s)
        BY <1>1, <2>2, <3>5 DEF Refusal
      <4>2. Len(<<>>) = 0 /\ Len(<<l>>) = 1 /\ <<l>> # <<>>
            /\ (\A k \in Line : <<k>> = <<l>> => k = l)
            /\ \A k \in Line : <<k>> # <<>>
        OBVIOUS
      <4>3. CASE link'[c].net = <<l>> /\ link'[c].begun = NoLine
        BY <3>1, <3>2, <3>3, <4>1, <4>2, <4>3 DEF Fine, InStep
      <4>4. CASE link'[c].net = <<>> /\ link'[c].begun = l
        BY <3>1, <3>2, <3>3, <4>1, <4>2, <4>4 DEF Fine, InStep
      <4> QED BY <3>2, <4>3, <4>4
    <3> QED BY <3>4, <3>5
  <2>3. Len(link[c].out) \in Nat /\ Len(link[c].out) <= link[c].heard
    BY <1>1, <2>1 DEF InStep
  <2>4. CASE ServerHello(c)
    <3>1. /\ link[c].srv = "accepted" /\ link[c].heard = 0
          /\ Arrives(c, "salut", "greeted")
      BY <2>4 DEF ServerHello, ServerHeard, HeardAt
    <3>2. "salut" \in Line /\ "greeted" \in Server /\ HeardAt("greeted") = 1
      BY DEF Line, Server, HeardAt
    <3> QED BY <2>2, <2>3, <3>1, <3>2
  <2>5. CASE ServerAnswers(c)
    <3>1. /\ {"rep_ok", "rep_err"} \subseteq Line
          /\ {"auth_ok", "in", "refused"} \subseteq Server
          /\ HeardAt("auth_ok") = 2 /\ HeardAt("in") = 3 /\ HeardAt("refused") = 2
      BY DEF Line, Server, HeardAt
    <3>2. CASE link[c].srv = "greeted"
      <4>1. link[c].heard = 1 /\ Len(link[c].out) > 0 /\ Arrives(c, "rep_ok", "auth_ok")
        BY <2>5, <3>2 DEF ServerAnswers, ServerHeard, HeardAt
      <4>2. Len(link[c].out) = link[c].heard
        BY <2>3, <4>1, Between
      <4>3. HeardAt("auth_ok") = link[c].heard + 1
        BY <3>1, <4>1
      <4> QED BY <2>2, <3>1, <3>2, <4>1, <4>2, <4>3
    <3>3. CASE link[c].srv = "auth_ok"
      <4>1. /\ link[c].heard = 2 /\ Len(link[c].out) > 1
            /\ Arrives(c, "rep_ok", "in") \/ Arrives(c, "rep_err", "refused")
        BY <2>5, <3>3 DEF ServerAnswers, ServerHeard, HeardAt
      <4>2. Len(link[c].out) = link[c].heard
        BY <2>3, <4>1, Between
      <4>3. CASE Arrives(c, "rep_ok", "in")
        BY <2>2, <3>1, <3>3, <4>2, <4>3
      <4>4. CASE Arrives(c, "rep_err", "refused")
        <5>1. /\ HeardAt("refused") = link[c].heard
              /\ "rep_err" \in Line /\ "refused" \in Server
              /\ link[c].srv \notin {"refused", "gone"}
          BY <3>1, <3>3, <4>1
        <5> QED BY <2>2, <4>2, <4>4, <5>1
      <4> QED BY <4>1, <4>3, <4>4
    <3> QED BY <2>5, <3>2, <3>3 DEF ServerAnswers
  <2>6. CASE ServerSays(c)
    BY <1>3, <2>6 DEF ServerSays, ServerHeard, HeardAt
  <2>7. CASE ServerCompletes(c)
    <3>1. PICK l \in Line :
            /\ link'[c].net = Append(link[c].net, l)
            /\ link[c].begun = l /\ link'[c].begun = NoLine
            /\ link'[c].srv = link[c].srv /\ link'[c].out = link[c].out
            /\ link'[c].heard = link[c].heard
      BY <1>1, <2>1, <2>7, CompletesFields DEF InStep, Unseen
    <3>2. l # NoLine /\ NoLine # "tail" /\ NoLine \notin Line
      BY DEF Line, NoLine
    <3>3. Len(res) = 0 /\ Len(link[c].net) = 0
      BY <1>1, <2>1, <3>1, <3>2 DEF InStep
    <3>4. res = <<>> /\ link[c].net = <<>>
      BY <1>1, <3>3, EmptySeq
    <3>5. link'[c].net = <<l>>
      BY <3>1, <3>4
    <3>6. Len(<<>>) = 0 /\ Len(<<l>>) = 1
          /\ (\A k \in Line : <<k>> = <<l>> => k = l)
          /\ \A k \in Line : <<k>> # <<>>
      OBVIOUS
    <3>7. Refusal(l, link[c].srv) \/ Len(link[c].out) < link[c].heard
      BY <2>1, <3>1 DEF InStep
    <3> QED BY <2>3, <3>1, <3>2, <3>4, <3>5, <3>6, <3>7 DEF Fine, InStep
  <2>8. CASE ServerCloses(c)
    <3>1. /\ link'[c].net = link[c].net /\ link'[c].begun = link[c].begun
          /\ link'[c].out = link[c].out /\ link'[c].heard = link[c].heard
          /\ link'[c].srv = "gone"
      BY <1>1, <2>8, ClosesFields DEF Unseen
    <3>2. \A l \in Line : Refusal(l, link[c].srv) => Refusal(l, "gone")
      BY DEF Refusal
    <3> QED BY <2>1, <3>1, <3>2 DEF Fine, InStep
  <2> QED BY <2>4, <2>5, <2>6, <2>7, <2>8 DEF ServerStep
<1>4. CASE link[c].heard = 3 /\ ~link[c].cut
  <2>1. ASSUME NEW l \in Line, NEW s \in Server, Arrives(c, l, s), HeardAt(s) = 3
        PROVE  Fine(link'[c], res)
    BY <1>1, <2>1, ArrivesFields DEF Fine
  <2>2. CASE ServerHello(c) \/ ServerAnswers(c)
    BY <1>4, <2>2 DEF ServerHello, ServerAnswers, ServerHeard, HeardAt
  <2>3. CASE ServerSays(c)
    BY <2>1, <2>3, DataAssumption DEF ServerSays, HeardAt, Server
  <2>4. CASE ServerCompletes(c) \/ ServerCloses(c)
    BY <1>1, <1>4, <2>4, CompletesFields, ClosesFields DEF Unseen, Fine
  <2> QED BY <2>2, <2>3, <2>4 DEF ServerStep
<1> QED BY <1>2, <1>3, <1>4

(* A client that reads stays in step.                                      *)
LEMMA ReadFine ==
  ASSUME IInv, RecvRead, Fine(link[cur], residue)
  PROVE  Fine(link'[cur], residue')
<1>1. /\ cur \in Conn /\ residue = <<>>
      /\ Unseen(link', cur) /\ link'[cur].srv = link[cur].srv
      /\ link'[cur].begun = link[cur].begun
  BY ReadFields
<1>2. PICK k \in 0 .. Len(link[cur].net) :
        /\ residue' = SubSeq(link[cur].net, 1, k)
        /\ link'[cur].net = SubSeq(link[cur].net, k + 1, Len(link[cur].net))
  BY ReadFields
<1>3. link[cur] \in LinkType /\ link[cur].net \in Seq(Line)
  BY <1>1 DEF IInv, TypeOK, LinkType
<1>4. CASE link[cur].cut \/ link[cur].heard = 3
  BY <1>1, <1>4 DEF Fine, Unseen
<1>5. CASE InStep(link[cur], residue)
  <2> DEFINE net == link[cur].net
             left == link'[cur].net
  <2>1. Len(net) <= 1
    <3>1. Len(net) \in Nat /\ Len(residue) = 0
      BY <1>1, <1>3
    <3>2. Len(residue) + Len(net) + (IF link[cur].begun = NoLine THEN 0 ELSE 1) <= 1
      BY <1>5 DEF InStep
    <3> DEFINE x == Len(residue)
               z == IF link[cur].begun = NoLine THEN 0 ELSE 1
               y == Len(net)
    <3>3. x \in Nat /\ y \in Nat /\ z \in {0, 1} /\ x + y + z <= 1
      <4>1. x \in Nat /\ y \in Nat /\ z \in {0, 1}
        BY <3>1
      <4>2. x + y + z <= 1
        BY <3>2
      <4> QED BY <4>1, <4>2
    <3> HIDE DEF x, y, z
    <3>4. y <= 1
      BY <3>3, OnePart
    <3> QED BY <3>4 DEF y
  <2>2. net \in Seq(Line) /\ k \in 0 .. Len(net)
    BY <1>3
  <2>3. residue' = SubSeq(net, 1, k) /\ left = SubSeq(net, k + 1, Len(net))
    BY <1>2
  <2> HIDE DEF net, left
  <2>4. \/ residue' = <<>> /\ left = net
        \/ residue' = net /\ left = <<>>
    BY <2>1, <2>2, <2>3, ReadOne
  <2>5. \A l \in Line : <<>> # <<l>>
    OBVIOUS
  <2> USE DEF net, left
  <2>6. InStep(link'[cur], residue')
    <3>1. CASE residue' = <<>> /\ left = net
      BY <1>1, <1>3, <1>5, <3>1 DEF InStep, Unseen
    <3>2. CASE residue' = net /\ left = <<>>
      <4>1. Len(<<>>) = 0 /\ Len(net) \in Nat
        BY <1>3
      <4>2. /\ link'[cur].net = <<>> /\ residue' = link[cur].net
            /\ link'[cur].begun = link[cur].begun /\ link'[cur].srv = link[cur].srv
            /\ link'[cur].out = link[cur].out /\ link'[cur].heard = link[cur].heard
        BY <1>1, <3>2 DEF Unseen
      <4>3. Len(residue') + Len(link'[cur].net)
              + (IF link'[cur].begun = NoLine THEN 0 ELSE 1) <= 1
        <5> DEFINE x == Len(residue)
                   y == Len(net)
                   z == IF link[cur].begun = NoLine THEN 0 ELSE 1
        <5>1. x + y + z <= 1 /\ x \in Nat /\ y \in Nat /\ z \in {0, 1}
          BY <1>1, <1>5, <4>1 DEF InStep
        <5>2. /\ Len(residue') = y /\ Len(link'[cur].net) = x
              /\ (IF link'[cur].begun = NoLine THEN 0 ELSE 1) = z
          BY <1>1, <4>1, <4>2
        <5> HIDE DEF x, y, z
        <5>3. y + x + z <= 1
          BY <5>1, OnePart
        <5> QED BY <5>2, <5>3
      <4> QED BY <1>5, <2>5, <4>2, <4>3 DEF InStep
    <3> QED BY <2>4, <3>1, <3>2
  <2> QED BY <2>6 DEF Fine
<1> QED BY <1>4, <1>5 DEF Fine

(* Nor does one that handles a line and says the next one get ahead: there  *)
(* was an answer to its last line, and it was not a refusal.               *)
LEMMA LineFine ==
  ASSUME IInv, RecvLine, ~main_cc, ~Die, Fine(link[cur], residue)
  PROVE  /\ Fine(link'[cur], residue')
         /\ SaidMore => link[cur].cut \/ Len(link[cur].out) < link[cur].heard
<1>1. /\ cur \in Conn /\ residue # <<>> /\ residue' = Tail(residue)
      /\ AsBefore(link', cur) /\ (SaidMore \/ SaidNothing)
  BY LineFields
<1>2. /\ link[cur] \in LinkType /\ link[cur].net \in Seq(Line)
      /\ link[cur].out \in Seq(Handshake) /\ residue \in Seq(Line)
      /\ link[cur].heard \in 0 .. 3 /\ Len(link[cur].out) \in Nat
  BY <1>1 DEF IInv, TypeOK, LinkType
<1>3. SaidMore => Len(link[cur].out) < 3
  <2>1. Running /\ client_fd # 0
    BY DEF RecvLine, IInv, PlaceFits, Running
  <2>2. Len(SaidUpTo(0)) = 0 /\ Len(SaidUpTo(1)) = 1 /\ Len(SaidUpTo(2)) = 2
    BY DEF SaidUpTo
  <2>3. SaidMore => \/ status = "NOT_CONNECTED"
                    \/ status = "NOT_AUTH"
                    \/ status = "ATTACH_SENT"
    BY DEF SaidMore, Speech
  <2>4. /\ status = "NOT_CONNECTED" => link[cur].out = SaidUpTo(0)
        /\ status = "NOT_AUTH" => link[cur].out = SaidUpTo(1)
        /\ status = "ATTACH_SENT" => link[cur].out = SaidUpTo(2)
    BY <2>1 DEF IInv, HandshakeInOrder
  <2>5. 0 < 3 /\ 1 < 3 /\ 2 < 3
    OBVIOUS
  <2> QED BY <2>2, <2>3, <2>4, <2>5, ZenonT(30)
<1>4. CASE link[cur].cut \/ link[cur].heard = 3
  BY <1>1, <1>3, <1>4 DEF Fine, AsBefore
<1>5. CASE InStep(link[cur], residue)
  <2>1. Len(residue) = 1 /\ Len(link[cur].net) = 0 /\ link[cur].begun = NoLine
    <3>1. Len(residue) \in Nat /\ Len(residue) # 0 /\ Len(link[cur].net) \in Nat
      BY <1>1, <1>2, EmptySeq
    <3>2. Len(residue) + Len(link[cur].net)
            + (IF link[cur].begun = NoLine THEN 0 ELSE 1) <= 1
      BY <1>5 DEF InStep
    <3> DEFINE x == Len(residue)
               y == Len(link[cur].net)
               z == IF link[cur].begun = NoLine THEN 0 ELSE 1
    <3>3. x \in Nat /\ x # 0 /\ y \in Nat /\ z \in {0, 1} /\ x + y + z <= 1
      BY <3>1, <3>2
    <3>4. z = 0 => link[cur].begun = NoLine
      OBVIOUS
    <3> HIDE DEF x, y, z
    <3>5. x = 1 /\ y = 0 /\ z = 0
      BY <3>3, OnePart
    <3> QED BY <3>4, <3>5 DEF x, y
  <2>2. PICK l \in Line : residue = <<l>>
    BY <1>1, <1>2, <2>1, OneLine
  <2>3. residue' = <<>> /\ Head(residue) = l /\ link[cur].net = <<>>
    BY <1>1, <1>2, <2>1, <2>2, EmptySeq
  <2>4. SaidMore => Len(link[cur].out) < link[cur].heard
    BY <1>5, <2>2, <2>3 DEF SaidMore, InStep, Refusal
  <2>5. Len(link'[cur].out) <= link'[cur].heard
    <3>1. CASE SaidMore
      <4>1. PICK m \in Handshake : link'[cur].out = Append(link[cur].out, m)
        BY <3>1 DEF SaidMore
      <4>2. Len(link'[cur].out) = Len(link[cur].out) + 1
        BY <1>2, <4>1
      <4> QED BY <1>1, <1>2, <2>4, <3>1, <4>2 DEF AsBefore
    <3>2. CASE SaidNothing
      BY <1>1, <1>5, <3>2 DEF SaidNothing, AsBefore, InStep
    <3> QED BY <1>1, <3>1, <3>2
  <2>6. NoLine \notin Line /\ NoLine # "tail" /\ Len(<<>>) = 0
        /\ \A k \in Line : <<k>> # <<>>
    BY DEF Line, NoLine
  <2>7. /\ link'[cur].net = <<>> /\ link'[cur].begun = NoLine
    BY <1>1, <2>1, <2>3 DEF AsBefore
  <2>8. InStep(link'[cur], residue')
    BY <2>3, <2>5, <2>6, <2>7 DEF InStep
  <2> QED BY <2>4, <2>8 DEF Fine
<1> QED BY <1>4, <1>5 DEF Fine

(* A client in the handshake stays in step with what it has heard.         *)
LEMMA EarnedNext ==
  ASSUME IInv, ServerHeard, Earned, [Next]_vars
  PROVE  Earned'
<1> SUFFICES ASSUME Running', client_fd' # 0, status' \in Handshaking
             PROVE  Fine(link'[cur'], residue')
  BY DEF Earned, Fine
<1>0. TypeOK
  BY DEF IInv
<1>1. ASSUME Running, client_fd # 0, status \in Handshaking
      PROVE  cur \in Conn /\ Fine(link[cur], residue)
  BY <1>1, CurConn DEF Earned, Fine, IInv
<1>2. ASSUME NEW d \in Conn, AsBefore(link', d), link'[d].out = link[d].out,
             Fine(link[d], residue), residue' = residue
      PROVE  Fine(link'[d], residue')
  BY <1>2 DEF Fine, InStep, AsBefore
<1>3. CASE Still
  <2>1. cur' = cur /\ link' = link /\ residue' = residue
    BY <1>3 DEF Still, cur
  <2> QED BY <1>1, <1>3, <2>1 DEF Still
<1>4. CASE main_cc \/ Exit \/ Die
  BY <1>0, <1>4, HungFields
<1>5. CASE RecvRead
  <2>1. /\ Running /\ client_fd # 0 /\ status' = status /\ cur' = cur
    BY <1>5 DEF RecvRead, Running, IInv, PlaceFits, cur
  <2> QED BY <1>1, <1>5, <2>1, ReadFine
<1>6. CASE RecvLine
  <2>1. CASE main_cc \/ Die
    BY <1>4, <2>1
  <2>2. CASE ~main_cc /\ ~Die
    <3>1. /\ UNCHANGED <<client_fd, file>>
          /\ (SaidMore \/ SaidNothing)
          /\ Running /\ client_fd # 0
      BY <1>6, <2>2, LineFields DEF RecvLine, Running, IInv, PlaceFits
    <3>2. status \in Handshaking
      <4>1. CASE SaidMore
        BY <4>1 DEF SaidMore, Speech, Handshaking
      <4>2. CASE SaidNothing
        BY <4>2 DEF SaidNothing
      <4> QED BY <3>1, <4>1, <4>2
    <3>3. cur' = cur
      BY <3>1 DEF cur
    <3> QED BY <1>1, <1>6, <2>2, <3>1, <3>2, <3>3, LineFine
  <2> QED BY <2>1, <2>2
<1>7. CASE RecvCut
  <2>1. cur' = cur
    BY <1>7 DEF RecvCut, cur
  <2> QED BY <1>7, <2>1, CutFields DEF Fine
<1>8. CASE ConnectSucceeds
  <2>1. PICK c \in Conn :
          /\ cur' = c /\ residue' = <<>>
          /\ link'[c] = IF INTERNE THEN [Idle EXCEPT !.srv = "in", !.heard = 3]
                                   ELSE [Idle EXCEPT !.srv = "accepted"]
    BY <1>8, OpenFields
  <2>2. CASE INTERNE
    BY <2>1, <2>2 DEF Idle, Fine
  <2>3. CASE ~INTERNE
    <3>1. /\ link'[c].begun = NoLine /\ link'[c].net = <<>>
          /\ link'[c].out = <<>> /\ link'[c].heard = 0
      BY <2>1, <2>3 DEF Idle
    <3>2. /\ NoLine # "tail" /\ NoLine \notin Line /\ Len(<<>>) = 0
          /\ \A l \in Line : <<l>> # <<>>
      BY DEF NoLine, Line
    <3>3. /\ Len(link'[c].out) <= link'[c].heard
          /\ Len(residue') + Len(link'[c].net)
               + (IF link'[c].begun = NoLine THEN 0 ELSE 1) <= 1
      <4>1. 0 <= 0 /\ 0 + 0 + 0 <= 1
        OBVIOUS
      <4> QED BY <2>1, <3>1, <3>2, <4>1, ZenonT(40)
    <3>4. InStep(link'[c], residue')
      BY <2>1, <3>1, <3>2, <3>3 DEF InStep
    <3> QED BY <2>1, <3>4 DEF Fine
  <2> QED BY <2>2, <2>3
<1>9. CASE Announces
  <2>1. PICK w \in Word :
          /\ status' = StatusOf(w) /\ link' = Told(w) /\ Running
          /\ UNCHANGED <<pc, client_fd, file, residue>>
    BY <1>9 DEF Announces
  <2>2. status \in Handshaking /\ cur' = cur /\ residue' = residue
    BY <2>1 DEF StatusOf, Handshaking, cur
  <2>3. AsBefore(link', cur) /\ link'[cur].out = link[cur].out
    BY <1>1, <2>1, <2>2, ToldFields
  <2> QED BY <1>1, <1>2, <2>1, <2>2, <2>3
<1>10. ASSUME NEW c \in Conn, ServerStep(c) PROVE Fine(link'[cur'], residue')
  <2>1. /\ UNCHANGED <<pc, status, client_fd, file, residue>> /\ cur' = cur
    BY <1>10 DEF ServerStep, ServerHello, ServerAnswers, ServerSays,
                 ServerCompletes, ServerCloses, Outside, readVars, cur
  <2>2. Running /\ cur \in Conn /\ Fine(link[cur], residue)
    BY <1>1, <2>1 DEF Running
  <2>3. CASE c = cur
    <3>1. residue \in Seq(Line)
      BY <1>0 DEF TypeOK
    <3> QED BY <1>10, <2>1, <2>2, <2>3, <3>1, ServerFine
  <2>4. CASE c # cur
    <3>1. \A d \in Conn \ {c} : link'[d] = link[d]
      <4>1. ASSUME NEW l \in Line, NEW s \in Server, Arrives(c, l, s)
            PROVE  \A d \in Conn \ {c} : link'[d] = link[d]
        BY <1>0, <4>1, ArrivesFields
      <4>2. /\ {"salut", "rep_ok", "rep_err"} \subseteq Line
            /\ ServerLines \subseteq Line
            /\ {"greeted", "auth_ok", "in", "refused"} \subseteq Server
        BY DataAssumption DEF Line, Server
      <4>3. CASE ServerHello(c) \/ ServerAnswers(c) \/ ServerSays(c)
        BY <4>1, <4>2, <4>3 DEF ServerHello, ServerAnswers, ServerSays
      <4>4. CASE ServerCompletes(c) \/ ServerCloses(c)
        BY <1>0, <4>4, CompletesFields, ClosesFields
      <4> QED BY <1>10, <4>3, <4>4 DEF ServerStep
    <3> QED BY <2>1, <2>2, <2>4, <3>1
  <2> QED BY <2>3, <2>4
<1> QED
  BY <1>3, <1>4, <1>5, <1>6, <1>7, <1>8, <1>9, <1>10, Kinds

(* Both hold from the start, where nothing is connected.                   *)
LEMMA EarnedInit == Init => ServerHeard /\ Earned
BY DEF Init, ServerHeard, Earned, Idle, HeardAt

-----------------------------------------------------------------------------
(***************************************************************************)
(* Session implements Protocol, for every number of connections and        *)
(* descriptors, outside the PIE.                                           *)
(***************************************************************************)

\* What the mapping shows of the session: a phase, a connection.
PhaseAt(c, s, lk) ==
  IF c = NoConn THEN "down"
  ELSE IF s = "NOT_CONNECTED" THEN "greeting"
  ELSE IF s = "NOT_AUTH" THEN "auth"
  ELSE IF s \in {"AUTH_SENT", "ATTACH_SENT"} THEN "log"
  ELSE IF lk[c].out = SaidUpTo(3) THEN "online"
  ELSE "claimed"

MetAt(c, lk) == IF c = NoConn THEN Idle ELSE lk[c]

(* The mapping, before and after a step.                                   *)
LEMMA Mapping ==
  /\ phase = PhaseAt(cur, status, link) /\ Met = MetAt(cur, link)
  /\ phase' = PhaseAt(cur', status', link') /\ Met' = MetAt(cur', link')
BY DEF phase, Met, PhaseAt, MetAt

ProtocolStep ==
  P!Next \/ UNCHANGED <<phase, Met.out, Met.told, Met.heard, Met.cut>>

(* A step that neither speaks nor moves CNX_STATUS or the connection.       *)
LEMMA StillStep ==
  ASSUME cur' = cur, status' = status, cur # NoConn => Unseen(link', cur)
  PROVE  ProtocolStep
<1>1. phase' = phase
  BY Mapping DEF PhaseAt, Unseen
<1>2. /\ Met'.out = Met.out /\ Met'.told = Met.told
      /\ Met'.heard = Met.heard /\ Met'.cut = Met.cut
  BY Mapping DEF MetAt, Unseen
<1> QED BY <1>1, <1>2 DEF ProtocolStep

(* A step after which there is no connection.                              *)
LEMMA DropStep ==
  ASSUME cur' = NoConn
  PROVE  ProtocolStep
<1>1. phase' = "down" /\ Met' = Idle
  BY Mapping DEF PhaseAt, MetAt
<1>2. P!Drop
  BY <1>1 DEF P!Drop, P!Fresh, Idle
<1> QED BY <1>2 DEF ProtocolStep, P!Next

(* A line of the server moves the handshake by one step, or by none.       *)
LEMMA LineStep ==
  ASSUME IInv, Earned, RecvLine
  PROVE  ProtocolStep
<1>1. CASE main_cc \/ Die
  <2>1. cur' = NoConn
    BY <1>1, HungFields DEF IInv
  <2> QED BY <2>1, DropStep
<1>2. CASE ~main_cc /\ ~Die
  <2>1. /\ UNCHANGED <<client_fd, file>> /\ cur \in Conn
        /\ AsBefore(link', cur) /\ (SaidMore \/ SaidNothing)
        /\ Running /\ client_fd # 0
    BY <1>2, LineFields DEF RecvLine, Running, IInv, PlaceFits
  <2>2. cur' = cur /\ cur # NoConn
    BY <2>1, ConnAssumption DEF cur
  <2>3. CASE SaidNothing
    BY <2>1, <2>2, <2>3, StillStep DEF SaidNothing, Unseen, AsBefore
  <2>4. CASE SaidMore
    <3>1. PICK s \in Status, m \in Handshake :
            /\ Speech(s, m) /\ status' = s
            /\ link'[cur].out = Append(link[cur].out, m)
            /\ link'[cur].told = IF m = "watch_log_user" THEN "actif"
                                                         ELSE link[cur].told
      BY <2>4 DEF SaidMore
    <3>2. status \in Handshaking
      BY <3>1 DEF Speech, Handshaking
    <3>3. Fine(link[cur], residue)
      BY <2>1, <3>2 DEF Earned, Fine
    <3>4. link[cur].cut \/ Len(link[cur].out) < link[cur].heard
      BY <1>2, <2>4, <3>3, LineFine
    <3>5. /\ phase = PhaseAt(cur, status, link) /\ Met = link[cur]
          /\ phase' = PhaseAt(cur, s, link') /\ Met' = link'[cur]
      BY <2>2, <3>1, Mapping DEF MetAt
    <3>6. Met'.heard = Met.heard /\ Met'.cut = Met.cut
          /\ Met'.out = Append(Met.out, m)
      BY <2>1, <3>1, <3>5 DEF AsBefore
    <3>7. Met.heard \in 0 .. 3
      BY <2>1, <3>5 DEF IInv, TypeOK, LinkType
    <3>8. /\ status = "NOT_CONNECTED" => Len(Met.out) = 0
          /\ status = "NOT_AUTH" => Len(Met.out) = 1
          /\ status = "ATTACH_SENT" => Len(Met.out) = 2 /\ Met.out = SaidUpTo(2)
      <4>1. /\ status = "NOT_CONNECTED" => link[cur].out = SaidUpTo(0)
            /\ status = "NOT_AUTH" => link[cur].out = SaidUpTo(1)
            /\ status = "ATTACH_SENT" => link[cur].out = SaidUpTo(2)
        BY <2>1 DEF IInv, HandshakeInOrder
      <4>2. Len(SaidUpTo(0)) = 0 /\ Len(SaidUpTo(1)) = 1 /\ Len(SaidUpTo(2)) = 2
        BY DEF SaidUpTo
      <4> QED BY <3>5, <4>1, <4>2
    <3>9. CASE status = "NOT_CONNECTED"
      <4>1. phase = "greeting" /\ phase' = "auth" /\ m = "auth_ag"
        BY <2>2, <3>1, <3>5, <3>9 DEF Speech, PhaseAt
      <4>2. Met.heard >= 1 \/ Met.cut
        BY <3>4, <3>5, <3>7, <3>8, <3>9, Above
      <4>3. Met'.told = Met.told
        BY <3>1, <3>5, <4>1
      <4> QED BY <3>6, <4>1, <4>2, <4>3 DEF ProtocolStep, P!Next, P!Answer
    <3>10. CASE status = "NOT_AUTH"
      <4>1. phase = "auth" /\ phase' = "log" /\ m = "ext_user_log"
        BY <2>2, <3>1, <3>5, <3>10 DEF Speech, PhaseAt
      <4>2. Met.heard >= 2 \/ Met.cut
        BY <3>4, <3>5, <3>7, <3>8, <3>10, Above
      <4>3. Met'.told = Met.told
        BY <3>1, <3>5, <4>1
      <4> QED BY <3>6, <4>1, <4>2, <4>3 DEF ProtocolStep, P!Next, P!Answer
    <3>11. CASE status = "ATTACH_SENT"
      <4>1. m = "watch_log_user" /\ s = "ACTIF"
        BY <3>1, <3>11 DEF Speech
      <4>2. link'[cur].out = SaidUpTo(3)
        BY <3>5, <3>6, <3>8, <3>11, <4>1, SaidUpToLemma
      <4>3. phase = "log" /\ phase' = "online"
        BY <2>2, <3>5, <3>11, <4>1, <4>2 DEF PhaseAt
      <4>4. Met.heard >= 3 \/ Met.cut
        BY <3>4, <3>5, <3>7, <3>8, <3>11, Above
      <4>5. Met'.told = "actif"
        BY <3>1, <3>5, <4>1
      <4> QED BY <3>6, <4>1, <4>3, <4>4, <4>5 DEF ProtocolStep, P!Next, P!Answer
    <3> QED BY <3>1, <3>9, <3>10, <3>11 DEF Speech
  <2> QED BY <2>1, <2>3, <2>4
<1> QED BY <1>1, <1>2

(* nsc_connect_socket begins a handshake where there is none, or one that   *)
(* the server has not been answered on.                                    *)
LEMMA OpenStep ==
  ASSUME IInv, ~INTERNE, ConnectSucceeds
  PROVE  ProtocolStep
<1>1. PICK c \in Conn :
        /\ cur' = c /\ status = "NOT_CONNECTED"
        /\ link'[c] = [Idle EXCEPT !.srv = "accepted"]
        /\ status' = status
  BY OpenFields
<1>2. c # NoConn /\ cur' # NoConn
  BY <1>1, ConnAssumption
<1>3. phase' = "greeting" /\ Met' = [Idle EXCEPT !.srv = "accepted"]
  BY <1>1, <1>2, Mapping DEF PhaseAt, MetAt
<1>4. phase \in {"down", "greeting"}
  BY <1>1, Mapping DEF PhaseAt
<1>5. P!Open
  BY <1>3, <1>4 DEF P!Open, P!Fresh, Idle
<1> QED BY <1>5 DEF ProtocolStep, P!Next

(* A state command announces, before the handshake is over or after.       *)
LEMMA AnnounceStep ==
  ASSUME IInv, Announces
  PROVE  ProtocolStep
<1>1. PICK w \in Word :
        /\ status' = StatusOf(w) /\ link' = Told(w) /\ Running
        /\ UNCHANGED <<client_fd, file>>
  BY DEF Announces
<1>2. cur' = cur
  BY <1>1 DEF cur
<1>3. CASE cur = NoConn
  BY <1>2, <1>3, DropStep
<1>4. CASE cur # NoConn
  <2>1. client_fd # 0
    BY <1>4 DEF cur
  <2>2. cur \in Conn
    BY <1>1, <2>1, CurConn DEF IInv
  <2>3. AsBefore(link', cur) /\ link'[cur].out = link[cur].out /\ link'[cur].told = w
    BY <1>1, <2>1, <2>2, ToldFields
  <2>4. /\ phase = PhaseAt(cur, status, link) /\ Met = link[cur]
        /\ phase' = PhaseAt(cur, status', link') /\ Met' = link'[cur]
    BY <1>2, <1>4, Mapping DEF MetAt
  <2>5. /\ Met'.told = w /\ Met'.out = Met.out
        /\ Met'.heard = Met.heard /\ Met'.cut = Met.cut
    BY <2>3, <2>4 DEF AsBefore
  <2>6. phase # "down"
    BY <1>4, <2>4 DEF PhaseAt
  <2>7. phase' = IF w # "server" /\ phase \in {"greeting", "auth", "log"}
                 THEN "claimed" ELSE phase
    <3>1. CASE w = "server"
      BY <1>1, <2>3, <2>4, <3>1 DEF StatusOf, PhaseAt
    <3>2. CASE w # "server"
      <4>1. status' \in {"AWAY", "LOCK", "IDLE", "ACTIF"}
        BY <1>1, <3>2 DEF StatusOf, Word
      <4>2. CASE status \in {"NOT_CONNECTED", "NOT_AUTH", "ATTACH_SENT"}
        <5>1. /\ status = "NOT_CONNECTED" => link[cur].out = SaidUpTo(0)
              /\ status = "NOT_AUTH" => link[cur].out = SaidUpTo(1)
              /\ status = "ATTACH_SENT" => link[cur].out = SaidUpTo(2)
          BY <1>1, <2>1 DEF IInv, HandshakeInOrder
        <5>2. /\ Len(SaidUpTo(0)) = 0 /\ Len(SaidUpTo(1)) = 1
              /\ Len(SaidUpTo(2)) = 2 /\ Len(SaidUpTo(3)) = 3
          BY DEF SaidUpTo
        <5>3. link[cur].out # SaidUpTo(3)
          <6>1. /\ SaidUpTo(0) # SaidUpTo(3) /\ SaidUpTo(1) # SaidUpTo(3)
                /\ SaidUpTo(2) # SaidUpTo(3)
            BY <5>2
          <6> QED BY <4>2, <5>1, <6>1
        <5>4. phase' = "claimed" /\ phase \in {"greeting", "auth", "log"}
          BY <1>4, <2>3, <2>4, <4>1, <4>2, <5>3 DEF PhaseAt
        <5> QED BY <3>2, <5>4
      <4>3. CASE status \notin {"NOT_CONNECTED", "NOT_AUTH", "ATTACH_SENT"}
        <5>1. status # "AUTH_SENT"
          BY DEF IInv, StatusSet
        <5>2. phase' = phase /\ phase \in {"online", "claimed"}
          BY <1>4, <2>3, <2>4, <4>1, <4>3, <5>1 DEF PhaseAt
        <5> QED BY <5>2
      <4> QED BY <4>2, <4>3
    <3> QED BY <3>1, <3>2
  <2>8. P!Announce(w) /\ w \in P!Word
    BY <2>5, <2>6, <2>7 DEF P!Announce, P!Word, Word
  <2> QED BY <2>8 DEF ProtocolStep, P!Next
<1> QED BY <1>3, <1>4

(* The server speaks, or does not.                                         *)
LEMMA ServerStepStep ==
  ASSUME IInv, ServerHeard, NEW c \in Conn, ServerStep(c)
  PROVE  ProtocolStep
<1>1. /\ UNCHANGED <<status, client_fd, file>> /\ cur' = cur /\ TypeOK
  BY DEF ServerStep, ServerHello, ServerAnswers, ServerSays,
         ServerCompletes, ServerCloses, Outside, cur, IInv
<1>2. ASSUME NEW l \in Line, NEW s \in Server, Arrives(c, l, s),
             HeardAt(s) \in {link[c].heard, link[c].heard + 1},
             link[c].heard + 1 = HeardAt(s) => link[c].heard < 3
      PROVE  ProtocolStep
  <2>1. /\ link'[c].out = link[c].out /\ link'[c].told = link[c].told
        /\ link'[c].cut = link[c].cut /\ link'[c].heard = HeardAt(s)
        /\ \A d \in Conn \ {c} : link'[d] = link[d]
    BY <1>1, <1>2, ArrivesFields
  <2>2. CASE cur # c \/ HeardAt(s) = link[c].heard
    <3>1. cur # NoConn => cur \in Conn
      BY <1>1 DEF cur, TypeOK
    <3>2. cur # NoConn => Unseen(link', cur)
      BY <2>1, <2>2, <3>1 DEF Unseen
    <3> QED BY <1>1, <3>2, StillStep
  <2>3. CASE cur = c /\ HeardAt(s) = link[c].heard + 1
    <3>1. cur # NoConn
      BY <2>3, ConnAssumption
    <3>2. /\ phase = PhaseAt(cur, status, link) /\ Met = link[c]
          /\ phase' = PhaseAt(cur, status, link') /\ Met' = link'[c]
      BY <1>1, <2>3, <3>1, Mapping DEF MetAt
    <3>3. phase' = phase /\ phase # "down"
      BY <2>1, <2>3, <3>1, <3>2 DEF PhaseAt
    <3>4. /\ Met'.out = Met.out /\ Met'.told = Met.told /\ Met'.cut = Met.cut
          /\ Met'.heard = Met.heard + 1 /\ Met.heard < 3
      BY <1>2, <2>1, <2>3, <3>2
    <3>5. P!Speaks
      BY <3>3, <3>4 DEF P!Speaks
    <3> QED BY <3>5 DEF ProtocolStep, P!Next
  <2> QED BY <1>2, <2>2, <2>3
<1>3. CASE ServerHello(c)
  <2>1. link[c].heard = 0 /\ Arrives(c, "salut", "greeted")
    BY <1>3 DEF ServerHello, ServerHeard, HeardAt
  <2>2. "salut" \in Line /\ "greeted" \in Server /\ HeardAt("greeted") = 1
    BY DEF Line, Server, HeardAt
  <2>3. HeardAt("greeted") = link[c].heard + 1 /\ link[c].heard < 3
    BY <2>1, <2>2
  <2> QED BY <1>2, <2>1, <2>2, <2>3
<1>4. CASE ServerAnswers(c)
  <2>1. /\ {"rep_ok", "rep_err"} \subseteq Line
        /\ {"auth_ok", "in", "refused"} \subseteq Server
        /\ HeardAt("auth_ok") = 2 /\ HeardAt("in") = 3 /\ HeardAt("refused") = 2
    BY DEF Line, Server, HeardAt
  <2>2. \/ link[c].heard = 1 /\ Arrives(c, "rep_ok", "auth_ok")
        \/ link[c].heard = 2 /\ Arrives(c, "rep_ok", "in")
        \/ link[c].heard = 2 /\ Arrives(c, "rep_err", "refused")
    BY <1>4 DEF ServerAnswers, ServerHeard, HeardAt
  <2>3. 1 + 1 = 2 /\ 2 + 1 = 3 /\ 1 < 3 /\ 2 < 3
    OBVIOUS
  <2> QED BY <1>2, <2>1, <2>2, <2>3
<1>5. CASE ServerSays(c)
  <2>1. PICK l \in ServerLines : link[c].heard = 3 /\ Arrives(c, l, "in")
    BY <1>5 DEF ServerSays, ServerHeard, HeardAt
  <2>2. l \in Line /\ "in" \in Server /\ HeardAt("in") = 3 /\ 3 # 3 + 1
    BY DataAssumption DEF Server, HeardAt
  <2> QED BY <1>2, <2>1, <2>2
<1>6. CASE ServerCompletes(c) \/ ServerCloses(c)
  <2>1. /\ Unseen(link', c) /\ \A d \in Conn \ {c} : link'[d] = link[d]
    BY <1>1, <1>6, CompletesFields, ClosesFields
  <2>2. cur # NoConn => cur \in Conn
    BY <1>1 DEF cur, TypeOK
  <2>3. cur # NoConn => Unseen(link', cur)
    BY <2>1, <2>2 DEF Unseen
  <2> QED BY <1>1, <2>3, StillStep
<1> QED BY <1>3, <1>4, <1>5, <1>6 DEF ServerStep

(* Every step of the session is a step of the protocol or none.            *)
LEMMA NextStep ==
  ASSUME IInv, ServerHeard, Earned, ~INTERNE, [Next]_vars
  PROVE  ProtocolStep
<1>1. CASE Still
  BY <1>1, StillStep DEF Still, Unseen, cur
<1>2. CASE main_cc \/ Exit \/ Die
  BY <1>2, HungFields, DropStep DEF IInv
<1>3. CASE RecvRead
  <2>1. cur' = cur /\ status' = status
    BY <1>3 DEF RecvRead, cur
  <2> QED BY <1>3, <2>1, ReadFields, StillStep
<1>4. CASE RecvCut
  <2>1. cur' = cur /\ status' = status
    BY <1>4 DEF RecvCut, cur
  <2>2. /\ cur \in Conn /\ cur # NoConn
        /\ link'[cur].out = link[cur].out /\ link'[cur].told = link[cur].told
        /\ link'[cur].heard = link[cur].heard /\ link'[cur].cut = TRUE
    BY <1>4, CutFields, ConnAssumption
  <2>3. /\ phase = PhaseAt(cur, status, link) /\ Met = link[cur]
        /\ phase' = PhaseAt(cur, status, link') /\ Met' = link'[cur]
    BY <2>1, <2>2, Mapping DEF MetAt
  <2>4. phase' = phase /\ phase # "down"
    BY <2>2, <2>3 DEF PhaseAt
  <2>5. P!Breaks
    BY <2>2, <2>3, <2>4 DEF P!Breaks
  <2> QED BY <2>5 DEF ProtocolStep, P!Next
<1> QED
  BY <1>1, <1>2, <1>3, <1>4, LineStep, OpenStep, AnnounceStep, ServerStepStep,
     Kinds

(* The session implements Protocol: its initial state is one of Protocol,   *)
(* and each of its steps a step of Protocol or a stutter, through lost      *)
(* connections, deaths, refusals and all commands, early ones included. So  *)
(* no line of the handshake is said before the line of the server it        *)
(* answers, and none but the user's word or a line that was cut makes nsc   *)
(* take itself for logged in before the server has confirmed it.           *)
THEOREM Implements == ~INTERNE => (Spec => ProtocolSpec)
<1> SUFFICES ASSUME ~INTERNE PROVE Spec => ProtocolSpec
  OBVIOUS
<1>1. Init => P!Init
  BY DEF Init, P!Init, phase, Met, cur, Idle
<1>2. ServerHeard /\ Earned /\ IInv /\ [Next]_vars => ServerHeard' /\ Earned'
  BY HeardNext, EarnedNext
<1>3. Spec => [](ServerHeard /\ Earned)
  BY <1>2, EarnedInit, Safety, PTL DEF Spec
<1>4. IInv /\ ServerHeard /\ Earned /\ [Next]_vars => [P!Next]_(P!vars)
  BY NextStep DEF ProtocolStep, P!vars
<1> QED BY <1>1, <1>3, <1>4, Safety, PTL DEF Spec, ProtocolSpec, P!Spec

=============================================================================
