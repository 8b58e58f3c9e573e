------------------------------ MODULE Session ------------------------------
(***************************************************************************)
(* The life of one nsc process: the select loop of main(), the descriptors *)
(* it watches, opening and closing the NetSoul connection, the handshake   *)
(* and the dispatch of what the server sends, the console commands that    *)
(* act on the connection, and the keepalive.                               *)
(*                                                                         *)
(* The program has one thread; every action below is what it does between  *)
(* two points where the outside (server, kernel, user) can be seen to move.*)
(* `link' is the outside: one record per connection, with what the server  *)
(* has sent and nsc has not read yet, and what nsc has written.            *)
(***************************************************************************)
EXTENDS Integers, Sequences, FiniteSets

CONSTANTS
  Conn,          \* connections; one is recycled once nothing refers to it
  NoConn,        \* the absence of one, and the NULL challenge
  Fds,           \* descriptor numbers the kernel can give to sockets
  AUTOCONNECT,   \* configure --enable-auto-connect
  AUTORECONNECT, \* configure --enable-auto-reconnect
  INTERNE,       \* NS_USER_LINK is set in the environment
  SELECTSEC,     \* timeout of select, in ticks
  SENDPING,      \* ticks before the keepalive starts
  TimeoutLeft,   \* what a select that timed out may leave in ts.tv_sec
  ConfFiles,     \* what ~/.nscrc may hold each time it is read
  ServerLines,   \* what a server may send without being asked
  UserWords,     \* the states the user announces
  NetCap,        \* bound: complete lines waiting in one socket buffer
  EarlyState     \* may the user type a state command before being logged in?

\* msg_foe comes from somebody ignored; msg_nodst has no "dst=", or a text that
\* ns_decode gives up: parse_user_cmd then follows a NULL pointer.
Line == {"salut", "rep_ok", "rep_err", "ping", "msg", "msg_foe", "msg_nodst",
         "junk"}
ConfItem == {"server", "login", "lock_message", "away_message", "foe_message"}
Word == {"actif", "away", "idle", "lock", "server"}

Handshaking == {"NOT_CONNECTED", "NOT_AUTH", "AUTH_SENT", "ATTACH_SENT"}
Logged == {"CONNECTION", "ACTIF", "AWAY", "IDLE", "LOCK"}
Status == Handshaking \cup Logged

ASSUME ConnAssumption == NoConn \notin Conn
ASSUME FdsAssumption == Fds \subseteq Nat \ {0}
ASSUME FlagAssumption ==
  /\ {AUTOCONNECT, AUTORECONNECT, INTERNE, EarlyState} \subseteq BOOLEAN
ASSUME TimeAssumption ==
  /\ SELECTSEC \in Nat /\ SENDPING \in Nat
  /\ TimeoutLeft \subseteq 0 .. SELECTSEC
ASSUME DataAssumption ==
  /\ ConfFiles \subseteq SUBSET ConfItem
  /\ ServerLines \subseteq Line /\ UserWords \subseteq Word
  /\ NetCap \in Nat

VARIABLES
  pc,         \* where main() stands: "select", "connect", "recv", "exit", ...
  status,     \* CNX_STATUS
  client_fd,  \* CNX_CLIENT_FD, 0 when there is no connection
  people,     \* descriptors of people->ymca
  ready_fd,   \* descriptors of people->ready_fd
  residue,    \* complete lines in get_next_line's cequireste
  half,       \* and the beginning of one more
  ret,        \* the local of nsc_recv_data
  conf,       \* which items of the configuration are set
  chal,       \* CNX_CHAL_STR: the connection whose challenge it is, or NULL
  secondes,   \* static of send_ping; it is only ever compared with SENDPING
  propagate_sigwinch,
  file,       \* kernel: the connection behind each descriptor
  link,       \* kernel and server: each connection
  typed       \* a command line is waiting on the terminal

sockVars == <<pc, status, client_fd, people, file, link, ret>>
readVars == <<residue, half>>
confVars == <<conf, chal>>
timeVars == <<secondes, propagate_sigwinch>>
vars == <<sockVars, readVars, confVars, timeVars, ready_fd, typed>>

-----------------------------------------------------------------------------
(* The connections.  srv is how far the server is and heard how many lines *)
(* of the handshake it has sent; out is what nsc has written of it, told   *)
(* the last state announced and digest the challenge an ext_user_log was   *)
(* computed from; cut says that nsc has read a line that was cut.          *)

NoLine == "none"
Begun == Line \cup {NoLine, "tail"}
Server == {"none", "accepted", "greeted", "auth_ok", "in", "refused", "gone"}
Handshake == {"auth_ag", "ext_user_log", "attach", "watch_log_user"}

LinkType == [net : Seq(Line), begun : Begun, srv : Server,
             heard : 0 .. 3, cut : BOOLEAN,
             out : Seq(Handshake), told : Word \cup {"none"},
             digest : SUBSET (Conn \cup {NoConn})]

Idle == [net |-> <<>>, begun |-> NoLine, srv |-> "none", heard |-> 0,
         cut |-> FALSE, out |-> <<>>, told |-> "none", digest |-> {}]

\* The lines of the handshake behind each place of the server: salut, the
\* answer to auth_ag, the confirmation of ext_user_log.
HeardAt(s) == CASE s = "greeted" -> 1
                [] s \in {"auth_ok", "refused"} -> 2
                [] s = "in" -> 3
                [] OTHER -> 0

cur == IF client_fd = 0 THEN NoConn ELSE file[client_fd]

\* A line reaches the kernel whole, or its first bytes do.
Arrives(c, l, s) ==
  /\ link[c].begun = NoLine
  /\ \/ /\ Len(link[c].net) < NetCap
        /\ link' = [link EXCEPT ![c].net = Append(@, l), ![c].srv = s,
                                ![c].heard = HeardAt(s)]
     \/ link' = [link EXCEPT ![c].begun = l, ![c].srv = s,
                             ![c].heard = HeardAt(s)]

\* What a read could return without blocking; `tail' stands for a line whose
\* first bytes were read and given up.
Pending(c) == \/ link[c].net # <<>>
              \/ link[c].begun \in Line

Readable(f) == IF f = 0 THEN typed
               ELSE Pending(file[f]) \/ link[file[f]].srv = "gone"

\* write(2) on a connection its peer has closed: accepted by the kernel, -1,
\* or SIGPIPE, which nothing handles.
WriteResult(f) ==
  IF f # 0 /\ link[file[f]].srv = "gone" THEN {"ok", "error", "sigpipe"}
                                         ELSE {"ok"}

Wrote(m) == [link EXCEPT ![cur].out = Append(@, m)]
Told(w) == IF client_fd = 0 THEN link ELSE [link EXCEPT ![cur].told = w]

\* The kernel forgets the descriptors F.
Closing(F) ==
  /\ file' = [f \in Fds |-> IF f \in F THEN NoConn ELSE file[f]]
  /\ link' = [c \in Conn |-> IF \E f \in F : file[f] = c THEN Idle ELSE link[c]]

-----------------------------------------------------------------------------
(* What several handlers do. *)

\* (mutants: the descriptor stays in the list; the status survives)
main_cc_watched ==
  LET F == {client_fd} \ {0}
  IN  client_fd' = 0 /\ UNCHANGED people /\ Closing(F)
      /\ status' = "NOT_CONNECTED"

main_cc_status ==
  LET F == {client_fd} \ {0}
  IN  client_fd' = 0 /\ people' = people \ F /\ Closing(F) /\ UNCHANGED status

main_cc ==
  LET F == {client_fd} \ {0}
  IN  /\ client_fd' = 0
      /\ people' = people \ F
      /\ Closing(F)
      /\ status' = "NOT_CONNECTED"

\* main_cc (); main_lc (): the second only #ifdef AUTORECONNECT.
Lost ==
  /\ main_cc
  /\ pc' = IF AUTORECONNECT THEN "connect" ELSE "select"
  /\ ret' = 0

Die ==
  /\ pc' = "killed"
  /\ Closing(Fds)
  /\ UNCHANGED <<status, client_fd, people, ret>>

\* One status of cmd_user_state: the write, whose result nobody looks at, and
\* the status the word stands for.
StatusOf_word(w) == IF w = "server" THEN w ELSE status  \* (mutant)

StatusOf(w) == CASE w = "away" -> "AWAY"
                 [] w = "lock" -> "LOCK"
                 [] w = "idle" -> "IDLE"
                 [] w = "actif" -> "ACTIF"
                 [] OTHER -> status

-----------------------------------------------------------------------------
Init ==
  /\ pc = IF AUTOCONNECT THEN "connect" ELSE "select"
  /\ status = "NOT_CONNECTED"
  /\ client_fd = 0
  /\ people = {0}
  /\ ready_fd = {}
  /\ residue = <<>>
  /\ half = FALSE
  /\ ret = 0
  /\ conf \in ConfFiles
  /\ chal = NoConn
  /\ secondes = 0
  /\ propagate_sigwinch = FALSE
  /\ file = [f \in Fds |-> NoConn]
  /\ link = [c \in Conn |-> Idle]
  /\ typed = FALSE

-----------------------------------------------------------------------------
(* get_next_active_fd: select only when no descriptor is left from the     *)
(* previous one.  A timeout, and any signal, end in send_ping.             *)

Selecting == pc = "select" /\ ready_fd = {}
Active == {f \in people : Readable(f)}

Select ==
  /\ Selecting /\ Active # {}
  /\ ready_fd' = Active
  /\ UNCHANGED <<sockVars, readVars, confVars, timeVars, typed>>

send_ping(sec) ==
  /\ secondes' = IF secondes + sec < SENDPING THEN secondes + sec ELSE SENDPING
  /\ \/ /\ secondes' < SENDPING \/ client_fd = 0
        /\ UNCHANGED sockVars
     \/ /\ secondes' = SENDPING /\ client_fd # 0
        /\ \E w \in WriteResult(client_fd) :
             \/ w = "ok" /\ UNCHANGED sockVars
             \/ w = "error" /\ Lost
             \/ w = "sigpipe" /\ Die

SelectTimeout ==
  /\ Selecting /\ Active = {}
  /\ \E sec \in TimeoutLeft : send_ping(sec)
  /\ UNCHANGED <<readVars, confVars, propagate_sigwinch, ready_fd, typed>>

\* A signal ends a select that would block.
SelectInterrupted ==
  /\ Selecting /\ Active = {}
  /\ propagate_sigwinch' = TRUE
  /\ \E sec \in 0 .. SELECTSEC : send_ping(sec)
  /\ UNCHANGED <<readVars, confVars, ready_fd, typed>>

\* select fails for another reason than a signal.
SelectError ==
  /\ Selecting
  /\ \/ propagate_sigwinch /\ propagate_sigwinch' = FALSE /\ UNCHANGED pc
     \/ ~propagate_sigwinch /\ pc' = "exit" /\ UNCHANGED propagate_sigwinch
  /\ UNCHANGED <<status, client_fd, people, file, link, ret, readVars,
                 confVars, secondes, ready_fd, typed>>

\* The list is built so that 0, the oldest, comes first.
Next_fd(f) ==
  /\ pc = "select" /\ f \in ready_fd
  /\ 0 \in ready_fd => f = 0
  /\ ready_fd' = ready_fd \ {f}

SocketReady ==
  /\ \E f \in Fds :
       /\ Next_fd(f)
       /\ pc' = IF f = client_fd THEN "recv" ELSE pc
  /\ UNCHANGED <<status, client_fd, people, file, link, ret, readVars,
                 confVars, timeVars, typed>>

-----------------------------------------------------------------------------
(* nsc_connect_socket, called by main_lc: once, or until it does not fail  *)
(* #ifdef AUTOCONNECT.                                                     *)

Connecting ==
  /\ pc = "connect"
  /\ UNCHANGED <<readVars, confVars, timeVars, ready_fd, typed>>

Reachable == INTERNE \/ "server" \in conf

ConnectUnconfigured ==
  /\ Connecting /\ ~Reachable
  /\ pc' = "select"
  /\ UNCHANGED <<status, client_fd, people, file, link, ret>>

\* socket(2) or connect(2) fails.
ConnectFails ==
  /\ Connecting /\ Reachable
  /\ pc' = IF AUTOCONNECT THEN "connect" ELSE "select"
  /\ UNCHANGED <<status, client_fd, people, file, link, ret>>

\* resolv does not find the host: exit(-1).
ResolvFails ==
  /\ Connecting /\ Reachable /\ ~INTERNE
  /\ Die

\* The kernel gives the lowest free number.  An internal user's state goes to
\* the descriptor CNX_CLIENT_FD had before.
ConnectSucceeds ==
  /\ Connecting /\ Reachable
  /\ \E f \in Fds, c \in Conn :
       /\ file[f] = NoConn /\ \A g \in Fds : g < f => file[g] # NoConn
       /\ chal # c /\ \A g \in Fds : file[g] # c
       /\ file' = [file EXCEPT ![f] = c]
       /\ client_fd' = f
       /\ people' = people \cup {f}
       /\ IF INTERNE
          THEN /\ link' = [Told("actif") EXCEPT ![c] =
                            [Idle EXCEPT !.srv = "in", !.heard = 3]]
               /\ status' = "ACTIF"
          ELSE /\ link' = [link EXCEPT ![c] = [Idle EXCEPT !.srv = "accepted"]]
               /\ UNCHANGED status
  /\ pc' = "select"
  /\ UNCHANGED ret

-----------------------------------------------------------------------------
(* nsc_recv_data.  One action reads the socket, one handles a line.  The   *)
(* function goes back to its label `debut' while cequireste holds          *)
(* anything, and returns what the last line left in ret.                   *)

\* Up to TAILLE_READ bytes: some lines, and perhaps the start of another.
RecvRead ==
  /\ pc = "recv" /\ residue = <<>>
  /\ LET net == link[cur].net
     IN  \E k \in 0 .. Len(net) :
           /\ residue' = SubSeq(net, 1, k)
           /\ \/ k > 0 /\ half' = FALSE
              \/ /\ k = Len(net) /\ link[cur].begun \in Line
                 /\ half => k > 0
                 /\ half' = TRUE
           /\ link' = [link EXCEPT ![cur].net = SubSeq(net, k + 1, Len(net))]
  /\ UNCHANGED <<pc, status, client_fd, people, file, ret, confVars, timeVars,
                 ready_fd, typed>>

\* (mutant: an error ends the loop before the lines already read)
Return_early(s, r, lk) ==
  \/ /\ r = 0 /\ (residue' # <<>> \/ half')
     /\ pc' = pc /\ status' = s /\ ret' = r /\ link' = lk
     /\ UNCHANGED <<client_fd, people, file>>
  \/ /\ residue' = <<>> /\ ~half' /\ r = 0
     /\ pc' = "select" /\ status' = s /\ ret' = 0 /\ link' = lk
     /\ UNCHANGED <<client_fd, people, file>>
  \/ r = -1 /\ Lost

Return(s, r, lk) ==
  \/ /\ residue' # <<>> \/ half'
     /\ pc' = pc /\ status' = s /\ ret' = r /\ link' = lk
     /\ UNCHANGED <<client_fd, people, file>>
  \/ /\ residue' = <<>> /\ ~half' /\ r = 0
     /\ pc' = "select" /\ status' = s /\ ret' = 0 /\ link' = lk
     /\ UNCHANGED <<client_fd, people, file>>
  \/ /\ residue' = <<>> /\ ~half' /\ r = -1
     /\ Lost

\* ret = writebuffer (...): only -1 matters later.
WriteThen(s, lk) ==
  \E w \in WriteResult(client_fd) :
    \/ w = "ok" /\ Return(s, 0, lk)
    \/ w = "error" /\ Return(s, -1, lk)
    \/ w = "sigpipe" /\ Die

\* The result of the write is dropped: ret = 0.
WriteAnyway(s, lk) ==
  \/ Return(s, 0, lk)
  \/ "sigpipe" \in WriteResult(client_fd) /\ Die

parse_hello(l) == l = "salut"
parse_validity(l) == l = "rep_ok"

\* (mutant: a challenge once stored is kept)
HelloLine_stale(l) ==
  /\ status = "NOT_CONNECTED" /\ parse_hello(l)
  /\ chal' = IF chal = NoConn THEN cur ELSE chal
  /\ WriteThen("NOT_AUTH", Wrote("auth_ag"))

HelloLine(l) ==
  /\ status = "NOT_CONNECTED" /\ parse_hello(l)
  /\ chal' = cur
  /\ WriteThen("NOT_AUTH", Wrote("auth_ag"))

\* build_auth_message takes the length of a login that may be NULL.
AuthLine(l) ==
  /\ status \in {"NOT_AUTH", "AUTH_SENT"} /\ parse_validity(l)
  /\ IF status = "AUTH_SENT"
     THEN WriteThen("ATTACH_SENT", IF INTERNE THEN link ELSE Wrote("attach"))
     ELSE IF "login" \in conf
     THEN WriteThen("ATTACH_SENT",
            [Wrote("ext_user_log") EXCEPT ![cur].digest = @ \cup {chal}])
     ELSE Die
  /\ UNCHANGED chal

\* (mutant: the status is set without the server being told)
AttachLine_silent(l) ==
  /\ status = "ATTACH_SENT" /\ parse_validity(l)
  /\ WriteAnyway("ACTIF", Wrote("watch_log_user"))
  /\ UNCHANGED chal

\* (mutant: any answer is a confirmation)
AttachLine_any(l) ==
  /\ status = "ATTACH_SENT"
  /\ WriteAnyway("ACTIF", [Wrote("watch_log_user") EXCEPT ![cur].told = "actif"])
  /\ UNCHANGED chal

AttachLine(l) ==
  /\ status = "ATTACH_SENT" /\ parse_validity(l)
  /\ WriteAnyway("ACTIF", [Wrote("watch_log_user") EXCEPT ![cur].told = "actif"])
  /\ UNCHANGED chal

\* (mutant: a line that is not the one expected is skipped)
RefusedLine_skips(l) ==
  /\ \/ status = "NOT_CONNECTED" /\ ~parse_hello(l)
     \/ status \in Handshaking \ {"NOT_CONNECTED"} /\ ~parse_validity(l)
  /\ Return(status, 0, link)
  /\ UNCHANGED chal

RefusedLine(l) ==
  /\ \/ status = "NOT_CONNECTED" /\ ~parse_hello(l)
     \/ status \in Handshaking \ {"NOT_CONNECTED"} /\ ~parse_validity(l)
  /\ Return(status, -1, link)
  /\ UNCHANGED chal

\* Which lines make a logged-in client write: a ping, and a message while away
\* or locked, or from somebody ignored, when there is a text for it.
Answered(l) ==
  \/ l = "ping"
  \/ l = "msg" /\ status = "LOCK" /\ "lock_message" \in conf
  \/ l = "msg" /\ status = "AWAY" /\ "away_message" \in conf
  \/ l = "msg_foe" /\ "foe_message" \in conf

LoggedLine(l) ==
  /\ status \in Logged
  /\ \/ Answered(l) /\ WriteAnyway(status, link)
     \/ ~Answered(l) /\ l # "msg_nodst" /\ Return(status, 0, link)
     \/ l = "msg_nodst" /\ Die
  /\ UNCHANGED chal

Handle(l) == \/ HelloLine(l)
             \/ AuthLine(l)
             \/ AttachLine(l)
             \/ RefusedLine(l)
             \/ LoggedLine(l)

RecvLine ==
  /\ pc = "recv" /\ residue # <<>>
  /\ residue' = Tail(residue)
  /\ UNCHANGED <<half, conf, timeVars, ready_fd, typed>>
  /\ Handle(Head(residue))

\* read returns 0 (the peer is gone) or -1 (a signal) where it would block.
ReadFails ==
  /\ pc = "recv" /\ residue = <<>> /\ link[cur].net = <<>>
  /\ \/ link[cur].srv = "gone" /\ UNCHANGED propagate_sigwinch
     \/ link[cur].srv # "gone" /\ propagate_sigwinch' = TRUE
  /\ UNCHANGED <<confVars, secondes, ready_fd, typed>>

\* What had been read of a line is then returned as a line.  Cut short, it may
\* still be taken for itself, or for the answer parse_validity looks for, since
\* that compares one byte less than the line has; a message may have lost its
\* "dst=".
Cut(l) == {l, "rep_ok", "junk"}
          \cup (IF l \in {"msg", "msg_foe"} THEN {"msg_nodst"} ELSE {})

RecvCut ==
  /\ ReadFails /\ half
  /\ \E l \in Cut(link[cur].begun) : residue' = <<l>>
  /\ half' = FALSE
  /\ link' = [link EXCEPT
                ![cur].begun = IF link[cur].srv = "gone" THEN NoLine ELSE "tail",
                ![cur].cut = TRUE]
  /\ UNCHANGED <<pc, status, client_fd, people, file, ret>>

\* (mutants: the end of the stream is no data; or it is read again)
RecvNothing_ignored ==
  /\ ReadFails /\ ~half /\ ~Pending(cur)
  /\ pc' = "select"
  /\ UNCHANGED <<status, client_fd, people, file, link, ret, readVars>>

RecvNothing_again ==
  /\ ReadFails /\ ~half /\ ~Pending(cur)
  /\ UNCHANGED <<sockVars, readVars>>

RecvNothing ==
  /\ ReadFails /\ ~half /\ ~Pending(cur)
  /\ Lost
  /\ UNCHANGED readVars

-----------------------------------------------------------------------------
(* console_handler: the line the user typed, when its descriptor comes.    *)

Console ==
  /\ Next_fd(0)
  /\ typed' = FALSE
  /\ UNCHANGED <<readVars, timeVars>>

CmdConnect ==
  /\ Console
  /\ pc' = IF status = "NOT_CONNECTED" THEN "connect" ELSE pc
  /\ UNCHANGED <<status, client_fd, people, file, link, ret, confVars>>

CmdDeco ==
  /\ Console
  /\ main_cc
  /\ UNCHANGED <<pc, ret, confVars>>

CmdReco ==
  /\ Console
  /\ main_cc
  /\ pc' = "connect"
  /\ UNCHANGED <<ret, confVars>>

CmdExit ==
  /\ Console
  /\ pc' = "exit"
  /\ UNCHANGED <<status, client_fd, people, file, link, ret, confVars>>

\* state, away, back, actif.
CmdState(w) ==
  /\ Console
  /\ EarlyState \/ status \in Logged
  /\ \/ /\ status' = StatusOf(w) /\ link' = Told(w)
        /\ UNCHANGED <<pc, client_fd, people, file, ret>>
     \/ "sigpipe" \in WriteResult(client_fd) /\ Die
  /\ UNCHANGED confVars

\* raw, msg, a line of a query, whois, list, userdata: a line for the server.
CmdSay ==
  /\ Console
  /\ \/ UNCHANGED sockVars
     \/ "sigpipe" \in WriteResult(client_fd) /\ Die
  /\ UNCHANGED confVars

CmdReload ==
  /\ Console
  /\ conf' \in ConfFiles
  /\ chal' = NoConn
  /\ UNCHANGED <<sockVars>>

\* help, version, save_conf, location, the contact and ignore lists: add_ignore
\* of blanks alone and rem_contact without a name follow a NULL pointer.
CmdLocal ==
  /\ Console
  /\ UNCHANGED sockVars \/ Die
  /\ UNCHANGED confVars

-----------------------------------------------------------------------------
(* After the loop: main_cc, nsc_free_configuration, and the end of the     *)
(* process, which closes what is still open.                               *)
Exit ==
  /\ pc = "exit"
  /\ pc' = "stopped"
  /\ client_fd' = 0 /\ status' = "NOT_CONNECTED"
  /\ people' = {} /\ ready_fd' = {}
  /\ Closing((people \cup {client_fd}) \ {0})
  /\ conf' = {} /\ chal' = NoConn
  /\ UNCHANGED <<ret, readVars, timeVars, typed>>

-----------------------------------------------------------------------------
(* The outside. *)

Running == pc \notin {"stopped", "killed"}

UserTypes ==
  /\ Running
  /\ typed' = TRUE
  /\ UNCHANGED <<sockVars, readVars, confVars, timeVars, ready_fd>>

\* SIGWINCH while the program is not in a call it interrupts.
Resize ==
  /\ Running
  /\ propagate_sigwinch' = TRUE
  /\ UNCHANGED <<sockVars, readVars, confVars, secondes, ready_fd, typed>>

Outside(c) ==
  /\ \E f \in Fds : file[f] = c
  /\ UNCHANGED <<pc, status, client_fd, people, file, ret, readVars, confVars,
                 timeVars, ready_fd, typed>>

ServerHello(c) ==
  /\ Outside(c) /\ link[c].srv = "accepted"
  /\ Arrives(c, "salut", "greeted")

\* The answers to auth_ag and to ext_user_log; the second is an error unless
\* the digest was computed from this connection's challenge.
ServerAnswers(c) ==
  /\ Outside(c)
  /\ \/ /\ link[c].srv = "greeted" /\ Len(link[c].out) > 0
        /\ Arrives(c, "rep_ok", "auth_ok")
     \/ /\ link[c].srv = "auth_ok" /\ Len(link[c].out) > 1
        /\ \/ c \in link[c].digest /\ Arrives(c, "rep_ok", "in")
           \/ Arrives(c, "rep_err", "refused")

ServerSays(c) ==
  /\ Outside(c) /\ link[c].srv = "in"
  /\ \E l \in ServerLines : Arrives(c, l, "in")

ServerCompletes(c) ==
  /\ Outside(c) /\ link[c].begun # NoLine /\ link[c].srv # "gone"
  /\ Len(link[c].net) < NetCap
  /\ \E l \in IF link[c].begun = "tail" THEN {"rep_ok", "junk"}
                                        ELSE {link[c].begun} :
       link' = [link EXCEPT ![c].net = Append(@, l), ![c].begun = NoLine]

ServerCloses(c) ==
  /\ Outside(c) /\ link[c].srv # "gone"
  /\ link' = [link EXCEPT ![c].srv = "gone"]

-----------------------------------------------------------------------------
Command == \/ CmdConnect
           \/ CmdDeco
           \/ CmdReco
           \/ CmdExit
           \/ \E w \in UserWords : CmdState(w)
           \/ CmdSay
           \/ CmdReload
           \/ CmdLocal

Turn == \/ SocketReady
        \/ Command

Connect == \/ ConnectUnconfigured
           \/ ConnectFails
           \/ ResolvFails
           \/ ConnectSucceeds

Recv == \/ RecvRead
        \/ RecvLine
        \/ RecvCut
        \/ RecvNothing

Environment ==
  \/ UserTypes
  \/ Resize
  \/ \E c \in Conn : \/ ServerHello(c)
                     \/ ServerAnswers(c)
                     \/ ServerSays(c)
                     \/ ServerCompletes(c)
                     \/ ServerCloses(c)

Done == ~Running /\ UNCHANGED vars

Next == \/ Select
        \/ SelectTimeout
        \/ SelectInterrupted
        \/ SelectError
        \/ Turn
        \/ Connect
        \/ Recv
        \/ Exit
        \/ Environment
        \/ Done

Spec == Init /\ [][Next]_vars

\* One thread: nothing but the outside can keep it from its next step.  A
\* signal or an error of select is never due, so neither is a timeout.
ProgramFairness ==
  /\ WF_vars(Select) /\ WF_vars(Turn) /\ WF_vars(Connect)
  /\ WF_vars(Recv) /\ WF_vars(Exit)

\* A server greets, answers, and ends the lines it has begun.
ServerFairness ==
  \A c \in Conn : /\ WF_vars(ServerHello(c))
                  /\ WF_vars(ServerAnswers(c))
                  /\ WF_vars(ServerCompletes(c))

FairSpec == Spec /\ ProgramFairness
LiveSpec == FairSpec /\ ServerFairness

-----------------------------------------------------------------------------
TypeOK ==
  /\ pc \in {"select", "connect", "recv", "exit", "stopped", "killed"}
  /\ status \in Status
  /\ client_fd \in Fds \cup {0}
  /\ people \subseteq Fds \cup {0}
  /\ ready_fd \subseteq Fds \cup {0}
  /\ residue \in Seq(Line)
  /\ half \in BOOLEAN
  /\ ret \in {0, -1}
  /\ conf \subseteq ConfItem
  /\ chal \in Conn \cup {NoConn}
  /\ secondes \in 0 .. SENDPING
  /\ propagate_sigwinch \in BOOLEAN
  /\ file \in [Fds -> Conn \cup {NoConn}]
  /\ link \in [Conn -> LinkType]
  /\ typed \in BOOLEAN

(* While the program runs, the select list is the terminal and every socket *)
(* the kernel holds open for it: select never meets a closed descriptor, on *)
(* which main() gives up with "Fatal error", and none is lost at exit.  It  *)
(* relies on every path of main_cc and main_lc changing the list, the       *)
(* kernel and CNX_CLIENT_FD together.                                       *)
WatchedAreOpen ==
  Running => /\ people = {0} \cup {f \in Fds : file[f] # NoConn}
             /\ client_fd \in people

(* get_next_line keeps what it has read too much of in one static buffer,   *)
(* whatever the descriptor: no byte of a connection may be left there when  *)
(* nsc_recv_data returns, or the next connection (or ~/.nscrc, read again   *)
(* by reload_conf) would begin with it.                                     *)
ResidueDrained == Running /\ (residue # <<>> \/ half) => pc = "recv"

SaidUpTo(n) == CASE n = 0 -> <<>>
                 [] n = 1 -> <<"auth_ag">>
                 [] n = 2 -> <<"auth_ag", "ext_user_log">>
                 [] n = 3 -> <<"auth_ag", "ext_user_log", "watch_log_user">>

(* On each connection the three lines of the handshake are written in       *)
(* order, each at most once, and CNX_STATUS says how many were, whatever    *)
(* the user does meanwhile (deco, reco, connect again, state commands that  *)
(* overwrite CNX_STATUS) and however the server's lines are cut.            *)
HandshakeInOrder ==
  /\ \A c \in Conn : \E n \in 0 .. 3 : link[c].out = SaidUpTo(n)
  /\ Running /\ client_fd # 0 =>
       /\ status = "NOT_CONNECTED" => link[cur].out = SaidUpTo(0)
       /\ status = "NOT_AUTH" => link[cur].out = SaidUpTo(1)
       /\ status = "ATTACH_SENT" => link[cur].out = SaidUpTo(2)
  /\ Running /\ client_fd = 0 => status \in Logged \cup {"NOT_CONNECTED"}

(* The digest sent on a connection is computed from the challenge of that   *)
(* connection or, after reload_conf, from none: never from the challenge of *)
(* an earlier connection, though main_cc does not erase it.                 *)
OwnChallenge == \A c \in Conn : link[c].digest \subseteq {c, NoConn}

(* What decides the auto-responder agrees with what the server was told: on *)
(* an external connection CNX_STATUS is the last state announced on that    *)
(* connection, unless the user announced a word nsc has no status for.      *)
PresenceTold ==
  Running /\ client_fd # 0 /\ status \in Logged =>
    \/ link[cur].told = "server"
    \/ link[cur].told # "none" /\ StatusOf(link[cur].told) = status

(* What the invariants above rest on: no two descriptors lead to one        *)
(* connection; the socket is read only when there is one, and main_lc gets  *)
(* to nsc_connect_socket only when no handshake is under way; the challenge *)
(* at hand belongs to the current connection; the beginning of a line that  *)
(* was read is still to be ended; two statuses of nsc_conf.h are never set. *)
OneDescriptor ==
  \A f, g \in Fds : file[f] # NoConn /\ file[f] = file[g] => f = g
PlaceFits == /\ pc = "recv" => client_fd # 0
             /\ pc = "connect" => status = "NOT_CONNECTED"
ChallengeAtHand ==
  Running /\ client_fd # 0 /\ status = "NOT_AUTH" => chal \in {cur, NoConn}
HalfBegun ==
  pc = "recv" /\ half /\ link[cur].net = <<>> => link[cur].begun \in Line
StatusSet == status \notin {"AUTH_SENT", "CONNECTION"}

IInv ==
  /\ TypeOK
  /\ WatchedAreOpen
  /\ OneDescriptor
  /\ PlaceFits
  /\ ResidueDrained
  /\ HalfBegun
  /\ StatusSet
  /\ HandshakeInOrder
  /\ ChallengeAtHand
  /\ OwnChallenge
  /\ ~INTERNE => PresenceTold

(* What the refinement rests on besides: the server has sent what its place *)
(* says; and a client in the handshake, before its server is done, has said *)
(* no more than it has heard, and has at most one line to read, a refusal   *)
(* or one it has not answered.                                              *)
ServerHeard ==
  \A c \in Conn :
    link[c].srv # "gone" => link[c].heard = HeardAt(link[c].srv)

Refusal(l, s) == l = "rep_err" /\ s \in {"refused", "gone"}

\* The connection c, with res read of it and not handled.
InStep(c, res) ==
  /\ c.begun # "tail"
  /\ Len(c.out) <= c.heard
  /\ Len(res) + Len(c.net) + (IF c.begun = NoLine THEN 0 ELSE 1) <= 1
  /\ \A l \in Line : l = c.begun \/ res = <<l>> \/ c.net = <<l>> =>
       Refusal(l, c.srv) \/ Len(c.out) < c.heard

Earned ==
  Running /\ client_fd # 0 /\ status \in Handshaking =>
    link[cur].cut \/ link[cur].heard = 3 \/ InStep(link[cur], residue)

(* An external session behaves as the protocol asks, whatever its server   *)
(* does and its user types: nothing is said before the line of the server  *)
(* it answers, in particular nsc takes itself for logged in only once its  *)
(* ext_user_log is confirmed, but for a state its user announces early and *)
(* for lines that are read cut.                                            *)
phase == IF cur = NoConn THEN "down"
         ELSE IF status = "NOT_CONNECTED" THEN "greeting"
         ELSE IF status = "NOT_AUTH" THEN "auth"
         ELSE IF status \in {"AUTH_SENT", "ATTACH_SENT"} THEN "log"
         ELSE IF link[cur].out = SaidUpTo(3) THEN "online"
         ELSE "claimed"

Met == IF cur = NoConn THEN Idle ELSE link[cur]

P == INSTANCE Protocol
       WITH phase <- phase, said <- Met.out, state <- Met.told,
            heard <- Met.heard, broken <- Met.cut
ProtocolSpec == P!Spec

(* The server going away is always noticed: main() does not stay on a dead  *)
(* connection, whatever else is ready.                                      *)
LossNoticed ==
  \A c \in Conn : cur = c /\ link[c].srv = "gone" ~> cur # c

(* A line typed is always served, if servers end the lines they begin and   *)
(* do not talk forever: nsc_recv_data blocks until the line it reads ends,  *)
(* and does not return while it has read some of the next one.              *)
ConsoleServed ==
  <>[][\A c \in Conn : ~ServerSays(c)]_vars => (typed ~> (~typed \/ ~Running))

(* A handshake never hangs: it ends logged in or with the connection        *)
(* closed, if servers greet and answer.                                     *)
HandshakeEnds ==
  (cur # NoConn /\ status \in Handshaking) ~> (cur = NoConn \/ status \in Logged)

-----------------------------------------------------------------------------
(* What the repository says of the program, and the code does not do.      *)

(* "Connection asked while already connected ... aborting." (nsc_main.c:49):*)
(* main_lc never opens a second socket.                                     *)
OnlyOneConnection == Running => people \subseteq {0, client_fd}

(* netsoul_spec.txt:162-163: the user is logged in when ext_user_log is     *)
(* sent and confirmed.                                                      *)
LoggedWhenConfirmed ==
  Running /\ ~INTERNE /\ cur # NoConn /\ status \in Logged =>
    \E i \in DOMAIN link[cur].out : link[cur].out[i] = "ext_user_log"

=============================================================================
