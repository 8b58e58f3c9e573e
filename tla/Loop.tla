-------------------------------- MODULE Loop --------------------------------
(***************************************************************************)
(* The select loop of main() seen from below: the two linked lists of      *)
(* ymca.c, get_next_line on the bytes of the socket and of ~/.nscrc, and   *)
(* the seconds that send_ping counts.  What a line means is left to        *)
(* Session: a handler is its result.                                       *)
(***************************************************************************)
EXTENDS Integers, SequencesExt

CONSTANTS
  Fds,           \* numbers the kernel can give to sockets
  Hand,          \* the number it gives to ~/.nscrc while that is read
  Letter, NL,    \* the bytes: all but the newline, and the newline; no NUL
  Nscrc,         \* what ~/.nscrc may hold
  TAILLE_READ,   \* bytes asked of read(2); 128
  AUTORECONNECT, \* configure --enable-auto-reconnect
  SELECTSEC,     \* timeout of select
  SENDPING,      \* seconds before the keepalive starts
  KEPT,          \* does select leave its timeout alone, or what is left of it?
  None,          \* no line
  MaxAhead,      \* bound: bytes received and in no line yet
  MaxUnseen      \* bound: seconds in selects that a descriptor ended

Char == Letter \cup {NL}
Source == Fds \cup {Hand}

ASSUME FdsAssumption == Fds \subseteq Nat \ {0} /\ Hand \in Nat \ ({0} \cup Fds)
ASSUME CharAssumption == NL \notin Letter /\ Nscrc \subseteq Seq(Char)
ASSUME SizeAssumption == TAILLE_READ \in Nat \ {0} /\ {MaxAhead, MaxUnseen} \subseteq Nat
ASSUME FlagAssumption == {AUTORECONNECT, KEPT} \subseteq BOOLEAN
ASSUME TimeAssumption == SELECTSEC \in Nat \ {0} /\ SENDPING \in Nat \ {0}

VARIABLES
  pc,         \* where the program stands
  people,     \* people->ymca and
  ready_fd,   \* people->ready_fd, from their heads
  client_fd,  \* CNX_CLIENT_FD
  met,        \* CNX_STATUS is not STATUS_NOT_CONNECTED
  ret,        \* the local of nsc_recv_data
  str,        \* get_next_line: what it has of a line, <<>> for NULL;
  cequireste, \* the bytes after the last line, <<>> for NULL;
  r_len,      \* and how many it believes there are
  line,       \* the line handed on last, with its descriptor
  secondes,   \* static of send_ping, which only compares it with SENDPING
  quiet,      \* seconds in select since the connection gave a byte or got a ping,
  unseen,     \* and how many of them in selects that a descriptor ended
  open,       \* kernel: sockets,
  stream,     \* bytes not read yet
  gone        \* and sockets whose peer has closed

listVars == <<people, ready_fd>>
readVars == <<str, cequireste, r_len, line>>
timeVars == <<secondes, quiet, unseen>>
kernelVars == <<open, stream, gone>>
cnxVars == <<client_fd, met, ret>>
vars == <<pc, listVars, readVars, timeVars, kernelVars, cnxVars>>

-----------------------------------------------------------------------------
(* ymca.c on sequences: a cell is put in front of the list.                *)

is_fd_in_socket_list(l, f) == Contains(l, f)

Added(l, f) == IF is_fd_in_socket_list(l, f) THEN l ELSE <<f>> \o l

get_max_fd_value_from_socket_list(l) ==
  FoldLeft(LAMBDA m, f : IF m < f THEN f ELSE m, -1, l)

remove_fd_from_socket_list(l, f) == RemoveFirst(l, f)

\* (mutant: the order of the list is kept)
Ready_kept(l, R) == SelectSeq(l, LAMBDA f : f \in R)

\* The loop over l: each descriptor that select finds in R is added.
Ready(l, R) ==
  FoldLeft(LAMBDA ready, f : IF f \in R THEN Added(ready, f) ELSE ready, <<>>, l)

\* vider_struct_ymca_t closes any descriptor but 0.
Closing(F) ==
  /\ open' = open \ F
  /\ stream' = [s \in Source |-> IF s \in F THEN <<>> ELSE stream[s]]
  /\ gone' = gone \ F

\* destroy_socket_list closes what is watched and what is still to be served.
destroy_socket_list ==
  /\ people' = <<>> /\ ready_fd' = <<>>
  /\ Closing((ToSet(people) \cup ToSet(ready_fd) \cup {client_fd}) \ {0})

\* nsc_close_socket, and remove_fd_from_socket_list of what it has closed.
main_cc ==
  /\ people' = IF client_fd = 0 THEN people
               ELSE remove_fd_from_socket_list(people, client_fd)
  /\ Closing({client_fd} \ {0})
  /\ client_fd' = 0
  /\ met' = FALSE

-----------------------------------------------------------------------------
Init ==
  /\ pc = "load"
  /\ people = <<>> /\ ready_fd = <<>>
  /\ client_fd = 0 /\ met = FALSE /\ ret = 0
  /\ str = <<>> /\ cequireste = <<>> /\ r_len = 0 /\ line = None
  /\ secondes = 0 /\ quiet = 0 /\ unseen = 0
  /\ open = {} /\ gone = {}
  /\ \E text \in Nscrc : stream = [s \in Source |-> IF s = Hand THEN text ELSE <<>>]

-----------------------------------------------------------------------------
(* get_next_line.  One action is one turn of its loop: the rest of the     *)
(* read before, or a new read, is looked through for a newline.            *)

fd == IF pc = "load" THEN Hand ELSE client_fd

\* The connection has given a byte, got a ping or just begun.
Heard == quiet' = 0 /\ unseen' = 0
Reading == pc \in {"recv", "load"}

\* (mutant: the newline is a part of the line)
Turn_newline(chunk) ==
  LET n == SelectInSeq(chunk, LAMBDA c : c = NL)
  IN  IF n = 0
      THEN /\ str' = str \o chunk
           /\ r_len' = 0 /\ cequireste' = <<>>
           /\ UNCHANGED <<line, pc>>
      ELSE /\ line' = <<fd, str \o SubSeq(chunk, 1, n)>>
           /\ str' = <<>>
           /\ r_len' = Len(chunk) - n
           /\ cequireste' = SubSeq(chunk, n + 1, Len(chunk))
           /\ pc' = IF pc = "load" THEN "load" ELSE "handle"

Turn(chunk) ==
  LET n == SelectInSeq(chunk, LAMBDA c : c = NL)
  IN  IF n = 0
      THEN /\ str' = str \o chunk
           /\ r_len' = 0 /\ cequireste' = <<>>
           /\ UNCHANGED <<line, pc>>
      ELSE /\ line' = <<fd, str \o SubSeq(chunk, 1, n - 1)>>
           /\ str' = <<>>
           /\ r_len' = Len(chunk) - n
           /\ cequireste' = SubSeq(chunk, n + 1, Len(chunk))
           /\ pc' = IF pc = "load" THEN "load" ELSE "handle"

TurnOnRest ==
  /\ Reading /\ r_len # 0
  /\ Turn(SubSeq(cequireste, 1, r_len))
  /\ UNCHANGED <<listVars, timeVars, kernelVars, cnxVars>>

\* (mutant: what was read is put in the place of the line's beginning)
TurnOnRead_over ==
  /\ Reading /\ r_len = 0
  /\ \E k \in 1 .. Len(stream[fd]) :
       /\ k <= TAILLE_READ
       /\ LET chunk == SubSeq(stream[fd], 1, k)
          IN  IF Contains(chunk, NL) THEN Turn(chunk)
              ELSE /\ str' = chunk /\ r_len' = 0 /\ cequireste' = <<>>
                   /\ UNCHANGED <<line, pc>>
       /\ stream' = [stream EXCEPT ![fd] = SubSeq(@, k + 1, Len(@))]
  /\ IF pc = "recv" THEN Heard ELSE UNCHANGED <<quiet, unseen>>
  /\ UNCHANGED <<listVars, secondes, open, gone, cnxVars>>

\* read(2) gives at most TAILLE_READ of the bytes there are.
TurnOnRead ==
  /\ Reading /\ r_len = 0
  /\ \E k \in 1 .. Len(stream[fd]) :
       /\ k <= TAILLE_READ
       /\ Turn(SubSeq(stream[fd], 1, k))
       /\ stream' = [stream EXCEPT ![fd] = SubSeq(@, k + 1, Len(@))]
  /\ IF pc = "recv" THEN Heard ELSE UNCHANGED <<quiet, unseen>>
  /\ UNCHANGED <<listVars, secondes, open, gone, cnxVars>>

\* read(2) gives 0 at the end, or -1 where it blocks and a signal comes.  What
\* there is of a line is returned as a line, and nothing as NULL.
TurnOnNothing ==
  /\ Reading /\ r_len = 0 /\ stream[fd] = <<>>
  /\ IF str # <<>>
     THEN /\ line' = <<fd, str>> /\ str' = <<>>
          /\ pc' = IF pc = "load" THEN "load" ELSE "handle"
     ELSE /\ line' = None /\ UNCHANGED str
          /\ pc' = IF pc = "load" THEN "loaded" ELSE "lost"
  /\ UNCHANGED <<listVars, cequireste, r_len, timeVars, kernelVars, cnxVars>>

-----------------------------------------------------------------------------
(* nsc_recv_data *)

\* (mutant: an error ends the function with lines at hand)
Handle_returns ==
  /\ pc = "handle"
  /\ ret' \in {0, -1}
  /\ met' \in {met, TRUE}
  /\ line' = None
  /\ pc' = IF ret' = -1 THEN "lost"
           ELSE IF cequireste # <<>> THEN "recv" ELSE "select"
  /\ UNCHANGED <<listVars, str, cequireste, r_len, timeVars, kernelVars, client_fd>>

\* A handler leaves CNX_STATUS connected or as it is, and 0 or -1 in ret; the
\* function goes on while is_there_get_next_data.
Handle ==
  /\ pc = "handle"
  /\ ret' \in {0, -1}
  /\ met' \in {met, TRUE}
  /\ line' = None
  /\ pc' = IF cequireste # <<>> THEN "recv"
           ELSE IF ret' = -1 THEN "lost" ELSE "select"
  /\ UNCHANGED <<listVars, str, cequireste, r_len, timeVars, kernelVars, client_fd>>

\* main_cc (), and main_lc () #ifdef AUTORECONNECT.
Lost ==
  /\ pc = "lost"
  /\ main_cc
  /\ pc' = IF AUTORECONNECT THEN "connect" ELSE "select"
  /\ ret' = 0
  /\ UNCHANGED <<ready_fd, readVars, timeVars>>

\* nsc_load_configuration ends; the first time, main adds the terminal.
Loaded ==
  /\ pc = "loaded"
  /\ pc' = "select"
  /\ people' = IF people = <<>> THEN Added(people, 0) ELSE people
  /\ UNCHANGED <<ready_fd, readVars, timeVars, kernelVars, cnxVars>>

\* main_lc.  The kernel gives the lowest number that is free.
Connect ==
  /\ pc = "connect"
  /\ pc' = "select"
  /\ \/ UNCHANGED <<people, client_fd, open, quiet, unseen>>
     \/ \E f \in Fds \ open :
          /\ \A g \in Fds \ open : f <= g
          /\ open' = open \cup {f}
          /\ client_fd' = f
          /\ people' = Added(people, f)
          /\ Heard
  /\ UNCHANGED <<ready_fd, readVars, secondes, stream, gone, met, ret>>

-----------------------------------------------------------------------------
(* get_next_active_fd and send_ping *)

Selecting == pc = "select" /\ ready_fd = <<>>
Active == {f \in ToSet(people) \ {0} : stream[f] # <<>> \/ f \in gone}

nfds == get_max_fd_value_from_socket_list(people) + 1

\* What the user has typed is not kept: select may find 0 ready at any time,
\* and the seconds it took to are given to nobody.
Select ==
  /\ Selecting
  /\ \E typed \in SUBSET {0} :
       LET R == {f \in Active \cup typed : f < nfds}
       IN  R # {} /\ ready_fd' = Ready(people, R)
  /\ \E elapsed \in {0} \cup IF Active = {} THEN 1 .. SELECTSEC - 1 ELSE {} :
       /\ elapsed # 0 => client_fd # 0 /\ unseen + elapsed <= MaxUnseen
       /\ quiet' = quiet + elapsed /\ unseen' = unseen + elapsed
  /\ UNCHANGED <<pc, people, readVars, secondes, kernelVars, cnxVars>>

\* (mutant: secondes is an automatic variable)
send_ping_forgets(sec, elapsed) ==
  /\ secondes' = IF sec < SENDPING THEN sec ELSE SENDPING
  /\ IF secondes' = SENDPING /\ client_fd # 0
     THEN Heard /\ pc' \in {"select", "lost"}
     ELSE /\ IF client_fd = 0 THEN Heard
             ELSE quiet' = quiet + elapsed /\ UNCHANGED unseen
          /\ UNCHANGED pc

\* A ping is written once SENDPING seconds were counted, and the write may fail.
send_ping(sec, elapsed) ==
  /\ secondes' = IF secondes + sec < SENDPING THEN secondes + sec ELSE SENDPING
  /\ IF secondes' = SENDPING /\ client_fd # 0
     THEN Heard /\ pc' \in {"select", "lost"}
     ELSE /\ IF client_fd = 0 THEN Heard
             ELSE quiet' = quiet + elapsed /\ UNCHANGED unseen
          /\ UNCHANGED pc

\* A timeout leaves 0 in ts, or ts as it was.
SelectTimeout ==
  /\ Selecting /\ Active = {} /\ quiet <= SENDPING + SELECTSEC + MaxUnseen
  /\ send_ping(IF KEPT THEN SELECTSEC ELSE 0, SELECTSEC)
  /\ UNCHANGED <<listVars, readVars, kernelVars, cnxVars>>

\* A signal is reported as a timeout, before it.
SelectInterrupted ==
  /\ Selecting /\ Active = {} /\ quiet <= SENDPING + SELECTSEC + MaxUnseen
  /\ \E elapsed \in 0 .. SELECTSEC - 1 :
       send_ping(IF KEPT THEN SELECTSEC ELSE SELECTSEC - elapsed, elapsed)
  /\ UNCHANGED <<listVars, readVars, kernelVars, cnxVars>>

Taken(f) ==
  /\ pc = "select" /\ ready_fd # <<>> /\ f = Head(ready_fd)
  /\ ready_fd' = Tail(ready_fd)
  /\ UNCHANGED <<readVars, timeVars>>

\* Any descriptor but CNX_CLIENT_FD is passed over.
TakeSocket ==
  /\ \E f \in Fds : Taken(f) /\ pc' = IF f = client_fd THEN "recv" ELSE pc
  /\ UNCHANGED <<people, kernelVars, cnxVars>>

-----------------------------------------------------------------------------
(* What the commands do to the descriptors. *)

CmdConnect ==
  /\ Taken(0)
  /\ pc' = IF met THEN pc ELSE "connect"
  /\ UNCHANGED <<people, kernelVars, cnxVars>>

\* deco and reco.
CmdClose ==
  /\ Taken(0)
  /\ main_cc
  /\ pc' \in {"select", "connect"}
  /\ UNCHANGED ret

\* nsc_load_configuration opens ~/.nscrc and reads it to its end.
CmdReload ==
  /\ Taken(0)
  /\ pc' = "load"
  /\ \E text \in Nscrc : stream' = [stream EXCEPT ![Hand] = text]
  /\ UNCHANGED <<people, open, gone, cnxVars>>

\* state, which sets CNX_STATUS, and the others.
CmdOther ==
  /\ Taken(0)
  /\ met' \in {met, TRUE}
  /\ UNCHANGED <<pc, people, kernelVars, client_fd, ret>>

CmdExit ==
  /\ Taken(0)
  /\ pc' = "exit"
  /\ UNCHANGED <<people, kernelVars, cnxVars>>

\* main_cc, nsc_save_configuration, destroy_socket_list.
Exit ==
  /\ pc = "exit"
  /\ pc' = "stopped"
  /\ client_fd' = 0 /\ met' = FALSE
  /\ destroy_socket_list
  /\ UNCHANGED <<readVars, timeVars, ret>>

-----------------------------------------------------------------------------
(* The outside. *)

Ahead(f) == (IF f = client_fd THEN str \o cequireste ELSE <<>>) \o stream[f]

Arrive(f, c) ==
  /\ f \in open \ gone
  /\ Len(Ahead(f)) < MaxAhead
  /\ stream' = [stream EXCEPT ![f] = Append(@, c)]
  /\ UNCHANGED <<pc, listVars, readVars, timeVars, cnxVars, open, gone>>

PeerCloses(f) ==
  /\ f \in open \ gone
  /\ gone' = gone \cup {f}
  /\ UNCHANGED <<pc, listVars, readVars, timeVars, cnxVars, open, stream>>

Done == pc = "stopped" /\ UNCHANGED vars

Next ==
  \/ TurnOnRest \/ TurnOnRead \/ TurnOnNothing
  \/ Handle \/ Lost \/ Loaded \/ Connect
  \/ Select \/ SelectTimeout \/ SelectInterrupted \/ TakeSocket
  \/ CmdConnect \/ CmdClose \/ CmdReload \/ CmdOther \/ CmdExit
  \/ Exit
  \/ \E f \in Fds : (\E c \in Char : Arrive(f, c)) \/ PeerCloses(f)
  \/ Done

Spec == Init /\ [][Next]_vars

-----------------------------------------------------------------------------
TypeOK ==
  /\ pc \in {"load", "loaded", "connect", "select", "recv", "handle", "lost",
             "exit", "stopped"}
  /\ people \in Seq(Fds \cup {0}) /\ ready_fd \in Seq(Fds \cup {0})
  /\ client_fd \in Fds \cup {0}
  /\ met \in BOOLEAN /\ ret \in {0, -1}
  /\ str \in Seq(Letter) /\ cequireste \in Seq(Char) /\ r_len \in Nat
  /\ line = None \/ line \in Source \X Seq(Letter)
  /\ secondes \in 0 .. SENDPING /\ quiet \in Nat /\ unseen \in Nat
  /\ open \subseteq Fds /\ gone \subseteq open
  /\ stream \in [Source -> Seq(Char)]

(* The statics of get_next_line agree with each other at every call, and    *)
(* nothing read is left in them, nor in the line under way, while no        *)
(* function that reads is running: a socket opened later, or ~/.nscrc read  *)
(* again, begins with its own bytes (get_next_line.c:65-92).                *)
StaticsAgree ==
  /\ r_len = Len(cequireste)
  /\ pc \notin {"recv", "handle", "load"} => cequireste = <<>> /\ str = <<>>

(* "number of seconds between server pings" (configure.ac:44): a connection *)
(* that gives nothing is given a ping before SENDPING seconds and a timeout  *)
(* of select have passed, not counting the selects that a key or another    *)
(* descriptor has ended: whoever types once a minute has none sent          *)
(* (nsc_main.c:126-161).                                                    *)
PingDue == client_fd # 0 => quiet < SENDPING + SELECTSEC + unseen

(* Bytes come out of get_next_line as the lines of their descriptor,        *)
(* however they are cut into reads and whatever is opened and closed on the *)
(* way, and ~/.nscrc is read to its end.                                    *)
todo == [s \in Source |->
           IF s = fd THEN str \o cequireste \o stream[s] ELSE stream[s]]
L == INSTANCE Lines WITH
  File <- Hand, Contents <- Nscrc, todo <- todo, handed <- line
LinesSpec == L!Spec

(* The linked lists are the set of descriptors that are watched and the set *)
(* of those still to be served: whatever is closed or opened in between,    *)
(* each ready descriptor is served once, the terminal first.                *)
W == INSTANCE Watch WITH
  Descriptor <- Fds \cup {0}, watched <- ToSet(people), due <- ToSet(ready_fd)
WatchSpec == W!Spec

=============================================================================
