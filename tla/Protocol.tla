------------------------------ MODULE Protocol ------------------------------
(***************************************************************************)
(* What netsoul_spec.txt asks of a client that is outside the PIE, on one  *)
(* connection at a time: it says nothing before the server's greeting, and *)
(* each of its lines waits for one more line of the server: the greeting,  *)
(* the answer to auth_ag, the confirmation of ext_user_log, with which it  *)
(* announces itself actif.  Two things the document does not speak of: the *)
(* user may announce a state at any time, upon which the client takes      *)
(* itself for logged in; and once a line has reached it cut, it may take   *)
(* anything for its answer.  attach, which a client may send once it is    *)
(* logged in, is never sent.                                               *)
(***************************************************************************)
EXTENDS Naturals, Sequences

VARIABLES
  phase,   \* of the client: "claimed" is logged in on the word of its user
  said,    \* its lines of the handshake
  state,   \* the last state announced
  heard,   \* of the server: the lines of the handshake it has sent
  broken   \* a line was read cut

Word == {"actif", "away", "idle", "lock", "server"}

vars == <<phase, said, state, heard, broken>>

Fresh == said' = <<>> /\ state' = "none" /\ heard' = 0 /\ broken' = FALSE

Init == phase = "down" /\ said = <<>> /\ state = "none" /\ heard = 0 /\ ~broken

\* A connection replaces none, or one where nothing was said yet.
Open == phase \in {"down", "greeting"} /\ phase' = "greeting" /\ Fresh

Drop == phase' = "down" /\ Fresh

\* The server greets, accepts auth_ag, confirms ext_user_log.
Speaks ==
  /\ phase # "down" /\ heard < 3 /\ heard' = heard + 1
  /\ UNCHANGED <<phase, said, state, broken>>

Breaks == phase # "down" /\ broken' = TRUE /\ UNCHANGED <<phase, said, state, heard>>

\* A line of the client, upon the n-th of the server.
Answer(n, from, to, line) ==
  /\ phase = from /\ phase' = to /\ said' = Append(said, line)
  /\ heard >= n \/ broken
  /\ UNCHANGED <<heard, broken>>

\* No status stands for "server", the other words end the handshake.
Announce(w) ==
  /\ phase # "down"
  /\ phase' = IF w # "server" /\ phase \in {"greeting", "auth", "log"}
              THEN "claimed" ELSE phase
  /\ state' = w
  /\ UNCHANGED <<said, heard, broken>>

Next == \/ Open
        \/ Drop
        \/ Speaks
        \/ Breaks
        \/ Answer(1, "greeting", "auth", "auth_ag") /\ UNCHANGED state
        \/ Answer(2, "auth", "log", "ext_user_log") /\ UNCHANGED state
        \/ Answer(3, "log", "online", "watch_log_user") /\ state' = "actif"
        \/ \E w \in Word : Announce(w)

Spec == Init /\ [][Next]_vars
=============================================================================
