------------------------------ MODULE Replies ------------------------------
(***************************************************************************)
(* How a logged-in nsc tells which of its commands the server has finished *)
(* to answer.  The server answers list_users in the order of the requests, *)
(* some entries and an end each, and says in none of them what is being    *)
(* answered; nsc remembers the last command given and two counters.  The   *)
(* entries, which change none of these, are left out.                      *)
(***************************************************************************)
EXTENDS Integers, Sequences

CONSTANTS
  MaxAwaited, \* bound: requests the server has not finished to answer
  MaxCount    \* bound: of each counter

ASSUME BoundAssumption == MaxAwaited \in Nat /\ MaxCount \in Nat

Kind == {"whois", "list"}
Request == Kind \cup {"raw"}  \* raw: a line of the user's that is answered

VARIABLES
  asks,        \* what this user asks
  type,        \* CNX_TYPE, that of the process's environment
  last_cmd,    \* CMD_WHOIS, CMD_LIST or 0
  count_whois,
  count_list,
  up,          \* CNX_CLIENT_FD leads to a server
  awaited,     \* the requests the server has still to answer, oldest first
  shown        \* the last thing printed

always == <<asks, type>>
vars == <<always, last_cmd, count_whois, count_list, up, awaited, shown>>

Nothing == [what |-> "nothing", of |-> "none", as |-> "none"]
Shown == [what : {"nothing", "end"},
          of : Request \cup {"none"}, as : Kind \cup {"none"}]

Init ==
  /\ asks \in SUBSET Request
  /\ type \in {"externe", "interne"}
  /\ last_cmd = "none"
  /\ count_whois = 0
  /\ count_list = 0
  /\ up = TRUE
  /\ awaited = <<>>
  /\ shown = Nothing

-----------------------------------------------------------------------------
\* writebuffer to CNX_CLIENT_FD, which is the terminal when there is none.
Send(k) ==
  /\ k \in asks
  /\ Len(awaited) < MaxAwaited
  /\ awaited' = IF up THEN Append(awaited, k) ELSE awaited
  /\ shown' = Nothing
  /\ UNCHANGED <<always, up>>

\* (mutant: the counter is set, not incremented)
cmd_user_whois_once ==
  /\ Send("whois")
  /\ last_cmd' = "whois"
  /\ count_whois' = 1
  /\ UNCHANGED count_list

cmd_user_whois ==
  /\ count_whois < MaxCount
  /\ Send("whois")
  /\ last_cmd' = "whois"
  /\ count_whois' = count_whois + 1
  /\ UNCHANGED count_list

cmd_user_list ==
  /\ count_list < MaxCount
  /\ Send("list")
  /\ last_cmd' = "list"
  /\ count_list' = count_list + 1
  /\ UNCHANGED count_whois

cmd_raw ==
  /\ Send("raw")
  /\ UNCHANGED <<last_cmd, count_whois, count_list>>

\* Inside the PIE, cmd who is answered by user_cmd lines, which are not
\* recognised; a raw list_users is answered as it is outside.
Recognised == type = "externe" \/ Head(awaited) = "raw"

\* What the end of an answer leaves of the counter of k.
Counted(k, n) == IF last_cmd = k /\ Recognised THEN n - 1 ELSE n

\* (mutants: the command is never forgotten; it is at its first end)
parse_cmd_end_remembers ==
  /\ awaited # <<>>
  /\ awaited' = Tail(awaited)
  /\ count_whois' = Counted("whois", count_whois)
  /\ count_list' = Counted("list", count_list)
  /\ shown' = Nothing
  /\ UNCHANGED <<always, up, last_cmd>>

parse_cmd_end_forgets ==
  /\ awaited # <<>>
  /\ awaited' = Tail(awaited)
  /\ count_whois' = Counted("whois", count_whois)
  /\ count_list' = Counted("list", count_list)
  /\ last_cmd' = "none"
  /\ shown' = Nothing
  /\ UNCHANGED <<always, up>>

parse_cmd_end ==
  /\ awaited # <<>>
  /\ awaited' = Tail(awaited)
  /\ count_whois' = Counted("whois", count_whois)
  /\ count_list' = Counted("list", count_list)
  /\ last_cmd' = IF \/ last_cmd = "whois" /\ count_whois' = 0
                    \/ last_cmd = "list" /\ count_list' = 0
                 THEN "none" ELSE last_cmd
  /\ shown' = IF Recognised
              THEN [what |-> "end", of |-> Head(awaited), as |-> last_cmd]
              ELSE Nothing
  /\ UNCHANGED <<always, up>>

\* main_cc: the requests are lost with the connection, and still counted.
Lost ==
  /\ up
  /\ up' = FALSE
  /\ awaited' = <<>>
  /\ shown' = Nothing
  /\ UNCHANGED <<always, last_cmd, count_whois, count_list>>

LoggedInAgain ==
  /\ ~up
  /\ up' = TRUE
  /\ shown' = Nothing
  /\ UNCHANGED <<always, last_cmd, count_whois, count_list, awaited>>

Next == \/ cmd_user_whois
        \/ cmd_user_list
        \/ cmd_raw
        \/ parse_cmd_end
        \/ Lost
        \/ LoggedInAgain

Spec == Init /\ [][Next]_vars

-----------------------------------------------------------------------------
TypeOK ==
  /\ asks \subseteq Request
  /\ type \in {"externe", "interne"}
  /\ last_cmd \in Kind \cup {"none"}
  /\ count_whois \in Nat
  /\ count_list \in Nat
  /\ up \in BOOLEAN
  /\ awaited \in Seq(Request)
  /\ shown \in Shown

(* A command is only remembered while its counter says that an answer is    *)
(* due: parse_cmd_end, which decrements the counter of the remembered       *)
(* command without looking at it, never takes it below zero, from where     *)
(* `== 0' would not be met again.                                           *)
RememberedIsCounted ==
  /\ last_cmd = "whois" => count_whois > 0
  /\ last_cmd = "list" => count_list > 0

(* As long as the user sends no raw request, an answer the server owes is   *)
(* always counted, whatever answers were given to the wrong command and     *)
(* whatever connections were lost.                                          *)
OwedIsCounted ==
  "raw" \notin asks => Len(awaited) <= count_whois + count_list

InvReplies == TypeOK /\ RememberedIsCounted /\ OwedIsCounted

(* When the counters are right and answers to one command only are due, the *)
(* next end is named after it: the last command is then always remembered.  *)
ExactIsNamed ==
  \A k \in Kind :
    /\ awaited # <<>> /\ \A i \in DOMAIN awaited : awaited[i] = k
    /\ count_whois = IF k = "whois" THEN Len(awaited) ELSE 0
    /\ count_list = IF k = "list" THEN Len(awaited) ELSE 0
    => last_cmd = k

\* The last request that is still awaited, raw ones apart, was for k.
Latest(k) ==
  \E i \in DOMAIN awaited :
    awaited[i] = k /\ \A j \in DOMAIN awaited : j > i => awaited[j] = "raw"

\* Why ExactIsNamed holds: a command is forgotten only when its counter has
\* come to zero, where it stays until the command is given again.
LatestIsNamed ==
  \A k \in Kind : Latest(k) =>
    \/ last_cmd = k
    \/ last_cmd = "none" /\ (IF k = "whois" THEN count_whois ELSE count_list) = 0

LostIsNotOwed == ~up => awaited = <<>>

IInv == InvReplies /\ LatestIsNamed /\ LostIsNotOwed

(* "Right, we got end of command. So we print end of what."                 *)
(* (nsc_parser_misc.c:211): an end printed names the command that ended.    *)
EndOfWhat ==
  shown.what = "end" /\ shown.of \in Kind => shown.as = shown.of

=============================================================================
