-------------------------------- MODULE Talk --------------------------------
(***************************************************************************)
(* Two users of nsc who talk: what console_handler makes of the lines they *)
(* type, writebuffer of the messages, the server of what was written, and  *)
(* parse_user_cmd of what the server relays, with the auto-responder and   *)
(* the list of those to ignore.  The server is external: it relays what    *)
(* follows the name up to the end of the line, and puts dst= behind it.    *)
(***************************************************************************)
EXTENDS Codec, Console, FiniteSets

CONSTANTS
  Words,       \* what is typed besides Special: words of letters, digits
  Client,      \* users, named by one character
  Typed,       \* lines each types: [pre, mid, to, gap, text], with the blanks
               \* before msg, before the name and before the text
  Queries,     \* arguments each gives to query: [pre, name]
  LineMax,     \* characters of a message, newline included, in buf[2048]
  ShowMax,     \* and of what is shown of it, in buffer[1024] of printf_cl
  AutoMessage, \* CONF_AUTO_MESSAGE_AWAY and _LOCK by status, None for NULL
  Foe,         \* the message given with an ignored user
  Foes,        \* what ignore_list may be
  DST,         \* does the server put dst= behind a message?
  None,
  MaxInFlight  \* bound: messages on their way when a line is typed

Text == Seq(Words \cup Special)

ASSUME ClientAssumption ==
  /\ Client \subseteq Words /\ Client \cap (Special \cup {None, "nobody"}) = {}
  /\ None # "nobody"
ASSUME LineAssumption == LineMax \in Nat \ {0} /\ {ShowMax, MaxInFlight} \subseteq Nat
ASSUME TypedAssumption ==
  Typed \in [Client -> SUBSET [pre : Nat, mid : Nat \ {0}, to : Client,
                              gap : Nat \ {0}, text : Text]]
ASSUME QueriesAssumption ==
  Queries \in [Client -> SUBSET [pre : Nat, name : {<<>>} \cup {<<d>> : d \in Client}]]
ASSUME ReplyAssumption ==
  /\ AutoMessage \in [{"away", "lock"} -> Text \cup {None}] /\ Foe \in Text
  /\ Foes \subseteq [Client -> {"none", "ignored", "answered"}]
ASSUME DstAssumption == DST \in BOOLEAN

VARIABLES
  query,   \* CNX_QUERY, <<>> for NULL
  chosen,  \* whom the user wants in query, "nobody", or None: unsure
  status,  \* CNX_STATUS
  foes,    \* ignore_list: is the other one in it, and with a message?
  wire,    \* writes the server has not handled
  down,    \* messages relayed and not read
  dead,    \* what nsc died of: the messages of a line, or Overrun; <<>> if it runs
  last     \* the message shown, if that was done last, or None

talkVars == <<query, chosen, status, foes>>
vars == <<talkVars, wire, down, dead, last>>

Runs(c) == dead[c] = <<>>
Blanks(n) == [i \in 1 .. n |-> Blank]

-----------------------------------------------------------------------------
(* writebuffer: what does not fit is cut, the newline with it, maybe        *)
(* between the two digits of an escape.                                     *)

Whole(text) == Append(ns_encode(text), "\n")

\* (mutant: one character less fits)
Cuts_more(s) == {IF Len(s) < LineMax THEN s ELSE SubSeq(s, 1, LineMax - 1)}

\* (mutant: vsprintf)
Cuts_never(s) == {s}

Cuts(s) ==
  IF Len(s) <= LineMax THEN {s}
  ELSE {SubSeq(s, 1, LineMax)}
       \cup {Append(SubSeq(s, 1, LineMax - 1), Digit) :
               c \in {x \in Special : s[LineMax] = Hex[x]}}

\* What is written, and beside it for whom it was meant, the text that must be
\* shown or None, and whether all of it fits.
Said(c, m, to, text) ==
  IF m = Nothing THEN UNCHANGED wire
  ELSE \E bytes \in Cuts(Whole(m.text)) :
         wire' = [wire EXCEPT ![c] = Append(@,
                   [to |-> m.to, bytes |-> bytes,
                    meant |-> [to |-> to, text |-> text,
                               fits |-> Len(Whole(m.text)) <= LineMax]])]

\* A text must be shown as it was typed if no backslash is in it.
Plain(text) == IF Contains(text, "\\") THEN None ELSE text

Ended(w) == Last(w.bytes) = "\n"

-----------------------------------------------------------------------------
(* The server: writes up to a newline are a line.  The beginning of each    *)
(* one that was joined to it is a part of the first one's message.          *)

Lines(c) == {n \in DOMAIN wire[c] : Ended(wire[c][n])}

Joined(ws) == FoldLeft(LAMBDA s, w : s \o <<"user_cmd">> \o w.bytes,
                       Head(ws).bytes, Tail(ws))

Relayed(c, ws) ==
  [from |-> c, meants |-> [i \in DOMAIN ws |-> ws[i].meant],
   text |-> Front(Joined(ws)) \o IF DST THEN <<" ", "dst", "=", "me">> ELSE <<>>]

Takes(c, n) == wire' = [wire EXCEPT ![c] = SubSeq(@, n + 1, Len(@))]

Server(c) ==
  /\ Lines(c) # {}
  /\ \E n \in {Min(Lines(c))} : \E msg \in {Relayed(c, SubSeq(wire[c], 1, n))} :
       /\ Takes(c, n)
       /\ down' = [d \in Client |-> IF <<d>> = Head(wire[c]).to /\ Runs(d)
                                    THEN Append(down[d], msg) ELSE down[d]]
  /\ last' = None
  /\ UNCHANGED <<talkVars, dead>>

-----------------------------------------------------------------------------
(* parse_user_cmd *)

\* Where a dst= begins: the first character is not looked at.
DstAt(s) == {i \in 2 .. Len(s) - 1 : s[i] = "dst" /\ s[i + 1] = "="}

\* (mutant: the first dst= ends the message)
Ends_first(s) == {i \in DstAt(s) : \A j \in DstAt(s) : i <= j}

Ends(s) == {i \in DstAt(s) : \A j \in DstAt(s) : j <= i}

Answer(c, to, text) ==
  Said(c, cmd_user_message(<<Blank, to, Blank>> \o text), to, Plain(text))

is_ignore(c, from) == foes[c] # "none" /\ from # c

\* What is answered to a message, None if nothing.
AutoText(c) == IF status[c] \in DOMAIN AutoMessage THEN AutoMessage[status[c]] ELSE None

\* (mutant: the text of the auto-responder is all that counts)
AutoReply_always(c, from) == Answer(c, from, AutoMessage["away"])

AutoReply(c, from) ==
  IF AutoText(c) # None THEN Answer(c, from, AutoText(c)) ELSE UNCHANGED wire

\* What printf_cl shows of a text.
Shown(text) == IF Len(text) <= ShowMax THEN text ELSE SubSeq(text, 1, ShowMax)

Reads(c, rest) ==
  /\ Runs(c) /\ down[c] # <<>>
  /\ down' = [down EXCEPT ![c] = rest]

Ignored(c) ==
  LET from == Head(down[c]).from
  IN  /\ Reads(c, Tail(down[c]))
      /\ is_ignore(c, from)
      /\ IF foes[c] = "answered" THEN Answer(c, from, Foe) ELSE UNCHANGED wire
      /\ last' = None
      /\ UNCHANGED <<talkVars, dead>>

\* The buffer for the answer is a byte short (nsc_parser_misc.c:70): writing it,
\* or freeing it once it was sent, may be the end.
Overrun == <<None>>

Overruns(c) ==
  LET from == Head(down[c]).from
  IN  /\ Reads(c, <<>>)
      /\ is_ignore(c, from) /\ foes[c] = "answered"
      /\ UNCHANGED wire \/ Answer(c, from, Foe)
      /\ dead' = [dead EXCEPT ![c] = Overrun]
      /\ last' = None
      /\ UNCHANGED talkVars

\* *last = '\0' where the character before dst= is.
Shows(c) ==
  /\ Reads(c, Tail(down[c]))
  /\ \E d \in {Head(down[c])} :
       /\ ~is_ignore(c, d.from)
       /\ \E s \in {ns_decode(d.text)} \ {NULL} : \E i \in Ends(s) :
            last' = [by |-> c, text |-> Shown(SubSeq(s, 1, i - 2)), meants |-> d.meants]
       /\ AutoReply(c, d.from)
  /\ UNCHANGED <<talkVars, dead>>

\* strchr of NULL, or *last of a NULL.
Dies(c) ==
  /\ Reads(c, <<>>)
  /\ \E d \in {Head(down[c])} :
       /\ ~is_ignore(c, d.from)
       /\ \E s \in {ns_decode(d.text)} : s = NULL \/ Ends(s) = {}
       /\ dead' = [dead EXCEPT ![c] = d.meants]
  /\ last' = None
  /\ UNCHANGED <<talkVars, wire>>

parse_user_cmd(c) == Ignored(c) \/ Overruns(c) \/ Shows(c) \/ Dies(c)

-----------------------------------------------------------------------------
(* The users. *)

InFlight == UNION {{c} \X (DOMAIN wire[c] \cup {- i : i \in DOMAIN down[c]}) : c \in Client}

Types(c) == Runs(c) /\ last' = None /\ UNCHANGED <<down, dead>>

\* And behind msg if one blank is in front of it and of the name.
Kept(l) == IF l.mid = 1 /\ l.gap = 1 THEN Plain(l.text) ELSE None

\* A line is for somebody as far as its command begins at column 0.
TypeMessage(c) ==
  /\ Types(c) /\ Cardinality(InFlight) < MaxInFlight
  /\ \E l \in Typed[c] :
       Said(c, sent(Blanks(l.pre) \o MSG \o Blanks(l.mid) \o <<l.to>>
                    \o Blanks(l.gap) \o l.text, query[c]),
            IF l.pre = 0 THEN l.to ELSE None, IF l.pre = 0 THEN Kept(l) ELSE None)
  /\ UNCHANGED talkVars

\* A line that is no command.
TypeText(c) ==
  /\ Types(c) /\ Cardinality(InFlight) < MaxInFlight
  /\ \E l \in Typed[c] :
       /\ l.pre = 0 /\ str_to_first_word(l.text) \notin {MSG, QUERY}
       /\ Said(c, sent(l.text, query[c]), chosen[c], Plain(l.text))
  /\ UNCHANGED talkVars

TypeQuery(c) ==
  /\ Types(c)
  /\ \E q \in Queries[c] :
       /\ query' = [query EXCEPT ![c] =
                      queried(Blanks(q.pre) \o QUERY \o <<Blank>> \o q.name, @)]
       /\ chosen' = [chosen EXCEPT ![c] =
                       CASE q.pre # 0 -> None
                         [] q.pre = 0 /\ q.name = <<>> -> "nobody"
                         [] q.pre = 0 /\ q.name # <<>> -> Head(q.name)]
  /\ UNCHANGED <<status, foes, wire>>

TypeState(c) ==
  /\ Types(c)
  /\ \E state \in {"actif"} \cup DOMAIN AutoMessage : status' = [status EXCEPT ![c] = state]
  /\ UNCHANGED <<query, chosen, foes, wire>>

\* reload_conf frees CNX_QUERY with the configuration.
TypeReload(c) ==
  /\ Types(c)
  /\ query' = [query EXCEPT ![c] = <<>>]
  /\ chosen' = [chosen EXCEPT ![c] = "nobody"]
  /\ UNCHANGED <<status, foes, wire>>

\* nsc is started again.
Start(c) ==
  /\ ~Runs(c)
  /\ dead' = [dead EXCEPT ![c] = <<>>]
  /\ query' = [query EXCEPT ![c] = <<>>]
  /\ chosen' = [chosen EXCEPT ![c] = "nobody"]
  /\ status' = [status EXCEPT ![c] = "actif"]
  /\ wire' = [wire EXCEPT ![c] = <<>>]
  /\ last' = None
  /\ UNCHANGED <<foes, down>>

-----------------------------------------------------------------------------
Init ==
  /\ query = [c \in Client |-> <<>>] /\ chosen = [c \in Client |-> "nobody"]
  /\ status = [c \in Client |-> "actif"]
  /\ foes \in Foes
  /\ wire = [c \in Client |-> <<>>] /\ down = [c \in Client |-> <<>>]
  /\ dead = [c \in Client |-> <<>>] /\ last = None

Next == \E c \in Client :
  \/ Server(c) \/ parse_user_cmd(c)
  \/ TypeMessage(c) \/ TypeText(c) \/ TypeQuery(c) \/ TypeState(c) \/ TypeReload(c)
  \/ Start(c)

\* The server relays and each nsc reads what there is, and nothing is asked of
\* the users.  No other action takes from wire or down.
Fairness == \A c \in Client :
  /\ WF_wire(Lines(c) # {} /\ Takes(c, Min(Lines(c))))
  /\ WF_down(down[c] # <<>> /\ \E rest \in {Tail(down[c]), <<>>} : Reads(c, rest))

Spec == Init /\ [][Next]_vars /\ Fairness

-----------------------------------------------------------------------------
TypeOK ==
  /\ DOMAIN query = Client /\ chosen \in [Client -> Client \cup {None, "nobody"}]
  /\ status \in [Client -> {"actif"} \cup DOMAIN AutoMessage]
  /\ foes \in [Client -> {"none", "ignored", "answered"}]
  /\ \A c \in Client :
       /\ ~Runs(c) => down[c] = <<>>
       /\ \A i \in DOMAIN wire[c] : wire[c][i].bytes # <<>> /\ Len(wire[c][i].bytes) <= LineMax
       /\ \A i \in DOMAIN down[c] : down[c][i].from \in Client

IsShown == last # None

(* What is shown is what was typed, blanks, % and dst= included, as far as   *)
(* printf_cl shows it (nsc_user.c:250,261), for a line with one blank at     *)
(* each place and without backslashes: the escapes of ns_encode, the offsets *)
(* of console_handler and cmd_user_message, and the cut at dst= undo each    *)
(* other (nsc_code.c, nsc_parser_misc.c:77-88).                             *)
TextKept ==
  IsShown /\ Len(last.meants) = 1 =>
    LET typed == Head(last.meants).text
    IN  typed = None \/ last.text = Shown(typed)

(* A message is shown by the one it was meant for: the name after a msg at  *)
(* column 0 or the one a query was started with there.  After the end of a  *)
(* query or reload_conf a line that is no command is shown by nobody        *)
(* (nsc_user.c:164, nsc_commands.c:390-424, nsc_conf.c:262).                *)
RightPerson ==
  IsShown /\ Len(last.meants) = 1 =>
    Head(last.meants).to \in {last.by, None}

(* Two messages are shown as one only if the first was too long for         *)
(* writebuffer (nsc_functions.c:24).                                        *)
LinesApart ==
  IsShown => \A i \in 1 .. Len(last.meants) - 1 : ~last.meants[i].fits

(* "user_cmd 105:user:3/1:... | msg bisou" (nsc_parser_misc.c:56), as in    *)
(* netsoul_spec.txt: parse_user_cmd shows such a message, and survives all  *)
(* but those that were cut in the middle of an escape and joined, and the   *)
(* one it answers from a buffer that is too short.                          *)
Survives == \A c \in Client : dead[c] = Overrun \/ Len(dead[c]) # 1

Keyboard == down' = down /\ \A c \in Client : Len(wire'[c]) >= Len(wire[c])
Answers(c) == foes[c] = "answered" \/ AutoText(c) # None

(* When the users leave the keyboard, what goes on between them is only     *)
(* between those who answer by themselves: nothing else sends.              *)
ConversationEnds ==
  <>[][~Keyboard]_vars =>
    <>[](\A c \in Client : \A i \in DOMAIN down[c] :
            Answers(c) /\ Answers(down[c][i].from))

=============================================================================
