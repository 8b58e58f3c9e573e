# A verification project for nsc

nsc is a text-mode client of the NetSoul network: one C process, one thread,
one `select` loop over a readline terminal and a socket. These modules model
what in it is hard to test: the order in which the server, the kernel, the user
and the program's own state take their turns. TLC checks the models on small
instances; TLAPS proves the main invariants for every value of the constants.

Names in the modules are those of the source (`main_cc`, `cmd_user_whois`,
`client_fd`, `ready_fd`, ...). `PROJECT.json` gives, for each definition, the
lines it stands for.

## 1. The system

| part | state | operations | talks to |
|---|---|---|---|
| main loop and connection (`nsc_main.c`, `nsc_network.c`) | `fin`, `people`, `propagate_sigwinch`; `CNX_CLIENT_FD`, `CNX_STATUS`, `CNX_TYPE` | `main`, `main_lc` (connect, retried for ever in the default build), `main_cc` (close), `resolv` | everything |
| multiplexer (`ymca.c`) | list of descriptors watched, list of those found ready and not served yet | add, remove, `get_next_active_fd` | the kernel, main |
| line reader (`get_next_line.c`) | static `cequireste`, `r_len`: what was read after the last line | `get_next_line` on any descriptor | the kernel; used for the socket and for `~/.nscrc` |
| receiving, handshake (`nsc_connect.c`, `nsc_parser_hello.c`) | `CNX_STATUS`, the challenge and the client's address | `nsc_recv_data`, `parse_hello`, `parse_validity` | the reader, authentication, commands |
| authentication (`nsc_auth.c`) | none of its own | `build_auth_message` | the configuration |
| keepalive (`nsc_parser_ping.c`) | static `secondes` | `send_ping`, `parse_ping` | the main loop, on a timeout |
| server's lines (`nsc_parser_misc.c`) | reads and writes `last_cmd`, `count_whois`, `count_list` | `parse_user_cmd` (with the auto-responder), `parse_user_list`, `parse_cmd_end` | commands, codec |
| commands (`nsc_commands.c`) | those three; the state words | 27 of them | main, configuration, lists |
| console (`nsc_user.c`) | readline's line, `CNX_QUERY` | `console_handler`, completion, redrawing | commands |
| configuration (`nsc_conf.c`) | items in memory, among them the challenge and the query | load, free, save of `~/.nscrc` | reader, lists |
| contacts and foes (`nsc_contact.c`, `listes.c`) | two linked lists, static cursors | add, remove, search, walk | configuration, commands, parsers |
| codec (`nsc_code.c`) | none | URL and backslash encoding | commands, parsers |
| helpers (`my_functions.c`, `nsc_functions.c`) | none | strings, `writebuffer` | everything |
| libnscutil (`nscutil_*.cc`) | a multimap of values; each its type and data | read, write, convert, assign, compare | no program of the repository; `~/.nscrc` |

Everything runs in one thread, through calls and global variables. What makes
it hard is not parallelism inside the program but that each turn of the loop
acts on what earlier turns left: a status written by a command while the
handshake is under way, a descriptor found ready before the command that closes
it, bytes read together with the previous line, counters of requests whose
answers come later or never, a file emptied before it is written. The server
may be slow, cut its lines anywhere, stop in the middle of one or go away; a
signal may interrupt `select`, `read` or `connect`; the user may type anything
at any time.

What makes each part correct:

* connection and multiplexer: what is watched is what is open; the loss of a
  server is always noticed; the terminal is always served;
* reader: nothing read from one connection is taken for data of another;
* handshake: its lines are said in order, once each; the digest uses this
  connection's challenge; it ends; being logged in agrees with what was said;
* presence: the status that drives the auto-responder is what the server knows;
* replies: an end of command is given to the command that ended;
* configuration: what is saved is what is read again, a save cut short loses
  but does not invent, the lists have no doubles where they must not;
* lists and completion: what is shown is what is in them, all of it and in order;
* codec, console, messages: what is typed to somebody is shown by that one, as
  it was typed, and apart from other messages; what answers by itself stops.

## 2. Modules

| module | what it is |
|---|---|
| `Session` | the process: loop, descriptors, connection, handshake, commands that touch them, keepalive |
| `Protocol` | abstract: the handshake of `netsoul_spec.txt` between an external client and its server, who is said to be logged in and when; `Session` implements it |
| `Loop` | the same loop from below: the linked lists of `ymca.c`, `get_next_line` on bytes, the seconds of `send_ping` |
| `Lines` | abstract: a reader that hands on the lines of several sources; `Loop` implements it |
| `Watch` | abstract: a set of descriptors watched and the set of those to be served; `Loop` implements it |
| `Codec` | `nsc_code.c` |
| `Console` | the offsets of `console_handler`, `cmd_user_message` and `cmd_query` in the line typed |
| `Talk` | two users who talk: extends `Codec` and `Console` with `writebuffer`, `parse_user_cmd`, the auto-responder |
| `Replies` | which command has ended: `last_cmd` and the counters |
| `Nscrc` | `~/.nscrc` and the copy of it in memory, with both lists, and what libnscutil makes of the file |
| `Roster` | abstract: two lists shown whole and in order, completions that offer all that fits; `Contacts` implements it |
| `Contacts` | the lists as linked cells with their static cursors, the list between braces, the completions |
| `Sublist` | what is left of a list that is searched or shortened, for `Nscrc`, `Roster` and `Contacts` |
| `Value` | the class `value` of libnscutil |
| `MCSession`, `MCLoop`, `MCTalk`, `MCNscrc`, `MCContacts`, `MCValue` | definitions for the configurations |
| `SessionProofs`, `LoopProofs`, `RepliesProofs`, `TalkProofs`, `NscrcProofs`, `ContactsProofs`, `ValueProofs` | the proofs |
| `Recursion` | lemmas for them: induction over numbers and sequences, what folds and flattened sequences are |

### Session

An action is what the program does between two points where the outside can be
seen to move: a `select`, one ready descriptor taken, one `read`, one line
handled, one command. `pc` says which function of the loop is running:
`select` (in `main`, before `get_next_active_fd`), `connect` (in `main_lc`),
`recv` (in `nsc_recv_data`), `exit` (after the loop), `stopped`, `killed`.

* `people`, `ready_fd`: the two lists of `ymca.c`, as sets. `people` is built by
  prepending and 0 is added first; the ready list is built by prepending from
  it, so that 0 comes out first, which `Next_fd` keeps. `ready_fd` outlives a
  command that closes one of its descriptors: so it does here.
* `file`, `link`: the kernel. `file` maps descriptors to connections and gives
  the lowest free number; `link` holds, for each connection, complete lines not
  yet read (`net`), a line of which only the beginning has arrived (`begun`),
  how far the server is, and what nsc has written that matters.
* `residue`, `half`: `cequireste`, as complete lines and whether the beginning
  of one more follows. `RecvRead` may read any part of what is there.
* `ret`: the local of `nsc_recv_data`, which the next line at hand overwrites.
  `Return` is the end of a turn of `debut`: on to the next line, back to the
  loop, or `main_cc` and perhaps `main_lc`.
* `conf`, `chal`: which items of the configuration are set; whose challenge
  `CNX_CHAL_STR` is. `CmdReload` frees both, as `nsc_free_configuration` does.
* `secondes`: capped at `SENDPING`, the one value it is compared with.

What a write does is decided by the connection: on one the server has closed it
is accepted, fails, or raises SIGPIPE, which nothing handles. Deaths are one
action, `Die`: SIGPIPE, `exit(-1)` in `resolv`, the NULL login whose length
`build_auth_message` takes, the NULL that `parse_user_cmd` follows, and those that
`add_ignore` of blanks and `rem_contact` without a name do.

Lines are of eight kinds (`Line`), each standing for the way `nsc_recv_data`
treats it. A line cut short (`Cut`) may be taken for itself, for junk, or for
the answer `parse_validity` looks for, which compares one byte less than the
line it got; a message cut in front of its `dst=` is one that kills.

Two fields of `link` are of no consequence to any step and are there for the
refinement: `heard`, how many lines of the handshake the server has sent
(`HeardAt`), and `cut`, whether nsc has read a line of this connection that was
cut. `Protocol` has them as `heard` and `broken`, beside `phase`, what the client
has `said` and the last `state` it announced. There, each line of the client waits
for one more line of the server, unless a line came cut; a state announced during
the handshake makes the client take itself for logged in (`claimed`), which is
another phase than `online`, and ends what it says of the handshake. `attach`, which
the document lets a client send once it is logged in, nsc never sends.

### Loop, with Lines and Watch

`Session` says what a line means and takes the reader and the lists for granted
(`residue`, `half`; sets of descriptors). `Loop` leaves out what a line means, and
has the rest as it is written.

* `people`, `ready_fd`: the linked lists, from their heads. `Added` prepends
  unless the descriptor is there, `Ready` is the loop over one list that prepends
  to the other, as a fold. `Watch` is what they are used for: `watched` and `due` are the sets of
  their elements, and 0 is served first.
* `str`, `cequireste`, `r_len`: the locals and statics of `get_next_line`; one
  action is one turn of its loop. `stream` is what the kernel holds for each
  descriptor, `~/.nscrc` (`Hand`) among them. Under the refinement, what a source
  has still to give is `str`, then `cequireste`, then its stream; `Lines` hands it
  on line by line. `Lines!Close` does not let go of a file with bytes unread,
  and `Lines!Open` does not begin with any left: bytes that survive their
  connection have no step there.
* a handler is its result: 0 or -1 in `ret`, and `CNX_STATUS` connected or as it
  was. Commands are what they do to descriptors.
* `secondes`: what `send_ping` has counted, capped where it only compares.
* `quiet`: the seconds spent in `select` since the connection gave a byte, was sent
  a ping, or began; `unseen`: how many of them in selects that a descriptor ended.
  Of these `send_ping` never hears: a key starts `select` again with the whole
  timeout. Reading `~/.nscrc` is no sign of the connection and leaves both alone.

### Codec, Console, Talk

A text is a sequence of characters; a word of letters and the pair of digits
behind a `%` are one symbol each (`Words`, with the names of the users among them,
and `Special`; `Text` is all sequences of these). The loops of the decoders are folds
over the text, with the flag that the code keeps between two characters. Pointers into a line are its suffixes, so that
`str + my_strlen (cmd_tmp)` is `From(str, ...)` and a blank too many shifts it.
A line of the protocol is what `writebuffer` has left of the message behind
`user_cmd msg_user {to} msg`, at most `LineMax` characters; `Cuts` also has the cut
between the two digits of an escape, of which `sscanf` reads the one that is left
(`Digit`). What is shown of a message is its first `ShowMax` characters (`Shown`), as
`printf_cl` has a buffer of its own.

`AutoMessage` gives, for away and for lock, the text of the auto-responder, which may be
NULL. The answer to somebody ignored is written into a buffer that lacks one byte
(`nsc_parser_misc.c:70`): what that does is undefined, so that `Ignored`, where all
goes well, has a twin `Overruns`, where nsc dies before or after the answer is sent.

The server is external: it relays writes up to a newline as one line, with
`dst=` behind it unless `DST` is false. `meants` goes beside each message and says
for whom it was typed, with which text and whether it fitted: the properties
compare it with what is shown. `chosen` is whom the user has asked for with
`query`. Users end their typing before they look at what is shown (`last` is
cleared by every other step), and start nsc again after it died.

### Replies

The server answers requests in order and does not name them. The variable
`awaited` is what the server still owes; `asks` and `type`, chosen once, say
what this user sends and whether he is inside the PIE. `parse_cmd_end` is the
`rep 00x` at the end of an answer. The entries before it change nothing here.

### Nscrc

The file is a sequence of `<<key, value, message>>`, each a member of `Line`: what
nsc looks at in a line of that key. A load folds `Read` over it
from the empty configuration (so for `reload_conf`, which frees first, and at
the start). A save is two steps: `fopen`, which empties the file, and `Saved`,
the rest, which writes any part of the lines, up to any character of one
(`Cuttings`; `Begun` is what is left of a line, by what stood in it: a key without
the blank behind it, `Bare`, or `LessPort`, `LessText`, `LessNote`; `Shorter` gives
the beginnings of a text): nobody looks at the result of `fprintf` or `fclose`.
`Killed` may come between. The exit is a save with `nsc_free_configuration` after
it. Searching a list compares the whole text that was typed; an entry to ignore
keeps the first word of it, so that one typed with a message, or with a blank
behind the name (the message `Empty`, of which nothing is kept), is never found and
always added. A line `ignore` with nothing behind it (`Deadly`) ends nsc.

Most lines mean the same to nsc and to libnscutil. Those that do not are either
`Bare`, which nsc overlooks and libnscutil writes with an empty value, or `Odd`: lines
with blanks in front or doubled, keys in capitals. For each of these `Seen` is the
line nsc takes it for, `Tidied` what libnscutil writes for it; `Trim` is a value
without the blanks in front, which libnscutil drops and nsc keeps.

`conf_read` and `conf_write` are the operators of `nscutil_conf.cc`: a multimap
keeps the values of a key in the order they were read (`Values`, of the lines
`UpToEOC`) and is written key by key in an order `Order`, with `EOC` behind them. `Rewritten` is a program that reads and writes.

Abstracted: comments of the file; a foreign write between `fopen` and `fclose`; the way a `%s` of NULL is
printed, which is glibc's `(null)`.

### Contacts, with Roster

`Nscrc` has the lists as sequences. Here they are cells of a heap: `mem.cell` is
what is allocated, `mem.head` the two heads, and a cell that was freed may be
given again. `Chain` follows the pointers and is what the lists are under the
refinement; `virer_liste` frees a cell that is in the list it is given, and no
other. An addition, a removal (until none is found) and a flush are one step
each; a walk is one step for each call of `get_next_contact_list_name` or its twin,
and of the other two generators, with `by` for the loop that calls. Nothing else
runs during a walk: there is one thread, and readline calls a generator until it
gives NULL. What could go wrong is what a walk leaves in the statics (`cursor`,
`place`) for the next one, and that is what the refinement looks at: `shown` is
what the last walk gave. `room` and `Built` are the bytes that
`build_accolades_contact_list` has and uses. What a name means to a search is as in
`Nscrc`: an entry to ignore is found only by a name with nothing behind it, and
`Blank`, of which no message is made (`Stripped`), is enough to list it again.

### Value

`slot` has the type and the data of each object, `heap` the strings that were
allocated and not deleted. An operation is an operator on both (`Memory`), with the
conversions inside another in the order of the code: `assign` releases a pointer,
converts, and writes through the reference. `Read` is what `istringstream` leaves in
an `int` that nobody has set: of a blank text any number. Objects live for ever: the
class has no destructor, and what one leaves behind when it ends is a leak
by design.

## 3. Runs

| run | instance | shows |
|---|---|---|
| `TwoSockets` | 3 connections, 2 descriptors, default build, 2 lines buffered, reconnection, `away` and `server` at any time, pings | invariants under all interleavings of commands, losses, lines together, cut and unfinished; refinement of `Protocol` |
| `Live` | 2 connections, 1 descriptor, no automatic connection, three configurations, messages that kill, `away` at any time | liveness; `PresenceTold` although a state may be set too early |
| `SecondSocket` | 3 connections, 2 descriptors, default build | violation: `OnlyOneConnection` |
| `EarlyAway` | the same | violation: `LoggedWhenConfirmed` |
| `Loop` | 2 sockets, 2 files, reads of 2 bytes, 3 bytes ahead, timeouts of 2 and pings after 3, 2 seconds unseen | refinement of `Lines` and `Watch`; the statics; the pings |
| `Talk` | 2 users, 2 messages on their way, lines of 5 symbols of which 2 are shown, away with a text and lock without | messages from the keyboard to the screen |
| `NoDst` | the same, a server that puts nothing behind a message | violation: `Survives` |
| `Replies` | 4 requests waiting, counters to 5 | the counters |
| `EndOfWhat` | same | violation: `EndOfWhat` |
| `Nscrc` | one item of each kind, 5 files, one of them with blanks and capitals of its own, 2 entries in the lists, 2 commands between saves | round trip, cut saves, libnscutil |
| `Contacts` | 3 cells, 2 names, a message and a blank, 5 texts to complete, 2 states and 3 commands | refinement of `Roster`; pointers and cursors |
| `Value` | 3 objects, 4 strings, 6 texts, 3 numbers, 2 pointers | owners of strings, assignment, order |

Properties:

* `WatchedAreOpen`: the select list is the terminal and the open sockets.
* `ResidueDrained`: the static rest is empty outside `nsc_recv_data`. It holds
  only because that function returns on an empty rest, which is also why it can
  keep the terminal waiting.
* `HandshakeInOrder`: lines said once, in order, and `CNX_STATUS` counts them,
  although commands overwrite it.
* `OwnChallenge`: no digest from another connection's challenge, although the
  challenge is a global that survives its connection.
* `PresenceTold`: outside the PIE, `CNX_STATUS` is the last state announced on
  this connection. The exception in it is `state server` (and any word without a
  status), which is announced and not kept.
* `LossNoticed`, `ConsoleServed`, `HandshakeEnds`: see fairness.
* `ProtocolSpec`: the state of `Protocol` is a function of the session's; each step
  of the session is a step of `Protocol` or none. That nsc is `online` with its
  `ext_user_log` unconfirmed takes a line that was read cut.
* `RememberedIsCounted`, `OwedIsCounted`, `ExactIsNamed`: no counter goes below
  zero; what is owed is counted unless raw requests are sent; when the counters
  are exact and one command only is waiting, it is the one remembered.
* `StaticsAgree`: `r_len` is the length of `cequireste` at every call, and both are
  empty, with the line under way, while nothing reads.
* `PingDue`: a connection that gives nothing is sent a ping before the delay and
  one timeout have passed, however signals cut the timeouts, where `select` leaves
  its timeout alone (`KEPT`). The seconds in selects that a key ended are left out,
  since nsc does not count them: for somebody who types once a minute the ping is
  never due.
* `LinesSpec`, `WatchSpec`: `Loop` implements `Lines` and `Watch`.
* `TextKept`: what is shown is what was typed, as far as `printf_cl` shows it, if one
  blank was typed at each place and no backslash; `RightPerson`: it is shown by the one the line or the
  query was for; `LinesApart`: two messages are shown as one only if the first
  did not fit; `Survives`: no single message kills the nsc that reads it by what is
  in it, if the server marks its end; `ConversationEnds`: once the users stop, only those who
  answer by themselves still write to each other.
* `RoundTrip`, `CutIsLess`: a save and a load give the configuration back, except
  items not set, which become the text `(null)`, and a second entry for somebody
  ignored that has no message, which is gone (`Once`); a save cut anywhere gives a
  part of that, and only its last line, cut behind `ignore `, can be one that nsc
  dies of (`Endured` is the file without it).
* `SavedIsReadable`: nsc does not write, whole, a file that it dies of.
* `RewriteKeeps`: libnscutil's order of the lines changes nothing for nsc, in a file
  whose lines are as nsc writes them. Of the others it does: see section 6.
* `CursorsRest`: no walk leaves its static in the middle of a list, where a removal
  may free the cell under it; `CellsListed`: each allocated cell is in one list;
  `BracesFit`: the list between braces fits in what was allocated, if there is
  a name in it; `RosterSpec`: every list shown and every completion is right, whatever
  came before.
* `OneOwner`, `OthersKept`: no string of a `value` is shared, forgotten or deleted
  twice; `AssignedIsEqual`: an assignment gives what `==` calls equal; `Ordered`:
  `<` is a strict weak order unless a text is blank.

Bounds. Two descriptors and three connections are the least with which a second
socket is opened, the first is still watched, and a third connection reuses a
number; a connection not referred to is recycled, so that runs are unbounded in
time. Two lines buffered (one in `Live`) with one more begun are enough for
every way `nsc_recv_data` finds more data. With `SENDPING` 0 every timeout sends a
ping, the most there can be; which of them do is the matter of `Loop`, where it
is 3 seconds. In `Replies` four requests allow two of each
kind in any order.

In `Loop`, reads of two bytes (`TAILLE_READ`, 128 in the code) out of three ahead
(`MaxAhead`) give a line in one read, over two, and two newlines in one; one
letter is enough, since bytes of two sources are told apart by what `Lines` has
left for each. `quiet` stops at `SENDPING + SELECTSEC + MaxUnseen`, which `PingDue`
says is not reached; `MaxUnseen` bounds the seconds in selects that a key ended, and
2 of them take `quiet` past every delay. In `Talk`, `LineMax` stands for 2046 characters: one of the texts
fits to the last of its five symbols, one is cut, one is cut inside an escape.
`ShowMax` stands for 1022 less what is in front of the text: some of the texts are
shown whole, others cut.
Two messages on their way (`MaxInFlight`, for the keyboard only: answers always
pass) are what it takes to join two. One user types anything, the other is
polite, so that the first one's lines can be blamed. In `Nscrc` the files hold
each kind of line twice over, lines without a value, ports that are none, a
line behind `EOC`, and each kind of line that the two programs read differently; `MaxUnsaved` and `MaxList` bound the commands between saves
and the entries they may add, not what a file may hold.

In `Contacts`, three cells make a list with a first, a middle and a last one, or two
lists; the names differ in more than their case, one begins with the other, and
each text fits a name, a status, a command, several or none. In `Value`, three
objects are what transitivity needs; the texts are a blank one, one that is no
number, 0, and 5 written in two ways.

Symmetry of the connections is used in `TwoSockets`, that of the cells in
`Contacts`: neither has a liveness property.

The build. `configure.ac` compares the value of `--disable-auto-connect` with
`disable` and gets `no`: automatic connection can only be turned off by
`--enable-auto-connect=disable`. `TwoSockets` and the violation runs have the
default build; `Live` has it turned off, which gives the user's `connect` more
room.

## 4. Fairness

`ProgramFairness` is weak fairness of the program's own steps: it has one
thread, and what is enabled stays so until it is done. No fairness is given to
timeouts and signals, to a failing `select`, to the user or to the server's
talk. `ServerFairness`: a server greets, answers and ends the lines it begins;
it may close at any time, and `LossNoticed` does not need it to do anything.

`ConsoleServed` is stated for servers that do not talk for ever
(`<>[][no ServerSays]`), because `nsc_recv_data` does not return while it has read
a part of the next line: a server whose writes never end with the buffer would
keep it reading. This is a property of the code, not of the model. `Live` is the
build without automatic connection; in the default build `main_lc` retries
until a server answers and `ConsoleServed` would need one that does.

In `Talk` the server relays what was written (weak fairness of taking from
`wire`) and each nsc reads what was relayed (of taking from `down`); no other
action takes from them, and nothing is asked of the users. `ConversationEnds` is
stated for users who leave the keyboard.

## 5. Proofs

`SessionProofs` proves `Spec => []IInv` for every set of connections and
descriptors, every bound, build, configuration file, server and user, and from
it `TypeOK`, `WatchedAreOpen`, `ResidueDrained`, `HandshakeInOrder`,
`OwnChallenge` and, when `INTERNE` is false, `PresenceTold`. The assumptions
are those named in `Session`: `NoConn` is no connection, descriptors are
positive numbers, flags are Booleans, times are naturals.

The properties are not inductive one by one. `HandshakeInOrder` at a lost
connection needs `WatchedAreOpen` (the descriptor in use is open, so that `cur`
is a connection) and `OneDescriptor` (no other descriptor leads to it, so that
closing one closes one). `OwnChallenge` at the answer to `auth_ag` needs
`ChallengeAtHand`: while `CNX_STATUS` is `NOT_AUTH`, the global challenge is the
one of the connection in use or NULL. That in turn needs `PlaceFits`:
`main_lc` gets to `nsc_connect_socket` only from `NOT_CONNECTED`. `StatusSet`
says that `STATUS_AUTH_SENT` and `STATUS_CONNECTION` are never reached, which
leaves one order of lines. `HalfBegun` ties the beginning of a line in the
reader's buffer to the rest of it still to come, and gives `ResidueDrained` and
the type of what `RecvCut` returns. `IInv` is their conjunction; `Core` in the
proofs is the part of it that reading bytes does not touch, so that each action
is shown once for `Core` and the reader's part is a lemma of its own
(`BytesLemma`). The steps that many actions share (`main_cc`, a write with its
three outcomes, the end of a turn) are lemmas cited by each.

`RepliesProofs` proves `TypeOK`, `RememberedIsCounted` and `OwedIsCounted`
together (`InvReplies`): that a counter is natural after a decrement is
`RememberedIsCounted`, and that what is owed stays counted is that an end takes
one request from the server's queue and at most one from the counters.
`ExactIsNamed` needs more, because it speaks of the moment when one request is
waiting, while what was remembered was decided as long ago as the last request:
`IInv` adds, for every state, that the last of those waiting (raw ones aside, `Latest`)
is the one remembered, or that nothing is remembered and its counter is at zero
(`LatestIsNamed`), and that nothing is owed without a connection.

`SessionProofs` also proves (`Implements`) that `Session` implements `Protocol` when
`INTERNE` is false: each step of the session is a step of the abstract
handshake or leaves its state alone. It is one case per action from
`IInv` and two more invariants. `ServerHeard` says that `heard` agrees with the place of
the server. `Earned` says why nsc is not ahead of it: while the handshake is under way,
unless a line was cut or the server has sent all its lines, nsc has said no more than
it has heard, and there is at most one line on its way to it, a refusal or one that is
not answered yet (`InStep`). So the line that `HelloLine`, `AuthLine` or `AttachLine` takes is the
one that `Answer` waits for. `nsc_connect_socket` is `Open` since `PlaceFits` has it run
from `NOT_CONNECTED` only, a state word is `Announce` whatever the handshake has reached,
and a death, or a write that fails, is `Drop`. An internal client, which begins
logged in, is no client of `Protocol`.

`LoopProofs` proves, for reads and lines of any length and any number of sockets,
that `Loop` implements `Lines` (`ReadsLines`), `StaticsAgree`, and, when `KEPT`,
`PingDue`. The invariant of the reader, `ReadInv`, adds to `StaticsAgree` that
`nsc_recv_data` runs for a connection only, that a line handed on leaves nothing
of it in `str`, and that `~/.nscrc` is read to its end before it is closed. The
steps that do not read find the statics empty and leave them so (`Idle`), which
makes what is still to be handed on the kernel's streams; a turn is `TurnLemma`,
which rests on lemmas about cutting a text at its first newline (`CutText`).
`PingDue` follows from `quiet <= secondes + unseen`: the counter, never reset, is behind
by no more than what it never saw.

It also proves that `Loop` implements `Watch` (`Serves`), for any number of
descriptors, and `TypeOK` (`Typed`). `ListInv` is about the two linked lists: a
descriptor is in each at most once, the terminal is the last one watched, since it was
added first, and the first one ready, since the loop over the one prepends to the
other; a list keeps this when one is added, taken out or served. What the loop
finds ready is shown by induction over the list (`ReadyFold`).

`TalkProofs` proves, for any users, any texts they type, any messages they answer with
and lines of any length, `RightPerson` and `LinesApart`; where the server marks the
end of a message (`DST`), `TextKept` and `Survives`; and `TypeOK`. The invariant has
four parts. `Users`: a query is one word, and it is the one `chosen` names if it
names one. `Writes`: what is on its way to the server fits in a line; if it ends in a
newline it is all of a message, and if it does not, the message is known not to have
fitted. `Messages`: of those joined into one that was relayed, all but the last did not
fit; one that was not joined was meant for the user who gets it, and is the text,
encoded, with what the server puts behind it. `Screens`: the properties, which
are about what has been shown and say nothing of what is still to come. A text that fits
is shown up to `ShowMax`; one that was cut says so in what goes beside it. Below this are the facts about the codec, each an
induction over the text: what is encoded has no blank and no newline (`NoLine`, `UrlPlain`,
`BackShape`), decoding gives back the text if there was no backslash in it
(`UrlUndone`, `BackUndone`), and any text with `dst=` behind it is decoded to
one where the end of the message is found (`ReadEnded`); and the offsets of the console (`WordIs`, `RestIs`, `MsgIs`, `TypedIs`).
The assumptions of `Talk` are that names of users are words without a blank
in them and what is typed are naturals, users and texts; `DST` is
assumed in two theorems because the run `NoDst` refutes `Survives` without it.

`NscrcProofs` proves, for any items, names, texts, files and lists of any length,
`TypeOK`, `SavedIsReadable`, `RoundTrip`, `CutIsLess` and `RewriteKeeps`. `IInv` adds
to `TypeOK` that no contact is in the list twice (`Listed`): a load adds entries one by
one and refuses what is there already, so that a list with doubles would be
shorter after it. The list to ignore may have some, and a load makes `Once` of it, which
`OnceStep` gives one entry at a time. `RoundTrip` is an
induction over the lines saved: after the first n of them what was read is `Reached`,
the items and flags among them and the beginnings of both lists. `CutIsLess` is the same
induction stopped at n, and one more line of which a part is read (`PartLess`). For
`RewriteKeeps` each component of the configuration depends on the lines of its keys and
their order only (`ReadOf`); libnscutil keeps these (`WrittenAgain`), as the keys of
`Order` are distinct and all that nsc reads are among them, and as it changes no line
that has no blanks of its own (`Tidy`).

`Recursion` is what these inductions rest on. The theorems on induction in the
library of TLAPS take an operator as a parameter, which its provers do not instantiate;
stated for a set that has 0 and with each number the next (`NatAll`), or the empty
sequence and with each sequence all that are longer by one (`SeqAll`), they
can be used. `FoldMore` and its like give the equations of a fold.

`ValueProofs` proves for any number of objects, any texts, whatever the library makes
of those that are no number, that `Value` keeps `OneOwner`, `Ordered`, `OthersKept`
and `AssignedIsEqual`. Every accessor and assignment is one of three things: the
object drops what it has for a number or a pointer (`Drop`), is given a new string
(`New`), or writes into the one it has (`Write`); each is shown once to keep the
invariant `Sound` and all other objects. The order is shown on contents by what
`<` compares (`LessIs`) and by when it does not decide (`TiesAre`), from
`OrderAssumption`: strings are in a strict total order.

`ContactsProofs` proves, for any names, any number of cells, any states and commands,
`TypeOK`, `CursorsRest`, `CellsListed` and `BracesFit`, and that `Contacts` implements
`Roster` (`Implements`). The pointers are a recursion over cells; what makes it
possible to reason about them is `Linked`: a sequence of distinct cells, the head
first, each leading to the next and the last one to NULL. Such a sequence is what
`Chain` finds (`ChainIs`), and each operation on the cells is one on sequences: an addition
puts a new cell at the end (`AddIs`), `virer_liste` takes one out (`RemIs`), the loop
of `rem_contact` takes out all of a name, one after the other, by induction over
what it has found (`RemAll`), a flush leaves the other list as it was (`FlushIs`). `TypeInv`
then says that the heap is two such sequences which share no cell and together are what
is allocated (`Heap`, `Sound`): without the first half, a removal from one list
could cut the other. `OnList` and `OnArray` say where a walk is: its cursor is on the
k-th cell and what it has found is `Only` those of the first k names that fit, which
is the whole list when the cursor comes back to NULL. `AtRest` says that no cursor but
that of the walk under way is set, so that no removal finds one on the cell it frees, and
that the states are tried when no name has fitted, as `Roster` does at once. The
refinement is one case per action (`RosterStep`): what changes the lists is a step of
`Roster`, each call within a walk is none, the last one shows the list or offers the choice.
`NullAssumption` is that NULL is no cell, and is what stands for no message;
`WordAssumption`, that what is typed and what the arrays hold is made of characters that
`my_tolower` knows.

Only model-checked: the liveness properties `LossNoticed`, `ConsoleServed`,
`HandshakeEnds` and `ConversationEnds`, because liveness under fairness is out of the
prover's reach. Every other property of the runs that pass is stated by a theorem. `PresenceTold`, `ProtocolSpec`, `PingDue`,
`TextKept` and `Survives` are proved under the conditions named above, which
the runs that check them satisfy. The violations are TLC's counterexamples.

## 6. What does not agree

With a run:

* `connect` before the greeting opens a second socket (`SecondSocket`):
  `nsc_main.c:47` tests a status that is still `STATUS_NOT_CONNECTED`.
* `away` during the handshake ends it (`EarlyAway`): `nsc_commands.c:217-225`.
* The end of one command is printed as the end of another (`EndOfWhat`):
  `nsc_parser_misc.c:212`.
* A message without `dst=` ends the nsc that reads it (`NoDst`):
  `nsc_parser_misc.c:88`, although line 56 shows such a message.

Seen while modelling, without a run:

* An internal user's state is not told: `nsc_network.c:62` writes before line 99
  sets the descriptor. With `INTERNE` true in `Live.cfg`, TLC finds
  `PresenceTold` violated after one connection.
* `attach` is never sent: `nsc_connect.c:62` sets `STATUS_ATTACH_SENT` where
  `ext_user_log` is sent (`netsoul_spec.txt:165-172`).
* An answer of the server that a signal or the end of the stream cuts, an error too,
  counts as a confirmation (`nsc_parser_hello.c:52` compares one byte less than there
  is, none of a line of one): nsc is then logged in for itself and not for the server.
  `Protocol` has this as `broken`.
* With no connection `CNX_CLIENT_FD` is 0 and `raw`, `msg`, `state` and the others
  write to the terminal (`nsc_commands.c:129`); a `state` typed offline makes
  `connect` refuse (`nsc_main.c:47`) until `deco`.
* `reload_conf` frees the challenge and the query with the configuration
  (`nsc_conf.c:261-262`), although `nsc_conf.h` keeps them apart as data of the
  connection.
* A name that does not resolve ends the process (`nsc_network.c:38`), automatic
  reconnection or not.
* `secondes` is never reset (`nsc_parser_ping.c`): once past the delay, every
  timeout sends a ping, not one per `--with-ping-delay` seconds; and what is added
  is what `select` leaves of its timeout, which on Linux is 0 after one: no
  keepalive is then sent at all. With `KEPT` false in `Loop.cfg`, TLC finds
  `PingDue` violated. Nor does it count the time of a select that a key has ended
  (`nsc_main.c:126-161`): whoever types once a minute has no ping sent.
* "Saving configuration done." is printed whatever was written
  (`nsc_conf.c:459`).
* An `ignore` followed by a blank and nothing else, in the file or typed, takes
  the length of a NULL (`nsc_contact.c:61`). nsc never writes such a line whole
  (`SavedIsReadable`), but a save that the disk cuts behind `ignore ` is one, and
  nsc then dies at each start.
* Ignoring somebody again with a blank behind his name, which readline's completion
  puts there, lists him a second time without a message (`nsc_contact.c:56`); the
  next load drops that one.
* The buffer for the answer to somebody ignored is allocated one byte short
  (`nsc_parser_misc.c:70`), those of the auto-responder are not (lines 96 and 104).
* A message of more than about 1000 characters is sent whole and shown in part
  (`nsc_user.c:250,261`), without its newline.
* A message that `writebuffer` cuts inside an escape, with the next one joined to
  it, is a text `ns_decode` gives up: the nsc it is relayed to dies
  (`nsc_parser_misc.c:80`). `Survives` leaves messages that were joined out.
* Blanks in front of `msg` or `query` shift the argument by as many characters
  (`nsc_user.c:155`): the message goes to somebody whose name is the end of the
  command. `RightPerson` is stated for commands at the beginning of the line.
* Two users who are both away, or one away and one who has him ignored with a
  message, write to each other for ever (`nsc_parser_misc.c:93-108`).
* A backslash typed is not doubled (`nsc_code.c:100`): `\n` arrives as a newline,
  and before another character it gives whatever stood there in the buffer.
* A status is completed only once it has been typed to its end, and what was typed
  behind it is taken away: `nsc_user.c:93` compares as many characters as the status
  has, where the other completions count those of the text.
* For an empty list `build_accolades_contact_list` writes `{}` and its NUL into two
  bytes (`nsc_contact.c:245-262`).
* `flush_ignore_list` forgets the messages of those ignored, which `rem_ignore` frees.
* A `value` that is a pointer and is assigned to itself becomes 0
  (`nscutil_value.cc:149`); that of a blank text, as a number, is whatever was on
  the stack (line 57).
* libnscutil distinguishes the case of keys and nsc does not: lines `Port` and
  `port` change places when it rewrites the file, and another one counts. It skips
  blanks that nsc looks at: a line that nsc overlooks for the blank in front of it
  becomes valid, and of `ignore  bob` nsc makes bob with the message `b` before,
  without one after. And it writes a blank behind a key that had none: a line
  `ignore`, which nsc overlooks, becomes the one it dies of.
* A signal that comes while `nsc_recv_data` waits for the rest of a line makes a
  line of what was read; before anything was, it closes the connection
  (`get_next_line.c:85`).

## 7. Not modelled, and what is left

* The access to libnscutil's multimap by key (`nscutil_conf.cc:20-54`): it is the
  standard library's. No program of the repository links libnscutil; the file it
  shares with nsc is in `Nscrc`, its values are in `Value`.
* MD5 and the line it is in (`nsc_auth.c`), the printing of logins, states and
  lists, prompt and redrawing (`nsc_user.c`): no state that the rest depends on.
* `rem_contact` and `rem_ignore` without a name, which follow a NULL if the list has
  an entry: among the deaths of `Nscrc`, not in `Contacts`. `vider_liste`, which is
  never called.
* The string helpers but for the two whose results are offsets and the comparison
  that completion uses; `malloc` that fails.
* The build files: only the four constants they decide.

Worth doing next: the string helpers of `my_functions.c` by what they do to their
buffers.
