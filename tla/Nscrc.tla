------------------------------- MODULE Nscrc -------------------------------
(***************************************************************************)
(* The configuration of nsc: what load, reload, save, the exit and the     *)
(* contact and ignore commands make of ~/.nscrc and of the copy of it in   *)
(* memory, and what libnscutil makes of the file.  Texts are values of a   *)
(* small set; the lines of the file are <<key, value, message>>, its       *)
(* comments and what neither program knows left out.                       *)
(***************************************************************************)
EXTENDS Integers, Sublist

CONSTANTS
  Always,    \* items saved even when they are not set: location, userdata;
             \* server, login and pass are like them, but no command sets them
  Optional,  \* items saved as a comment then: away_message, lock_message
  Flags,     \* showstatusonlist, showstatuschanges
  Names,     \* of contacts and of people ignored
  Texts,     \* values of items, messages for the ignored
  NULL,      \* the null pointer
  NullText,  \* what fprintf writes for it
  Handmade,  \* files that somebody else writes: an editor, another nsc
  Empty,     \* the text without characters, a name among others
  Shorter,   \* what can remain of a text that is cut, but its whole
  Order,     \* libnscutil: the keys in the order of std::string
  Odd,       \* lines written in another way: blanks in front or doubled,
             \* capitals in the key
  Seen,      \* what nsc takes each of them for
  Tidied,    \* what libnscutil makes of each
  Trim,      \* a value without the blanks in front of it
  TypedNames, \* what the user types of these; blanks are a name
  TypedTexts, \* and no text
  MaxList,   \* bound: entries of both lists
  MaxUnsaved \* bound: commands since the last load or save

Items == Always \cup Optional

ASSUME NullAssumption == NULL \notin Texts \cup Names /\ NullText \in Texts
\* A line of the file as it is looked at: what follows an item, the contact
\* or the ignored user and his message, which is Empty when only blanks
\* follow him, the number of a port.  A line cut before its key has none.
Line == (Items \X Texts \X {NULL}) \cup ({"port"} \X Int \X {NULL})
        \cup (Flags \X {NULL} \X {NULL}) \cup ({"contact"} \X Names \X {NULL})
        \cup ({"ignore"} \X Names \X (Texts \cup {NULL}))
        \cup ({"", "EOC"} \X {NULL} \X {NULL})

\* A line cut behind its key has nothing else, not even a blank.
Bare == {<<k>> : k \in Items \cup {"port", "contact", "ignore"}}

ASSUME ItemAssumption ==
  /\ Always \cap Optional = {} /\ Items \cap Flags = {}
  /\ (Items \cup Flags) \cap {"port", "contact", "ignore", "set", "", "EOC"} = {}
  /\ IsFiniteSet(Items) /\ IsFiniteSet(Flags)
ASSUME OddAssumption ==
  /\ Odd \cap (Line \cup Bare) = {}
  /\ Seen \in [Odd -> Line] /\ Tidied \in [Odd -> Line \cup Odd]
ASSUME TrimAssumption ==
  /\ DOMAIN Trim = Names \cup Texts
  /\ \A t \in Names : Trim[t] \in Names
  /\ \A t \in Texts : Trim[t] \in Texts
ASSUME HandmadeAssumption == Handmade \subseteq Seq(Line \cup Odd)
ASSUME OrderAssumption ==
  /\ Items \cup {"port", "contact", "ignore", "set"} \subseteq ToSet(Order)
  /\ Order \in Seq(STRING) /\ IsInjective(Order)
ASSUME EmptyAssumption == Empty \in Names /\ Empty \in Texts
ASSUME TypedAssumption ==
  TypedNames \subseteq Names /\ TypedTexts \subseteq Texts \ {Empty}
ASSUME ShorterAssumption ==
  /\ DOMAIN Shorter = Names \cup Texts
  /\ \A t \in Names : Shorter[t] \subseteq Names
  /\ \A t \in Texts : Shorter[t] \subseteq Texts
ASSUME BoundAssumption == MaxList \in Nat /\ MaxUnsaved \in Nat

VARIABLES
  pc,    \* "off", "on", or in nsc_save_configuration: "saving", "exiting"
  mem,   \* the configuration in memory
  file,  \* ~/.nscrc
  unsaved \* commands that have changed mem since it was loaded or saved

vars == <<pc, mem, file, unsaved>>

Entry == [name : Names \ {Empty}, message : (Texts \ {Empty}) \cup {NULL}]
Port == {v \in Nat : v < 65536} \* an unsigned short
Memory == [item : [Items -> Texts \cup {NULL}], port : Port,
           flag : SUBSET Flags, contacts : Seq(Names), ignores : Seq(Entry)]

-----------------------------------------------------------------------------
(* nsc_contact.c.  An entry is looked for by the whole text that was typed  *)
(* or read: a name with its message is never found.                        *)

add_contact(list, n) ==
  IF Contains(list, n) THEN list ELSE Append(list, n)

rem_contact(list, n) == Only(list, ToSet(list) \ {n})

\* A name followed by blanks is not found either: it is added without a
\* message, as the message of an entry is what follows these blanks.
Entered(n, msg) == [name |-> n, message |-> IF msg = Empty THEN NULL ELSE msg]

\* (mutant: a second entry for a name, in front)
add_ignore_first(list, n, msg) ==
  IF msg = NULL /\ \E i \in DOMAIN list : list[i].name = n
  THEN list
  ELSE <<Entered(n, msg)>> \o list

add_ignore(list, n, msg) ==
  IF msg = NULL /\ \E i \in DOMAIN list : list[i].name = n
  THEN list
  ELSE Append(list, Entered(n, msg))

\* str_to_first_word of a blank text is NULL, and its length is taken.
Deadly(line) == line[1] = "ignore" /\ line[2] = Empty

rem_ignore(list, n) == Only(list, {e \in ToSet(list) : e.name # n})

-----------------------------------------------------------------------------
nsc_free_configuration ==
  [item |-> [k \in Items |-> NULL], port |-> 0, flag |-> {},
   contacts |-> <<>>, ignores |-> <<>>]

\* (mutant: the port is read as it is written)
Read_wide(m, line) ==
  IF line[1] = "port" THEN [m EXCEPT !.port = line[2]] ELSE m

\* What one line read changes, if it is a line of nsc's.  The port is an
\* unsigned short.
Read(m, line) ==
  CASE line[1] \in Items -> [m EXCEPT !.item[line[1]] = line[2]]
    [] line[1] = "port" -> [m EXCEPT !.port = line[2] % 65536]
    [] line[1] \in Flags -> [m EXCEPT !.flag = @ \cup {line[1]}]
    [] line[1] = "contact" -> [m EXCEPT !.contacts = add_contact(@, line[2])]
    [] line[1] = "ignore" ->
         [m EXCEPT !.ignores = add_ignore(@, line[2], line[3])]
    [] OTHER -> m

\* nsc looks at the beginning of a line, in capitals or not, and for one
\* blank behind the key: of a bare key it takes no notice.
Sees(line) == CASE line \in Bare -> <<"", NULL, NULL>>
                [] line \in Odd -> Seen[line]
                [] OTHER -> line

nsc_load_configuration(lines) ==
  FoldLeft(Read, nsc_free_configuration, [i \in DOMAIN lines |-> Sees(lines[i])])

Text(v) == IF v = NULL THEN NullText ELSE v

\* The items and the flags in some fixed order.
nsc_save_configuration(m) ==
  LET keys == SetToSeq(Always \cup {k \in Optional : m.item[k] # NULL})
      flags == SetToSeq(m.flag)
  IN  [i \in DOMAIN keys |-> <<keys[i], Text(m.item[keys[i]]), NULL>>]
      \o << <<"port", m.port, NULL>> >>
      \o [i \in DOMAIN flags |-> <<flags[i], NULL, NULL>>]
      \o [i \in DOMAIN m.contacts |-> <<"contact", m.contacts[i], NULL>>]
      \o [i \in DOMAIN m.ignores |->
            <<"ignore", m.ignores[i].name, m.ignores[i].message>>]

\* What fprintf has buffered is written when the file is closed, and nobody
\* looks at the result: on a full disk, some of it, up to any character.
LessPort(line) ==
  {<<"port", line[2] \div d, NULL>> : d \in {10, 100, 1000, 10000, 100000}}
LessText(line) == {<<line[1], t, NULL>> : t \in Shorter[line[2]]}
LessNote(line) ==
  {<<line[1], line[2], t>> : t \in Shorter[line[3]] \cup {NULL}}

Begun(line) ==
  {<<"", NULL, NULL>>} \cup ({<<line[1]>>} \cap Bare)
  \cup (CASE line[1] = "port" -> LessPort(line)
          [] line[1] = "ignore" /\ line[3] # NULL -> LessNote(line) \cup LessText(line)
          [] line[1] \in Flags -> {}
          [] OTHER -> LessText(line))

Cuttings(lines) ==
  {SubSeq(lines, 1, n) : n \in 0 .. Len(lines)}
  \cup UNION {{Append(SubSeq(lines, 1, n - 1), b) : b \in Begun(lines[n])} :
               n \in DOMAIN lines}

-----------------------------------------------------------------------------
(* nscutil_conf.cc.  A multimap holds the values of a key in the order they *)
(* were read, and is written key by key and ended by a line EOC.  Blanks in *)
(* front of a line and of its value are skipped, and one is written.        *)

EOC == <<"EOC", NULL, NULL>>
Key(line) == IF line[1] \in Flags THEN "set" ELSE line[1]

UpToEOC(lines) ==
  LET n == SelectInSeq(lines, LAMBDA l : l = EOC)
  IN  IF n = 0 THEN lines ELSE SubSeq(lines, 1, n - 1)

Values(all, k) == Only(all, {l \in ToSet(all) : Key(l) = k})

Tidy(line) ==
  IF line \in Bare THEN <<line[1], IF line[1] = "port" THEN 0 ELSE Empty, NULL>>
  ELSE IF line \in Odd THEN Tidied[line]
  ELSE IF line[1] \in Items \cup {"contact"} THEN <<line[1], Trim[line[2]], NULL>>
  ELSE line

conf_read(lines) ==
  LET all == UpToEOC([i \in DOMAIN lines |-> Tidy(lines[i])])
  IN  [i \in DOMAIN Order |-> Values(all, Order[i])]

\* (mutant: one value for a key, as in a map)
conf_write_one(data) ==
  FlattenSeq([i \in DOMAIN data |->
                IF data[i] = <<>> THEN <<>> ELSE <<Head(data[i])>>]) \o <<EOC>>

conf_write(data) == Append(FlattenSeq(data), EOC)

-----------------------------------------------------------------------------
Init ==
  /\ pc = "off"
  /\ mem = nsc_free_configuration
  /\ file \in Handmade
  /\ unsaved = 0

Readable(lines) == \A i \in DOMAIN lines : ~Deadly(Sees(lines[i]))

\* Otherwise it dies, and the next start will too.
Start ==
  /\ pc = "off" /\ Readable(file)
  /\ pc' = "on"
  /\ mem' = nsc_load_configuration(file)
  /\ UNCHANGED <<file, unsaved>>

Ends == pc' = "off" /\ mem' = nsc_free_configuration /\ unsaved' = 0

Changes(m) ==
  /\ pc = "on" /\ unsaved < MaxUnsaved
  /\ mem' = m
  /\ unsaved' = unsaved + 1
  /\ UNCHANGED <<pc, file>>

cmd_reload_config ==
  /\ pc = "on"
  /\ IF Readable(file)
     THEN mem' = nsc_load_configuration(file) /\ unsaved' = 0 /\ UNCHANGED pc
     ELSE Ends
  /\ UNCHANGED file

cmd_add_contact(n) ==
  /\ Len(mem.contacts) + Len(mem.ignores) < MaxList
  /\ Changes([mem EXCEPT !.contacts = add_contact(@, n)])

cmd_rem_contact(n) ==
  Changes([mem EXCEPT !.contacts = rem_contact(@, n)])

\* (mutant: an entry without a name)
cmd_add_ignore_any(n, msg) ==
  /\ Len(mem.contacts) + Len(mem.ignores) < MaxList
  /\ Changes([mem EXCEPT !.ignores = add_ignore(@, n, msg)])

cmd_add_ignore(n, msg) ==
  /\ n # Empty
  /\ Len(mem.contacts) + Len(mem.ignores) < MaxList
  /\ Changes([mem EXCEPT !.ignores = add_ignore(@, n, msg)])

cmd_rem_ignore(n) ==
  Changes([mem EXCEPT !.ignores = rem_ignore(@, n)])

\* cmd_location and cmd_userdata.
cmd_item(k, t) == Changes([mem EXCEPT !.item[k] = t])

\* nsc_save_configuration begins with fopen, which empties the file ...
Save(then) ==
  /\ pc = "on"
  /\ pc' = then
  /\ file' = <<>>
  /\ UNCHANGED <<mem, unsaved>>

\* ... or fails, and the exit goes on.
SaveFails(then) ==
  /\ pc = "on"
  /\ IF then = "saving" THEN UNCHANGED <<pc, mem, unsaved>> ELSE Ends
  /\ UNCHANGED file

Saved ==
  /\ pc \in {"saving", "exiting"}
  /\ file' \in Cuttings(nsc_save_configuration(mem))
  /\ IF pc = "saving" THEN pc' = "on" /\ unsaved' = 0 /\ UNCHANGED mem
     ELSE Ends

\* The process dies without saving, or before it has written what it saves:
\* a signal, resolv, ignore and nothing but blanks, rem_contact without a name,
\* a text ns_decode gives up, ..
Killed ==
  /\ pc # "off"
  /\ Ends
  /\ UNCHANGED file

\* Somebody else writes the file, not between its opening and its closing.
Edited ==
  /\ pc \in {"off", "on"}
  /\ file' \in Handmade
  /\ UNCHANGED <<pc, mem, unsaved>>

\* A program with libnscutil reads and writes the file.
Rewritten ==
  /\ pc \in {"off", "on"}
  /\ file' = conf_write(conf_read(file))
  /\ UNCHANGED <<pc, mem, unsaved>>

Next ==
  \/ Start
  \/ cmd_reload_config
  \/ \E n \in TypedNames :
       \/ cmd_add_contact(n)
       \/ \E msg \in TypedTexts \cup {NULL, Empty} : cmd_add_ignore(n, msg)
  \/ \E n \in Names : cmd_rem_contact(n) \/ cmd_rem_ignore(n)
  \/ \E k \in Always, t \in TypedTexts : cmd_item(k, t)
  \/ \E then \in {"saving", "exiting"} : Save(then) \/ SaveFails(then)
  \/ Saved
  \/ Killed
  \/ Edited
  \/ Rewritten

Spec == Init /\ [][Next]_vars

-----------------------------------------------------------------------------
TypeOK ==
  /\ pc \in {"off", "on", "saving", "exiting"}
  /\ mem \in Memory
  /\ file \in Seq(Line \cup Bare \cup Odd)
  /\ unsaved \in 0 .. MaxUnsaved

\* What saving makes of an item that is not set.
Written(m) == [m EXCEPT !.item = [k \in Items |->
  IF k \in Always THEN Text(m.item[k]) ELSE m.item[k]]]

\* A list without the entries that have no message and a name which stands
\* before them.
Once(list) ==
  LET kept == {i \in DOMAIN list : \/ list[i].message # NULL
                                   \/ \A j \in 1 .. i - 1 : list[j].name # list[i].name}
      at == Only([i \in DOMAIN list |-> i], kept)
  IN  [k \in DOMAIN at |-> list[at[k]]]

(* What is saved is what the next start reads: nothing a user can type, or  *)
(* write in the file, is changed or forgotten by the way through it, with   *)
(* two exceptions: an item which is not set becomes the text "(null)", and  *)
(* who is ignored a second time, without a message, is ignored once.        *)
RoundTrip ==
  nsc_load_configuration(nsc_save_configuration(mem))
    = [Written(mem) EXCEPT !.ignores = Once(@)]

Almost(part, list) == part = <<>> \/ IsPrefix(Front(part), list)

\* Without a last line that nsc dies of.
Endured(lines) ==
  IF lines # <<>> /\ Deadly(Sees(Last(lines))) THEN Front(lines) ELSE lines

(* A save that is cut short, anywhere in a line, leaves less: what the next *)
(* start reads of the lists begins like what it would read of all, with one *)
(* entry perhaps cut, and an item has its value, a part of it, or none.  No *)
(* line but the last, cut behind the word ignore, keeps nsc from starting.  *)
CutIsLess ==
  \A f \in Cuttings(nsc_save_configuration(mem)) :
    LET m == nsc_load_configuration(Endured(f))
    IN  /\ Readable(Endured(f))
        /\ Almost(m.contacts, mem.contacts)
        /\ Almost(m.ignores, Once(mem.ignores))
        /\ m.flag \subseteq mem.flag
        /\ \A k \in Items : LET t == Written(mem).item[k]
                           IN  \/ m.item[k] \in {NULL, t}
                               \/ t # NULL /\ m.item[k] \in Shorter[t]

(* What is saved whole can be read: whatever was typed or written into the  *)
(* file by hand, nsc does not leave a file it dies of at each start         *)
(* (nsc_contact.c:61).  A save cut behind the word ignore is such a file.   *)
SavedIsReadable == Readable(nsc_save_configuration(mem))

(* libnscutil changes nothing for nsc when it writes again a file whose     *)
(* lines have no blanks and no capitals of their own: the order of the      *)
(* values of each key is kept and decides (nscutil_conf.cc:56-93), provided *)
(* that nothing follows its own EOC.                                        *)
RewriteKeeps ==
  /\ \A i \in DOMAIN file : file[i] \notin Odd /\ Tidy(file[i]) = file[i]
  /\ ~(\E i \in DOMAIN file : file[i] = EOC /\ i < Len(file))
  => nsc_load_configuration(conf_write(conf_read(file)))
       = nsc_load_configuration(file)

=============================================================================
