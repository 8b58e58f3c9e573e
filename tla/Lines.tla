------------------------------- MODULE Lines -------------------------------
(***************************************************************************)
(* What get_next_line promises: the bytes of each descriptor are handed on *)
(* as its lines, in order and each once, never with bytes of another       *)
(* descriptor.  A line may be cut, where the stream ends or read(2) is     *)
(* interrupted.  A socket may be closed with bytes unread, a file only     *)
(* once everything in it was handed on.                                    *)
(***************************************************************************)
EXTENDS Naturals, Sequences

CONSTANTS Source, File, Char, NL, Contents, None

VARIABLES
  todo,   \* the bytes of each source that are in no line handed on yet
  handed  \* <<source, line>>, or None

Init ==
  /\ \E text \in Contents :
       todo = [s \in Source |-> IF s = File THEN text ELSE <<>>]
  /\ handed = None

Forgotten == handed' \in {handed, None}

Arrive(s, c) ==
  /\ s # File
  /\ todo' = [todo EXCEPT ![s] = Append(@, c)]
  /\ Forgotten

Open(text) ==
  /\ todo[File] = <<>>
  /\ todo' = [todo EXCEPT ![File] = text]
  /\ Forgotten

\* The line that ends at the n-th byte, the first newline.
HandOn(s, n) ==
  /\ n \in DOMAIN todo[s] /\ todo[s][n] = NL
  /\ \A i \in 1 .. n - 1 : todo[s][i] # NL
  /\ handed' = <<s, SubSeq(todo[s], 1, n - 1)>>
  /\ todo' = [todo EXCEPT ![s] = SubSeq(@, n + 1, Len(@))]

Cut(s) ==
  /\ todo[s] # <<>> /\ \A i \in DOMAIN todo[s] : todo[s][i] # NL
  /\ handed' = <<s, todo[s]>>
  /\ todo' = [todo EXCEPT ![s] = <<>>]

Close(S) ==
  /\ File \in S => todo[File] = <<>>
  /\ todo' = [s \in Source |-> IF s \in S THEN <<>> ELSE todo[s]]
  /\ Forgotten

Next ==
  \/ \E s \in Source : \/ \E c \in Char : Arrive(s, c)
                       \/ \E n \in DOMAIN todo[s] : HandOn(s, n)
                       \/ Cut(s)
  \/ \E text \in Contents : Open(text)
  \/ \E S \in SUBSET Source : Close(S)

Spec == Init /\ [][Next]_<<todo, handed>>
=============================================================================
