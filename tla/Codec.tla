------------------------------- MODULE Codec -------------------------------
(***************************************************************************)
(* nsc_code.c: how a text is written on a line of the protocol and read    *)
(* from one.  A text is a sequence of characters; the pair of hexadecimal  *)
(* digits after a % is one symbol, and so is any word of letters.          *)
(***************************************************************************)
EXTENDS Integers, SequencesExt

\* The characters that are no letters or digits, with their code.
Special == {" ", "\\", "%", "=", "\n"}
Hex == [c \in Special |-> CASE c = " " -> "20" [] c = "\\" -> "5C"
          [] c = "%" -> "25" [] c = "=" -> "3D" [] c = "\n" -> "0A"]
Code(c) == <<"%", Hex[c]>>
CharOf(h) == CHOOSE c \in Special : Hex[c] = h

NULL == <<"null">>

\* The first of two digits alone, where a line was cut behind it, and the
\* character of that code.
Digit == "digit"

\* A newline becomes a backslash and an n; a backslash stays what it is.
ns_back_slash_encode(s) ==
  FlattenSeq([i \in DOMAIN s |-> IF s[i] = "\n" THEN <<"\\", "n">> ELSE <<s[i]>>])

\* (mutant: the % is not one of the characters that are encoded)
ns_url_encode_percent(s) ==
  FlattenSeq([i \in DOMAIN s |->
    IF s[i] \in Special \ {"%"} THEN Code(s[i]) ELSE <<s[i]>>])

ns_url_encode(s) ==
  FlattenSeq([i \in DOMAIN s |-> IF s[i] \in Special THEN Code(s[i]) ELSE <<s[i]>>])

ns_encode(s) == ns_url_encode(ns_back_slash_encode(s))

\* %% is a %; a % before no digit gives the text up.  sscanf would take a blank
\* and a digit too, and %00 end the text: ns_url_encode writes neither.  A loop
\* is a fold over the text: what is written, whether the character before was
\* one that escapes the next, and whether the text is given up.
Undecoded == [out |-> <<>>, esc |-> FALSE, gone |-> FALSE]

url_char(d, c) ==
  IF ~d.esc
  THEN IF c = "%" THEN [d EXCEPT !.esc = TRUE] ELSE [d EXCEPT !.out = Append(@, c)]
  ELSE IF c = "%" THEN [d EXCEPT !.out = Append(@, c), !.esc = FALSE]
  ELSE IF \E x \in Special : Hex[x] = c
  THEN [d EXCEPT !.out = Append(@, CharOf(c)), !.esc = FALSE]
  ELSE IF c = Digit THEN [d EXCEPT !.out = Append(@, c), !.esc = FALSE]
  ELSE [d EXCEPT !.esc = FALSE, !.gone = TRUE]

ns_url_decode(s) ==
  LET d == FoldLeft(url_char, Undecoded, s)
  IN  IF d.esc \/ d.gone THEN NULL ELSE d.out

\* The text s is written over itself, from its beginning.  Nothing is written
\* for a backslash before another character than n and backslash, or at the
\* end: what stands there already stays, though the place of writing goes on.
Stays(s, out) == Append(out, s[Len(out) + 1])

back_slash_char(s, d, c) ==
  IF ~d.esc
  THEN IF c = "\\" THEN [d EXCEPT !.esc = TRUE] ELSE [d EXCEPT !.out = Append(@, c)]
  ELSE [d EXCEPT !.esc = FALSE,
                 !.out = CASE c = "\\" -> Append(@, c)
                           [] c = "n" -> Append(@, "\n")
                           [] OTHER -> Append(Stays(s, @), c)]

ns_back_slash_decode(s) ==
  LET d == FoldLeft(LAMBDA e, c : back_slash_char(s, e, c), Undecoded, s)
  IN  IF d.esc THEN Stays(s, d.out) ELSE d.out

ns_decode(s) ==
  IF ns_url_decode(s) = NULL THEN NULL
                             ELSE ns_back_slash_decode(ns_url_decode(s))
=============================================================================
