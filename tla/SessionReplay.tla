---------------------------- MODULE SessionReplay ----------------------------
(***************************************************************************)
(* From the bytes of events.jsonl to a replay report: UTF-8 decoding,      *)
(* split('\n') and parseSessionLogLines of                                 *)
(* packages/core/src/session/replay.ts.                                    *)
(*                                                                         *)
(* Bytes are real byte values.  A string is a sequence of characters and a *)
(* character the sequence of its bytes.  An envelope is abstracted to its  *)
(* seq (a digit, its first byte), its text and a closing brace: what       *)
(* matters is that it survives only as a whole, alone on its line.         *)
(***************************************************************************)
EXTENDS SpineLog, Integers, SequencesExt

NL      == 10
Brace   == 125
Digit(n) == 48 + n
Digits  == 49 .. 57
(* U+FFFD, what decoding puts in the place of an ill-formed sequence.      *)
Replacement == <<239, 191, 189>>

Envelope(seq, text) ==
  <<Digit(seq)>> \o FlattenSeq(text) \o <<Brace, NL>>

-----------------------------------------------------------------------------
(* Buffer.toString('utf8'): each ill-formed maximal prefix of a character  *)
(* becomes one U+FFFD.                                                     *)
CharLen(lead) ==
  IF lead >= 240 THEN 4 ELSE IF lead >= 224 THEN 3 ELSE IF lead >= 192 THEN 2 ELSE 1
Continues(b) == b \in 128 .. 191

(* The bytes of one well-formed character.                                 *)
IsCharacter(c) ==
  /\ Len(c) \in 1 .. 4
  /\ ~Continues(c[1]) /\ CharLen(c[1]) = Len(c)
  /\ \A j \in 2 .. Len(c) : Continues(c[j])

(* How many of the bytes from i on belong to one character.                *)
RunAt(bytes, i) ==
  CHOOSE n \in 1 .. CharLen(bytes[i]) :
    /\ i + n - 1 <= Len(bytes)
    /\ \A j \in 1 .. (n - 1) : Continues(bytes[i + j])
    /\ \/ n = CharLen(bytes[i])
       \/ i + n > Len(bytes)
       \/ ~Continues(bytes[i + n])

CharAt(bytes, i) ==
  IF RunAt(bytes, i) = CharLen(bytes[i]) /\ ~Continues(bytes[i])
  THEN SubSeq(bytes, i, i + RunAt(bytes, i) - 1)
  ELSE Replacement

Decoded(bytes) ==
  LET from[i \in 1 .. (Len(bytes) + 1)] ==
        IF i > Len(bytes) THEN <<>>
        ELSE <<CharAt(bytes, i)>> \o from[i + RunAt(bytes, i)]
  IN from[1]

(* content.split('\n'): the last piece is what follows the last newline.   *)
PutChar(pieces, char) ==
  IF char = <<NL>> THEN Append(pieces, <<>>)
  ELSE [pieces EXCEPT ![Len(pieces)] = Append(@, char)]

Split(string) ==
  LET upTo[i \in 0 .. Len(string)] ==
        IF i = 0 THEN << <<>> >> ELSE PutChar(upTo[i - 1], string[i])
  IN upTo[Len(string)]

(* JSON.parse and the envelope schema on one line.                         *)
WellFormed(s) ==
  /\ Len(s) >= 2
  /\ \E d \in Digits : s[1] = <<d>>
  /\ s[Len(s)] = <<Brace>>
  /\ \A i \in 2 .. (Len(s) - 1) : s[i] # <<Brace>> /\ \A d \in Digits : s[i] # <<d>>

LineOf(s) ==
  IF s = <<>> THEN [text |-> "blank", seq |-> 0, body |-> <<>>]
  ELSE IF WellFormed(s)
       THEN [text |-> "json", seq |-> s[1][1] - 48, body |-> SubSeq(s, 2, Len(s) - 1)]
       ELSE [text |-> "garbled", seq |-> 0, body |-> <<>>]

LinesOf(strings) == [i \in 1 .. Len(strings) |-> LineOf(strings[i])]

-----------------------------------------------------------------------------
(* parseSessionLogLines continues from an expected seq and a line count.   *)
Start == [events |-> <<>>, issues |-> <<>>, expected |-> 1, lines |-> 0]

Issue(type, no, seq) == [type |-> type, line |-> no, seq |-> seq]

ParseLine(acc, line) ==
  LET no == acc.lines + 1
      counted == [acc EXCEPT !.lines = no]
      reported(type) == [counted EXCEPT !.issues = Append(@, Issue(type, no, line.seq))]
      kept(a) == [a EXCEPT !.events = Append(@, line), !.expected = line.seq + 1]
  IN CASE line.text = "blank"       -> counted
       [] line.text = "garbled"     -> reported("corrupt-line")
       [] line.text = "json" /\ line.seq = acc.expected -> kept(counted)
       [] line.text = "json" /\ line.seq < acc.expected -> reported("seq-duplicate")
       [] line.text = "json" /\ line.seq > acc.expected -> kept(reported("seq-gap"))

Parsed(lines, from) ==
  LET upTo[i \in 0 .. Len(lines)] ==
        IF i = 0 THEN from ELSE ParseLine(upTo[i - 1], lines[i])
  IN upTo[Len(lines)]

(* The lines that are not skipped as empty.                                *)
NonBlank(lines) ==
  LET upTo[i \in 0 .. Len(lines)] ==
        IF i = 0 THEN <<>>
        ELSE IF lines[i].text = "blank" THEN upTo[i - 1]
        ELSE Append(upTo[i - 1], lines[i])
  IN upTo[Len(lines)]

(* readSessionLog of a whole file.                                         *)
Report(bytes) == Parsed(LinesOf(Split(Decoded(bytes))), Start)
=============================================================================
