----------------------------- MODULE ReplayCache -----------------------------
(***************************************************************************)
(* SessionLogCache (packages/core/src/session/replayCache.ts): the parsed  *)
(* prefix of one session's events.jsonl, extended by the readers of the    *)
(* spine mirror while a writer appends to the file.                        *)
(*                                                                         *)
(* A read is three steps with an await between them: the entry is fetched, *)
(* the file is stat'ed, the bytes are read; what follows the last await    *)
(* runs at once.  The writer's lines arrive in pieces, and a crash leaves  *)
(* a piece without the rest, to which the next writer's line is glued.     *)
(* The file only grows (nothing in the program rewrites it), so mtime,     *)
(* which guards against replacement, is left out; so is the file that does *)
(* not exist yet, whose report is that of an empty one.                    *)
(***************************************************************************)
EXTENDS SessionReplay

CONSTANTS
  Reader,    \* the reads that may be under way at once
  LineTexts, \* the texts an event may carry
  MaxSeq,    \* bound: the seqs a writer may use
  MaxLines,  \* bound: how many lines writers start
  Faults     \* what may happen to the file, see Hazards

(* "midchar" a crash may cut a character in two                            *)
(* "midline" a cold read may meet a last line that is not complete         *)
(* "widecut" a stat may fall inside a character of three or four bytes     *)
Hazards == {"midchar", "midline", "widecut"}

ASSUME MaxSeqAssumption == MaxSeq \in 1 .. 9
ASSUME MaxLinesAssumption == MaxLines \in Nat
(* A writer's JSON.stringify is written as UTF-8.                          *)
ASSUME TextsAssumption ==
  \A text \in LineTexts :
    text \in Seq(Seq(0 .. 255)) /\ \A i \in 1 .. Len(text) : IsCharacter(text[i])
ASSUME FaultsAssumption == Faults \subseteq Hazards

VARIABLES
  file,     \* the bytes of events.jsonl
  writing,  \* what is left to write of the line under way
  started,  \* how many lines were started
  entry,    \* the cache's entry for the file, None before the first read
  reads,    \* where each read is
  report    \* what the last read to end returned, and the bytes it covers

vars == <<file, writing, started, entry, reads, report>>

None == [byteSize |-> 0, parsed |-> Start, partial |-> <<>>, cached |-> FALSE]
Entry(size, parsed, partial) ==
  [byteSize |-> size, parsed |-> parsed, partial |-> partial, cached |-> TRUE]

Idle == [at |-> "idle", cached |-> None, size |-> 0]

Init ==
  /\ file = <<>> /\ writing = <<>> /\ started = 0
  /\ entry = None
  /\ reads = [r \in Reader |-> Idle]
  /\ report = [parsed |-> Start, covers |-> 0]

-----------------------------------------------------------------------------
(*                               The writer                                *)

StartLine ==
  /\ writing = <<>> /\ started < MaxLines
  /\ started' = started + 1
  /\ \E n \in 1 .. MaxSeq, text \in LineTexts : writing' = Envelope(n, text)
  /\ UNCHANGED <<file, entry, reads, report>>

WriteSome ==
  /\ \E k \in 1 .. Len(writing) :
       /\ file' = file \o SubSeq(writing, 1, k)
       /\ writing' = SubSeq(writing, k + 1, Len(writing))
  /\ UNCHANGED <<started, entry, reads, report>>

CrashMidLine ==
  /\ writing # <<>>
  /\ "midchar" \in Faults \/ ~Continues(writing[1])
  /\ writing' = <<>>
  /\ UNCHANGED <<file, started, entry, reads, report>>

-----------------------------------------------------------------------------
(*                               The cache                                 *)

(* utf8IncompleteTailBytes: walk back to the lead byte of the last         *)
(* character, at most four bytes, and say how many bytes to leave unread.  *)
IncompleteTail(bytes) ==
  LET n == Len(bytes)
      byte(back) == bytes[n - back + 1]
      stops == {back \in 1 .. n : back <= 4 /\ ~Continues(byte(back))}
      back == CHOOSE b \in stops : \A c \in stops : b <= c
      need == CharLen(byte(back))
  IN IF stops = {} \/ byte(back) < 128 \/ back >= need THEN 0 ELSE need - back

Fetch(r) ==
  /\ reads[r].at = "idle"
  /\ reads' = [reads EXCEPT ![r] = [Idle EXCEPT !.at = "stat", !.cached = entry]]
  /\ UNCHANGED <<file, writing, started, entry, report>>

Answer(r, parsed, covers) ==
  /\ reads' = [reads EXCEPT ![r] = Idle]
  /\ report' = [parsed |-> parsed, covers |-> covers]

(* The last character has three or four bytes and is not complete.         *)
InsideWide(bytes) ==
  \E i \in 1 .. Len(bytes) :
    /\ CharLen(bytes[i]) > 2
    /\ Len(bytes) - i + 1 < CharLen(bytes[i])
    /\ \A j \in (i + 1) .. Len(bytes) : Continues(bytes[j])

(* fs.stat returns; with nothing new the entry is the answer.              *)
Stat(r) ==
  /\ reads[r].at = "stat"
  /\ LET cached == reads[r].cached
         size == Len(file)
     IN \/ /\ cached.cached /\ size = cached.byteSize
           /\ Answer(r, cached.parsed, size)
        \/ /\ cached.cached /\ size > cached.byteSize
           /\ "widecut" \in Faults \/ ~InsideWide(file)
           /\ reads' = [reads EXCEPT ![r] = [@ EXCEPT !.at = "extend", !.size = size]]
           /\ UNCHANGED report
        \/ /\ ~cached.cached \/ size < cached.byteSize
           /\ reads' = [reads EXCEPT ![r] = [@ EXCEPT !.at = "full", !.size = size]]
           /\ UNCHANGED report
  /\ UNCHANGED <<file, writing, started, entry>>

(* The end of the last complete line.                                      *)
HeadEnd(bytes) ==
  Cardinality({i \in 1 .. Len(bytes) : \E j \in i .. Len(bytes) : bytes[j] = NL})

(* extend(): the bytes between the entry and the stat'ed size.  A line     *)
(* still open stays in `partial', in front of what comes next.             *)
Consumed_CountsTwice(chunk, keep) == Len(chunk) + Len(keep)
Consumed_Rereads(chunk, keep) == HeadEnd(chunk)
Consumed(chunk, keep) == HeadEnd(chunk) + Len(keep)

(* buf.subarray(0, end), where a negative end counts from the end.         *)
Subarray(bytes, end) == SubSeq(bytes, 1, IF end < 0 THEN Len(bytes) + end ELSE end)

Extended(cached, chunk) ==
  LET headEnd == HeadEnd(chunk)
      tail == SubSeq(chunk, headEnd + 1, Len(chunk))
      keep == Subarray(tail, Len(tail) - IncompleteTail(tail))
      head == cached.partial \o Decoded(SubSeq(chunk, 1, headEnd))
      lines == IF headEnd > 0 THEN Front(Split(head)) ELSE <<>>
  IN Entry(cached.byteSize + Consumed(chunk, keep),
           Parsed(LinesOf(lines), cached.parsed),
           (IF headEnd > 0 THEN <<>> ELSE cached.partial) \o Decoded(keep))

Extend(r) ==
  /\ reads[r].at = "extend"
  /\ LET cached == reads[r].cached
         new == Extended(cached, SubSeq(file, cached.byteSize + 1, reads[r].size))
     IN /\ entry' = new
        /\ Answer(r, new.parsed, reads[r].size)
  /\ UNCHANGED <<file, writing, started>>

(* full(): the whole file as readSessionLog parses it.  split leaves one   *)
(* piece after the last newline, which counts as a line only if it holds   *)
(* something.                                                              *)
EndsInLine(bytes) == \A i \in 1 .. Len(bytes) : i = Len(bytes) => bytes[i] = NL

Seeded(content) ==
  LET string == Decoded(content)
      parsed == Parsed(LinesOf(Split(string)), Start)
  IN Entry(Len(FlattenSeq(string)),
           IF EndsInLine(content) THEN [parsed EXCEPT !.lines = @ - 1] ELSE parsed,
           <<>>)

Full(r) ==
  /\ reads[r].at = "full"
  /\ "midline" \in Faults \/ EndsInLine(file)
  /\ LET new == Seeded(file)
     IN /\ entry' = new
        /\ Answer(r, new.parsed, Len(file))
  /\ UNCHANGED <<file, writing, started>>

-----------------------------------------------------------------------------
Read(r) == Fetch(r) \/ Stat(r) \/ Extend(r) \/ Full(r)

Next == StartLine \/ WriteSome \/ CrashMidLine \/ \E r \in Reader : Read(r)

Spec == Init /\ [][Next]_vars

-----------------------------------------------------------------------------
(*                              Properties                                 *)

(* The part of the bytes that consists of complete lines.                  *)
Complete(bytes) == SubSeq(bytes, 1, HeadEnd(bytes))

(* The types of the cache and of its readers.                              *)
TypeOK ==
  /\ file \in Seq(0 .. 255) /\ writing \in Seq(0 .. 255)
  /\ started \in 0 .. MaxLines
  /\ entry.byteSize \in 0 .. Len(file) /\ entry.cached \in BOOLEAN
  /\ \A r \in Reader :
       /\ reads[r].at \in {"idle", "stat", "extend", "full"}
       /\ reads[r].size \in 0 .. Len(file)
  /\ report.covers \in 0 .. Len(file)

(* "byteSize is what the entry OWNS": every complete line up to it is      *)
(* parsed, the rest of it is in `partial', and it ends on the boundary of  *)
(* a character, whichever of several overlapping reads stored it last.     *)
EntryOwns ==
  entry.cached =>
    LET owned == SubSeq(file, 1, entry.byteSize)
        rest == SubSeq(owned, Len(Complete(owned)) + 1, Len(owned))
    IN /\ FlattenSeq(entry.partial) = rest
       /\ entry.parsed.lines =
            Cardinality({i \in 1 .. Len(owned) : owned[i] = NL})

(* The replay-cache contract: what a cached read returns is what           *)
(* readSessionLog makes of the bytes the file had when it was stat'ed,     *)
(* with or without the line that is not complete yet, however reads        *)
(* overlap and lines are torn.                                             *)
SameAsFullRead ==
  LET covered == SubSeq(file, 1, report.covers)
      cached == report.parsed
  IN \E direct \in {Report(covered), Report(Complete(covered))} :
       /\ cached.events = direct.events
       /\ cached.issues = direct.issues
       /\ cached.expected = direct.expected

(* The loop over `expected' keeps exactly the readable lines whose seq     *)
(* exceeds every seq before them, continues after the last of them, and    *)
(* reports no issue exactly when the log is 1..n: the closed form that     *)
(* SpineLock uses for what a reopened session sees.                        *)
LoopKeepsRising ==
  LET lines == NonBlank(LinesOf(Split(Decoded(file))))
      direct == Report(file)
  IN /\ Len(direct.events) = Cardinality(KeptLines(lines))
     /\ \A i \in KeptLines(lines) :
          direct.events[Cardinality({j \in KeptLines(lines) : j <= i})] = lines[i]
     /\ direct.expected = LastSeq(lines) + 1
     /\ direct.issues = <<>> <=> Contiguous(lines)

(* The three of them: a read through the cache is right, and so is what it *)
(* has to agree with.                                                      *)
CacheSound == EntryOwns /\ SameAsFullRead /\ LoopKeepsRising

(* "a torn write can never poison the cache with U+FFFD": writers write    *)
(* well-formed text, so no event and no partial line of the cache may hold *)
(* a replacement character.                                                *)
NeverPoisoned ==
  /\ Replacement \notin ToSet(entry.partial)
  /\ \A i \in 1 .. Len(entry.parsed.events) :
       Replacement \notin ToSet(entry.parsed.events[i].body)
=============================================================================
