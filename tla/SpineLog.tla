------------------------------ MODULE SpineLog ------------------------------
(***************************************************************************)
(* The lines of one session's events.jsonl and what replay makes of them   *)
(* (packages/core/src/session/replay.ts).  A line is a record              *)
(*                                                                         *)
(*    seq   the envelope's sequence number, assigned by the writer         *)
(*    by    the process whose writer produced it                           *)
(*    text  "json" for an envelope, "garbled" for anything else            *)
(*                                                                         *)
(* The parser never stops at a bad line.  It keeps a line exactly when its *)
(* seq is at least `expected', and `expected' is one more than the last    *)
(* seq kept: a line survives iff no earlier readable line carries a seq as *)
(* large as its own.  That closed form is used here because modules that   *)
(* are proved about cannot use a recursive definition; SessionReplay has   *)
(* the loop itself and compares the two.                                   *)
(***************************************************************************)
EXTENDS Naturals, Sequences

Texts == {"json", "garbled"}

(* parseSessionLogLines: the line is neither corrupt nor a seq-duplicate.  *)
Kept(log, i) ==
  /\ log[i].text = "json"
  /\ \A j \in 1 .. (i - 1) : log[j].text = "json" => log[j].seq < log[i].seq

(* The indices of the events replay hands out, in file order.              *)
KeptLines(log) == {i \in 1 .. Len(log) : Kept(log, i)}

(* report.events[report.events.length - 1]?.seq ?? 0                       *)
LastKept(log, i) ==
  i \in KeptLines(log) /\ \A j \in KeptLines(log) : j <= i

LastSeq(log) ==
  IF \E i \in 1 .. Len(log) : LastKept(log, i)
  THEN log[CHOOSE i \in 1 .. Len(log) : LastKept(log, i)].seq
  ELSE 0

(* ReplayReport.ok for a log whose lines are 1..n gap-free.                *)
Contiguous(log) ==
  \A i \in 1 .. Len(log) : log[i].text = "json" /\ log[i].seq = i
=============================================================================
