------------------------------ MODULE SpineLock ------------------------------
(***************************************************************************)
(* The ownership lock of one session directory and the writers that        *)
(* compete for it: packages/core/src/session/writer.ts, the two-step open  *)
(* of store.ts / sessionSpine.ts (read the log, then take the lock) and    *)
(* the boot-time janitor src/cli/serve/spineLockSweep.ts.                  *)
(*                                                                         *)
(* A process opens the session, appends events one at a time (every caller *)
(* in the tree awaits an append before it issues the next), closes the     *)
(* writer and may open it again; it may crash at any step.  A pid is the   *)
(* process itself; `live' is what signal 0 reports, so the pid of a dead   *)
(* process may become live again when the system hands it to a stranger.   *)
(*                                                                         *)
(* Time appears only through the age of a lock's ts: Age is the moment a   *)
(* lock crosses its staleness threshold.                                   *)
(***************************************************************************)
EXTENDS SpineLog

CONSTANTS
  Proc,    \* the processes (hosts) that may open the session
  NoProc,  \* the pid of a lock that carries none
  MaxSeq,  \* bound: no event gets a seq above this one, and none is
           \* appended to a log of more lines
  Faults   \* what the environment of a run may do, see Hazards

(* "idle"     a live writer may leave its lock unrefreshed for longer than *)
(*            heartbeatStaleMs (it heartbeats only when it appends)        *)
(* "race"     two acquisitions, or one and a sweep, may overlap            *)
(* "overlap"  a host may start to open a session another host is writing   *)
(* "reorder"  the heartbeat's floating write may land after later fs calls *)
(* "torn"     a crash may leave a half-written line or lock file, a failed *)
(*            append a half-written line                                   *)
(* "diskfull" an appendFile may fail                                       *)
Hazards == {"idle", "race", "overlap", "reorder", "torn", "diskfull"}

ASSUME FaultsAssumption == Faults \subseteq Hazards
ASSUME NoProcAssumption == NoProc \notin Proc
ASSUME MaxSeqAssumption == MaxSeq \in Nat

VARIABLES
  lock,     \* writer.lock: pid, and how old its ts is
  log,      \* the lines of events.jsonl
  tail,     \* "torn" when the file does not end with a newline
  live,     \* the pids that answer signal 0
  pc,       \* where each process is
  nextSeq,  \* SessionLogWriter.nextSeq (startSeq while opening)
  beat,     \* the processes with a heartbeat write in flight
  sweep,    \* "judged" when the boot sweep is about to remove the lock
  dropped   \* history: who dropped its last writer without closing it

vars == <<lock, log, tail, live, pc, nextSeq, beat, sweep, dropped>>

-----------------------------------------------------------------------------
(* Control states.  acquireLock: "acquire" before the wx create, "judge"   *)
(* after EEXIST, "take" once the verdict allows the overwrite.  append:    *)
(* "append" once the seq is assigned, "write" after the heartbeat link of  *)
(* the chain, "landed" when the line is in the file but not acknowledged.  *)
Opening == {"acquire", "judge", "take"}
Active  == {"open", "append", "write", "landed", "close"}
State   == {"idle", "dead"} \cup Opening \cup Active

Locks  == [pid : Proc \cup {NoProc}, ts : {"none", "unknown", "fresh", "stale"}]
NoLock == [pid |-> NoProc, ts |-> "none"]
(* A lock file with no usable pid and no usable ts.                        *)
EmptyLock == [pid |-> NoProc, ts |-> "unknown"]
(* A lock of a version that wrote no pid.                                  *)
LegacyLock == [pid |-> NoProc, ts |-> "fresh"]
LockOf_BadTs(p) == [pid |-> p, ts |-> "undefined"]
LockOf(p) == [pid |-> p, ts |-> "fresh"]

Lines == [seq : Nat, by : Proc, text : Texts]
Line(p, n, text) == [seq |-> n, by |-> p, text |-> text]

(* evaluateLockTakeover: a dead pid, or a live pid with a stale heartbeat; *)
(* without a pid only a ts that is present and stale.                      *)
Takeover_IgnoresHeartbeat(l) == l.pid # NoProc \/ l.ts = "stale"
Takeover_PidOnly(l) == l.pid # NoProc /\ (l.pid \notin live \/ l.ts # "fresh")
Takeover(l) ==
  \/ l.pid # NoProc /\ l.pid \notin live
  \/ l.pid # NoProc /\ l.ts # "fresh"
  \/ l.pid = NoProc /\ l.ts = "stale"

(* appendFile of one line: after a torn tail it is glued to the fragment,  *)
(* and the two together are one unparseable line.                          *)
Appended(l, t, line) ==
  IF t = "torn"
  THEN [l EXCEPT ![Len(l)] = [@ EXCEPT !.text = "garbled"]]
  ELSE Append(l, line)

TypeOK ==
  /\ lock \in Locks
  /\ log \in Seq(Lines)
  /\ tail \in {"clean", "torn"}
  /\ tail = "torn" => log # <<>>
  /\ live \subseteq Proc
  /\ pc \in [Proc -> State]
  /\ nextSeq \in [Proc -> Nat \ {0}]
  /\ beat \subseteq Proc
  /\ sweep \in {"none", "judged"}
  /\ dropped \subseteq Proc

Init ==
  /\ lock \in {NoLock, LegacyLock}
  /\ log = <<>>
  /\ tail = "clean"
  /\ live = Proc
  /\ pc = [p \in Proc |-> "idle"]
  /\ nextSeq = [p \in Proc |-> 1]
  /\ beat = {}
  /\ sweep = "none"
  /\ dropped = {}

Goto(p, s) == pc' = [pc EXCEPT ![p] = s]

-----------------------------------------------------------------------------
(*                               Opening                                   *)

(* readSessionLog runs BEFORE the lock is taken; its last seq is the       *)
(* startSeq of the writer that is about to be opened.                      *)
ReadLog_DefaultStart(p) ==
  /\ pc[p] = "idle"
  /\ "overlap" \in Faults \/ \A q \in Proc : pc[q] \notin Active
  /\ "race" \in Faults \/ (sweep = "none" /\ \A q \in Proc : pc[q] \notin Opening)
  /\ nextSeq' = [nextSeq EXCEPT ![p] = 1]
  /\ Goto(p, "acquire")
  /\ UNCHANGED <<lock, log, tail, live, beat, sweep, dropped>>

ReadLog(p) ==
  /\ pc[p] = "idle"
  /\ "overlap" \in Faults \/ \A q \in Proc : pc[q] \notin Active
  /\ "race" \in Faults \/ (sweep = "none" /\ \A q \in Proc : pc[q] \notin Opening)
  /\ nextSeq' = [nextSeq EXCEPT ![p] = LastSeq(log) + 1]
  /\ Goto(p, "acquire")
  /\ UNCHANGED <<lock, log, tail, live, beat, sweep, dropped>>

(* writeFile(lockPath, payload, {flag: 'wx'}) succeeds.                    *)
CreateLock(p) ==
  /\ pc[p] = "acquire"
  /\ lock = NoLock
  /\ lock' = LockOf(p)
  /\ dropped' = dropped \ {p}
  /\ Goto(p, "open")
  /\ UNCHANGED <<log, tail, live, nextSeq, beat, sweep>>

(* It fails with EEXIST: the lock is read and judged in a later step.      *)
LockExists(p) ==
  /\ pc[p] = "acquire"
  /\ lock # NoLock
  /\ Goto(p, "judge")
  /\ UNCHANGED <<lock, log, tail, live, nextSeq, beat, sweep, dropped>>

JudgeTakeover(p) ==
  /\ pc[p] = "judge"
  /\ Takeover(lock)
  /\ Goto(p, "take")
  /\ UNCHANGED <<lock, log, tail, live, nextSeq, beat, sweep, dropped>>

(* SessionLogLockedError; a lock that vanished reads as one without a pid. *)
Refuse(p) ==
  /\ pc[p] = "judge"
  /\ ~Takeover(lock)
  /\ Goto(p, "idle")
  /\ UNCHANGED <<lock, log, tail, live, nextSeq, beat, sweep, dropped>>

(* The takeover is a plain overwrite: nothing is compared again.           *)
TakeLock(p) ==
  /\ pc[p] = "take"
  /\ lock' = LockOf(p)
  /\ dropped' = dropped \ {p}
  /\ Goto(p, "open")
  /\ UNCHANGED <<log, tail, live, nextSeq, beat, sweep>>

-----------------------------------------------------------------------------
(*                         Appending and closing                           *)

(* append(): the seq is consumed before anything is written.               *)
Enqueue_KeepsSeq(p) ==
  /\ pc[p] = "open"
  /\ nextSeq[p] <= MaxSeq /\ Len(log) <= MaxSeq
  /\ Goto(p, "append")
  /\ UNCHANGED <<lock, log, tail, live, nextSeq, beat, sweep, dropped>>

Enqueue(p) ==
  /\ pc[p] = "open"
  /\ nextSeq[p] <= MaxSeq /\ Len(log) <= MaxSeq
  /\ nextSeq' = [nextSeq EXCEPT ![p] = @ + 1]
  /\ Goto(p, "append")
  /\ UNCHANGED <<lock, log, tail, live, beat, sweep, dropped>>

(* maybeHeartbeat: throttled, or a write nobody waits for.                 *)
Heartbeat(p) ==
  /\ pc[p] = "append"
  /\ Goto(p, "write")
  /\ \/ UNCHANGED <<lock, beat>>
     \/ "reorder" \in Faults /\ beat' = beat \cup {p} /\ UNCHANGED lock
     \/ "reorder" \notin Faults /\ lock' = LockOf(p) /\ UNCHANGED beat
  /\ UNCHANGED <<log, tail, live, nextSeq, sweep, dropped>>

HeartbeatLands(p) ==
  /\ p \in beat
  /\ beat' = beat \ {p}
  /\ lock' = LockOf(p)
  /\ UNCHANGED <<log, tail, live, pc, nextSeq, sweep, dropped>>

(* fs.appendFile of the line that carries currentSeq.                      *)
AppendLine(p) ==
  /\ pc[p] = "write"
  /\ log' = Appended(log, tail, Line(p, nextSeq[p] - 1, "json"))
  /\ tail' = "clean"
  /\ Goto(p, "landed")
  /\ UNCHANGED <<lock, live, nextSeq, beat, sweep, dropped>>

Acknowledge(p) ==
  /\ pc[p] = "landed"
  /\ Goto(p, "open")
  /\ UNCHANGED <<lock, log, tail, live, nextSeq, beat, sweep, dropped>>

(* What a write that was cut off leaves of its line.                       *)
TornLine(p) ==
  /\ pc[p] = "write"
  /\ tail' = "torn"
  /\ \E text \in Texts :
       log' = Appended(log, tail, Line(p, nextSeq[p] - 1, text))
  /\ UNCHANGED lock

(* A rejected appendFile rejects the chain for good.  The mirror drops the *)
(* writer without closing it: its lock stays, fresh and with the pid of a  *)
(* host that lives on and may open the session again, against that lock.   *)
AppendFails(p) ==
  /\ "diskfull" \in Faults
  /\ pc[p] = "write"
  /\ Goto(p, "idle")
  /\ dropped' = dropped \cup {p}
  /\ \/ UNCHANGED <<lock, log, tail>>
     \/ "torn" \in Faults /\ TornLine(p)
  /\ UNCHANGED <<live, nextSeq, beat, sweep>>

(* close(): the chain has drained and closed is set ...                    *)
Close(p) ==
  /\ pc[p] = "open"
  /\ Goto(p, "close")
  /\ UNCHANGED <<lock, log, tail, live, nextSeq, beat, sweep, dropped>>

(* ... and the lock file is removed, whoever's it is by now.               *)
RemoveLock_Forgets(p) ==
  /\ pc[p] = "close"
  /\ Goto(p, "idle")
  /\ UNCHANGED <<lock, log, tail, live, nextSeq, beat, sweep, dropped>>

RemoveLock(p) ==
  /\ pc[p] = "close"
  /\ lock' = NoLock
  /\ Goto(p, "idle")
  /\ UNCHANGED <<log, tail, live, nextSeq, beat, sweep, dropped>>

-----------------------------------------------------------------------------
(*                    Crashes, time and the boot sweep                     *)

(* What a crash leaves of a lock file that is being written.               *)
TornLock(p) ==
  /\ \/ p \in beat
     \/ pc[p] \in {"take", "append"}
     \/ pc[p] = "acquire" /\ lock = NoLock
  /\ lock' = EmptyLock
  /\ UNCHANGED <<log, tail>>

Crash(p) ==
  /\ pc[p] # "dead"
  /\ Goto(p, "dead")
  /\ live' = live \ {p}
  /\ beat' = beat \ {p}
  /\ \/ UNCHANGED <<lock, log, tail>>
     \/ "torn" \in Faults /\ (TornLine(p) \/ TornLock(p))
  /\ UNCHANGED <<nextSeq, sweep, dropped>>

(* The system gives the pid of a dead process to an unrelated one.         *)
ReusePid(p) ==
  /\ pc[p] = "dead"
  /\ p \notin live
  /\ live' = live \cup {p}
  /\ UNCHANGED <<lock, log, tail, pc, nextSeq, beat, sweep, dropped>>

(* The lock's ts crosses its threshold.                                    *)
Age ==
  /\ lock.ts = "fresh"
  /\ "idle" \in Faults \/ \A p \in Proc : lock.pid = p => pc[p] \notin Active
  /\ lock' = [lock EXCEPT !.ts = "stale"]
  /\ UNCHANGED <<log, tail, live, pc, nextSeq, beat, sweep, dropped>>

(* sweepOrphanSpineLocks: read and judge, then remove.                     *)
SweepJudge ==
  /\ sweep = "none"
  /\ "race" \in Faults \/ \A p \in Proc : pc[p] \notin Opening
  /\ lock # EmptyLock
  /\ Takeover(lock)
  /\ sweep' = "judged"
  /\ UNCHANGED <<lock, log, tail, live, pc, nextSeq, beat, dropped>>

SweepRemove ==
  /\ sweep = "judged"
  /\ lock' = NoLock
  /\ sweep' = "none"
  /\ UNCHANGED <<log, tail, live, pc, nextSeq, beat, dropped>>

-----------------------------------------------------------------------------
Open(p) ==
  \/ CreateLock(p) \/ LockExists(p) \/ JudgeTakeover(p)
  \/ Refuse(p) \/ TakeLock(p)

Write(p) ==
  \/ Enqueue(p) \/ Heartbeat(p) \/ HeartbeatLands(p) \/ AppendLine(p)
  \/ Acknowledge(p) \/ AppendFails(p) \/ Close(p) \/ RemoveLock(p)

Next ==
  \/ \E p \in Proc :
       ReadLog(p) \/ Open(p) \/ Write(p) \/ Crash(p) \/ ReusePid(p)
  \/ Age \/ SweepJudge \/ SweepRemove

Spec == Init /\ [][Next]_vars

(* Time passes, hosts keep booting (each boot sweeps), and the fs calls of *)
(* a live process return.  Nothing obliges a host to open or to append.    *)
Fairness ==
  /\ WF_vars(Age) /\ WF_vars(SweepJudge) /\ WF_vars(SweepRemove)
  /\ \A p \in Proc : WF_vars(Open(p))

FairSpec == Spec /\ Fairness

-----------------------------------------------------------------------------
(*                              Properties                                 *)

(* One writer at a time: the promise of the ownership lock.  It is what    *)
(* the wx create, the takeover verdict and the removal on close together   *)
(* have to guarantee; each alone does not.                                 *)
SingleOwner ==
  \A p, q \in Proc : pc[p] \in Active /\ pc[q] \in Active => p = q

(* While a writer is open the lock file names it and looks fresh, so that  *)
(* no other host can be told to take over: nobody removed, aged or         *)
(* overwrote the lock of a live owner.                                     *)
LockNamesOwner == \A p \in Proc : pc[p] \in Active => lock = LockOf(p)

(* The two of them: ownership is exclusive and shows in the lock file.     *)
OwnerSound == SingleOwner /\ LockNamesOwner

(* A host without a writer has a lock of its own in the directory only if  *)
(* it dropped its last writer on a failed append: through refusals, sweeps *)
(* and other hosts' takeovers no lock comes back to one that closed, by a  *)
(* late heartbeat for instance, and then refuses its next open.            *)
ClosedLeavesNoLock ==
  \A p \in Proc : pc[p] = "idle" /\ p \notin dropped => lock.pid # p

(* The log is 1..n with no gap, no duplicate and no unreadable line,       *)
(* across closes, reopenings and takeovers by other processes.             *)
LogContiguous == Contiguous(log)

(* The events replay hands out are numbered 1..n with no gap, whatever     *)
(* happened to the lines it had to skip.                                   *)
SeqGapFree == {log[i].seq : i \in KeptLines(log)} = 1 .. LastSeq(log)

(* A lock that belongs to no open writer does not stay forever: a host     *)
(* takes it over or a sweep removes it.                                    *)
Orphaned == lock # NoLock /\ \A p \in Proc : lock.pid = p => pc[p] \notin Active
OrphanReclaimed == Orphaned ~> ~Orphaned

(* The lock and the log together implement a journal with one owner: the   *)
(* owner is the process with an open writer, the journal what replay       *)
(* shows.  A line replay drops would stand in it as nobody's event, which  *)
(* no step of Journal can produce.                                         *)
Owner ==
  IF \E p \in Proc : pc[p] \in Active
  THEN CHOOSE p \in Proc : pc[p] \in Active
  ELSE NoProc

Replayed ==
  [i \in 1 .. Len(log) |-> IF Kept(log, i) THEN log[i].by ELSE NoProc]

Implemented == INSTANCE Journal WITH owner <- Owner, journal <- Replayed
ImplementsJournal == Implemented!JSpec
=============================================================================
