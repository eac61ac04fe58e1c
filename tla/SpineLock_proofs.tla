--------------------------- MODULE SpineLock_proofs ---------------------------
(***************************************************************************)
(* Theorems about SpineLock, for any set of processes and any MaxSeq.      *)
(***************************************************************************)
EXTENDS SpineLock, SequenceTheorems, TLAPS

-----------------------------------------------------------------------------
(*                          Lemmas about the log                           *)

(* The last seq of a log of typed lines is a natural number.               *)
LEMMA LastSeqType ==
  ASSUME NEW l \in Seq(Lines)
  PROVE  LastSeq(l) \in Nat
<1> DEFINE last == CHOOSE i \in 1 .. Len(l) : LastKept(l, i)
<1>1. CASE \E i \in 1 .. Len(l) : LastKept(l, i)
  <2>1. last \in 1 .. Len(l)
    BY <1>1
  <2> HIDE DEF last
  <2>2. l[last] \in Lines
    BY <2>1, ElementOfSeq
  <2>3. l[last].seq \in Nat
    BY <2>2 DEF Lines
  <2>4. LastSeq(l) = l[last].seq
    BY <1>1, Zenon DEF LastSeq, last
  <2>5. QED
    BY <2>3, <2>4
<1>2. CASE ~\E i \in 1 .. Len(l) : LastKept(l, i)
  <2>1. LastSeq(l) = 0
    BY <1>2, Zenon DEF LastSeq
  <2>2. QED
    BY <2>1
<1>3. QED
  BY <1>1, <1>2

(* Appending a line, glued to a torn tail or not, gives a log of lines.    *)
LEMMA AppendedType ==
  ASSUME NEW l \in Seq(Lines), NEW t, NEW line \in Lines,
         t = "torn" => l # <<>>
  PROVE  Appended(l, t, line) \in Seq(Lines)
<1>1. CASE t = "torn"
  <2>1. Len(l) \in 1 .. Len(l)
    BY <1>1, EmptySeq, LenProperties
  <2>2. l[Len(l)] \in Lines
    BY <2>1, ElementOfSeq
  <2>3. [l[Len(l)] EXCEPT !.text = "garbled"] \in Lines
    BY <2>2 DEF Lines, Texts
  <2>4. [l EXCEPT ![Len(l)] = [l[Len(l)] EXCEPT !.text = "garbled"]] \in Seq(Lines)
    BY <2>1, <2>3, ExceptSeq
  <2>5. QED
    BY <1>1, <2>4 DEF Appended
<1>2. CASE t # "torn"
  BY <1>2, AppendProperties DEF Appended
<1>3. QED
  BY <1>1, <1>2

-----------------------------------------------------------------------------
(*                            Type correctness                             *)

LEMMA ControlStates ==
  {"idle", "dead", "acquire", "judge", "take",
   "open", "append", "write", "landed", "close"} = State
BY DEF State, Opening, Active

LEMMA LockTypes ==
  /\ NoLock \in Locks /\ EmptyLock \in Locks /\ LegacyLock \in Locks
  /\ \A p \in Proc : LockOf(p) \in Locks
  /\ \A l \in Locks : [l EXCEPT !.ts = "stale"] \in Locks
BY DEF Locks, NoLock, EmptyLock, LegacyLock, LockOf

LEMMA LineTypes ==
  ASSUME NEW p \in Proc, NEW n \in Nat \ {0}, NEW text \in Texts
  PROVE  Line(p, n - 1, text) \in Lines
BY DEF Line, Lines

LEMMA AppendedNonempty ==
  ASSUME NEW l \in Seq(Lines), NEW t, NEW line \in Lines,
         t = "torn" => l # <<>>
  PROVE  Appended(l, t, line) # <<>>
<1>1. CASE t = "torn"
  <2>1. Len(l) \in 1 .. Len(l)
    BY <1>1, EmptySeq, LenProperties
  <2>2. l[Len(l)] \in Lines
    BY <2>1, ElementOfSeq
  <2>3. [l[Len(l)] EXCEPT !.text = "garbled"] \in Lines
    BY <2>2 DEF Lines, Texts
  <2>4. Len([l EXCEPT ![Len(l)] = [l[Len(l)] EXCEPT !.text = "garbled"]]) = Len(l)
    BY <2>1, <2>3, ExceptSeq
  <2>5. QED
    BY <1>1, <2>1, <2>4, EmptySeq DEF Appended
<1>2. CASE t # "torn"
  BY <1>2, AppendProperties, EmptySeq DEF Appended
<1>3. QED
  BY <1>1, <1>2

LEMMA TypeStep == TypeOK /\ [Next]_vars => TypeOK'
<1> SUFFICES ASSUME TypeOK, [Next]_vars
             PROVE  TypeOK'
  OBVIOUS
<1> USE ControlStates, LockTypes DEF TypeOK, Goto
<1>1. ASSUME NEW p \in Proc, ReadLog(p)
      PROVE  TypeOK'
  <2>1. LastSeq(log) + 1 \in Nat \ {0}
    BY LastSeqType
  <2>2. QED
    BY <1>1, <2>1 DEF ReadLog
<1>2. ASSUME NEW p \in Proc, Open(p)
      PROVE  TypeOK'
  BY <1>2 DEF Open, CreateLock, LockExists, JudgeTakeover, Refuse, TakeLock
<1>3. ASSUME NEW p \in Proc, Enqueue(p)
      PROVE  TypeOK'
  BY <1>3 DEF Enqueue
<1>4. ASSUME NEW p \in Proc, Heartbeat(p) \/ HeartbeatLands(p)
      PROVE  TypeOK'
  BY <1>4 DEF Heartbeat, HeartbeatLands
<1>5. ASSUME NEW p \in Proc, AppendLine(p)
      PROVE  TypeOK'
  <2>1. Line(p, nextSeq[p] - 1, "json") \in Lines
    BY LineTypes DEF Texts
  <2>2. log' \in Seq(Lines)
    BY <1>5, <2>1, AppendedType DEF AppendLine
  <2>3. QED
    BY <1>5, <2>2 DEF AppendLine
<1>6. ASSUME NEW p \in Proc,
             Acknowledge(p) \/ Close(p) \/ RemoveLock(p)
      PROVE  TypeOK'
  BY <1>6 DEF Acknowledge, Close, RemoveLock
<1>7. ASSUME NEW p \in Proc, Crash(p) \/ AppendFails(p)
      PROVE  TypeOK'
  <2>1. /\ log' \in Seq(Lines)
        /\ tail' \in {"clean", "torn"}
        /\ tail' = "torn" => log' # <<>>
    <3>1. CASE TornLine(p)
      <4>1. PICK text \in Texts :
              log' = Appended(log, tail, Line(p, nextSeq[p] - 1, text))
        BY <3>1 DEF TornLine
      <4>2. Line(p, nextSeq[p] - 1, text) \in Lines
        BY LineTypes
      <4>3. QED
        BY <3>1, <4>1, <4>2, AppendedType, AppendedNonempty DEF TornLine
    <3>2. CASE UNCHANGED <<log, tail>>
      BY <3>2
    <3>3. QED
      BY <1>7, <3>1, <3>2 DEF Crash, AppendFails, TornLock
  <2>2. lock' \in Locks
    BY <1>7 DEF Crash, AppendFails, TornLine, TornLock
  <2>3. QED
    BY <1>7, <2>1, <2>2 DEF Crash, AppendFails
<1>8. ASSUME NEW p \in Proc, ReusePid(p)
      PROVE  TypeOK'
  BY <1>8 DEF ReusePid
<1>9. ASSUME Age \/ SweepJudge \/ SweepRemove
      PROVE  TypeOK'
  BY <1>9 DEF Age, SweepJudge, SweepRemove
<1>10. CASE UNCHANGED vars
  BY <1>10 DEF vars
<1>11. QED
  BY <1>1, <1>2, <1>3, <1>4, <1>5, <1>6, <1>7, <1>8, <1>9, <1>10
  DEF Next, Write

(* Every state has the declared types: acquireLock, append, close and the  *)
(* sweep leave the lock, the log and the control states well formed.       *)
THEOREM TypeCorrect == Spec => []TypeOK
<1>1. Init => TypeOK
  BY ControlStates, LockTypes, EmptySeq DEF Init, TypeOK
<1>2. QED
  BY <1>1, TypeStep, PTL DEF Spec

-----------------------------------------------------------------------------
(*                             Exclusivity                                 *)
(*                                                                         *)
(* LockNamesOwner is not inductive: it says nothing of a process between   *)
(* the verdict and the overwrite, nor of a sweep between its verdict and   *)
(* the removal.  OwnerInv adds that such a step finds no open writer, that *)
(* at most one of them is under way, and that open writers are alive.      *)

Alive == \A p \in Proc : pc[p] # "dead" => p \in live

OneOpening ==
  \A p, q \in Proc : pc[p] \in Opening /\ pc[q] \in Opening => p = q

NoSweepWhileOpening ==
  sweep = "judged" => \A p \in Proc : pc[p] \notin Opening \cup Active

TakeFindsNoOwner ==
  \A p, q \in Proc : pc[p] = "take" => pc[q] \notin Active

OwnerInv ==
  /\ LockNamesOwner
  /\ Alive
  /\ OneOpening
  /\ NoSweepWhileOpening
  /\ TakeFindsNoOwner
  /\ beat = {}

Calm == {"idle", "race", "reorder"} \cap Faults = {}

(* The locks of two processes differ, and no rule reclaims a live one's.   *)
LEMMA LockFacts ==
  ASSUME NEW p \in Proc
  PROVE  /\ \A q \in Proc : LockOf(p) = LockOf(q) => p = q
         /\ LockOf(p).pid = p /\ LockOf(p).ts = "fresh"
         /\ LockOf(p) # NoLock
         /\ p \in live => ~Takeover(LockOf(p))
BY NoProcAssumption DEF LockOf, NoLock, Takeover

LEMMA OwnerStep ==
  Calm /\ TypeOK /\ OwnerInv /\ [Next]_vars => OwnerInv'
<1> SUFFICES ASSUME Calm, TypeOK, OwnerInv, [Next]_vars
             PROVE  OwnerInv'
  OBVIOUS
<1>t. pc \in [Proc -> State]
  BY DEF TypeOK
<1>c. "idle" \notin Faults /\ "race" \notin Faults /\ "reorder" \notin Faults
  BY DEF Calm
<1> USE DEF OwnerInv, LockNamesOwner, Alive, OneOpening, NoSweepWhileOpening,
            TakeFindsNoOwner, Goto, Opening, Active
<1>1. ASSUME NEW p \in Proc, ReadLog(p)
      PROVE  OwnerInv'
  BY <1>1, <1>t, <1>c DEF ReadLog
<1>2. ASSUME NEW p \in Proc, CreateLock(p)
      PROVE  OwnerInv'
  <2>1. \A q \in Proc : pc[q] \notin Active
    BY <1>2, LockFacts DEF CreateLock
  <2>2. QED
    BY <1>2, <1>t, <2>1 DEF CreateLock
<1>3. ASSUME NEW p \in Proc, LockExists(p) \/ Refuse(p)
      PROVE  OwnerInv'
  BY <1>3, <1>t DEF LockExists, Refuse
<1>4. ASSUME NEW p \in Proc, JudgeTakeover(p)
      PROVE  OwnerInv'
  <2>1. \A q \in Proc : pc[q] \notin Active
    BY <1>4, LockFacts DEF JudgeTakeover
  <2>2. QED
    BY <1>4, <1>t, <2>1 DEF JudgeTakeover
<1>5. ASSUME NEW p \in Proc, TakeLock(p)
      PROVE  OwnerInv'
  BY <1>5, <1>t DEF TakeLock
<1>6. ASSUME NEW p \in Proc,
             Enqueue(p) \/ AppendLine(p) \/ Acknowledge(p) \/ AppendFails(p) \/ Close(p)
      PROVE  OwnerInv'
  BY <1>6, <1>t DEF Enqueue, AppendLine, Acknowledge, AppendFails, TornLine, Close
<1>7. ASSUME NEW p \in Proc, Heartbeat(p)
      PROVE  OwnerInv'
  BY <1>7, <1>t, <1>c DEF Heartbeat
<1>8. ASSUME NEW p \in Proc, HeartbeatLands(p)
      PROVE  OwnerInv'
  BY <1>8 DEF HeartbeatLands
<1>9. ASSUME NEW p \in Proc, RemoveLock(p)
      PROVE  OwnerInv'
  <2>1. \A q \in Proc : pc[q] \in Active => q = p
    BY <1>9, LockFacts DEF RemoveLock
  <2>2. QED
    BY <1>9, <1>t, <2>1 DEF RemoveLock
<1>10. ASSUME NEW p \in Proc, Crash(p)
       PROVE  OwnerInv'
  <2>1. \A q \in Proc : q # p /\ pc[q] \in Active => lock' = lock
    <3> SUFFICES ASSUME NEW q \in Proc, q # p, pc[q] \in Active,
                        lock' # lock
                 PROVE  FALSE
      OBVIOUS
    <3>1. pc[p] \in {"take", "append"} \/ (pc[p] = "acquire" /\ lock = NoLock)
      BY <1>10 DEF Crash, TornLine, TornLock
    <3>2. lock = LockOf(q) /\ (pc[p] \in Active => lock = LockOf(p))
      OBVIOUS
    <3>3. QED
      BY <3>1, <3>2, LockFacts
  <2>2. /\ pc' = [pc EXCEPT ![p] = "dead"] /\ live' = live \ {p}
        /\ sweep' = sweep /\ beat' = {}
    BY <1>10 DEF Crash
  <2>3. QED
    BY <2>1, <2>2, <1>t DEF LockOf
<1>11. ASSUME NEW p \in Proc, ReusePid(p)
       PROVE  OwnerInv'
  BY <1>11 DEF ReusePid
<1>12. CASE Age
  <2>1. \A q \in Proc : pc[q] \notin Active
    BY <1>12, <1>c, LockFacts DEF Age
  <2>2. QED
    BY <1>12, <2>1 DEF Age
<1>13. CASE SweepJudge
  <2>1. \A q \in Proc : pc[q] \notin Active
    BY <1>13, LockFacts DEF SweepJudge
  <2>2. QED
    BY <1>13, <1>c, <2>1 DEF SweepJudge
<1>14. CASE SweepRemove
  BY <1>14 DEF SweepRemove
<1>15. CASE UNCHANGED vars
  BY <1>15 DEF vars, LockOf
<1>16. QED
  BY <1>1, <1>2, <1>3, <1>4, <1>5, <1>6, <1>7, <1>8, <1>9, <1>10, <1>11,
     <1>12, <1>13, <1>14, <1>15 DEF Next, Open, Write

LEMMA OwnerInductive ==
  ASSUME Calm
  PROVE  Spec => []OwnerInv
<1>1. Init => OwnerInv
  BY DEF Init, OwnerInv, LockNamesOwner, Alive, OneOpening,
         NoSweepWhileOpening, TakeFindsNoOwner, Opening, Active
<1>2. TypeOK /\ OwnerInv /\ [Next]_vars => OwnerInv'
  BY OwnerStep
<1>3. QED
  BY <1>1, <1>2, TypeCorrect, PTL DEF Spec

(* While a writer is open, the lock file carries its pid and a fresh       *)
(* heartbeat: when writers heartbeat in time and acquisitions do not race, *)
(* neither a takeover nor a sweep nor a close touches a live owner's lock. *)
THEOREM LockHeld ==
  ASSUME Calm
  PROVE  Spec => []LockNamesOwner
<1>1. OwnerInv => LockNamesOwner
  BY DEF OwnerInv
<1>2. QED
  BY <1>1, OwnerInductive, PTL

(* Hence the lock does what it is for: at most one writer at any moment,   *)
(* for any number of hosts, crashes, reused pids, torn files, full disks.  *)
THEOREM Exclusive ==
  ASSUME Calm
  PROVE  Spec => []SingleOwner
<1>1. LockNamesOwner => SingleOwner
  BY LockFacts DEF LockNamesOwner, SingleOwner
<1>2. QED
  BY <1>1, LockHeld, PTL

(* Both: ownership is exclusive and shows in the lock file.                *)
THEOREM OwnershipIsSound ==
  ASSUME Calm
  PROVE  Spec => []OwnerSound
<1>1. SingleOwner /\ LockNamesOwner => OwnerSound
  BY DEF OwnerSound
<1>2. QED
  BY <1>1, LockHeld, Exclusive, PTL

-----------------------------------------------------------------------------
(*                        What a close leaves behind                       *)
(*                                                                         *)
(* ClosedLeavesNoLock says nothing of a host that is opening the session   *)
(* again and may be refused: ClosedInv has it for all that do not write    *)
(* and have not dropped a writer, and that no heartbeat is in flight.      *)

Without == {"idle"} \cup Opening

ClosedInv ==
  /\ \A p \in Proc : pc[p] \in Without /\ p \notin dropped => lock.pid # p
  /\ beat = {}

LEMMA ClosedStep ==
  "reorder" \notin Faults /\ TypeOK /\ ClosedInv /\ [Next]_vars => ClosedInv'
<1> SUFFICES ASSUME "reorder" \notin Faults, TypeOK, ClosedInv, [Next]_vars
             PROVE  ClosedInv'
  OBVIOUS
<1>t. pc \in [Proc -> State]
  BY DEF TypeOK
<1> USE DEF ClosedInv, Without, Opening, Goto
<1>1. ASSUME NEW p \in Proc, lock' = LockOf(p), pc' = [pc EXCEPT ![p] = "open"] \/
                             pc' = [pc EXCEPT ![p] = "write"],
             beat' = beat, dropped' = dropped \/ dropped' = dropped \ {p}
      PROVE  ClosedInv'
  <2>1. \A q \in Proc : q # p => lock'.pid # q
    BY <1>1, LockFacts
  <2>2. pc'[p] \notin Without
    BY <1>1, <1>t
  <2>3. beat' = {}
    BY <1>1
  <2> HIDE DEF Without
  <2>4. ASSUME NEW q \in Proc, pc'[q] \in Without, q \notin dropped'
        PROVE  lock'.pid # q
    BY <2>1, <2>2, <2>4
  <2>5. QED
    BY <2>3, <2>4
<1>2. ASSUME NEW p \in Proc, CreateLock(p) \/ TakeLock(p)
      PROVE  ClosedInv'
  BY <1>1, <1>2 DEF CreateLock, TakeLock
<1>3. ASSUME NEW p \in Proc, Heartbeat(p)
      PROVE  ClosedInv'
  <2>1. CASE UNCHANGED <<lock, beat>>
    BY <1>3, <1>t, <2>1 DEF Heartbeat
  <2>2. QED
    BY <1>1, <1>3, <2>1 DEF Heartbeat
<1>4. ASSUME NEW p \in Proc, ReadLog(p) \/ LockExists(p) \/ JudgeTakeover(p) \/ Refuse(p)
      PROVE  ClosedInv'
  BY <1>4, <1>t DEF ReadLog, LockExists, JudgeTakeover, Refuse
<1>5. ASSUME NEW p \in Proc,
             Enqueue(p) \/ AppendLine(p) \/ Acknowledge(p) \/ AppendFails(p) \/ Close(p)
      PROVE  ClosedInv'
  BY <1>5, <1>t DEF Enqueue, AppendLine, Acknowledge, AppendFails, TornLine, Close
<1>6. ASSUME lock' \in {NoLock, EmptyLock}, beat' = {}
      PROVE  ClosedInv'
  BY <1>6, NoProcAssumption DEF NoLock, EmptyLock
<1>7. ASSUME NEW p \in Proc, RemoveLock(p)
      PROVE  ClosedInv'
  BY <1>6, <1>7 DEF RemoveLock
<1>8. ASSUME NEW p \in Proc, Crash(p)
      PROVE  ClosedInv'
  <2>1. /\ pc' = [pc EXCEPT ![p] = "dead"] /\ dropped' = dropped
        /\ beat' = {} /\ lock' \in {lock, EmptyLock}
    BY <1>8 DEF Crash, TornLine, TornLock
  <2>2. QED
    BY <1>6, <1>t, <2>1
<1>9. ASSUME NEW p \in Proc, HeartbeatLands(p)
      PROVE  ClosedInv'
  BY <1>9 DEF HeartbeatLands
<1>10. ASSUME NEW p \in Proc, ReusePid(p)
       PROVE  ClosedInv'
  BY <1>10 DEF ReusePid
<1>11. CASE Age
  <2>1. lock'.pid = lock.pid
    BY <1>11 DEF Age, TypeOK, Locks
  <2>2. QED
    BY <1>11, <2>1 DEF Age
<1>12. CASE SweepJudge \/ UNCHANGED vars
  BY <1>12 DEF SweepJudge, vars
<1>13. CASE SweepRemove
  BY <1>6, <1>13 DEF SweepRemove
<1>14. QED
  BY <1>2, <1>3, <1>4, <1>5, <1>7, <1>8, <1>9, <1>10, <1>11, <1>12, <1>13
     DEF Next, Open, Write

(* A host without a writer has no lock there, unless it dropped its last   *)
(* writer on a failed append: whatever races, idles, crashes or refuses    *)
(* it, as long as a heartbeat is written before the fs calls that follow.  *)
THEOREM CloseRemovesLock ==
  ASSUME "reorder" \notin Faults
  PROVE  Spec => []ClosedLeavesNoLock
<1>1. Init => ClosedInv
  BY NoProcAssumption DEF Init, ClosedInv, NoLock, LegacyLock
<1>2. TypeOK /\ ClosedInv /\ [Next]_vars => ClosedInv'
  BY ClosedStep
<1>3. ClosedInv => ClosedLeavesNoLock
  BY DEF ClosedInv, Without, ClosedLeavesNoLock
<1>4. QED
  BY <1>1, <1>2, <1>3, TypeCorrect, PTL DEF Spec

-----------------------------------------------------------------------------
(*                              Sequencing                                 *)
(*                                                                         *)
(* LogContiguous needs to know where each writer's counter stands relative *)
(* to the file: between the increment in append() and the line reaching    *)
(* the file it is two ahead of it, otherwise one, and a host that opens    *)
(* the session meets no writer that could still move the file.             *)

Orderly == Faults \subseteq {"diskfull"}

Behind(p) == pc[p] \in {"append", "write"}

CounterInv ==
  /\ tail = "clean"
  /\ \A p \in Proc : pc[p] \in Opening \cup Active =>
       nextSeq[p] = Len(log) + (IF Behind(p) THEN 2 ELSE 1)
  /\ \A p, q \in Proc : pc[p] \in Opening => pc[q] \notin Active

(* Replay of a contiguous log ends at its length.                          *)
LEMMA ContiguousLast ==
  ASSUME NEW l \in Seq(Lines), Contiguous(l)
  PROVE  LastSeq(l) = Len(l)
<1>l. Len(l) \in Nat
  BY LenProperties
<1>1. ASSUME NEW i \in 1 .. Len(l)
      PROVE  i \in KeptLines(l)
  BY <1>l DEF Contiguous, KeptLines, Kept
<1>2. ASSUME NEW i \in 1 .. Len(l)
      PROVE  LastKept(l, i) <=> i = Len(l)
  BY <1>l, <1>1 DEF LastKept, KeptLines
<1>3. CASE Len(l) = 0
  <2>1. ~\E i \in 1 .. Len(l) : LastKept(l, i)
    BY <1>3
  <2>2. QED
    BY <1>3, <2>1, Zenon DEF LastSeq
<1>4. CASE Len(l) # 0
  <2> DEFINE last == CHOOSE i \in 1 .. Len(l) : LastKept(l, i)
  <2>1. Len(l) \in 1 .. Len(l)
    BY <1>l, <1>4
  <2>2. last = Len(l)
    BY <2>1, <1>2
  <2>3. LastSeq(l) = l[last].seq
    BY <2>1, <1>2, Zenon DEF LastSeq
  <2> HIDE DEF last
  <2>4. QED
    BY <2>1, <2>2, <2>3 DEF Contiguous
<1>5. QED
  BY <1>3, <1>4

LEMMA ContiguousAppend ==
  ASSUME NEW l \in Seq(Lines), Contiguous(l), NEW p \in Proc
  PROVE  /\ Contiguous(Append(l, Line(p, Len(l) + 1, "json")))
         /\ Len(Append(l, Line(p, Len(l) + 1, "json"))) = Len(l) + 1
<1>1. Line(p, Len(l) + 1, "json") \in Lines
  BY LenProperties DEF Lines, Line, Texts
<1>2. QED
  BY <1>1, AppendProperties, LenProperties DEF Contiguous, Line

LEMMA CounterStep ==
  ASSUME Orderly
  PROVE  /\ TypeOK /\ OwnerInv /\ LogContiguous /\ CounterInv
         /\ [Next]_vars
         => LogContiguous' /\ CounterInv'
<1> SUFFICES ASSUME TypeOK, OwnerInv, LogContiguous, CounterInv, [Next]_vars
             PROVE  LogContiguous' /\ CounterInv'
  OBVIOUS
<1>t. /\ pc \in [Proc -> State] /\ log \in Seq(Lines) /\ Len(log) \in Nat
      /\ nextSeq \in [Proc -> Nat \ {0}]
  BY LenProperties DEF TypeOK
<1>c. \A f \in {"overlap", "torn", "race"} : f \notin Faults
  BY DEF Orderly
<1>o. /\ LockNamesOwner /\ OneOpening /\ TakeFindsNoOwner
      /\ \A p, q \in Proc : pc[p] \in Active /\ pc[q] \in Active => p = q
  BY LockFacts DEF OwnerInv, LockNamesOwner
<1> USE DEF LogContiguous, CounterInv, Behind, Goto, Opening, Active
<1>1. ASSUME NEW p \in Proc, ReadLog(p)
      PROVE  LogContiguous' /\ CounterInv'
  <2>1. LastSeq(log) = Len(log)
    BY <1>t, ContiguousLast
  <2>2. QED
    BY <1>1, <1>t, <1>c, <2>1 DEF ReadLog
<1>2. ASSUME NEW p \in Proc, CreateLock(p) \/ TakeLock(p)
      PROVE  LogContiguous' /\ CounterInv'
  BY <1>2, <1>t, <1>o DEF CreateLock, TakeLock, OneOpening
<1>3. ASSUME NEW p \in Proc, LockExists(p) \/ JudgeTakeover(p) \/ Refuse(p)
      PROVE  LogContiguous' /\ CounterInv'
  BY <1>3, <1>t DEF LockExists, JudgeTakeover, Refuse
<1>4. ASSUME NEW p \in Proc, Enqueue(p)
      PROVE  LogContiguous' /\ CounterInv'
  BY <1>4, <1>t DEF Enqueue
<1>5. ASSUME NEW p \in Proc, Heartbeat(p) \/ HeartbeatLands(p)
      PROVE  LogContiguous' /\ CounterInv'
  BY <1>5, <1>t DEF Heartbeat, HeartbeatLands
<1>6. ASSUME NEW p \in Proc, AppendLine(p)
      PROVE  LogContiguous' /\ CounterInv'
  <2>1. nextSeq[p] - 1 = Len(log) + 1
    BY <1>6, <1>t DEF AppendLine
  <2>2. log' = Append(log, Line(p, Len(log) + 1, "json"))
    BY <1>6, <2>1 DEF AppendLine, Appended
  <2>3. Contiguous(log') /\ Len(log') = Len(log) + 1
    BY <1>t, <2>2, ContiguousAppend
  <2>4. \A q \in Proc : q # p => pc[q] \notin Opening \cup Active
    BY <1>6, <1>o DEF AppendLine
  <2>5. QED
    BY <1>6, <1>t, <2>3, <2>4 DEF AppendLine
<1>7. ASSUME NEW p \in Proc,
             Acknowledge(p) \/ AppendFails(p) \/ Close(p) \/ RemoveLock(p)
      PROVE  LogContiguous' /\ CounterInv'
  BY <1>7, <1>t, <1>c DEF Acknowledge, AppendFails, Close, RemoveLock
<1>8. ASSUME NEW p \in Proc, Crash(p)
      PROVE  LogContiguous' /\ CounterInv'
  BY <1>8, <1>t, <1>c DEF Crash
<1>9. ASSUME NEW p \in Proc, ReusePid(p)
      PROVE  LogContiguous' /\ CounterInv'
  BY <1>9 DEF ReusePid
<1>10. ASSUME Age \/ SweepJudge \/ SweepRemove
       PROVE  LogContiguous' /\ CounterInv'
  BY <1>10 DEF Age, SweepJudge, SweepRemove
<1>11. CASE UNCHANGED vars
  BY <1>11 DEF vars
<1>12. QED
  BY <1>1, <1>2, <1>3, <1>4, <1>5, <1>6, <1>7, <1>8, <1>9, <1>10, <1>11
  DEF Next, Open, Write

LEMMA CounterInductive ==
  ASSUME Orderly
  PROVE  Spec => [](LogContiguous /\ CounterInv)
<1>1. Init => LogContiguous /\ CounterInv
  <2>1. ASSUME Init
        PROVE  log = <<>> /\ Len(log) = 0 /\ tail = "clean"
               /\ \A p \in Proc : pc[p] = "idle"
    BY <2>1, EmptySeq DEF Init
  <2>2. QED
    BY <2>1 DEF LogContiguous, Contiguous, CounterInv, Opening, Active
<1>2. Calm
  BY DEF Orderly, Calm
<1>3. Spec => []TypeOK /\ []OwnerInv
  BY <1>2, TypeCorrect, OwnerInductive, PTL
<1>4. QED
  BY <1>1, <1>3, CounterStep, PTL DEF Spec

(* In a session whose hosts come one after another, replay never has to    *)
(* skip a line: across closes, crashes between two lines, failed appends,  *)
(* takeovers and sweeps the file is 1..n.                                  *)
THEOREM Sequenced ==
  ASSUME Orderly
  PROVE  Spec => []LogContiguous
BY CounterInductive, PTL

-----------------------------------------------------------------------------
(*                     Refinement of the abstract journal                  *)

LEMMA OwnerValue ==
  ASSUME SingleOwner
  PROVE  /\ \A p \in Proc : pc[p] \in Active => Owner = p
         /\ (\A p \in Proc : pc[p] \notin Active) => Owner = NoProc
<1>1. ASSUME NEW p \in Proc, pc[p] \in Active
      PROVE  Owner = p
  <2>1. \A q \in Proc : pc[q] \in Active <=> q = p
    BY <1>1 DEF SingleOwner
  <2>2. Owner = CHOOSE q \in Proc : pc[q] \in Active
    BY <1>1, Zenon DEF Owner
  <2> HIDE DEF Active
  <2>3. QED
    BY <1>1, <2>1, <2>2
<1>2. ASSUME \A p \in Proc : pc[p] \notin Active
      PROVE  Owner = NoProc
  BY <1>2, Zenon DEF Owner
<1>3. QED
  BY <1>1, <1>2

(* A function on 1..n is a sequence of length n.                           *)
LEMMA FunctionIsSeq ==
  ASSUME NEW S, NEW n \in Nat, NEW f \in [1 .. n -> S]
  PROVE  f \in Seq(S) /\ Len(f) = n
BY SMT

(* The authors of a log's lines.                                           *)
Authors(l) == [i \in 1 .. Len(l) |-> l[i].by]

LEMMA AuthorsType ==
  ASSUME NEW l \in Seq(Lines)
  PROVE  Authors(l) \in Seq(Proc) /\ Len(Authors(l)) = Len(l)
<1>1. Len(l) \in Nat
  BY LenProperties
<1>2. ASSUME NEW i \in 1 .. Len(l)
      PROVE  l[i].by \in Proc
  <2>1. l[i] \in Lines
    BY ElementOfSeq
  <2>2. QED
    BY <2>1 DEF Lines
<1>3. Authors(l) \in [1 .. Len(l) -> Proc]
  BY <1>2 DEF Authors
<1> HIDE DEF Authors
<1>4. QED
  BY <1>1, <1>3, FunctionIsSeq

LEMMA AuthorsAppend ==
  ASSUME NEW l \in Seq(Lines), NEW line \in Lines
  PROVE  Authors(Append(l, line)) = Append(Authors(l), line.by)
<1> DEFINE m == Append(l, line)
           a == Append(Authors(l), line.by)
<1>1. /\ m \in Seq(Lines) /\ Len(m) = Len(l) + 1
      /\ \A i \in 1 .. Len(l) : m[i] = l[i]
      /\ m[Len(l) + 1] = line
  BY AppendProperties
<1>2. Authors(m) \in Seq(Proc) /\ Len(Authors(m)) = Len(l) + 1
  BY <1>1, AuthorsType
<1>3. line.by \in Proc /\ Len(l) \in Nat
  BY LenProperties DEF Lines
<1>4. /\ a \in Seq(Proc) /\ Len(a) = Len(l) + 1
      /\ \A i \in 1 .. Len(l) : a[i] = Authors(l)[i]
      /\ a[Len(l) + 1] = line.by
  BY <1>3, AuthorsType, AppendProperties
<1> HIDE DEF m, a
<1>5. \A i \in 1 .. Len(l) + 1 : Authors(m)[i] = a[i]
  BY <1>1, <1>3, <1>4 DEF Authors
<1>6. Authors(m) = a
  BY <1>2, <1>4, <1>5, SeqEqual
<1>7. QED
  BY <1>6 DEF m, a

(* Every line of a contiguous log is replayed, under its author.           *)
LEMMA AllKept ==
  ASSUME NEW l \in Seq(Lines), Contiguous(l), NEW i \in 1 .. Len(l)
  PROVE  Kept(l, i)
BY LenProperties DEF Contiguous, Kept

LEMMA ReplayedContiguous ==
  ASSUME LogContiguous, log \in Seq(Lines)
  PROVE  Replayed = Authors(log)
BY AllKept DEF LogContiguous, Replayed, Authors

LEMMA OwnerSteps ==
  ASSUME SingleOwner, SingleOwner', TypeOK, TypeOK'
  PROVE  /\ (pc' = pc) => Owner' = Owner
         /\ \A p \in Proc, s \in State :
              pc' = [pc EXCEPT ![p] = s] =>
                /\ (pc[p] \in Active /\ s \in Active) \/ (pc[p] \notin Active /\ s \notin Active)
                     => Owner' = Owner
                /\ pc[p] \notin Active /\ s \in Active => Owner = NoProc /\ Owner' = p
                /\ pc[p] \in Active /\ s \notin Active => Owner = p /\ Owner' = NoProc
<1>1. ASSUME pc' = pc
      PROVE  Owner' = Owner
  BY <1>1, Zenon DEF Owner
<1>o. /\ \A p \in Proc : pc'[p] \in Active => Owner' = p
      /\ (\A p \in Proc : pc'[p] \notin Active) => Owner' = NoProc
  <2>1. ASSUME NEW p \in Proc, pc'[p] \in Active
        PROVE  Owner' = p
    <3>1. \A q \in Proc : pc'[q] \in Active <=> q = p
      BY <2>1 DEF SingleOwner, Active
    <3>2. Owner' = CHOOSE q \in Proc : pc'[q] \in Active
      BY <2>1, Zenon DEF Owner, Active
    <3>3. QED
      BY <2>1, <3>1, <3>2
  <2>2. ASSUME \A p \in Proc : pc'[p] \notin Active
        PROVE  Owner' = NoProc
    BY <2>2, Zenon DEF Owner, Active
  <2>3. QED
    BY <2>1, <2>2
<1>2. ASSUME NEW p \in Proc, NEW s \in State, pc' = [pc EXCEPT ![p] = s]
      PROVE  /\ \A q \in Proc : q # p => pc'[q] = pc[q]
             /\ pc'[p] = s
  BY <1>2 DEF TypeOK
<1>3. QED
  BY <1>1, <1>2, <1>o, OwnerValue DEF SingleOwner

LEMMA JournalStep ==
  ASSUME Orderly
  PROVE  /\ TypeOK /\ TypeOK' /\ SingleOwner /\ SingleOwner'
         /\ LogContiguous /\ LogContiguous' /\ CounterInv
         /\ [Next]_vars
         => [Implemented!JNext]_(Implemented!jvars)
<1> SUFFICES ASSUME TypeOK, TypeOK', SingleOwner, SingleOwner',
                    LogContiguous, LogContiguous', CounterInv, [Next]_vars
             PROVE  [Implemented!JNext]_(Implemented!jvars)
  OBVIOUS
<1> DEFINE Stutter == Owner' = Owner /\ Replayed' = Replayed
<1>t. pc \in [Proc -> State] /\ log \in Seq(Lines) /\ log' \in Seq(Lines)
      /\ Len(log) \in Nat /\ nextSeq \in [Proc -> Nat \ {0}]
  BY LenProperties DEF TypeOK
<1>s. Stutter => [Implemented!JNext]_(Implemented!jvars)
  BY DEF Implemented!jvars
<1>r. UNCHANGED log => Replayed' = Replayed
  BY DEF Replayed, Kept
<1>c. "torn" \notin Faults
  BY DEF Orderly
<1>w. \A p \in Proc, s \in State :
        /\ pc' = [pc EXCEPT ![p] = s] /\ UNCHANGED log
        => [Implemented!JNext]_(Implemented!jvars)
  <2> SUFFICES ASSUME NEW p \in Proc, NEW s \in State,
                      pc' = [pc EXCEPT ![p] = s], UNCHANGED log
               PROVE  [Implemented!JNext]_(Implemented!jvars)
    OBVIOUS
  <2>1. CASE pc[p] \in Active <=> s \in Active
    BY <2>1, <1>s, <1>r, OwnerSteps
  <2>2. CASE pc[p] \notin Active /\ s \in Active
    BY <2>2, <1>r, OwnerSteps DEF Implemented!JNext, Implemented!Acquire
  <2>3. CASE pc[p] \in Active /\ s \notin Active
    BY <2>3, <1>r, OwnerSteps DEF Implemented!JNext, Implemented!Leave
  <2>4. QED
    BY <2>1, <2>2, <2>3
<1>k. pc' = pc /\ UNCHANGED log => [Implemented!JNext]_(Implemented!jvars)
  BY <1>s, <1>r, OwnerSteps
<1> USE ControlStates DEF Goto
<1>1. ASSUME NEW p \in Proc, ReadLog(p) \/ Open(p)
      PROVE  [Implemented!JNext]_(Implemented!jvars)
  BY <1>1, <1>w
  DEF ReadLog, Open, CreateLock, LockExists, JudgeTakeover, Refuse, TakeLock
<1>2. ASSUME NEW p \in Proc, HeartbeatLands(p) \/ ReusePid(p)
      PROVE  [Implemented!JNext]_(Implemented!jvars)
  BY <1>2, <1>k DEF HeartbeatLands, ReusePid
<1>3. ASSUME NEW p \in Proc,
             Enqueue(p) \/ Heartbeat(p) \/ Acknowledge(p) \/ AppendFails(p)
             \/ Close(p) \/ RemoveLock(p) \/ Crash(p)
      PROVE  [Implemented!JNext]_(Implemented!jvars)
  BY <1>3, <1>w, <1>c
  DEF Enqueue, Heartbeat, Acknowledge, AppendFails, Close, RemoveLock, Crash
<1>4. ASSUME NEW p \in Proc, AppendLine(p)
      PROVE  [Implemented!JNext]_(Implemented!jvars)
  <2>1. nextSeq[p] - 1 = Len(log) + 1 /\ tail = "clean"
    BY <1>4, <1>t DEF AppendLine, CounterInv, Behind, Opening, Active
  <2> DEFINE line == Line(p, Len(log) + 1, "json")
  <2>2. log' = Append(log, line)
    BY <1>4, <2>1 DEF AppendLine, Appended
  <2>3. line \in Lines /\ line.by = p
    BY <1>t DEF Lines, Line, Texts
  <2> HIDE DEF line
  <2>4. Replayed = Authors(log)
    BY <1>t, ReplayedContiguous
  <2>5. Replayed' = Authors(log')
    BY <1>t, AllKept DEF LogContiguous, Replayed, Authors
  <2>6. Replayed' = Append(Replayed, p)
    BY <1>t, <2>2, <2>3, <2>4, <2>5, AuthorsAppend
  <2>7. Owner = p /\ Owner' = Owner
    BY <1>4, OwnerSteps, OwnerValue DEF AppendLine, Active
  <2>8. QED
    BY <2>6, <2>7 DEF Implemented!JNext, Implemented!Record
<1>5. ASSUME Age \/ SweepJudge \/ SweepRemove
      PROVE  [Implemented!JNext]_(Implemented!jvars)
  BY <1>5, <1>k DEF Age, SweepJudge, SweepRemove
<1>6. CASE UNCHANGED vars
  BY <1>6, <1>k DEF vars
<1>7. QED
  BY <1>1, <1>2, <1>3, <1>4, <1>5, <1>6 DEF Next, Write

(* In the same sessions, lock and log together implement the abstract      *)
(* journal: one owner at a time, only the owner adds events, and what was  *)
(* once added stays visible to replay.                                     *)
THEOREM JournalImplemented ==
  ASSUME Orderly
  PROVE  Spec => ImplementsJournal
<1>1. Calm
  BY DEF Orderly, Calm
<1>2. Init => Implemented!JInit
  <2>1. ASSUME Init
        PROVE  Owner = NoProc
    BY <2>1, Zenon DEF Init, Owner, Active
  <2>2. ASSUME Init
        PROVE  Replayed = <<>>
    BY <2>2, EmptySeq DEF Init, Replayed
  <2>3. QED
    BY <2>1, <2>2 DEF Implemented!JInit
<1>3. Spec => []TypeOK /\ []SingleOwner /\ [](LogContiguous /\ CounterInv)
  BY <1>1, TypeCorrect, Exclusive, CounterInductive, PTL
<1>4. QED
  BY <1>2, <1>3, JournalStep, PTL
  DEF Spec, ImplementsJournal, Implemented!JSpec
=============================================================================
