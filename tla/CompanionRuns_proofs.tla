----------------------- MODULE CompanionRuns_proofs -------------------------
(* Proofs about CompanionRuns, for any folders and keys and any number of  *)
(* runs, lines and remembered runs.                                        *)
EXTENDS CompanionRuns, FiniteSetTheorems, SequenceTheorems, TLAPS

-----------------------------------------------------------------------------
(*                              Typing                                     *)

StatusType == {"awaiting_trust", "running", "completed", "error", "cancelled"}
WorkType == {"none", "child", "failed", "errored", "connecting", "turn",
             "dropping", "disposing", "over", "orphan"}
RunType ==
  [status : StatusType, folder : Folders, key : Keys, lines : Nat, events : Seq(Events)]
PhoneType == [state : {"none", "open", "closed", "replayed"}, seen : Seq(Events)]
SlotType ==
  [run : Ids \cup {0}, session : BOOLEAN, cancelRequested : BOOLEAN, listening : BOOLEAN]
EventTypes == {"log", "line", "cancelling", "error", "run_finished",
               "trust.pending", "trust.settled"}
ServerType == [started : {FALSE, opts.client}, alive : BOOLEAN, sessions : SUBSET Ids]

(* The run in the slot is marked when it is cancelled, and so is a run     *)
(* whose session is disposed of before it had a turn.                      *)
CancelNoted ==
  /\ active.run # 0 => (active.cancelRequested <=> runs[active.run].status = "cancelled")
  /\ \A q \in Ids : work[q] = "dropping" => runs[q].status = "cancelled"

(* The tables have one entry per run.                                      *)
Typed ==
  /\ opts \in Options
  /\ runs \in Seq(RunType)
  /\ work \in Seq(WorkType) /\ Len(work) = Len(runs)
  /\ phone \in Seq(PhoneType) /\ Len(phone) = Len(runs)
  /\ active \in SlotType /\ CancelNoted
  /\ recent \in Seq(Ids) /\ Len(recent) <= opts.recent
  /\ server \in ServerType
  /\ dedup \in [Keys -> Ids \cup {0}]
  /\ Home \subseteq projects /\ projects \subseteq Folders

LEMMA Facts ==
  ASSUME Typed
  PROVE  /\ Len(runs) \in Nat /\ Ids = 1 .. Len(runs)
         /\ \A r \in Ids : runs[r] \in RunType /\ work[r] \in WorkType /\ phone[r] \in PhoneType
         /\ active.run \in Ids \cup {0}
  BY DEF Typed, Ids, SlotType

LEMMA EventTyped ==
  ASSUME Typed, NEW r \in Ids \cup {0}, NEW t \in EventTypes
  PROVE  Event(t, r) \in Events /\ <<Event(t, r)>> \in Seq(Events)
<1>1. r \in Nat
  BY Facts
<1>2. Event(t, r) \in Events
  BY <1>1 DEF Event, Events, EventTypes
<1>3. QED
  BY <1>2

(* What is emitted goes to the run in the slot and to nobody else.         *)
LEMMA EmitFacts ==
  ASSUME NEW rs \in Seq(RunType), active.run \in DOMAIN rs \cup {0}, NEW evs \in Seq(Events)
  PROVE  /\ EmitTo(rs, evs) \in Seq(RunType) /\ Len(EmitTo(rs, evs)) = Len(rs)
         /\ \A q \in DOMAIN rs :
              /\ EmitTo(rs, evs)[q].status = rs[q].status
              /\ EmitTo(rs, evs)[q].folder = rs[q].folder
              /\ EmitTo(rs, evs)[q].key = rs[q].key
              /\ EmitTo(rs, evs)[q].events =
                   IF q = active.run THEN rs[q].events \o evs ELSE rs[q].events
<1>1. CASE active.run = 0
  <2>1. EmitTo(rs, evs) = rs /\ DOMAIN rs = 1 .. Len(rs)
    BY <1>1 DEF EmitTo
  <2>2. 0 \notin DOMAIN rs
    BY <2>1
  <2>3. QED
    BY <1>1, <2>1, <2>2
<1>2. CASE active.run # 0
  <2>1. DOMAIN rs = 1 .. Len(rs) /\ active.run \in DOMAIN rs
    BY <1>2
  <2>2. PICK a \in DOMAIN rs : a = active.run
    BY <2>1
  <2>3. rs[a] \in RunType
    BY <2>1
  <2>4. rs[a].events \o evs \in Seq(Events)
    BY <2>3 DEF RunType
  <2>5. PICK e : e = [rs[a] EXCEPT !.events = @ \o evs]
    OBVIOUS
  <2>6. /\ e \in RunType /\ e.status = rs[a].status /\ e.folder = rs[a].folder
        /\ e.key = rs[a].key /\ e.events = rs[a].events \o evs
    BY <2>3, <2>4, <2>5 DEF RunType
  <2>7. EmitTo(rs, evs) = [rs EXCEPT ![a] = e]
    BY <1>2, <2>2, <2>5 DEF EmitTo
  <2>8. /\ [rs EXCEPT ![a] = e] \in Seq(RunType) /\ Len([rs EXCEPT ![a] = e]) = Len(rs)
        /\ \A q \in DOMAIN rs : [rs EXCEPT ![a] = e][q] = IF q = a THEN e ELSE rs[q]
    BY <2>1, <2>6
  <2>9. QED
    BY <2>2, <2>6, <2>7, <2>8
<1>3. QED
  BY <1>1, <1>2

(* The run in the slot is told, and r has a new status.                    *)
Told(r, st, evs) == runs' = EmitTo([runs EXCEPT ![r].status = st], evs)

LEMMA ToldFacts ==
  ASSUME Typed, NEW r \in Ids, NEW st \in StatusType, NEW evs \in Seq(Events),
         Told(r, st, evs)
  PROVE  /\ runs' \in Seq(RunType) /\ Len(runs') = Len(runs) /\ Ids' = Ids
         /\ \A q \in Ids :
              /\ runs'[q].status = IF q = r THEN st ELSE runs[q].status
              /\ runs'[q].folder = runs[q].folder /\ runs'[q].key = runs[q].key
              /\ runs'[q].events =
                   IF q = active.run THEN runs[q].events \o evs ELSE runs[q].events
<1>1. /\ Len(runs) \in Nat /\ Ids = 1 .. Len(runs) /\ runs[r] \in RunType
      /\ active.run \in Ids \cup {0} /\ runs \in Seq(RunType)
  BY Facts DEF Typed
<1>2. PICK e : e = [runs[r] EXCEPT !.status = st]
  OBVIOUS
<1>3. /\ e \in RunType /\ e.status = st /\ e.folder = runs[r].folder
      /\ e.key = runs[r].key /\ e.events = runs[r].events
  BY <1>1, <1>2 DEF RunType
<1>4. PICK rs : rs = [runs EXCEPT ![r] = e]
  OBVIOUS
<1>5. /\ rs \in Seq(RunType) /\ Len(rs) = Len(runs) /\ DOMAIN rs = Ids
      /\ \A q \in Ids : rs[q] = IF q = r THEN e ELSE runs[q]
  BY <1>1, <1>3, <1>4
<1>6. runs' = EmitTo(rs, evs)
  BY <1>2, <1>4 DEF Told
<1>7. /\ runs' \in Seq(RunType) /\ Len(runs') = Len(runs)
      /\ \A q \in Ids :
              /\ runs'[q].status = rs[q].status
              /\ runs'[q].folder = rs[q].folder
              /\ runs'[q].key = rs[q].key
              /\ runs'[q].events =
                   IF q = active.run THEN rs[q].events \o evs ELSE rs[q].events
  BY <1>1, <1>5, <1>6, EmitFacts
<1>8. Ids' = Ids
  BY <1>1, <1>7 DEF Ids
<1>9. QED
  BY <1>3, <1>5, <1>7, <1>8

(* Who listens to the run in the slot is shown what it is told.            *)
LEMMA ShownFacts ==
  ASSUME Typed, NEW evs \in Seq(Events), phone' = ShownOn(phone, evs)
  PROVE  /\ phone' \in Seq(PhoneType) /\ Len(phone') = Len(phone)
         /\ \A q \in Ids :
              /\ phone'[q].state = phone[q].state
              /\ phone'[q].seen = IF q = active.run /\ active.listening
                                  THEN phone[q].seen \o evs ELSE phone[q].seen
<1>1. /\ Len(runs) \in Nat /\ Ids = 1 .. Len(runs) /\ phone \in Seq(PhoneType)
      /\ active.run \in Ids \cup {0} /\ Len(phone) = Len(runs)
      /\ \A q \in Ids : phone[q] \in PhoneType
  BY Facts DEF Typed
<1>2. CASE active.run = 0 \/ ~active.listening
  BY <1>1, <1>2 DEF ShownOn
<1>3. CASE active.run # 0 /\ active.listening
  <2>1. PICK a \in Ids : a = active.run
    BY <1>1, <1>3
  <2>2. PICK e : e = [phone[a] EXCEPT !.seen = @ \o evs]
    OBVIOUS
  <2>3. phone[a].seen \o evs \in Seq(Events)
    BY <1>1 DEF PhoneType
  <2>4. e \in PhoneType /\ e.state = phone[a].state /\ e.seen = phone[a].seen \o evs
    BY <1>1, <2>2, <2>3 DEF PhoneType
  <2>5. phone' = [phone EXCEPT ![a] = e]
    BY <1>3, <2>1, <2>2 DEF ShownOn
  <2>6. /\ phone' \in Seq(PhoneType) /\ Len(phone') = Len(phone)
        /\ \A q \in Ids : phone'[q] = IF q = a THEN e ELSE phone[q]
    BY <1>1, <2>4, <2>5
  <2>7. QED
    BY <1>3, <2>1, <2>4, <2>6
<1>4. QED
  BY <1>2, <1>3

(* A line is told as well, and counted.                                    *)
Counts(r, evs) == runs' = EmitTo([runs EXCEPT ![r].lines = @ + 1], evs)

LEMMA LineFacts ==
  ASSUME Typed, NEW r \in Ids, NEW evs \in Seq(Events),
         Counts(r, evs)
  PROVE  /\ runs' \in Seq(RunType) /\ Len(runs') = Len(runs) /\ Ids' = Ids
         /\ \A q \in Ids :
              /\ runs'[q].status = runs[q].status
              /\ runs'[q].folder = runs[q].folder /\ runs'[q].key = runs[q].key
              /\ runs'[q].events =
                   IF q = active.run THEN runs[q].events \o evs ELSE runs[q].events
<1>1. /\ Len(runs) \in Nat /\ Ids = 1 .. Len(runs) /\ runs[r] \in RunType
      /\ active.run \in Ids \cup {0} /\ runs \in Seq(RunType)
  BY Facts DEF Typed
<1>2. PICK n \in Nat, e \in {[runs[r] EXCEPT !.lines = runs[r].lines + 1]} :
        e = [runs[r] EXCEPT !.lines = n]
  <2>1. runs[r].lines + 1 \in Nat
    BY <1>1 DEF RunType
  <2>2. QED
    BY <2>1
<1>3. /\ e \in RunType /\ e.status = runs[r].status /\ e.folder = runs[r].folder
      /\ e.key = runs[r].key /\ e.events = runs[r].events
  BY <1>1, <1>2 DEF RunType
<1>4. PICK rs : rs = [runs EXCEPT ![r] = e]
  OBVIOUS
<1>5. /\ rs \in Seq(RunType) /\ Len(rs) = Len(runs) /\ DOMAIN rs = Ids
      /\ \A q \in Ids : rs[q] = IF q = r THEN e ELSE runs[q]
  BY <1>1, <1>3, <1>4
<1>6. runs' = EmitTo(rs, evs)
  BY <1>2, <1>4 DEF Counts
<1>7. /\ runs' \in Seq(RunType) /\ Len(runs') = Len(runs)
      /\ \A q \in Ids :
              /\ runs'[q].status = rs[q].status
              /\ runs'[q].folder = rs[q].folder
              /\ runs'[q].key = rs[q].key
              /\ runs'[q].events =
                   IF q = active.run THEN rs[q].events \o evs ELSE rs[q].events
  BY <1>1, <1>5, <1>6, EmitFacts
<1>8. Ids' = Ids
  BY <1>1, <1>7 DEF Ids
<1>9. QED
  BY <1>3, <1>5, <1>7, <1>8

(* The slot is empty, its run is the first of the remembered ones, and     *)
(* nobody else is.                                                         *)
LEMMA FinishFacts ==
  ASSUME Typed, FinishActive
  PROVE  /\ active' = NoRun
         /\ recent' \in Seq(Ids) /\ Len(recent') <= opts.recent
         /\ Range(recent') \subseteq Known
         /\ \A i \in 1 .. Len(recent') :
              recent'[i] = IF active.run = 0 THEN recent[i]
                           ELSE IF i = 1 THEN active.run ELSE recent[i - 1]
         /\ Len(recent') <= Len(recent) + (IF active.run = 0 THEN 0 ELSE 1)
<1>1. /\ active' = NoRun /\ opts \in Options /\ opts.recent \in Nat
      /\ recent \in Seq(Ids) /\ Len(recent) <= opts.recent /\ Len(recent) \in Nat
      /\ active.run \in Ids \cup {0}
  BY Facts, OptionsAssumption DEF FinishActive, Typed
<1>2. CASE active.run = 0
  <2>1. recent' = recent
    BY <1>2 DEF FinishActive
  <2>2. QED
    BY <1>1, <1>2, <2>1 DEF Known
<1>3. CASE active.run # 0
  <2>1. PICK list : list = <<active.run>> \o recent
    OBVIOUS
  <2>2. /\ list \in Seq(Ids) /\ Len(list) = Len(recent) + 1
        /\ \A i \in 1 .. Len(list) : list[i] = IF i = 1 THEN active.run ELSE recent[i - 1]
    BY <1>1, <1>3, <2>1
  <2>3. PICK n : n = IF Len(list) > opts.recent THEN opts.recent ELSE Len(list)
    OBVIOUS
  <2>4. n \in Nat /\ n <= Len(list) /\ n <= opts.recent
    BY <1>1, <2>2, <2>3
  <2>5. recent' = SubSeq(list, 1, n)
    BY <1>3, <2>1, <2>3 DEF FinishActive
  <2>6. /\ recent' \in Seq(Ids) /\ Len(recent') = n
        /\ \A i \in 1 .. n : recent'[i] = list[i]
    BY <2>2, <2>4, <2>5
  <2>7. \A i \in 1 .. n : recent'[i] = IF i = 1 THEN active.run ELSE recent[i - 1]
    BY <2>2, <2>4, <2>6
  <2>8. Range(recent') \subseteq Known
    <3>1. \A i \in 1 .. n : i = 1 \/ i - 1 \in DOMAIN recent
      BY <1>1, <2>2, <2>4
    <3>2. \A i \in 1 .. n : recent'[i] \in {active.run} \cup Range(recent)
      BY <2>7, <3>1 DEF Range
    <3>3. DOMAIN recent' = 1 .. n
      BY <2>6
    <3>4. QED
      BY <1>3, <3>2, <3>3 DEF Range, Known
  <2>9. QED
    BY <1>1, <1>3, <2>2, <2>4, <2>6, <2>7, <2>8
<1>4. QED
  BY <1>2, <1>3

(* Nothing but the runs' own state changes.                                *)
LEMMA TypedTold ==
  ASSUME Typed, UNCHANGED <<opts, dedup, projects>>,
         runs' \in Seq(RunType), Len(runs') = Len(runs),
         phone' \in Seq(PhoneType), Len(phone') = Len(phone),
         work' \in Seq(WorkType), Len(work') = Len(work),
         active' \in SlotType, CancelNoted',
         recent' \in Seq(Ids), Len(recent') <= opts.recent,
         server' \in ServerType
  PROVE  Typed'
<1>1. Ids' = Ids
  BY Facts DEF Ids
<1>2. SlotType' = SlotType /\ ServerType' = ServerType
  BY <1>1 DEF SlotType, ServerType
<1>3. QED
  BY <1>1, <1>2 DEF Typed

LEMMA WorkTyped ==
  ASSUME Typed, NEW r \in Ids, NEW w \in WorkType, work' = [work EXCEPT ![r] = w]
  PROVE  /\ work' \in Seq(WorkType) /\ Len(work') = Len(work)
         /\ \A q \in Ids : work'[q] = IF q = r THEN w ELSE work[q]
<1>1. work \in Seq(WorkType) /\ Ids = 1 .. Len(work)
  BY Facts DEF Typed
<1>2. QED
  BY <1>1

LEMMA NoRunTyped == NoRun \in SlotType
  BY DEF NoRun, SlotType

LEMMA PostTyped ==
  ASSUME Typed, NEW k \in Keys, NEW f \in Folders, Post(k, f)
  PROVE  /\ Typed'
         /\ Len(runs') = Len(runs) + 1 /\ Ids' = Ids \cup {Len(runs) + 1}
         /\ \A q \in Ids : runs'[q] = runs[q] /\ work'[q] = work[q] /\ phone'[q] = phone[q]
         /\ LET r == Len(runs) + 1
            IN /\ runs'[r].folder = f /\ runs'[r].key = k
               /\ Len(runs'[r].events) = 1 /\ runs'[r].events[1].of = r
               /\ runs'[r].events[1].type # "run_finished"
               /\ phone'[r].state = "none"
               /\ IF Parks(f) THEN runs'[r].status = "awaiting_trust" /\ work'[r] = "none"
                  ELSE runs'[r].status = "running" /\ work'[r] \in Launched(r)
               /\ active' = Slot(r, FALSE)
<1>1. /\ Len(runs) \in Nat /\ Ids = 1 .. Len(runs) /\ runs \in Seq(RunType)
      /\ work \in Seq(WorkType) /\ Len(work) = Len(runs)
      /\ phone \in Seq(PhoneType) /\ Len(phone) = Len(runs)
  BY Facts DEF Typed
<1>2. PICK r : r = Len(runs) + 1
  OBVIOUS
<1>3. PICK e : e = Event(IF Parks(f) THEN "trust.pending" ELSE "log", r)
  OBVIOUS
<1>4. e \in Events /\ e.of = r /\ e.type # "run_finished" /\ r \in Nat
  BY <1>1, <1>2, <1>3 DEF Event, Events
<1>5. PICK v : v = [status |-> IF Parks(f) THEN "awaiting_trust" ELSE "running",
                    folder |-> f, key |-> k, lines |-> 0, events |-> <<e>>]
  OBVIOUS
<1>6. v \in RunType
  BY <1>4, <1>5 DEF RunType, StatusType
<1>7. PICK w \in Launched(r) : work' = Append(work, IF Parks(f) THEN "none" ELSE w)
  BY <1>2 DEF Post
<1>8. w \in WorkType
  BY <1>7 DEF Launched, WorkType
<1>9. PICK x : x = IF Parks(f) THEN "none" ELSE w
  OBVIOUS
<1>10. x \in WorkType
  BY <1>8, <1>9 DEF WorkType
<1>11. PICK y : y = [state |-> "none", seen |-> <<>>]
  OBVIOUS
<1>12. y \in PhoneType /\ y.state = "none"
  BY <1>11 DEF PhoneType
<1>13. /\ runs' = Append(runs, v) /\ work' = Append(work, x) /\ phone' = Append(phone, y)
       /\ active' = Slot(r, FALSE) /\ dedup' = [dedup EXCEPT ![k] = r]
       /\ server' \in {server, Reached}
       /\ UNCHANGED <<opts, recent, projects>>
  BY <1>2, <1>3, <1>5, <1>7, <1>9, <1>11 DEF Post
<1>14. /\ runs' \in Seq(RunType) /\ Len(runs') = r /\ runs'[r] = v
       /\ work' \in Seq(WorkType) /\ Len(work') = r /\ work'[r] = x
       /\ phone' \in Seq(PhoneType) /\ Len(phone') = r /\ phone'[r] = y
       /\ \A q \in Ids : runs'[q] = runs[q] /\ work'[q] = work[q] /\ phone'[q] = phone[q]
  BY <1>1, <1>2, <1>6, <1>10, <1>12, <1>13
<1>15. Ids' = Ids \cup {r} /\ r \in Ids'
  BY <1>1, <1>2, <1>14 DEF Ids
<1>16. active' \in SlotType'
  BY <1>13, <1>15 DEF Slot, NoRun, SlotType
<1>17. recent' \in Seq(Ids') /\ Len(recent') <= opts'.recent
  BY <1>13, <1>15 DEF Typed
<1>18. server' \in ServerType'
  <2>1. server \in ServerType /\ Reached \in ServerType
    BY OptionsAssumption DEF Typed, ServerType, Reached
  <2>2. ServerType \subseteq ServerType'
    BY <1>13, <1>15 DEF ServerType
  <2>3. QED
    BY <1>13, <2>1, <2>2
<1>19. dedup' \in [Keys -> Ids' \cup {0}]
  BY <1>13, <1>15 DEF Typed
<1>20. /\ v.folder = f /\ v.key = k /\ Len(v.events) = 1 /\ v.events[1] = e
       /\ v.status = IF Parks(f) THEN "awaiting_trust" ELSE "running"
  BY <1>5
<1>21. Typed'
  <2>1. CancelNoted'
    <3>1. work'[r] # "dropping"
      BY <1>7, <1>9, <1>14 DEF Launched
    <3>2. \A q \in Ids' : work'[q] = "dropping" => runs'[q].status = "cancelled"
      BY <1>14, <1>15, <3>1 DEF Typed, CancelNoted
    <3>3. QED
      BY <1>13, <1>14, <1>20, <3>2 DEF CancelNoted, Slot, NoRun
  <2>2. QED
    BY <1>13, <1>14, <1>16, <1>17, <1>18, <1>19, <2>1 DEF Typed
<1>22. QED
  BY <1>2, <1>4, <1>7, <1>9, <1>12, <1>13, <1>14, <1>15, <1>20, <1>21

(* r has a new status, the run in the slot is told evs, and so is who      *)
(* listens to it.                                                          *)
Spoken(r, st, evs) ==
  \A q \in Ids :
    /\ runs'[q].status = IF q = r THEN st ELSE runs[q].status
    /\ runs'[q].folder = runs[q].folder /\ runs'[q].key = runs[q].key
    /\ runs'[q].events = IF q = active.run THEN runs[q].events \o evs ELSE runs[q].events
    /\ phone'[q].state = phone[q].state
    /\ phone'[q].seen = IF q = active.run /\ active.listening
                        THEN phone[q].seen \o evs ELSE phone[q].seen

Approved(evs) ==
  /\ \A i \in 1 .. Len(evs) : evs[i].of = active.run /\ evs[i].type # "run_finished"
  /\ Spoken(active.run, "running", evs)

LEMMA ApproveTyped ==
  ASSUME Typed, Approve
  PROVE  /\ Typed' /\ Parked /\ active.run \in Ids /\ Ids' = Ids
         /\ projects' = projects \cup {runs[active.run].folder}
         /\ \E w \in Launched(active.run) : \A q \in Ids :
              work'[q] = IF q = active.run THEN w ELSE work[q]
         /\ \E evs \in Seq(Events) : Approved(evs)
         /\ active' = Slot(active.run, active.listening)
<1>1. /\ active \in SlotType /\ Len(runs) \in Nat /\ Ids = 1 .. Len(runs)
      /\ \A q \in Ids : runs[q] \in RunType
  BY Facts DEF Typed
<1>2. PICK r \in Ids : r = active.run
  BY <1>1 DEF Approve, Parked, SlotType
<1>3. PICK evs : evs = <<Event("trust.settled", r), Event("log", r)>>
  OBVIOUS
<1>4. /\ evs \in Seq(Events)
      /\ \A i \in 1 .. Len(evs) : evs[i].of = r /\ evs[i].type # "run_finished"
  <2>1. Event("trust.settled", r) \in Events /\ Event("log", r) \in Events
    BY EventTyped DEF EventTypes
  <2>2. Len(evs) = 2 /\ evs[1] = Event("trust.settled", r) /\ evs[2] = Event("log", r)
    BY <1>3
  <2>3. QED
    BY <1>3, <2>1, <2>2 DEF Event
<1>5. PICK w \in Launched(r) : work' = [work EXCEPT ![r] = w]
  BY <1>2 DEF Approve
<1>6. w \in WorkType
  BY <1>5 DEF Launched, WorkType
<1>7. /\ work' \in Seq(WorkType) /\ Len(work') = Len(work)
      /\ \A q \in Ids : work'[q] = IF q = r THEN w ELSE work[q]
  BY <1>5, <1>6, WorkTyped
<1>8. Told(r, "running", evs)
  BY <1>2, <1>3 DEF Approve, Told
<1>9. /\ runs' \in Seq(RunType) /\ Len(runs') = Len(runs) /\ Ids' = Ids
      /\ \A q \in Ids :
           /\ runs'[q].status = IF q = r THEN "running" ELSE runs[q].status
           /\ runs'[q].folder = runs[q].folder /\ runs'[q].key = runs[q].key
           /\ runs'[q].events =
                IF q = active.run THEN runs[q].events \o evs ELSE runs[q].events
  BY <1>4, <1>8, ToldFacts DEF StatusType
<1>10. phone' = ShownOn(phone, evs)
  BY <1>2, <1>3 DEF Approve
<1>11. /\ phone' \in Seq(PhoneType) /\ Len(phone') = Len(phone)
       /\ \A q \in Ids :
            /\ phone'[q].state = phone[q].state
            /\ phone'[q].seen = IF q = active.run /\ active.listening
                                THEN phone[q].seen \o evs ELSE phone[q].seen
  BY <1>4, <1>10, ShownFacts
<1>12. active' = Slot(active.run, active.listening) /\ Parked
       /\ projects' = projects \cup {runs[active.run].folder}
       /\ server' = Reached /\ UNCHANGED <<opts, recent, dedup>>
  BY DEF Approve
<1>13. active' \in SlotType
  BY <1>1, <1>2, <1>12 DEF Slot, NoRun, SlotType
<1>14. SlotType' = SlotType
  BY <1>9 DEF SlotType
<1>15. projects' \subseteq Folders /\ Home \subseteq projects'
  BY <1>1, <1>2, <1>12 DEF Typed, RunType
<1>16. Typed'
  <2>1. CancelNoted'
    <3>1. \A q \in Ids : work'[q] = "dropping" => q # r /\ work[q] = "dropping"
      BY <1>5, <1>7 DEF Launched
    <3>2. \A q \in Ids : work'[q] = "dropping" => runs'[q].status = "cancelled"
      BY <1>9, <3>1 DEF Typed, CancelNoted
    <3>3. QED
      BY <1>2, <1>9, <1>12, <3>2 DEF CancelNoted, Slot, NoRun
  <2>2. server' \in ServerType'
    <3>1. Reached \in ServerType
      BY OptionsAssumption DEF Typed, ServerType, Reached
    <3>2. ServerType' = ServerType
      BY <1>9, <1>12 DEF ServerType
    <3>3. QED
      BY <1>12, <3>1, <3>2
  <2>3. QED
    BY <1>7, <1>9, <1>11, <1>12, <1>13, <1>14, <1>15, <2>1, <2>2 DEF Typed
<1>17. \E x \in Launched(active.run) : \A q \in Ids :
         work'[q] = IF q = active.run THEN x ELSE work[q]
  BY <1>2, <1>5, <1>7
<1>18. Approved(evs)
  BY <1>2, <1>4, <1>9, <1>11 DEF Approved, Spoken
<1>19. QED
  BY <1>2, <1>4, <1>9, <1>12, <1>16, <1>17, <1>18

(* Every way to end: r is told that it ended, the slot is given back and   *)
(* what drove r drives it no more.                                         *)
Finishing(r, st, evs, w) ==
  /\ Told(r, st, evs) /\ phone' = ShownOn(phone, evs)
  /\ work' = [work EXCEPT ![r] = w]
  /\ FinishActive
  /\ st # "running" /\ (st = "awaiting_trust" => runs[r].status = "awaiting_trust")
  /\ \A i \in 1 .. Len(evs) : evs[i].of = r /\ (evs[i].type = "run_finished" => i = Len(evs))
  /\ \/ w = "errored" /\ work[r] = "failed"
     \/ w = "over" /\ work[r] \in {"child", "errored", "connecting", "turn", "dropping"}
     \/ w = "over" /\ Parked /\ r = active.run /\ st = "error"
     \/ w = "disposing" /\ work[r] = "turn"
  /\ active.run # r => work[r] \in {"failed", "child", "errored", "dropping"}
  /\ server' \in ServerType
  /\ UNCHANGED <<opts, dedup, projects>>

LEMMA Deny_Finishing ==
  ASSUME Typed, Deny
  PROVE  \E r \in Ids, st \in StatusType, evs \in Seq(Events), w \in {"errored", "over", "disposing"} :
           Finishing(r, st, evs, w)
<1>1. PICK r \in Ids : r = active.run
  BY Facts DEF Deny, Parked
<1>2. PICK evs : evs = <<Event("trust.settled", r), Event("error", r), Event("run_finished", r)>>
  OBVIOUS
<1>3. /\ evs \in Seq(Events)
      /\ \A i \in 1 .. Len(evs) : evs[i].of = r /\ (evs[i].type = "run_finished" => i = Len(evs))
  <2>1. /\ Event("trust.settled", r) \in Events /\ Event("error", r) \in Events
        /\ Event("run_finished", r) \in Events
    BY EventTyped DEF EventTypes
  <2>2. Len(evs) = 3 /\ evs[1] = Event("trust.settled", r) /\ evs[2] = Event("error", r)
        /\ evs[3] = Event("run_finished", r)
    BY <1>2
  <2>3. evs \in Seq(Events)
    BY <1>2, <2>1
  <2>4. QED
    BY <2>2, <2>3 DEF Event
<1>4. Finishing(r, "error", evs, "over")
  <2>1. server' \in ServerType
    BY DEF Typed, Deny
  <2>2. QED
    BY <1>1, <1>2, <1>3, <2>1 DEF Finishing, Deny, Told
<1>5. QED
  BY <1>3, <1>4 DEF StatusType

LEMMA Driver_Finishing ==
  ASSUME Typed, NEW r \in Ids,
         \/ ChildError(r) \/ ChildClose(r)
         \/ Dropped(r)
         \/ Owns(r) /\ (TurnEnds(r) \/ Refused(r))
  PROVE  \E st \in StatusType, evs \in Seq(Events), w \in {"errored", "over", "disposing"} :
           Finishing(r, st, evs, w)
<1>0. server \in ServerType
  BY DEF Typed
<1>1. \A t \in {"error", "run_finished"} :
         /\ <<Event(t, r)>> \in Seq(Events)
         /\ \A i \in 1 .. Len(<<Event(t, r)>>) :
              /\ <<Event(t, r)>>[i].of = r
              /\ <<Event(t, r)>>[i].type = "run_finished" => i = Len(<<Event(t, r)>>)
  <2> SUFFICES ASSUME NEW t \in {"error", "run_finished"}, NEW e, e = Event(t, r)
               PROVE  /\ <<e>> \in Seq(Events)
                      /\ \A i \in 1 .. Len(<<e>>) :
                           <<e>>[i].of = r /\ (<<e>>[i].type = "run_finished" => i = Len(<<e>>))
    OBVIOUS
  <2>1. e \in Events /\ e.of = r
    BY EventTyped DEF EventTypes, Event
  <2>2. QED
    BY <2>1
<1>2. runs[r] \in RunType /\ runs \in Seq(RunType) /\ r \in 1 .. Len(runs)
  BY Facts DEF Typed
<1>3. \A clean \in BOOLEAN :
        /\ Ended(r, clean) \in StatusType /\ Ended(r, clean) # "running"
        /\ Ended(r, clean) = "awaiting_trust" => runs[r].status = "awaiting_trust"
  BY <1>2 DEF Ended, StatusType, RunType
<1>4. CASE ChildError(r)
  <2>1. Finishing(r, "error", <<Event("error", r)>>, "errored")
    BY <1>0, <1>1, <1>4 DEF Finishing, ChildError, Told
  <2>2. QED
    BY <1>1, <2>1 DEF StatusType
<1>5. CASE ChildClose(r)
  <2>1. PICK clean \in BOOLEAN : Told(r, Ended(r, clean), <<Event("run_finished", r)>>)
    BY <1>5 DEF ChildClose, Told
  <2>2. Finishing(r, Ended(r, clean), <<Event("run_finished", r)>>, "over")
    BY <1>0, <1>1, <1>3, <1>5, <2>1 DEF Finishing, ChildClose
  <2>3. QED
    BY <1>1, <1>3, <2>2
<1>6. CASE Owns(r) /\ TurnEnds(r)
  <2>1. PICK clean \in BOOLEAN : Told(r, Ended(r, clean), <<Event("run_finished", r)>>)
    BY <1>6 DEF TurnEnds, Told
  <2>2. Finishing(r, Ended(r, clean), <<Event("run_finished", r)>>, "disposing")
    BY <1>0, <1>1, <1>3, <1>6, <2>1 DEF Finishing, TurnEnds, Owns
  <2>3. QED
    BY <1>1, <1>3, <2>2
<1>7. CASE Owns(r) /\ Refused(r)
  <2>1. Finishing(r, "error", <<Event("error", r)>>, "over")
    BY <1>0, <1>1, <1>7 DEF Finishing, Refused, Told, Owns
  <2>2. QED
    BY <1>1, <2>1 DEF StatusType
<1>8. CASE Dropped(r)
  <2>1. runs[r].status = "cancelled"
    BY <1>2, <1>8 DEF Typed, CancelNoted, Dropped
  <2>2. [runs EXCEPT ![r].status = "cancelled"] = runs
    BY <1>2, <2>1 DEF RunType
  <2>3. Told(r, "cancelled", <<Event("run_finished", r)>>)
    BY <1>8, <2>2 DEF Dropped, Told
  <2>4. Finishing(r, "cancelled", <<Event("run_finished", r)>>, "over")
    <3>1. server' \in ServerType
      BY <1>0, <1>8 DEF Dropped, ServerType
    <3>2. QED
      BY <1>1, <1>8, <2>3, <3>1 DEF Finishing, Dropped
  <2>5. QED
    BY <1>1, <2>4 DEF StatusType
<1>9. QED
  BY <1>4, <1>5, <1>6, <1>7, <1>8

LEMMA FinishingTyped ==
  ASSUME Typed, NEW r \in Ids, NEW st \in StatusType, NEW evs \in Seq(Events),
         NEW w \in {"errored", "over", "disposing"}, Finishing(r, st, evs, w)
  PROVE  /\ Typed' /\ Ids' = Ids /\ Spoken(r, st, evs) /\ active' = NoRun
         /\ \A q \in Ids : work'[q] = IF q = r THEN w ELSE work[q]
<1>1. /\ runs' \in Seq(RunType) /\ Len(runs') = Len(runs) /\ Ids' = Ids
      /\ \A q \in Ids :
           /\ runs'[q].status = IF q = r THEN st ELSE runs[q].status
           /\ runs'[q].folder = runs[q].folder /\ runs'[q].key = runs[q].key
           /\ runs'[q].events =
                IF q = active.run THEN runs[q].events \o evs ELSE runs[q].events
  BY ToldFacts DEF Finishing
<1>2. /\ phone' \in Seq(PhoneType) /\ Len(phone') = Len(phone)
      /\ \A q \in Ids :
           /\ phone'[q].state = phone[q].state
           /\ phone'[q].seen = IF q = active.run /\ active.listening
                               THEN phone[q].seen \o evs ELSE phone[q].seen
  BY ShownFacts DEF Finishing
<1>3. /\ work' \in Seq(WorkType) /\ Len(work') = Len(work)
      /\ \A q \in Ids : work'[q] = IF q = r THEN w ELSE work[q]
  <2>1. w \in WorkType /\ work' = [work EXCEPT ![r] = w]
    BY DEF Finishing, WorkType
  <2>2. QED
    BY <2>1, WorkTyped
<1>4. /\ active' = NoRun /\ recent' \in Seq(Ids) /\ Len(recent') <= opts.recent
  BY FinishFacts DEF Finishing
<1>5. active' \in SlotType /\ CancelNoted'
  <2>1. \A q \in Ids' : work'[q] = "dropping" => q # r /\ work[q] = "dropping"
    BY <1>1, <1>3
  <2>2. \A q \in Ids' : work'[q] = "dropping" => runs'[q].status = "cancelled"
    BY <1>1, <2>1 DEF Typed, CancelNoted
  <2>3. QED
    BY <1>4, <2>2, NoRunTyped DEF CancelNoted, NoRun
<1>6. UNCHANGED <<opts, dedup, projects>>
  BY DEF Finishing
<1>7. server' \in ServerType
  BY DEF Finishing
<1>8. Typed'
  BY <1>1, <1>2, <1>3, <1>4, <1>5, <1>6, <1>7, TypedTold
<1>9. QED
  BY <1>1, <1>2, <1>3, <1>4, <1>8 DEF Spoken

(* What drives r gets on without a word to anybody.                        *)
Leaves(r, w) ==
  /\ work' = [work EXCEPT ![r] = w]
  /\ \/ w \in {"disposing", "over"} /\ work[r] \in {"connecting", "turn"} /\ active.run # r
     \/ w = "over" /\ work[r] = "disposing"
     \/ /\ w = "dropping" /\ work[r] = "connecting"
        /\ active.run = r /\ active.cancelRequested
  /\ server' \in ServerType
  /\ UNCHANGED <<opts, runs, active, recent, dedup, projects, phone>>

Connects(r) ==
  /\ work[r] = "connecting" /\ active.run = r /\ ~active.cancelRequested
  /\ work' = [work EXCEPT ![r] = "turn"]
  /\ active' = [active EXCEPT !.session = TRUE]
  /\ server' = [server EXCEPT !.sessions = @ \cup {r}]
  /\ UNCHANGED <<opts, runs, recent, dedup, projects, phone>>

LEMMA DriverCases ==
  ASSUME Typed, NEW r \in Ids, Driver(r)
  PROVE  \/ \E st \in StatusType, evs \in Seq(Events), w \in {"errored", "over", "disposing"} :
              Finishing(r, st, evs, w)
         \/ \E w \in WorkType : Leaves(r, w)
         \/ Connects(r)
<1>0. server \in ServerType
  BY DEF Typed
<1>1. CASE ChildError(r) \/ ChildClose(r) \/ Dropped(r)
  BY <1>1, Driver_Finishing
<1>2. CASE Owns(r) /\ (TurnEnds(r) \/ Refused(r))
  BY <1>2, Driver_Finishing
<1>3. CASE ~Owns(r) /\ TurnEnds(r)
  <2>1. Leaves(r, "disposing")
    BY <1>0, <1>3 DEF TurnEnds, Owns, Leaves
  <2>2. QED
    BY <2>1 DEF WorkType
<1>4. CASE ~Owns(r) /\ Refused(r)
  <2>1. Leaves(r, "over")
    BY <1>0, <1>4 DEF Refused, Owns, Leaves
  <2>2. QED
    BY <2>1 DEF WorkType
<1>5. CASE Connected(r)
  <2>0. server' \in ServerType
    BY <1>0, <1>5 DEF Connected, ServerType
  <2>1. CASE Owns(r) /\ active.cancelRequested
    <3>1. Leaves(r, "dropping")
      BY <1>5, <2>0, <2>1 DEF Connected, Owns, Leaves
    <3>2. QED
      BY <3>1 DEF WorkType
  <2>2. CASE ~Owns(r)
    <3>1. Leaves(r, "disposing")
      BY <1>5, <2>0, <2>2 DEF Connected, Owns, Leaves
    <3>2. QED
      BY <3>1 DEF WorkType
  <2>3. CASE Owns(r) /\ ~active.cancelRequested
    BY <1>5, <2>3 DEF Connected, Owns, Connects
  <2>4. QED
    BY <2>1, <2>2, <2>3
<1>6. CASE Disposed(r)
  <2>1. Leaves(r, "over")
    BY <1>0, <1>6 DEF Disposed, Leaves, ServerType
  <2>2. QED
    BY <2>1 DEF WorkType
<1>7. QED
  BY <1>1, <1>2, <1>3, <1>4, <1>5, <1>6 DEF Driver

(* The steps that leave the slot to its run.                               *)
LEMMA OthersTyped ==
  ASSUME Typed, NEW r \in Ids,
         \/ \E w \in WorkType : Leaves(r, w)
         \/ Connects(r) \/ Watch(r) \/ Poll(r)
  PROVE  Typed' /\ UNCHANGED runs
<1>1. /\ Len(runs) \in Nat /\ Ids = 1 .. Len(runs) /\ phone \in Seq(PhoneType)
      /\ Len(phone) = Len(runs) /\ phone[r] \in PhoneType /\ runs[r] \in RunType
      /\ active \in SlotType /\ server \in ServerType
      /\ work \in Seq(WorkType) /\ Len(work) = Len(runs)
  BY Facts DEF Typed
<1>2. CASE \E w \in WorkType : Leaves(r, w)
  <2>1. PICK w \in WorkType : Leaves(r, w)
    BY <1>2
  <2>2. /\ work' \in Seq(WorkType) /\ Len(work') = Len(work)
        /\ \A q \in Ids : work'[q] = IF q = r THEN w ELSE work[q]
    BY <2>1, WorkTyped DEF Leaves
  <2>3. UNCHANGED <<opts, runs, active, recent, dedup, projects, phone>>
        /\ server' \in ServerType
    BY <2>1 DEF Leaves
  <2>4. CancelNoted'
    <3>1. w = "dropping" => runs[r].status = "cancelled"
      BY <1>1, <2>1 DEF Leaves, Typed, CancelNoted
    <3>2. \A q \in Ids : work'[q] = "dropping" => runs[q].status = "cancelled"
      BY <2>2, <3>1 DEF Typed, CancelNoted
    <3>3. QED
      BY <2>3, <3>2 DEF Typed, CancelNoted, Ids
  <2>5. QED
    BY <2>2, <2>3, <2>4, TypedTold DEF Typed
<1>3. CASE Connects(r)
  <2>1. /\ work' \in Seq(WorkType) /\ Len(work') = Len(work)
        /\ \A q \in Ids : work'[q] = IF q = r THEN "turn" ELSE work[q]
    BY <1>3, WorkTyped DEF Connects, WorkType
  <2>2. UNCHANGED <<opts, runs, recent, dedup, projects, phone>>
    BY <1>3 DEF Connects
  <2>3. server' \in ServerType
    BY <1>1, <1>3 DEF Connects, ServerType
  <2>4. /\ active' \in SlotType /\ active'.run = active.run
        /\ active'.cancelRequested = active.cancelRequested
    BY <1>1, <1>3 DEF Connects, SlotType
  <2>5. CancelNoted'
    BY <2>1, <2>2, <2>4 DEF Typed, CancelNoted, Ids
  <2>6. QED
    BY <2>1, <2>2, <2>3, <2>4, <2>5, TypedTold DEF Typed
<1>4. CASE Watch(r) \/ Poll(r)
  <2>1. phone' \in Seq(PhoneType) /\ Len(phone') = Len(phone)
    <3>1. \E v \in PhoneType : phone' = [phone EXCEPT ![r] = v]
      <4>1. CASE Watch(r)
        <5>1. <<Event("run_finished", r)>> \in Seq(Events)
          BY EventTyped DEF EventTypes
        <5>2. PICK seen : seen = runs[r].events \o <<Event("run_finished", r)>>
          OBVIOUS
        <5>3. seen \in Seq(Events) /\ runs[r].events \in Seq(Events)
          BY <1>1, <5>1, <5>2 DEF RunType
        <5>4. PICK v : v = IF Open(r) THEN [state |-> "open", seen |-> runs[r].events]
                           ELSE [state |-> "replayed", seen |-> seen]
          OBVIOUS
        <5>5. v \in PhoneType
          BY <5>3, <5>4 DEF PhoneType
        <5>6. phone' = [phone EXCEPT ![r] = v]
          BY <4>1, <5>2, <5>4 DEF Watch
        <5>7. QED
          BY <5>5, <5>6
      <4>2. CASE Poll(r)
        BY <1>1, <4>2 DEF Poll, PhoneType
      <4>3. QED
        BY <1>4, <4>1, <4>2
    <3>2. QED
      BY <1>1, <3>1
  <2>2. UNCHANGED <<opts, runs, recent, work, server, dedup, projects>>
    BY <1>4 DEF Watch, Poll
  <2>3. /\ active' \in SlotType /\ active'.run = active.run
        /\ active'.cancelRequested = active.cancelRequested
    BY <1>1, <1>4 DEF Watch, Poll, SlotType, Open, Owns
  <2>4. CancelNoted'
    BY <2>2, <2>3 DEF Typed, CancelNoted, Ids
  <2>5. QED
    BY <1>1, <2>1, <2>2, <2>3, <2>4, TypedTold DEF Typed
<1>5. QED
  BY <1>2, <1>3, <1>4 DEF Leaves, Connects, Watch, Poll

(* A line, of a child or of the server, and a cancel: the run in the slot  *)
(* is told of it.                                                          *)
Speaks(r, from) ==
  /\ Says(r, from)
  /\ (work[r] = "child" /\ from = r) \/ (active.run = r /\ opts.client)

LEMMA LineTyped ==
  ASSUME Typed, NEW r \in Ids, NEW from \in Ids \cup {0}, Says(r, from)
  PROVE  /\ Typed' /\ UNCHANGED <<active, recent, work, dedup, projects>>
         /\ Spoken(r, runs[r].status, <<Event("line", from)>>) /\ Ids' = Ids
<1>1. PICK evs \in Seq(Events) : evs = <<Event("line", from)>>
  BY EventTyped DEF EventTypes
<1>2. /\ runs' \in Seq(RunType) /\ Len(runs') = Len(runs) /\ Ids' = Ids
      /\ \A q \in Ids :
           /\ runs'[q].status = runs[q].status
           /\ runs'[q].folder = runs[q].folder /\ runs'[q].key = runs[q].key
           /\ runs'[q].events =
                IF q = active.run THEN runs[q].events \o evs ELSE runs[q].events
  <2>1. Counts(r, evs)
    BY <1>1 DEF Says, Counts
  <2>2. QED
    BY <2>1, LineFacts
<1>3. /\ phone' \in Seq(PhoneType) /\ Len(phone') = Len(phone)
      /\ \A q \in Ids :
           /\ phone'[q].state = phone[q].state
           /\ phone'[q].seen = IF q = active.run /\ active.listening
                               THEN phone[q].seen \o evs ELSE phone[q].seen
  <2>1. phone' = ShownOn(phone, evs)
    BY <1>1 DEF Says
  <2>2. QED
    BY <2>1, ShownFacts
<1>4. UNCHANGED <<opts, active, recent, work, server, dedup, projects>>
  BY DEF Says
<1>5. CancelNoted'
  <2>1. UNCHANGED <<active, work>> /\ active.run \in Ids \cup {0} /\ CancelNoted
    BY <1>4, Facts DEF Typed
  <2>2. active'.run # 0 =>
          (active'.cancelRequested <=> runs'[active'.run].status = "cancelled")
    BY <1>2, <2>1 DEF CancelNoted
  <2>3. \A q \in Ids' : work'[q] = "dropping" => runs'[q].status = "cancelled"
    BY <1>2, <2>1 DEF CancelNoted
  <2>4. QED
    BY <2>2, <2>3 DEF CancelNoted
<1>6. Typed'
  BY <1>2, <1>3, <1>4, <1>5, TypedTold DEF Typed
<1>7. Spoken(r, runs[r].status, evs)
  BY <1>2, <1>3 DEF Spoken
<1>8. QED
  BY <1>1, <1>2, <1>4, <1>6, <1>7

LEMMA CancelTyped ==
  ASSUME Typed, Cancel
  PROVE  /\ Typed' /\ active.run \in Ids /\ Ids' = Ids /\ Open(active.run)
         /\ runs[active.run].status = "awaiting_trust" => Hazard("parked")
         /\ UNCHANGED <<recent, work, dedup, projects>>
         /\ active'.run = active.run /\ active'.listening = active.listening
         /\ Spoken(active.run, "cancelled", <<Event("cancelling", active.run)>>)
<1>1. PICK r \in Ids : r = active.run
  BY Facts DEF Cancel
<1>2. <<Event("cancelling", r)>> \in Seq(Events) /\ active \in SlotType
  BY EventTyped DEF EventTypes, Typed
<1>3. Told(r, "cancelled", <<Event("cancelling", r)>>)
  BY <1>1 DEF Cancel, CancelEvents, Told
<1>4. /\ runs' \in Seq(RunType) /\ Len(runs') = Len(runs) /\ Ids' = Ids
      /\ \A q \in Ids :
           /\ runs'[q].status = IF q = r THEN "cancelled" ELSE runs[q].status
           /\ runs'[q].folder = runs[q].folder /\ runs'[q].key = runs[q].key
           /\ runs'[q].events =
                IF q = active.run THEN runs[q].events \o <<Event("cancelling", r)>> ELSE runs[q].events
  <2>1. PICK st \in StatusType, evs \in Seq(Events) : st = "cancelled" /\ evs = <<Event("cancelling", r)>>
    BY <1>2 DEF StatusType
  <2>2. Told(r, st, evs)
    BY <1>3, <2>1
  <2>3. /\ runs' \in Seq(RunType) /\ Len(runs') = Len(runs) /\ Ids' = Ids
        /\ \A q \in Ids :
             /\ runs'[q].status = IF q = r THEN st ELSE runs[q].status
             /\ runs'[q].folder = runs[q].folder /\ runs'[q].key = runs[q].key
             /\ runs'[q].events =
                  IF q = active.run THEN runs[q].events \o evs ELSE runs[q].events
    BY <2>2, ToldFacts
  <2>4. QED
    BY <2>1, <2>3
<1>5. phone' = ShownOn(phone, <<Event("cancelling", r)>>)
  BY <1>1 DEF Cancel, CancelEvents
<1>6. /\ phone' \in Seq(PhoneType) /\ Len(phone') = Len(phone)
      /\ \A q \in Ids :
           /\ phone'[q].state = phone[q].state
           /\ phone'[q].seen = IF q = active.run /\ active.listening
                               THEN phone[q].seen \o <<Event("cancelling", r)>> ELSE phone[q].seen
  BY <1>2, <1>5, ShownFacts
<1>7. /\ active' = [active EXCEPT !.cancelRequested = TRUE] /\ Open(r)
      /\ runs[r].status = "awaiting_trust" => Hazard("parked")
      /\ UNCHANGED <<opts, recent, work, server, dedup, projects>>
  BY <1>1 DEF Cancel
<1>8. active' \in SlotType /\ active'.run = r /\ active'.cancelRequested
      /\ active'.listening = active.listening
  BY <1>1, <1>2, <1>7 DEF SlotType
<1>9. CancelNoted'
  <2>1. work' = work /\ runs'[r].status = "cancelled" /\ active'.cancelRequested
    BY <1>4, <1>7, <1>8
  <2>2. active'.run # 0 =>
          (active'.cancelRequested <=> runs'[active'.run].status = "cancelled")
    BY <1>8, <2>1
  <2>3. \A q \in Ids' : work'[q] = "dropping" => runs'[q].status = "cancelled"
    BY <1>4, <2>1 DEF CancelNoted, Typed
  <2>4. QED
    BY <2>2, <2>3 DEF CancelNoted
<1>10. Typed'
  BY <1>4, <1>6, <1>7, <1>8, <1>9, TypedTold DEF Typed
<1>11. QED
  BY <1>1, <1>4, <1>6, <1>7, <1>8, <1>10 DEF Spoken

LEMMA CrashTyped ==
  ASSUME Typed, Crash
  PROVE  /\ Typed' /\ Ids' = Ids /\ active' = NoRun /\ recent' = <<>>
         /\ UNCHANGED <<runs, dedup, projects>>
         /\ \A q \in Ids :
              /\ work'[q] = IF work[q] \in {"child", "orphan"} THEN "orphan" ELSE "over"
              /\ phone'[q].state = IF phone[q].state = "open" THEN "closed" ELSE phone[q].state
              /\ phone'[q].seen = phone[q].seen
<1>1. /\ Len(runs) \in Nat /\ Ids = 1 .. Len(runs) /\ opts.recent \in Nat
      /\ \A q \in Ids : phone[q] \in PhoneType
  BY Facts, OptionsAssumption DEF Typed
<1>2. /\ work' \in Seq(WorkType) /\ Len(work') = Len(runs)
      /\ \A q \in Ids : work'[q] = IF work[q] \in {"child", "orphan"} THEN "orphan" ELSE "over"
  <2>1. work' = [q \in 1 .. Len(runs) |-> IF work[q] \in {"child", "orphan"} THEN "orphan" ELSE "over"]
    BY <1>1 DEF Crash
  <2>2. QED
    BY <1>1, <2>1 DEF WorkType
<1>3. /\ phone' \in Seq(PhoneType) /\ Len(phone') = Len(runs)
      /\ \A q \in Ids :
           /\ phone'[q].state = IF phone[q].state = "open" THEN "closed" ELSE phone[q].state
           /\ phone'[q].seen = phone[q].seen
  <2>1. phone' = [q \in 1 .. Len(runs) |-> IF phone[q].state = "open"
                    THEN [phone[q] EXCEPT !.state = "closed"] ELSE phone[q]]
    BY <1>1 DEF Crash
  <2>2. \A q \in Ids : phone'[q] \in PhoneType
    BY <1>1, <2>1 DEF PhoneType
  <2>3. PICK n \in Nat : n = Len(runs)
    BY <1>1
  <2>4. phone' \in [1 .. n -> PhoneType]
    BY <1>1, <2>1, <2>2, <2>3
  <2>5. phone' \in Seq(PhoneType) /\ Len(phone') = n
    BY <2>3, <2>4
  <2>6. QED
    BY <1>1, <2>1, <2>3, <2>5 DEF PhoneType
<1>4. /\ active' = NoRun /\ recent' = <<>> /\ server' \in ServerType
      /\ UNCHANGED <<opts, runs, dedup, projects>>
  BY DEF Crash, ServerType
<1>5. active' \in SlotType /\ CancelNoted'
  BY <1>2, <1>4, NoRunTyped DEF CancelNoted, NoRun, Ids
<1>6. recent' \in Seq(Ids) /\ Len(recent') <= opts.recent
  BY <1>1, <1>4
<1>7. Typed'
  BY <1>2, <1>3, <1>4, <1>5, <1>6, TypedTold DEF Typed
<1>8. QED
  BY <1>2, <1>3, <1>4, <1>7 DEF Ids

(* What a step does, for the invariants below.                             *)
Starts == \E k \in Keys, f \in Folders : Post(k, f)
Finishes ==
  \E r \in Ids, st \in StatusType, evs \in Seq(Events), w \in {"errored", "over", "disposing"} :
    Finishing(r, st, evs, w)
GetsOn == \E r \in Ids : Connects(r) \/ \E w \in WorkType : Leaves(r, w)

LEMMA StepCases ==
  ASSUME Typed, [Next]_vars
  PROVE  \/ Starts \/ Approve \/ Finishes \/ GetsOn \/ Cancel \/ Crash
         \/ \E r \in Ids, from \in Ids \cup {0} : Speaks(r, from)
         \/ \E r \in Ids : Watch(r) \/ Poll(r)
         \/ UNCHANGED <<opts, runs, active, recent, work, dedup, projects, phone>>
              /\ server' \in ServerType
<1>0. server \in ServerType /\ active.run \in Ids \cup {0}
  BY Facts DEF Typed
<1>1. CASE Deny
  BY <1>1, Deny_Finishing DEF Finishes
<1>2. CASE \E r \in Ids : Driver(r)
  BY <1>2, DriverCases DEF Finishes, GetsOn
<1>3. CASE ServerDies \/ UNCHANGED vars
  <2>1. UNCHANGED <<opts, runs, active, recent, work, dedup, projects, phone>>
    BY <1>3 DEF ServerDies, vars
  <2>2. server' = [server EXCEPT !.alive = FALSE, !.sessions = {}] \/ server' = server
    BY <1>3 DEF ServerDies, vars
  <2>3. server' \in ServerType
    BY <1>0, <2>2 DEF ServerType
  <2>4. QED
    BY <2>1, <2>3
<1>4. CASE \E k \in Keys, f \in Folders : Post(k, f)
  BY <1>4 DEF Starts
<1>5. CASE \E r \in Ids : Line(r)
  <2>1. PICK r \in Ids : Line(r)
    BY <1>5
  <2>2. Speaks(r, r)
    BY <2>1 DEF Line, Speaks
  <2>3. QED
    BY <2>2
<1>6. CASE \E from \in Ids \cup {0} : ServerLine(from)
  <2>1. PICK from \in Ids \cup {0} : ServerLine(from)
    BY <1>6
  <2>2. opts.client /\ active.run \in Ids /\ Says(active.run, from)
    BY <1>0, <2>1 DEF ServerLine, ServerType
  <2>3. QED
    BY <2>2 DEF Speaks
<1>7. QED
  BY <1>1, <1>2, <1>3, <1>4, <1>5, <1>6 DEF Next

LEMMA OptsKept == ASSUME [Next]_vars PROVE opts' = opts
<1>1. CASE \E k \in Keys, f \in Folders : Post(k, f)
  BY <1>1 DEF Post
<1>2. CASE Approve \/ Deny \/ Cancel
  BY <1>2 DEF Approve, Deny, Cancel
<1>3. CASE \E r \in Ids : Driver(r)
  BY <1>3 DEF Driver, ChildError, ChildClose, Connected, Dropped, TurnEnds, Disposed, Refused
<1>4. CASE \E r \in Ids : Line(r) \/ Watch(r) \/ Poll(r)
  BY <1>4 DEF Line, Says, Watch, Poll
<1>5. CASE \E from \in Ids \cup {0} : ServerLine(from)
  BY <1>5 DEF ServerLine, Says
<1>6. CASE ServerDies \/ Crash \/ UNCHANGED vars
  BY <1>6 DEF ServerDies, Crash, vars
<1>7. QED
  BY <1>1, <1>2, <1>3, <1>4, <1>5, <1>6 DEF Next

LEMMA TypedInit == Init => Typed
<1> SUFFICES ASSUME Init PROVE Typed
  OBVIOUS
<1>1. runs = <<>> /\ work = <<>> /\ phone = <<>> /\ recent = <<>> /\ active = NoRun
      /\ opts \in Options /\ opts.recent \in Nat
  BY OptionsAssumption DEF Init
<1>2. /\ dedup \in [Keys -> Ids \cup {0}] /\ server \in ServerType
      /\ Home \subseteq projects /\ projects \subseteq Folders
  BY FoldersAssumption DEF Init, ServerType
<1>3. CancelNoted
  BY <1>1 DEF CancelNoted, NoRun, Ids
<1>4. QED
  BY <1>1, <1>2, <1>3, NoRunTyped DEF Typed

LEMMA TypedStep == Typed /\ [Next]_vars => Typed'
<1> SUFFICES ASSUME Typed, [Next]_vars PROVE Typed'
  OBVIOUS
<1>1. CASE Starts
  BY <1>1, PostTyped DEF Starts
<1>2. CASE Approve
  BY <1>2, ApproveTyped
<1>3. CASE Finishes
  BY <1>3, FinishingTyped DEF Finishes
<1>4. CASE GetsOn \/ \E r \in Ids : Watch(r) \/ Poll(r)
  BY <1>4, OthersTyped DEF GetsOn
<1>5. CASE Cancel
  BY <1>5, CancelTyped
<1>6. CASE Crash
  BY <1>6, CrashTyped
<1>7. CASE \E r \in Ids, from \in Ids \cup {0} : Speaks(r, from)
  BY <1>7, LineTyped DEF Speaks
<1>8. CASE UNCHANGED <<opts, runs, active, recent, work, dedup, projects, phone>>
           /\ server' \in ServerType
  BY <1>8, TypedTold DEF Typed, CancelNoted, Ids
<1>9. QED
  BY <1>1, <1>2, <1>3, <1>4, <1>5, <1>6, <1>7, <1>8, StepCases

LEMMA AlwaysTyped == Spec => []Typed
  BY TypedInit, TypedStep, PTL DEF Spec

(* The tables of the companion have the types their maps declare: the slot *)
(* and the remembered runs name runs that were started, whatever the order *)
(* of children, server, phones and crashes.                                *)
THEOREM TypeCorrect == Spec => []TypeOK
<1>1. Typed => TypeOK
  <2> SUFFICES ASSUME Typed PROVE TypeOK
    OBVIOUS
  <2>1. \A r \in Ids : runs[r] \in RunType /\ work[r] \in WorkType /\ phone[r] \in PhoneType
    BY Facts
  <2>2. active.run \in Ids \cup {0} /\ server.sessions \subseteq Ids
    BY DEF Typed, SlotType, ServerType
  <2>3. \A r \in Ids :
          /\ runs[r].status \in StatusType
          /\ runs[r].folder \in Folders /\ runs[r].key \in Keys
          /\ runs[r].events \in Seq(Events) /\ phone[r].seen \in Seq(Events)
          /\ phone[r].state \in {"none", "open", "closed", "replayed"}
    BY <2>1 DEF RunType, PhoneType
  <2>4. QED
    BY <2>1, <2>2, <2>3 DEF Typed, TypeOK, WorkType, StatusType
<1>2. QED
  BY <1>1, AlwaysTyped, PTL

-----------------------------------------------------------------------------
(*                       Starting where and once                           *)
(*                                                                         *)
(* The key of a run that is still known leads to it: a repetition finds it *)
(* and a run that is new takes the key from one that is forgotten.         *)

KeysLead == \A q \in Known : dedup[runs[q].key] = q

StartsInv == TrustFirst /\ KeysLead

LEMMA StartsStep == Typed /\ StartsInv /\ [Next]_vars => StartsInv'
<1> SUFFICES ASSUME Typed, StartsInv, [Next]_vars PROVE StartsInv'
  OBVIOUS
<1>1. /\ Known \subseteq Ids /\ Ids = 1 .. Len(runs) /\ Len(runs) \in Nat
      /\ dedup \in [Keys -> Ids \cup {0}]
      /\ \A q \in Ids : runs[q] \in RunType
  BY Facts DEF Typed, Known, Range
<1>2. ASSUME Ids' = Ids, Known' \subseteq Known, dedup' = dedup, projects \subseteq projects',
             \A q \in Ids : runs'[q].key = runs[q].key /\ runs'[q].folder = runs[q].folder,
             \A q \in Ids : \/ work'[q] \in {"none", "over"}
                            \/ work[q] \notin {"none", "over"}
                            \/ runs[q].folder \in projects'
      PROVE  StartsInv'
  <2>1. TrustFirst'
    BY <1>2 DEF StartsInv, TrustFirst
  <2>2. KeysLead'
    BY <1>1, <1>2 DEF StartsInv, KeysLead
  <2>3. QED
    BY <2>1, <2>2 DEF StartsInv
<1>3. CASE Starts
  <2>1. PICK k \in Keys, f \in Folders : Post(k, f)
    BY <1>3 DEF Starts
  <2>2. PICK r : r = Len(runs) + 1
    OBVIOUS
  <2>3. /\ Ids' = Ids \cup {r} /\ r \notin Ids /\ r # 0
        /\ \A q \in Ids : runs'[q] = runs[q] /\ work'[q] = work[q]
        /\ runs'[r].folder = f /\ runs'[r].key = k
        /\ f \notin projects => work'[r] = "none"
        /\ active' = Slot(r, FALSE)
    <3>1. /\ Ids' = Ids \cup {Len(runs) + 1}
          /\ \A q \in Ids : runs'[q] = runs[q] /\ work'[q] = work[q]
          /\ runs'[Len(runs) + 1].folder = f /\ runs'[Len(runs) + 1].key = k
          /\ Parks(f) => work'[Len(runs) + 1] = "none"
          /\ active' = Slot(Len(runs) + 1, FALSE)
      BY <2>1, PostTyped
    <3>2. QED
      BY <1>1, <2>2, <3>1 DEF Parks
  <2>4. /\ dedup' = [dedup EXCEPT ![k] = r] /\ UNCHANGED <<recent, projects>>
        /\ dedup[k] \notin Known /\ active.run = 0
    BY <2>1, <2>2 DEF Post, Repeats, SlotIsFree
  <2>5. Known' = Known \cup {r}
    BY <2>3, <2>4 DEF Known, Slot, NoRun
  <2>6. TrustFirst'
    BY <2>3, <2>4 DEF StartsInv, TrustFirst
  <2>7. ASSUME NEW q \in Known
        PROVE  dedup'[runs'[q].key] = q
    <3>1. q \in Ids /\ dedup[runs[q].key] = q /\ runs'[q] = runs[q] /\ runs[q].key \in Keys
      BY <1>1, <2>3 DEF StartsInv, KeysLead, RunType
    <3>2. runs[q].key # k
      BY <2>4, <3>1
    <3>3. QED
      BY <1>1, <2>4, <3>1, <3>2
  <2>8. dedup'[runs'[r].key] = r
    BY <1>1, <2>3, <2>4
  <2>9. QED
    BY <2>5, <2>6, <2>7, <2>8 DEF StartsInv, KeysLead
<1>4. CASE Approve
  <2>1. PICK evs \in Seq(Events) : Approved(evs)
    BY <1>4, ApproveTyped
  <2>2. /\ Ids' = Ids /\ projects' = projects \cup {runs[active.run].folder}
        /\ active' = Slot(active.run, active.listening)
        /\ \A q \in Ids : q # active.run => work'[q] = work[q]
    BY <1>4, ApproveTyped
  <2>3. dedup' = dedup /\ recent' = recent
    BY <1>4 DEF Approve
  <2>4. Known' = Known
    BY <2>2, <2>3 DEF Known, Slot, NoRun
  <2>5. \A q \in Ids : runs'[q].key = runs[q].key /\ runs'[q].folder = runs[q].folder
    BY <2>1 DEF Approved, Spoken
  <2>6. QED
    BY <1>2, <2>2, <2>3, <2>4, <2>5
<1>5. CASE Finishes
  <2>1. PICK r \in Ids, st \in StatusType, evs \in Seq(Events), w \in {"errored", "over", "disposing"} :
          Finishing(r, st, evs, w)
    BY <1>5 DEF Finishes
  <2>2. /\ Ids' = Ids /\ Spoken(r, st, evs) /\ active' = NoRun
        /\ \A q \in Ids : work'[q] = IF q = r THEN w ELSE work[q]
    BY <2>1, FinishingTyped
  <2>3. Known' \subseteq Known
    <3>1. Range(recent') \subseteq Known
      BY <2>1, FinishFacts DEF Finishing
    <3>2. QED
      BY <2>2, <3>1 DEF Known, Range, NoRun
  <2>4. UNCHANGED <<dedup, projects>> /\ (work[r] \notin {"none", "over"} \/ w = "over")
    BY <2>1 DEF Finishing
  <2>5. \A q \in Ids : runs'[q].key = runs[q].key /\ runs'[q].folder = runs[q].folder
    BY <2>2 DEF Spoken
  <2>6. QED
    BY <1>2, <2>2, <2>3, <2>4, <2>5
<1>6. CASE GetsOn
  <2>1. PICK r \in Ids : Connects(r) \/ \E w \in WorkType : Leaves(r, w)
    BY <1>6 DEF GetsOn
  <2>2. /\ UNCHANGED <<runs, recent, dedup, projects>> /\ active'.run = active.run
        /\ work[r] \in {"connecting", "turn", "disposing"}
        /\ \A q \in Ids : q # r => work'[q] = work[q]
    <3>1. work \in Seq(WorkType) /\ Ids = 1 .. Len(work) /\ active \in SlotType
      BY <1>1 DEF Typed
    <3>2. QED
      BY <2>1, <3>1 DEF Connects, Leaves, SlotType
  <2>3. Ids' = Ids /\ Known' = Known
    BY <2>2 DEF Ids, Known
  <2>4. QED
    BY <1>2, <2>2, <2>3
<1>7. CASE Cancel
  <2>1. /\ Ids' = Ids /\ UNCHANGED <<recent, work, dedup, projects>> /\ active'.run = active.run
        /\ \A q \in Ids : runs'[q].key = runs[q].key /\ runs'[q].folder = runs[q].folder
    BY <1>7, CancelTyped DEF Spoken
  <2>2. Known' = Known
    BY <2>1 DEF Known
  <2>3. QED
    BY <1>2, <2>1, <2>2
<1>8. CASE Crash
  <2>1. /\ Ids' = Ids /\ UNCHANGED <<runs, dedup, projects>>
        /\ active' = NoRun /\ recent' = <<>>
        /\ \A q \in Ids : work'[q] = IF work[q] \in {"child", "orphan"} THEN "orphan" ELSE "over"
    BY <1>8, CrashTyped
  <2>2. Known' = {}
    BY <2>1 DEF Known, NoRun, Range
  <2>3. QED
    BY <1>2, <2>1, <2>2
<1>9. CASE \E r \in Ids, from \in Ids \cup {0} : Speaks(r, from)
  <2>1. /\ Ids' = Ids /\ UNCHANGED <<active, recent, work, dedup, projects>>
        /\ \A q \in Ids : runs'[q].key = runs[q].key /\ runs'[q].folder = runs[q].folder
    BY <1>9, LineTyped DEF Speaks, Spoken
  <2>2. Known' = Known
    BY <2>1 DEF Known
  <2>3. QED
    BY <1>2, <2>1, <2>2
<1>10. CASE \E r \in Ids : Watch(r) \/ Poll(r)
  <2>1. UNCHANGED <<runs, recent, work, dedup, projects>> /\ active'.run = active.run
    <3>1. active \in SlotType
      BY DEF Typed
    <3>2. QED
      BY <1>10, <3>1 DEF Watch, Poll, SlotType
  <2>2. Ids' = Ids /\ Known' = Known
    BY <2>1 DEF Ids, Known
  <2>3. QED
    BY <1>2, <2>1, <2>2
<1>11. CASE UNCHANGED <<opts, runs, active, recent, work, dedup, projects, phone>>
  <2>1. Ids' = Ids /\ Known' = Known
    BY <1>11 DEF Ids, Known
  <2>2. QED
    BY <1>2, <1>11, <2>1
<1>12. QED
  BY <1>3, <1>4, <1>5, <1>6, <1>7, <1>8, <1>9, <1>10, <1>11, StepCases

(* Nothing runs in a folder nobody trusted, and of the runs that are known *)
(* no two have one key, however posts, approvals, cancels, crashes and the *)
(* forgetting of runs interleave (serve.ts, inputDedup.ts).                *)
THEOREM StartsRightly == Spec => []StartsSound
<1>1. Init => StartsInv
  BY DEF Init, NoRun, StartsInv, TrustFirst, KeysLead, Known, Range, Ids
<1>2. StartsInv => StartsSound
  BY DEF StartsInv, StartsSound, KeysLead, KeyedOnce
<1>3. QED
  BY <1>1, <1>2, StartsStep, AlwaysTyped, PTL DEF Spec

-----------------------------------------------------------------------------
(*                     Cancelled while connecting                          *)

(* A cancel that arrives while the session of a run is being created is    *)
(* seen when the server answers: the slot remembers it (runManager.ts,     *)
(* cancelRequested), whatever else happened in between.                    *)
THEOREM CancelledNeverTurns == Spec => CancelledBeforeTurn
<1>1. ASSUME Typed, [Next]_vars, NEW r \in Ids,
             work[r] = "connecting", runs[r].status = "cancelled", work'[r] = "turn"
      PROVE  FALSE
  <2>1. CASE Starts
    BY <1>1, <2>1, PostTyped DEF Starts
  <2>2. CASE Approve
    <3>1. runs[active.run].status = "awaiting_trust"
      BY <1>1, <2>2 DEF Approve, Parked
    <3>2. r # active.run
      BY <1>1, <3>1
    <3>3. \A q \in Ids : q # active.run => work'[q] = work[q]
      BY <1>1, <2>2, ApproveTyped
    <3>4. QED
      BY <1>1, <3>2, <3>3
  <2>3. CASE Finishes
    <3>1. PICK q \in Ids, st \in StatusType, evs \in Seq(Events), w \in {"errored", "over", "disposing"} :
            Finishing(q, st, evs, w)
      BY <2>3 DEF Finishes
    <3>2. work'[r] = IF r = q THEN w ELSE work[r]
      BY <1>1, <3>1, FinishingTyped
    <3>3. QED
      BY <1>1, <3>2
  <2>4. CASE GetsOn
    <3>1. work \in Seq(WorkType) /\ Ids = 1 .. Len(work) /\ r # 0
      BY <1>1, Facts DEF Typed
    <3>2. PICK q \in Ids : Connects(q) \/ \E w \in WorkType : Leaves(q, w)
      BY <2>4 DEF GetsOn
    <3>3. CASE Connects(q)
      BY <1>1, <3>1, <3>3 DEF Connects, Typed, CancelNoted
    <3>4. CASE \E w \in WorkType : Leaves(q, w)
      BY <1>1, <3>1, <3>4 DEF Leaves
    <3>5. QED
      BY <3>2, <3>3, <3>4
  <2>5. CASE \/ Cancel \/ \E q \in Ids : Watch(q) \/ Poll(q)
             \/ \E q \in Ids, from \in Ids \cup {0} : Speaks(q, from)
    BY <1>1, <2>5 DEF Cancel, Speaks, Says, Watch, Poll
  <2>6. CASE Crash
    BY <1>1, <2>6, CrashTyped
  <2>7. CASE UNCHANGED <<opts, runs, active, recent, work, dedup, projects, phone>>
    BY <1>1, <2>7
  <2>8. QED
    BY <1>1, <2>1, <2>2, <2>3, <2>4, <2>5, <2>6, <2>7, StepCases
<1>2. Typed /\ [Next]_vars =>
        [\A r \in Ids : work[r] = "connecting" /\ runs[r].status = "cancelled" => work'[r] # "turn"]_vars
  BY <1>1
<1>3. QED
  BY <1>2, AlwaysTyped, PTL DEF Spec, CancelledBeforeTurn

-----------------------------------------------------------------------------
(*                          Who watches a run                              *)

(* What a phone was shown of a run that has gone on without it.            *)
Begins(new, old) == Len(new) <= Len(old) /\ \A i \in 1 .. Len(new) : new[i] = old[i]

(* A phone that was cut off heard of a cancel, or the run is told no more. *)
CutOff(r) ==
  /\ Shown(r) \in Seq(Events) /\ Begins(Shown(r), runs[r].events)
  /\ (Shown(r) = runs[r].events /\ active.run # r) \/ Cancelling(Shown(r))

Watched(r) ==
  /\ active.run = r => (active.listening <=> phone[r].state = "open")
  /\ phone[r].state = "open" => phone[r].seen = runs[r].events
  /\ phone[r].state \in {"closed", "replayed"} => CutOff(r)

(* The run in the slot is open, or it has been told that it is cancelled.  *)
SlotTold == active.run # 0 => Open(active.run) \/ Cancelling(runs[active.run].events)

(* As long as a stream is open the slot remembers that somebody listens to *)
(* its run; once the run has left the slot it is told nothing more.        *)
WatchInv == SlotTold /\ \A r \in Ids : Watched(r)

(* What has been told is not taken back.                                   *)
LEMMA LongerStill ==
  ASSUME NEW old \in Seq(Events), NEW evs \in Seq(Events)
  PROVE  /\ Cancelling(old) => Cancelling(old \o evs)
         /\ \A seen \in Seq(Events) : Begins(seen, old) => Begins(seen, old \o evs)
<1>1. PICK new : new = old \o evs
  OBVIOUS
<1>2. /\ new \in Seq(Events) /\ Len(new) = Len(old) + Len(evs)
      /\ Len(old) \in Nat /\ Len(evs) \in Nat
      /\ \A i \in 1 .. Len(old) : i \in 1 .. Len(new) /\ new[i] = old[i]
      /\ DOMAIN old = 1 .. Len(old) /\ DOMAIN new = 1 .. Len(new)
  BY <1>1
<1>3. Cancelling(old) => Cancelling(new)
  BY <1>2 DEF Cancelling
<1>4. ASSUME NEW seen \in Seq(Events), Begins(seen, old)
      PROVE  Begins(seen, new)
  <2>1. Len(seen) \in Nat /\ Len(seen) <= Len(old) /\ \A i \in 1 .. Len(seen) : seen[i] = old[i]
    BY <1>4 DEF Begins
  <2>2. QED
    BY <1>2, <2>1 DEF Begins
<1>5. QED
  BY <1>1, <1>3, <1>4

LEMMA BeginsItself ==
  ASSUME NEW s \in Seq(Events) PROVE Begins(s, s)
  BY DEF Begins

LEMMA BeginsIsPrefix ==
  ASSUME NEW s \in Seq(Events), NEW t \in Seq(Events), Begins(s, t)
  PROVE  IsPrefix(s, t)
<1>1. PICK n \in Nat : n = Len(s)
  OBVIOUS
<1>2. n <= Len(t) /\ Len(t) \in Nat /\ \A i \in 1 .. n : s[i] = t[i]
  BY <1>1 DEF Begins
<1>3. PICK u, v : u = SubSeq(s, 1, n) /\ v = SubSeq(t, 1, n)
  OBVIOUS
<1>4. /\ u \in Seq(Events) /\ Len(u) = n /\ \A i \in 1 .. n : u[i] = s[i]
      /\ v \in Seq(Events) /\ Len(v) = n /\ \A i \in 1 .. n : v[i] = t[i]
  BY <1>1, <1>2, <1>3
<1>5. u = v
  <2>1. \A i \in 1 .. n : u[i] = v[i]
    BY <1>2, <1>4
  <2>2. QED
    BY <1>4, <2>1, SeqEqual
<1>6. QED
  BY <1>1, <1>2, <1>3, <1>5 DEF IsPrefix

(* A late watcher is shown what there is, and the end once more.           *)
LEMMA FrontOfAppended ==
  ASSUME NEW s \in Seq(Events), NEW e \in Events PROVE Front(s \o <<e>>) = s
<1>1. PICK t : t = s \o <<e>>
  OBVIOUS
<1>2. t \in Seq(Events) /\ Len(t) = Len(s) + 1 /\ \A i \in 1 .. Len(s) : t[i] = s[i]
  BY <1>1
<1>3. PICK u : u = SubSeq(t, 1, Len(s))
  OBVIOUS
<1>4. u \in Seq(Events) /\ Len(u) = Len(s) /\ \A i \in 1 .. Len(s) : u[i] = t[i]
  BY <1>2, <1>3
<1>5. u = s
  <2>1. \A i \in 1 .. Len(s) : i \in 1 .. Len(u) /\ u[i] = s[i]
    BY <1>2, <1>4
  <2>2. QED
    BY <1>4, <2>1, SeqEqual
<1>6. Front(t) = u
  BY <1>2, <1>3 DEF Front
<1>7. QED
  BY <1>1, <1>5, <1>6

(* A run and its phone are as they were, and who listens if it is still    *)
(* in the slot.                                                            *)
LEMMA WatchedStays ==
  ASSUME NEW q \in Ids, q # 0, Watched(q),
         phone'[q].state = phone[q].state, phone'[q].seen = phone[q].seen,
         runs'[q].events = runs[q].events,
         active'.run = q => active.run = q /\ active'.listening = active.listening
  PROVE  Watched(q)'
<1>1. Shown(q)' = Shown(q)
  BY DEF Shown
<1>2. ASSUME phone[q].state \in {"closed", "replayed"} PROVE CutOff(q)'
  BY <1>1, <1>2 DEF Watched, CutOff
<1>3. QED
  BY <1>2 DEF Watched

(* Whatever the run in the slot is told, who listens to it is shown.       *)
LEMMA WatchedSpoken ==
  ASSUME Typed, NEW q \in Ids, Watched(q), NEW r, NEW st, NEW evs \in Seq(Events),
         Spoken(r, st, evs),
         active'.run # 0 => active'.run = active.run /\ active'.listening = active.listening
  PROVE  Watched(q)'
<1>1. q # 0 /\ runs[q] \in RunType /\ phone[q] \in PhoneType
  BY Facts
<1>2. CASE q # active.run
  <2>1. /\ phone'[q].state = phone[q].state /\ phone'[q].seen = phone[q].seen
        /\ runs'[q].events = runs[q].events /\ active'.run # q
    BY <1>1, <1>2 DEF Spoken
  <2>2. QED
    BY <1>1, <2>1, WatchedStays
<1>3. CASE q = active.run /\ phone[q].state = "open"
  <2>1. active.listening /\ phone[q].seen = runs[q].events
    BY <1>3 DEF Watched
  <2>2. phone'[q].state = "open" /\ phone'[q].seen = runs'[q].events
    BY <1>3, <2>1 DEF Spoken
  <2>3. QED
    BY <1>1, <1>3, <2>1, <2>2 DEF Watched
<1>4. CASE q = active.run /\ phone[q].state # "open"
  <2>1. phone'[q].state = phone[q].state /\ phone'[q].seen = phone[q].seen
        /\ runs'[q].events = runs[q].events \o evs
    BY <1>4 DEF Spoken, Watched
  <2>2. Shown(q)' = Shown(q)
    BY <2>1 DEF Shown
  <2>3. ASSUME phone[q].state \in {"closed", "replayed"} PROVE CutOff(q)'
    <3>1. CutOff(q) /\ Cancelling(Shown(q))
      BY <1>4, <2>3 DEF Watched, CutOff
    <3>2. PICK old \in Seq(Events), seen \in Seq(Events) : old = runs[q].events /\ seen = Shown(q)
      BY <1>1, <3>1 DEF CutOff, RunType
    <3>3. Begins(seen, old \o evs)
      BY <3>1, <3>2, LongerStill DEF CutOff
    <3>4. QED
      BY <2>1, <2>2, <3>1, <3>2, <3>3 DEF CutOff
  <2>4. active'.run = q => ~active'.listening
    BY <1>1, <1>4 DEF Watched
  <2>5. QED
    BY <1>4, <2>1, <2>3, <2>4 DEF Watched
<1>5. QED
  BY <1>2, <1>3, <1>4

(* The run in the slot was open before, or knew that it was cancelled.     *)
LEMMA SlotToldSpoken ==
  ASSUME Typed, SlotTold, NEW r, NEW evs \in Seq(Events),
         Spoken(r, runs[r].status, evs), active'.run = active.run
  PROVE  SlotTold'
<1> SUFFICES ASSUME NEW q \in Ids, q = active.run, ~Open(q)'
             PROVE  Cancelling(runs'[q].events)
  BY Facts DEF SlotTold
<1>1. runs'[q].status = runs[q].status /\ runs'[q].events = runs[q].events \o evs
  BY DEF Spoken
<1>2. q # 0 /\ runs[q].events \in Seq(Events)
  BY Facts DEF RunType
<1>3. Cancelling(runs[q].events)
  BY <1>1, <1>2 DEF SlotTold, Open
<1>4. PICK old \in Seq(Events) : old = runs[q].events
  BY <1>2
<1>5. QED
  BY <1>1, <1>3, <1>4, LongerStill

LEMMA WatchStep == Typed /\ WatchInv /\ [Next]_vars => WatchInv'
<1> SUFFICES ASSUME Typed, WatchInv, [Next]_vars PROVE WatchInv'
  OBVIOUS
<1>1. /\ Ids = 1 .. Len(runs) /\ Len(runs) \in Nat
      /\ active \in SlotType /\ phone \in Seq(PhoneType) /\ Len(phone) = Len(runs)
      /\ \A q \in Ids : q # 0 /\ phone[q] \in PhoneType /\ runs[q] \in RunType
  BY Facts DEF Typed
<1>2. CASE Starts
  <2>1. PICK k \in Keys, f \in Folders : Post(k, f)
    BY <1>2 DEF Starts
  <2>2. PICK n : n = Len(runs) + 1
    OBVIOUS
  <2>3. /\ Ids' = Ids \cup {n}
        /\ \A q \in Ids : runs'[q] = runs[q] /\ phone'[q] = phone[q]
        /\ phone'[n].state = "none" /\ active' = Slot(n, FALSE)
        /\ runs'[n].status \in {"running", "awaiting_trust"}
    BY <2>1, <2>2, PostTyped
  <2>4. active'.run = n /\ ~active'.listening /\ n \notin Ids
    BY <1>1, <2>2, <2>3 DEF Slot, NoRun
  <2>5. ASSUME NEW q \in Ids PROVE Watched(q)'
    BY <1>1, <2>3, <2>4, <2>5, WatchedStays DEF WatchInv
  <2>6. Watched(n)'
    BY <2>3, <2>4 DEF Watched
  <2>7. SlotTold'
    BY <2>3, <2>4 DEF SlotTold, Open
  <2>8. QED
    BY <2>3, <2>5, <2>6, <2>7 DEF WatchInv
<1>3. CASE Approve
  <2>1. PICK evs \in Seq(Events) : Approved(evs)
    BY <1>3, ApproveTyped
  <2>2. Ids' = Ids /\ active' = Slot(active.run, active.listening) /\ active.run \in Ids
    BY <1>3, ApproveTyped
  <2>3. active'.run = active.run /\ active'.listening = active.listening
    BY <2>2 DEF Slot, NoRun
  <2>4. \A q \in Ids : Watched(q)'
    BY <2>1, <2>3, WatchedSpoken DEF WatchInv, Approved
  <2>5. SlotTold'
    BY <2>1, <2>2, <2>3 DEF SlotTold, Open, Approved, Spoken
  <2>6. QED
    BY <2>2, <2>4, <2>5 DEF WatchInv
<1>4. CASE Finishes
  <2>1. PICK r \in Ids, st \in StatusType, evs \in Seq(Events), w \in {"errored", "over", "disposing"} :
          Finishing(r, st, evs, w)
    BY <1>4 DEF Finishes
  <2>2. Ids' = Ids /\ Spoken(r, st, evs) /\ active'.run = 0
    BY <2>1, FinishingTyped DEF NoRun
  <2>3. \A q \in Ids : Watched(q)'
    BY <2>2, WatchedSpoken DEF WatchInv
  <2>4. SlotTold'
    BY <2>2 DEF SlotTold
  <2>5. QED
    BY <2>2, <2>3, <2>4 DEF WatchInv
(* Neither a run nor a stream changes. *)
<1>5. ASSUME UNCHANGED <<runs, phone>>, active'.run \in {0, active.run},
             active'.listening = active.listening
      PROVE  WatchInv'
  <2>1. \A q \in Ids : Watched(q)'
    BY <1>1, <1>5, WatchedStays DEF WatchInv
  <2>2. SlotTold'
    BY <1>5 DEF WatchInv, SlotTold, Open
  <2>3. QED
    BY <1>5, <2>1, <2>2 DEF WatchInv, Ids
<1>6. CASE GetsOn
  <2>1. PICK r \in Ids : Connects(r) \/ \E w \in WorkType : Leaves(r, w)
    BY <1>6 DEF GetsOn
  <2>2. /\ UNCHANGED <<runs, phone>> /\ active'.run = active.run
        /\ active'.listening = active.listening
    BY <1>1, <2>1 DEF Connects, Leaves, SlotType
  <2>3. QED
    BY <1>5, <2>2
<1>7. CASE Cancel
  <2>1. PICK r \in Ids : r = active.run
    BY <1>7, CancelTyped
  <2>2. PICK e \in Events, evs \in Seq(Events) :
          e = Event("cancelling", r) /\ evs = <<e>>
    <3>1. PICK e \in Events : e = Event("cancelling", r)
      BY EventTyped DEF EventTypes
    <3>2. <<e>> \in Seq(Events)
      BY <3>1
    <3>3. QED
      BY <3>1, <3>2
  <2>3. /\ Ids' = Ids /\ active'.run = r /\ active'.listening = active.listening
        /\ Spoken(r, "cancelled", evs)
    BY <1>7, <2>1, <2>2, CancelTyped
  <2>4. \A q \in Ids : Watched(q)'
    BY <2>1, <2>3, WatchedSpoken DEF WatchInv
  <2>5. Cancelling(runs'[r].events)
    <3>1. PICK old \in Seq(Events) : old = runs[r].events
      BY <1>1 DEF RunType
    <3>2. PICK new : new = old \o evs
      OBVIOUS
    <3>3. Len(old) + 1 \in DOMAIN new /\ new[Len(old) + 1] = e
      BY <2>2, <3>2
    <3>4. runs'[r].events = new
      BY <2>1, <2>3, <3>1, <3>2 DEF Spoken
    <3>5. e.type = "cancelling"
      BY <2>2 DEF Event
    <3>6. QED
      BY <3>3, <3>4, <3>5 DEF Cancelling
  <2>6. SlotTold'
    BY <2>3, <2>5 DEF SlotTold
  <2>7. QED
    BY <2>3, <2>4, <2>6 DEF WatchInv
<1>8. CASE Crash
  <2>1. /\ Ids' = Ids /\ UNCHANGED runs /\ active'.run = 0
        /\ \A q \in Ids :
             /\ phone'[q].state = IF phone[q].state = "open" THEN "closed" ELSE phone[q].state
             /\ phone'[q].seen = phone[q].seen
    BY <1>8, CrashTyped DEF NoRun
  <2>2. ASSUME NEW q \in Ids PROVE Watched(q)'
    <3>1. Watched(q)
      BY DEF WatchInv
    <3>2. CASE phone[q].state # "open"
      BY <1>1, <2>1, <3>1, <3>2, WatchedStays
    <3>3. CASE phone[q].state = "open"
      <4>1. phone'[q].state = "closed" /\ phone'[q].seen = runs'[q].events
        BY <2>1, <3>1, <3>3 DEF Watched
      <4>2. Shown(q)' = runs'[q].events /\ runs'[q].events \in Seq(Events)
        BY <1>1, <2>1, <4>1 DEF Shown, RunType
      <4>3. CutOff(q)'
        BY <1>1, <2>1, <4>2, BeginsItself DEF CutOff
      <4>4. QED
        BY <1>1, <2>1, <4>1, <4>3 DEF Watched
    <3>4. QED
      BY <3>2, <3>3
  <2>3. SlotTold'
    BY <2>1 DEF SlotTold
  <2>4. QED
    BY <2>1, <2>2, <2>3 DEF WatchInv
<1>9. CASE \E r \in Ids, from \in Ids \cup {0} : Speaks(r, from)
  <2>1. PICK r \in Ids, from \in Ids \cup {0} : Speaks(r, from)
    BY <1>9
  <2>2. PICK evs \in Seq(Events) : evs = <<Event("line", from)>>
    BY EventTyped DEF EventTypes
  <2>3. Ids' = Ids /\ active' = active /\ Spoken(r, runs[r].status, evs)
    BY <2>1, <2>2, LineTyped DEF Speaks
  <2>4. \A q \in Ids : Watched(q)'
    BY <2>3, WatchedSpoken DEF WatchInv
  <2>5. SlotTold'
    BY <2>3, SlotToldSpoken DEF WatchInv
  <2>6. QED
    BY <2>3, <2>4, <2>5 DEF WatchInv
<1>10. CASE \E r \in Ids : Watch(r)
  <2>1. PICK r \in Ids : Watch(r)
    BY <1>10
  <2>2. /\ UNCHANGED runs /\ active'.run = active.run /\ phone[r].state = "none"
        /\ active'.listening = (active.listening \/ (Open(r) /\ active.run = r))
        /\ \A q \in Ids : q # r => phone'[q] = phone[q]
        /\ Open(r) => phone'[r].state = "open" /\ phone'[r].seen = runs[r].events
        /\ ~Open(r) => /\ phone'[r].state = "replayed"
                       /\ phone'[r].seen = runs[r].events \o <<Event("run_finished", r)>>
    BY <1>1, <2>1 DEF Watch, SlotType, Owns
  <2>3. ASSUME NEW q \in Ids, q # r PROVE Watched(q)'
    <3>1. /\ Watched(q) /\ q # 0 /\ phone'[q] = phone[q] /\ runs' = runs
          /\ active'.run = q => active.run = q /\ active'.listening = active.listening
      BY <1>1, <2>2, <2>3 DEF WatchInv, SlotType
    <3>2. QED
      BY <3>1, WatchedStays
  <2>4. active.run = r => ~active.listening
    BY <2>2 DEF WatchInv, Watched
  <2>5. CASE Open(r)
    <3>1. Watched(r)'
      BY <2>2, <2>5 DEF Watched
    <3>2. QED
      BY <2>2, <2>3, <3>1 DEF WatchInv, SlotTold, Open, Ids
  <2>6. CASE ~Open(r)
    <3>1. PICK old \in Seq(Events), e \in Events :
            old = runs[r].events /\ e = Event("run_finished", r)
      BY <1>1, EventTyped DEF RunType, EventTypes
    <3>2. Shown(r)' = old
      BY <2>2, <2>6, <3>1, FrontOfAppended DEF Shown
    <3>3. active.run = r => Cancelling(old)
      BY <1>1, <2>6, <3>1 DEF WatchInv, SlotTold
    <3>4. CutOff(r)'
      BY <2>2, <3>1, <3>2, <3>3, BeginsItself DEF CutOff
    <3>5. Watched(r)'
      BY <2>2, <2>4, <2>6, <3>4 DEF Watched
    <3>6. QED
      BY <2>2, <2>3, <3>5 DEF WatchInv, SlotTold, Open, Ids
  <2>7. QED
    BY <2>5, <2>6
<1>11. CASE \E r \in Ids : Poll(r)
  <2>1. PICK r \in Ids : Poll(r)
    BY <1>11
  <2>2. /\ UNCHANGED runs /\ active'.run = active.run /\ phone[r].state = "open"
        /\ active'.listening = (active.listening /\ active.run # r)
        /\ \A q \in Ids : q # r => phone'[q] = phone[q]
        /\ phone'[r].state = "closed" /\ phone'[r].seen = phone[r].seen
        /\ active.run = r => ~Open(r)
    BY <1>1, <2>1 DEF Poll, StreamOver, Known, SlotType, Owns, PhoneType
  <2>3. ASSUME NEW q \in Ids, q # r PROVE Watched(q)'
    <3>1. /\ Watched(q) /\ q # 0 /\ phone'[q] = phone[q] /\ runs' = runs
          /\ active'.run = q => active.run = q /\ active'.listening = active.listening
      BY <1>1, <2>2, <2>3 DEF WatchInv, SlotType
    <3>2. QED
      BY <3>1, WatchedStays
  <2>4. phone[r].seen = runs[r].events /\ runs[r].events \in Seq(Events)
    BY <1>1, <2>2 DEF WatchInv, Watched, RunType
  <2>5. Shown(r)' = runs[r].events
    BY <2>2, <2>4 DEF Shown
  <2>6. active.run = r => Cancelling(runs[r].events)
    BY <1>1, <2>2 DEF WatchInv, SlotTold
  <2>7. CutOff(r)'
    BY <2>2, <2>4, <2>5, <2>6, BeginsItself DEF CutOff
  <2>8. Watched(r)'
    BY <2>2, <2>7 DEF Watched
  <2>9. QED
    BY <2>2, <2>3, <2>8 DEF WatchInv, SlotTold, Open, Ids
<1>12. CASE UNCHANGED <<opts, runs, active, recent, work, dedup, projects, phone>>
  BY <1>5, <1>12
<1>13. QED
  BY <1>2, <1>3, <1>4, <1>6, <1>7, <1>8, <1>9, <1>10, <1>11, <1>12, StepCases

-----------------------------------------------------------------------------
(*                            One run at a time                            *)
(*                                                                         *)
(* Where a child may fail to start, its late 'close' frees the slot of     *)
(* whatever run has followed (run companion_double_free): the proofs are   *)
(* about runs none of which follows a child that failed.                   *)

OneAtATime == \A o \in Options : "spawn" \in o.faults => o.runs <= 1

SlotInv ==
  /\ SingleFlight
  /\ \A r \in Ids : work[r] \in {"failed", "errored"} => Hazard("spawn")
  /\ Len(runs) <= opts.runs

(* What ends a run ends the one in the slot, and none when there is none.  *)
LEMMA EndsItsOwn ==
  ASSUME OneAtATime, Typed, SlotInv, NEW r \in Ids, NEW st, NEW evs, NEW w,
         Finishing(r, st, evs, w)
  PROVE  active.run \in {0, r}
<1>1. /\ Ids = 1 .. Len(runs) /\ Len(runs) \in Nat /\ active.run \in Ids \cup {0}
      /\ opts \in Options /\ opts.runs \in Nat
  BY Facts, OptionsAssumption DEF Typed
<1>2. CASE active.run = r
  BY <1>2
<1>3. CASE active.run # r
  <2>1. work[r] = "errored"
    BY <1>3 DEF Finishing, SlotInv, SingleFlight, Working
  <2>2. opts.runs <= 1
    BY <1>1, <2>1 DEF SlotInv, Hazard, OneAtATime
  <2>3. \A q \in Ids : q = 1
    BY <1>1, <2>2 DEF SlotInv
  <2>4. QED
    BY <1>1, <1>3, <2>3
<1>4. QED
  BY <1>2, <1>3

LEMMA SlotStep ==
  ASSUME OneAtATime PROVE Typed /\ SlotInv /\ [Next]_vars => SlotInv'
<1> SUFFICES ASSUME Typed, SlotInv, [Next]_vars PROVE SlotInv'
  OBVIOUS
<1>1. /\ Ids = 1 .. Len(runs) /\ Len(runs) \in Nat /\ active.run \in Ids \cup {0}
      /\ active \in SlotType
      /\ \A q \in Ids : (Working(q) => active.run = q) /\ work[q] \in WorkType
  BY Facts DEF Typed, SlotInv, SingleFlight
<1>2. Len(runs) <= opts.runs /\ opts' = opts
  BY OptsKept DEF SlotInv
<1>3. ASSUME Ids' = Ids, UNCHANGED work, active'.run = active.run
      PROVE  SlotInv'
  <2>1. Len(runs') \in Nat /\ Len(runs') = Len(runs)
    <3>1. Ids' = 1 .. Len(runs') /\ Len(runs') \in Nat
      BY TypedStep, Facts DEF Typed, Ids
    <3>2. QED
      BY <1>1, <1>3, <3>1
  <2>2. QED
    BY <1>2, <1>3, <2>1 DEF SlotInv, SingleFlight, Working, Hazard
<1>4. CASE Starts
  <2>1. PICK k \in Keys, f \in Folders : Post(k, f)
    BY <1>4 DEF Starts
  <2>2. PICK r : r = Len(runs) + 1
    OBVIOUS
  <2>3. /\ Ids' = Ids \cup {r} /\ Len(runs') = r
        /\ \A q \in Ids : work'[q] = work[q]
        /\ work'[r] = "none" \/ work'[r] \in Launched(r)
        /\ active' = Slot(r, FALSE)
    BY <2>1, <2>2, PostTyped
  <2>4. active.run = 0 /\ Len(runs) < opts.runs /\ active'.run = r
    BY <2>1, <2>3 DEF Post, SlotIsFree, Slot, NoRun
  <2>5. work'[r] \in {"failed", "errored"} => Hazard("spawn")
    BY <2>3 DEF Launched
  <2>6. \A q \in Ids : ~Working(q) /\ q # 0
    BY <1>1, <2>4
  <2>7. r <= opts.runs
    <3>1. opts.runs \in Nat
      BY OptionsAssumption DEF Typed
    <3>2. QED
      BY <1>1, <2>2, <2>4, <3>1
  <2>8. QED
    BY <1>2, <2>3, <2>4, <2>5, <2>6, <2>7 DEF SlotInv, SingleFlight, Working, Hazard
<1>5. CASE Approve
  <2>1. /\ Ids' = Ids /\ active' = Slot(active.run, active.listening)
        /\ \E w \in Launched(active.run) : \A q \in Ids :
             work'[q] = IF q = active.run THEN w ELSE work[q]
    BY <1>5, ApproveTyped
  <2>2. PICK w \in Launched(active.run) : \A q \in Ids :
             work'[q] = IF q = active.run THEN w ELSE work[q]
    BY <2>1
  <2>3. active'.run = active.run /\ (w \in {"failed", "errored"} => Hazard("spawn"))
    BY <2>1, <2>2 DEF Slot, NoRun, Launched
  <2>4. Len(runs') = Len(runs)
    <3>1. Ids' = 1 .. Len(runs') /\ Len(runs') \in Nat
      BY TypedStep, Facts DEF Typed, Ids
    <3>2. QED
      BY <1>1, <2>1, <3>1
  <2>5. QED
    BY <1>1, <1>2, <2>1, <2>2, <2>3, <2>4 DEF SlotInv, SingleFlight, Working, Hazard
<1>6. CASE Finishes
  <2>1. PICK r \in Ids, st \in StatusType, evs \in Seq(Events), w \in {"errored", "over", "disposing"} :
          Finishing(r, st, evs, w)
    BY <1>6 DEF Finishes
  <2>2. /\ Ids' = Ids /\ \A q \in Ids : work'[q] = IF q = r THEN w ELSE work[q]
    BY <2>1, FinishingTyped
  <2>3. active.run \in {0, r}
    BY <2>1, EndsItsOwn
  <2>4. \A q \in Ids : work'[q] \notin {"child", "failed", "connecting", "turn", "dropping"}
    BY <1>1, <2>2, <2>3 DEF Working
  <2>5. \A q \in Ids : work'[q] \in {"failed", "errored"} => work[q] \in {"failed", "errored"}
    BY <2>1, <2>2, <2>4 DEF Finishing
  <2>6. Len(runs') = Len(runs)
    BY <2>1, ToldFacts DEF Finishing
  <2>7. QED
    BY <1>2, <2>2, <2>4, <2>5, <2>6 DEF SlotInv, SingleFlight, Working, Hazard
<1>7. CASE GetsOn
  <2>1. PICK r \in Ids : Connects(r) \/ \E w \in WorkType : Leaves(r, w)
    BY <1>7 DEF GetsOn
  <2>2. /\ UNCHANGED runs /\ active'.run = active.run
        /\ \A q \in Ids : q # r => work'[q] = work[q]
        /\ \/ work'[r] \in {"turn", "dropping"} /\ active.run = r
           \/ work'[r] \in {"disposing", "over"}
    <3>1. work \in Seq(WorkType) /\ Ids = 1 .. Len(work)
      BY <1>1 DEF Typed
    <3>2. QED
      BY <1>1, <2>1, <3>1 DEF Connects, Leaves, SlotType
  <2>3. QED
    BY <1>1, <1>2, <2>2 DEF SlotInv, SingleFlight, Working, Hazard, Ids
<1>8. CASE Cancel
  BY <1>3, <1>8, CancelTyped
<1>9. CASE Crash
  <2>1. /\ Ids' = Ids /\ UNCHANGED runs
        /\ \A q \in Ids : work'[q] = IF work[q] \in {"child", "orphan"} THEN "orphan" ELSE "over"
    BY <1>9, CrashTyped
  <2>2. QED
    BY <1>2, <2>1 DEF SlotInv, SingleFlight, Working
<1>10. CASE \E r \in Ids, from \in Ids \cup {0} : Speaks(r, from)
  BY <1>3, <1>10, LineTyped DEF Speaks
<1>11. CASE \E r \in Ids : Watch(r) \/ Poll(r)
  <2>1. UNCHANGED <<runs, work>> /\ active'.run = active.run
    BY <1>1, <1>11 DEF Watch, Poll, SlotType
  <2>2. QED
    BY <1>3, <2>1 DEF Ids
<1>12. CASE UNCHANGED <<opts, runs, active, recent, work, dedup, projects, phone>>
  BY <1>3, <1>12 DEF Ids
<1>13. QED
  BY <1>4, <1>5, <1>6, <1>7, <1>8, <1>9, <1>10, <1>11, <1>12, StepCases

LEMMA AlwaysOneAtATime == ASSUME OneAtATime PROVE Spec => [](Typed /\ SlotInv)
<1>1. Init => SlotInv
  <2> SUFFICES ASSUME Init PROVE SlotInv
    OBVIOUS
  <2>1. Ids = {} /\ Len(runs) = 0 /\ opts.runs \in Nat
    BY OptionsAssumption DEF Init, Ids
  <2>2. QED
    BY <2>1 DEF SlotInv, SingleFlight
<1>2. QED
  BY <1>1, SlotStep, AlwaysTyped, PTL DEF Spec

-----------------------------------------------------------------------------
(*                      What a run is told of itself                       *)

(* What run r may be told: of itself, and on the harness server a line of  *)
(* anybody's.                                                              *)
Heard(e, r) == e.of = r \/ (opts.client /\ e.type = "line")

EndsAt(r) == {i \in DOMAIN runs[r].events : runs[r].events[i].type = "run_finished"}

(* As long as a run holds the slot it has not been told of its end, and it *)
(* is told so at most once.                                                *)
OwnInv ==
  \A r \in Ids :
    /\ \A i \in DOMAIN runs[r].events : Heard(runs[r].events[i], r)
    /\ active.run = r => EndsAt(r) = {}
    /\ \E n \in Nat : EndsAt(r) \subseteq {n}

(* The run in the slot is told evs, which it may hear.                     *)
LEMMA SpokenOwn ==
  ASSUME Typed, OwnInv, Ids' = Ids, opts' = opts,
         NEW r, NEW st, NEW evs \in Seq(Events), Spoken(r, st, evs),
         active.run \in {0, r}, active'.run \in {0, active.run},
         \A i \in 1 .. Len(evs) : Heard(evs[i], r) /\ (evs[i].type = "run_finished" => i = Len(evs)),
         active'.run # 0 => \A i \in 1 .. Len(evs) : evs[i].type # "run_finished"
  PROVE  OwnInv'
<1> SUFFICES ASSUME NEW q \in Ids
             PROVE  /\ \A i \in DOMAIN runs'[q].events : Heard(runs'[q].events[i], q)
                    /\ active'.run = q => EndsAt(q)' = {}
                    /\ \E n \in Nat : EndsAt(q)' \subseteq {n}
  BY DEF OwnInv, Heard
<1>1. q # 0 /\ runs[q].events \in Seq(Events)
  BY Facts DEF RunType
<1>2. CASE q # active.run
  <2>1. runs'[q].events = runs[q].events /\ active'.run # q
    BY <1>1, <1>2 DEF Spoken
  <2>2. QED
    BY <2>1 DEF OwnInv, EndsAt
<1>3. CASE q = active.run
  <2>1. PICK old \in Seq(Events) : old = runs[q].events
    BY <1>1
  <2>2. PICK new : new = runs'[q].events
    OBVIOUS
  <2>3. /\ new = old \o evs /\ q = r
        /\ \A i \in 1 .. Len(old) : Heard(old[i], q) /\ old[i].type # "run_finished"
    <3>1. runs'[q].events = runs[q].events \o evs
      BY <1>3 DEF Spoken
    <3>2. \A i \in DOMAIN runs[q].events :
             Heard(runs[q].events[i], q) /\ runs[q].events[i].type # "run_finished"
      BY <1>3 DEF OwnInv, EndsAt
    <3>3. QED
      BY <1>1, <1>3, <2>1, <2>2, <3>1, <3>2
  <2>4. /\ DOMAIN new = 1 .. Len(new) /\ Len(new) = Len(old) + Len(evs)
        /\ Len(old) \in Nat /\ Len(evs) \in Nat
        /\ \A i \in 1 .. Len(new) :
             \/ i \in 1 .. Len(old) /\ new[i] = old[i]
             \/ i - Len(old) \in 1 .. Len(evs) /\ new[i] = evs[i - Len(old)]
    BY <2>3
  <2>5. \A i \in 1 .. Len(new) : Heard(new[i], q)
    BY <2>3, <2>4
  <2>6. \A i \in 1 .. Len(new) : new[i].type = "run_finished" => i = Len(new)
    BY <2>3, <2>4
  <2>7. active'.run = q => \A i \in 1 .. Len(new) : new[i].type # "run_finished"
    BY <1>1, <2>3, <2>4
  <2>8. EndsAt(q)' = {i \in 1 .. Len(new) : new[i].type = "run_finished"}
    BY <2>2, <2>4 DEF EndsAt
  <2>9. EndsAt(q)' \subseteq {Len(new)} /\ Len(new) \in Nat
    BY <2>4, <2>6, <2>8
  <2>10. active'.run = q => EndsAt(q)' = {}
    BY <2>7, <2>8
  <2>11. QED
    BY <2>2, <2>4, <2>5, <2>9, <2>10
<1>4. QED
  BY <1>2, <1>3

LEMMA OwnStep ==
  ASSUME OneAtATime PROVE Typed /\ SlotInv /\ OwnInv /\ [Next]_vars => OwnInv'
<1> SUFFICES ASSUME Typed, SlotInv, OwnInv, [Next]_vars PROVE OwnInv'
  OBVIOUS
<1>0. opts' = opts
  BY OptsKept
<1>1. /\ Ids = 1 .. Len(runs) /\ Len(runs) \in Nat /\ active.run \in Ids \cup {0}
      /\ active \in SlotType
  BY Facts DEF Typed
<1>2. CASE Starts
  <2>1. PICK k \in Keys, f \in Folders : Post(k, f)
    BY <1>2 DEF Starts
  <2>2. PICK r : r = Len(runs) + 1
    OBVIOUS
  <2>3. /\ Ids' = Ids \cup {r} /\ r \notin Ids
        /\ \A q \in Ids : runs'[q] = runs[q]
        /\ Len(runs'[r].events) = 1 /\ runs'[r].events[1].of = r
        /\ runs'[r].events[1].type # "run_finished"
        /\ active' = Slot(r, FALSE)
    <3>1. /\ Ids' = Ids \cup {Len(runs) + 1}
          /\ \A q \in Ids : runs'[q] = runs[q]
          /\ Len(runs'[Len(runs) + 1].events) = 1 /\ runs'[Len(runs) + 1].events[1].of = Len(runs) + 1
          /\ runs'[Len(runs) + 1].events[1].type # "run_finished"
          /\ active' = Slot(Len(runs) + 1, FALSE)
      BY <2>1, PostTyped
    <3>2. QED
      BY <1>1, <2>2, <3>1
  <2>4. active'.run = r
    BY <2>3 DEF Slot, NoRun
  <2>5. runs'[r].events \in Seq(Events)
    <3>1. Typed'
      BY TypedStep
    <3>2. runs' \in Seq(RunType) /\ r \in DOMAIN runs'
      BY <2>3, <3>1 DEF Typed, Ids
    <3>3. PICK rs \in Seq(RunType) : rs = runs'
      BY <3>2
    <3>4. rs[r] \in RunType
      BY <3>2, <3>3
    <3>5. QED
      BY <3>3, <3>4 DEF RunType
  <2>6. DOMAIN runs'[r].events = {1}
    BY <2>3, <2>5
  <2>7. EndsAt(r)' = {}
    BY <2>3, <2>6 DEF EndsAt
  <2>8. \A q \in Ids : EndsAt(q)' = EndsAt(q)
    BY <2>3 DEF EndsAt
  <2>9. ASSUME NEW q \in Ids'
        PROVE  /\ \A i \in DOMAIN runs'[q].events : Heard(runs'[q].events[i], q)
               /\ active'.run = q => EndsAt(q)' = {}
               /\ \E n \in Nat : EndsAt(q)' \subseteq {n}
    <3>1. CASE q = r
      BY <2>3, <2>6, <2>7, <3>1 DEF Heard
    <3>2. CASE q # r
      BY <2>3, <2>4, <2>8, <3>2 DEF OwnInv
    <3>3. QED
      BY <3>1, <3>2
  <2>10. QED
    BY <1>0, <2>9 DEF OwnInv, Heard
<1>3. CASE Approve
  <2>1. PICK evs \in Seq(Events) : Approved(evs)
    BY <1>3, ApproveTyped
  <2>2. Ids' = Ids /\ active' = Slot(active.run, active.listening)
    BY <1>3, ApproveTyped
  <2>3. active'.run = active.run
    BY <2>2 DEF Slot, NoRun
  <2>4. QED
    BY <1>0, <2>1, <2>2, <2>3, SpokenOwn DEF Approved, Heard
<1>4. CASE Finishes
  <2>1. PICK r \in Ids, st \in StatusType, evs \in Seq(Events), w \in {"errored", "over", "disposing"} :
          Finishing(r, st, evs, w)
    BY <1>4 DEF Finishes
  <2>2. Ids' = Ids /\ Spoken(r, st, evs) /\ active'.run = 0
    BY <2>1, FinishingTyped DEF NoRun
  <2>3. active.run \in {0, r}
    BY <2>1, EndsItsOwn
  <2>4. \A i \in 1 .. Len(evs) : evs[i].of = r /\ (evs[i].type = "run_finished" => i = Len(evs))
    BY <2>1 DEF Finishing
  <2>5. QED
    BY <1>0, <2>2, <2>3, <2>4, SpokenOwn DEF Heard
<1>5. CASE GetsOn \/ \E r \in Ids : Watch(r) \/ Poll(r)
  <2>1. UNCHANGED runs /\ active'.run = active.run
    BY <1>1, <1>5 DEF GetsOn, Connects, Leaves, Watch, Poll, SlotType
  <2>2. QED
    BY <1>0, <2>1 DEF OwnInv, Ids, EndsAt, Heard
<1>6. ASSUME NEW r \in Ids, NEW st, NEW e \in Events, Heard(e, r), e.type # "run_finished",
             Spoken(r, st, <<e>>), active.run = r, active'.run = r, Ids' = Ids
      PROVE  OwnInv'
  <2>1. PICK evs \in Seq(Events) : evs = <<e>>
    <3>1. <<e>> \in Seq(Events)
      BY <1>6
    <3>2. QED
      BY <3>1
  <2>2. \A i \in 1 .. Len(evs) : Heard(evs[i], r) /\ evs[i].type # "run_finished"
    BY <1>6, <2>1
  <2>3. Spoken(r, st, evs)
    BY <1>6, <2>1
  <2>4. QED
    BY <1>0, <1>6, <2>2, <2>3, SpokenOwn
<1>7. CASE Cancel
  <2>1. /\ Ids' = Ids /\ active.run \in Ids /\ active'.run = active.run
        /\ Spoken(active.run, "cancelled", <<Event("cancelling", active.run)>>)
    BY <1>7, CancelTyped
  <2>2. PICK e \in Events : e = Event("cancelling", active.run)
    BY <2>1, EventTyped DEF EventTypes
  <2>3. e.of = active.run /\ e.type # "run_finished"
    BY <2>2 DEF Event
  <2>4. Spoken(active.run, "cancelled", <<e>>)
    BY <2>1, <2>2
  <2>5. QED
    BY <1>6, <2>1, <2>3, <2>4 DEF Heard
<1>8. CASE \E r \in Ids, from \in Ids \cup {0} : Speaks(r, from)
  <2>1. PICK r \in Ids, from \in Ids \cup {0} : Speaks(r, from)
    BY <1>8
  <2>2. /\ Ids' = Ids /\ active' = active
        /\ Spoken(r, runs[r].status, <<Event("line", from)>>)
    BY <2>1, LineTyped DEF Speaks
  <2>3. PICK e \in Events : e = Event("line", from)
    BY EventTyped DEF EventTypes
  <2>4. /\ e.of = from /\ e.type = "line"
        /\ Spoken(r, runs[r].status, <<e>>)
    BY <2>2, <2>3 DEF Event
  <2>5. active.run = r /\ Heard(e, r)
    BY <2>1, <2>4 DEF Speaks, SlotInv, SingleFlight, Working, Heard
  <2>6. QED
    BY <1>6, <2>2, <2>4, <2>5
<1>9. CASE Crash
  <2>1. UNCHANGED runs /\ active'.run = 0
    BY <1>9, CrashTyped DEF NoRun
  <2>2. QED
    BY <1>0, <1>1, <2>1 DEF OwnInv, Ids, EndsAt, Heard
<1>10. CASE UNCHANGED <<opts, runs, active, recent, work, dedup, projects, phone>>
  BY <1>10 DEF OwnInv, Ids, EndsAt, Heard
<1>11. QED
  BY <1>2, <1>3, <1>4, <1>5, <1>7, <1>8, <1>9, <1>10, StepCases

(* A phone is shown the events of its run in order, all of them unless the *)
(* poll cut it off after a cancel; a run is told of nobody's start, trust, *)
(* failure or end but its own, and of its end at most once (runManager.ts, *)
(* emit and subscribe; serve.ts, the event stream), where no child fails   *)
(* to start before another run.                                            *)
THEOREM EventsReachTheirPhone == ASSUME OneAtATime PROVE Spec => []EventsSound
<1>1. Init => WatchInv /\ OwnInv
  BY DEF Init, WatchInv, SlotTold, NoRun, OwnInv, Ids
<1>2. Typed /\ WatchInv => StreamWhole
  <2> SUFFICES ASSUME Typed, WatchInv, NEW r \in Ids, phone[r].state # "none"
               PROVE  /\ IsPrefix(Shown(r), runs[r].events)
                      /\ phone[r].state = "open" \/ ~Cancelling(Shown(r))
                           => Shown(r) = runs[r].events
    BY DEF StreamWhole
  <2>1. Watched(r) /\ runs[r].events \in Seq(Events)
        /\ phone[r].state \in {"open", "closed", "replayed"}
    BY Facts DEF WatchInv, RunType, PhoneType
  <2>2. CASE phone[r].state = "open"
    <3>1. Shown(r) = runs[r].events
      BY <2>1, <2>2 DEF Watched, Shown
    <3>2. QED
      BY <2>1, <3>1, BeginsItself, BeginsIsPrefix
  <2>3. CASE phone[r].state \in {"closed", "replayed"}
    <3>1. CutOff(r)
      BY <2>1, <2>3 DEF Watched
    <3>2. QED
      BY <2>1, <2>3, <3>1, BeginsIsPrefix DEF CutOff
  <2>4. QED
    BY <2>1, <2>2, <2>3
<1>3. OwnInv => OwnEvents
  <2> SUFFICES ASSUME OwnInv, NEW r \in Ids PROVE Cardinality(EndsAt(r)) <= 1
    BY DEF OwnEvents, OwnInv, EndsAt, Heard
  <2>1. PICK n \in Nat : EndsAt(r) \subseteq {n}
    BY DEF OwnInv
  <2>2. IsFiniteSet({n}) /\ Cardinality({n}) = 1
    BY FS_Singleton
  <2>3. IsFiniteSet(EndsAt(r)) /\ Cardinality(EndsAt(r)) <= Cardinality({n})
    BY <2>1, <2>2, FS_Subset
  <2>4. QED
    BY <2>2, <2>3
<1>4. Typed /\ WatchInv /\ OwnInv => EventsSound
  BY <1>2, <1>3 DEF EventsSound
<1>5. QED
  BY <1>1, <1>4, WatchStep, OwnStep, AlwaysOneAtATime, PTL DEF Spec

-----------------------------------------------------------------------------
(*                       The slot and who remembers it                     *)
(*                                                                         *)
(* A run that is cancelled while it waits for trust keeps the slot forever *)
(* (run companion_parked), so the slot is driven where none is.            *)

NeverParked == \A o \in Options : "parked" \notin o.faults

Waits(r) == runs[r].status = "awaiting_trust"

(* Whether the harness server is alive or not.                             *)
SlotHeld == active.run # 0 => Working(active.run) \/ Waits(active.run)

DrivenInv ==
  /\ SlotHeld
  /\ \A r \in Ids : Waits(r) => work[r] \in {"none", "over"}
  /\ \A r \in Range(recent) : ~Open(r)
  /\ IsInjective(recent) /\ active.run \notin Range(recent)

(* A run that ends is open no more.                                        *)
LEMMA EndsClosed ==
  ASSUME Typed, DrivenInv, NEW r \in Ids, NEW st \in StatusType, NEW evs \in Seq(Events),
         NEW w \in {"errored", "over", "disposing"}, Finishing(r, st, evs, w)
  PROVE  st \notin {"running", "awaiting_trust"}
<1>1. st # "running"
  BY DEF Finishing
<1>2. CASE st = "awaiting_trust"
  <2>1. work[r] \in {"none", "over"}
    BY <1>2 DEF Finishing, DrivenInv, Waits
  <2>2. st = "error"
    BY <2>1 DEF Finishing
  <2>3. QED
    BY <1>2, <2>2
<1>3. QED
  BY <1>1, <1>2

(* The run that leaves the slot joins the remembered ones, once.           *)
LEMMA FinishRecent ==
  ASSUME Typed, DrivenInv, FinishActive
  PROVE  IsInjective(recent') /\ 0 \notin Range(recent')
<1>1. /\ recent' \in Seq(Ids) /\ recent \in Seq(Ids) /\ Len(recent) \in Nat /\ Len(recent') \in Nat
      /\ \A i \in 1 .. Len(recent') :
           recent'[i] = IF active.run = 0 THEN recent[i]
                        ELSE IF i = 1 THEN active.run ELSE recent[i - 1]
      /\ Len(recent') <= Len(recent) + (IF active.run = 0 THEN 0 ELSE 1)
  BY FinishFacts DEF Typed
<1>2. DOMAIN recent' = 1 .. Len(recent') /\ DOMAIN recent = 1 .. Len(recent)
  BY <1>1
<1>3. 0 \notin Range(recent')
  <2>1. 0 \notin Ids
    BY Facts
  <2>2. \A i \in DOMAIN recent' : recent'[i] \in Ids
    BY <1>1, <1>2
  <2>3. QED
    BY <2>1, <2>2 DEF Range
<1>4. ASSUME NEW i \in DOMAIN recent', NEW j \in DOMAIN recent', recent'[i] = recent'[j]
      PROVE  i = j
  <2>1. \A k, l \in DOMAIN recent : recent[k] = recent[l] => k = l
    BY DEF DrivenInv, IsInjective
  <2>2. \A k \in DOMAIN recent : recent[k] # active.run
    BY DEF DrivenInv, Range
  <2>3. CASE active.run = 0
    BY <1>1, <1>2, <1>4, <2>1, <2>3
  <2>4. CASE active.run # 0
    <3>1. i \in 1 .. Len(recent) + 1 /\ j \in 1 .. Len(recent) + 1
      BY <1>1, <1>2, <1>4, <2>4
    <3>2. /\ recent'[i] = IF i = 1 THEN active.run ELSE recent[i - 1]
          /\ recent'[j] = IF j = 1 THEN active.run ELSE recent[j - 1]
      BY <1>1, <1>2, <1>4, <2>4
    <3>3. /\ i # 1 => i - 1 \in DOMAIN recent
          /\ j # 1 => j - 1 \in DOMAIN recent
      BY <1>1, <1>2, <3>1
    <3>4. CASE i = 1
      BY <1>4, <2>2, <3>2, <3>3, <3>4
    <3>5. CASE j = 1
      BY <1>4, <2>2, <3>2, <3>3, <3>5
    <3>6. CASE i # 1 /\ j # 1
      <4>1. i - 1 = j - 1
        BY <1>4, <2>1, <3>2, <3>3, <3>6
      <4>2. QED
        BY <3>1, <4>1
    <3>7. QED
      BY <3>4, <3>5, <3>6
  <2>5. QED
    BY <2>3, <2>4
<1>5. QED
  BY <1>3, <1>4 DEF IsInjective

LEMMA DrivenStep ==
  ASSUME OneAtATime, NeverParked
  PROVE  Typed /\ SlotInv /\ DrivenInv /\ [Next]_vars => DrivenInv'
<1> SUFFICES ASSUME Typed, SlotInv, DrivenInv, [Next]_vars PROVE DrivenInv'
  OBVIOUS
<1>1. /\ Ids = 1 .. Len(runs) /\ Len(runs) \in Nat /\ active.run \in Ids \cup {0}
      /\ active \in SlotType /\ Range(recent) \subseteq Ids
      /\ \A q \in Ids : work[q] \in WorkType /\ runs[q] \in RunType
  BY Facts DEF Typed, Range
(* Nothing moves but what a run is told. *)
<1>2. ASSUME Ids' = Ids, UNCHANGED <<recent, work>>, active'.run = active.run,
             \A q \in Ids : \/ runs'[q].status = runs[q].status
                            \/ Working(q) /\ runs'[q].status = "cancelled"
      PROVE  DrivenInv'
  <2>1. \A q \in Ids : Waits(q)' => Waits(q)
    BY <1>2 DEF Waits
  <2>2. \A q \in Ids : Open(q)' => Open(q)
    BY <1>2 DEF Open
  <2>3. Range(recent') = Range(recent) /\ IsInjective(recent')
    BY <1>2 DEF DrivenInv
  <2>4. SlotHeld'
    BY <1>1, <1>2 DEF DrivenInv, SlotHeld, Working, Waits
  <2>5. \A r \in Range(recent') : ~Open(r)'
    BY <1>1, <2>2, <2>3 DEF DrivenInv
  <2>6. QED
    BY <1>2, <2>1, <2>3, <2>4, <2>5 DEF DrivenInv, Waits, Open
<1>3. CASE Starts
  <2>1. PICK k \in Keys, f \in Folders : Post(k, f)
    BY <1>3 DEF Starts
  <2>2. PICK r : r = Len(runs) + 1
    OBVIOUS
  <2>3. /\ Ids' = Ids \cup {r} /\ r \notin Ids
        /\ \A q \in Ids : runs'[q] = runs[q] /\ work'[q] = work[q]
        /\ \/ runs'[r].status = "awaiting_trust" /\ work'[r] = "none"
           \/ runs'[r].status = "running" /\ work'[r] \in {"child", "failed", "connecting"}
        /\ active' = Slot(r, FALSE) /\ recent' = recent
    <3>1. /\ Ids' = Ids \cup {Len(runs) + 1}
          /\ \A q \in Ids : runs'[q] = runs[q] /\ work'[q] = work[q]
          /\ \/ /\ runs'[Len(runs) + 1].status = "awaiting_trust"
                /\ work'[Len(runs) + 1] = "none"
             \/ /\ runs'[Len(runs) + 1].status = "running"
                /\ work'[Len(runs) + 1] \in Launched(Len(runs) + 1)
          /\ active' = Slot(Len(runs) + 1, FALSE)
      BY <2>1, PostTyped
    <3>2. recent' = recent
      BY <2>1 DEF Post
    <3>3. QED
      BY <1>1, <2>2, <3>1, <3>2 DEF Launched
  <2>4. active'.run = r
    BY <2>3 DEF Slot, NoRun
  <2>5. SlotHeld'
    BY <2>3, <2>4 DEF SlotHeld, Working, Waits
  <2>6. \A q \in Ids' : Waits(q)' => work'[q] \in {"none", "over"}
    BY <2>3 DEF DrivenInv, Waits
  <2>7. \A q \in Range(recent') : ~Open(q)'
    BY <1>1, <2>3 DEF DrivenInv, Open
  <2>8. IsInjective(recent') /\ active'.run \notin Range(recent')
    BY <1>1, <2>3, <2>4 DEF DrivenInv
  <2>9. QED
    BY <2>5, <2>6, <2>7, <2>8 DEF DrivenInv, Waits, Open
<1>4. CASE Approve
  <2>1. PICK r \in Ids : r = active.run
    BY <1>4, ApproveTyped
  <2>2. PICK evs \in Seq(Events) : Approved(evs)
    BY <1>4, ApproveTyped
  <2>3. PICK w \in Launched(r) : \A q \in Ids : work'[q] = IF q = r THEN w ELSE work[q]
    BY <1>4, <2>1, ApproveTyped
  <2>4. /\ Ids' = Ids /\ active' = Slot(active.run, active.listening) /\ recent' = recent
        /\ \A q \in Ids : runs'[q].status = IF q = r THEN "running" ELSE runs[q].status
    BY <1>4, <2>1, <2>2, ApproveTyped DEF Approve, Approved, Spoken
  <2>5. active'.run = r /\ w \in {"child", "failed", "connecting"}
    BY <2>1, <2>3, <2>4 DEF Slot, NoRun, Launched
  <2>6. SlotHeld'
    BY <2>3, <2>5 DEF SlotHeld, Working, Waits
  <2>7. \A q \in Ids : Waits(q)' => work'[q] \in {"none", "over"}
    BY <2>3, <2>4 DEF DrivenInv, Waits
  <2>8. r \notin Range(recent)
    BY <2>1 DEF DrivenInv
  <2>9. \A q \in Range(recent') : ~Open(q)'
    BY <1>1, <2>4, <2>8 DEF DrivenInv, Open
  <2>10. QED
    BY <2>1, <2>4, <2>5, <2>6, <2>7, <2>9 DEF DrivenInv, Waits, Open
<1>5. CASE Finishes
  <2>1. PICK r \in Ids, st \in StatusType, evs \in Seq(Events), w \in {"errored", "over", "disposing"} :
          Finishing(r, st, evs, w)
    BY <1>5 DEF Finishes
  <2>2. /\ Ids' = Ids /\ active'.run = 0
        /\ \A q \in Ids : runs'[q].status = IF q = r THEN st ELSE runs[q].status
        /\ \A q \in Ids : work'[q] = IF q = r THEN w ELSE work[q]
    BY <2>1, FinishingTyped DEF Spoken, NoRun
  <2>3. st \notin {"running", "awaiting_trust"}
    BY <2>1, EndsClosed
  <2>4. active.run \in {0, r}
    BY <2>1, EndsItsOwn
  <2>5. FinishActive
    BY <2>1 DEF Finishing
  <2>6. Range(recent') \subseteq {r} \cup Range(recent)
    <3>1. Range(recent') \subseteq Known
      BY <2>5, FinishFacts
    <3>2. QED
      BY <2>4, <3>1 DEF Known
  <2>7. SlotHeld'
    BY <2>2 DEF SlotHeld
  <2>8. \A q \in Ids : Waits(q)' => work'[q] \in {"none", "over"}
    BY <2>2, <2>3 DEF DrivenInv, Waits
  <2>9. \A q \in Range(recent') : ~Open(q)'
    BY <1>1, <2>2, <2>3, <2>6 DEF DrivenInv, Open
  <2>10. IsInjective(recent') /\ 0 \notin Range(recent')
    BY <2>5, FinishRecent
  <2>11. QED
    BY <2>2, <2>7, <2>8, <2>9, <2>10 DEF DrivenInv, Waits, Open
<1>6. CASE GetsOn
  <2>1. PICK r \in Ids : Connects(r) \/ \E w \in WorkType : Leaves(r, w)
    BY <1>6 DEF GetsOn
  <2>2. /\ UNCHANGED <<runs, recent>> /\ active'.run = active.run
        /\ \A q \in Ids : q # r => work'[q] = work[q]
        /\ work[r] \in {"connecting", "turn", "disposing"}
        /\ work'[r] \in {"turn", "dropping"} \/ active.run # r \/ work[r] = "disposing"
    <3>1. work \in Seq(WorkType) /\ Ids = 1 .. Len(work)
      BY <1>1 DEF Typed
    <3>2. QED
      BY <1>1, <2>1, <3>1 DEF Connects, Leaves, SlotType
  <2>3. ~Waits(r)
    BY <2>2 DEF DrivenInv
  <2>4. SlotHeld'
    BY <1>1, <2>2 DEF DrivenInv, SlotHeld, Working, Waits
  <2>5. QED
    BY <2>2, <2>3, <2>4 DEF DrivenInv, Waits, Open, Ids
<1>7. CASE Cancel
  <2>1. PICK r \in Ids : r = active.run
    BY <1>7, CancelTyped
  <2>2. /\ Ids' = Ids /\ UNCHANGED <<recent, work>> /\ active'.run = active.run
        /\ \A q \in Ids : runs'[q].status = IF q = r THEN "cancelled" ELSE runs[q].status
    BY <1>7, <2>1, CancelTyped DEF Spoken
  <2>3. ~Hazard("parked")
    BY DEF Typed, NeverParked, Hazard
  <2>4. runs[r].status = "running"
    BY <1>7, <2>1, <2>3, CancelTyped DEF Open
  <2>5. Working(r)
    BY <1>1, <2>1, <2>4 DEF DrivenInv, SlotHeld, Waits
  <2>6. QED
    BY <1>2, <2>2, <2>5
<1>8. CASE Crash
  <2>1. /\ Ids' = Ids /\ UNCHANGED runs /\ active'.run = 0 /\ recent' = <<>>
        /\ \A q \in Ids : work'[q] = IF work[q] \in {"child", "orphan"} THEN "orphan" ELSE "over"
    BY <1>8, CrashTyped DEF NoRun
  <2>2. Range(recent') = {} /\ IsInjective(recent')
    BY <2>1 DEF Range, IsInjective
  <2>3. \A q \in Ids : Waits(q)' => work'[q] \in {"none", "over"}
    BY <2>1 DEF DrivenInv, Waits
  <2>4. QED
    BY <2>1, <2>2, <2>3 DEF DrivenInv, SlotHeld, Waits, Open
<1>9. CASE \E r \in Ids, from \in Ids \cup {0} : Speaks(r, from)
  <2>1. PICK r \in Ids, from \in Ids \cup {0} : Speaks(r, from)
    BY <1>9
  <2>2. /\ Ids' = Ids /\ UNCHANGED <<active, recent, work>>
        /\ Spoken(r, runs[r].status, <<Event("line", from)>>)
    BY <2>1, LineTyped DEF Speaks
  <2>3. \A q \in Ids : runs'[q].status = runs[q].status
    BY <2>2 DEF Spoken
  <2>4. QED
    BY <1>2, <2>2, <2>3
<1>10. CASE \E r \in Ids : Watch(r) \/ Poll(r)
  <2>1. UNCHANGED <<runs, recent, work>> /\ active'.run = active.run
    BY <1>1, <1>10 DEF Watch, Poll, SlotType
  <2>2. QED
    BY <1>2, <2>1 DEF Ids
<1>11. CASE UNCHANGED <<opts, runs, active, recent, work, dedup, projects, phone>>
  BY <1>2, <1>11 DEF Ids
<1>12. QED
  BY <1>3, <1>4, <1>5, <1>6, <1>7, <1>8, <1>9, <1>10, <1>11, StepCases

(* Of the runs this companion started one at a time has a child or a turn  *)
(* at work and it is the one in the slot; as long as the harness server    *)
(* lives the slot is not held by a run that nothing drives; and what is    *)
(* remembered is over (runManager.ts, active and recent), provided no run  *)
(* is cancelled while it waits for trust and none follows a child that     *)
(* failed to start.                                                        *)
THEOREM SlotHeldRightly == ASSUME OneAtATime, NeverParked PROVE Spec => []SlotSound
<1>1. Init => DrivenInv
  BY DEF Init, DrivenInv, SlotHeld, Waits, Open, Range, IsInjective, Ids, NoRun
<1>2. Typed /\ SlotInv /\ DrivenInv => SlotSound
  <2> SUFFICES ASSUME Typed, SlotInv, DrivenInv PROVE SlotSound
    OBVIOUS
  <2>1. Range(recent) \subseteq Ids
    BY DEF Typed, Range
  <2>2. \A r \in Range(recent) : ~Working(r)
    BY <2>1 DEF SlotInv, SingleFlight, DrivenInv
  <2>3. SlotDriven
    BY DEF DrivenInv, SlotHeld, SlotDriven, Waits
  <2>4. QED
    BY <2>2, <2>3 DEF SlotSound, SlotInv, DrivenInv, RecentSettled
<1>3. QED
  BY <1>1, <1>2, DrivenStep, AlwaysOneAtATime, PTL DEF Spec
=============================================================================
