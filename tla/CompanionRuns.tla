--------------------------- MODULE CompanionRuns ---------------------------
(***************************************************************************)
(* The companion server (cli/companion): RunManager, which drives one run  *)
(* at a time - a --headless child per run, or in client mode a session of  *)
(* the harness server (serve/harnessClient) - and the routes of serve.ts   *)
(* that start, cancel and watch runs, settle the trust of a folder, and    *)
(* answer a repeated submission with the run it already started.           *)
(*                                                                         *)
(* Handlers run alone; between them children exit, the server answers and  *)
(* phones call.  Left out: steering and answers to asks (forwarded to the  *)
(* server as they are), authentication, the cap on a run's event list, and *)
(* the expiry of keys after a day.                                         *)
(***************************************************************************)
EXTENDS Integers, FiniteSets, SequencesExt

CONSTANTS
  Folders,  \* working directories a run may ask for
  Home,     \* the folders trusted from the start (companion.json)
  Keys,     \* idempotency keys
  Options   \* environments, see OptionsAssumption

(* "spawn"  a child may fail to start     "harness" the server may refuse  *)
(* "death"  the server may die            "crash"   the companion may      *)
(* "parked" a run may be cancelled while it waits for trust                *)
Hazards == {"spawn", "harness", "death", "crash", "parked"}

ASSUME FoldersAssumption == Home \subseteq Folders
ASSUME OptionsAssumption ==
  \A o \in Options :
    /\ o.client \in BOOLEAN    \* ZELARI_HARNESS_SERVER
    /\ o.recent \in Nat \ {0}  \* finished runs remembered (30)
    /\ o.runs \in Nat          \* bound: runs ever started
    /\ o.lines \in Nat         \* bound: lines a run writes
    /\ o.faults \subseteq Hazards

VARIABLES
  opts,     \* the environment, never changed
  runs,     \* every run started: status, folder, key, events
  active,   \* the run in the slot (0: none), its session, its listener
  recent,   \* the finished runs still remembered, newest first
  work,     \* what drives each run: its child or its harness turn
  server,   \* the harness server: started, alive, and its open sessions
  dedup,    \* input-dedup.json: the run each key started last (0: none)
  projects, \* the trusted folders
  phone     \* one event stream per run: its state and what it has shown

vars == <<opts, runs, active, recent, work, server, dedup, projects, phone>>

-----------------------------------------------------------------------------
Ids == DOMAIN runs
NoRun == [run |-> 0, session |-> FALSE, cancelRequested |-> FALSE, listening |-> FALSE]

Init ==
  /\ opts \in Options
  /\ runs = <<>>
  /\ active = NoRun
  /\ recent = <<>>
  /\ work = <<>>
  /\ server = [started |-> FALSE, alive |-> TRUE, sessions |-> {}]
  /\ dedup = [k \in Keys |-> 0]
  /\ projects = Home
  /\ phone = <<>>

Hazard(h) == h \in opts.faults

(* getRun: the active run and the remembered ones; the others are unknown. *)
Known == (IF active.run = 0 THEN {} ELSE {active.run}) \cup Range(recent)

Open(r) == runs[r].status \in {"running", "awaiting_trust"}

(* An event goes to the run in the slot, and to who listens to it: that is *)
(* how events reach a run, whatever run they come from.                    *)
Event(type, r) == [type |-> type, of |-> r]

EmitTo(rs, evs) ==
  IF active.run = 0 THEN rs ELSE [rs EXCEPT ![active.run].events = @ \o evs]

ShownOn(ph, evs) ==
  IF active.run # 0 /\ active.listening
  THEN [ph EXCEPT ![active.run].seen = @ \o evs] ELSE ph

(* finishActive: the run in the slot moves to the remembered ones.         *)
(* Mutant: the run that is told to end is not forgotten by the slot.       *)
FinishActive_Keeps ==
  /\ recent' = IF active.run = 0 THEN recent ELSE <<active.run>> \o recent
  /\ active' = NoRun

FinishActive ==
  /\ recent' = IF active.run = 0 THEN recent
              ELSE LET list == <<active.run>> \o recent
                   IN SubSeq(list, 1, IF Len(list) > opts.recent THEN opts.recent ELSE Len(list))
  /\ active' = NoRun

-----------------------------------------------------------------------------
(*                           Starting a run                                *)

Launched(r) ==
  IF opts.client THEN {"connecting"}
  ELSE {"child"} \cup (IF Hazard("spawn") THEN {"failed"} ELSE {})

(* The first run on the harness server starts it.                          *)
Reached == [server EXCEPT !.started = @ \/ opts.client]

Slot(r, listening) == [NoRun EXCEPT !.run = r, !.listening = listening]

(* Mutant: keys are not looked up.                                         *)
Repeats_Never(k) == FALSE

SlotIsFree == active.run = 0
Repeats(k) == dedup[k] \in Known
Parks(f) == f \notin projects

(* POST /v1/runs, for a key that is not that of a run still known.  The    *)
(* folder is trusted or the run is parked until the desktop has answered.  *)
Post(k, f) ==
  /\ Len(runs) < opts.runs
  /\ ~Repeats(k)
  /\ SlotIsFree
  /\ LET r == Len(runs) + 1
         parked == Parks(f)
         first == Event(IF parked THEN "trust.pending" ELSE "log", r)
     IN /\ runs' = Append(runs, [status |-> IF parked THEN "awaiting_trust" ELSE "running",
                                 folder |-> f, key |-> k, lines |-> 0, events |-> <<first>>])
        /\ active' = Slot(r, FALSE)
        /\ \E w \in Launched(r) : work' = Append(work, IF parked THEN "none" ELSE w)
        /\ phone' = Append(phone, [state |-> "none", seen |-> <<>>])
        /\ dedup' = [dedup EXCEPT ![k] = r]
        /\ server' = IF parked THEN server ELSE Reached
  /\ UNCHANGED <<opts, recent, projects>>

Parked == active.run # 0 /\ runs[active.run].status = "awaiting_trust"

(* Mutant: the phone that was listening is forgotten.                      *)
Approve_Deaf ==
  /\ Parked
  /\ LET r == active.run
         evs == <<Event("trust.settled", r), Event("log", r)>>
     IN /\ projects' = projects \cup {runs[r].folder}
        /\ runs' = EmitTo([runs EXCEPT ![r].status = "running"], evs)
        /\ phone' = ShownOn(phone, SubSeq(evs, 1, 1))
        /\ active' = Slot(r, FALSE)
        /\ \E w \in Launched(r) : work' = [work EXCEPT ![r] = w]
  /\ server' = Reached
  /\ UNCHANGED <<opts, recent, dedup>>

(* POST /v1/trust, approved: the folder is trusted from now on and the run *)
(* starts, with the phone that was listening.                              *)
Approve ==
  /\ Parked
  /\ LET r == active.run
         evs == <<Event("trust.settled", r), Event("log", r)>>
     IN /\ projects' = projects \cup {runs[r].folder}
        /\ runs' = EmitTo([runs EXCEPT ![r].status = "running"], evs)
        /\ phone' = ShownOn(phone, evs)
        /\ active' = Slot(r, active.listening)
        /\ \E w \in Launched(r) : work' = [work EXCEPT ![r] = w]
  /\ server' = Reached
  /\ UNCHANGED <<opts, recent, dedup>>

Deny ==
  /\ Parked
  /\ LET r == active.run
         evs == <<Event("trust.settled", r), Event("error", r), Event("run_finished", r)>>
     IN /\ runs' = EmitTo([runs EXCEPT ![r].status = "error"], evs)
        /\ phone' = ShownOn(phone, evs)
        /\ work' = [work EXCEPT ![r] = "over"]
  /\ FinishActive
  /\ UNCHANGED <<opts, server, dedup, projects>>

-----------------------------------------------------------------------------
(*                     A run with a child of its own                       *)

Ended(r, clean) ==
  IF runs[r].status # "running" THEN runs[r].status
  ELSE IF clean THEN "completed" ELSE "error"

(* A line is counted with run r, and told like everything else.            *)
Says(r, from) ==
  /\ runs[r].lines < opts.lines
  /\ LET evs == <<Event("line", from)>>
     IN /\ runs' = EmitTo([runs EXCEPT ![r].lines = @ + 1], evs)
        /\ phone' = ShownOn(phone, evs)
  /\ UNCHANGED <<opts, active, recent, work, server, dedup, projects>>

(* A line of a child.                                                      *)
Line(r) == work[r] = "child" /\ Says(r, r)

(* child.on('error'): it did not start; its 'close' is still to come.      *)
ChildError(r) ==
  /\ work[r] = "failed"
  /\ work' = [work EXCEPT ![r] = "errored"]
  /\ runs' = EmitTo([runs EXCEPT ![r].status = "error"], <<Event("error", r)>>)
  /\ phone' = ShownOn(phone, <<Event("error", r)>>)
  /\ FinishActive
  /\ UNCHANGED <<opts, server, dedup, projects>>

(* child.on('close'): the run in the slot is told to be over, as its own   *)
(* run or not.                                                             *)
ChildClose(r) ==
  /\ work[r] \in {"child", "errored"}
  /\ work' = [work EXCEPT ![r] = "over"]
  /\ \E clean \in BOOLEAN :
       runs' = EmitTo([runs EXCEPT ![r].status = Ended(r, clean)], <<Event("run_finished", r)>>)
  /\ phone' = ShownOn(phone, <<Event("run_finished", r)>>)
  /\ FinishActive
  /\ UNCHANGED <<opts, server, dedup, projects>>

-----------------------------------------------------------------------------
(*                    A run on the harness server                          *)

Owns(r) == active.run = r

(* Whatever the server writes is told to the run in the slot: a line of    *)
(* its turn, of a session that an earlier run has left behind or has not   *)
(* yet disposed of, or of no session (0) - the handshake, stderr, a tool   *)
(* that outlived its turn.                                                 *)
ServerLine(from) ==
  /\ server.started /\ server.alive
  /\ active.run # 0
  /\ from \in {0} \cup server.sessions
  /\ Says(active.run, from)

(* session.create answers: the run may have been cancelled by then, or     *)
(* have left the slot; the session is then disposed of at once.            *)
(* Mutants: it is left where it is; it starts its turn all the same.       *)
Connected_Drops(r) ==
  /\ work[r] = "connecting" /\ server.alive /\ Owns(r) /\ ~active.cancelRequested
  /\ active' = [active EXCEPT !.session = TRUE]
  /\ work' = [work EXCEPT ![r] = "turn"]
  /\ server' = [server EXCEPT !.sessions = @ \cup {r}]
  /\ UNCHANGED <<opts, runs, recent, dedup, projects, phone>>
Connected_Anyway(r) ==
  /\ work[r] = "connecting" /\ server.alive /\ Owns(r)
  /\ active' = [active EXCEPT !.session = TRUE]
  /\ work' = [work EXCEPT ![r] = "turn"]
  /\ server' = [server EXCEPT !.sessions = @ \cup {r}]
  /\ UNCHANGED <<opts, runs, recent, dedup, projects, phone>>

Connected(r) ==
  /\ work[r] = "connecting" /\ server.alive
  /\ server' = [server EXCEPT !.sessions = @ \cup {r}]
  /\ IF ~Owns(r) \/ active.cancelRequested
     THEN /\ work' = [work EXCEPT ![r] = IF Owns(r) THEN "dropping" ELSE "disposing"]
          /\ UNCHANGED active
     ELSE /\ active' = [active EXCEPT !.session = TRUE]
          /\ work' = [work EXCEPT ![r] = "turn"]
  /\ UNCHANGED <<opts, runs, recent, dedup, projects, phone>>

(* The session of a run that was cancelled before it had one is gone: the  *)
(* run in the slot is told to be over.                                     *)
Dropped(r) ==
  /\ work[r] = "dropping" /\ server.alive
  /\ work' = [work EXCEPT ![r] = "over"]
  /\ server' = [server EXCEPT !.sessions = @ \ {r}]
  /\ runs' = EmitTo(runs, <<Event("run_finished", r)>>)
  /\ phone' = ShownOn(phone, <<Event("run_finished", r)>>)
  /\ FinishActive
  /\ UNCHANGED <<opts, dedup, projects>>

(* Mutant: a cancelled run does not finish.                                *)
TurnEnds_RunningOnly(r) ==
  /\ work[r] = "turn" /\ server.alive
  /\ work' = [work EXCEPT ![r] = "disposing"]
  /\ IF Owns(r) /\ runs[r].status = "running"
     THEN /\ runs' = [runs EXCEPT ![r].status = "completed"]
          /\ FinishActive
     ELSE UNCHANGED <<runs, active, recent>>
  /\ UNCHANGED <<opts, server, dedup, projects, phone>>

(* run.turn answers with an exit code; then the session is disposed.       *)
TurnEnds(r) ==
  /\ work[r] = "turn" /\ server.alive
  /\ work' = [work EXCEPT ![r] = "disposing"]
  /\ \E clean \in BOOLEAN :
       IF Owns(r)
       THEN /\ runs' = EmitTo([runs EXCEPT ![r].status = Ended(r, clean)],
                              <<Event("run_finished", r)>>)
            /\ phone' = ShownOn(phone, <<Event("run_finished", r)>>)
            /\ FinishActive
       ELSE UNCHANGED <<runs, phone, active, recent>>
  /\ UNCHANGED <<opts, server, dedup, projects>>

Disposed(r) ==
  /\ work[r] = "disposing" /\ server.alive
  /\ work' = [work EXCEPT ![r] = "over"]
  /\ server' = [server EXCEPT !.sessions = @ \ {r}]
  /\ UNCHANGED <<opts, runs, active, recent, dedup, projects, phone>>

(* A request is refused: the run is over in error.                         *)
Refused(r) ==
  /\ Hazard("harness")
  /\ work[r] \in {"connecting", "turn"} /\ server.alive
  /\ work' = [work EXCEPT ![r] = "over"]
  /\ IF Owns(r)
     THEN /\ runs' = EmitTo([runs EXCEPT ![r].status = "error"], <<Event("error", r)>>)
          /\ phone' = ShownOn(phone, <<Event("error", r)>>)
          /\ FinishActive
     ELSE UNCHANGED <<runs, phone, active, recent>>
  /\ UNCHANGED <<opts, server, dedup, projects>>

-----------------------------------------------------------------------------
(*                     Phones, and what may go wrong                       *)

CancelEvents(r) == <<Event("cancelling", r)>>

(* POST /v1/runs/:id/cancel: the child is killed, the session told, and a  *)
(* run that is still connecting marked; the slot is left to its driver.    *)
Cancel ==
  /\ active.run # 0
  /\ LET r == active.run
     IN /\ Open(r)
        /\ runs[r].status = "awaiting_trust" => Hazard("parked")
        /\ runs' = EmitTo([runs EXCEPT ![r].status = "cancelled"], CancelEvents(r))
        /\ phone' = ShownOn(phone, CancelEvents(r))
        /\ active' = [active EXCEPT !.cancelRequested = TRUE]
  /\ UNCHANGED <<opts, recent, work, server, dedup, projects>>

(* GET /v1/runs/:id/events: what there is, then what comes; of a run that  *)
(* is over what there is and, once more, that it is.                       *)
Watch(r) ==
  /\ r \in Known /\ phone[r].state = "none"
  /\ phone' = [phone EXCEPT ![r] =
                 IF Open(r) THEN [state |-> "open", seen |-> runs[r].events]
                 ELSE [state |-> "replayed", seen |-> runs[r].events \o <<Event("run_finished", r)>>]]
  /\ active' = [active EXCEPT !.listening = @ \/ (Open(r) /\ Owns(r))]
  /\ UNCHANGED <<opts, runs, recent, work, server, dedup, projects>>

StreamOver(r) == r \notin Known \/ ~Open(r)

(* The poll of an open stream finds the run over, or forgotten; a run that *)
(* is being cancelled counts as over.                                      *)
Poll(r) ==
  /\ phone[r].state = "open"
  /\ StreamOver(r)
  /\ phone' = [phone EXCEPT ![r].state = "closed"]
  /\ active' = [active EXCEPT !.listening = @ /\ ~Owns(r)]
  /\ UNCHANGED <<opts, runs, recent, work, server, dedup, projects>>

ServerDies ==
  /\ Hazard("death") /\ server.started /\ server.alive
  /\ server' = [server EXCEPT !.alive = FALSE, !.sessions = {}]
  /\ UNCHANGED <<opts, runs, active, recent, work, dedup, projects, phone>>

(* The companion is killed and started again: the keys and the folders are *)
(* on disk, the runs are not; a child outlives it, the server does not.    *)
Crash ==
  /\ Hazard("crash")
  /\ active.run # 0 \/ recent # <<>>
  /\ active' = NoRun /\ recent' = <<>>
  /\ work' = [r \in Ids |-> IF work[r] \in {"child", "orphan"} THEN "orphan" ELSE "over"]
  /\ server' = [started |-> FALSE, alive |-> TRUE, sessions |-> {}]
  /\ phone' = [r \in Ids |-> IF phone[r].state = "open"
                              THEN [phone[r] EXCEPT !.state = "closed"] ELSE phone[r]]
  /\ UNCHANGED <<opts, runs, dedup, projects>>

-----------------------------------------------------------------------------
Driver(r) ==
  \/ ChildError(r) \/ ChildClose(r)
  \/ Connected(r) \/ Dropped(r) \/ TurnEnds(r) \/ Disposed(r) \/ Refused(r)

Next ==
  \/ \E k \in Keys, f \in Folders : Post(k, f)
  \/ Approve \/ Deny \/ Cancel
  \/ \E r \in Ids : Driver(r) \/ Line(r) \/ Watch(r) \/ Poll(r)
  \/ \E from \in Ids \cup {0} : ServerLine(from)
  \/ ServerDies \/ Crash

Spec == Init /\ [][Next]_vars

(* Children exit, the server answers, the poll is a timer; whether anybody *)
(* answers for a folder is up to the user.                                 *)
MaxRuns == CHOOSE n \in {o.runs : o \in Options} : \A o \in Options : o.runs <= n
FairSpec ==
  /\ Spec
  /\ \A r \in 1..MaxRuns : WF_vars(r \in Ids /\ Driver(r)) /\ WF_vars(r \in Ids /\ Poll(r))

-----------------------------------------------------------------------------
(*                             Properties                                  *)

Events == [type : {"log", "line", "cancelling", "error", "run_finished",
                   "trust.pending", "trust.settled"},
           of : Nat]

TypeOK ==
  /\ opts \in Options
  /\ \A r \in Ids :
       /\ runs[r].status \in {"awaiting_trust", "running", "completed", "error", "cancelled"}
       /\ runs[r].folder \in Folders /\ runs[r].key \in Keys
       /\ runs[r].events \in Seq(Events) /\ phone[r].seen \in Seq(Events)
       /\ phone[r].state \in {"none", "open", "closed", "replayed"}
       /\ work[r] \in {"none", "child", "failed", "errored", "connecting", "turn",
                      "dropping", "disposing", "over", "orphan"}
  /\ active.run \in Ids \cup {0}
  /\ recent \in Seq(Ids) /\ Len(recent) <= opts.recent
  /\ server.sessions \subseteq Ids
  /\ dedup \in [Keys -> Ids \cup {0}]
  /\ Home \subseteq projects /\ projects \subseteq Folders

(* runManager.ts:3, "Single-flight (one active run)": of the runs that     *)
(* this companion started one at a time has a child or a turn at work, and *)
(* it is the one in the slot, where it can be watched and cancelled.  The  *)
(* child of a companion that was killed is not among them (OneAtWork).     *)
Working(r) == work[r] \in {"child", "failed", "connecting", "turn", "dropping"}
SingleFlight == \A r \in Ids : Working(r) => active.run = r

(* The slot is not lost either: what holds it waits for trust, or its      *)
(* child or a request to the harness server is under way.  A server that   *)
(* died answers no request, and the slot is lost (SlotFreedAnyway).        *)
SlotDriven ==
  active.run # 0 /\ server.alive =>
    \/ Working(active.run)
    \/ runs[active.run].status = "awaiting_trust"

(* A run that leaves the slot is settled, once and for all.                *)
RecentSettled ==
  /\ \A r \in Range(recent) : ~Open(r) /\ ~Working(r)
  /\ IsInjective(recent) /\ active.run \notin Range(recent)

(* The slot, the drivers and what is remembered agree.                     *)
SlotSound == SingleFlight /\ SlotDriven /\ RecentSettled

(* A run in a folder outside the allowlist does not start before the       *)
(* desktop has trusted it, however it is parked, cancelled or repeated.    *)
TrustFirst ==
  \A r \in Ids : work[r] \notin {"none", "over"} => runs[r].folder \in projects

(* A phone is shown the events of its run in their order and none is left  *)
(* out, whether it began to watch while the run was parked, at work or     *)
(* over.  While its stream is open it has them all, and afterwards too,    *)
(* unless the last it heard came after a cancel: the poll does not wait    *)
(* for a cancelled run to end.                                             *)
Shown(r) == IF phone[r].state = "replayed" THEN Front(phone[r].seen) ELSE phone[r].seen
Cancelling(evs) == \E i \in DOMAIN evs : evs[i].type = "cancelling"
StreamWhole ==
  \A r \in Ids :
    phone[r].state # "none" =>
      /\ IsPrefix(Shown(r), runs[r].events)
      /\ phone[r].state = "open" \/ ~Cancelling(Shown(r)) => Shown(r) = runs[r].events

(* A run hears of nobody's start, trust, failure or end but its own, and   *)
(* of its end at most once.  Lines it may hear of others, on the harness   *)
(* server (LinesOwn); a child's lines are its own.                         *)
OwnEvents ==
  \A r \in Ids :
    /\ \A i \in DOMAIN runs[r].events :
         runs[r].events[i].of = r \/ (opts.client /\ runs[r].events[i].type = "line")
    /\ Cardinality({i \in DOMAIN runs[r].events :
                     runs[r].events[i].type = "run_finished"}) <= 1

(* What a run is told, and what its phone is shown of it.                  *)
EventsSound == StreamWhole /\ OwnEvents

(* A submission that is repeated while its run is known starts no other.   *)
KeyedOnce == \A r, q \in Known : runs[r].key = runs[q].key => r = q

(* A request starts a run where it may, and once.                          *)
StartsSound == TrustFirst /\ KeyedOnce

(* A run cancelled while its session is being created never gets a turn.   *)
CancelledBeforeTurn ==
  [][\A r \in Ids : work[r] = "connecting" /\ runs[r].status = "cancelled" => work'[r] # "turn"]_vars

(* A run that was started gives the slot back and its stream closes,       *)
(* unless the harness server died: then nothing answers for the run.       *)
SlotFreed ==
  \A r \in 1..MaxRuns :
    (active.run = r /\ runs[r].status # "awaiting_trust") ~> (active.run # r \/ ~server.alive)
StreamCloses ==
  \A r \in 1..MaxRuns :
    (r \in Ids /\ phone[r].state = "open" /\ runs[r].status # "awaiting_trust")
      ~> (r \in Ids /\ (phone[r].state = "closed" \/ ~server.alive))
RunsSettle == SlotFreed /\ StreamCloses

-----------------------------------------------------------------------------
(*          What comments say and the code does otherwise                  *)

(* inputDedup.ts:4-7: "If a key was already processed, the store returns   *)
(* the cached run ID so the client gets the same result without spawning a *)
(* new run."  Not once the run is forgotten: after a restart, always.      *)
OncePerKey == \A r, q \in Ids : runs[r].key = runs[q].key => r = q

(* "one harness session per run ..., disposed after settlement": not when  *)
(* the turn is refused.                                                    *)
SessionsDisposed == \A r \in server.sessions : work[r] # "over"

(* "Single-flight (one active run)": after a crash the child of the run    *)
(* that was lost works beside the next one, which is not told.             *)
OneAtWork == Cardinality({r \in Ids : Working(r) \/ work[r] = "orphan"}) <= 1

(* "Turn BrainEvents ride the transport like child stdout lines did": a    *)
(* child's lines were of its run, the server's may be of another session.  *)
LinesOwn == \A r \in Ids : \A i \in DOMAIN runs[r].events : runs[r].events[i].of = r

(* A phone is shown the end of its run, and once: not if the run was       *)
(* cancelled while it watched, and twice if it comes late.                 *)
EndsShown(r) == {i \in DOMAIN phone[r].seen : phone[r].seen[i].type = "run_finished"}
EndShownOnce ==
  \A r \in Ids :
    /\ phone[r].state \in {"closed", "replayed"}
    /\ work[r] = "over" /\ runs[r].status \in {"completed", "cancelled"}
      => Cardinality(EndsShown(r)) = 1

(* Not so: a run gives the slot back whatever becomes of the server.       *)
(* harnessClient.ts never settles the requests a dead server left open.    *)
SlotFreedAnyway ==
  \A r \in 1..MaxRuns :
    (active.run = r /\ runs[r].status # "awaiting_trust") ~> (active.run # r)
=============================================================================
