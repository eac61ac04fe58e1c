------------------------------ MODULE TaskTool ------------------------------
(***************************************************************************)
(* The task tool (cli/tools/taskTool.ts): sub-agents ("tentacles") that a  *)
(* turn delegates to, and the obligation to verify what a writing one (a   *)
(* "general") did.  Such an obligation, a debt, is opened when the general *)
(* has finished, cleared by a verify of its own that passes on evidence,   *)
(* kept on the session log (verifyDebtSpine.ts), and consulted when the    *)
(* turn closes (headless/runOneTurn.ts, hooks/useChatTurn.ts).             *)
(*                                                                         *)
(* A turn runs in the TUI, whose process and caches outlive it, or         *)
(* headless, where what the turn keeps in memory is its own.  Left out:    *)
(* the reports themselves, candidates (an alpha feature), memory, metrics, *)
(* a log that refuses to be written, and the repeated pass of a headless   *)
(* turn.                                                                   *)
(***************************************************************************)
EXTENDS Integers, Sequences, FiniteSets

CONSTANTS
  Chats,    \* sessions of one process
  Nobody,   \* no session
  Options   \* environments, see OptionsAssumption

(* "reuse"    a later process hands out the id of a debt that is still open *)
(* "overlap"  turns of two chats run at the same time                       *)
(* "straggle" a call goes on after its turn, or the registry, gave it up    *)
(* "leftover" the worktree of a merged general cannot be removed            *)
Hazards == {"reuse", "overlap", "straggle", "leftover"}

ASSUME ChatsAssumption == Nobody \notin Chats
ASSUME OptionsAssumption ==
  \A o \in Options :
    /\ o.host \in {"tui", "headless"}
    /\ o.chats \subseteq Chats
    /\ o.host = "tui" => \A c, d \in o.chats : c = d  \* one session at a time
    /\ o.cap \in Nat      \* ZELARI_KRAKEN_MAX_TASK_SPAWNS
    /\ o.rounds \in Nat   \* resolveMaxReviewRounds
    /\ o.calls \in Nat    \* bound: calls ever made
    /\ o.turns \in Nat    \* bound: turns of a chat
    /\ o.crashes \in Nat  \* bound: crashes of the process
    /\ o.faults \subseteq Hazards

VARIABLES
  opts,     \* the environment, never changed
  chat,     \* what the process keeps for each chat
  process,  \* what it keeps for all: whose log is bound, events to persist
  log,      \* the debt events on each chat's session log
  calls,    \* the calls of the task tool that have not come to their end
  made,     \* how many calls there have been, and crashes
  owed      \* history: the work of each chat nobody has verified or waived

vars == <<opts, chat, process, log, calls, made, owed>>

-----------------------------------------------------------------------------
(*                                Debts                                    *)

(* A debt has the id of its tentacle and describes its work; a bucket is a *)
(* map from ids.                                                           *)
Debt(id, work) == [id |-> id, work |-> work]

Drop(bucket, id) == {d \in bucket : d.id # id}
Put(bucket, id, work) == Drop(bucket, id) \cup {Debt(id, work)}
Merge(bucket, debts) ==
  {d \in bucket : \A e \in debts : e.id # d.id} \cup debts

Works(bucket) == {d.work : d \in bucket}

(* replayOpenVerifyDebts: the debts that were opened and not cleared later. *)
Replay(events) ==
  {Debt(events[i].id, events[i].work) :
    i \in {i \in DOMAIN events :
             /\ events[i].kind = "open"
             /\ \A j \in DOMAIN events : j > i => events[j].id # events[i].id}}

Event(kind, id, work) == [kind |-> kind, id |-> id, work |-> work]

-----------------------------------------------------------------------------
NewScope ==
  [pc |-> "idle", flush |-> 0, debts |-> {}, carried |-> {}, spawned |-> 0,
   ids |-> 0, trace |-> FALSE, cancelled |-> FALSE,
   outcome |-> "none", turns |-> 0]

NewProcess == [bound |-> Nobody, queue |-> <<>>, cleared |-> {}]

Init ==
  /\ opts \in Options
  /\ chat = [c \in opts.chats |-> NewScope]
  /\ process = NewProcess
  /\ log = [c \in opts.chats |-> <<>>]
  /\ calls = {}
  /\ made = [calls |-> 0, crashes |-> 0]
  /\ owed = [c \in opts.chats |-> {}]

Hazard(h) == h \in opts.faults
Tui == opts.host = "tui"

(* What the gate of a turn sees: every bucket of its scope.                *)
Seen(c) == chat[c].debts \cup chat[c].carried

(* The scope of a headless turn is its own; calls of an earlier one are    *)
(* not in it.                                                              *)
InScope(t) == Tui \/ t.turn = chat[t.chat].turns
CallsOf(c) == {t \in calls : t.chat = c}
Waited(c) == {t \in CallsOf(c) : t.waited}

-----------------------------------------------------------------------------
(*                         The turn of a parent                            *)

Quiet == calls = {} /\ process.queue = <<>>

(* The turn starts: the spawn budget is fresh, and headless everything is. *)
StartTurn(c) ==
  /\ chat[c].pc = "idle"
  /\ chat[c].turns < opts.turns
  /\ Hazard("overlap") \/ \A d \in opts.chats : chat[d].pc = "idle"
  /\ Hazard("overlap") \/ Hazard("straggle") \/ Quiet
  /\ chat' = [chat EXCEPT ![c] =
       IF Tui THEN [@ EXCEPT !.pc = "starting", !.flush = Len(process.queue), !.spawned = 0,
                             !.outcome = "none", !.cancelled = FALSE]
       ELSE [NewScope EXCEPT !.pc = "starting", !.turns = chat[c].turns]]
  /\ UNCHANGED <<opts, process, log, calls, made, owed>>

(* flushVerifyDebtSpine: what was queued when it was called has settled.   *)
Flushed(c) == chat[c].flush = 0

(* The cache of the last turn is dropped and this turn's log bound.        *)
Bind(c) ==
  /\ chat[c].pc = "starting"
  /\ Flushed(c)
  /\ chat' = [chat EXCEPT ![c].pc = "hydrating", ![c].debts = {}]
  /\ process' = [process EXCEPT !.bound = c]
  /\ UNCHANGED <<opts, log, calls, made, owed>>

(* The open debts of the log are read back, into the bucket of the session *)
(* the log belongs to: the one the calls use in the TUI, another headless, *)
(* where the pass has an id of its own.                                    *)
Hydrate(c) ==
  /\ chat[c].pc = "hydrating"
  /\ LET s == [chat[c] EXCEPT !.pc = "running", !.trace = FALSE]
         open == Replay(log[c])
     IN chat' = [chat EXCEPT ![c] =
          IF Tui THEN [s EXCEPT !.debts = Merge(s.debts, open)]
          ELSE [s EXCEPT !.carried = Merge(s.carried, open)]]
  /\ UNCHANGED <<opts, process, log, calls, made, owed>>

(* The parent ends its turn, or the user does: registry.invoke then gives  *)
(* its calls up and tells them to stop.                                    *)
Complete(c) ==
  /\ chat[c].pc = "running"
  /\ Waited(c) = {}
  /\ chat' = [chat EXCEPT ![c].pc = "closing", ![c].flush = Len(process.queue)]
  /\ UNCHANGED <<opts, process, log, calls, made, owed>>

GivenUp(t, by) == [t EXCEPT !.waited = FALSE, !.told = by]

Cancel(c) ==
  /\ chat[c].pc = "running"
  /\ chat' = [chat EXCEPT ![c].pc = "closing", ![c].flush = Len(process.queue),
                          ![c].cancelled = TRUE]
  /\ calls' = (calls \ Waited(c)) \cup {GivenUp(t, "user") : t \in Waited(c)}
  /\ UNCHANGED <<opts, process, log, made, owed>>

(* The strict gate: a completed turn with an open debt is not done.        *)
(* Mutant: the gate looks at the debts of this turn's calls alone.         *)
Verdict_Own(c) ==
  IF chat[c].cancelled THEN "cancelled" ELSE IF chat[c].debts = {} THEN "clean" ELSE "blocked"

Verdict(c) ==
  IF chat[c].cancelled THEN "cancelled" ELSE IF Seen(c) = {} THEN "clean" ELSE "blocked"

Gate(c) ==
  /\ chat[c].pc = "closing"
  /\ Flushed(c)
  /\ chat' = [chat EXCEPT ![c].pc = "idle", ![c].outcome = Verdict(c), ![c].turns = @ + 1]
  /\ process' = IF Tui THEN process ELSE [process EXCEPT !.bound = Nobody]
  /\ UNCHANGED <<opts, log, calls, made, owed>>

-----------------------------------------------------------------------------
(*                          The persist queue                              *)

(* emitVerifyDebtOpen and emitVerifyDebtCleared, in the order queued and   *)
(* on the log that is bound by then; a second clear is not repeated.       *)
Repeated(e) == e.kind = "cleared" /\ e.id \in process.cleared

(* Mutant: a slot that is opened again still counts as cleared.            *)
Noted_Stays(e) == IF e.kind = "open" THEN process.cleared ELSE process.cleared \cup {e.id}

Noted(e) ==
  IF e.kind = "open" THEN process.cleared \ {e.id} ELSE process.cleared \cup {e.id}

Land ==
  /\ process.queue # <<>>
  /\ LET e == Head(process.queue)
         recorded == process.bound # Nobody /\ ~Repeated(e)
     IN /\ log' = IF recorded THEN [log EXCEPT ![process.bound] = Append(@, e)] ELSE log
        /\ process' = [process EXCEPT !.queue = Tail(@),
             !.cleared = IF recorded \/ e.kind = "open" THEN Noted(e) ELSE @]
  /\ chat' = [c \in opts.chats |->
       [chat[c] EXCEPT !.flush = IF @ = 0 THEN 0 ELSE @ - 1]]
  /\ UNCHANGED <<opts, calls, made, owed>>

(* addTaskVerifyObligation and clearTaskVerifyObligation for the general   *)
(* behind a call, in the scope it runs in.                                 *)
Opened(t, rec) ==
  IF InScope(t) THEN [rec EXCEPT !.debts = Put(@, t.id, t.work)] ELSE rec

Owing(t) == Append(process.queue, Event("open", t.id, t.work))

Cleared(t, rec) ==
  IF InScope(t) THEN [rec EXCEPT !.debts = Drop(@, t.id)] ELSE rec

Clearing(t) ==
  IF InScope(t) => \E d \in chat[t.chat].debts : d.id = t.id
  THEN Append(process.queue, Event("cleared", t.id, t.work)) ELSE process.queue

(* The next tentacle of the chain takes a number of its scope.             *)
Renumbered(t, rec) == IF InScope(t) THEN [rec EXCEPT !.ids = @ + 1] ELSE rec

-----------------------------------------------------------------------------
(*                          Calls of the tool                              *)

(* A general runs alone; explores and verifies run side by side.           *)
Admitted(c, kind) ==
  \A t \in Waited(c) : kind # "general" /\ t.kind # "general"

(* The ids of tentacles count from one in every scope of a process.  An id *)
(* that is still open on the log is one an earlier process gave.           *)
FreshId(c) ==
  Hazard("reuse") \/ \A d \in Seen(c) \cup Replay(log[c]) : d.id # chat[c].ids + 1

(* createTaskTool.execute, up to the tentacle: the cap is counted first.   *)
Spawn(c, kind) ==
  /\ chat[c].pc = "running"
  /\ made.calls < opts.calls
  /\ chat[c].spawned < opts.cap
  /\ Admitted(c, kind)
  /\ kind = "general" => FreshId(c)
  /\ chat' = [chat EXCEPT ![c].spawned = @ + 1, ![c].ids = @ + 1]
  /\ calls' = calls \cup
       {[chat |-> c, turn |-> chat[c].turns, kind |-> kind, pc |-> "run",
         id |-> chat[c].ids + 1, work |-> made.calls + 1, round |-> 0,
         left |-> FALSE, reworked |-> FALSE, waited |-> TRUE, told |-> "no"]}
  /\ made' = [made EXCEPT !.calls = @ + 1]
  /\ UNCHANGED <<opts, process, log, owed>>

(* The call over the cap is refused.                                       *)
Refuse(c) ==
  /\ chat[c].pc = "running"
  /\ chat[c].spawned = opts.cap
  /\ chat' = [chat EXCEPT ![c].spawned = @ + 1]
  /\ UNCHANGED <<opts, process, log, calls, made, owed>>

Advance(t, u) == calls' = (calls \ {t}) \cup {u}
Return(t) == calls' = calls \ {t}

(* An explore or a verify of the parent answers; a verify publishes what   *)
(* it executed, on the channel of its scope.                               *)
Answer(t, traced) ==
  /\ t.kind \in {"explore", "verify"}
  /\ traced => t.kind = "verify" /\ t.told = "no"
  /\ Return(t)
  /\ chat' = IF t.kind = "verify" /\ InScope(t)
             THEN [chat EXCEPT ![t.chat].trace = traced] ELSE chat
  /\ UNCHANGED <<opts, process, log, made, owed>>

(* The registry gives up a general that takes too long.  Its verify keeps  *)
(* a reserve of that time.                                                 *)
Overrun(t) ==
  /\ t.kind = "general" /\ t.pc = "run" /\ t.waited
  /\ Advance(t, GivenUp(t, "timer"))
  /\ UNCHANGED <<opts, chat, process, log, made, owed>>

(* runTentacle of a general: without a result nothing is owed.             *)
GeneralFails(t) ==
  /\ t.kind = "general" /\ t.pc = "run"
  /\ Return(t)
  /\ UNCHANGED <<opts, chat, process, log, made, owed>>

(* It has a result: the debt is open from here on.  Work that could not be *)
(* merged, or for whose verify no time is left, is not verified.           *)
GeneralDone(t, applied, late, left) ==
  /\ t.kind = "general" /\ t.pc = "run"
  /\ t.told = "no" \/ Hazard("straggle")
  /\ t.told = "timer" => late
  /\ left => applied /\ Hazard("leftover")
  /\ owed' = [owed EXCEPT ![t.chat] = @ \cup {t.work}]
  /\ LET verifies == applied /\ ~late
         rec == Opened(t, chat[t.chat])
     IN /\ chat' = [chat EXCEPT ![t.chat] =
             IF verifies THEN Renumbered(t, rec) ELSE rec]
        /\ IF verifies THEN Advance(t, [t EXCEPT !.pc = "verify", !.left = left]) ELSE Return(t)
  /\ process' = [process EXCEPT !.queue = Owing(t)]
  /\ UNCHANGED <<opts, log, made>>

-----------------------------------------------------------------------------
(*                     runAutoVerifyAfterGeneral                           *)

(* publishInnerVerifyTrace.                                                *)
Publish(t, traced, rec) ==
  IF InScope(t) THEN [rec EXCEPT !.trace = traced] ELSE rec

(* The floor under PASS reads the channel the trace was just published on. *)
(* Mutant: it reads what was there before.                                 *)
Evidence_Stale(t, traced) == chat[t.chat].trace
Evidence(t, traced) == traced

Verifies(t) == t.kind = "general" /\ t.pc = "verify"

(* Mutant: the first rework is not counted.                                *)
MayRework_OneMore(t) == t.round <= opts.rounds
MayRework(t) == t.round < opts.rounds

(* The verify says FAIL and a round is left: the work is reworked in its   *)
(* tree.                                                                   *)
Reject(t, traced) ==
  /\ Verifies(t) /\ t.told = "no"
  /\ MayRework(t)
  /\ Advance(t, [t EXCEPT !.pc = "rework", !.round = @ + 1])
  /\ chat' = [chat EXCEPT ![t.chat] = Renumbered(t, Publish(t, traced, @))]
  /\ UNCHANGED <<opts, process, log, made, owed>>

(* PASS by a verify that executed something.  The work it vouches for is   *)
(* the parent's unless it was reworked in a tree left over.                *)
Pass(t, traced) ==
  /\ Verifies(t) /\ t.told = "no"
  /\ Evidence(t, traced)
  /\ Return(t)
  /\ chat' = [chat EXCEPT ![t.chat] = Cleared(t, Publish(t, traced, @))]
  /\ process' = [process EXCEPT !.queue = Clearing(t)]
  /\ owed' = IF traced /\ ~(t.left /\ t.reworked)
             THEN [owed EXCEPT ![t.chat] = @ \ {t.work}] ELSE owed
  /\ UNCHANGED <<opts, log, made>>

(* Anything else leaves the debt, with what is known now: FAIL with no     *)
(* round left, no verdict, no verify, PASS on nothing.                     *)
GiveUp(t, verdict, traced) ==
  /\ Verifies(t)
  /\ t.told # "no" => verdict = "unknown" /\ ~traced
  /\ \/ verdict = "unknown"
     \/ verdict = "fail" /\ ~MayRework(t)
     \/ verdict = "pass" /\ ~Evidence(t, traced)
  /\ Return(t)
  /\ chat' = [chat EXCEPT ![t.chat] = Opened(t, Publish(t, traced, @))]
  /\ process' = [process EXCEPT !.queue = Owing(t)]
  /\ UNCHANGED <<opts, log, made, owed>>

(* A rework without a result ends the chain, the debt with it.             *)
ReworkFails(t) ==
  /\ t.pc = "rework"
  /\ Return(t)
  /\ chat' = [chat EXCEPT ![t.chat] = Opened(t, @)]
  /\ process' = [process EXCEPT !.queue = Owing(t)]
  /\ UNCHANGED <<opts, log, made, owed>>

ReworkDone(t) ==
  /\ t.pc = "rework" /\ t.told = "no"
  /\ Advance(t, [t EXCEPT !.pc = "verify", !.reworked = TRUE])
  /\ chat' = [chat EXCEPT ![t.chat] = Renumbered(t, @)]
  /\ UNCHANGED <<opts, process, log, made, owed>>

-----------------------------------------------------------------------------
(*                     Crashes and the operator                            *)

(* The process dies and a new one resumes the chats: only their logs are   *)
(* left, and of the work nobody verified what they tell.                   *)
Crash ==
  /\ made.crashes < opts.crashes
  /\ chat' = [c \in opts.chats |-> [NewScope EXCEPT !.turns = chat[c].turns]]
  /\ process' = NewProcess
  /\ calls' = {}
  /\ made' = [made EXCEPT !.crashes = @ + 1]
  /\ owed' = [c \in opts.chats |-> Works(Replay(log[c]))]
  /\ UNCHANGED <<opts, log>>

(* session waive-debt: another process clears a slot of a log that no host *)
(* holds open.                                                             *)
Waive(c, d) ==
  /\ chat[c].pc = "idle" /\ process.bound # c
  /\ d \in Replay(log[c])
  /\ log' = [log EXCEPT ![c] = Append(@, Event("cleared", d.id, d.work))]
  /\ owed' = [owed EXCEPT ![c] = @ \ {d.work}]
  /\ UNCHANGED <<opts, chat, process, calls, made>>

Verdicts == {"pass", "fail", "unknown"}

Turn(c) ==
  \/ StartTurn(c) \/ Bind(c) \/ Hydrate(c) \/ Complete(c) \/ Cancel(c) \/ Gate(c)
  \/ Refuse(c)
  \/ \E kind \in {"explore", "verify", "general"} : Spawn(c, kind)
  \/ \E d \in Replay(log[c]) : Waive(c, d)

Call(t) ==
  \/ Overrun(t) \/ GeneralFails(t) \/ ReworkFails(t) \/ ReworkDone(t)
  \/ \E applied, late, left \in BOOLEAN : GeneralDone(t, applied, late, left)
  \/ \E traced \in BOOLEAN :
       \/ Answer(t, traced) \/ Reject(t, traced) \/ Pass(t, traced)
       \/ \E verdict \in Verdicts : GiveUp(t, verdict, traced)

Next ==
  \/ \E c \in opts.chats : Turn(c)
  \/ \E t \in calls : Call(t)
  \/ Land
  \/ Crash

Spec == Init /\ [][Next]_vars

-----------------------------------------------------------------------------
(*                             Properties                                  *)

Ids == Nat \ {0}
Buckets == SUBSET [id : Ids, work : Ids]
Events == [kind : {"open", "cleared"}, id : Ids, work : Ids]

ScopeType ==
  [pc : {"idle", "starting", "hydrating", "running", "closing"}, flush : Nat,
   debts : Buckets, carried : Buckets, spawned : Nat, ids : Nat,
   trace : BOOLEAN, cancelled : BOOLEAN,
   outcome : {"none", "clean", "blocked", "cancelled"}, turns : Nat]

CallType ==
  [chat : opts.chats, turn : Nat, kind : {"explore", "verify", "general"},
   pc : {"run", "verify", "rework"}, id : Ids, work : Ids, round : 0 .. opts.rounds,
   left : BOOLEAN, reworked : BOOLEAN, waited : BOOLEAN, told : {"no", "user", "timer"}]

TypeOK ==
  /\ opts \in Options
  /\ chat \in [opts.chats -> ScopeType]
  /\ process \in [bound : opts.chats \cup {Nobody}, queue : Seq(Events), cleared : SUBSET Ids]
  /\ log \in [opts.chats -> Seq(Events)]
  /\ calls \subseteq CallType
  /\ made \in [calls : Nat, crashes : Nat]
  /\ owed \in [opts.chats -> SUBSET Ids]

(* A turn that ends completed is let through exactly when nothing of its   *)
(* chat is owed: every general that ever had a result there was passed by  *)
(* a verify of its own that executed something, on the tree the parent     *)
(* has, or was waived - over turns, cancels, crashes and resumes.          *)
GateSound ==
  [][\A c \in opts.chats : chat[c].outcome = "none" =>
       /\ chat'[c].outcome = "clean" => owed[c] = {}
       /\ chat'[c].outcome = "blocked" => owed[c] # {}]_vars

(* What a turn sees in memory, what is owed, and what the next process     *)
(* would find on the log once the queue has landed are the same debts.     *)
Recorded(c) == log[c] \o (IF process.bound = c THEN process.queue ELSE <<>>)

DebtsKept ==
  \A c \in opts.chats :
    /\ chat[c].pc \in {"running", "closing"} => Works(Seen(c)) = owed[c]
    /\ Works(Replay(Recorded(c))) = owed[c]
=============================================================================
