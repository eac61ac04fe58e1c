------------------------------ MODULE TurnLoop ------------------------------
(***************************************************************************)
(* AgentHarness.run (packages/core/src/core/AgentHarness.ts): one run of   *)
(* the model/tool loop, with its anti-loop guard (modules/runaway-guard),  *)
(* the steering queue drained at turn boundaries (runtime/controls) and    *)
(* what the host does with the queue when the run is over (controlBridge). *)
(*                                                                         *)
(* The run is one generator: between two awaits or yields it runs alone.   *)
(* The provider's stream, the tools and the user (cancel, steer, enqueue)  *)
(* act in between.  A call is a tool with its arguments (hashToolCall); a  *)
(* result is what tells two texts apart.  The parallel batch of read-only  *)
(* calls is executed in its order; events, metrics and memory are left     *)
(* out, and so are runs without a tool registry.                           *)
(***************************************************************************)
EXTENDS Integers, FiniteSets, SequencesExt

CONSTANTS
  Calls,   \* what the model may ask for: a tool and its arguments
  Writes,  \* the calls that change the workspace
  Options  \* limits of the harness and environment of a run, see below

(* "cancel"  the user may cancel               "steer"  ... may steer      *)
(* "prompt"  ... may queue a prompt            "ask"    a turn may ask the *)
(* user a question   "text" calls may come as text   "garble" a stream may *)
(* break off, report an error, repeat itself or end mid-call               *)
(* "deny" a gate may refuse a call   "fail" a tool may fail                *)
Hazards == {"cancel", "steer", "prompt", "ask", "text", "garble", "deny", "fail"}

ASSUME CallsAssumption == Writes \subseteq Calls
ASSUME OptionsAssumption ==
  \A o \in Options :
    /\ o.soft \in Nat          \* maxToolLoopIterations
    /\ o.hard \in Nat /\ o.soft <= o.hard  \* maxToolLoopHardCap
    /\ o.extensions \in Nat    \* maxExtensions (8)
    /\ o.recoveries \in Nat    \* maxBuildRecoveries
    /\ o.mutation \in BOOLEAN  \* buildLiveness.mutationRequired
    /\ o.perTurn \in Nat       \* maxToolCallsPerTurn
    /\ o.queued \in Nat        \* maxQueuedIterations
    /\ o.reentries \in Nat     \* textToolReentries (4)
    /\ o.doom \in Nat          \* DOOM_LOOP_THRESHOLD (3)
    /\ o.stall \in Nat \ {0}   \* DEFAULT_STALL_TURNS (5)
    /\ o.deltas \in Nat        \* bound: calls in one turn
    /\ o.plane \in {"stdin", "serve"}      \* who carries the user's controls
    /\ o.faults \subseteq Hazards

VARIABLES
  opts,      \* what the run was started with, never changed
  pc,        \* where run() is
  turn,      \* the locals of runSingleTurn and of the turn's bookkeeping
  loop,      \* the counters of run()
  msgs,      \* what config.messages gained since the last request
  tools,     \* toolCallCache and toolCallCounts, and the workspace's version
  guard,     \* RunawayGuard: what it knows, and the turns that added nothing
  steers,    \* the control queue: where each steer is
  prompts,   \* the queued prompts
  stop,      \* cancelled, its notices, and the requests made in spite of it
  outcome    \* "error" once hadError; the reason of agent_end at the end

vars == <<opts, pc, turn, loop, msgs, tools, guard, steers, prompts, stop, outcome>>

-----------------------------------------------------------------------------
(* ids are positions in the turn's calls: a request closes a turn.         *)
Msg(role, ids) == [role |-> role, ids |-> ids]
UserMsg == Msg("user", {})

Turn(kind) ==
  [kind |-> kind, calls |-> <<>>, texts |-> <<>>, results |-> <<>>,
   finish |-> "stop", asks |-> FALSE, failed |-> FALSE]

Init ==
  /\ opts \in Options
  /\ pc = "idle"
  /\ turn = Turn("initial")
  /\ loop = [turns |-> 0, soft |-> opts.soft, extensions |-> 0, recoveries |-> 0,
             reentries |-> 0, drained |-> 0, requests |-> 0, mutated |-> FALSE,
             last |-> [finish |-> "stop", asks |-> FALSE]]
  /\ msgs = <<UserMsg>>
  /\ tools = [cache |-> <<>>, counts |-> [c \in Calls |-> 0], world |-> 0]
  /\ guard = [calls |-> {}, results |-> {}, stalled |-> 0]
  /\ steers = <<>>
  /\ prompts = 0
  /\ stop = [asked |-> FALSE, early |-> FALSE, notices |-> 0, late |-> 0]
  /\ outcome = "none"

Hazard(h) == h \in opts.faults

(* run() up to the first request: a run that was cancelled before it began *)
(* makes it all the same.                                                  *)
Begin ==
  /\ pc = "idle"
  /\ pc' = "request"
  /\ UNCHANGED <<opts, turn, loop, msgs, tools, guard, steers, prompts, stop, outcome>>

(* providerStream is called with the transcript as it is.                  *)
Request ==
  /\ pc = "request"
  /\ pc' = "stream"
  /\ msgs' = <<>>
  /\ steers' = [i \in DOMAIN steers |->
                  IF steers[i] = "injected" THEN "seen" ELSE steers[i]]
  /\ stop' = [stop EXCEPT !.late = IF stop.asked THEN @ + 1 ELSE @]
  /\ loop' = [loop EXCEPT !.requests = @ + 1]
  /\ UNCHANGED <<opts, turn, tools, guard, prompts, outcome>>

-----------------------------------------------------------------------------
(*                        The provider's stream                            *)

Streaming == pc = "stream" /\ ~stop.asked

(* The next delta of a cancelled run ends the turn, nothing is sealed; the *)
(* final-answer turn does not report it.                                   *)
NoticeCancel ==
  /\ pc = "stream" /\ stop.asked
  /\ stop' = [stop EXCEPT !.notices = IF turn.kind = "final" THEN @ ELSE @ + 1]
  /\ pc' = "ended"
  /\ UNCHANGED <<opts, turn, loop, msgs, tools, guard, steers, prompts, outcome>>

CallDelta(c) ==
  /\ Streaming /\ turn.kind # "final"
  /\ Len(turn.calls) + Len(turn.texts) < opts.deltas
  /\ turn' = [turn EXCEPT !.calls = Append(@, c)]
  /\ UNCHANGED <<opts, pc, loop, msgs, tools, guard, steers, prompts, stop, outcome>>

TextDelta(c) ==
  /\ Hazard("text")
  /\ Streaming /\ turn.kind # "final"
  /\ Len(turn.calls) + Len(turn.texts) < opts.deltas
  /\ turn' = [turn EXCEPT !.texts = Append(@, c)]
  /\ UNCHANGED <<opts, pc, loop, msgs, tools, guard, steers, prompts, stop, outcome>>

(* An error delta; the stream may go on.                                   *)
ErrorDelta ==
  /\ Hazard("garble")
  /\ Streaming /\ ~turn.failed
  /\ turn' = [turn EXCEPT !.failed = TRUE]
  /\ UNCHANGED <<opts, pc, loop, msgs, tools, guard, steers, prompts, stop, outcome>>

(* The stream throws (also when it is aborted) or ends without a finish.   *)
StreamBreaks ==
  /\ pc = "stream"
  /\ Hazard("garble") \/ stop.asked
  /\ \E thrown \in BOOLEAN : turn' = [turn EXCEPT !.failed = @ \/ thrown]
  /\ pc' = "ended"
  /\ UNCHANGED <<opts, loop, msgs, tools, guard, steers, prompts, stop, outcome>>

(* The text repeats itself: sealed collapsed, with a note, calls dropped.  *)
TextLoops ==
  /\ Hazard("garble")
  /\ Streaming /\ turn.kind # "final"
  /\ msgs' = msgs \o <<Msg("assistant", {}), UserMsg>>
  /\ pc' = "ended"
  /\ UNCHANGED <<opts, turn, loop, tools, guard, steers, prompts, stop, outcome>>

(* The finish delta, with the reason the provider gives.                   *)
FinishDelta ==
  /\ Streaming
  /\ \E reason \in {"stop", "tool_calls"}, asks \in BOOLEAN :
       /\ asks => Hazard("ask") /\ turn.kind # "final"
       /\ reason = "tool_calls" /\ turn.calls = <<>> => Hazard("garble")
       /\ turn' = [turn EXCEPT !.finish = reason, !.asks = asks]
  /\ pc' = IF turn.kind = "final" THEN "ended" ELSE "exec"
  /\ UNCHANGED <<opts, loop, msgs, tools, guard, steers, prompts, stop, outcome>>

-----------------------------------------------------------------------------
(*                     Executing the calls of a turn                       *)

ToolOf(c) == IF c \in Writes THEN "write" ELSE "read"

(* Mutant: a failed write passes for a change.                             *)
Answered_Attempt(text, isError) ==
  /\ turn' = [turn EXCEPT !.results = Append(@, text)]
  /\ loop' = IF turn.calls[Len(turn.results) + 1] \notin Writes
             THEN loop ELSE [loop EXCEPT !.mutated = TRUE]
  /\ UNCHANGED <<opts, pc, msgs, guard, steers, prompts, stop, outcome>>

(* The call is answered, with an error or not.                             *)
Answered(text, isError) ==
  /\ turn' = [turn EXCEPT !.results = Append(@, text)]
  /\ loop' = IF isError \/ turn.calls[Len(turn.results) + 1] \notin Writes
             THEN loop ELSE [loop EXCEPT !.mutated = TRUE]
  /\ UNCHANGED <<opts, pc, msgs, guard, steers, prompts, stop, outcome>>

(* The next native call, in the order of the deltas.                       *)
Executing(c) ==
  /\ pc = "exec"
  /\ Len(turn.results) < Len(turn.calls)
  /\ c = turn.calls[Len(turn.results) + 1]

(* The registry runs it: a write that succeeds changes the workspace.      *)
Invoked(c) ==
  \/ /\ Answered(<<"ok", c, tools.world>>, FALSE)
     /\ tools' = [tools EXCEPT
                     !.cache = [k \in {c} \cup DOMAIN @ |-> IF k = c THEN tools.world ELSE @[k]],
                     !.counts[c] = @ + 1,
                     !.world = IF c \in Writes THEN @ + 1 ELSE @]
  \/ /\ Hazard("fail")
     /\ Answered(<<"failed", c>>, TRUE)
     /\ tools' = [tools EXCEPT !.counts[c] = @ + 1]

OverLimit == Len(turn.results) + 1 > opts.perTurn

Skip(c) ==
  /\ Executing(c) /\ OverLimit
  /\ Answered(<<"skipped">>, TRUE)
  /\ UNCHANGED tools

Deny(c) ==
  /\ Hazard("deny")
  /\ Executing(c) /\ ~OverLimit
  /\ Answered(<<"denied">>, TRUE)
  /\ UNCHANGED tools

(* The third identical call and every later one is refused.                *)
Refuse(c) ==
  /\ Executing(c) /\ ~OverLimit
  /\ tools.counts[c] + 1 >= opts.doom
  /\ Answered(<<"doom", ToolOf(c), tools.counts[c] + 1>>, TRUE)
  /\ tools' = [tools EXCEPT !.counts[c] = @ + 1]

(* A call that succeeded before is not executed again: its result is.      *)
Replay(c) ==
  /\ Executing(c) /\ ~OverLimit
  /\ tools.counts[c] + 1 < opts.doom
  /\ c \in DOMAIN tools.cache
  /\ Answered(<<"again", c, tools.cache[c]>>, FALSE)
  /\ tools' = [tools EXCEPT !.counts[c] = @ + 1]

Execute(c) ==
  /\ Executing(c) /\ ~OverLimit
  /\ tools.counts[c] + 1 < opts.doom
  /\ c \notin DOMAIN tools.cache
  /\ Invoked(c)

(* Calls written as text that are not among the native ones follow, unless *)
(* the turn asks a question, the run is cancelled or has done so too often.*)
TextTools ==
  LET kept[n \in 0 .. Len(turn.texts)] ==
        IF n = 0 THEN <<>>
        ELSE IF turn.texts[n] \in Range(turn.calls) THEN kept[n - 1]
             ELSE Append(kept[n - 1], turn.texts[n])
  IN kept[Len(turn.texts)]

AfterNatives ==
  /\ pc = "exec"
  /\ Len(turn.results) = Len(turn.calls)
  /\ pc' = IF ~turn.asks /\ TextTools # <<>> /\ ~stop.asked
              /\ loop.reentries < opts.reentries /\ Len(turn.calls) < opts.perTurn
           THEN "text" ELSE "seal"
  /\ turn' = [turn EXCEPT !.texts = IF pc' = "text" THEN TextTools ELSE <<>>,
                          !.finish = IF turn.asks THEN "stop" ELSE @]
  /\ loop' = IF pc' = "text" THEN [loop EXCEPT !.reentries = @ + 1] ELSE loop
  /\ UNCHANGED <<opts, msgs, tools, guard, steers, prompts, stop, outcome>>

(* Mutant: a call past the limit is not dropped.                           *)
TextCall_Skips ==
  /\ pc = "text" /\ turn.texts # <<>>
  /\ turn' = IF Len(turn.calls) >= opts.perTurn THEN turn
             ELSE [turn EXCEPT !.calls = Append(@, Head(turn.texts)), !.texts = Tail(@),
                               !.results = Append(@, <<"denied">>)]
  /\ UNCHANGED <<opts, pc, loop, msgs, tools, guard, steers, prompts, stop, outcome>>

(* They go to the registry past the cache and the count of repeats; past   *)
(* the limit of the turn the rest is dropped undeclared.                   *)
TextCall ==
  /\ pc = "text" /\ turn.texts # <<>>
  /\ LET c == Head(turn.texts)
         Told(text) == turn' = [turn EXCEPT !.calls = Append(@, c), !.texts = Tail(@),
                                            !.results = Append(@, text)]
     IN IF Len(turn.calls) >= opts.perTurn
        THEN turn' = [turn EXCEPT !.texts = <<>>] /\ UNCHANGED <<loop, tools>>
        ELSE \/ /\ Told(<<"ok", c, tools.world>>)
                /\ loop' = [loop EXCEPT !.mutated = @ \/ c \in Writes]
                /\ tools' = [tools EXCEPT !.world = IF c \in Writes THEN @ + 1 ELSE @]
             \/ /\ Hazard("deny") /\ Told(<<"denied">>)
                /\ UNCHANGED <<loop, tools>>
             \/ /\ Hazard("fail") /\ Told(<<"failed", c>>)
                /\ UNCHANGED <<loop, tools>>
  /\ UNCHANGED <<opts, pc, msgs, guard, steers, prompts, stop, outcome>>

AfterTexts ==
  /\ pc = "text" /\ turn.texts = <<>>
  /\ pc' = "seal"
  /\ UNCHANGED <<opts, turn, loop, msgs, tools, guard, steers, prompts, stop, outcome>>

-----------------------------------------------------------------------------
(*                        Sealing the turn                                 *)

(* finish = tool_calls, and not one call arrived: cut in mid-arguments.    *)
Truncated == turn.finish = "tool_calls" /\ turn.calls = <<>> /\ turn.results = <<>>

FinishOf ==
  IF turn.results # <<>> THEN "tool_calls" ELSE IF Truncated THEN "stop" ELSE turn.finish

(* RunawayGuard.checkTurn: a turn that called or learned nothing new.      *)
GuardAfter ==
  LET calls == Range(turn.calls)
      results == Range(turn.results)
  IN [calls |-> guard.calls \cup calls,
      results |-> guard.results \cup results,
      stalled |-> IF calls = {} /\ results = {} THEN guard.stalled
                  ELSE IF calls \subseteq guard.calls /\ results \subseteq guard.results
                       THEN guard.stalled + 1 ELSE 0]

Aborts == turn.calls # <<>> /\ GuardAfter.stalled >= opts.stall

(* SteeringObserver.onTurnEnd: the steers so far become one user message.  *)
Drained == \E i \in DOMAIN steers : steers[i] = "queued"
Steering == IF Drained THEN <<Msg("steer", {})>> ELSE <<>>

(* The assistant with its calls, then one result for each of them.         *)
Assistant == Msg("assistant", DOMAIN turn.calls)
Results == [i \in DOMAIN turn.results |-> Msg("tool", {i})]
Guidance == IF Truncated THEN <<UserMsg>> ELSE <<>>

(* Mutant: the steer lands between the calls and their results.            *)
Transcript_MidTurn == <<Assistant>> \o Steering \o Results \o Guidance

Transcript == Steering \o <<Assistant>> \o Results \o Guidance

Seal ==
  /\ pc = "seal"
  /\ turn' = [turn EXCEPT !.finish = IF Aborts THEN "stop" ELSE FinishOf]
  /\ guard' = GuardAfter
  /\ msgs' = msgs \o Transcript
  /\ steers' = [i \in DOMAIN steers |->
                  IF steers[i] = "queued" THEN "injected" ELSE steers[i]]
  /\ pc' = "ended"
  /\ UNCHANGED <<opts, loop, tools, prompts, stop, outcome>>

-----------------------------------------------------------------------------
(*                       From one turn to the next                         *)

LoopKinds == {"initial", "loop"}

(* planBuildRecovery: a build that stopped without changing anything, with *)
(* a mutation the gate would still allow.                                  *)
Stalled ==
  /\ opts.mutation /\ ~loop.mutated
  /\ turn.finish = "stop" /\ ~turn.asks /\ ~turn.failed
  /\ loop.recoveries < opts.recoveries

(* Out of soft budget and still calling tools: one more chunk.             *)
Extends ==
  /\ turn.kind = "loop" /\ ~stop.asked
  /\ turn.finish = "tool_calls"
  /\ loop.turns >= loop.soft /\ loop.turns < opts.hard
  /\ loop.extensions < opts.extensions

SoftCap ==
  IF ~Extends THEN loop.soft
  ELSE IF loop.soft + opts.soft < opts.hard THEN loop.soft + opts.soft ELSE opts.hard

(* Mutant: a recovery may pass the hard cap.                               *)
Again_PastCap(recovers) ==
  /\ ~stop.asked
  /\ (loop.turns < SoftCap /\ turn.finish = "tool_calls") \/ recovers

Again(recovers) ==
  /\ ~stop.asked
  /\ loop.turns < opts.hard
  /\ loop.turns < SoftCap \/ recovers
  /\ turn.finish = "tool_calls" \/ recovers

NextTurn ==
  /\ pc = "ended" /\ turn.kind \in LoopKinds
  /\ \E recovers \in BOOLEAN :
       /\ recovers => Stalled
       /\ Stalled => recovers \/ Hazard("deny")
       /\ loop' = [loop EXCEPT !.recoveries = IF recovers THEN @ + 1 ELSE @,
                               !.extensions = IF Extends THEN @ + 1 ELSE @,
                               !.soft = SoftCap,
                               !.turns = IF Again(recovers) THEN @ + 1 ELSE @,
                               !.last = [finish |-> turn.finish, asks |-> turn.asks]]
       /\ msgs' = msgs \o (IF recovers THEN <<UserMsg>> ELSE <<>>)
                      \o (IF Extends THEN <<UserMsg>> ELSE <<>>)
       /\ IF Again(recovers) THEN pc' = "request" /\ turn' = Turn("loop")
                             ELSE pc' = "closing" /\ turn' = turn
  /\ UNCHANGED <<opts, tools, guard, steers, prompts, stop, outcome>>

(* Mutant: off by one.                                                     *)
HitHardCap_Over == loop.turns > opts.hard

HitHardCap == loop.turns >= opts.hard \/ (loop.turns >= loop.soft /\ loop.soft >= opts.hard)

(* runFinalAnswerTurn: at the ceiling the model is asked to answer.        *)
AskFinalAnswer ==
  /\ pc = "closing"
  /\ IF ~stop.asked /\ loop.last.finish = "tool_calls" /\ HitHardCap
     THEN /\ pc' = "request"
          /\ turn' = Turn("final")
          /\ msgs' = Append(msgs, UserMsg)
     ELSE pc' = "judge" /\ UNCHANGED <<turn, msgs>>
  /\ UNCHANGED <<opts, loop, tools, guard, steers, prompts, stop, outcome>>

FinalAnswerEnds ==
  /\ pc = "ended" /\ turn.kind = "final"
  /\ pc' = "judge"
  /\ UNCHANGED <<opts, turn, loop, msgs, tools, guard, steers, prompts, stop, outcome>>

(* A build that changed nothing and asked nothing is an error.             *)
Judge ==
  /\ pc = "judge"
  /\ pc' = "drain"
  /\ outcome' = IF ~stop.asked /\ opts.mutation /\ ~loop.mutated /\ ~loop.last.asks
                THEN "error" ELSE outcome
  /\ UNCHANGED <<opts, turn, loop, msgs, tools, guard, steers, prompts, stop>>

(* Mutant: the empty queue is not noticed.                                 *)
MoreQueued_Blind == ~stop.asked /\ outcome # "error" /\ loop.drained < opts.queued

MoreQueued ==
  ~stop.asked /\ outcome # "error" /\ prompts > 0 /\ loop.drained < opts.queued

(* Queued prompts get one turn each: what the tools of the last one say is *)
(* not sent back.                                                          *)
DrainPrompt ==
  /\ pc = "drain" /\ MoreQueued
  /\ prompts' = prompts - 1
  /\ msgs' = Append(msgs, UserMsg)
  /\ turn' = Turn("queued")
  /\ pc' = "request"
  /\ UNCHANGED <<opts, loop, tools, guard, steers, stop, outcome>>

QueuedEnds ==
  /\ pc = "ended" /\ turn.kind = "queued"
  /\ loop' = [loop EXCEPT !.drained = @ + 1]
  /\ pc' = "drain"
  /\ UNCHANGED <<opts, turn, msgs, tools, guard, steers, prompts, stop, outcome>>

(* Mutant: the notice is given whether or not a turn gave it.              *)
End_Twice ==
  /\ pc = "drain" /\ ~MoreQueued
  /\ pc' = "over"
  /\ stop' = [stop EXCEPT !.notices = IF stop.asked THEN @ + 1 ELSE @]
  /\ outcome' = IF outcome = "error" THEN "error"
                ELSE IF stop.asked THEN "cancelled" ELSE "completed"
  /\ UNCHANGED <<opts, turn, loop, msgs, tools, guard, steers, prompts>>

(* agent_end, and before it the notice of a cancel no turn has given.      *)
End ==
  /\ pc = "drain" /\ ~MoreQueued
  /\ pc' = "over"
  /\ stop' = [stop EXCEPT !.notices = IF stop.asked /\ @ = 0 THEN 1 ELSE @]
  /\ outcome' = IF outcome = "error" THEN "error"
                ELSE IF stop.asked THEN "cancelled" ELSE "completed"
  /\ UNCHANGED <<opts, turn, loop, msgs, tools, guard, steers, prompts>>

-----------------------------------------------------------------------------
(*                     The user and the host                               *)

Running == pc \notin {"over", "done"}

Cancel ==
  /\ Hazard("cancel")
  /\ Running /\ ~stop.asked
  /\ stop' = [stop EXCEPT !.asked = TRUE, !.early = pc \in {"idle", "request"}]
  /\ UNCHANGED <<opts, pc, turn, loop, msgs, tools, guard, steers, prompts, outcome>>

(* Bound: one steer, one prompt, so that each is told from no other.       *)
Steer ==
  /\ Hazard("steer")
  /\ pc # "done" /\ steers = <<>>
  /\ steers' = Append(steers, "queued")
  /\ UNCHANGED <<opts, pc, turn, loop, msgs, tools, guard, prompts, stop, outcome>>

EnqueuePrompt ==
  /\ Hazard("prompt")
  /\ Running /\ prompts = 0 /\ loop.drained = 0 /\ turn.kind # "queued"
  /\ prompts' = 1
  /\ UNCHANGED <<opts, pc, turn, loop, msgs, tools, guard, steers, stop, outcome>>

(* The host takes its leave: the stdin bridge turns the steers no boundary *)
(* drained into follow-ups, the serve plane only unregisters the queue.    *)
Detach ==
  /\ pc = "over"
  /\ pc' = "done"
  /\ steers' = [i \in DOMAIN steers |->
                  IF steers[i] # "queued" THEN steers[i]
                  ELSE IF opts.plane = "stdin" THEN "follow-up" ELSE "lost"]
  /\ UNCHANGED <<opts, turn, loop, msgs, tools, guard, prompts, stop, outcome>>

Done == pc = "done" /\ UNCHANGED vars

-----------------------------------------------------------------------------
Provider ==
  \/ NoticeCancel \/ ErrorDelta \/ StreamBreaks \/ TextLoops \/ FinishDelta
  \/ \E c \in Calls : CallDelta(c) \/ TextDelta(c)

Harness ==
  \/ Begin \/ Request
  \/ \E c \in Calls : Skip(c) \/ Deny(c) \/ Refuse(c) \/ Replay(c) \/ Execute(c)
  \/ AfterNatives \/ TextCall \/ AfterTexts \/ Seal
  \/ NextTurn \/ AskFinalAnswer \/ FinalAnswerEnds \/ Judge
  \/ DrainPrompt \/ QueuedEnds \/ End \/ Detach

User == Cancel \/ Steer \/ EnqueuePrompt

Next == Provider \/ Harness \/ User \/ Done

Spec == Init /\ [][Next]_vars

(* Streams end and tools return: both have their timeouts.                 *)
FairSpec == Spec /\ WF_vars(Provider \/ Harness)

-----------------------------------------------------------------------------
(*                             Properties                                  *)

TypeOK ==
  /\ opts \in Options
  /\ pc \in {"idle", "request", "stream", "exec", "text", "seal", "ended",
             "closing", "judge", "drain", "over", "done"}
  /\ turn.kind \in {"initial", "loop", "final", "queued"}
  /\ turn.calls \in Seq(Calls) /\ turn.texts \in Seq(Calls)
  /\ turn.finish \in {"stop", "tool_calls"} /\ turn.asks \in BOOLEAN
  /\ turn.failed \in BOOLEAN
  /\ \A f \in DOMAIN loop \ {"mutated", "last"} : loop[f] \in Nat
  /\ loop.mutated \in BOOLEAN
  /\ tools.counts \in [Calls -> Nat] /\ tools.world \in Nat
  /\ guard.calls \subseteq Calls /\ guard.stalled \in Nat
  /\ \A i \in DOMAIN steers :
       steers[i] \in {"queued", "injected", "seen", "follow-up", "lost"}
  /\ prompts \in Nat
  /\ stop.asked \in BOOLEAN /\ stop.notices \in Nat /\ stop.late \in Nat
  /\ outcome \in {"none", "completed", "cancelled", "error"}

(* The provider never sees a call without its result, a result without its *)
(* call, or anything between the two (AgentHarness.ts, "OpenAI ordering"), *)
(* whatever was skipped, denied, cut off, steered or asked for as text.    *)
Answers(i) ==
  LET n == Cardinality(msgs[i].ids)
  IN /\ i + n <= Len(msgs)
     /\ \A k \in 1..n : msgs[i + k].role = "tool"
     /\ UNION {msgs[i + k].ids : k \in 1..n} = msgs[i].ids

RequestWellFormed ==
  pc = "request" =>
    /\ \A i \in DOMAIN msgs : msgs[i].role = "assistant" => Answers(i)
    /\ \A i \in DOMAIN msgs : msgs[i].role = "tool" =>
         \E a \in 1..(i - 1) : msgs[a].role = "assistant" /\ i - a <= Cardinality(msgs[a].ids)

(* No provider, however it answers, gets more requests than the hard cap   *)
(* on the loop, the closing answer and the queued prompts allow.           *)
LoopBounded ==
  /\ loop.turns <= opts.hard /\ loop.soft <= opts.hard
  /\ loop.requests <= opts.hard + opts.queued + 2

(* A run that was to change the workspace completes only if a tool really  *)
(* changed it, or if its last turn left the user a question.               *)
NoFalseSuccess ==
  outcome = "completed" /\ opts.mutation => tools.world > 0 \/ loop.last.asks

(* After a cancel no request goes out, except the one that was being       *)
(* prepared (CancelIdle tells of a run that had not even begun).           *)
CancelStops == stop.late <= (IF stop.early THEN 1 ELSE 0)

(* A run that was cancelled before its end says so in one notice, given by *)
(* the interrupted turn or, if it was a tool that was cut off, by the run, *)
(* and does not end as completed.                                          *)
CancelReported ==
  pc \in {"over", "done"} =>
    /\ stop.notices = (IF stop.asked THEN 1 ELSE 0)
    /\ outcome = "completed" => ~stop.asked

(* What a cancel means: the tools of the turn under way may still run, but *)
(* the provider is asked no more and the end is told as it was.            *)
CancelSound == CancelStops /\ CancelReported

(* A loop cut short by its caps does not trail off on tool results nobody  *)
(* reads: it gets a last answer - if the extensions reach the hard cap and *)
(* make up for the recoveries' turns, as the defaults (60, 180, 8, 2) do.  *)
(* Results are left in two cases: the guard ended the turn, or the turn    *)
(* was a queued prompt's.                                                  *)
Roomy == opts.soft * (opts.extensions + 1) >= opts.hard /\ opts.soft > opts.recoveries
Unread == \E i \in DOMAIN msgs : msgs[i].role = "tool"
Guarded == guard.stalled >= opts.stall

ResultsRead ==
  outcome = "completed" /\ Roomy /\ Unread => turn.kind = "queued" \/ Guarded

(* The user's steer ends up in the transcript or as the host's next task:  *)
(* it is never left in the queue of a run that is over (stdin plane).      *)
SteersKept ==
  pc = "done" /\ opts.plane = "stdin" =>
    \A i \in DOMAIN steers : steers[i] \in {"injected", "seen", "follow-up"}

(* What a run owes its tools and its user when it completes.               *)
LeavesTidy == ResultsRead /\ SteersKept

(* Every run ends, with or without the user's help.                        *)
Ends == <>(pc = "done")

-----------------------------------------------------------------------------
(*          What comments say and the code does otherwise                  *)

(* SteeringObserver.ts:5: the hook "runs after tool results are flushed    *)
(* and the assistant turn is sealed".  It runs before: the steer precedes  *)
(* the answer the model had given without knowing it.                      *)
SteerAfterTurn ==
  [][\A i \in DOMAIN steers :
       steers[i] = "queued" /\ steers'[i] = "injected" =>
         \A k \in DOMAIN msgs' : msgs'[k].role = "steer" =>
           \A a \in DOMAIN msgs' : msgs'[a].role = "assistant" => a < k]_vars

(* "The next run() invocation will check the cancelled flag and emit       *)
(* agent_end with reason 'cancelled' before any work" (cancel): a run that *)
(* was cancelled before it began makes no request.                         *)
CancelIdle == [](pc = "idle" /\ stop.asked => [](loop.requests = 0))

(* "The run always ends with assistant text answering the user with what   *)
(* has been gathered" (runFinalAnswerTurn): no completed run has tool      *)
(* results that were not sent back to the provider.                        *)
RunEndsAnswered == outcome = "completed" => ~Unread

(* "Desktop must wait for control_applied before marking a control as      *)
(* delivered to the agent" (controlBridge): a steer is acknowledged as     *)
(* applied when it is injected, and a completed run has sent it on.        *)
AppliedIsDelivered ==
  outcome = "completed" => \A i \in DOMAIN steers : steers[i] # "injected"

(* A replayed read shows the file as it is: the cache is not invalidated   *)
(* by the run's own writes, so a file read, edited and read again is shown *)
(* as it was before the edit.                                              *)
FreshResults ==
  [][\A c \in Calls \ Writes : Replay(c) => tools.cache[c] = tools.world]_vars

(* A question to the user pauses the loop: not when the turn ran a tool.   *)
QuestionPauses == [][pc = "ended" /\ turn.asks => pc' # "request" \/ turn'.kind # "loop"]_vars

(* A steer the serve plane accepted is applied or reported.                *)
SteerNotLost == \A i \in DOMAIN steers : steers[i] # "lost"
=============================================================================
