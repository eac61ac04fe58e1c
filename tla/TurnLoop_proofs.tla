-------------------------- MODULE TurnLoop_proofs --------------------------
(* Proofs about TurnLoop, for any calls, any limits of the harness and any *)
(* hazards of a run.                                                       *)
EXTENDS TurnLoop, SequenceTheorems, FiniteSetTheorems, WellFoundedInduction, TLAPS

-----------------------------------------------------------------------------
(*                   Induction and recursive functions                     *)
(*                                                                         *)
(* A recursive function is whatever satisfies its equation, so that        *)
(* something does has to be shown before anything can be said of it.       *)

(* A set of numbers has a least element.                                   *)
LEMMA LeastNumber ==
  ASSUME NEW T, T \subseteq Nat, T # {}
  PROVE  \E x \in T : \A y \in T : x <= y
<1>1. PICK x \in T : \A y \in T : ~(<<y, x>> \in OpToRel(LAMBDA a, b : a < b, Nat))
  BY NatLessThanWellFounded, WFMin, Zenon
<1>2. \A y \in T : ~(y < x)
  BY <1>1 DEF OpToRel
<1>3. QED
  BY <1>2

LEMMA InductionOnSets ==
  ASSUME NEW S, 0 \in S, \A n \in Nat : n \in S => n + 1 \in S
  PROVE  \A n \in Nat : n \in S
<1> SUFFICES ASSUME Nat \ S # {} PROVE FALSE
  OBVIOUS
<1>1. PICK x \in Nat \ S : \A y \in Nat \ S : x <= y
  BY LeastNumber
<1>2. x - 1 \in Nat /\ x - 1 \in S
  BY <1>1
<1>3. (x - 1) + 1 \in S
  BY <1>2
<1>4. QED
  BY <1>1, <1>3

(* What is computed step by step from a first value exists: step[k] says  *)
(* what the k-th value is, given the one before it.                        *)
Steps(step, V) == step \in [Nat -> [V -> V]]

Stepwise(f, V, base, step, n) ==
  /\ f \in [0 .. n -> V]
  /\ f[0] = base
  /\ \A k \in 1 .. n : f[k] = step[k][f[k - 1]]

LEMMA StepwiseExists ==
  ASSUME NEW V, NEW base, base \in V, NEW step, Steps(step, V), NEW n \in Nat
  PROVE  \E f : Stepwise(f, V, base, step, n)
<1> DEFINE S == {m \in Nat : \E f : Stepwise(f, V, base, step, m)}
<1>1. 0 \in S
  <2>1. Stepwise([k \in 0 .. 0 |-> base], V, base, step, 0)
    BY DEF Stepwise
  <2>2. QED
    BY <2>1
<1>2. ASSUME NEW m \in Nat, m \in S
      PROVE  m + 1 \in S
  <2>1. PICK f : Stepwise(f, V, base, step, m)
    BY <1>2
  <2> DEFINE g == [k \in 0 .. (m + 1) |-> IF k <= m THEN f[k] ELSE step[m + 1][f[m]]]
  <2>2. step[m + 1][f[m]] \in V
    BY <2>1 DEF Stepwise, Steps
  <2>3. g \in [0 .. (m + 1) -> V]
    BY <2>1, <2>2 DEF Stepwise
  <2>4. g[0] = base
    BY <2>1 DEF Stepwise
  <2>5. ASSUME NEW k \in 1 .. (m + 1)
        PROVE  g[k] = step[k][g[k - 1]]
    <3>1. CASE k <= m
      BY <2>1, <3>1 DEF Stepwise
    <3>2. CASE k = m + 1
      BY <2>1, <3>2
    <3>3. QED
      BY <3>1, <3>2
  <2> HIDE DEF g
  <2>6. Stepwise(g, V, base, step, m + 1)
    BY <2>3, <2>4, <2>5 DEF Stepwise
  <2>7. QED
    BY <2>6
<1> HIDE DEF S
<1>3. n \in S
  BY <1>1, <1>2, InductionOnSets
<1>4. QED
  BY <1>3 DEF S


-----------------------------------------------------------------------------
(*                              Typing                                     *)

Places == {"idle", "request", "stream", "exec", "text", "seal", "ended",
           "closing", "judge", "drain", "over", "done"}
Kinds == {"initial", "loop", "final", "queued"}
InFlight == {"stream", "exec", "text", "seal", "ended"}

(* A record is what its fields are: all that is needed of turn and tools,  *)
(* whose calls, results and cache the counting does not look into.         *)
TurnShape ==
  turn = [kind |-> turn.kind, calls |-> turn.calls, texts |-> turn.texts,
          results |-> turn.results, finish |-> turn.finish, asks |-> turn.asks,
          failed |-> turn.failed]

ToolsShape ==
  tools = [cache |-> tools.cache, counts |-> tools.counts, world |-> tools.world]

LastType == [finish : {"stop", "tool_calls"}, asks : BOOLEAN]

LoopType ==
  loop \in [turns : Nat, soft : Nat, extensions : Nat, recoveries : Nat,
            reentries : Nat, drained : Nat, requests : Nat, mutated : BOOLEAN,
            last : LastType]

StopType == stop \in [asked : BOOLEAN, early : BOOLEAN, notices : Nat, late : Nat]

TurnType ==
  /\ TurnShape
  /\ turn.kind \in Kinds /\ turn.finish \in {"stop", "tool_calls"} /\ turn.asks \in BOOLEAN

Typed ==
  /\ opts \in Options
  /\ pc \in Places
  /\ TurnType
  /\ LoopType
  /\ ToolsShape /\ tools.world \in Nat
  /\ StopType

LEMMA OptionFacts ==
  ASSUME opts \in Options
  PROVE  /\ opts.soft \in Nat /\ opts.hard \in Nat /\ opts.queued \in Nat
         /\ opts.soft <= opts.hard /\ opts.mutation \in BOOLEAN
  BY OptionsAssumption

LEMMA TypedInit == Init => Typed
<1> SUFFICES ASSUME Init PROVE Typed
  OBVIOUS
<1>1. opts \in Options /\ opts.soft \in Nat
  BY OptionFacts DEF Init
<1>2. TurnType
  BY DEF Init, TurnType, TurnShape, Turn, Kinds
<1>3. LoopType
  BY <1>1 DEF Init, LoopType, LastType
<1>4. ToolsShape /\ tools.world \in Nat
  BY DEF Init, ToolsShape
<1>5. StopType
  BY DEF Init, StopType
<1>6. QED
  BY <1>1, <1>2, <1>3, <1>4, <1>5 DEF Init, Typed, Places

(* Each part of the state is typed after a step of the actions that change *)
(* it; the rest leave it alone.                                            *)
LEMMA TurnTyped ==
  ASSUME Typed, [Next]_vars
  PROVE  TurnType'
<1>1. CASE UNCHANGED turn
  BY <1>1 DEF Typed, TurnType, TurnShape
<1>2. CASE \E c \in Calls : CallDelta(c) \/ TextDelta(c)
  BY <1>2 DEF CallDelta, TextDelta, Typed, TurnType, TurnShape
<1>3. CASE ErrorDelta \/ StreamBreaks
  BY <1>3 DEF ErrorDelta, StreamBreaks, Typed, TurnType, TurnShape
<1>4. CASE FinishDelta
  BY <1>4 DEF FinishDelta, Typed, TurnType, TurnShape
<1>5. ASSUME NEW text, NEW isError, Answered(text, isError)
      PROVE  TurnType'
  BY <1>5 DEF Answered, Typed, TurnType, TurnShape
<1>6. CASE \E c \in Calls : Skip(c) \/ Deny(c) \/ Refuse(c) \/ Replay(c) \/ Execute(c)
  BY <1>5, <1>6 DEF Skip, Deny, Refuse, Replay, Execute, Invoked
<1>7. CASE AfterNatives
  BY <1>7 DEF AfterNatives, Typed, TurnType, TurnShape
<1>8. CASE TextCall
  <2>1. \/ \E text : turn' = [turn EXCEPT !.calls = Append(@, Head(turn.texts)),
                                          !.texts = Tail(@), !.results = Append(@, text)]
        \/ turn' = [turn EXCEPT !.texts = <<>>]
    BY <1>8 DEF TextCall
  <2>2. QED
    BY <2>1 DEF Typed, TurnType, TurnShape
<1>9. CASE Seal
  BY <1>9 DEF Seal, Typed, TurnType, TurnShape, FinishOf
<1>10. CASE NextTurn \/ AskFinalAnswer \/ DrainPrompt
  <2>1. UNCHANGED turn \/ \E k \in Kinds : turn' = Turn(k)
    BY <1>10 DEF NextTurn, AskFinalAnswer, DrainPrompt, Kinds
  <2>2. ASSUME NEW k \in Kinds, turn' = Turn(k)
        PROVE  TurnType'
    <3>1. turn' = [kind |-> k, calls |-> <<>>, texts |-> <<>>, results |-> <<>>,
                   finish |-> "stop", asks |-> FALSE, failed |-> FALSE]
      BY <2>2 DEF Turn
    <3>2. QED
      BY <3>1 DEF TurnType, TurnShape
  <2>3. QED
    BY <1>1, <2>1, <2>2
<1>11. CASE Begin \/ Request \/ AfterTexts \/ FinalAnswerEnds \/ Judge \/ QueuedEnds
            \/ End \/ Detach \/ NoticeCancel \/ TextLoops
  BY <1>1, <1>11 DEF Begin, Request, AfterTexts, FinalAnswerEnds, Judge, QueuedEnds,
                     End, Detach, NoticeCancel, TextLoops
<1>12. CASE User \/ Done \/ UNCHANGED vars
  BY <1>1, <1>12 DEF User, Cancel, Steer, EnqueuePrompt, Done, vars
<1>13. QED
  BY <1>2, <1>3, <1>4, <1>6, <1>7, <1>8, <1>9, <1>10, <1>11, <1>12
     DEF Next, Provider, Harness

LEMMA LoopTyped ==
  ASSUME Typed, [Next]_vars
  PROVE  LoopType'
<1>1. CASE UNCHANGED loop
  BY <1>1 DEF Typed, LoopType
<1>2. CASE Request \/ QueuedEnds
  BY <1>2 DEF Request, QueuedEnds, Typed, LoopType
<1>3. ASSUME NEW text, NEW isError, Answered(text, isError)
      PROVE  LoopType'
  BY <1>3 DEF Answered, Typed, LoopType
<1>4. CASE \E c \in Calls : Skip(c) \/ Deny(c) \/ Refuse(c) \/ Replay(c) \/ Execute(c)
  BY <1>3, <1>4 DEF Skip, Deny, Refuse, Replay, Execute, Invoked
<1>5. CASE AfterNatives
  <2>1. UNCHANGED loop \/ loop' = [loop EXCEPT !.reentries = loop.reentries + 1]
    BY <1>5 DEF AfterNatives
  <2>2. PICK n \in Nat : n = loop.reentries + 1
    BY DEF Typed, LoopType
  <2>3. UNCHANGED loop \/ loop' = [loop EXCEPT !.reentries = n]
    BY <2>1, <2>2
  <2>4. QED
    BY <1>1, <2>3 DEF Typed, LoopType
<1>6. CASE TextCall
  <2>1. \/ UNCHANGED loop
        \/ loop' = [loop EXCEPT !.mutated = @ \/ Head(turn.texts) \in Writes]
    BY <1>6 DEF TextCall
  <2>2. QED
    BY <1>1, <2>1 DEF Typed, LoopType
<1>7. CASE NextTurn
  <2>1. SoftCap \in Nat
    BY OptionFacts DEF Typed, LoopType, SoftCap
  <2>2. PICK recovers \in BOOLEAN :
          loop' = [loop EXCEPT !.recoveries = IF recovers THEN @ + 1 ELSE @,
                               !.extensions = IF Extends THEN @ + 1 ELSE @,
                               !.soft = SoftCap,
                               !.turns = IF Again(recovers) THEN @ + 1 ELSE @,
                               !.last = [finish |-> turn.finish, asks |-> turn.asks]]
    BY <1>7 DEF NextTurn
  <2>3. [finish |-> turn.finish, asks |-> turn.asks] \in LastType
    BY DEF Typed, TurnType, LastType
  <2> DEFINE r == IF recovers THEN loop.recoveries + 1 ELSE loop.recoveries
             e == IF Extends THEN loop.extensions + 1 ELSE loop.extensions
             t == IF Again(recovers) THEN loop.turns + 1 ELSE loop.turns
             l == [finish |-> turn.finish, asks |-> turn.asks]
  <2>4. r \in Nat /\ e \in Nat /\ t \in Nat
    BY DEF Typed, LoopType
  <2>5. loop' = [loop EXCEPT !.recoveries = r, !.extensions = e, !.soft = SoftCap,
                             !.turns = t, !.last = l]
    BY <2>2
  <2> HIDE DEF r, e, t, l
  <2>6. QED
    BY <2>1, <2>3, <2>4, <2>5 DEF Typed, LoopType, l
<1>8. CASE Provider
  BY <1>1, <1>8 DEF Provider, NoticeCancel, ErrorDelta, StreamBreaks, TextLoops, FinishDelta,
                    CallDelta, TextDelta
<1>9. CASE Begin \/ AfterTexts \/ Seal \/ AskFinalAnswer \/ FinalAnswerEnds \/ Judge
           \/ DrainPrompt \/ End \/ Detach
  BY <1>1, <1>9 DEF Begin, AfterTexts, Seal, AskFinalAnswer, FinalAnswerEnds, Judge,
                    DrainPrompt, End, Detach
<1>10. CASE User \/ Done \/ UNCHANGED vars
  BY <1>1, <1>10 DEF User, Cancel, Steer, EnqueuePrompt, Done, vars
<1>11. QED
  BY <1>2, <1>4, <1>5, <1>6, <1>7, <1>8, <1>9, <1>10 DEF Next, Harness

LEMMA ToolsTyped ==
  ASSUME Typed, [Next]_vars
  PROVE  (ToolsShape /\ tools.world \in Nat)'
<1>1. CASE UNCHANGED tools
  BY <1>1 DEF Typed, ToolsShape
<1>2. ASSUME NEW c \in Calls, Skip(c) \/ Deny(c) \/ Refuse(c) \/ Replay(c)
      PROVE  (ToolsShape /\ tools.world \in Nat)'
  BY <1>1, <1>2 DEF Skip, Deny, Refuse, Replay, Typed, ToolsShape
<1>3. ASSUME NEW c \in Calls, Execute(c)
      PROVE  (ToolsShape /\ tools.world \in Nat)'
  <2> DEFINE d == [k \in {c} \cup DOMAIN tools.cache |->
                    IF k = c THEN tools.world ELSE tools.cache[k]]
             w == IF c \in Writes THEN tools.world + 1 ELSE tools.world
  <2>1. \/ tools' = [tools EXCEPT !.cache = d, !.counts[c] = @ + 1, !.world = w]
        \/ tools' = [tools EXCEPT !.counts[c] = @ + 1]
    BY <1>3 DEF Execute, Invoked
  <2>2. w \in Nat
    BY DEF Typed
  <2> HIDE DEF d, w
  <2>3. QED
    BY <2>1, <2>2 DEF Typed, ToolsShape
<1>4. CASE TextCall
  <2>1. \/ UNCHANGED tools
        \/ tools' = [tools EXCEPT !.world = IF Head(turn.texts) \in Writes THEN @ + 1 ELSE @]
    BY <1>4 DEF TextCall
  <2>2. QED
    BY <1>1, <2>1 DEF Typed, ToolsShape
<1>5. CASE Provider
  BY <1>1, <1>5 DEF Provider, NoticeCancel, ErrorDelta, StreamBreaks, TextLoops, FinishDelta,
                    CallDelta, TextDelta
<1>6. CASE Begin \/ Request \/ AfterNatives \/ AfterTexts \/ Seal \/ NextTurn
           \/ AskFinalAnswer \/ FinalAnswerEnds \/ Judge
           \/ DrainPrompt \/ QueuedEnds \/ End \/ Detach
  BY <1>1, <1>6 DEF Begin, Request, AfterNatives, AfterTexts, Seal, NextTurn,
                    AskFinalAnswer, FinalAnswerEnds, Judge, DrainPrompt, QueuedEnds,
                    End, Detach
<1>7. CASE User \/ Done \/ UNCHANGED vars
  BY <1>1, <1>7 DEF User, Cancel, Steer, EnqueuePrompt, Done, vars
<1>8. QED
  BY <1>2, <1>3, <1>4, <1>5, <1>6, <1>7 DEF Next, Harness

(* Only a request, a notice, the end and the user touch the stop.          *)
LEMMA StopChanges ==
  ASSUME [Next]_vars
  PROVE  UNCHANGED stop \/ Request \/ NoticeCancel \/ End \/ Cancel
<1>1. CASE Provider
  BY <1>1 DEF Provider, ErrorDelta, StreamBreaks, TextLoops, FinishDelta, CallDelta, TextDelta
<1>2. CASE \E c \in Calls : Skip(c) \/ Deny(c) \/ Refuse(c) \/ Replay(c) \/ Execute(c)
  BY <1>2 DEF Skip, Deny, Refuse, Replay, Execute, Invoked, Answered
<1>3. CASE Begin \/ AfterNatives \/ TextCall \/ AfterTexts \/ Seal \/ NextTurn
           \/ AskFinalAnswer \/ FinalAnswerEnds \/ Judge
           \/ DrainPrompt \/ QueuedEnds \/ Detach
  BY <1>3 DEF Begin, AfterNatives, TextCall, AfterTexts, Seal, NextTurn,
              AskFinalAnswer, FinalAnswerEnds, Judge, DrainPrompt, QueuedEnds, Detach
<1>4. CASE Steer \/ EnqueuePrompt \/ Done \/ UNCHANGED vars
  BY <1>4 DEF Steer, EnqueuePrompt, Done, vars
<1>5. QED
  BY <1>1, <1>2, <1>3, <1>4 DEF Next, Harness, User

LEMMA StopTyped ==
  ASSUME Typed, [Next]_vars
  PROVE  StopType'
<1>1. CASE UNCHANGED stop
  BY <1>1 DEF Typed, StopType
<1>2. CASE Request
  BY <1>2 DEF Request, Typed, StopType
<1>3. CASE NoticeCancel
  BY <1>3 DEF NoticeCancel, Typed, StopType
<1>4. CASE End
  BY <1>4 DEF End, Typed, StopType
<1>5. CASE Cancel
  <2> DEFINE e == pc \in {"idle", "request"}
  <2>1. e \in BOOLEAN /\ stop' = [stop EXCEPT !.asked = TRUE, !.early = e]
    BY <1>5 DEF Cancel
  <2> HIDE DEF e
  <2>2. QED
    BY <2>1 DEF Typed, StopType
<1>6. QED
  BY <1>1, <1>2, <1>3, <1>4, <1>5, StopChanges

(* Where run() goes from each of its places: a call is answered where it   *)
(* is executed, and only the actions named here move on.                   *)
LEMMA Moves ==
  ASSUME pc \in Places, [Next]_vars
  PROVE  /\ pc' \in Places
         /\ opts' = opts
<1>1. CASE Provider
  BY <1>1 DEF Provider, NoticeCancel, ErrorDelta, StreamBreaks, TextLoops, FinishDelta,
              CallDelta, TextDelta, Places
<1>2. CASE \E c \in Calls : Skip(c) \/ Deny(c) \/ Refuse(c) \/ Replay(c) \/ Execute(c)
  BY <1>2 DEF Skip, Deny, Refuse, Replay, Execute, Invoked, Answered
<1>3. CASE Begin \/ Request \/ AfterNatives \/ TextCall \/ AfterTexts \/ Seal
  BY <1>3 DEF Begin, Request, AfterNatives, TextCall, AfterTexts, Seal, Places
<1>4. CASE NextTurn \/ AskFinalAnswer \/ FinalAnswerEnds \/ Judge
           \/ DrainPrompt \/ QueuedEnds \/ End \/ Detach
  BY <1>4 DEF NextTurn, AskFinalAnswer, FinalAnswerEnds, Judge, DrainPrompt,
              QueuedEnds, End, Detach, Places
<1>5. CASE User \/ Done \/ UNCHANGED vars
  BY <1>5 DEF User, Cancel, Steer, EnqueuePrompt, Done, vars
<1>6. QED
  BY <1>1, <1>2, <1>3, <1>4, <1>5 DEF Next, Harness

LEMMA TypedStep == Typed /\ [Next]_vars => Typed'
<1> SUFFICES ASSUME Typed, [Next]_vars PROVE Typed'
  OBVIOUS
<1>1. pc' \in Places /\ opts' = opts
  BY Moves DEF Typed
<1>2. QED
  BY <1>1, TurnTyped, LoopTyped, ToolsTyped, StopTyped DEF Typed

LEMMA AlwaysTyped == Spec => []Typed
  BY TypedInit, TypedStep, PTL DEF Spec

-----------------------------------------------------------------------------
(*                      How many requests go out                           *)
(*                                                                         *)
(* LoopBounded counts requests over the whole run and says nothing of the  *)
(* turn they belong to.  Extra is what the requests may exceed the loop's  *)
(* turns and the drained prompts by: one for the first turn, one for the   *)
(* closing answer, one for a queued prompt under way.                      *)

Extra ==
  IF turn.kind \in LoopKinds THEN IF pc \in {"idle", "request"} THEN 0 ELSE 1
  ELSE IF turn.kind = "final" THEN IF pc = "request" THEN 1 ELSE 2
  ELSE IF pc \in InFlight THEN 3 ELSE 2

(* A turn of a queued prompt is under way.                                 *)
QueuedTurn == turn.kind = "queued" /\ pc \in {"request"} \cup InFlight

CountInv ==
  /\ pc = "closing" => turn.kind \in LoopKinds
  /\ pc = "idle" => turn.kind = "initial"
  /\ pc = "judge" => turn.kind \in LoopKinds \cup {"final"}
  /\ loop.turns <= opts.hard /\ loop.soft <= opts.hard
  /\ loop.drained <= opts.queued
  /\ QueuedTurn => loop.drained < opts.queued
  /\ loop.requests <= loop.turns + loop.drained + Extra

Counters == <<loop.turns, loop.soft, loop.drained, loop.requests>>

(* A step within a turn counts nothing.                                    *)
LEMMA CountWithin ==
  ASSUME Typed, CountInv, UNCHANGED <<opts, Counters, turn.kind>>,
         pc' = pc \/ (pc \in InFlight /\ pc' \in InFlight)
  PROVE  CountInv'
  BY DEF CountInv, Counters, Extra, QueuedTurn, InFlight

LEMMA CountStep ==
  ASSUME Typed, CountInv, [Next]_vars
  PROVE  CountInv'
<1> DEFINE Within == /\ UNCHANGED <<opts, Counters, turn.kind>>
                     /\ pc' = pc \/ (pc \in InFlight /\ pc' \in InFlight)
<1>1. CASE UNCHANGED <<opts, pc, turn, loop>>
  BY <1>1, CountWithin DEF Counters
<1>2. CASE Provider
  <2>1. Within
    BY <1>2 DEF Provider, NoticeCancel, ErrorDelta, StreamBreaks, TextLoops, FinishDelta,
                CallDelta, TextDelta, Streaming, Counters, InFlight, Typed, TurnType, TurnShape
  <2>2. QED
    BY <2>1, CountWithin
<1>3. CASE \E c \in Calls : Skip(c) \/ Deny(c) \/ Refuse(c) \/ Replay(c) \/ Execute(c)
  <2>1. PICK text, isError : Answered(text, isError)
    BY <1>3 DEF Skip, Deny, Refuse, Replay, Execute, Invoked
  <2>2. Within
    BY <2>1 DEF Answered, Counters, Typed, LoopType, TurnType, TurnShape
  <2>3. QED
    BY <2>2, CountWithin
<1>4. CASE AfterNatives \/ AfterTexts \/ Seal
  <2>1. Within
    BY <1>4 DEF AfterNatives, AfterTexts, Seal, Counters, InFlight, Typed, LoopType,
                TurnType, TurnShape
  <2>2. QED
    BY <2>1, CountWithin
<1>5. CASE TextCall
  <2>1. /\ UNCHANGED <<opts, pc>>
        /\ \/ UNCHANGED loop
           \/ loop' = [loop EXCEPT !.mutated = @ \/ Head(turn.texts) \in Writes]
        /\ \/ \E text : turn' = [turn EXCEPT !.calls = Append(@, Head(turn.texts)),
                                          !.texts = Tail(@), !.results = Append(@, text)]
           \/ turn' = [turn EXCEPT !.texts = <<>>]
    BY <1>5 DEF TextCall
  <2>2. Within
    BY <2>1 DEF Counters, Typed, LoopType, TurnType, TurnShape
  <2>3. QED
    BY <2>2, CountWithin
<1>6. CASE Begin
  BY <1>6 DEF Begin, CountInv, Extra, QueuedTurn, InFlight, LoopKinds
<1>7. CASE Request
  BY <1>7 DEF Request, CountInv, Extra, QueuedTurn, InFlight, LoopKinds, Typed, LoopType,
              TurnType, Kinds
<1>8. CASE NextTurn
  <2>1. SoftCap \in Nat /\ SoftCap <= opts.hard
    BY OptionFacts DEF SoftCap, Typed, LoopType, CountInv
  <2>2. PICK recovers \in BOOLEAN :
          /\ loop' = [loop EXCEPT !.recoveries = IF recovers THEN @ + 1 ELSE @,
                                  !.extensions = IF Extends THEN @ + 1 ELSE @,
                                  !.soft = SoftCap,
                                  !.turns = IF Again(recovers) THEN @ + 1 ELSE @,
                                  !.last = [finish |-> turn.finish, asks |-> turn.asks]]
          /\ IF Again(recovers) THEN pc' = "request" /\ turn' = Turn("loop")
                                ELSE pc' = "closing" /\ turn' = turn
    BY <1>8 DEF NextTurn
  <2>3. /\ loop'.turns = IF Again(recovers) THEN loop.turns + 1 ELSE loop.turns
        /\ loop'.soft = SoftCap
        /\ loop'.drained = loop.drained /\ loop'.requests = loop.requests
    BY <2>2 DEF Typed, LoopType
  <2>4. /\ pc = "ended" /\ turn.kind \in LoopKinds /\ opts' = opts
        /\ loop.turns \in Nat /\ loop.drained \in Nat /\ loop.requests \in Nat
        /\ opts.hard \in Nat
    BY <1>8, OptionFacts DEF NextTurn, Typed, LoopType
  <2>5. loop.requests <= loop.turns + loop.drained + 1
    BY <2>4 DEF CountInv, Extra
  <2>6. CASE Again(recovers)
    <3>1. pc' = "request" /\ turn'.kind = "loop" /\ loop.turns < opts.hard
      BY <2>2, <2>6 DEF Again, Turn
    <3>2. QED
      BY <2>1, <2>3, <2>4, <2>5, <2>6, <3>1 DEF CountInv, Extra, QueuedTurn, LoopKinds
  <2>7. CASE ~Again(recovers)
    <3>1. pc' = "closing" /\ turn' = turn
      BY <2>2, <2>7
    <3>2. QED
      BY <2>1, <2>3, <2>4, <2>5, <2>7, <3>1
         DEF CountInv, Extra, QueuedTurn, LoopKinds, InFlight
  <2>8. QED
    BY <2>6, <2>7
<1>9. CASE AskFinalAnswer
  <2>1. turn' = turn \/ turn'.kind = "final"
    BY <1>9 DEF AskFinalAnswer, Turn
  <2>2. QED
    BY <1>9, <2>1 DEF AskFinalAnswer, Turn, CountInv, Extra, QueuedTurn, InFlight, LoopKinds,
                      Typed, LoopType
<1>10. CASE FinalAnswerEnds \/ Judge \/ End \/ Detach
  BY <1>10 DEF FinalAnswerEnds, Judge, End, Detach, CountInv, Extra, QueuedTurn, InFlight,
               LoopKinds, Typed, LoopType
<1>11. CASE DrainPrompt
  <2>1. turn'.kind = "queued" /\ loop.drained < opts.queued
    BY <1>11 DEF DrainPrompt, MoreQueued, Turn
  <2>2. QED
    BY <1>11, <2>1 DEF DrainPrompt, CountInv, Extra, QueuedTurn, InFlight, LoopKinds,
                       Typed, LoopType
<1>12. CASE QueuedEnds
  <2>1. opts.queued \in Nat
    BY OptionFacts DEF Typed
  <2>2. QED
    BY <1>12, <2>1 DEF QueuedEnds, CountInv, Extra, QueuedTurn, InFlight, LoopKinds,
                       Typed, LoopType
<1>13. CASE User \/ Done \/ UNCHANGED vars
  BY <1>1, <1>13 DEF User, Cancel, Steer, EnqueuePrompt, Done, vars
<1>14. QED
  BY <1>2, <1>3, <1>4, <1>5, <1>6, <1>7, <1>8, <1>9, <1>10, <1>11, <1>12, <1>13
     DEF Next, Harness

(* No provider, however it answers, and no user, however many prompts and  *)
(* steers, gets more requests out of a run than the hard cap on the loop,  *)
(* the first turn, the closing answer and the queued prompts allow.        *)
THEOREM RequestsBounded == Spec => []LoopBounded
<1>1. Init => CountInv
  BY OptionFacts DEF Init, Turn, CountInv, Extra, QueuedTurn, InFlight, LoopKinds
<1>2. Typed /\ CountInv /\ [Next]_vars => CountInv'
  BY CountStep
<1>3. Typed /\ CountInv => LoopBounded
  <2> SUFFICES ASSUME Typed, CountInv PROVE LoopBounded
    OBVIOUS
  <2>1. /\ loop.turns \in Nat /\ loop.drained \in Nat /\ loop.requests \in Nat
        /\ opts.hard \in Nat /\ opts.queued \in Nat
    BY OptionFacts DEF Typed, LoopType
  <2>2. QED
    BY <2>1 DEF CountInv, LoopBounded, Extra, QueuedTurn, Typed, TurnType, Kinds, LoopKinds
<1>4. QED
  BY <1>1, <1>2, <1>3, AlwaysTyped, PTL DEF Spec

-----------------------------------------------------------------------------
(*                            A cancelled run                              *)
(*                                                                         *)
(* CancelSound counts the requests made in spite of a cancel and judges    *)
(* the notices at the end only.  CancelInv says what a cancel finds and    *)
(* leaves at each place: one that comes late finds no request ahead, and a *)
(* notice is given where the turn is over.                                 *)

Ahead == {"idle", "request"}
BeforeNotice == Ahead \cup {"stream", "exec", "text", "seal"}

CancelInv ==
  /\ ~stop.asked => stop.late = 0 /\ ~stop.early /\ stop.notices = 0
  /\ stop.asked /\ pc \in Ahead => stop.early /\ stop.late = 0
  /\ stop.late <= (IF stop.early THEN 1 ELSE 0)
  /\ stop.notices <= 1
  /\ pc \in BeforeNotice => stop.notices = 0
  /\ pc \in {"over", "done"} => stop.notices = (IF stop.asked THEN 1 ELSE 0)
  /\ outcome = "completed" => pc \in {"over", "done"} /\ ~stop.asked

(* A run turns back to a request, or to a turn, only if nobody asked it to *)
(* stop; and it is over only by End.                                       *)
LEMMA TurnsBack ==
  ASSUME Typed, [Next]_vars
  PROVE  /\ pc' \in Ahead => pc \in Ahead \/ ~stop.asked
         /\ pc' \in BeforeNotice => pc \in BeforeNotice \/ ~stop.asked
         /\ pc' \in {"over", "done"} => pc \in {"over", "done"} \/ End
<1>1. CASE pc' = pc
  BY <1>1
<1>2. CASE Provider
  BY <1>2 DEF Provider, NoticeCancel, ErrorDelta, StreamBreaks, TextLoops, FinishDelta,
              CallDelta, TextDelta, Streaming, Ahead, BeforeNotice
<1>3. CASE \E c \in Calls : Skip(c) \/ Deny(c) \/ Refuse(c) \/ Replay(c) \/ Execute(c)
  BY <1>1, <1>3 DEF Skip, Deny, Refuse, Replay, Execute, Invoked, Answered
<1>4. CASE Begin \/ Request \/ AfterNatives \/ TextCall \/ AfterTexts \/ Seal
  BY <1>4 DEF Begin, Request, AfterNatives, TextCall, AfterTexts, Seal, Ahead, BeforeNotice
<1>5. CASE NextTurn
  BY <1>5 DEF NextTurn, Again, Ahead, BeforeNotice
<1>6. CASE AskFinalAnswer \/ FinalAnswerEnds \/ Judge \/ DrainPrompt \/ QueuedEnds \/ Detach
  BY <1>6 DEF AskFinalAnswer, FinalAnswerEnds, Judge, DrainPrompt, QueuedEnds, Detach,
              MoreQueued, Ahead, BeforeNotice
<1>7. CASE User \/ Done \/ UNCHANGED vars
  BY <1>1, <1>7 DEF User, Cancel, Steer, EnqueuePrompt, Done, vars
<1>8. CASE End
  BY <1>8 DEF End, Ahead, BeforeNotice
<1>9. QED
  BY <1>2, <1>3, <1>4, <1>5, <1>6, <1>7, <1>8 DEF Next, Harness

(* Only End says that a run completed, and what is over stays over.        *)
LEMMA CompletedAtEnd ==
  ASSUME Typed, [Next]_vars, ~End
  PROVE  /\ outcome' = "completed" => outcome = "completed"
         /\ pc \in {"over", "done"} => pc' \in {"over", "done"}
<1>1. CASE UNCHANGED <<pc, outcome>>
  BY <1>1
<1>2. CASE Provider
  BY <1>2 DEF Provider, NoticeCancel, ErrorDelta, StreamBreaks, TextLoops, FinishDelta,
              CallDelta, TextDelta, Streaming
<1>3. CASE \E c \in Calls : Skip(c) \/ Deny(c) \/ Refuse(c) \/ Replay(c) \/ Execute(c)
  BY <1>1, <1>3 DEF Skip, Deny, Refuse, Replay, Execute, Invoked, Answered
<1>4. CASE Begin \/ Request \/ AfterNatives \/ TextCall \/ AfterTexts \/ Seal
  BY <1>4 DEF Begin, Request, AfterNatives, TextCall, AfterTexts, Seal
<1>5. CASE NextTurn \/ AskFinalAnswer \/ FinalAnswerEnds \/ Judge \/ DrainPrompt \/ QueuedEnds
           \/ Detach
  BY <1>5 DEF NextTurn, AskFinalAnswer, FinalAnswerEnds, Judge, DrainPrompt, QueuedEnds, Detach
<1>6. CASE User \/ Done \/ UNCHANGED vars
  BY <1>1, <1>6 DEF User, Cancel, Steer, EnqueuePrompt, Done, vars
<1>7. QED
  BY <1>2, <1>3, <1>4, <1>5, <1>6 DEF Next, Harness

LEMMA CancelStep ==
  ASSUME Typed, CancelInv, [Next]_vars
  PROVE  CancelInv'
<1>1. CASE End
  BY <1>1 DEF End, CancelInv, Ahead, BeforeNotice, Typed, StopType
<1>2. CASE UNCHANGED stop /\ ~End
  BY <1>2, TurnsBack, CompletedAtEnd DEF CancelInv
<1>3. CASE Request
  BY <1>3 DEF Request, CancelInv, Ahead, BeforeNotice, Typed, StopType
<1>4. CASE NoticeCancel
  BY <1>4 DEF NoticeCancel, CancelInv, Ahead, BeforeNotice, Typed, StopType
<1>5. CASE Cancel
  <2> DEFINE e == pc \in {"idle", "request"}
  <2>1. /\ stop' = [stop EXCEPT !.asked = TRUE, !.early = e]
        /\ pc \notin {"over", "done"} /\ pc' = pc /\ ~stop.asked /\ outcome' = outcome
    BY <1>5 DEF Cancel, Running
  <2>2. e = (pc \in Ahead)
    BY DEF Ahead
  <2>3. /\ stop'.asked /\ stop'.early = e
        /\ stop'.late = stop.late /\ stop'.notices = stop.notices
    BY <2>1 DEF Typed, StopType
  <2> HIDE DEF e
  <2>4. QED
    BY <2>1, <2>2, <2>3 DEF CancelInv
<1>6. QED
  BY <1>1, <1>2, <1>3, <1>4, <1>5, StopChanges

(* Whenever the user cancels, in the middle of whatever the provider and   *)
(* the tools are doing: only a request that was already being prepared     *)
(* goes out, the run says once that it was cancelled, and it does not end  *)
(* as completed.                                                           *)
THEOREM CancelIsSound == Spec => []CancelSound
<1>1. Init => CancelInv
  BY DEF Init, CancelInv, BeforeNotice, Ahead
<1>2. Typed /\ CancelInv /\ [Next]_vars => CancelInv'
  BY CancelStep
<1>3. CancelInv => CancelSound
  BY DEF CancelInv, CancelSound, CancelStops, CancelReported
<1>4. QED
  BY <1>1, <1>2, <1>3, AlwaysTyped, PTL DEF Spec

-----------------------------------------------------------------------------
(*                          No false success                               *)
(*                                                                         *)
(* NoFalseSuccess looks at a completed run.  It holds because a run knows  *)
(* of a change only if there was one - though a call that is answered from *)
(* the cache counts for the one it repeats - and because no turn after the *)
(* judgement unsays it.                                                    *)

Over == pc \in {"over", "done"}
Judged == Over \/ pc = "drain" \/ turn.kind = "queued"
Excused == ~opts.mutation \/ loop.mutated \/ loop.last.asks

MutationInv ==
  /\ loop.mutated => tools.world > 0
  /\ \A c \in DOMAIN tools.cache : c \in Writes => tools.world > 0
  /\ Judged => outcome = "error" \/ stop.asked \/ Excused
  /\ outcome = "completed" => Over /\ Excused

(* Answering a call changes the workspace before it claims so.             *)
LEMMA CallKeepsMutation ==
  ASSUME Typed, MutationInv, NEW c \in Calls,
         Skip(c) \/ Deny(c) \/ Refuse(c) \/ Replay(c) \/ Execute(c)
  PROVE  MutationInv'
<1>1. /\ UNCHANGED <<opts, pc, stop, outcome, turn.kind, loop.last>>
      /\ loop.mutated => loop'.mutated
  <2>1. PICK text, isError : Answered(text, isError)
    BY DEF Skip, Deny, Refuse, Replay, Execute, Invoked
  <2>2. QED
    BY <2>1 DEF Answered, Typed, LoopType, TurnType, TurnShape
<1>2. c = turn.calls[Len(turn.results) + 1]
  BY DEF Skip, Deny, Refuse, Replay, Execute, Executing
<1>3. CASE Skip(c) \/ Deny(c) \/ Refuse(c)
  <2>1. PICK text : Answered(text, TRUE)
    BY <1>3 DEF Skip, Deny, Refuse
  <2>2. loop' = loop
    BY <2>1 DEF Answered
  <2>3. tools'.cache = tools.cache /\ tools'.world = tools.world
    BY <1>3 DEF Skip, Deny, Refuse, Typed, ToolsShape
  <2>4. QED
    BY <1>1, <2>2, <2>3 DEF MutationInv, Judged, Over, Excused
<1>4. CASE Replay(c)
  <2>1. PICK text : Answered(text, FALSE)
    BY <1>4 DEF Replay
  <2>2. loop'.mutated => loop.mutated \/ c \in Writes
    BY <1>2, <2>1 DEF Answered
  <2>3. c \in DOMAIN tools.cache /\ tools'.cache = tools.cache /\ tools'.world = tools.world
    BY <1>4 DEF Replay, Typed, ToolsShape
  <2>4. QED
    BY <1>1, <2>2, <2>3 DEF MutationInv, Judged, Over, Excused
<1>5. CASE Execute(c)
  <2> DEFINE d == [k \in {c} \cup DOMAIN tools.cache |->
                    IF k = c THEN tools.world ELSE tools.cache[k]]
             w == IF c \in Writes THEN tools.world + 1 ELSE tools.world
  <2>1. CASE \E text : /\ Answered(text, FALSE)
                       /\ tools' = [tools EXCEPT !.cache = d, !.counts[c] = @ + 1, !.world = w]
    <3>1. loop'.mutated => loop.mutated \/ c \in Writes
      BY <1>2, <2>1 DEF Answered
    <3>2. DOMAIN d = {c} \cup DOMAIN tools.cache
      OBVIOUS
    <3>3. w \in Nat /\ w >= tools.world /\ (c \in Writes => w > 0)
      BY DEF Typed
    <3> HIDE DEF d, w
    <3>4. tools'.cache = d /\ tools'.world = w
      BY <2>1 DEF Typed, ToolsShape
    <3>5. QED
      BY <1>1, <3>1, <3>2, <3>3, <3>4 DEF MutationInv, Judged, Over, Excused, Typed
  <2>2. CASE \E text : /\ Answered(text, TRUE)
                       /\ tools' = [tools EXCEPT !.counts[c] = @ + 1]
    <3>1. loop' = loop
      BY <2>2 DEF Answered
    <3>2. tools'.cache = tools.cache /\ tools'.world = tools.world
      BY <2>2 DEF Typed, ToolsShape
    <3>3. QED
      BY <1>1, <3>1, <3>2 DEF MutationInv, Judged, Over, Excused
  <2>3. QED
    BY <1>5, <2>1, <2>2 DEF Execute, Invoked
<1>6. QED
  BY <1>3, <1>4, <1>5

LEMMA TextKeepsMutation ==
  ASSUME Typed, MutationInv, TextCall
  PROVE  MutationInv'
<1> DEFINE c == Head(turn.texts)
           w == IF c \in Writes THEN tools.world + 1 ELSE tools.world
<1>1. UNCHANGED <<opts, pc, stop, outcome>>
  BY DEF TextCall
<1>2. turn'.kind = turn.kind
  <2>1. \/ \E text : turn' = [turn EXCEPT !.calls = Append(@, c), !.texts = Tail(@),
                                          !.results = Append(@, text)]
        \/ turn' = [turn EXCEPT !.texts = <<>>]
    BY DEF TextCall
  <2>2. QED
    BY <2>1 DEF Typed, TurnType, TurnShape
<1>3. CASE UNCHANGED <<loop, tools>>
  BY <1>1, <1>2, <1>3 DEF MutationInv, Judged, Over, Excused
<1>4. CASE /\ loop' = [loop EXCEPT !.mutated = @ \/ c \in Writes]
           /\ tools' = [tools EXCEPT !.world = w]
  <2>1. w \in Nat /\ w >= tools.world /\ (c \in Writes => w > 0)
    BY DEF Typed
  <2> HIDE DEF c, w
  <2>2. tools'.cache = tools.cache /\ tools'.world = w
    BY <1>4 DEF Typed, ToolsShape
  <2>3. /\ loop'.last = loop.last
        /\ loop.mutated => loop'.mutated
        /\ loop'.mutated => loop.mutated \/ c \in Writes
    BY <1>4 DEF Typed, LoopType
  <2>4. QED
    BY <1>1, <1>2, <2>1, <2>2, <2>3 DEF MutationInv, Judged, Over, Excused, Typed
<1>5. QED
  BY <1>3, <1>4 DEF TextCall

(* The other steps leave the workspace and what is known of it alone.      *)
LEMMA MutationStep ==
  ASSUME Typed, MutationInv, [Next]_vars
  PROVE  MutationInv'
<1> DEFINE Kept == /\ UNCHANGED <<opts, tools, loop.mutated, loop.last, outcome>>
                   /\ stop.asked => stop'.asked
                   /\ (Judged' <=> Judged) /\ (Over => Over')
<1>1. ASSUME Kept
      PROVE  MutationInv'
  BY <1>1 DEF MutationInv, Excused
<1>2. CASE UNCHANGED <<opts, pc, turn, loop, tools, stop, outcome>>
  BY <1>1, <1>2 DEF Judged, Over
<1>3. CASE Provider
  <2>1. Kept
    BY <1>3 DEF Provider, NoticeCancel, ErrorDelta, StreamBreaks, TextLoops, FinishDelta,
                CallDelta, TextDelta, Streaming, Judged, Over, Typed, TurnType, TurnShape, StopType
  <2>2. QED
    BY <1>1, <2>1
<1>4. CASE \E c \in Calls : Skip(c) \/ Deny(c) \/ Refuse(c) \/ Replay(c) \/ Execute(c)
  BY <1>4, CallKeepsMutation
<1>5. CASE TextCall
  BY <1>5, TextKeepsMutation
<1>6. CASE Begin \/ Request \/ AfterNatives \/ AfterTexts \/ Seal
  <2>1. /\ UNCHANGED <<opts, tools, loop.mutated, loop.last, outcome>>
        /\ stop.asked => stop'.asked
    BY <1>6 DEF Begin, Request, AfterNatives, AfterTexts, Seal, Typed, LoopType, StopType
  <2>2. turn'.kind = turn.kind
    BY <1>6 DEF Begin, Request, AfterNatives, AfterTexts, Seal, Typed, TurnType, TurnShape
  <2>3. (Judged' <=> Judged) /\ (Over => Over')
    BY <1>6, <2>2 DEF Begin, Request, AfterNatives, AfterTexts, Seal, Judged, Over
  <2>4. QED
    BY <1>1, <2>1, <2>2, <2>3
<1>7. CASE NextTurn
  <2>1. /\ UNCHANGED <<opts, tools, stop, outcome>>
        /\ turn.kind # "queued" /\ pc = "ended" /\ pc' \in {"request", "closing"}
        /\ turn'.kind # "queued"
    BY <1>7 DEF NextTurn, LoopKinds, Turn
  <2>2. loop'.mutated = loop.mutated
    BY <1>7 DEF NextTurn, Typed, LoopType
  <2>3. ~Judged /\ ~Judged' /\ ~Over
    BY <2>1 DEF Judged, Over
  <2>4. QED
    BY <2>1, <2>2, <2>3 DEF MutationInv
<1>8. CASE AskFinalAnswer \/ FinalAnswerEnds
  <2>1. /\ UNCHANGED <<opts, tools, loop, stop, outcome>>
        /\ pc' \in {"request", "judge"} /\ pc \in {"closing", "ended"}
        /\ turn'.kind = "queued" => turn.kind = "queued"
    BY <1>8 DEF AskFinalAnswer, FinalAnswerEnds, Turn
  <2>2. CASE Judged \/ ~Judged'
    BY <2>1, <2>2 DEF MutationInv, Judged, Over, Excused
  <2>3. QED
    BY <2>1, <2>2 DEF Judged, Over
<1>9. CASE Judge
  BY <1>9 DEF Judge, MutationInv, Judged, Over, Excused
<1>10. CASE DrainPrompt \/ QueuedEnds \/ Detach
  <2>1. Kept
    BY <1>10 DEF DrainPrompt, QueuedEnds, Detach, Turn, Judged, Over, Typed, LoopType
  <2>2. QED
    BY <1>1, <2>1
<1>11. CASE End
  BY <1>11 DEF End, MutationInv, Judged, Over, Excused, Typed, StopType
<1>12. CASE Cancel
  <2>1. Kept
    BY <1>12 DEF Cancel, Judged, Over, Typed, StopType
  <2>2. QED
    BY <1>1, <2>1
<1>13. CASE Steer \/ EnqueuePrompt \/ Done \/ UNCHANGED vars
  BY <1>2, <1>13 DEF Steer, EnqueuePrompt, Done, vars
<1>14. QED
  BY <1>3, <1>4, <1>5, <1>6, <1>7, <1>8, <1>9, <1>10, <1>11, <1>12, <1>13
     DEF Next, Harness, User

(* A build that was to change the workspace is never reported as completed *)
(* when no tool changed anything, whatever the model claims, the tools     *)
(* answer and the cache replays - unless its last turn asked a question.   *)
THEOREM SuccessIsTrue == Spec => []NoFalseSuccess
<1>1. Init => MutationInv
  BY DEF Init, Turn, MutationInv, Judged, Over, Excused
<1>2. Typed /\ MutationInv /\ [Next]_vars => MutationInv'
  BY MutationStep
<1>3. MutationInv => NoFalseSuccess
  BY DEF MutationInv, NoFalseSuccess, Excused
<1>4. QED
  BY <1>1, <1>2, <1>3, AlwaysTyped, PTL DEF Spec

-----------------------------------------------------------------------------
(*                        A well-formed transcript                         *)
(*                                                                         *)
(* RequestWellFormed is about what a provider sees.  The transcript is so  *)
(* at every moment, because it only grows by whole blocks: an assistant    *)
(* with its calls and, right behind it, their results, in order.           *)

Message == [role : {"user", "assistant", "tool", "steer"}, ids : SUBSET Nat]

(* In m, the assistant at a has n calls, and they are answered.            *)
Block(m, a, n) ==
  /\ a \in 1 .. Len(m) /\ a + n <= Len(m)
  /\ m[a] = Msg("assistant", 1 .. n)
  /\ \A k \in 1 .. n : m[a + k] = Msg("tool", {k})

Paired(m) ==
  /\ m \in Seq(Message)
  /\ \A i \in 1 .. Len(m) : m[i].role = "assistant" => \E n \in Nat : Block(m, i, n)
  /\ \A i \in 1 .. Len(m) : m[i].role = "tool" =>
       \E a \in 1 .. (i - 1), n \in Nat : Block(m, a, n) /\ i - a <= n

(* Blocks stay whole under concatenation.                                  *)
LEMMA BlockLeft ==
  ASSUME NEW s \in Seq(Message), NEW t \in Seq(Message), NEW a \in Nat, NEW n \in Nat,
         Block(s, a, n)
  PROVE  Block(s \o t, a, n)
<1>1. /\ Len(s) \in Nat /\ Len(t) \in Nat
      /\ Len(s \o t) = Len(s) + Len(t)
      /\ \A i \in 1 .. Len(s) : (s \o t)[i] = s[i]
  BY ConcatProperties
<1>2. \A k \in 1 .. n : a + k \in 1 .. Len(s)
  BY <1>1 DEF Block
<1>3. QED
  BY <1>1, <1>2 DEF Block

LEMMA BlockRight ==
  ASSUME NEW s \in Seq(Message), NEW t \in Seq(Message), NEW a \in Nat, NEW n \in Nat,
         Block(t, a, n)
  PROVE  Block(s \o t, Len(s) + a, n)
<1>1. /\ Len(s) \in Nat /\ Len(t) \in Nat
      /\ Len(s \o t) = Len(s) + Len(t)
      /\ \A i \in 1 .. Len(t) : (s \o t)[Len(s) + i] = t[i]
  <2>1. /\ Len(s) \in Nat /\ Len(t) \in Nat
        /\ Len(s \o t) = Len(s) + Len(t)
        /\ \A i \in 1 .. Len(s) + Len(t) :
             (s \o t)[i] = IF i <= Len(s) THEN s[i] ELSE t[i - Len(s)]
    BY ConcatProperties
  <2>2. QED
    BY <2>1
<1>2. \A k \in 1 .. n : a + k \in 1 .. Len(t) /\ (Len(s) + a) + k = Len(s) + (a + k)
  BY <1>1 DEF Block
<1>3. QED
  BY <1>1, <1>2 DEF Block

LEMMA PairedConcat ==
  ASSUME NEW s, NEW t, Paired(s), Paired(t)
  PROVE  Paired(s \o t)
<1>1. s \in Seq(Message) /\ t \in Seq(Message)
  BY DEF Paired
<1>2. /\ Len(s) \in Nat /\ Len(t) \in Nat
      /\ s \o t \in Seq(Message)
      /\ Len(s \o t) = Len(s) + Len(t)
      /\ \A i \in 1 .. Len(s) + Len(t) :
           (s \o t)[i] = IF i <= Len(s) THEN s[i] ELSE t[i - Len(s)]
  BY <1>1, ConcatProperties
<1>3. ASSUME NEW i \in 1 .. Len(s \o t), (s \o t)[i].role = "assistant"
      PROVE  \E n \in Nat : Block(s \o t, i, n)
  <2>1. CASE i <= Len(s)
    <3>1. PICK n \in Nat : Block(s, i, n)
      BY <1>2, <1>3, <2>1 DEF Paired
    <3>2. QED
      BY <1>1, <1>2, <2>1, <3>1, BlockLeft
  <2>2. CASE i > Len(s)
    <3> DEFINE j == i - Len(s)
    <3>1. j \in 1 .. Len(t) /\ t[j].role = "assistant" /\ i = Len(s) + j /\ j \in Nat
      BY <1>2, <1>3, <2>2
    <3>2. PICK n \in Nat : Block(t, j, n)
      BY <3>1 DEF Paired
    <3>3. QED
      BY <1>1, <3>1, <3>2, BlockRight
  <2>3. QED
    BY <1>2, <2>1, <2>2
<1>4. ASSUME NEW i \in 1 .. Len(s \o t), (s \o t)[i].role = "tool"
      PROVE  \E a \in 1 .. (i - 1), n \in Nat : Block(s \o t, a, n) /\ i - a <= n
  <2>1. CASE i <= Len(s)
    <3>1. i \in 1 .. Len(s) /\ s[i].role = "tool"
      BY <1>2, <1>4, <2>1
    <3>2. PICK a \in 1 .. (i - 1), n \in Nat : Block(s, a, n) /\ i - a <= n
      BY <3>1 DEF Paired
    <3>3. Block(s \o t, a, n)
      BY <1>1, <3>2, BlockLeft
    <3>4. QED
      BY <3>2, <3>3
  <2>2. CASE i > Len(s)
    <3> DEFINE j == i - Len(s)
    <3>1. j \in 1 .. Len(t) /\ t[j].role = "tool" /\ i = Len(s) + j /\ j \in Nat
      BY <1>2, <1>4, <2>2
    <3>2. PICK a \in 1 .. (j - 1), n \in Nat : Block(t, a, n) /\ j - a <= n
      BY <3>1 DEF Paired
    <3>3. Block(s \o t, Len(s) + a, n)
      BY <1>1, <3>2, BlockRight
    <3>4. Len(s) + a \in 1 .. (i - 1) /\ i - (Len(s) + a) <= n
      BY <1>2, <3>1, <3>2
    <3>5. QED
      BY <3>3, <3>4
  <2>3. i <= Len(s) \/ i > Len(s)
    BY <1>2
  <2>4. QED
    BY <2>1, <2>2, <2>3
<1>5. QED
  BY <1>2, <1>3, <1>4 DEF Paired

LEMMA PairedEmpty == Paired(<<>>)
  BY DEF Paired

(* A message that neither calls nor answers.                               *)
LEMMA PairedPlain ==
  ASSUME NEW msg \in {UserMsg, Msg("steer", {})}
  PROVE  Paired(<<msg>>)
<1>1. msg \in Message /\ msg.role \notin {"assistant", "tool"}
  BY DEF UserMsg, Msg, Message
<1>2. <<msg>> \in Seq(Message) /\ Len(<<msg>>) = 1 /\ <<msg>>[1] = msg
  BY <1>1
<1>3. QED
  BY <1>1, <1>2 DEF Paired

LEMMA PairedUser ==
  ASSUME NEW m, Paired(m)
  PROVE  Paired(Append(m, UserMsg))
<1>1. Append(m, UserMsg) = m \o <<UserMsg>>
  <2>1. m \in Seq(Message) /\ UserMsg \in Message
    BY DEF Paired, UserMsg, Msg, Message
  <2>2. QED
    BY <2>1
<1>2. QED
  BY <1>1, PairedPlain, PairedConcat

(* An assistant with n calls and their n results is a block.               *)
LEMMA PairedBlock ==
  ASSUME NEW n \in Nat
  PROVE  Paired(<<Msg("assistant", 1 .. n)>> \o [k \in 1 .. n |-> Msg("tool", {k})])
<1> DEFINE h == <<Msg("assistant", 1 .. n)>>
           r == [k \in 1 .. n |-> Msg("tool", {k})]
           b == h \o r
<1>1. h \in Seq(Message) /\ Len(h) = 1 /\ h[1] = Msg("assistant", 1 .. n)
  <2>1. Msg("assistant", 1 .. n) \in Message
    BY DEF Msg, Message
  <2>2. QED
    BY <2>1
<1>2. r \in Seq(Message) /\ Len(r) = n /\ \A k \in 1 .. n : r[k] = Msg("tool", {k})
  <2>1. \A k \in 1 .. n : Msg("tool", {k}) \in Message
    BY DEF Msg, Message
  <2>2. QED
    BY <2>1
<1> HIDE DEF h, r
<1>3. /\ b \in Seq(Message) /\ Len(b) = n + 1
      /\ b[1] = Msg("assistant", 1 .. n)
      /\ \A k \in 1 .. n : b[1 + k] = Msg("tool", {k})
  <2>1. /\ b \in Seq(Message) /\ Len(b) = Len(h) + Len(r)
        /\ \A i \in 1 .. Len(h) + Len(r) :
             b[i] = IF i <= Len(h) THEN h[i] ELSE r[i - Len(h)]
    BY <1>1, <1>2, ConcatProperties
  <2>2. QED
    BY <1>1, <1>2, <2>1
<1> HIDE DEF b
<1>4. Block(b, 1, n)
  BY <1>3 DEF Block
<1>5. \A i \in 1 .. Len(b) : i = 1 \/ (i - 1 \in 1 .. n /\ b[i].role = "tool")
  <2>1. ASSUME NEW i \in 1 .. Len(b), i # 1
        PROVE  i - 1 \in 1 .. n /\ b[i].role = "tool"
    <3>1. i - 1 \in 1 .. n /\ i = 1 + (i - 1)
      BY <1>3, <2>1
    <3>2. b[i] = Msg("tool", {i - 1})
      BY <1>3, <3>1
    <3>3. QED
      BY <3>1, <3>2 DEF Msg
  <2>2. QED
    BY <2>1
<1>6. b[1].role = "assistant"
  BY <1>3 DEF Msg
<1>7. Paired(b)
  BY <1>3, <1>4, <1>5, <1>6 DEF Paired
<1>8. QED
  BY <1>7 DEF b, h, r

(* What a provider is to see, of any transcript made of blocks.            *)
LEMMA PairedAnswers ==
  ASSUME Paired(msgs)
  PROVE  RequestWellFormed
<1>1. Len(msgs) \in Nat /\ DOMAIN msgs = 1 .. Len(msgs)
  BY DEF Paired
<1>2. ASSUME NEW i \in 1 .. Len(msgs), NEW n \in Nat, Block(msgs, i, n)
      PROVE  /\ msgs[i].role = "assistant" /\ msgs[i].ids = 1 .. n
             /\ Cardinality(msgs[i].ids) = n
  <2>1. msgs[i].role = "assistant" /\ msgs[i].ids = 1 .. n
    BY <1>2 DEF Block, Msg
  <2>2. Cardinality(1 .. n) = n
    BY FS_Interval
  <2>3. QED
    BY <2>1, <2>2
<1>3. ASSUME NEW i \in 1 .. Len(msgs), msgs[i].role = "assistant"
      PROVE  Answers(i)
  <2>1. PICK n \in Nat : Block(msgs, i, n)
    BY <1>3 DEF Paired
  <2>2. \A k \in 1 .. n : msgs[i + k] = Msg("tool", {k})
    BY <2>1 DEF Block
  <2>3. ASSUME NEW k \in 1 .. n
        PROVE  msgs[i + k].role = "tool" /\ msgs[i + k].ids = {k}
    <3>1. msgs[i + k] = [role |-> "tool", ids |-> {k}]
      BY <2>2 DEF Msg
    <3>2. QED
      BY <3>1
  <2>4. UNION {msgs[i + k].ids : k \in 1 .. n} = 1 .. n
    <3>1. {msgs[i + k].ids : k \in 1 .. n} = {{k} : k \in 1 .. n}
      BY <2>3
    <3>2. QED
      BY <3>1
  <2>5. QED
    BY <1>2, <2>1, <2>3, <2>4 DEF Answers, Block
<1>4. ASSUME NEW i \in 1 .. Len(msgs), msgs[i].role = "tool"
      PROVE  \E a \in 1 .. (i - 1) :
               msgs[a].role = "assistant" /\ i - a <= Cardinality(msgs[a].ids)
  <2>1. PICK a \in 1 .. (i - 1), n \in Nat : Block(msgs, a, n) /\ i - a <= n
    BY <1>4 DEF Paired
  <2>2. a \in 1 .. Len(msgs)
    BY <2>1 DEF Block
  <2>3. QED
    BY <1>2, <2>1, <2>2
<1>5. QED
  BY <1>1, <1>3, <1>4 DEF RequestWellFormed

(* The results of a turn never outrun its calls, and when it is sealed     *)
(* every call has its result.                                              *)
IsSeq(s) == \E S : s \in Seq(S)

ResultsInv ==
  /\ IsSeq(turn.calls) /\ IsSeq(turn.results)
  /\ pc \in {"idle", "request", "stream"} => turn.results = <<>>
  /\ pc = "exec" => Len(turn.results) <= Len(turn.calls)
  /\ pc \in {"text", "seal"} => Len(turn.results) = Len(turn.calls)

LEMMA Longer ==
  ASSUME NEW s, IsSeq(s), NEW e
  PROVE  IsSeq(Append(s, e)) /\ Len(Append(s, e)) = Len(s) + 1 /\ Len(s) \in Nat
<1>1. PICK S : s \in Seq(S)
  BY DEF IsSeq
<1>2. s \in Seq(S \cup {e})
  BY <1>1
<1>3. Append(s, e) \in Seq(S \cup {e}) /\ Len(Append(s, e)) = Len(s) + 1 /\ Len(s) \in Nat
  BY <1>2
<1>4. QED
  BY <1>3 DEF IsSeq

LEMMA FreshTurn ==
  ASSUME NEW k
  PROVE  /\ IsSeq(Turn(k).calls) /\ IsSeq(Turn(k).results)
         /\ Turn(k).results = <<>>
<1>1. Turn(k).calls = <<>> /\ Turn(k).results = <<>>
  BY DEF Turn
<1>2. IsSeq(<<>>)
  <2>1. <<>> \in Seq({})
    OBVIOUS
  <2>2. QED
    BY <2>1 DEF IsSeq
<1>3. QED
  BY <1>1, <1>2

LEMMA ResultsStep ==
  ASSUME Typed, ResultsInv, [Next]_vars
  PROVE  ResultsInv'
<1>0. Len(<<>>) = 0 /\ Len(turn.calls) \in Nat /\ Len(turn.results) \in Nat
  BY Longer DEF ResultsInv
<1>1. CASE UNCHANGED <<pc, turn>>
  BY <1>1 DEF ResultsInv, IsSeq
<1>2. ASSUME NEW c, CallDelta(c)
      PROVE  ResultsInv'
  <2>1. turn'.calls = Append(turn.calls, c) /\ turn'.results = turn.results
    BY <1>2 DEF CallDelta, Typed, TurnType, TurnShape
  <2>2. pc = "stream" /\ pc' = pc
    BY <1>2 DEF CallDelta, Streaming
  <2>3. QED
    BY <2>1, <2>2, Longer DEF ResultsInv
<1>3. ASSUME UNCHANGED <<turn.calls, turn.results>>, pc = "stream",
             pc' \in {"stream", "exec", "ended"}
      PROVE  ResultsInv'
  BY <1>0, <1>3 DEF ResultsInv
<1>4. CASE \E c \in Calls : TextDelta(c)
  BY <1>3, <1>4 DEF TextDelta, Streaming, Typed, TurnType, TurnShape
<1>5. CASE NoticeCancel \/ ErrorDelta \/ StreamBreaks \/ TextLoops \/ FinishDelta
  BY <1>3, <1>5 DEF NoticeCancel, ErrorDelta, StreamBreaks, TextLoops, FinishDelta,
                    Streaming, Typed, TurnType, TurnShape
<1>6. CASE \E c \in Calls : Skip(c) \/ Deny(c) \/ Refuse(c) \/ Replay(c) \/ Execute(c)
  <2>1. PICK text, isError : Answered(text, isError)
    BY <1>6 DEF Skip, Deny, Refuse, Replay, Execute, Invoked
  <2>2. pc = "exec" /\ Len(turn.results) < Len(turn.calls)
    BY <1>6 DEF Skip, Deny, Refuse, Replay, Execute, Executing
  <2>3. turn'.calls = turn.calls /\ turn'.results = Append(turn.results, text) /\ pc' = pc
    BY <2>1 DEF Answered, Typed, TurnType, TurnShape
  <2>4. QED
    BY <1>0, <2>2, <2>3, Longer DEF ResultsInv
<1>7. CASE AfterNatives
  <2>1. turn'.calls = turn.calls /\ turn'.results = turn.results
    BY <1>7 DEF AfterNatives, Typed, TurnType, TurnShape
  <2>2. pc' \in {"text", "seal"} /\ Len(turn.results) = Len(turn.calls)
    BY <1>7 DEF AfterNatives
  <2>3. QED
    BY <2>1, <2>2 DEF ResultsInv
<1>8. CASE TextCall
  <2>1. /\ pc = "text" /\ pc' = pc
        /\ \/ \E text : turn' = [turn EXCEPT !.calls = Append(@, Head(turn.texts)),
                                             !.texts = Tail(@), !.results = Append(@, text)]
           \/ turn' = [turn EXCEPT !.texts = <<>>]
    BY <1>8 DEF TextCall
  <2>2. ASSUME NEW text, turn' = [turn EXCEPT !.calls = Append(@, Head(turn.texts)),
                                             !.texts = Tail(@), !.results = Append(@, text)]
        PROVE  ResultsInv'
    <3>1. /\ turn'.calls = Append(turn.calls, Head(turn.texts))
          /\ turn'.results = Append(turn.results, text)
      BY <2>2 DEF Typed, TurnType, TurnShape
    <3>2. /\ IsSeq(turn'.calls) /\ IsSeq(turn'.results)
          /\ Len(turn'.calls) = Len(turn.calls) + 1
          /\ Len(turn'.results) = Len(turn.results) + 1
      BY <3>1, Longer DEF ResultsInv
    <3>3. QED
      BY <2>1, <3>2 DEF ResultsInv
  <2>3. CASE turn' = [turn EXCEPT !.texts = <<>>]
    <3>1. UNCHANGED <<turn.calls, turn.results>>
      BY <2>3 DEF Typed, TurnType, TurnShape
    <3>2. QED
      BY <2>1, <3>1 DEF ResultsInv
  <2>4. QED
    BY <2>1, <2>2, <2>3
<1>9. CASE AfterTexts \/ Seal
  <2>1. UNCHANGED <<turn.calls, turn.results>>
    BY <1>9 DEF AfterTexts, Seal, Typed, TurnType, TurnShape
  <2>2. QED
    BY <1>9, <2>1 DEF AfterTexts, Seal, ResultsInv
<1>10. ASSUME NEW k, turn' = Turn(k), pc' = "request"
       PROVE  ResultsInv'
  BY <1>10, FreshTurn DEF ResultsInv
<1>11. ASSUME turn' = turn, pc' \in {"ended", "closing", "judge", "drain", "over", "done"}
       PROVE  ResultsInv'
  BY <1>11 DEF ResultsInv
<1>12. CASE NextTurn \/ AskFinalAnswer \/ DrainPrompt
  BY <1>10, <1>11, <1>12 DEF NextTurn, AskFinalAnswer, DrainPrompt
<1>13. CASE FinalAnswerEnds \/ Judge \/ QueuedEnds \/ End \/ Detach
  BY <1>11, <1>13 DEF FinalAnswerEnds, Judge, QueuedEnds, End, Detach
<1>14. CASE Begin \/ Request
  BY <1>14 DEF Begin, Request, ResultsInv
<1>15. CASE User \/ Done \/ UNCHANGED vars
  BY <1>1, <1>15 DEF User, Cancel, Steer, EnqueuePrompt, Done, vars
<1>16. QED
  BY <1>2, <1>4, <1>5, <1>6, <1>7, <1>8, <1>9, <1>12, <1>13, <1>14, <1>15
     DEF Next, Provider, Harness

(* What a turn leaves behind when it is sealed.                            *)
LEMMA TranscriptPaired ==
  ASSUME ResultsInv, pc = "seal"
  PROVE  Paired(Transcript)
<1>1. /\ IsSeq(turn.calls) /\ IsSeq(turn.results)
      /\ Len(turn.results) = Len(turn.calls)
  BY DEF ResultsInv
<1>2. PICK n \in Nat : DOMAIN turn.calls = 1 .. n /\ DOMAIN turn.results = 1 .. n
  <2>1. PICK S, T : turn.calls \in Seq(S) /\ turn.results \in Seq(T)
    BY <1>1 DEF IsSeq
  <2>2. QED
    BY <1>1, <2>1
<1>3. Paired(<<Assistant>> \o Results)
  BY <1>2, PairedBlock DEF Assistant, Results
<1>4. Paired(Steering) /\ Paired(Guidance)
  BY PairedEmpty, PairedPlain DEF Steering, Guidance
<1>5. /\ Steering \in Seq(Message) /\ Guidance \in Seq(Message)
      /\ <<Assistant>> \in Seq(Message) /\ Results \in Seq(Message)
  <2>1. Assistant \in Message /\ \A k \in 1 .. n : Msg("tool", {k}) \in Message
    BY <1>2 DEF Assistant, Msg, Message
  <2>2. QED
    BY <1>2, <1>4, <2>1 DEF Paired, Results
<1>6. (Steering \o <<Assistant>>) \o Results = Steering \o (<<Assistant>> \o Results)
  BY <1>5, ConcatAssociative
<1>7. QED
  BY <1>3, <1>4, <1>6, PairedConcat DEF Transcript

LEMMA PairedStep ==
  ASSUME ResultsInv, Paired(msgs), [Next]_vars
  PROVE  Paired(msgs')
<1>1. CASE UNCHANGED msgs
  BY <1>1
<1>2. CASE Request
  BY <1>2, PairedEmpty DEF Request
<1>3. CASE TextLoops
  <2>1. Paired(<<Msg("assistant", {}), UserMsg>>)
    <3>1. <<Msg("assistant", {}), UserMsg>> =
            (<<Msg("assistant", 1 .. 0)>> \o [k \in 1 .. 0 |-> Msg("tool", {k})]) \o <<UserMsg>>
      <4>1. 1 .. 0 = {} /\ [k \in 1 .. 0 |-> Msg("tool", {k})] = <<>>
        OBVIOUS
      <4>2. Msg("assistant", {}) \in Message /\ UserMsg \in Message
        BY DEF Msg, UserMsg, Message
      <4>3. QED
        BY <4>1, <4>2
    <3>2. QED
      BY <3>1, PairedBlock, PairedPlain, PairedConcat
  <2>2. QED
    BY <1>3, <2>1, PairedConcat DEF TextLoops
<1>4. CASE Seal
  BY <1>4, TranscriptPaired, PairedConcat DEF Seal
<1>5. CASE NextTurn
  <2>1. PICK a, b \in {<<>>, <<UserMsg>>} : msgs' = (msgs \o a) \o b
    BY <1>5 DEF NextTurn
  <2>2. QED
    BY <2>1, PairedEmpty, PairedPlain, PairedConcat
<1>6. CASE AskFinalAnswer \/ DrainPrompt
  BY <1>6, PairedUser DEF AskFinalAnswer, DrainPrompt
<1>7. CASE NoticeCancel \/ ErrorDelta \/ StreamBreaks \/ FinishDelta
           \/ \E c \in Calls : CallDelta(c) \/ TextDelta(c)
  BY <1>1, <1>7 DEF NoticeCancel, ErrorDelta, StreamBreaks, FinishDelta, CallDelta, TextDelta
<1>8. CASE \E c \in Calls : Skip(c) \/ Deny(c) \/ Refuse(c) \/ Replay(c) \/ Execute(c)
  BY <1>1, <1>8 DEF Skip, Deny, Refuse, Replay, Execute, Invoked, Answered
<1>9. CASE Begin \/ AfterNatives \/ TextCall \/ AfterTexts \/ FinalAnswerEnds \/ Judge
           \/ QueuedEnds \/ End \/ Detach
  BY <1>1, <1>9 DEF Begin, AfterNatives, TextCall, AfterTexts, FinalAnswerEnds, Judge,
                    QueuedEnds, End, Detach
<1>10. CASE User \/ Done \/ UNCHANGED vars
  BY <1>1, <1>10 DEF User, Cancel, Steer, EnqueuePrompt, Done, vars
<1>11. QED
  BY <1>2, <1>3, <1>4, <1>5, <1>6, <1>7, <1>8, <1>9, <1>10 DEF Next, Provider, Harness

(* No provider ever sees a call without its result or a result without its *)
(* call, however many calls a turn makes, as text or not, whatever became  *)
(* of them, and whenever the user steers.                                  *)
THEOREM TranscriptsWellFormed == Spec => []RequestWellFormed
<1>1. Init => ResultsInv /\ Paired(msgs)
  <2> SUFFICES ASSUME Init PROVE ResultsInv /\ Paired(msgs)
    OBVIOUS
  <2>1. ResultsInv
    BY FreshTurn DEF Init, ResultsInv
  <2>2. Paired(msgs)
    BY PairedPlain DEF Init
  <2>3. QED
    BY <2>1, <2>2
<1>2. Typed /\ ResultsInv /\ [Next]_vars => ResultsInv'
  BY ResultsStep
<1>3. ResultsInv /\ Paired(msgs) /\ [Next]_vars => Paired(msgs)'
  BY PairedStep
<1>4. Paired(msgs) => RequestWellFormed
  BY PairedAnswers
<1>5. QED
  BY <1>1, <1>2, <1>3, <1>4, AlwaysTyped, PTL DEF Spec

-----------------------------------------------------------------------------
(*                     What a completed run leaves                         *)
(*                                                                         *)
(* ResultsRead speaks of a completed run.  ChunkInv follows the extensions *)
(* of the soft budget, which either reach the hard cap or stay ahead of    *)
(* the turns, so that a loop that was cut short hit the hard cap; ReadInv  *)
(* follows the results no request has carried from the sealed turn to the  *)
(* end of the run.                                                         *)

CutShort == loop.last.finish = "tool_calls" /\ Roomy

ChunkInv ==
  /\ loop.recoveries <= opts.recoveries /\ loop.extensions <= opts.extensions
  /\ loop.turns <= loop.soft + loop.recoveries
  /\ opts.soft <= loop.soft
  /\ loop.soft >= opts.hard \/ loop.soft >= opts.soft * (loop.extensions + 1)
  /\ turn.kind = "initial" => loop.turns = 0

ReadInv ==
  /\ outcome = "completed" => Over /\ ~stop.asked
  /\ pc = "closing" /\ ~stop.asked /\ CutShort => HitHardCap
  /\ pc \in {"exec", "text", "seal"} => turn.kind # "final"
  /\ pc \in {"stream", "exec", "text", "seal"} => ~Unread
  /\ pc = "ended" /\ Unread =>
       turn.kind # "final" /\ (turn.finish = "tool_calls" \/ Guarded)
  /\ pc = "closing" /\ Unread => loop.last.finish = "tool_calls" \/ Guarded
  /\ pc \in {"judge", "drain", "over", "done"} /\ Unread =>
       turn.kind = "queued" \/ Guarded \/ stop.asked \/ ~Roomy

Tally == <<loop.turns, loop.soft, loop.extensions, loop.recoveries, loop.drained,
           loop.requests, loop.last>>

(* A step within a turn, or one of the user's.                             *)
Aside ==
  /\ UNCHANGED <<opts, turn.kind, Tally, outcome>>
  /\ pc' = pc \/ (pc \in InFlight /\ pc' \in InFlight)
  /\ stop.asked => stop'.asked

Passing == Begin \/ Request \/ NextTurn \/ AskFinalAnswer \/ FinalAnswerEnds \/ Judge
             \/ DrainPrompt \/ QueuedEnds \/ End \/ Detach

LEMMA StepKinds ==
  ASSUME Typed, [Next]_vars
  PROVE  Aside \/ Passing
<1>1. CASE UNCHANGED <<opts, pc, turn, loop, outcome>> /\ (stop.asked => stop'.asked)
  BY <1>1 DEF Aside, Tally
<1>2. CASE Provider
  BY <1>2 DEF Provider, NoticeCancel, ErrorDelta, StreamBreaks, TextLoops, FinishDelta,
              CallDelta, TextDelta, Streaming, Aside, Tally, InFlight, Typed, TurnType,
              TurnShape, StopType
<1>3. CASE \E c \in Calls : Skip(c) \/ Deny(c) \/ Refuse(c) \/ Replay(c) \/ Execute(c)
  <2>1. PICK text, isError : Answered(text, isError)
    BY <1>3 DEF Skip, Deny, Refuse, Replay, Execute, Invoked
  <2>2. QED
    BY <2>1 DEF Answered, Aside, Tally, Typed, LoopType, TurnType, TurnShape
<1>4. CASE AfterNatives
  BY <1>4 DEF AfterNatives, Aside, Tally, InFlight, Typed, LoopType, TurnType, TurnShape
<1>5. CASE AfterTexts \/ Seal
  BY <1>5 DEF AfterTexts, Seal, Aside, Tally, InFlight, Typed, TurnType, TurnShape
<1>6. CASE TextCall
  <2>1. /\ UNCHANGED <<opts, pc, outcome, stop>>
        /\ \/ UNCHANGED loop
           \/ loop' = [loop EXCEPT !.mutated = @ \/ Head(turn.texts) \in Writes]
        /\ \/ \E text : turn' = [turn EXCEPT !.calls = Append(@, Head(turn.texts)),
                                          !.texts = Tail(@), !.results = Append(@, text)]
           \/ turn' = [turn EXCEPT !.texts = <<>>]
    BY <1>6 DEF TextCall
  <2>2. QED
    BY <2>1 DEF Aside, Tally, Typed, LoopType, TurnType, TurnShape
<1>7. CASE User \/ Done \/ UNCHANGED vars
  BY <1>1, <1>7 DEF User, Cancel, Steer, EnqueuePrompt, Done, vars, Typed, StopType
<1>8. QED
  BY <1>2, <1>3, <1>4, <1>5, <1>6, <1>7 DEF Passing, Next, Harness

(* What a turn that ends leaves in the counters.                           *)
LEMMA NextTurnCounts ==
  ASSUME Typed, NextTurn
  PROVE  \E recovers \in BOOLEAN :
           /\ recovers => Stalled
           /\ loop'.recoveries = loop.recoveries + (IF recovers THEN 1 ELSE 0)
           /\ loop'.extensions = loop.extensions + (IF Extends THEN 1 ELSE 0)
           /\ loop'.turns = loop.turns + (IF Again(recovers) THEN 1 ELSE 0)
           /\ loop'.soft = SoftCap
           /\ loop'.drained = loop.drained /\ loop'.requests = loop.requests
           /\ loop'.last.finish = turn.finish
           /\ IF Again(recovers) THEN pc' = "request" /\ turn'.kind = "loop"
                                 ELSE pc' = "closing" /\ turn' = turn
<1>1. PICK recovers \in BOOLEAN :
        /\ recovers => Stalled
        /\ loop' = [loop EXCEPT !.recoveries = IF recovers THEN @ + 1 ELSE @,
                                !.extensions = IF Extends THEN @ + 1 ELSE @,
                                !.soft = SoftCap,
                                !.turns = IF Again(recovers) THEN @ + 1 ELSE @,
                                !.last = [finish |-> turn.finish, asks |-> turn.asks]]
        /\ IF Again(recovers) THEN pc' = "request" /\ turn' = Turn("loop")
                              ELSE pc' = "closing" /\ turn' = turn
  BY DEF NextTurn
<1>2. /\ loop'.recoveries = IF recovers THEN loop.recoveries + 1 ELSE loop.recoveries
      /\ loop'.extensions = IF Extends THEN loop.extensions + 1 ELSE loop.extensions
      /\ loop'.turns = IF Again(recovers) THEN loop.turns + 1 ELSE loop.turns
      /\ loop'.soft = SoftCap
      /\ loop'.drained = loop.drained /\ loop'.requests = loop.requests
      /\ loop'.last = [finish |-> turn.finish, asks |-> turn.asks]
  BY <1>1 DEF Typed, LoopType
<1>3. /\ loop.recoveries \in Nat /\ loop.extensions \in Nat /\ loop.turns \in Nat
      /\ loop'.last.finish = turn.finish
  BY <1>2 DEF Typed, LoopType
<1>4. Turn("loop").kind = "loop"
  BY DEF Turn
<1>5. QED
  BY <1>1, <1>2, <1>3, <1>4

LEMMA MoreOptionFacts ==
  ASSUME opts \in Options
  PROVE  opts.extensions \in Nat /\ opts.recoveries \in Nat
  BY OptionsAssumption

LEMMA ChunkStep ==
  ASSUME Typed, ChunkInv, [Next]_vars
  PROVE  ChunkInv'
<1>1. CASE UNCHANGED <<opts, loop.turns, loop.soft, loop.extensions, loop.recoveries>>
           /\ (turn'.kind = turn.kind \/ turn'.kind \in {"final", "queued"})
  BY <1>1 DEF ChunkInv
<1>2. CASE Aside
  BY <1>1, <1>2 DEF Aside, Tally
<1>3. CASE Begin \/ Request \/ FinalAnswerEnds \/ Judge \/ QueuedEnds \/ End \/ Detach
  BY <1>1, <1>3 DEF Begin, Request, FinalAnswerEnds, Judge, QueuedEnds, End, Detach,
                    Typed, LoopType
<1>4. CASE AskFinalAnswer \/ DrainPrompt
  BY <1>1, <1>4 DEF AskFinalAnswer, DrainPrompt, Turn
<1>5. CASE NextTurn
  <2>1. PICK recovers \in BOOLEAN :
          /\ recovers => Stalled
          /\ loop'.recoveries = loop.recoveries + (IF recovers THEN 1 ELSE 0)
          /\ loop'.extensions = loop.extensions + (IF Extends THEN 1 ELSE 0)
          /\ loop'.turns = loop.turns + (IF Again(recovers) THEN 1 ELSE 0)
          /\ loop'.soft = SoftCap
          /\ IF Again(recovers) THEN turn'.kind = "loop" ELSE turn' = turn
    BY <1>5, NextTurnCounts
  <2>2. /\ loop.recoveries \in Nat /\ loop.extensions \in Nat /\ loop.turns \in Nat
        /\ loop.soft \in Nat /\ opts' = opts
        /\ opts.soft \in Nat /\ opts.hard \in Nat
        /\ opts.extensions \in Nat /\ opts.recoveries \in Nat
    BY <1>5, OptionFacts, MoreOptionFacts DEF Typed, LoopType, NextTurn
  <2>3. loop'.recoveries <= opts.recoveries
    BY <2>1, <2>2 DEF Stalled, ChunkInv
  <2>4. loop'.extensions <= opts.extensions
    BY <2>1, <2>2 DEF Extends, ChunkInv
  <2>5. loop.soft <= SoftCap \/ (Extends /\ SoftCap = opts.hard)
    BY <2>2 DEF SoftCap
  <2>6. opts.soft <= SoftCap
    BY <2>2, OptionFacts DEF SoftCap, ChunkInv, Typed
  <2>7. loop'.turns <= loop'.soft + loop'.recoveries
    <3>1. CASE Again(recovers)
      <4>1. loop.turns < SoftCap \/ recovers
        BY <3>1 DEF Again
      <4>2. loop.turns < opts.hard
        BY <3>1 DEF Again
      <4>3. SoftCap \in Nat
        BY <2>2 DEF SoftCap
      <4>4. QED
        BY <2>1, <2>2, <2>5, <4>1, <4>2, <4>3, <3>1 DEF ChunkInv
    <3>2. CASE ~Again(recovers)
      <4>1. Extends => loop.turns < opts.hard
        BY DEF Extends
      <4>2. SoftCap \in Nat
        BY <2>2 DEF SoftCap
      <4>3. QED
        BY <2>1, <2>2, <2>5, <3>2, <4>1, <4>2 DEF ChunkInv
    <3>3. QED
      BY <3>1, <3>2
  <2>8. loop'.soft >= opts.hard \/ loop'.soft >= opts.soft * (loop'.extensions + 1)
    <3>1. CASE ~Extends
      BY <2>1, <2>2, <3>1 DEF SoftCap, ChunkInv
    <3>2. CASE Extends
      <4>1. SoftCap = opts.hard \/ SoftCap = loop.soft + opts.soft
        BY <3>2 DEF SoftCap
      <4>2. CASE SoftCap = opts.hard
        BY <2>1, <2>2, <4>2
      <4>3. CASE SoftCap = loop.soft + opts.soft
        <5>1. opts.soft * (loop'.extensions + 1) = opts.soft * (loop.extensions + 1) + opts.soft
          BY <2>1, <2>2, <3>2
        <5>2. opts.soft * (loop.extensions + 1) \in Nat
          BY <2>2
        <5>3. QED
          BY <2>1, <2>2, <4>3, <5>1, <5>2 DEF ChunkInv
      <4>4. QED
        BY <4>1, <4>2, <4>3
    <3>3. QED
      BY <3>1, <3>2
  <2>9. turn'.kind = "initial" => loop'.turns = 0
    BY <2>1, <2>2 DEF ChunkInv
  <2>10. QED
    BY <2>1, <2>2, <2>3, <2>4, <2>6, <2>7, <2>8, <2>9 DEF ChunkInv
<1>6. QED
  BY <1>2, <1>3, <1>4, <1>5, StepKinds DEF Passing

(* A loop that still wants its tools and was not stopped has used up the   *)
(* hard cap, not merely the soft budget of a chunk.                        *)
LEMMA ClosesAtCap ==
  ASSUME Typed, ChunkInv, ChunkInv', NextTurn, pc' = "closing", ~stop.asked, CutShort'
  PROVE  HitHardCap'
<1>1. PICK recovers \in BOOLEAN :
        /\ recovers => Stalled
        /\ loop'.recoveries = loop.recoveries + (IF recovers THEN 1 ELSE 0)
        /\ loop'.extensions = loop.extensions + (IF Extends THEN 1 ELSE 0)
        /\ loop'.turns = loop.turns + (IF Again(recovers) THEN 1 ELSE 0)
        /\ loop'.soft = SoftCap
        /\ loop'.last.finish = turn.finish
        /\ IF Again(recovers) THEN pc' = "request" ELSE TRUE
  BY NextTurnCounts
<1>2. /\ loop.recoveries \in Nat /\ loop.extensions \in Nat /\ loop.turns \in Nat
      /\ loop.soft \in Nat /\ opts' = opts
      /\ opts.soft \in Nat /\ opts.hard \in Nat
      /\ opts.extensions \in Nat /\ opts.recoveries \in Nat
      /\ turn.kind \in LoopKinds
  BY OptionFacts, MoreOptionFacts DEF Typed, LoopType, NextTurn
<1>3. /\ turn.finish = "tool_calls" /\ ~Again(recovers) /\ ~recovers
      /\ loop'.turns = loop.turns
  BY <1>1, <1>2 DEF CutShort, Stalled
<1>4. loop.turns >= opts.hard \/ loop.turns >= SoftCap
  <2>1. SoftCap \in Nat
    BY <1>2 DEF SoftCap
  <2>2. QED
    BY <1>2, <1>3, <2>1 DEF Again
<1>5. CASE loop.turns >= opts.hard
  BY <1>2, <1>3, <1>5 DEF HitHardCap
<1>6. CASE loop.turns < opts.hard /\ loop.turns >= SoftCap
  <2>1. opts.soft > opts.recoveries /\ opts.soft * (opts.extensions + 1) >= opts.hard
    BY <1>2 DEF CutShort, Roomy
  <2>2. ~Extends
    <3>1. ASSUME Extends PROVE FALSE
      <4>1. SoftCap = opts.hard \/ SoftCap = loop.soft + opts.soft
        BY <3>1 DEF SoftCap
      <4>2. loop.turns <= loop.soft + loop.recoveries /\ loop.recoveries <= opts.recoveries
        BY DEF ChunkInv
      <4>3. QED
        BY <1>2, <1>6, <2>1, <4>1, <4>2
    <3>2. QED
      BY <3>1
  <2>3. SoftCap = loop.soft
    BY <2>2 DEF SoftCap
  <2>4. turn.kind = "loop"
    <3>1. ASSUME turn.kind = "initial" PROVE FALSE
      BY <1>2, <1>6, <2>1, <2>3, <3>1 DEF ChunkInv
    <3>2. QED
      BY <1>2, <3>1 DEF LoopKinds
  <2>5. loop.extensions >= opts.extensions
    BY <1>2, <1>3, <1>6, <2>2, <2>3, <2>4 DEF Extends
  <2>6. loop.soft >= opts.hard
    <3>1. loop.extensions = opts.extensions
      BY <1>2, <2>5 DEF ChunkInv
    <3>2. QED
      BY <1>2, <2>1, <3>1 DEF ChunkInv
  <2>7. QED
    BY <1>1, <1>2, <1>3, <1>6, <2>3, <2>6 DEF HitHardCap
<1>7. QED
  BY <1>2, <1>4, <1>5, <1>6

(* Which messages a step adds.                                             *)
LEMMA UnreadConcat ==
  ASSUME NEW m \in Seq(Message), NEW t \in Seq(Message),
         \A i \in DOMAIN t : t[i].role # "tool"
  PROVE  (\E i \in DOMAIN (m \o t) : (m \o t)[i].role = "tool")
           => \E i \in DOMAIN m : m[i].role = "tool"
<1>1. /\ Len(m) \in Nat /\ Len(t) \in Nat /\ Len(m \o t) = Len(m) + Len(t)
      /\ DOMAIN m = 1 .. Len(m) /\ DOMAIN t = 1 .. Len(t)
      /\ DOMAIN (m \o t) = 1 .. Len(m) + Len(t)
      /\ \A i \in 1 .. Len(m) + Len(t) :
           (m \o t)[i] = IF i <= Len(m) THEN m[i] ELSE t[i - Len(m)]
  BY ConcatProperties
<1>2. ASSUME NEW i \in DOMAIN (m \o t), (m \o t)[i].role = "tool"
      PROVE  i \in DOMAIN m /\ m[i].role = "tool"
  <2>1. CASE i <= Len(m)
    BY <1>1, <1>2, <2>1
  <2>2. CASE i > Len(m)
    <3>1. i - Len(m) \in DOMAIN t /\ (m \o t)[i] = t[i - Len(m)]
      BY <1>1, <2>2
    <3>2. QED
      BY <1>2, <3>1
  <2>3. QED
    BY <1>1, <2>1, <2>2
<1>3. QED
  BY <1>2

(* A message that is not a tool's leaves what was read, read.              *)
LEMMA PlainTail ==
  ASSUME NEW t \in {<<>>, <<UserMsg>>, <<Msg("assistant", {}), UserMsg>>}
  PROVE  t \in Seq(Message) /\ \A i \in DOMAIN t : t[i].role # "tool"
<1>1. UserMsg \in Message /\ UserMsg.role = "user"
  BY DEF UserMsg, Msg, Message
<1>2. Msg("assistant", {}) \in Message /\ Msg("assistant", {}).role = "assistant"
  BY DEF Msg, Message
<1>3. CASE t = <<>>
  BY <1>3
<1>4. CASE t = <<UserMsg>>
  BY <1>1, <1>4
<1>5. CASE t = <<Msg("assistant", {}), UserMsg>>
  BY <1>1, <1>2, <1>5
<1>6. QED
  BY <1>3, <1>4, <1>5

(* A turn that is sealed with results wants them read, unless the guard    *)
(* ended it.                                                               *)
LEMMA SealedResults ==
  ASSUME Typed, ResultsInv, Paired(msgs), Seal, ~Unread, Unread'
  PROVE  turn'.finish = "tool_calls" \/ Guarded'
<1>1. pc = "seal" /\ msgs' = msgs \o Transcript /\ guard' = GuardAfter /\ opts' = opts
  BY DEF Seal
<1>2. CASE turn.results = <<>>
  <2>1. Results = <<>>
    BY <1>2 DEF Results
  <2>2. /\ Steering \in Seq(Message) /\ Guidance \in Seq(Message)
        /\ \A i \in DOMAIN Steering : Steering[i].role # "tool"
        /\ \A i \in DOMAIN Guidance : Guidance[i].role # "tool"
    <3>1. Msg("steer", {}) \in Message /\ Msg("steer", {}).role = "steer"
      BY DEF Msg, Message
    <3>2. UserMsg \in Message /\ UserMsg.role = "user"
      BY DEF UserMsg, Msg, Message
    <3>3. QED
      BY <3>1, <3>2 DEF Steering, Guidance
  <2>3. PICK n \in Nat : DOMAIN turn.calls = 1 .. n
    <3>1. PICK S : turn.calls \in Seq(S)
      BY DEF ResultsInv, IsSeq
    <3>2. QED
      BY <3>1
  <2>4. Assistant \in Message /\ Assistant.role = "assistant"
    BY <2>3 DEF Assistant, Msg, Message
  <2>5. /\ <<Assistant>> \in Seq(Message)
        /\ \A i \in DOMAIN <<Assistant>> : <<Assistant>>[i].role # "tool"
    BY <2>4
  <2>6. Transcript = ((Steering \o <<Assistant>>) \o <<>>) \o Guidance
    BY <2>1 DEF Transcript
  <2>7. PICK a, b : a = msgs \o Steering /\ b = a \o <<Assistant>>
    OBVIOUS
  <2>8. msgs \in Seq(Message) /\ a \in Seq(Message) /\ b \in Seq(Message)
    BY <2>2, <2>5, <2>7, ConcatProperties DEF Paired
  <2>9. msgs' = b \o Guidance
    <3>1. (Steering \o <<Assistant>>) \o <<>> = Steering \o <<Assistant>>
      <4>1. Steering \o <<Assistant>> \in Seq(Message)
        BY <2>2, <2>5, ConcatProperties
      <4>2. QED
        BY <4>1, ConcatEmptySeq
    <3>2. Steering \o <<Assistant>> \in Seq(Message)
      BY <2>2, <2>5, ConcatProperties
    <3>3. msgs \o ((Steering \o <<Assistant>>) \o Guidance) = (msgs \o (Steering \o <<Assistant>>)) \o Guidance
      BY <2>2, <2>8, <3>2, ConcatAssociative
    <3>4. msgs \o (Steering \o <<Assistant>>) = (msgs \o Steering) \o <<Assistant>>
      BY <2>2, <2>5, <2>8, ConcatAssociative
    <3>5. QED
      BY <1>1, <2>6, <2>7, <3>1, <3>3, <3>4
  <2>10. ~\E i \in DOMAIN a : a[i].role = "tool"
    BY <2>2, <2>7, <2>8, UnreadConcat DEF Unread
  <2>11. ~\E i \in DOMAIN b : b[i].role = "tool"
    BY <2>5, <2>7, <2>8, <2>10, UnreadConcat
  <2>12. ~\E i \in DOMAIN msgs' : msgs'[i].role = "tool"
    BY <2>2, <2>8, <2>9, <2>11, UnreadConcat
  <2>13. QED
    BY <2>12 DEF Unread
<1>3. CASE turn.results # <<>> /\ Aborts
  BY <1>1, <1>3 DEF Aborts, Guarded
<1>4. CASE turn.results # <<>> /\ ~Aborts
  <2>1. turn'.finish = FinishOf
    BY <1>4 DEF Seal, Typed, TurnType, TurnShape
  <2>2. QED
    BY <1>4, <2>1 DEF FinishOf
<1>5. QED
  BY <1>2, <1>3, <1>4

(* A step that leaves the transcript, the guard and the end alone.         *)
Apart ==
  /\ UNCHANGED <<opts, pc, msgs, guard, loop.turns, loop.soft, loop.last, outcome,
                 turn.kind, turn.finish>>
  /\ stop.asked => stop'.asked
  /\ outcome = "completed" => stop'.asked = stop.asked

LEMMA ReadStep ==
  ASSUME Typed, CountInv, ChunkInv, ChunkInv', ResultsInv, Paired(msgs), ReadInv, [Next]_vars
  PROVE  ReadInv'
<1> USE DEF Over
<1>0. pc \in Places /\ turn.kind \in Kinds /\ msgs \in Seq(Message)
  BY DEF Typed, TurnType, Paired
<1>1. CASE Apart
  <2>1. /\ CutShort' = CutShort /\ HitHardCap' = HitHardCap
        /\ Unread' = Unread /\ Guarded' = Guarded /\ Roomy' = Roomy
    BY <1>1 DEF Apart, CutShort, Roomy, HitHardCap, Unread, Guarded
  <2>2. QED
    BY <1>1, <2>1 DEF Apart, ReadInv
<1>2. CASE Begin
  BY <1>2 DEF Begin, ReadInv
<1>3. CASE Request
  <2>1. ~Unread' /\ pc' = "stream" /\ outcome' = outcome /\ pc = "request"
    BY <1>3 DEF Request, Unread
  <2>2. QED
    BY <2>1 DEF ReadInv
<1>4. ASSUME NEW c \in Calls, CallDelta(c) \/ TextDelta(c)
      PROVE  Apart
  BY <1>4 DEF CallDelta, TextDelta, Streaming, Apart, Typed, TurnType, TurnShape
<1>5. CASE ErrorDelta
  BY <1>1, <1>5 DEF ErrorDelta, Streaming, Apart, Typed, TurnType, TurnShape
<1>6. CASE NoticeCancel \/ StreamBreaks
  <2>1. Unread' = Unread /\ pc = "stream" /\ pc' = "ended" /\ outcome' = outcome
    BY <1>6 DEF NoticeCancel, StreamBreaks, Unread
  <2>2. QED
    BY <2>1 DEF ReadInv
<1>7. CASE TextLoops
  <2>1. pc = "stream" /\ pc' = "ended" /\ outcome' = outcome
    BY <1>7 DEF TextLoops, Streaming
  <2>2. msgs' = msgs \o <<Msg("assistant", {}), UserMsg>>
    BY <1>7 DEF TextLoops
  <2>3. PICK t : t = <<Msg("assistant", {}), UserMsg>>
    OBVIOUS
  <2>4. t \in Seq(Message) /\ \A i \in DOMAIN t : t[i].role # "tool"
    BY <2>3, PlainTail
  <2>5. Unread' => Unread
    BY <1>0, <2>2, <2>3, <2>4, UnreadConcat DEF Unread
  <2>6. QED
    BY <2>1, <2>5 DEF ReadInv
<1>8. CASE FinishDelta
  <2>1. /\ Unread' = Unread /\ pc = "stream" /\ outcome' = outcome
        /\ turn'.kind = turn.kind
        /\ pc' = IF turn.kind = "final" THEN "ended" ELSE "exec"
    BY <1>8 DEF FinishDelta, Streaming, Unread, Typed, TurnType, TurnShape
  <2>2. QED
    BY <2>1 DEF ReadInv
<1>9. CASE \E c \in Calls : Skip(c) \/ Deny(c) \/ Refuse(c) \/ Replay(c) \/ Execute(c)
  <2>1. PICK text, isError : Answered(text, isError)
    BY <1>9 DEF Skip, Deny, Refuse, Replay, Execute, Invoked
  <2>2. Apart
    BY <2>1 DEF Answered, Apart, Typed, LoopType, TurnType, TurnShape
  <2>3. QED
    BY <1>1, <2>2
<1>10. CASE AfterNatives \/ TextCall \/ AfterTexts
  <2>1. Unread' = Unread /\ outcome' = outcome
    BY <1>10 DEF AfterNatives, TextCall, AfterTexts, Unread
  <2>2. pc \in {"exec", "text"} /\ pc' \in {"text", "seal"}
    BY <1>10 DEF AfterNatives, TextCall, AfterTexts
  <2>3. turn'.kind = turn.kind
    BY <1>10 DEF AfterNatives, TextCall, AfterTexts, Typed, TurnType, TurnShape
  <2>4. QED
    BY <2>1, <2>2, <2>3 DEF ReadInv
<1>11. CASE Seal
  <2>1. /\ pc = "seal" /\ pc' = "ended" /\ outcome' = outcome /\ turn'.kind = turn.kind
    BY <1>11 DEF Seal, Typed, TurnType, TurnShape
  <2>2. ~Unread /\ turn.kind # "final"
    BY <2>1 DEF ReadInv
  <2>3. Unread' => turn'.finish = "tool_calls" \/ Guarded'
    BY <1>11, <2>2, SealedResults
  <2>4. QED
    BY <2>1, <2>2, <2>3 DEF ReadInv
<1>12. CASE NextTurn
  <2>1. PICK recovers \in BOOLEAN :
           /\ loop'.last.finish = turn.finish
           /\ IF Again(recovers) THEN pc' = "request" /\ turn'.kind = "loop"
                                 ELSE pc' = "closing" /\ turn' = turn
    BY <1>12, NextTurnCounts
  <2>2. /\ pc = "ended" /\ outcome' = outcome /\ stop' = stop /\ guard' = guard /\ opts' = opts
    BY <1>12 DEF NextTurn
  <2>3. CASE pc' = "request"
    BY <2>2, <2>3 DEF ReadInv
  <2>4. CASE pc' = "closing"
    <3>1. ~stop.asked /\ CutShort' => HitHardCap'
      BY <1>12, <2>4, ClosesAtCap
    <3>2. Unread' => Unread
      <4>1. PICK a, b \in {<<>>, <<UserMsg>>} : msgs' = (msgs \o a) \o b
        BY <1>12 DEF NextTurn
      <4>2. a \in Seq(Message) /\ \A i \in DOMAIN a : a[i].role # "tool"
        BY PlainTail
      <4>3. b \in Seq(Message) /\ \A i \in DOMAIN b : b[i].role # "tool"
        BY PlainTail
      <4>4. PICK d : d = msgs \o a
        OBVIOUS
      <4>5. d \in Seq(Message)
        BY <1>0, <4>2, <4>4, ConcatProperties
      <4>6. (\E i \in DOMAIN d : d[i].role = "tool") => Unread
        BY <1>0, <4>2, <4>4, UnreadConcat DEF Unread
      <4>7. Unread' => \E i \in DOMAIN d : d[i].role = "tool"
        BY <4>1, <4>3, <4>4, <4>5, UnreadConcat DEF Unread
      <4>8. QED
        BY <4>6, <4>7
    <3>3. Guarded' = Guarded
      BY <2>2 DEF Guarded
    <3>4. QED
      BY <2>1, <2>2, <2>4, <3>1, <3>2, <3>3 DEF ReadInv
  <2>5. QED
    BY <2>1, <2>3, <2>4
<1>13. CASE AskFinalAnswer
  <2>1. /\ pc = "closing" /\ UNCHANGED <<opts, loop, guard, stop, outcome>>
    BY <1>13 DEF AskFinalAnswer
  <2>2. CASE pc' = "request"
    BY <2>1, <2>2 DEF ReadInv
  <2>3. CASE /\ pc' = "judge" /\ UNCHANGED <<turn, msgs>>
             /\ ~(~stop.asked /\ loop.last.finish = "tool_calls" /\ HitHardCap)
    <3>1. Unread' = Unread /\ Guarded' = Guarded /\ Roomy' = Roomy
      BY <2>1, <2>3 DEF Unread, Guarded, Roomy
    <3>2. Unread /\ ~Guarded /\ ~stop.asked => ~Roomy
      BY <2>1, <2>3 DEF ReadInv, CutShort
    <3>3. QED
      BY <2>1, <2>3, <3>1, <3>2 DEF ReadInv
  <2>4. QED
    BY <1>13, <2>2, <2>3 DEF AskFinalAnswer
<1>14. CASE FinalAnswerEnds \/ Judge \/ QueuedEnds \/ End \/ Detach
  <2>1. /\ UNCHANGED <<opts, msgs, guard, turn>> /\ stop'.asked = stop.asked
        /\ pc' \in {"judge", "drain", "over", "done"}
        /\ \/ pc \in {"judge", "drain", "over"}
           \/ pc = "ended" /\ turn.kind \in {"final", "queued"}
    BY <1>14 DEF FinalAnswerEnds, Judge, QueuedEnds, End, Detach, Typed, StopType
  <2>2. Unread' = Unread /\ Guarded' = Guarded /\ Roomy' = Roomy
    BY <2>1 DEF Unread, Guarded, Roomy
  <2>3. outcome' = "completed" => pc' \in {"over", "done"} /\ ~stop'.asked
    BY <1>14, <2>1 DEF FinalAnswerEnds, Judge, QueuedEnds, End, Detach, ReadInv
  <2>4. QED
    BY <2>1, <2>2, <2>3 DEF ReadInv
<1>15. CASE DrainPrompt
  BY <1>15 DEF DrainPrompt, ReadInv
<1>16. CASE Steer \/ EnqueuePrompt \/ Done \/ UNCHANGED vars
  BY <1>1, <1>16 DEF Steer, EnqueuePrompt, Done, vars, Apart
<1>17. CASE Cancel
  BY <1>1, <1>17 DEF Cancel, Running, Apart, ReadInv, Typed, StopType
<1>18. QED
  BY <1>1, <1>2, <1>3, <1>4, <1>5, <1>6, <1>7, <1>8, <1>9, <1>10, <1>11, <1>12, <1>13,
     <1>14, <1>15, <1>16, <1>17 DEF Next, Provider, Harness, User

(* Where a steer can be before the host takes its leave.                   *)
SteerInv ==
  /\ \A i \in DOMAIN steers :
       steers[i] \in {"queued", "injected", "seen", "follow-up", "lost"}
  /\ pc # "done" => \A i \in DOMAIN steers : steers[i] \in {"queued", "injected", "seen"}
  /\ SteersKept

LEMMA SteerStep ==
  ASSUME Typed, SteerInv, [Next]_vars
  PROVE  SteerInv'
<1>1. ASSUME UNCHANGED steers, pc' # "done" \/ (pc' = pc /\ opts' = opts), pc = "done" => pc' = "done"
      PROVE  SteerInv'
  BY <1>1 DEF SteerInv, SteersKept
<1>2. CASE Provider
  BY <1>1, <1>2 DEF Provider, NoticeCancel, ErrorDelta, StreamBreaks, TextLoops, FinishDelta,
                    CallDelta, TextDelta, Streaming
<1>3. CASE \E c \in Calls : Skip(c) \/ Deny(c) \/ Refuse(c) \/ Replay(c) \/ Execute(c)
  BY <1>1, <1>3 DEF Skip, Deny, Refuse, Replay, Execute, Invoked, Answered, Executing
<1>4. CASE Begin \/ AfterNatives \/ TextCall \/ AfterTexts \/ NextTurn \/ AskFinalAnswer
           \/ FinalAnswerEnds \/ Judge \/ DrainPrompt \/ QueuedEnds \/ End
  BY <1>1, <1>4 DEF Begin, AfterNatives, TextCall, AfterTexts, NextTurn, AskFinalAnswer,
                    FinalAnswerEnds, Judge, DrainPrompt, QueuedEnds, End
<1>5. CASE Cancel \/ EnqueuePrompt \/ Done \/ UNCHANGED vars
  BY <1>1, <1>5 DEF Cancel, EnqueuePrompt, Done, vars, Running
<1>6. CASE Request
  BY <1>6 DEF Request, SteerInv, SteersKept
<1>7. CASE Seal
  BY <1>7 DEF Seal, SteerInv, SteersKept
<1>8. CASE Steer
  <2>1. steers' = <<"queued">> /\ pc' = pc /\ pc # "done"
    BY <1>8 DEF Steer
  <2>2. QED
    BY <2>1 DEF SteerInv, SteersKept
<1>9. CASE Detach
  BY <1>9 DEF Detach, SteerInv, SteersKept
<1>10. QED
  BY <1>2, <1>3, <1>4, <1>5, <1>6, <1>7, <1>8, <1>9 DEF Next, Harness, User

(* A completed run leaves no result of its loop unread, unless the guard   *)
(* ended the turn: if the extensions reach the hard cap and make up for    *)
(* the turns of the recoveries, what is left unread belongs to a queued    *)
(* prompt.  And no steer is left in the queue of a run whose host carries  *)
(* the user's controls itself.                                             *)
THEOREM LeftTidy == Spec => []LeavesTidy
<1>1. Init => CountInv /\ ChunkInv /\ ResultsInv /\ Paired(msgs) /\ ReadInv /\ SteerInv
  <2> SUFFICES ASSUME Init
               PROVE  CountInv /\ ChunkInv /\ ResultsInv /\ Paired(msgs) /\ ReadInv /\ SteerInv
    OBVIOUS
  <2>1. /\ opts.soft \in Nat /\ opts.hard \in Nat /\ opts.queued \in Nat
        /\ opts.soft <= opts.hard /\ opts.extensions \in Nat /\ opts.recoveries \in Nat
    BY OptionFacts, MoreOptionFacts DEF Init
  <2>2. turn.kind = "initial"
    BY DEF Init, Turn
  <2>3. CountInv
    BY <2>1, <2>2 DEF Init, CountInv, Extra, QueuedTurn, InFlight, LoopKinds
  <2>4. ChunkInv
    BY <2>1, <2>2 DEF Init, ChunkInv
  <2>5. ReadInv
    BY DEF Init, ReadInv
  <2>6. SteerInv
    BY DEF Init, SteerInv, SteersKept
  <2>7. ResultsInv
    BY FreshTurn DEF Init, ResultsInv
  <2>8. Paired(msgs)
    BY PairedPlain DEF Init
  <2>9. QED
    BY <2>3, <2>4, <2>5, <2>6, <2>7, <2>8
<1>2. Typed /\ CountInv /\ ChunkInv /\ ResultsInv /\ Paired(msgs) /\ ReadInv /\ SteerInv /\ [Next]_vars
      =>
        /\ CountInv' /\ ChunkInv' /\ ResultsInv' /\ Paired(msgs)' /\ ReadInv' /\ SteerInv'
  <2> SUFFICES ASSUME Typed, CountInv, ChunkInv, ResultsInv, Paired(msgs), ReadInv, SteerInv,
                      [Next]_vars
               PROVE  /\ CountInv' /\ ChunkInv' /\ ResultsInv' /\ Paired(msgs)'
                      /\ ReadInv' /\ SteerInv'
    OBVIOUS
  <2>1. CountInv'
    BY CountStep
  <2>2. ChunkInv'
    BY ChunkStep
  <2>3. ResultsInv'
    BY ResultsStep
  <2>4. Paired(msgs)'
    BY PairedStep
  <2>5. ReadInv'
    BY <2>2, ReadStep
  <2>6. SteerInv'
    BY SteerStep
  <2>7. QED
    BY <2>1, <2>2, <2>3, <2>4, <2>5, <2>6
<1>3. ReadInv /\ SteerInv => LeavesTidy
  BY DEF ReadInv, Over, SteerInv, LeavesTidy, ResultsRead
<1>4. QED
  BY <1>1, <1>2, <1>3, AlwaysTyped, PTL DEF Spec

-----------------------------------------------------------------------------
(*                        The whole of the state                           *)

PartsTyped ==
  /\ turn.calls \in Seq(Calls) /\ turn.texts \in Seq(Calls) /\ turn.failed \in BOOLEAN
  /\ tools.counts \in [Calls -> Nat]
  /\ guard.calls \subseteq Calls /\ guard.stalled \in Nat
  /\ prompts \in Nat
  /\ outcome \in {"none", "completed", "cancelled", "error"}

(* The elements of a sequence that are not in T, picked one after another. *)
LEMMA SelectionTyped ==
  ASSUME NEW S, NEW s \in Seq(S), NEW T, NEW kept,
         kept = CHOOSE g : g = [k \in 0 .. Len(s) |->
                  IF k = 0 THEN <<>>
                  ELSE IF s[k] \in T THEN g[k - 1] ELSE Append(g[k - 1], s[k])]
  PROVE  kept[Len(s)] \in Seq(S)
<1>1. PICK n \in Nat : n = Len(s)
  OBVIOUS
<1>2. PICK V : V = Seq(S)
  OBVIOUS
<1>3. PICK step : step = [k \in Nat |-> [v \in V |->
             IF k \notin 1 .. n \/ s[k] \in T THEN v ELSE Append(v, s[k])]]
  OBVIOUS
<1>4. Steps(step, V)
  <2>1. ASSUME NEW k \in Nat, NEW v \in V, k \in 1 .. n
        PROVE  Append(v, s[k]) \in V
    BY <1>1, <1>2, <2>1
  <2>2. QED
    BY <1>3, <2>1 DEF Steps
<1>5. <<>> \in V
  BY <1>2
<1>6. PICK f : Stepwise(f, V, <<>>, step, n)
  BY <1>4, <1>5, StepwiseExists
<1>7. \A k \in 1 .. n : f[k] = IF s[k] \in T THEN f[k - 1] ELSE Append(f[k - 1], s[k])
  <2> SUFFICES ASSUME NEW k \in 1 .. n
               PROVE  f[k] = IF s[k] \in T THEN f[k - 1] ELSE Append(f[k - 1], s[k])
    OBVIOUS
  <2>1. k \in Nat /\ f[k - 1] \in V
    BY <1>6 DEF Stepwise
  <2>2. f[k] = step[k][f[k - 1]]
    BY <1>6 DEF Stepwise
  <2>3. QED
    BY <1>3, <2>1, <2>2
<1>8. f = [k \in 0 .. n |->
             IF k = 0 THEN <<>>
             ELSE IF s[k] \in T THEN f[k - 1] ELSE Append(f[k - 1], s[k])]
  <2>1. \A k \in 0 .. n : f[k] = IF k = 0 THEN <<>>
             ELSE IF s[k] \in T THEN f[k - 1] ELSE Append(f[k - 1], s[k])
    <3>1. f[0] = <<>> /\ \A k \in 0 .. n : k # 0 => k \in 1 .. n
      BY <1>6 DEF Stepwise
    <3>2. QED
      BY <1>7, <3>1
  <2>2. f = [k \in 0 .. n |-> f[k]]
    BY <1>6 DEF Stepwise
  <2>3. QED
    BY <2>1, <2>2
<1>9. kept = [k \in 0 .. n |->
             IF k = 0 THEN <<>>
             ELSE IF s[k] \in T THEN kept[k - 1] ELSE Append(kept[k - 1], s[k])]
  BY <1>1, <1>8
<1> DEFINE I == {k \in Nat : k \in 0 .. n => kept[k] \in V}
<1>10. 0 \in I
  BY <1>5, <1>9
<1>11. ASSUME NEW k \in Nat, k \in I
       PROVE  k + 1 \in I
  <2>1. ASSUME k + 1 \in 0 .. n
        PROVE  kept[k + 1] \in V
    <3>1. kept[k] \in V /\ s[k + 1] \in S /\ k + 1 # 0 /\ (k + 1) - 1 = k
      BY <1>1, <1>11, <2>1
    <3>2. kept[k + 1] = IF s[k + 1] \in T THEN kept[k] ELSE Append(kept[k], s[k + 1])
      <4>1. k + 1 \in 0 .. n /\ k + 1 # 0
        BY <2>1, <3>1
      <4>2. kept[k + 1] = IF k + 1 = 0 THEN <<>>
              ELSE IF s[k + 1] \in T THEN kept[(k + 1) - 1] ELSE Append(kept[(k + 1) - 1], s[k + 1])
        BY <1>9, <4>1
      <4>3. QED
        BY <3>1, <4>2
    <3>3. QED
      <4>1. Append(kept[k], s[k + 1]) \in Seq(S)
        BY <1>2, <3>1
      <4>2. QED
        BY <1>2, <3>1, <3>2, <4>1
  <2>2. QED
    BY <2>1
<1> HIDE DEF I
<1>12. n \in I
  BY <1>10, <1>11, InductionOnSets
<1>13. QED
  BY <1>1, <1>2, <1>12 DEF I

(* The calls a text names and the natives do not are calls.                *)
LEMMA TextToolsTyped ==
  ASSUME turn.texts \in Seq(Calls)
  PROVE  TextTools \in Seq(Calls)
<1> DEFINE kept == CHOOSE g : g = [k \in 0 .. Len(turn.texts) |->
                     IF k = 0 THEN <<>>
                     ELSE IF turn.texts[k] \in Range(turn.calls) THEN g[k - 1]
                          ELSE Append(g[k - 1], turn.texts[k])]
<1>1. TextTools = kept[Len(turn.texts)]
  BY DEF TextTools
<1>2. QED
  BY <1>1, SelectionTyped

LEMMA PartsStep ==
  ASSUME Typed, PartsTyped, [Next]_vars
  PROVE  PartsTyped'
<1>1. CASE UNCHANGED <<turn.calls, turn.texts, turn.failed, tools.counts, guard.calls,
                       guard.stalled, prompts, outcome>>
  BY <1>1 DEF PartsTyped
<1>2. ASSUME NEW c \in Calls, CallDelta(c)
      PROVE  PartsTyped'
  <2>1. /\ turn'.calls = Append(turn.calls, c)
        /\ UNCHANGED <<turn.texts, turn.failed, tools, guard, prompts, outcome>>
    BY <1>2 DEF CallDelta, Typed, TurnType, TurnShape
  <2>2. Append(turn.calls, c) \in Seq(Calls)
    BY DEF PartsTyped
  <2>3. QED
    BY <2>1, <2>2 DEF PartsTyped
<1>3. ASSUME NEW c \in Calls, TextDelta(c)
      PROVE  PartsTyped'
  <2>1. /\ turn'.texts = Append(turn.texts, c)
        /\ UNCHANGED <<turn.calls, turn.failed, tools, guard, prompts, outcome>>
    BY <1>3 DEF TextDelta, Typed, TurnType, TurnShape
  <2>2. Append(turn.texts, c) \in Seq(Calls)
    BY DEF PartsTyped
  <2>3. QED
    BY <2>1, <2>2 DEF PartsTyped
<1>4. CASE ErrorDelta
  BY <1>4 DEF ErrorDelta, Typed, TurnType, TurnShape, PartsTyped
<1>5. CASE StreamBreaks
  <2>1. PICK b \in BOOLEAN : turn' = [turn EXCEPT !.failed = b]
    <3>1. PICK thrown \in BOOLEAN : turn' = [turn EXCEPT !.failed = turn.failed \/ thrown]
      BY <1>5 DEF StreamBreaks
    <3>2. (turn.failed \/ thrown) \in BOOLEAN
      OBVIOUS
    <3>3. QED
      BY <3>1, <3>2
  <2>2. /\ turn'.failed = b /\ UNCHANGED <<turn.calls, turn.texts>>
        /\ UNCHANGED <<tools, guard, prompts, outcome>>
    BY <1>5, <2>1 DEF StreamBreaks, Typed, TurnType, TurnShape
  <2>3. QED
    BY <2>2 DEF PartsTyped
<1>6. CASE FinishDelta
  BY <1>1, <1>6 DEF FinishDelta, Typed, TurnType, TurnShape
<1>7. ASSUME NEW c \in Calls, Skip(c) \/ Deny(c) \/ Refuse(c) \/ Replay(c) \/ Execute(c)
      PROVE  PartsTyped'
  <2>1. PICK text, isError : Answered(text, isError)
    BY <1>7 DEF Skip, Deny, Refuse, Replay, Execute, Invoked
  <2>2. UNCHANGED <<turn.calls, turn.texts, turn.failed, guard, prompts, outcome>>
    BY <2>1 DEF Answered, Typed, TurnType, TurnShape
  <2>3. UNCHANGED tools \/ tools'.counts = [tools.counts EXCEPT ![c] = @ + 1]
    BY <1>7 DEF Skip, Deny, Refuse, Replay, Execute, Invoked, Typed, ToolsShape
  <2>4. tools'.counts \in [Calls -> Nat]
    <3>1. CASE UNCHANGED tools
      BY <3>1 DEF PartsTyped
    <3>2. CASE tools'.counts = [tools.counts EXCEPT ![c] = @ + 1]
      <4>1. PICK m \in Nat : m = tools.counts[c] + 1
        BY DEF PartsTyped
      <4>2. tools'.counts = [tools.counts EXCEPT ![c] = m]
        BY <3>2, <4>1
      <4>3. QED
        BY <4>2 DEF PartsTyped
    <3>3. QED
      BY <2>3, <3>1, <3>2
  <2>5. QED
    BY <2>2, <2>4 DEF PartsTyped
<1>8. CASE AfterNatives
  <2>1. /\ UNCHANGED <<turn.calls, turn.failed>>
        /\ turn'.texts = TextTools \/ turn'.texts = <<>>
        /\ UNCHANGED <<tools, guard, prompts, outcome>>
    BY <1>8 DEF AfterNatives, Typed, TurnType, TurnShape
  <2>2. turn'.texts \in Seq(Calls)
    <3>1. CASE turn'.texts = <<>>
      BY <3>1
    <3>2. CASE turn'.texts = TextTools
      BY <3>2, TextToolsTyped DEF PartsTyped
    <3>3. QED
      BY <2>1, <3>1, <3>2
  <2>3. QED
    BY <2>1, <2>2 DEF PartsTyped
<1>9. CASE TextCall
  <2>1. /\ turn.texts # <<>> /\ UNCHANGED <<guard, prompts, outcome>>
        /\ \/ UNCHANGED tools
           \/ tools' = [tools EXCEPT !.world = IF Head(turn.texts) \in Writes THEN @ + 1 ELSE @]
        /\ \/ \E text : turn' = [turn EXCEPT !.calls = Append(@, Head(turn.texts)),
                                             !.texts = Tail(@), !.results = Append(@, text)]
           \/ turn' = [turn EXCEPT !.texts = <<>>]
    BY <1>9 DEF TextCall
  <2>2. tools'.counts = tools.counts
    BY <2>1 DEF Typed, ToolsShape
  <2>3. /\ turn'.failed = turn.failed
        /\ \/ turn'.calls = Append(turn.calls, Head(turn.texts)) /\ turn'.texts = Tail(turn.texts)
           \/ turn'.calls = turn.calls /\ turn'.texts = <<>>
    BY <2>1 DEF Typed, TurnType, TurnShape
  <2>4. turn'.calls \in Seq(Calls) /\ turn'.texts \in Seq(Calls)
    <3>1. Head(turn.texts) \in Calls /\ Tail(turn.texts) \in Seq(Calls)
      BY <2>1, HeadTailProperties DEF PartsTyped
    <3>2. Append(turn.calls, Head(turn.texts)) \in Seq(Calls)
      BY <3>1, AppendProperties DEF PartsTyped
    <3>3. <<>> \in Seq(Calls)
      OBVIOUS
    <3>4. QED
      BY <2>3, <3>1, <3>2, <3>3 DEF PartsTyped
  <2>5. QED
    BY <2>1, <2>2, <2>3, <2>4 DEF PartsTyped
<1>10. CASE Seal
  <2>1. /\ UNCHANGED <<turn.calls, turn.texts, turn.failed, tools, prompts, outcome>>
        /\ guard' = GuardAfter
    BY <1>10 DEF Seal, Typed, TurnType, TurnShape
  <2>2. Range(turn.calls) \subseteq Calls
    BY DEF PartsTyped, Range
  <2>3. GuardAfter.calls \subseteq Calls /\ GuardAfter.stalled \in Nat
    BY <2>2 DEF GuardAfter, PartsTyped
  <2>4. QED
    BY <2>1, <2>3 DEF PartsTyped
<1>11. CASE NextTurn \/ AskFinalAnswer
  <2>1. /\ UNCHANGED turn \/ \E k \in Kinds : turn' = Turn(k)
        /\ UNCHANGED <<tools, guard, prompts, outcome>>
    BY <1>11 DEF NextTurn, AskFinalAnswer, Kinds
  <2>2. ASSUME NEW k \in Kinds, turn' = Turn(k)
        PROVE  turn'.calls = <<>> /\ turn'.texts = <<>> /\ turn'.failed = FALSE
    BY <2>2 DEF Turn
  <2>3. <<>> \in Seq(Calls)
    OBVIOUS
  <2>4. QED
    BY <2>1, <2>2, <2>3 DEF PartsTyped
<1>12. CASE DrainPrompt
  <2>1. turn'.calls = <<>> /\ turn'.texts = <<>> /\ turn'.failed = FALSE
    BY <1>12 DEF DrainPrompt, Turn
  <2>2. <<>> \in Seq(Calls)
    OBVIOUS
  <2>3. /\ prompts > 0 /\ prompts' = prompts - 1
        /\ UNCHANGED <<tools, guard, outcome>>
    BY <1>12 DEF DrainPrompt, MoreQueued
  <2>4. prompts' \in Nat
    <3>1. prompts \in Nat
      BY DEF PartsTyped
    <3>2. QED
      BY <2>3, <3>1
  <2>5. /\ tools'.counts = tools.counts /\ guard' = guard /\ outcome' = outcome
        /\ FALSE \in BOOLEAN
    BY <2>3
  <2>6. QED
    BY <2>1, <2>2, <2>4, <2>5 DEF PartsTyped
<1>13. CASE Judge \/ End
  BY <1>13 DEF Judge, End, PartsTyped
<1>14. CASE EnqueuePrompt
  BY <1>14 DEF EnqueuePrompt, PartsTyped
<1>15. CASE NoticeCancel \/ TextLoops \/ Begin \/ Request \/ AfterTexts \/ FinalAnswerEnds
            \/ QueuedEnds \/ Detach \/ Cancel \/ Steer \/ Done \/ UNCHANGED vars
  BY <1>1, <1>15 DEF NoticeCancel, TextLoops, Begin, Request, AfterTexts, FinalAnswerEnds,
                     QueuedEnds, Detach, Cancel, Steer, Done, vars
<1>16. QED
  BY <1>2, <1>3, <1>4, <1>5, <1>6, <1>7, <1>8, <1>9, <1>10, <1>11, <1>12, <1>13, <1>14, <1>15
     DEF Next, Provider, Harness, User

(* Every part of a run's state has its type, for any calls and any limits. *)
THEOREM StateTyped == Spec => []TypeOK
<1>1. Init => PartsTyped /\ SteerInv
  <2> SUFFICES ASSUME Init PROVE PartsTyped /\ SteerInv
    OBVIOUS
  <2>1. turn.calls = <<>> /\ turn.texts = <<>> /\ turn.failed = FALSE
    BY DEF Init, Turn
  <2>2. <<>> \in Seq(Calls)
    OBVIOUS
  <2>3. PartsTyped
    BY <2>1, <2>2 DEF Init, PartsTyped
  <2>4. SteerInv
    BY DEF Init, SteerInv, SteersKept
  <2>5. QED
    BY <2>3, <2>4
<1>2. Typed /\ PartsTyped /\ SteerInv /\ [Next]_vars => PartsTyped' /\ SteerInv'
  BY PartsStep, SteerStep
<1>3. Typed /\ PartsTyped /\ SteerInv => TypeOK
  <2> SUFFICES ASSUME Typed, PartsTyped, SteerInv PROVE TypeOK
    OBVIOUS
  <2>1. \A i \in DOMAIN steers :
          steers[i] \in {"queued", "injected", "seen", "follow-up", "lost"}
    BY DEF SteerInv
  <2>2. \A f \in DOMAIN loop \ {"mutated", "last"} : loop[f] \in Nat
    BY DEF Typed, LoopType
  <2>3. QED
    BY <2>1, <2>2 DEF Typed, PartsTyped, TypeOK, Places, TurnType, Kinds, LoopType, StopType
<1>4. QED
  BY <1>1, <1>2, <1>3, AlwaysTyped, PTL DEF Spec
=============================================================================
