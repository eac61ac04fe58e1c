------------------------ MODULE ServeHarness_proofs ------------------------
(* Proofs about ServeHarness, for any sessions, roots, tools and any       *)
(* number of turns and calls.                                              *)
EXTENDS ServeHarness, FiniteSetTheorems, SequenceTheorems, TLAPS

-----------------------------------------------------------------------------
(*                              Typing                                     *)
(*                                                                         *)
(* A turn gets its number when it registers: with those that have one it   *)
(* is never above the number of the turns.                                 *)

Unnumbered == \A t \in TurnIds : turns[t].state = "starting" => turns[t].order = 0

(* What is settled has its frame; only a permission is granted for good: a *)
(* question is answered or not.                                            *)
Fitting ==
  \A c \in CallIds :
    /\ calls[c].state = "settled" => calls[c].frames # <<>>
    /\ IsQuestion(c) /\ calls[c].frames # <<>> =>
         Head(calls[c].frames).decision \notin Always

Typed == TypeOK /\ Unnumbered /\ Fitting

Numbered == {u \in TurnIds : turns[u].order > 0}

LEMMA TurnFacts ==
  ASSUME TypeOK
  PROVE  /\ Len(turns) \in Nat /\ TurnIds = 1 .. Len(turns)
         /\ \A t \in TurnIds : turns[t] \in TurnType
  BY DEF TypeOK, TurnIds

LEMMA CallFacts ==
  ASSUME TypeOK
  PROVE  /\ Len(calls) \in Nat /\ CallIds = 1 .. Len(calls)
         /\ \A c \in CallIds : calls[c] \in CallType
  BY DEF TypeOK, CallIds

(* There is a number left for a turn that has none.                        *)
LEMMA NumbersLeft ==
  ASSUME Typed, NEW t \in TurnIds, turns[t].order = 0
  PROVE  /\ IsFiniteSet(Numbered) /\ Cardinality(Numbered) \in Nat
         /\ Cardinality(Numbered) + 1 <= Len(turns)
<1>1. Len(turns) \in Nat /\ TurnIds = 1 .. Len(turns)
  BY TurnFacts DEF Typed
<1>2. IsFiniteSet(TurnIds) /\ Cardinality(TurnIds) = Len(turns)
  <2>1. /\ IsFiniteSet(1 .. Len(turns))
        /\ Cardinality(1 .. Len(turns)) = IF 1 > Len(turns) THEN 0 ELSE Len(turns) - 1 + 1
    BY <1>1, FS_Interval
  <2>2. QED
    BY <1>1, <2>1
<1>3. /\ IsFiniteSet(TurnIds \ {t})
      /\ Cardinality(TurnIds \ {t}) = Len(turns) - 1
  BY <1>2, FS_RemoveElement
<1>4. Numbered \subseteq TurnIds \ {t}
  BY DEF Numbered
<1>5. IsFiniteSet(Numbered) /\ Cardinality(Numbered) <= Len(turns) - 1
  BY <1>3, <1>4, FS_Subset
<1>6. Cardinality(Numbered) \in Nat
  BY <1>5, FS_CardinalityType
<1>7. QED
  BY <1>1, <1>5, <1>6

LEMMA TypedInit == Init => Typed
<1> SUFFICES ASSUME Init PROVE Typed
  OBVIOUS
<1>1. (CHOOSE r \in Roots : TRUE) \in Roots
  BY RootsAssumption
<1>2. sessions \in [Sessions -> SessionType]
  BY <1>1 DEF Init, SessionType
<1>3. services \in [Roots -> ServicesType]
  BY DEF Init, ServicesType
<1>4. turns = <<>> /\ calls = <<>> /\ live \in [Sessions -> {0}]
  BY DEF Init
<1>5. grants \in [Sessions -> [tools : SUBSET Tools, categories : SUBSET Categories]]
  BY DEF Init, NoGrants
<1>6. QED
  BY <1>2, <1>3, <1>4, <1>5 DEF Init, Typed, TypeOK, Unnumbered, Fitting, TurnIds, CallIds

(* Creating and disposing of sessions.                                     *)
LEMMA SessionsTyped ==
  ASSUME Typed, NEW s \in Sessions,
         \/ \E r \in Roots : CreateSession(s, r)
         \/ Dispose(s) \/ DropGrants(s)
  PROVE  Typed'
<1>1. UNCHANGED <<opts, turns, live, calls>>
  BY DEF CreateSession, Dispose, DropGrants
<1>2. sessions' \in [Sessions -> SessionType] /\ services' \in [Roots -> ServicesType]
  <2>1. CASE \E r \in Roots : CreateSession(s, r)
    <3>1. PICK r \in Roots : CreateSession(s, r)
      BY <2>1
    <3> DEFINE fresh == services[r].current = 0
               given == IF fresh THEN services[r].made + 1 ELSE services[r].current
               made == IF fresh THEN given ELSE services[r].made
    <3>2. services[r] \in ServicesType
      BY DEF Typed, TypeOK
    <3>3. given \in Nat /\ made \in Nat /\ Counted(r) \in Nat
      BY <3>2 DEF ServicesType, Counted
    <3>4. /\ sessions' = [sessions EXCEPT ![s] = [state |-> "open", root |-> r, given |-> given]]
          /\ services' = [services EXCEPT ![r] =
                            [current |-> given, made |-> made, count |-> Counted(r)]]
      BY <3>1 DEF CreateSession
    <3> HIDE DEF fresh, given, made
    <3>5. QED
      BY <3>3, <3>4 DEF Typed, TypeOK, SessionType, ServicesType
  <2>2. CASE Dispose(s)
    <3> DEFINE r == sessions[s].root
    <3>1. r \in Roots /\ services[r] \in ServicesType
      BY DEF Typed, TypeOK, SessionType
    <3>2. sessions' \in [Sessions -> SessionType]
      BY <2>2 DEF Dispose, Typed, TypeOK, SessionType
    <3> DEFINE last == services[r].count - 1 <= 0
               current == IF last THEN 0 ELSE services[r].current
               count == IF last THEN 0 ELSE services[r].count - 1
    <3>3. services' = [services EXCEPT ![r].current = current, ![r].count = count]
      BY <2>2 DEF Dispose
    <3>4. current \in Nat /\ count \in Nat
      BY <3>1 DEF ServicesType
    <3> HIDE DEF r, current, count
    <3>5. QED
      BY <3>1, <3>2, <3>3, <3>4 DEF Typed, TypeOK, ServicesType
  <2>3. CASE DropGrants(s)
    BY <2>3 DEF DropGrants, Typed, TypeOK, SessionType
  <2>4. QED
    BY <2>1, <2>2, <2>3
<1>3. grants' \in [Sessions -> [tools : SUBSET Tools, categories : SUBSET Categories]]
  <2>1. grants \in [Sessions -> [tools : SUBSET Tools, categories : SUBSET Categories]]
    BY DEF Typed, TypeOK
  <2>2. grants' = grants \/ grants' = [grants EXCEPT ![s] = [tools |-> {}, categories |-> {}]]
    BY DEF CreateSession, Dispose, DropGrants, NoGrants
  <2>3. QED
    BY <2>1, <2>2
<1>4. QED
  BY <1>1, <1>2, <1>3 DEF Typed, TypeOK, Unnumbered, Fitting, TurnIds, TurnType, CallIds,
                          CallType, IsQuestion

(* What a change of one turn has to respect.                               *)
LEMMA TurnChanged ==
  ASSUME Typed, NEW t \in TurnIds, NEW v \in TurnType,
         turns' = [turns EXCEPT ![t] = v],
         v.state = "starting" => v.order = 0,
         live' \in [Sessions -> {0} \cup TurnIds],
         UNCHANGED <<opts, sessions, services, calls, grants>>
  PROVE  Typed'
<1>1. turns \in Seq(TurnType) /\ Len(turns) \in Nat /\ TurnIds = 1 .. Len(turns)
  BY TurnFacts DEF Typed, TypeOK
<1>2. /\ turns' \in Seq(TurnType) /\ Len(turns') = Len(turns)
      /\ \A u \in TurnIds : turns'[u] = IF u = t THEN v ELSE turns[u]
  BY <1>1
<1>3. TurnIds' = TurnIds /\ TurnType' = TurnType /\ CallType' = CallType
  BY <1>1, <1>2 DEF TurnIds, TurnType, CallType
<1>4. QED
  BY <1>2, <1>3 DEF Typed, TypeOK, Unnumbered, Fitting, CallIds, IsQuestion

LEMMA ControlTyped ==
  ASSUME Typed, NEW t \in TurnIds,
         Register(t) \/ HookCancel(t) \/ TakeSteers(t) \/ TurnEnds(t)
  PROVE  Typed'
<1>1. turns[t] \in TurnType /\ turns[t].session \in Sessions
  BY TurnFacts DEF Typed, TurnType
<1>2. CASE Register(t)
  <2>1. turns[t].order = 0
    BY <1>2 DEF Register, Typed, Unnumbered
  <2> DEFINE o == Cardinality(Numbered) + 1
             h == turns[t].kind = "mission"
             v == [turns[t] EXCEPT !.state = "running", !.hook = h, !.order = o]
  <2>2. o \in 0 .. Len(turns) /\ h \in BOOLEAN
    BY <2>1, NumbersLeft, TurnFacts DEF Typed
  <2>3. turns' = [turns EXCEPT ![t] = v]
    BY <1>2 DEF Register, Numbered
  <2>4. live' \in [Sessions -> {0} \cup TurnIds]
    BY <1>1, <1>2 DEF Register, Typed, TypeOK
  <2> HIDE DEF o, h
  <2>5. v \in TurnType /\ v.state = "running"
    BY <1>1, <2>2 DEF TurnType
  <2> HIDE DEF v
  <2>6. QED
    BY <1>2, <2>3, <2>4, <2>5, TurnChanged DEF Register
<1>3. CASE HookCancel(t)
  <2> DEFINE v == [turns[t] EXCEPT !.hook = TRUE]
  <2>1. v \in TurnType /\ v.state = "running"
    BY <1>1, <1>3 DEF TurnType, HookCancel
  <2>2. turns' = [turns EXCEPT ![t] = v]
    BY <1>3 DEF HookCancel
  <2> HIDE DEF v
  <2>3. QED
    BY <1>3, <2>1, <2>2, TurnChanged DEF HookCancel, Typed, TypeOK
<1>4. CASE TakeSteers(t)
  <2> DEFINE v == [turns[t] EXCEPT !.queue = 0]
  <2>1. v \in TurnType /\ v.state = "running"
    <3>1. 0 \in 0 .. opts.steers
      BY OptionsAssumption DEF Typed, TypeOK
    <3>2. turns[t].state = "running"
      BY <1>4 DEF TakeSteers
    <3>3. QED
      BY <1>1, <3>1, <3>2 DEF TurnType
  <2>2. turns' = [turns EXCEPT ![t] = v]
    BY <1>4 DEF TakeSteers
  <2> HIDE DEF v
  <2>3. QED
    BY <1>4, <2>1, <2>2, TurnChanged DEF TakeSteers, Typed, TypeOK
<1>5. CASE TurnEnds(t)
  <2> DEFINE v == [turns[t] EXCEPT !.state = "over"]
  <2>1. v \in TurnType /\ v.state = "over"
    BY <1>1 DEF TurnType
  <2>2. turns' = [turns EXCEPT ![t] = v]
    BY <1>5 DEF TurnEnds
  <2>3. live' \in [Sessions -> {0} \cup TurnIds]
    BY <1>1, <1>5 DEF TurnEnds, Typed, TypeOK
  <2> HIDE DEF v
  <2>4. QED
    BY <1>5, <2>1, <2>2, <2>3, TurnChanged DEF TurnEnds
<1>6. QED
  BY <1>2, <1>3, <1>4, <1>5

LEMMA RequestTyped ==
  ASSUME Typed, NEW s \in Sessions, Steer(s) \/ Cancel(s)
  PROVE  Typed'
<1> DEFINE t == live[s]
<1>1. t \in TurnIds
  BY DEF Steer, Cancel, Typed, TypeOK
<1>2. turns[t] \in TurnType
  BY <1>1, TurnFacts DEF Typed
<1>3. turns[t].state = "starting" => turns[t].order = 0
  BY <1>1 DEF Typed, Unnumbered
<1>4. CASE Steer(s)
  <2> DEFINE v == [turns[t] EXCEPT !.queue = @ + 1]
  <2>1. v \in TurnType /\ v.state = turns[t].state /\ v.order = turns[t].order
    <3>1. turns[t].queue + 1 \in 0 .. opts.steers
      BY <1>2, <1>4, OptionsAssumption DEF Steer, TurnType, Typed, TypeOK
    <3>2. QED
      BY <1>2, <3>1 DEF TurnType
  <2>2. turns' = [turns EXCEPT ![t] = v]
    BY <1>4 DEF Steer
  <2> HIDE DEF v
  <2>3. QED
    BY <1>1, <1>3, <1>4, <2>1, <2>2, TurnChanged DEF Steer, Typed, TypeOK
<1>5. CASE Cancel(s)
  <2> DEFINE v == [turns[t] EXCEPT !.cancelled = TRUE]
  <2>1. v \in TurnType /\ v.state = turns[t].state /\ v.order = turns[t].order
    BY <1>2 DEF TurnType
  <2>2. turns' = [turns EXCEPT ![t] = v]
    BY <1>5 DEF Cancel
  <2> HIDE DEF v
  <2>3. QED
    <3>1. /\ v.state = "starting" => v.order = 0
          /\ live' \in [Sessions -> {0} \cup TurnIds]
          /\ UNCHANGED <<opts, sessions, services, calls, grants>>
      BY <1>3, <1>5, <2>1 DEF Cancel, Typed, TypeOK
    <3>2. QED
      BY <1>1, <2>1, <2>2, <3>1, TurnChanged
<1>6. QED
  BY <1>4, <1>5

LEMMA DispatchTyped ==
  ASSUME Typed, NEW s \in Sessions, NEW kind \in opts.kinds, Dispatch(s, kind)
  PROVE  Typed'
<1> DEFINE v == [session |-> s, kind |-> kind, state |-> "starting", order |-> 0,
                 hook |-> FALSE, cancelled |-> FALSE, queue |-> 0]
<1>1. turns \in Seq(TurnType) /\ Len(turns) \in Nat /\ TurnIds = 1 .. Len(turns)
  BY TurnFacts DEF Typed, TypeOK
<1>2. turns' = Append(turns, v) /\ UNCHANGED <<opts, sessions, services, live, calls, grants>>
  BY DEF Dispatch
<1>3. TurnType \subseteq TurnType' /\ v \in TurnType'
  <2>1. Len(turns') = Len(turns) + 1
    BY <1>1, <1>2
  <2>2. kind \in {"agent", "mission"} /\ opts.steers \in Nat
    BY OptionsAssumption DEF Typed, TypeOK
  <2>3. QED
    BY <1>1, <1>2, <2>1, <2>2 DEF TurnType
<1> HIDE DEF v
<1>4. turns \in Seq(TurnType')
  BY <1>1, <1>3, SeqMonotonic
<1>5. /\ turns' \in Seq(TurnType') /\ Len(turns') = Len(turns) + 1
      /\ turns'[Len(turns) + 1] = v
      /\ \A t \in TurnIds : turns'[t] = turns[t]
  BY <1>1, <1>2, <1>3, <1>4
<1>6. TurnIds' = TurnIds \cup {Len(turns) + 1}
  BY <1>1, <1>5 DEF TurnIds
<1>7. calls \in Seq(CallType')
  <2>1. CallType \subseteq CallType'
    BY <1>6 DEF CallType
  <2>2. QED
    BY <2>1, SeqMonotonic DEF Typed, TypeOK
<1>8. TypeOK'
  BY <1>2, <1>5, <1>6, <1>7 DEF Typed, TypeOK
<1>9. Unnumbered'
  BY <1>5, <1>6 DEF Typed, Unnumbered, v
<1>10. Fitting'
  BY <1>2 DEF Typed, Fitting, CallIds, IsQuestion
<1>11. QED
  BY <1>8, <1>9, <1>10 DEF Typed

(* A step that only changes calls and grants.                              *)
LEMMA CallChanged ==
  ASSUME Typed, calls' \in Seq(CallType),
         grants' \in [Sessions -> [tools : SUBSET Tools, categories : SUBSET Categories]],
         UNCHANGED <<opts, sessions, services, turns, live>>,
         Fitting'
  PROVE  Typed'
<1>1. TurnIds' = TurnIds
  BY DEF TurnIds
<1>2. TurnType' = TurnType /\ CallType' = CallType
  BY <1>1 DEF TurnType, CallType
<1>3. QED
  BY <1>1, <1>2 DEF Typed, TypeOK, Unnumbered

LEMMA CallTyped ==
  ASSUME Typed, NEW t \in TurnIds, NEW tool \in opts.tools, NEW insists \in opts.insists,
         Call(t, tool, insists)
  PROVE  Typed'
<1> DEFINE question == tool = Question
           granted == ~question /\ Granted(turns[t].session, tool, grants)
           runs == granted /\ ~insists
           names == IF question \/ granted THEN {} ELSE Needs[tool]
           state == IF runs THEN "returned" ELSE IF question THEN "pending" ELSE "deciding"
           k == [turn |-> t, tool |-> tool, frames |-> <<>>, ran |-> runs, late |-> FALSE,
                 names |-> names, state |-> state]
<1>1. runs \in BOOLEAN /\ tool \in Tools \cup {Question}
  BY OptionsAssumption DEF Typed, TypeOK
<1>2. calls' = Append(calls, k)
  BY DEF Call
<1>7. names \in SUBSET Categories
  BY <1>1, ToolsAssumption
<1>8. state \in {"returned", "pending", "deciding"}
  OBVIOUS
<1> HIDE DEF runs, names, state
<1>3. k \in CallType
  <2>1. <<>> \in Seq(FrameType)
    OBVIOUS
  <2>2. QED
    BY <1>1, <1>7, <1>8, <2>1 DEF CallType
<1> HIDE DEF k
<1>4. calls' \in Seq(CallType)
  BY <1>2, <1>3 DEF Typed, TypeOK
<1>5. Fitting'
  <2>1. /\ CallIds' = CallIds \cup {Len(calls) + 1}
        /\ calls'[Len(calls) + 1] = k
        /\ \A c \in CallIds : calls'[c] = calls[c]
    BY <1>2, <1>3 DEF CallIds, Typed, TypeOK
  <2>2. k.frames = <<>> /\ k.state # "settled"
    BY <1>8 DEF k
  <2>3. QED
    BY <2>1, <2>2 DEF Typed, Fitting, IsQuestion
<1>6. QED
  BY <1>4, <1>5, CallChanged DEF Call, Typed, TypeOK

(* A posted ask.                                                           *)
LEMMA PostEffect ==
  ASSUME Typed, NEW c \in CallIds, Post(c)
  PROVE  /\ CallIds' = CallIds /\ calls' \in Seq(CallType)
         /\ \A d \in CallIds \ {c} : calls'[d] = calls[d]
         /\ calls'[c].turn = calls[c].turn /\ calls'[c].tool = calls[c].tool
         /\ calls'[c].frames = calls[c].frames /\ calls'[c].ran = calls[c].ran
         /\ calls'[c].names = calls[c].names
         /\ calls'[c].state = "pending" /\ calls'[c].late = Covered(c, grants)
<1>1. /\ calls \in Seq(CallType) /\ Len(calls) \in Nat /\ CallIds = 1 .. Len(calls)
      /\ calls[c] \in CallType
  BY CallFacts DEF Typed, TypeOK
<1>2. PICK late \in BOOLEAN : late = Covered(c, grants)
  BY DEF Covered
<1> DEFINE k == [calls[c] EXCEPT !.state = "pending", !.late = late]
<1>3. calls' = [calls EXCEPT ![c] = k]
  BY <1>2 DEF Post
<1>4. k \in CallType
  BY <1>1 DEF CallType
<1>5. /\ k.turn = calls[c].turn /\ k.tool = calls[c].tool /\ k.frames = calls[c].frames
      /\ k.ran = calls[c].ran /\ k.names = calls[c].names
      /\ k.state = "pending" /\ k.late = late
  BY <1>1 DEF CallType
<1> HIDE DEF k
<1>6. /\ CallIds' = CallIds /\ calls' \in Seq(CallType) /\ calls'[c] = k
      /\ \A d \in CallIds \ {c} : calls'[d] = calls[d]
  BY <1>1, <1>3, <1>4 DEF CallIds
<1>7. QED
  BY <1>2, <1>5, <1>6

LEMMA PostTyped ==
  ASSUME Typed, NEW c \in CallIds, Post(c)
  PROVE  Typed'
<1>1. Fitting'
  <2>1. Fitting
    BY DEF Typed
  <2>2. ASSUME NEW d \in CallIds
        PROVE  /\ calls'[d].state = "settled" => calls'[d].frames # <<>>
               /\ calls'[d].tool = Question /\ calls'[d].frames # <<>> =>
                    Head(calls'[d].frames).decision \notin Always
    BY <2>1, PostEffect DEF Fitting, IsQuestion
  <2>3. QED
    BY <2>2, PostEffect DEF Fitting, IsQuestion
<1>2. QED
  BY <1>1, PostEffect, CallChanged DEF Post, Typed, TypeOK

LEMMA SettledTyped ==
  ASSUME NEW k \in CallType, NEW f \in FrameType
  PROVE  /\ Settled(k, f) \in CallType
         /\ Settled(k, f).turn = k.turn /\ Settled(k, f).tool = k.tool
         /\ Settled(k, f).names = k.names /\ Settled(k, f).late = k.late
         /\ Settled(k, f).ran = k.ran /\ Settled(k, f).state = "settled"
         /\ Settled(k, f).frames = Append(k.frames, f)
<1>1. Append(k.frames, f) \in Seq(FrameType)
  BY DEF CallType
<1>2. QED
  BY <1>1 DEF Settled, CallType

LEMMA FrameTyped ==
  ASSUME Typed, NEW c \in CallIds
  PROVE  /\ TimedOut(c) \in FrameType
         /\ \A d \in Decisions(c) : Frame(d, "host") \in FrameType
         /\ Frame("allow", "grant") \in FrameType
  BY DEF TimedOut, Decisions, Frame, FrameType, Always

(* The first frame of an ask stays the first.                              *)
LEMMA FirstFrame ==
  ASSUME NEW frames \in Seq(FrameType), NEW f \in FrameType
  PROVE  /\ Append(frames, f) # <<>>
         /\ Len(Append(frames, f)) = Len(frames) + 1
         /\ Head(Append(frames, f)) = IF frames = <<>> THEN f ELSE Head(frames)
<1>1. /\ Append(frames, f) \in Seq(FrameType)
      /\ Len(frames) \in Nat /\ Len(Append(frames, f)) = Len(frames) + 1
      /\ Append(frames, f)[Len(frames) + 1] = f
      /\ \A i \in 1 .. Len(frames) : Append(frames, f)[i] = frames[i]
  OBVIOUS
<1>2. Append(frames, f) # <<>>
  BY <1>1
<1>3. \A s \in Seq(FrameType) : s # <<>> => Head(s) = s[1]
  OBVIOUS
<1>4. CASE frames = <<>>
  BY <1>1, <1>2, <1>3, <1>4
<1>5. CASE frames # <<>>
  BY <1>1, <1>2, <1>3, <1>5
<1>6. QED
  BY <1>1, <1>2, <1>4, <1>5

LEMMA AnswerTyped ==
  ASSUME Typed, NEW c \in CallIds,
         Timeout(c) \/ \E d \in Decisions(c) : Respond(c, d)
  PROVE  Typed'
<1>1. PICK f \in FrameType :
        /\ calls' = [calls EXCEPT ![c] = Settled(calls[c], f)]
        /\ IsQuestion(c) => f.decision \notin Always
  <2>1. CASE Timeout(c)
    <3>1. calls' = [calls EXCEPT ![c] = Settled(calls[c], TimedOut(c))]
      BY <2>1 DEF Timeout, Settled
    <3>2. TimedOut(c) \in FrameType /\ TimedOut(c).decision \notin Always
      BY FrameTyped DEF TimedOut, Frame, Always
    <3>3. QED
      BY <3>1, <3>2
  <2>2. CASE \E d \in Decisions(c) : Respond(c, d)
    <3>1. PICK d \in Decisions(c) : Respond(c, d)
      BY <2>2
    <3>2. calls' = [calls EXCEPT ![c] = Settled(calls[c], Frame(d, "host"))]
      BY <3>1 DEF Respond, Settled
    <3>3. /\ Frame(d, "host") \in FrameType
          /\ IsQuestion(c) => Frame(d, "host").decision \notin Always
      BY FrameTyped DEF Decisions, Frame, Always
    <3>4. QED
      BY <3>2, <3>3
  <2>3. QED
    BY <2>1, <2>2
<1> DEFINE k == Settled(calls[c], f)
<1>2. /\ calls \in Seq(CallType) /\ CallIds = 1 .. Len(calls) /\ Len(calls) \in Nat
      /\ calls[c] \in CallType /\ calls[c].frames \in Seq(FrameType)
  BY CallFacts DEF Typed, TypeOK, CallType
<1>3. /\ k \in CallType /\ k.tool = calls[c].tool
      /\ k.frames = Append(calls[c].frames, f)
  BY <1>2, SettledTyped
<1>4. calls' = [calls EXCEPT ![c] = k]
  BY <1>1
<1> HIDE DEF k
<1>5. /\ calls' \in Seq(CallType) /\ CallIds' = CallIds
      /\ \A d \in CallIds : calls'[d] = IF d = c THEN k ELSE calls[d]
  BY <1>2, <1>3, <1>4 DEF CallIds
<1>6. /\ k.frames # <<>>
      /\ Head(k.frames) = IF calls[c].frames = <<>> THEN f ELSE Head(calls[c].frames)
  BY <1>2, <1>3, FirstFrame
<1>7. Fitting'
  <2>1. Fitting
    BY DEF Typed
  <2>2. IsQuestion(c) /\ k.frames # <<>> => Head(k.frames).decision \notin Always
    BY <1>1, <1>6, <2>1 DEF Fitting
  <2>3. ASSUME NEW d \in CallIds
        PROVE  /\ calls'[d].state = "settled" => calls'[d].frames # <<>>
               /\ calls'[d].tool = Question /\ calls'[d].frames # <<>> =>
                    Head(calls'[d].frames).decision \notin Always
    BY <1>3, <1>5, <1>6, <2>1, <2>2 DEF Fitting, IsQuestion
  <2>4. QED
    BY <1>5, <2>3 DEF Fitting, IsQuestion
<1>8. QED
  BY <1>5, <1>7, CallChanged DEF Timeout, Respond, Typed, TypeOK

(* What a resumed call does to each of the calls.                          *)
LEMMA ResumeEffect ==
  ASSUME Typed, NEW c \in CallIds, Resume(c)
  PROVE  /\ CallIds' = CallIds /\ calls' \in Seq(CallType)
         /\ calls'[c] = [calls[c] EXCEPT !.state = "returned",
                            !.ran = Head(calls[c].frames).decision \notin {"deny", "null"}]
         /\ \A d \in CallIds \ {c} :
              calls'[d] = IF /\ Head(calls[c].frames).decision \in Always
                             /\ Pending(d)
                             /\ Released(d, grants')
                          THEN Settled(calls[d], Frame("allow", "grant"))
                          ELSE calls[d]
<1> DEFINE ran == Head(calls[c].frames).decision \notin {"deny", "null"}
           resumed == [calls[c] EXCEPT !.state = "returned", !.ran = ran]
           free(d) == Head(calls[c].frames).decision \in Always /\ Pending(d) /\ Released(d, grants')
           next(d) == IF d = c THEN resumed
                      ELSE IF free(d) THEN Settled(calls[d], Frame("allow", "grant")) ELSE calls[d]
<1>1. Len(calls) \in Nat /\ CallIds = 1 .. Len(calls) /\ \A d \in CallIds : calls[d] \in CallType
  BY CallFacts DEF Typed
<1>2. calls' = [d \in CallIds |-> next(d)]
  BY DEF Resume
<1>3. \A d \in CallIds : next(d) \in CallType
  <2>1. ran \in BOOLEAN
    OBVIOUS
  <2> HIDE DEF ran
  <2>2. resumed \in CallType
    BY <1>1, <2>1 DEF CallType
  <2>3. \A d \in CallIds : Settled(calls[d], Frame("allow", "grant")) \in CallType
    BY <1>1, SettledTyped, FrameTyped
  <2> HIDE DEF resumed, free
  <2>4. QED
    BY <1>1, <2>2, <2>3
<1> HIDE DEF next
<1>4. calls' \in Seq(CallType)
  BY <1>1, <1>2, <1>3
<1>5. CallIds' = CallIds
  BY <1>2 DEF CallIds
<1>6. \A d \in CallIds : calls'[d] = next(d)
  BY <1>2
<1>7. QED
  BY <1>4, <1>5, <1>6 DEF next

LEMMA ResumeTyped ==
  ASSUME Typed, NEW c \in CallIds, Resume(c)
  PROVE  Typed'
<1>1. calls[c] \in CallType /\ calls[c].turn \in TurnIds
  BY CallFacts DEF Typed, CallType
<1>2. SessionOf(c) \in Sessions
  BY <1>1, TurnFacts DEF Typed, SessionOf, TurnType
<1> DEFINE s == SessionOf(c)
           tool == calls[c].tool
           more == [tools |-> grants[s].tools \cup {tool},
                    categories |-> grants[s].categories \cup
                      (IF Head(calls[c].frames).decision = "always-category"
                       THEN calls[c].names ELSE {})]
<1>3. calls[c].frames # <<>>
  BY DEF Resume, Typed, Fitting
<1>4. grants' \in [Sessions -> [tools : SUBSET Tools, categories : SUBSET Categories]]
  <2>1. grants \in [Sessions -> [tools : SUBSET Tools, categories : SUBSET Categories]]
    BY DEF Typed, TypeOK
  <2>2. CASE Head(calls[c].frames).decision \notin Always
    BY <2>1, <2>2 DEF Resume, GrantsOf
  <2>3. CASE Head(calls[c].frames).decision \in Always
    <3>1. tool \in Tools
      BY <1>1, <1>3, <2>3 DEF Typed, Fitting, IsQuestion, CallType
    <3>2. more \in [tools : SUBSET Tools, categories : SUBSET Categories]
      <4>1. calls[c].names \in SUBSET Categories
        BY <1>1 DEF CallType
      <4>2. grants[s] \in [tools : SUBSET Tools, categories : SUBSET Categories]
        BY <1>2, <2>1
      <4>3. QED
        BY <3>1, <4>1, <4>2
    <3>3. grants' = [grants EXCEPT ![s] = more]
      BY <2>3 DEF Resume, GrantsOf
    <3> HIDE DEF s, more
    <3>4. QED
      BY <2>1, <3>2, <3>3
  <2>4. QED
    BY <2>2, <2>3
<1>5. Fitting'
  <2>1. Fitting /\ \A d \in CallIds : calls[d] \in CallType
    BY CallFacts DEF Typed
  <2>2. /\ CallIds' = CallIds
        /\ calls'[c].tool = calls[c].tool /\ calls'[c].frames = calls[c].frames
    BY <1>1, ResumeEffect DEF CallType
  <2>3. ASSUME NEW d \in CallIds \ {c}
        PROVE  calls'[d] = calls[d] \/ (~IsQuestion(d) /\ calls'[d].tool = calls[d].tool
                                       /\ calls'[d].frames # <<>>)
    <3>1. CASE calls'[d] = calls[d]
      BY <3>1
    <3>2. CASE Released(d, grants') /\ calls'[d] = Settled(calls[d], Frame("allow", "grant"))
      <4>1. calls[d].frames \in Seq(FrameType) /\ Frame("allow", "grant") \in FrameType
        BY <2>1, FrameTyped DEF CallType
      <4>2. QED
        BY <2>1, <3>2, <4>1, SettledTyped, FirstFrame DEF Released, Covered
    <3>3. QED
      BY <3>1, <3>2, ResumeEffect
  <2>4. QED
    BY <1>3, <2>1, <2>2, <2>3 DEF Fitting, IsQuestion
<1>6. QED
  BY <1>4, <1>5, ResumeEffect, CallChanged DEF Resume

LEMMA TypedStep == Typed /\ [Next]_vars => Typed'
<1> SUFFICES ASSUME Typed, [Next]_vars PROVE Typed'
  OBVIOUS
<1>1. CASE UNCHANGED vars
  BY <1>1 DEF vars, Typed, TypeOK, Unnumbered, Fitting, TurnIds, CallIds, TurnType, CallType,
              IsQuestion
<1>2. CASE \E s \in Sessions : \/ \E r \in Roots : CreateSession(s, r)
                              \/ Dispose(s) \/ DropGrants(s)
  BY <1>2, SessionsTyped
<1>3. CASE \E s \in Sessions : \E kind \in opts.kinds : Dispatch(s, kind)
  BY <1>3, DispatchTyped
<1>4. CASE \E s \in Sessions : Steer(s) \/ Cancel(s)
  BY <1>4, RequestTyped
<1>5. CASE \E t \in TurnIds : Register(t) \/ HookCancel(t) \/ TakeSteers(t) \/ TurnEnds(t)
  BY <1>5, ControlTyped
<1>6. CASE \E t \in TurnIds : \E tool \in opts.tools, insists \in opts.insists :
             Call(t, tool, insists)
  BY <1>6, CallTyped
<1>7. CASE \E c \in CallIds : Timeout(c) \/ \E d \in Decisions(c) : Respond(c, d)
  BY <1>7, AnswerTyped
<1>8. CASE \E c \in CallIds : Resume(c)
  BY <1>8, ResumeTyped
<1>9. CASE \E c \in CallIds : Post(c)
  BY <1>9, PostTyped
<1>10. QED
  BY <1>1, <1>2, <1>3, <1>4, <1>5, <1>6, <1>7, <1>8, <1>9 DEF Next

LEMMA AlwaysTyped == Spec => []Typed
  BY TypedInit, TypedStep, PTL DEF Spec

(* The server's maps hold what they are for, however its requests, timers  *)
(* and promises interleave: control is registered for turns that exist,    *)
(* and only permissions are granted for good.                              *)
THEOREM TypeCorrect == Spec => []TypeOK
<1>1. Typed => TypeOK
  BY DEF Typed
<1>2. QED
  BY <1>1, AlwaysTyped, PTL

-----------------------------------------------------------------------------
(*                  The services of a root are shared                      *)
(*                                                                         *)
(* ServicesShared says nothing of the count by which the server knows the  *)
(* last user.  SharedInv adds that it is the number of the open sessions.  *)

SharedInv ==
  \A r \in Roots :
    /\ IsFiniteSet(UsersOf(r))
    /\ services[r].count = Cardinality(UsersOf(r))
    /\ services[r].current # 0 <=> services[r].count # 0
    /\ \A s \in UsersOf(r) : sessions[s].given = services[r].current

LEMMA CreateShares ==
  ASSUME Typed, SharedInv, NEW s \in Sessions, NEW r \in Roots, CreateSession(s, r)
  PROVE  SharedInv'
<1> DEFINE fresh == services[r].current = 0
           given == IF fresh THEN services[r].made + 1 ELSE services[r].current
           made == IF fresh THEN given ELSE services[r].made
           open == [state |-> "open", root |-> r, given |-> given]
           served == [current |-> given, made |-> made, count |-> services[r].count + 1]
<1>1. /\ services \in [Roots -> ServicesType] /\ sessions \in [Sessions -> SessionType]
      /\ services[r].made \in Nat /\ services[r].current \in Nat /\ services[r].count \in Nat
  BY DEF Typed, TypeOK, ServicesType
<1>2. /\ sessions' = [sessions EXCEPT ![s] = open] /\ services' = [services EXCEPT ![r] = served]
      /\ sessions[s].state = "new"
  BY DEF CreateSession, Counted
<1>3. given # 0
  BY <1>1
<1>4. fresh => UsersOf(r) = {}
  BY FS_EmptySet DEF SharedInv
<1>5. fresh \/ given = services[r].current
  OBVIOUS
<1> HIDE DEF fresh, given, made
<1>6. /\ s \notin UsersOf(r)
      /\ UsersOf(r)' = UsersOf(r) \cup {s}
      /\ \A q \in Roots \ {r} : UsersOf(q)' = UsersOf(q)
  BY <1>1, <1>2 DEF UsersOf
<1>7. /\ services'[r].current = given /\ services'[r].count = services[r].count + 1
      /\ \A q \in Roots \ {r} : services'[q] = services[q]
      /\ sessions'[s].given = given
      /\ \A o \in Sessions \ {s} : sessions'[o] = sessions[o]
  BY <1>1, <1>2
<1>8. ASSUME NEW q \in Roots, q # r
      PROVE  /\ IsFiniteSet(UsersOf(q)')
             /\ services'[q].count = Cardinality(UsersOf(q)')
             /\ services'[q].current # 0 <=> services'[q].count # 0
             /\ \A o \in UsersOf(q)' : sessions'[o].given = services'[q].current
  <2>1. UsersOf(q)' = UsersOf(q) /\ services'[q] = services[q]
    BY <1>6, <1>7, <1>8
  <2>2. \A o \in UsersOf(q) : o \in Sessions \ {s}
    BY <1>2 DEF UsersOf
  <2>3. QED
    BY <1>7, <2>1, <2>2 DEF SharedInv
<1>9. /\ IsFiniteSet(UsersOf(r)')
      /\ services'[r].count = Cardinality(UsersOf(r)')
      /\ services'[r].current # 0 <=> services'[r].count # 0
      /\ \A o \in UsersOf(r)' : sessions'[o].given = services'[r].current
  <2>1. /\ IsFiniteSet(UsersOf(r)') /\ Cardinality(UsersOf(r)') = Cardinality(UsersOf(r)) + 1
    BY <1>6, FS_AddElement DEF SharedInv
  <2>2. services'[r].count = Cardinality(UsersOf(r)') /\ services'[r].count # 0
    BY <1>1, <1>7, <2>1 DEF SharedInv
  <2>3. ASSUME NEW o \in UsersOf(r)'
        PROVE  sessions'[o].given = services'[r].current
    <3>1. CASE o = s
      BY <1>7, <3>1
    <3>2. CASE o \in UsersOf(r)
      <4>1. o \in Sessions \ {s} /\ given = services[r].current
        BY <1>4, <1>5, <1>6, <3>2 DEF UsersOf
      <4>2. QED
        BY <1>7, <3>2, <4>1 DEF SharedInv
    <3>3. QED
      BY <1>6, <3>1, <3>2
  <2>4. QED
    BY <1>3, <1>7, <2>1, <2>2, <2>3
<1>10. QED
  BY <1>8, <1>9 DEF SharedInv

LEMMA DisposeShares ==
  ASSUME Typed, SharedInv, NEW s \in Sessions, Dispose(s)
  PROVE  SharedInv'
<1>0. PICK r \in Roots : r = sessions[s].root
  BY DEF Typed, TypeOK, SessionType
<1> DEFINE last == services[r].count - 1 <= 0
           current == IF last THEN 0 ELSE services[r].current
           count == IF last THEN 0 ELSE services[r].count - 1
<1>1. /\ services \in [Roots -> ServicesType] /\ sessions \in [Sessions -> SessionType]
      /\ services[r].current \in Nat /\ services[r].count \in Nat
  BY DEF Typed, TypeOK, ServicesType, SessionType
<1>2. /\ services' = [services EXCEPT ![r].current = current, ![r].count = count]
      /\ sessions' = [sessions EXCEPT ![s].state = "closing"]
      /\ sessions[s].state = "open"
  BY <1>0 DEF Dispose
<1>3. s \in UsersOf(r)
  BY <1>0, <1>2 DEF UsersOf
<1>4. /\ IsFiniteSet(UsersOf(r) \ {s})
      /\ Cardinality(UsersOf(r) \ {s}) = services[r].count - 1
      /\ services[r].count - 1 \in Nat
  <2>1. IsFiniteSet(UsersOf(r)) /\ services[r].count = Cardinality(UsersOf(r))
    BY <1>1 DEF SharedInv
  <2>2. /\ IsFiniteSet(UsersOf(r) \ {s})
        /\ Cardinality(UsersOf(r) \ {s}) = Cardinality(UsersOf(r)) - 1
    BY <1>3, <2>1, FS_RemoveElement
  <2>3. Cardinality(UsersOf(r) \ {s}) \in Nat
    BY <2>2, FS_CardinalityType
  <2>4. QED
    BY <2>1, <2>2, <2>3
<1>5. count = services[r].count - 1 /\ (last <=> count = 0)
  BY <1>4
<1>6. current = (IF count = 0 THEN 0 ELSE services[r].current)
  BY <1>5
<1> HIDE DEF last, current, count
<1>7. /\ UsersOf(r)' = UsersOf(r) \ {s}
      /\ \A q \in Roots \ {r} : UsersOf(q)' = UsersOf(q)
      /\ \A o \in Sessions : sessions'[o].given = sessions[o].given
  BY <1>0, <1>1, <1>2 DEF UsersOf, SessionType
<1>8. /\ services'[r].current = current /\ services'[r].count = count
      /\ \A q \in Roots \ {r} : services'[q] = services[q]
  BY <1>1, <1>2 DEF ServicesType
<1>9. ASSUME NEW q \in Roots, q # r
      PROVE  /\ IsFiniteSet(UsersOf(q)')
             /\ services'[q].count = Cardinality(UsersOf(q)')
             /\ services'[q].current # 0 <=> services'[q].count # 0
             /\ \A o \in UsersOf(q)' : sessions'[o].given = services'[q].current
  <2>1. UsersOf(q)' = UsersOf(q) /\ services'[q] = services[q] /\ UsersOf(q) \subseteq Sessions
    BY <1>7, <1>8, <1>9 DEF UsersOf
  <2>2. QED
    BY <1>7, <2>1 DEF SharedInv
<1>10. /\ IsFiniteSet(UsersOf(r)')
       /\ services'[r].count = Cardinality(UsersOf(r)')
       /\ services'[r].current # 0 <=> services'[r].count # 0
       /\ \A o \in UsersOf(r)' : sessions'[o].given = services'[r].current
  <2>1. /\ IsFiniteSet(UsersOf(r)') /\ services'[r].count = Cardinality(UsersOf(r)')
    BY <1>4, <1>5, <1>7, <1>8
  <2>2. services'[r].current # 0 <=> services'[r].count # 0
    BY <1>1, <1>4, <1>5, <1>6, <1>8 DEF SharedInv
  <2>3. ASSUME NEW o \in UsersOf(r)'
        PROVE  sessions'[o].given = services'[r].current
    <3>1. UsersOf(r)' # {} /\ o \in UsersOf(r) /\ o \in Sessions
      BY <1>7 DEF UsersOf
    <3>2. services'[r].count # 0
      BY <2>1, <3>1, FS_EmptySet
    <3>3. QED
      BY <1>1, <1>6, <1>7, <1>8, <3>1, <3>2 DEF SharedInv
  <2>4. QED
    BY <2>1, <2>2, <2>3
<1>11. QED
  BY <1>1, <1>9, <1>10 DEF SharedInv

LEMMA SharedStep ==
  ASSUME Typed, SharedInv, [Next]_vars
  PROVE  SharedInv'
<1>1. CASE UNCHANGED <<sessions, services>>
  BY <1>1 DEF SharedInv, UsersOf
<1>2. CASE \E s \in Sessions, r \in Roots : CreateSession(s, r)
  BY <1>2, CreateShares
<1>3. CASE \E s \in Sessions : Dispose(s)
  BY <1>3, DisposeShares
<1>4. ASSUME NEW s \in Sessions, DropGrants(s)
      PROVE  SharedInv'
  <2>1. services' = services /\ \A r \in Roots : UsersOf(r)' = UsersOf(r)
    BY <1>4 DEF DropGrants, UsersOf, Typed, TypeOK, SessionType
  <2>2. \A o \in Sessions : sessions'[o].given = sessions[o].given
    BY <1>4 DEF DropGrants, Typed, TypeOK, SessionType
  <2>3. \A r \in Roots : UsersOf(r) \subseteq Sessions
    BY DEF UsersOf
  <2>4. QED
    BY <2>1, <2>2, <2>3 DEF SharedInv
<1>5. CASE \E s \in Sessions : \/ \E kind \in opts.kinds : Dispatch(s, kind)
                              \/ Steer(s) \/ Cancel(s)
  BY <1>1, <1>5 DEF Dispatch, Steer, Cancel
<1>6. CASE \E t \in TurnIds : \/ Register(t) \/ HookCancel(t) \/ TakeSteers(t) \/ TurnEnds(t)
                             \/ \E tool \in opts.tools, insists \in opts.insists : Call(t, tool, insists)
  BY <1>1, <1>6 DEF Register, HookCancel, TakeSteers, TurnEnds, Call
<1>7. CASE \E c \in CallIds : \/ \E decision \in Decisions(c) : Respond(c, decision)
                             \/ Post(c) \/ Timeout(c) \/ Resume(c)
  BY <1>1, <1>7 DEF Post, Respond, Timeout, Resume
<1>8. CASE UNCHANGED vars
  BY <1>1, <1>8 DEF vars
<1>9. QED
  BY <1>2, <1>3, <1>4, <1>5, <1>6, <1>7, <1>8 DEF Next

(* However chats come and go on a workspace, none of them is left with     *)
(* services that the end of another has disposed of, and the last to go    *)
(* disposes of them.                                                       *)
THEOREM ServicesOutliveNoUser == Spec => []ServicesShared
<1>1. Init => SharedInv
  <2> SUFFICES ASSUME Init PROVE SharedInv
    OBVIOUS
  <2>1. \A r \in Roots : UsersOf(r) = {} /\ services[r].current = 0 /\ services[r].count = 0
    BY DEF Init, UsersOf
  <2>2. QED
    BY <2>1, FS_EmptySet DEF SharedInv
<1>2. Typed /\ SharedInv /\ [Next]_vars => SharedInv'
  BY SharedStep
<1>3. SharedInv => ServicesShared
  <2> SUFFICES ASSUME SharedInv, NEW r \in Roots
               PROVE  /\ services[r].current # 0 <=> UsersOf(r) # {}
                      /\ \A s \in UsersOf(r) : sessions[s].given = services[r].current
    BY DEF ServicesShared
  <2>1. Cardinality(UsersOf(r)) = 0 <=> UsersOf(r) = {}
    BY FS_EmptySet DEF SharedInv
  <2>2. QED
    BY <2>1 DEF SharedInv
<1>4. QED
  BY <1>1, <1>2, <1>3, AlwaysTyped, PTL DEF Spec

-----------------------------------------------------------------------------
(*                  Control reaches the newest turn                        *)
(*                                                                         *)
(* ControlSound is about the newest turn of a chat.  That there is only    *)
(* one follows from the numbers turns get, each above all that were given. *)

ControlInv ==
  /\ \A t \in TurnIds : turns[t].order <= Cardinality(Numbered)
  /\ \A t, u \in TurnIds : turns[t].order = turns[u].order /\ turns[t].order > 0 => t = u
  /\ \A s \in Sessions : live[s] # 0 => live[s] \in Newest(s) /\ Ongoing(live[s])
  /\ \A s \in Sessions : \A t \in Newest(s) : Ongoing(t) => live[s] = t

(* What leaves numbers, sessions, lives and states of the turns alone.     *)
LEMMA ControlKept ==
  ASSUME ControlInv, UNCHANGED live, TurnIds' = TurnIds,
         \A t \in TurnIds : /\ turns'[t].order = turns[t].order
                            /\ turns'[t].session = turns[t].session
                            /\ turns'[t].state = "over" <=> turns[t].state = "over"
  PROVE  ControlInv'
<1>1. Numbered' = Numbered
  BY DEF Numbered
<1>2. \A s \in Sessions : Newest(s)' = Newest(s)
  BY DEF Newest
<1>3. \A t \in TurnIds : Ongoing(t)' <=> Ongoing(t)
  BY DEF Ongoing
<1>4. \A s \in Sessions : Newest(s) \subseteq TurnIds
  BY DEF Newest
<1>5. QED
  BY <1>1, <1>2, <1>3, <1>4 DEF ControlInv

LEMMA DispatchKept ==
  ASSUME Typed, ControlInv, NEW s \in Sessions, NEW kind \in opts.kinds, Dispatch(s, kind)
  PROVE  ControlInv'
<1> DEFINE n == Len(turns) + 1
<1>1. /\ Len(turns) \in Nat /\ TurnIds = 1 .. Len(turns) /\ live' = live
      /\ \A t \in TurnIds : turns[t] \in TurnType
  BY TurnFacts DEF Typed, Dispatch
<1>2. /\ TurnIds' = TurnIds \cup {n} /\ turns'[n].order = 0 /\ turns'[n].state = "starting"
      /\ \A t \in TurnIds : turns'[t] = turns[t]
  BY <1>1 DEF Dispatch, TurnIds, Typed, TypeOK
<1>3. n \notin TurnIds
  BY <1>1
<1> HIDE DEF n
<1>4. Numbered' = Numbered
  BY <1>2, <1>3 DEF Numbered
<1>5. ASSUME NEW o \in Sessions
      PROVE  Newest(o)' = Newest(o)
  <2>1. \A t \in TurnIds : turns[t].order \in Nat
    BY <1>1 DEF TurnType
  <2>2. \A t \in Newest(o)' : t \in Newest(o)
    BY <1>2, <1>3 DEF Newest
  <2>3. \A t \in Newest(o) : t \in Newest(o)'
    BY <1>2, <1>3, <2>1 DEF Newest
  <2>4. QED
    BY <2>2, <2>3
<1>6. \A o \in Sessions : \A t \in Newest(o) : t \in TurnIds /\ (Ongoing(t)' <=> Ongoing(t))
  BY <1>2 DEF Newest, Ongoing
<1>7. \A t \in TurnIds' : turns'[t].order <= Cardinality(Numbered)
  <2>1. Numbered \subseteq TurnIds /\ IsFiniteSet(TurnIds)
    BY <1>1, FS_Interval DEF Numbered
  <2>2. Cardinality(Numbered) \in Nat
    BY <2>1, FS_Subset, FS_CardinalityType
  <2>3. QED
    BY <1>2, <2>2 DEF ControlInv
<1>8. \A t, u \in TurnIds' : turns'[t].order = turns'[u].order /\ turns'[t].order > 0 => t = u
  BY <1>2, <1>3 DEF ControlInv
<1>9. QED
  BY <1>1, <1>4, <1>5, <1>6, <1>7, <1>8 DEF ControlInv

LEMMA RegisterKept ==
  ASSUME Typed, ControlInv, NEW t \in TurnIds, Register(t)
  PROVE  ControlInv'
<1> DEFINE o == Cardinality(Numbered) + 1
<1>1. /\ Len(turns) \in Nat /\ TurnIds = 1 .. Len(turns)
      /\ \A u \in TurnIds : turns[u] \in TurnType
  BY TurnFacts DEF Typed
<1>0. PICK s \in Sessions : s = turns[t].session
  BY <1>1 DEF TurnType
<1>2. turns[t].order = 0
  BY <1>1 DEF Register, Typed, Unnumbered, TurnType
<1>3. /\ IsFiniteSet(Numbered) /\ Cardinality(Numbered) \in Nat
  BY <1>2, NumbersLeft
<1>4. /\ TurnIds' = TurnIds
      /\ turns'[t].order = o /\ turns'[t].session = s /\ turns'[t].state = "running"
      /\ \A u \in TurnIds \ {t} : turns'[u] = turns[u]
  BY <1>0, <1>1 DEF Register, TurnIds, Typed, TypeOK, Numbered, TurnType
<1>5. live'[s] = t /\ \A q \in Sessions \ {s} : live'[q] = live[q]
  BY <1>0 DEF Register, Typed, TypeOK
<1>6. o > 0 /\ \A u \in TurnIds : turns[u].order \in Nat /\ turns[u].order < o
  BY <1>1, <1>3 DEF ControlInv, TurnType
<1>7. Cardinality(Numbered') = o
  <2>1. Numbered' = Numbered \cup {t} /\ t \notin Numbered
    BY <1>2, <1>4, <1>6 DEF Numbered
  <2>2. QED
    BY <1>3, <2>1, FS_AddElement
<1> HIDE DEF o
<1>8. \A u \in TurnIds : turns'[u].order <= o
  BY <1>3, <1>4, <1>6 DEF o
<1>9. \A u, v \in TurnIds : turns'[u].order = turns'[v].order /\ turns'[u].order > 0 => u = v
  BY <1>4, <1>6 DEF ControlInv
<1>10. Newest(s)' = {t}
  <2>1. t \in Newest(s)'
    BY <1>4, <1>6, <1>8 DEF Newest
  <2>2. ASSUME NEW u \in Newest(s)', u # t
        PROVE  FALSE
    <3>1. u \in TurnIds /\ turns'[t].order <= turns'[u].order
      BY <1>4, <2>2 DEF Newest
    <3>2. turns'[u].order < o
      BY <1>4, <1>6, <2>2, <3>1
    <3>3. QED
      BY <1>3, <1>4, <1>6, <2>2, <3>1, <3>2 DEF o
  <2>3. QED
    BY <2>1, <2>2
<1>11. \A q \in Sessions \ {s} : Newest(q)' = Newest(q)
  <2> SUFFICES ASSUME NEW q \in Sessions \ {s}
               PROVE  Newest(q)' = Newest(q)
    OBVIOUS
  <2>1. t \notin Newest(q) /\ t \notin Newest(q)'
    BY <1>0, <1>4 DEF Newest
  <2>2. \A u \in TurnIds : /\ turns'[u].session = turns[u].session
                           /\ u # t => turns'[u] = turns[u]
    BY <1>0, <1>4
  <2>3. \A u \in TurnIds : turns[u].session = q => u # t
    BY <1>0
  <2>4. QED
    BY <1>4, <2>1, <2>2, <2>3 DEF Newest
<1>12. ASSUME NEW q \in Sessions
       PROVE  /\ live'[q] # 0 => (live[q] \in Newest(q))' /\ Ongoing(live[q])'
              /\ \A u \in Newest(q)' : Ongoing(u)' => live'[q] = u
  <2>1. CASE q = s
    BY <1>4, <1>5, <1>10, <2>1 DEF Ongoing
  <2>2. CASE q # s
    <3>1. live'[q] = live[q] /\ Newest(q)' = Newest(q)
      BY <1>5, <1>11, <2>2
    <3>2. \A u \in Newest(q) : u \in TurnIds \ {t}
      BY <1>0, <2>2 DEF Newest
    <3>3. \A u \in Newest(q) : Ongoing(u)' <=> Ongoing(u)
      BY <1>4, <3>2 DEF Ongoing
    <3>4. QED
      BY <3>1, <3>3 DEF ControlInv
  <2>3. QED
    BY <2>1, <2>2
<1>13. QED
  BY <1>4, <1>7, <1>8, <1>9, <1>12 DEF ControlInv

LEMMA EndKept ==
  ASSUME Typed, ControlInv, NEW t \in TurnIds, TurnEnds(t)
  PROVE  ControlInv'
<1>1. /\ Len(turns) \in Nat /\ TurnIds = 1 .. Len(turns)
      /\ \A u \in TurnIds : turns[u] \in TurnType
      /\ 0 \notin TurnIds
  BY TurnFacts DEF Typed, TurnType
<1>0. PICK s \in Sessions : s = turns[t].session
  BY <1>1 DEF TurnType
<1>2. /\ TurnIds' = TurnIds
      /\ turns'[t].order = turns[t].order /\ turns'[t].session = turns[t].session
      /\ turns'[t].state = "over"
      /\ \A u \in TurnIds \ {t} : turns'[u] = turns[u]
  BY <1>1 DEF TurnEnds, TurnIds, Typed, TypeOK, TurnType
<1>3. \A q \in Sessions : live'[q] = IF q = s /\ live[s] = t THEN 0 ELSE live[q]
  BY <1>0 DEF TurnEnds, Registered, Typed, TypeOK
<1>4. Numbered' = Numbered
  BY <1>2 DEF Numbered
<1>5. \A q \in Sessions : Newest(q)' = Newest(q)
  BY <1>2 DEF Newest
<1>6. ~Ongoing(t)' /\ \A u \in TurnIds \ {t} : Ongoing(u)' <=> Ongoing(u)
  BY <1>2 DEF Ongoing
<1>7. ASSUME NEW q \in Sessions
      PROVE  /\ live'[q] # 0 => live'[q] \in Newest(q) /\ Ongoing(live[q])'
             /\ \A u \in Newest(q) : Ongoing(u)' => live'[q] = u
  <2>1. \A u \in Newest(q) : u \in TurnIds /\ turns[u].session = q
    BY DEF Newest
  <2>2. ASSUME live'[q] # 0
        PROVE  live'[q] \in Newest(q) /\ Ongoing(live[q])'
    <3>1. live'[q] = live[q] /\ ~(q = s /\ live[q] = t)
      BY <1>3, <2>2
    <3>2. live[q] \in Newest(q) /\ Ongoing(live[q])
      BY <2>2, <3>1 DEF ControlInv
    <3>3. live[q] # t
      BY <1>0, <2>1, <3>1, <3>2
    <3>4. live[q] \in TurnIds \ {t}
      BY <2>1, <3>2, <3>3
    <3>5. QED
      BY <1>2, <3>1, <3>2, <3>4 DEF Ongoing
  <2>3. ASSUME NEW u \in Newest(q), Ongoing(u)'
        PROVE  live'[q] = u
    <3>1. u # t /\ Ongoing(u)
      BY <1>6, <2>1, <2>3
    <3>2. live[q] = u
      BY <3>1 DEF ControlInv
    <3>3. QED
      BY <1>3, <3>1, <3>2
  <2>4. QED
    BY <2>2, <2>3
<1>8. QED
  BY <1>2, <1>4, <1>5, <1>7 DEF ControlInv

LEMMA ControlStep ==
  ASSUME Typed, ControlInv, [Next]_vars
  PROVE  ControlInv'
<1>1. CASE UNCHANGED <<turns, live>>
  BY <1>1, ControlKept DEF TurnIds
<1>2. CASE \E s \in Sessions : \E kind \in opts.kinds : Dispatch(s, kind)
  BY <1>2, DispatchKept
<1>3. CASE \E t \in TurnIds : Register(t)
  BY <1>3, RegisterKept
<1>4. CASE \E t \in TurnIds : TurnEnds(t)
  BY <1>4, EndKept
<1>5. CASE \/ \E t \in TurnIds : HookCancel(t) \/ TakeSteers(t)
           \/ \E s \in Sessions : Steer(s) \/ Cancel(s)
  <2>1. turns \in Seq(TurnType) /\ TurnIds = 1 .. Len(turns) /\ Len(turns) \in Nat
        /\ \A t \in TurnIds : turns[t] \in TurnType
    BY TurnFacts DEF Typed, TypeOK
  <2>2. live' = live
    BY <1>5 DEF HookCancel, TakeSteers, Steer, Cancel
  <2>3. PICK u \in TurnIds, q \in Nat : \/ turns' = [turns EXCEPT ![u].hook = TRUE]
                                        \/ turns' = [turns EXCEPT ![u].queue = q]
                                        \/ turns' = [turns EXCEPT ![u].cancelled = TRUE]
    <3>1. CASE \E t \in TurnIds : HookCancel(t) \/ TakeSteers(t)
      BY <3>1 DEF HookCancel, TakeSteers
    <3>2. CASE \E s \in Sessions : Steer(s) \/ Cancel(s)
      <4>1. PICK s \in Sessions : Steer(s) \/ Cancel(s)
        BY <3>2
      <4>2. live[s] \in TurnIds
        BY <4>1 DEF Steer, Cancel, Typed, TypeOK
      <4>3. turns[live[s]].queue + 1 \in Nat
        BY <2>1, <4>2, OptionsAssumption DEF TurnType, Typed, TypeOK
      <4>4. QED
        BY <4>1, <4>2, <4>3 DEF Steer, Cancel
    <3>3. QED
      BY <1>5, <3>1, <3>2
  <2>4. TurnIds' = TurnIds
    BY <2>1, <2>3 DEF TurnIds
  <2>5. \A t \in TurnIds : /\ turns'[t].order = turns[t].order
                           /\ turns'[t].session = turns[t].session
                           /\ turns'[t].state = turns[t].state
    <3>1. CASE turns' = [turns EXCEPT ![u].hook = TRUE]
      BY <2>1, <3>1 DEF TurnType
    <3>2. CASE turns' = [turns EXCEPT ![u].queue = q]
      BY <2>1, <3>2 DEF TurnType
    <3>3. CASE turns' = [turns EXCEPT ![u].cancelled = TRUE]
      BY <2>1, <3>3 DEF TurnType
    <3>4. QED
      BY <2>3, <3>1, <3>2, <3>3
  <2>6. QED
    BY <2>2, <2>4, <2>5, ControlKept
<1>6. CASE \E s \in Sessions : \/ \E r \in Roots : CreateSession(s, r)
                              \/ Dispose(s) \/ DropGrants(s)
  BY <1>1, <1>6 DEF CreateSession, Dispose, DropGrants
<1>7. CASE \E t \in TurnIds : \E tool \in opts.tools, insists \in opts.insists : Call(t, tool, insists)
  BY <1>1, <1>7 DEF Call
<1>8. CASE \E c \in CallIds : \/ \E decision \in Decisions(c) : Respond(c, decision)
                             \/ Post(c) \/ Timeout(c) \/ Resume(c)
  BY <1>1, <1>8 DEF Post, Respond, Timeout, Resume
<1>9. CASE UNCHANGED vars
  BY <1>1, <1>9 DEF vars
<1>10. QED
  BY <1>2, <1>3, <1>4, <1>5, <1>6, <1>7, <1>8, <1>9 DEF Next

(* The steers and cancels of a chat reach the newest of its turns as long  *)
(* as it runs and nothing once it is over, in whatever order any number of *)
(* turns of the chat begin and end.                                        *)
THEOREM ControlReachesNewest == Spec => []ControlSound
<1>1. Init => ControlInv
  <2> SUFFICES ASSUME Init PROVE ControlInv
    OBVIOUS
  <2>1. TurnIds = {} /\ \A s \in Sessions : live[s] = 0
    BY DEF Init, TurnIds
  <2>2. QED
    BY <2>1 DEF ControlInv, Newest
<1>2. Typed /\ ControlInv /\ [Next]_vars => ControlInv'
  BY ControlStep
<1>3. ControlInv => ControlSound
  BY DEF ControlInv, ControlSound
<1>4. QED
  BY <1>1, <1>2, <1>3, AlwaysTyped, PTL DEF Spec

-----------------------------------------------------------------------------
(*                       Asks are settled rightly                          *)
(*                                                                         *)
(* SettledRightly looks at what ran, AlwaysReleases at what is open.       *)
(* AskInv says of every call what its state and its frame mean; GrantsInv  *)
(* that whatever is granted goes back to an "always" of the host in the    *)
(* same chat.                                                              *)

AskInv(c) ==
  LET k == calls[c]
      f == Head(k.frames)
  IN /\ k.names = {} \/ k.names = Needs[k.tool]
     /\ k.state \in {"deciding", "pending"} => k.frames = <<>> /\ ~k.ran
     /\ k.state = "settled" => k.frames # <<>> /\ ~k.ran
     /\ k.frames # <<>> =>
          /\ Len(k.frames) = 1
          /\ f.by = "timer" => f.decision \in {"deny", "null"}
          /\ f.by = "grant" => f.decision = "allow" /\ Sanctioned(SessionOf(c), k.tool)
     /\ k.state = "returned" =>
          IF k.frames = <<>> THEN ~IsQuestion(c) /\ Sanctioned(SessionOf(c), k.tool)
          ELSE k.ran <=> f.decision \notin {"deny", "null"}

GrantsInv ==
  \A s \in Sessions :
    /\ \A tool \in grants[s].tools : \E c \in AlwaysIn(s, Always) : calls[c].tool = tool
    /\ \A cat \in grants[s].categories :
         \E c \in AlwaysIn(s, {"always-category"}) : cat \in calls[c].names

AsksInv == (\A c \in CallIds : AskInv(c)) /\ GrantsInv /\ AlwaysReleases

(* What is granted was sanctioned, in any grants that go back to the host. *)
LEMMA GrantedSanctioned ==
  ASSUME GrantsInv, NEW s \in Sessions, NEW tool, Granted(s, tool, grants)
  PROVE  Sanctioned(s, tool)
<1>1. CASE tool \in grants[s].tools
  BY <1>1 DEF GrantsInv, Sanctioned
<1>2. CASE Needs[tool] \subseteq grants[s].categories
  BY <1>2 DEF GrantsInv, Sanctioned
<1>3. QED
  BY <1>1, <1>2 DEF Granted

LEMMA CoveredSanctioned ==
  ASSUME Typed, GrantsInv, NEW c \in CallIds, AskInv(c), Covered(c, grants)
  PROVE  Sanctioned(SessionOf(c), calls[c].tool)
<1>1. SessionOf(c) \in Sessions
  BY CallFacts, TurnFacts DEF SessionOf, Typed, CallType, TurnType
<1>2. Granted(SessionOf(c), calls[c].tool, grants)
  BY DEF Covered, Granted, AskInv
<1>3. QED
  BY <1>1, <1>2, GrantedSanctioned

(* The answers a call has had stay: nothing the host sanctioned is undone. *)
Remembered ==
  /\ CallIds \subseteq CallIds'
  /\ \A c \in CallIds :
       /\ SessionOf(c)' = SessionOf(c)
       /\ calls'[c].tool = calls[c].tool /\ calls'[c].names = calls[c].names
       /\ calls[c].frames # <<>> => calls'[c].frames = calls[c].frames

LEMMA AlwaysRemembered ==
  ASSUME Remembered, NEW s, NEW D
  PROVE  /\ AlwaysIn(s, D) \subseteq AlwaysIn(s, D)'
         /\ \A c \in AlwaysIn(s, D) :
              calls'[c].tool = calls[c].tool /\ calls'[c].names = calls[c].names
  BY DEF Remembered, AlwaysIn

LEMMA SanctionRemembered ==
  ASSUME Remembered, NEW s, NEW tool, Sanctioned(s, tool)
  PROVE  Sanctioned(s, tool)'
<1>1. /\ AlwaysIn(s, Always) \subseteq AlwaysIn(s, Always)'
      /\ \A c \in AlwaysIn(s, Always) : calls'[c].tool = calls[c].tool
  BY AlwaysRemembered
<1>2. /\ AlwaysIn(s, {"always-category"}) \subseteq AlwaysIn(s, {"always-category"})'
      /\ \A c \in AlwaysIn(s, {"always-category"}) : calls'[c].names = calls[c].names
  BY AlwaysRemembered
<1>3. QED
  BY <1>1, <1>2 DEF Sanctioned, Always

(* A call that nothing happened to.                                        *)
LEMMA AskKept ==
  ASSUME Remembered, NEW c \in CallIds, AskInv(c), calls'[c] = calls[c]
  PROVE  AskInv(c)'
<1>1. SessionOf(c)' = SessionOf(c)
  BY DEF Remembered
<1>2. Sanctioned(SessionOf(c), calls[c].tool) => Sanctioned(SessionOf(c), calls[c].tool)'
  <2>1. PICK s, tool : s = SessionOf(c) /\ tool = calls[c].tool
    OBVIOUS
  <2>2. Sanctioned(s, tool) => Sanctioned(s, tool)'
    BY SanctionRemembered
  <2>3. QED
    BY <1>1, <2>1, <2>2
<1>3. QED
  BY <1>1, <1>2 DEF AskInv, IsQuestion

(* Turns stay with their sessions.                                         *)
LEMMA SessionsKept ==
  ASSUME Typed, [Next]_vars
  PROVE  /\ TurnIds \subseteq TurnIds'
         /\ \A t \in TurnIds : turns'[t].session = turns[t].session
<1>1. turns \in Seq(TurnType) /\ TurnIds = 1 .. Len(turns) /\ Len(turns) \in Nat
      /\ \A t \in TurnIds : turns[t] \in TurnType
  BY TurnFacts DEF Typed, TypeOK
<1>2. CASE UNCHANGED turns
  BY <1>2 DEF TurnIds
<1>3. ASSUME NEW v, turns' = Append(turns, v)
      PROVE  /\ TurnIds \subseteq TurnIds'
             /\ \A t \in TurnIds : turns'[t] = turns[t]
  <2>1. turns \in Seq(TurnType \cup {v})
    BY <1>1, SeqMonotonic
  <2>2. QED
    BY <1>1, <1>3, <2>1 DEF TurnIds
<1>4. CASE \E s \in Sessions : \E kind \in opts.kinds : Dispatch(s, kind)
  BY <1>3, <1>4 DEF Dispatch
<1>5. ASSUME NEW u \in TurnIds, NEW v, turns' = [turns EXCEPT ![u] = v],
             v.session = turns[u].session
      PROVE  /\ TurnIds \subseteq TurnIds'
             /\ \A t \in TurnIds : turns'[t].session = turns[t].session
  BY <1>1, <1>5 DEF TurnIds
<1>6. ASSUME NEW t \in TurnIds, Register(t) \/ HookCancel(t) \/ TakeSteers(t) \/ TurnEnds(t)
      PROVE  \E v : turns' = [turns EXCEPT ![t] = v] /\ v.session = turns[t].session
  <2> DEFINE o == Cardinality({u \in TurnIds : turns[u].order > 0}) + 1
             h == turns[t].kind = "mission"
             v1 == [turns[t] EXCEPT !.state = "running", !.hook = h, !.order = o]
             v2 == [turns[t] EXCEPT !.hook = TRUE]
             v3 == [turns[t] EXCEPT !.queue = 0]
             v4 == [turns[t] EXCEPT !.state = "over"]
  <2>1. \/ turns' = [turns EXCEPT ![t] = v1] \/ turns' = [turns EXCEPT ![t] = v2]
        \/ turns' = [turns EXCEPT ![t] = v3] \/ turns' = [turns EXCEPT ![t] = v4]
    BY <1>6 DEF Register, HookCancel, TakeSteers, TurnEnds
  <2> HIDE DEF o, h
  <2>2. /\ v1.session = turns[t].session /\ v2.session = turns[t].session
        /\ v3.session = turns[t].session /\ v4.session = turns[t].session
    BY <1>1 DEF TurnType
  <2> HIDE DEF v1, v2, v3, v4
  <2>3. QED
    BY <2>1, <2>2
<1>7. ASSUME NEW s \in Sessions, Steer(s) \/ Cancel(s)
      PROVE  \E t \in TurnIds : \E v : turns' = [turns EXCEPT ![t] = v]
                                   /\ v.session = turns[t].session
  <2> DEFINE v1 == [turns[live[s]] EXCEPT !.queue = @ + 1]
             v2 == [turns[live[s]] EXCEPT !.cancelled = TRUE]
  <2>1. live[s] \in TurnIds
    BY <1>7 DEF Steer, Cancel, Typed, TypeOK
  <2>2. turns' = [turns EXCEPT ![live[s]] = v1] \/ turns' = [turns EXCEPT ![live[s]] = v2]
    BY <1>7 DEF Steer, Cancel
  <2>3. v1.session = turns[live[s]].session /\ v2.session = turns[live[s]].session
    BY <1>1, <2>1 DEF TurnType
  <2> HIDE DEF v1, v2
  <2>4. QED
    BY <2>1, <2>2, <2>3
<1>8. CASE \/ \E s \in Sessions : \/ \E r \in Roots : CreateSession(s, r)
                                 \/ Dispose(s) \/ DropGrants(s)
           \/ \E t \in TurnIds : \E tool \in opts.tools, insists \in opts.insists : Call(t, tool, insists)
           \/ \E c \in CallIds : \/ \E decision \in Decisions(c) : Respond(c, decision)
                                 \/ Post(c) \/ Timeout(c) \/ Resume(c)
           \/ UNCHANGED vars
  BY <1>2, <1>8 DEF CreateSession, Dispose, DropGrants, Call, Post, Respond, Timeout, Resume, vars
<1>9. CASE \E t \in TurnIds : Register(t) \/ HookCancel(t) \/ TakeSteers(t) \/ TurnEnds(t)
  BY <1>5, <1>6, <1>9
<1>10. CASE \E s \in Sessions : Steer(s) \/ Cancel(s)
  BY <1>5, <1>7, <1>10
<1>11. QED
  BY <1>4, <1>8, <1>9, <1>10 DEF Next

(* The steps that leave the calls alone forget at most grants.             *)
LEMMA CallsKept ==
  ASSUME Typed, AsksInv, [Next]_vars, UNCHANGED calls,
         \A s \in Sessions : grants'[s] = grants[s] \/ grants'[s] = NoGrants
  PROVE  AsksInv'
<1>1. Remembered
  <2>1. \A c \in CallIds : calls[c].turn \in TurnIds
    BY CallFacts DEF Typed, CallType
  <2>2. \A c \in CallIds : SessionOf(c)' = SessionOf(c)
    BY <2>1, SessionsKept DEF SessionOf
  <2>3. QED
    BY <2>2 DEF Remembered, CallIds
<1>2. CallIds' = CallIds
  BY DEF CallIds
<1>3. \A c \in CallIds' : AskInv(c)'
  BY <1>1, <1>2, AskKept DEF AsksInv
<1>4. GrantsInv'
  <2> SUFFICES ASSUME NEW s \in Sessions
               PROVE  /\ \A tool \in grants'[s].tools :
                           \E c \in AlwaysIn(s, Always)' : calls'[c].tool = tool
                      /\ \A cat \in grants'[s].categories :
                           \E c \in AlwaysIn(s, {"always-category"})' : cat \in calls'[c].names
    BY DEF GrantsInv, Always
  <2>1. grants'[s].tools \subseteq grants[s].tools /\ grants'[s].categories \subseteq grants[s].categories
    BY DEF NoGrants
  <2>2. /\ AlwaysIn(s, Always) \subseteq AlwaysIn(s, Always)'
        /\ AlwaysIn(s, {"always-category"}) \subseteq AlwaysIn(s, {"always-category"})'
    BY <1>1, AlwaysRemembered DEF Always
  <2>3. QED
    BY <2>1, <2>2 DEF AsksInv, GrantsInv
<1>5. AlwaysReleases'
  <2> SUFFICES ASSUME NEW c \in CallIds, calls[c].state = "pending", Covered(c, grants')
               PROVE  calls[c].late
    BY <1>1, <1>2 DEF AlwaysReleases, Pending, Covered, IsQuestion, Remembered
  <2>1. SessionOf(c) \in Sessions
    BY CallFacts, TurnFacts DEF SessionOf, Typed, CallType, TurnType
  <2>2. grants'[SessionOf(c)] # NoGrants
    BY DEF Covered, NoGrants
  <2>3. grants'[SessionOf(c)] = grants[SessionOf(c)]
    BY <2>1, <2>2
  <2>4. Covered(c, grants)
    BY <2>3 DEF Covered
  <2>5. QED
    BY <2>4 DEF AsksInv, AlwaysReleases, Pending
<1>6. QED
  BY <1>3, <1>4, <1>5 DEF AsksInv

(* A new call runs at once only on what was granted.                       *)
LEMMA CallAsks ==
  ASSUME Typed, AsksInv, [Next]_vars,
         NEW t \in TurnIds, NEW tool \in opts.tools, NEW insists \in opts.insists,
         Call(t, tool, insists)
  PROVE  AsksInv'
<1> DEFINE question == tool = Question
           granted == ~question /\ Granted(turns[t].session, tool, grants)
           runs == granted /\ ~insists
           names == IF question \/ granted THEN {} ELSE Needs[tool]
           state == IF runs THEN "returned" ELSE IF question THEN "pending" ELSE "deciding"
           k == [turn |-> t, tool |-> tool, frames |-> <<>>, ran |-> runs, late |-> FALSE,
                 names |-> names, state |-> state]
<1>1. /\ Len(calls) \in Nat /\ CallIds = 1 .. Len(calls)
      /\ turns' = turns /\ grants' = grants /\ calls' = Append(calls, k)
  BY CallFacts DEF Typed, Call
<1>0. PICK n \in Nat : n = Len(calls) + 1
  BY <1>1
<1>2. /\ CallIds' = CallIds \cup {n} /\ n \notin CallIds
      /\ calls'[n] = k /\ \A c \in CallIds : calls'[c] = calls[c]
  <2>1. calls \in Seq(CallType \cup {k})
    BY SeqMonotonic DEF Typed, TypeOK
  <2> HIDE DEF k
  <2>2. QED
    BY <1>0, <1>1, <2>1 DEF CallIds
<1>3. /\ k.turn = t /\ k.tool = tool /\ k.frames = <<>> /\ k.ran = runs
      /\ k.state = state /\ k.names = names
  OBVIOUS
<1> HIDE DEF k
<1>4. Remembered
  BY <1>1, <1>2 DEF Remembered, SessionOf
<1>5. PICK s \in Sessions : s = turns[t].session /\ SessionOf(n)' = s
  <2>1. turns[t].session \in Sessions
    BY TurnFacts DEF Typed, TurnType
  <2>2. QED
    BY <1>1, <1>2, <1>3, <2>1 DEF SessionOf
<1>6. GrantsInv'
  <2>1. ASSUME NEW q \in Sessions, NEW D, NEW c \in AlwaysIn(q, D)
        PROVE  /\ c \in AlwaysIn(q, D)' /\ calls'[c].tool = calls[c].tool
               /\ calls'[c].names = calls[c].names
    BY <1>4, AlwaysRemembered
  <2> HIDE DEF granted, names, runs, state
  <2>2. ASSUME NEW q \in Sessions
        PROVE  /\ \A x \in grants[q].tools : \E c \in AlwaysIn(q, Always)' : calls'[c].tool = x
               /\ \A cat \in grants[q].categories :
                    \E c \in AlwaysIn(q, {"always-category"})' : cat \in calls'[c].names
    BY <2>1 DEF AsksInv, GrantsInv, Always
  <2>3. QED
    BY <1>1, <2>2 DEF GrantsInv, Always
<1>7. AskInv(n)'
  <2>1. CASE runs
    <3>1. Sanctioned(s, tool)
      BY <1>5, <2>1, GrantedSanctioned DEF AsksInv
    <3>2. Sanctioned(s, tool)'
      BY <1>4, <3>1, SanctionRemembered
    <3>3. QED
      BY <1>2, <1>3, <1>5, <2>1, <3>2 DEF AskInv, IsQuestion
  <2>2. CASE ~runs
    BY <1>2, <1>3, <2>2 DEF AskInv
  <2>3. QED
    BY <2>1, <2>2
<1>8. AlwaysReleases'
  <2>1. ASSUME NEW c \in CallIds, Pending(c)', Covered(c, grants)'
        PROVE  calls'[c].late
    <3>1. calls'[c] = calls[c] /\ SessionOf(c)' = SessionOf(c)
      BY <1>2, <1>4 DEF Remembered
    <3>2. QED
      BY <1>1, <2>1, <3>1 DEF AsksInv, AlwaysReleases, Pending, Covered, IsQuestion
  <2>2. ~(Pending(n)' /\ Covered(n, grants)')
    BY <1>2, <1>3 DEF Pending, Covered, IsQuestion
  <2>3. QED
    BY <1>2, <2>1, <2>2 DEF AlwaysReleases
<1>9. QED
  BY <1>2, <1>4, <1>6, <1>7, <1>8, AskKept DEF AsksInv

(* A posted ask is open under the grants only if it is late.               *)
LEMMA PostAsks ==
  ASSUME Typed, AsksInv, NEW c \in CallIds, Post(c)
  PROVE  AsksInv'
<1>1. turns' = turns /\ grants' = grants /\ calls[c].state = "deciding"
  BY DEF Post
<1>2. ASSUME NEW d \in CallIds
      PROVE  /\ calls'[d].turn = calls[d].turn /\ calls'[d].tool = calls[d].tool
             /\ calls'[d].frames = calls[d].frames /\ calls'[d].names = calls[d].names
  BY PostEffect
<1>3. Remembered
  BY <1>1, <1>2, PostEffect DEF Remembered, SessionOf
<1>4. AskInv(c)'
  BY <1>1, <1>2, PostEffect DEF AsksInv, AskInv
<1>5. GrantsInv'
  <2>1. ASSUME NEW q \in Sessions, NEW D, NEW d \in AlwaysIn(q, D)
        PROVE  /\ d \in AlwaysIn(q, D)' /\ calls'[d].tool = calls[d].tool
               /\ calls'[d].names = calls[d].names
    BY <1>3, AlwaysRemembered
  <2>2. QED
    BY <1>1, <2>1 DEF AsksInv, GrantsInv, Always
<1>6. ASSUME NEW d \in CallIds, Pending(d)', Covered(d, grants)'
      PROVE  calls'[d].late
  <2>1. Covered(d, grants)
    BY <1>1, <1>2, <1>3, <1>6 DEF Covered, IsQuestion, Remembered
  <2>2. CASE d = c
    BY <2>1, <2>2, PostEffect
  <2>3. CASE d # c
    <3>1. calls'[d] = calls[d]
      BY <2>3, PostEffect
    <3>2. QED
      BY <1>6, <2>1, <3>1 DEF AsksInv, AlwaysReleases, Pending
  <2>4. QED
    BY <2>2, <2>3
<1>7. AlwaysReleases'
  BY <1>6, PostEffect DEF AlwaysReleases
<1>8. \A d \in CallIds : AskInv(d)'
  BY <1>3, <1>4, AskKept, PostEffect DEF AsksInv
<1>9. QED
  BY <1>5, <1>7, <1>8, PostEffect DEF AsksInv

LEMMA AnswerAsks ==
  ASSUME Typed, AsksInv, NEW c \in CallIds,
         Timeout(c) \/ \E d \in Decisions(c) : Respond(c, d)
  PROVE  AsksInv'
<1>0. /\ turns' = turns /\ grants' = grants /\ calls[c].state = "pending"
  BY DEF Timeout, Respond, Pending
<1>1. PICK f \in FrameType :
        /\ calls' = [calls EXCEPT ![c] = Settled(calls[c], f)]
        /\ f.by \in {"host", "timer"}
        /\ f.by = "timer" => f.decision \in {"deny", "null"}
  <2>1. CASE Timeout(c)
    <3>1. calls' = [calls EXCEPT ![c] = Settled(calls[c], TimedOut(c))]
      BY <2>1 DEF Timeout, Settled
    <3>2. /\ TimedOut(c) \in FrameType /\ TimedOut(c).by = "timer"
          /\ TimedOut(c).decision \in {"deny", "null"}
      BY FrameTyped DEF TimedOut, Frame
    <3>3. QED
      BY <3>1, <3>2
  <2>2. CASE \E d \in Decisions(c) : Respond(c, d)
    <3>1. PICK d \in Decisions(c) : Respond(c, d)
      BY <2>2
    <3>2. calls' = [calls EXCEPT ![c] = Settled(calls[c], Frame(d, "host"))]
      BY <3>1 DEF Respond, Settled
    <3>3. Frame(d, "host") \in FrameType /\ Frame(d, "host").by = "host"
      BY FrameTyped DEF Frame
    <3>4. QED
      BY <3>2, <3>3
  <2>3. QED
    BY <2>1, <2>2
<1> DEFINE k == Settled(calls[c], f)
<1>2. /\ calls \in Seq(CallType) /\ CallIds = 1 .. Len(calls) /\ Len(calls) \in Nat
      /\ calls[c] \in CallType /\ calls[c].frames \in Seq(FrameType)
      /\ calls[c].frames = <<>> /\ ~calls[c].ran
  BY <1>0, CallFacts DEF Typed, TypeOK, CallType, AsksInv, AskInv
<1>3. /\ k.turn = calls[c].turn /\ k.tool = calls[c].tool /\ ~k.ran /\ k.state = "settled"
      /\ k.names = calls[c].names
      /\ k.frames # <<>> /\ Len(k.frames) = 1 /\ Head(k.frames) = f
  <2>1. /\ k.turn = calls[c].turn /\ k.tool = calls[c].tool /\ k.ran = calls[c].ran
        /\ k.names = calls[c].names
        /\ k.state = "settled" /\ k.frames = Append(calls[c].frames, f)
    BY <1>2, SettledTyped
  <2> HIDE DEF k
  <2>2. Len(calls[c].frames) = 0
    BY <1>2
  <2>3. QED
    BY <1>2, <2>1, <2>2, FirstFrame
<1>4. calls' = [calls EXCEPT ![c] = k]
  BY <1>1
<1> HIDE DEF k
<1>5. /\ CallIds' = CallIds
      /\ calls'[c] = k /\ \A d \in CallIds \ {c} : calls'[d] = calls[d]
  BY <1>2, <1>4 DEF CallIds
<1>6. Remembered
  BY <1>0, <1>2, <1>3, <1>5 DEF Remembered, SessionOf
<1>7. AskInv(c)'
  BY <1>1, <1>3, <1>5 DEF AsksInv, AskInv
<1>8. GrantsInv'
  <2>1. ASSUME NEW q \in Sessions, NEW D, NEW d \in AlwaysIn(q, D)
        PROVE  /\ d \in AlwaysIn(q, D)' /\ calls'[d].tool = calls[d].tool
               /\ calls'[d].names = calls[d].names
    BY <1>6, AlwaysRemembered
  <2>2. QED
    BY <1>0, <2>1 DEF AsksInv, GrantsInv, Always
<1>9. AlwaysReleases'
  <2>1. ASSUME NEW d \in CallIds, Pending(d)', Covered(d, grants)'
        PROVE  calls'[d].late
    <3>1. d # c
      BY <1>3, <1>5, <2>1 DEF Pending
    <3>2. calls'[d] = calls[d] /\ SessionOf(d)' = SessionOf(d)
      BY <1>5, <1>6, <3>1 DEF Remembered
    <3>3. QED
      BY <1>0, <2>1, <3>2 DEF AsksInv, AlwaysReleases, Pending, Covered, IsQuestion
  <2>2. QED
    BY <1>5, <2>1 DEF AlwaysReleases
<1>10. QED
  BY <1>5, <1>6, <1>7, <1>8, <1>9, AskKept DEF AsksInv

(* The grants an answer adds go back to it, and whatever they cover is     *)
(* released with them.                                                     *)
LEMMA ResumeAsks ==
  ASSUME Typed, AsksInv, NEW c \in CallIds, Resume(c)
  PROVE  AsksInv'
<1> DEFINE f == Head(calls[c].frames)
<1>1. /\ calls[c] \in CallType /\ calls[c].frames # <<>> /\ Len(calls[c].frames) = 1
      /\ f.by = "timer" => f.decision \in {"deny", "null"}
      /\ f.by = "grant" => f.decision = "allow"
      /\ f.by \in {"host", "timer", "grant"}
  <2>1. calls[c] \in CallType /\ AskInv(c) /\ calls[c].state = "settled"
    BY CallFacts DEF Typed, AsksInv, Resume
  <2>2. calls[c].frames \in Seq(FrameType) /\ calls[c].frames # <<>>
    BY <2>1 DEF CallType, AskInv
  <2>3. f \in FrameType
    BY <2>2
  <2>4. QED
    BY <2>1, <2>2, <2>3 DEF AskInv, FrameType
<1>2. /\ turns' = turns /\ CallIds' = CallIds /\ grants' = GrantsOf(c)
  BY ResumeEffect DEF Resume
<1>3. /\ calls'[c].state = "returned" /\ calls'[c].turn = calls[c].turn
      /\ calls'[c].tool = calls[c].tool /\ calls'[c].frames = calls[c].frames
      /\ calls'[c].names = calls[c].names
      /\ calls'[c].ran <=> f.decision \notin {"deny", "null"}
  <2> DEFINE ran == f.decision \notin {"deny", "null"}
  <2>1. calls'[c] = [calls[c] EXCEPT !.state = "returned", !.ran = ran]
    BY ResumeEffect
  <2> HIDE DEF ran
  <2>2. calls'[c].state = "returned" /\ calls'[c].turn = calls[c].turn
        /\ calls'[c].tool = calls[c].tool /\ calls'[c].frames = calls[c].frames
        /\ calls'[c].names = calls[c].names /\ calls'[c].ran = ran
    BY <1>1, <2>1 DEF CallType
  <2>3. QED
    BY <2>2 DEF ran
<1> DEFINE Free(d) == f.decision \in Always /\ Pending(d) /\ Released(d, grants')
<1>4. ASSUME NEW d \in CallIds \ {c}, ~Free(d)
      PROVE  calls'[d] = calls[d]
  BY <1>4, ResumeEffect
<1>5. ASSUME NEW d \in CallIds \ {c}, Free(d)
      PROVE  /\ calls[d].frames = <<>> /\ calls'[d].state = "settled" /\ ~calls'[d].ran
             /\ calls'[d].turn = calls[d].turn /\ calls'[d].tool = calls[d].tool
             /\ calls'[d].names = calls[d].names
             /\ calls'[d].frames # <<>> /\ Len(calls'[d].frames) = 1
             /\ Head(calls'[d].frames) = Frame("allow", "grant")
  <2>1. calls'[d] = Settled(calls[d], Frame("allow", "grant"))
    BY <1>5, ResumeEffect
  <2>2. /\ calls[d] \in CallType /\ calls[d].frames \in Seq(FrameType)
        /\ calls[d].frames = <<>> /\ ~calls[d].ran /\ Len(calls[d].frames) = 0
        /\ Frame("allow", "grant") \in FrameType
    <3>1. calls[d] \in CallType /\ AskInv(d) /\ calls[d].state = "pending"
      BY <1>5, CallFacts DEF Typed, AsksInv, Pending
    <3>2. QED
      BY <3>1, FrameTyped DEF CallType, AskInv
  <2>3. /\ calls'[d].turn = calls[d].turn /\ calls'[d].tool = calls[d].tool
        /\ calls'[d].names = calls[d].names
        /\ calls'[d].ran = calls[d].ran /\ calls'[d].state = "settled"
        /\ calls'[d].frames = Append(calls[d].frames, Frame("allow", "grant"))
    BY <2>1, <2>2, SettledTyped
  <2>4. QED
    BY <2>2, <2>3, FirstFrame
<1> HIDE DEF Free
<1>6. Remembered
  <2>1. ASSUME NEW d \in CallIds
        PROVE  /\ calls'[d].turn = calls[d].turn /\ calls'[d].tool = calls[d].tool
               /\ calls'[d].names = calls[d].names
               /\ calls[d].frames # <<>> => calls'[d].frames = calls[d].frames
    BY <1>3, <1>4, <1>5
  <2>2. QED
    BY <1>2, <2>1 DEF Remembered, SessionOf
<1>7. ASSUME NEW q \in Sessions, NEW D, NEW d \in AlwaysIn(q, D)
      PROVE  /\ d \in AlwaysIn(q, D)' /\ calls'[d].tool = calls[d].tool
             /\ calls'[d].names = calls[d].names
  BY <1>6, AlwaysRemembered
<1>8. PICK s \in Sessions : s = SessionOf(c) /\ SessionOf(c)' = s
  <2>1. SessionOf(c) \in Sessions /\ SessionOf(c)' = SessionOf(c)
    BY <1>1, <1>6, TurnFacts DEF Remembered, SessionOf, Typed, CallType, TurnType
  <2>2. QED
    BY <2>1
<1>9. GrantsInv'
  <2> SUFFICES ASSUME NEW q \in Sessions
               PROVE  /\ \A tool \in grants'[q].tools :
                           \E d \in AlwaysIn(q, Always)' : calls'[d].tool = tool
                      /\ \A cat \in grants'[q].categories :
                           \E d \in AlwaysIn(q, {"always-category"})' : cat \in calls'[d].names
    BY DEF GrantsInv, Always
  <2>1. /\ \A tool \in grants[q].tools :
             \E d \in AlwaysIn(q, Always)' : calls'[d].tool = tool
        /\ \A cat \in grants[q].categories :
             \E d \in AlwaysIn(q, {"always-category"})' : cat \in calls'[d].names
    BY <1>7 DEF AsksInv, GrantsInv, Always
  <2>2. CASE grants'[q] = grants[q]
    BY <2>1, <2>2
  <2>3. CASE f.decision \in Always /\ q = s
    <3>1. f.by = "host"
      BY <1>1, <2>3 DEF Always
    <3>2. c \in AlwaysIn(q, Always)' /\ (f.decision = "always-category" =>
                                           c \in AlwaysIn(q, {"always-category"})')
      BY <1>1, <1>2, <1>3, <1>8, <2>3, <3>1 DEF AlwaysIn, Always
    <3>3. grants'[q] = [tools |-> grants[q].tools \cup {calls[c].tool},
                        categories |-> grants[q].categories \cup
                          (IF f.decision = "always-category" THEN calls[c].names ELSE {})]
      BY <1>2, <1>8, <2>3 DEF GrantsOf, Typed, TypeOK
    <3>4. QED
      BY <1>3, <2>1, <3>2, <3>3
  <2>4. grants'[q] = grants[q] \/ (f.decision \in Always /\ q = s)
    BY <1>2, <1>8 DEF GrantsOf, Typed, TypeOK
  <2>5. QED
    BY <2>2, <2>3, <2>4
<1>10. AskInv(c)'
  <2>1. AskInv(c)
    BY DEF AsksInv
  <2>2. f.by = "grant" => Sanctioned(SessionOf(c), calls[c].tool)'
    <3>1. PICK tool : tool = calls[c].tool /\ calls'[c].tool = tool
      BY <1>3
    <3>2. f.by = "grant" => Sanctioned(s, tool)
      BY <1>1, <1>8, <2>1, <3>1 DEF AskInv
    <3>3. f.by = "grant" => Sanctioned(s, tool)'
      BY <1>6, <3>2, SanctionRemembered
    <3>4. QED
      BY <1>8, <3>1, <3>3
  <2>3. QED
    BY <1>1, <1>3, <2>1, <2>2 DEF AskInv
<1>11. ASSUME NEW d \in CallIds \ {c}, Free(d)
       PROVE  AskInv(d)'
  <2>1. PICK q \in Sessions : q = SessionOf(d) /\ SessionOf(d)' = q
    BY <1>6, CallFacts, TurnFacts DEF Remembered, SessionOf, Typed, CallType, TurnType
  <2>2. PICK tool : tool = calls[d].tool /\ calls'[d].tool = tool
    BY <1>5, <1>11
  <2>3. Granted(q, tool, grants)'
    <3>1. calls[d].names = {} \/ calls[d].names = Needs[tool]
      BY <2>2 DEF AsksInv, AskInv
    <3>2. QED
      BY <1>11, <2>1, <2>2, <3>1 DEF Free, Released, Covered, Granted
  <2>4. Sanctioned(q, tool)'
    BY <1>9, <2>3, GrantedSanctioned DEF GrantsInv, Granted, Sanctioned
  <2>5. calls'[d].names = {} \/ calls'[d].names = Needs[tool]
    BY <1>5, <1>11, <2>2 DEF AsksInv, AskInv
  <2>6. QED
    BY <1>5, <1>11, <2>1, <2>2, <2>4, <2>5 DEF AskInv, Frame
<1>12. AlwaysReleases'
  <2> SUFFICES ASSUME NEW d \in CallIds, Pending(d)', Covered(d, grants)'
               PROVE  calls'[d].late
    BY <1>2 DEF AlwaysReleases
  <2>1. d # c /\ ~Free(d)
    BY <1>3, <1>5 DEF Pending
  <2>2. calls'[d] = calls[d] /\ SessionOf(d)' = SessionOf(d)
    BY <1>4, <1>6, <2>1 DEF Remembered
  <2>3. Pending(d) /\ Covered(d, grants')
    BY <2>2 DEF Pending, Covered, IsQuestion
  <2>4. f.decision \notin Always
    BY <2>1, <2>3 DEF Free, Released
  <2>5. grants' = grants
    BY <1>2, <2>4 DEF GrantsOf
  <2>6. QED
    BY <2>2, <2>3, <2>5 DEF AsksInv, AlwaysReleases
<1>13. ASSUME NEW d \in CallIds
       PROVE  AskInv(d)'
  <2>1. CASE d = c
    BY <1>10, <2>1
  <2>2. CASE d # c /\ Free(d)
    BY <1>11, <2>2
  <2>3. CASE d # c /\ ~Free(d)
    BY <1>4, <1>6, <2>3, AskKept DEF AsksInv
  <2>4. QED
    BY <2>1, <2>2, <2>3
<1>14. QED
  BY <1>2, <1>9, <1>12, <1>13 DEF AsksInv

LEMMA AsksStep ==
  ASSUME Typed, AsksInv, [Next]_vars
  PROVE  AsksInv'
<1>1. CASE UNCHANGED <<calls, grants>>
  BY <1>1, CallsKept
<1>2. ASSUME NEW s \in Sessions, DropGrants(s)
      PROVE  AsksInv'
  <2>1. calls' = calls /\ \A q \in Sessions : grants'[q] = grants[q] \/ grants'[q] = NoGrants
    BY <1>2 DEF DropGrants, Typed, TypeOK
  <2>2. QED
    BY <2>1, CallsKept
<1>3. CASE \E t \in TurnIds : \E tool \in opts.tools, insists \in opts.insists : Call(t, tool, insists)
  BY <1>3, CallAsks
<1>4. CASE \E c \in CallIds : \E decision \in Decisions(c) : Respond(c, decision)
  BY <1>4, AnswerAsks
<1>5. CASE \E c \in CallIds : Timeout(c)
  BY <1>5, AnswerAsks
<1>6. CASE \E c \in CallIds : Resume(c)
  BY <1>6, ResumeAsks
<1>7. CASE \E s \in Sessions : \E r \in Roots : CreateSession(s, r)
  BY <1>1, <1>7 DEF CreateSession
<1>8. CASE \E s \in Sessions : \E kind \in opts.kinds : Dispatch(s, kind)
  BY <1>1, <1>8 DEF Dispatch
<1>9. CASE \E s \in Sessions : Dispose(s) \/ Steer(s) \/ Cancel(s)
  BY <1>1, <1>9 DEF Dispose, Steer, Cancel
<1>10. CASE \E s \in Sessions : DropGrants(s)
  BY <1>2, <1>10
<1>11. CASE \E t \in TurnIds : Register(t) \/ HookCancel(t) \/ TakeSteers(t) \/ TurnEnds(t)
  BY <1>1, <1>11 DEF Register, HookCancel, TakeSteers, TurnEnds
<1>12. CASE UNCHANGED vars
  BY <1>1, <1>12 DEF vars
<1>13. CASE \E c \in CallIds : Post(c)
  BY <1>13, PostAsks
<1>14. QED
  BY <1>3, <1>4, <1>5, <1>6, <1>7, <1>8, <1>9, <1>10, <1>11, <1>12, <1>13 DEF Next

LEMMA AlwaysAsksInv == Spec => []AsksInv
<1>1. Init => AsksInv
  <2> SUFFICES ASSUME Init PROVE AsksInv
    OBVIOUS
  <2>1. CallIds = {} /\ \A s \in Sessions : grants[s] = [tools |-> {}, categories |-> {}]
    BY DEF Init, CallIds, NoGrants
  <2>2. QED
    BY <2>1 DEF AsksInv, GrantsInv, AlwaysReleases
<1>2. Typed /\ AsksInv /\ [Next]_vars => AsksInv'
  BY AsksStep
<1>3. QED
  BY <1>1, <1>2, AlwaysTyped, PTL DEF Spec

(* However the host's answers, the timers and the grants of any number of  *)
(* parallel asks race: an ask is settled once, a tool runs only on the     *)
(* host's word or on an "always" given in the same chat, and such an       *)
(* "always" leaves no ask open that it covers: those that are open under a *)
(* grant were posted under it.                                             *)
THEOREM AsksAreSettledRightly == Spec => []AsksSound
<1>1. Typed /\ AsksInv => SettledRightly
  <2> SUFFICES ASSUME Typed, AsksInv, NEW c \in CallIds
               PROVE  /\ Len(calls[c].frames) <= 1
                      /\ calls[c].ran /\ ~IsQuestion(c) =>
                           \/ calls[c].frames # <<>> /\ Head(calls[c].frames).by = "host"
                                                     /\ Head(calls[c].frames).decision # "deny"
                           \/ Sanctioned(SessionOf(c), calls[c].tool)
                      /\ calls[c].state = "returned" /\ calls[c].frames # <<>> =>
                           (calls[c].ran <=> Head(calls[c].frames).decision \notin {"deny", "null"})
    BY DEF SettledRightly
  <2>1. /\ AskInv(c) /\ calls[c].state \in {"deciding", "pending", "settled", "returned"}
        /\ calls[c].frames \in Seq(FrameType)
    BY CallFacts DEF Typed, AsksInv, CallType
  <2>2. calls[c].frames # <<>> => Head(calls[c].frames).by \in {"host", "timer", "grant"}
    <3>1. calls[c].frames # <<>> => Head(calls[c].frames) \in FrameType
      BY <2>1
    <3>2. QED
      BY <3>1 DEF FrameType
  <2>3. Len(calls[c].frames) <= 1
    <3>1. CASE calls[c].frames = <<>>
      BY <3>1
    <3>2. CASE calls[c].frames # <<>>
      <4>1. Len(calls[c].frames) = 1
        BY <2>1, <3>2 DEF AskInv
      <4>2. QED
        BY <4>1
    <3>3. QED
      BY <3>1, <3>2
  <2>4. calls[c].ran => calls[c].state = "returned"
    BY <2>1 DEF AskInv
  <2>5. CASE calls[c].frames = <<>>
    BY <2>1, <2>3, <2>4, <2>5 DEF AskInv
  <2>6. CASE calls[c].frames # <<>>
    BY <2>1, <2>2, <2>3, <2>4, <2>6 DEF AskInv
  <2>7. QED
    BY <2>5, <2>6
<1>2. Typed /\ AsksInv => AsksSound
  BY <1>1 DEF AsksInv, AsksSound
<1>3. QED
  BY <1>2, AlwaysTyped, AlwaysAsksInv, PTL
=============================================================================
