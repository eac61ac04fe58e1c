---------------------------- MODULE TaskTool_proofs -------------------------
(* Proofs about TaskTool, for any chats and any number of calls, turns,    *)
(* reworks and crashes.                                                    *)
EXTENDS TaskTool, SequenceTheorems, TLAPS

-----------------------------------------------------------------------------
(*                              Typing                                     *)

ProcessType ==
  [bound : opts.chats \cup {Nobody}, queue : Seq(Events), cleared : SUBSET Ids]

LEMMA OptionFacts ==
  ASSUME opts \in Options
  PROVE  /\ opts.host \in {"tui", "headless"} /\ opts.chats \subseteq Chats
         /\ Nobody \notin opts.chats
         /\ Tui => \A c, d \in opts.chats : c = d
         /\ opts.rounds \in Nat /\ opts.cap \in Nat
  BY OptionsAssumption, ChatsAssumption DEF Tui

LEMMA EventTyped ==
  ASSUME NEW kind \in {"open", "cleared"}, NEW id \in Ids, NEW work \in Ids
  PROVE  Event(kind, id, work) \in Events
  BY DEF Event, Events

LEMMA DebtsTyped ==
  ASSUME NEW b \in Buckets, NEW id \in Ids, NEW work \in Ids
  PROVE  Put(b, id, work) \in Buckets /\ Drop(b, id) \in Buckets
  BY DEF Put, Drop, Buckets, Debt

LEMMA ReplayTyped ==
  ASSUME NEW s \in Seq(Events)
  PROVE  Replay(s) \in Buckets
<1>1. \A i \in DOMAIN s : s[i] \in Events
  OBVIOUS
<1>2. \A e \in Events : e.id \in Ids /\ e.work \in Ids
  BY DEF Events
<1>3. QED
  BY <1>1, <1>2 DEF Replay, Debt, Buckets

LEMMA MergeTyped ==
  ASSUME NEW b \in Buckets, NEW e \in Buckets
  PROVE  Merge(b, e) \in Buckets
  BY DEF Merge, Buckets

LEMMA ScopeFacts ==
  ASSUME TypeOK, NEW c \in opts.chats
  PROVE  /\ chat[c] \in ScopeType /\ log[c] \in Seq(Events)
         /\ Replay(log[c]) \in Buckets
         /\ process.queue \in Seq(Events) /\ Len(process.queue) \in Nat
         /\ NewScope \in ScopeType
<1>1. chat[c] \in ScopeType /\ log[c] \in Seq(Events) /\ process.queue \in Seq(Events)
  BY DEF TypeOK
<1>2. NewScope \in ScopeType
  BY DEF NewScope, ScopeType, Buckets
<1>3. QED
  BY <1>1, <1>2, ReplayTyped

LEMMA InitTyped ==
  ASSUME Init
  PROVE  TypeOK
<1>1. NewScope \in ScopeType
  BY DEF NewScope, ScopeType, Buckets
<1>2. NewProcess \in ProcessType
  BY DEF NewProcess, ProcessType
<1>3. QED
  BY <1>1, <1>2 DEF Init, TypeOK, ProcessType

LEMMA ScopeSet ==
  ASSUME TypeOK, NEW c \in opts.chats, NEW rec \in ScopeType, chat' = [chat EXCEPT ![c] = rec]
  PROVE  chat' \in [opts.chats -> ScopeType]
  BY DEF TypeOK

LEMMA Frame ==
  ASSUME TypeOK, UNCHANGED <<opts, log, calls, made, owed>>,
         chat' \in [opts.chats -> ScopeType],
         process' \in ProcessType
  PROVE  TypeOK'
  BY DEF TypeOK, CallType, ProcessType

LEMMA TurnTyped ==
  ASSUME TypeOK, NEW c \in opts.chats,
         StartTurn(c) \/ Bind(c) \/ Hydrate(c) \/ Complete(c) \/ Gate(c) \/ Refuse(c)
  PROVE  TypeOK'
<1> DEFINE s == chat[c]
<1>0. /\ s \in ScopeType /\ log[c] \in Seq(Events) /\ Replay(log[c]) \in Buckets
      /\ Len(process.queue) \in Nat /\ NewScope \in ScopeType
      /\ s.turns \in Nat /\ s.spawned \in Nat /\ s.debts \in Buckets /\ s.carried \in Buckets
  BY ScopeFacts DEF ScopeType
<1>p. process \in ProcessType /\ chat \in [opts.chats -> ScopeType]
  BY DEF TypeOK, ProcessType
<1> HIDE DEF s
<1>1. CASE StartTurn(c)
  <2> DEFINE x == IF Tui
       THEN [s EXCEPT !.pc = "starting", !.flush = Len(process.queue), !.spawned = 0,
                      !.outcome = "none", !.cancelled = FALSE]
       ELSE [NewScope EXCEPT !.pc = "starting", !.turns = s.turns]
  <2>1. x \in ScopeType
    BY <1>0 DEF ScopeType
  <2>2. chat' = [chat EXCEPT ![c] = x]
    BY <1>1, <1>p DEF StartTurn, s
  <2>3. process' = process /\ UNCHANGED <<opts, log, calls, made, owed>>
    BY <1>1 DEF StartTurn
  <2> HIDE DEF x
  <2>4. QED
    BY <2>1, <2>2, <2>3, <1>p, ScopeSet, Frame
<1>2. CASE Bind(c)
  <2> DEFINE x == [s EXCEPT !.pc = "hydrating", !.debts = {}]
  <2>1. x \in ScopeType
    BY <1>0 DEF ScopeType, Buckets
  <2>2. chat' = [chat EXCEPT ![c] = x]
    BY <1>2, <1>p DEF Bind, s
  <2>3. process' \in ProcessType /\ UNCHANGED <<opts, log, calls, made, owed>>
    BY <1>2, <1>p DEF Bind, ProcessType
  <2> HIDE DEF x
  <2>4. QED
    BY <2>1, <2>2, <2>3, ScopeSet, Frame
<1>3. CASE Hydrate(c)
  <2> DEFINE r == [s EXCEPT !.pc = "running", !.trace = FALSE]
             x == IF Tui THEN [r EXCEPT !.debts = Merge(r.debts, Replay(log[c]))]
                  ELSE [r EXCEPT !.carried = Merge(r.carried, Replay(log[c]))]
  <2>r. r \in ScopeType /\ r.debts \in Buckets /\ r.carried \in Buckets
    BY <1>0 DEF ScopeType
  <2>2. chat' = [chat EXCEPT ![c] = x]
    BY <1>3, <1>p DEF Hydrate, s
  <2> HIDE DEF r
  <2>m. Merge(r.debts, Replay(log[c])) \in Buckets /\ Merge(r.carried, Replay(log[c])) \in Buckets
    BY <1>0, <2>r, MergeTyped
  <2>1. x \in ScopeType
    BY <2>r, <2>m DEF ScopeType
  <2>3. process' = process /\ UNCHANGED <<opts, log, calls, made, owed>>
    BY <1>3 DEF Hydrate
  <2> HIDE DEF x
  <2>4. QED
    BY <2>1, <2>2, <2>3, <1>p, ScopeSet, Frame
<1>4. CASE Complete(c)
  <2> DEFINE x == [s EXCEPT !.pc = "closing", !.flush = Len(process.queue)]
  <2>1. x \in ScopeType
    BY <1>0 DEF ScopeType
  <2>2. chat' = [chat EXCEPT ![c] = x]
    BY <1>4, <1>p DEF Complete, s
  <2>3. process' = process /\ UNCHANGED <<opts, log, calls, made, owed>>
    BY <1>4 DEF Complete
  <2> HIDE DEF x
  <2>4. QED
    BY <2>1, <2>2, <2>3, <1>p, ScopeSet, Frame
<1>5. CASE Gate(c)
  <2>v. PICK v \in {"clean", "blocked", "cancelled"} : v = Verdict(c)
    BY DEF Verdict
  <2>n. PICK n \in Nat : n = s.turns + 1
    BY <1>0
  <2> DEFINE x == [s EXCEPT !.pc = "idle", !.outcome = v, !.turns = n]
  <2>1. x \in ScopeType
    BY <1>0 DEF ScopeType
  <2>2. chat' = [chat EXCEPT ![c] = x]
    BY <1>5, <1>p, <2>v, <2>n DEF Gate, s
  <2>3. process' \in ProcessType /\ UNCHANGED <<opts, log, calls, made, owed>>
    BY <1>5, <1>p DEF Gate, ProcessType
  <2> HIDE DEF x
  <2>4. QED
    BY <2>1, <2>2, <2>3, ScopeSet, Frame
<1>6. CASE Refuse(c)
  <2> DEFINE x == [s EXCEPT !.spawned = @ + 1]
  <2>1. x \in ScopeType
    BY <1>0 DEF ScopeType
  <2>2. chat' = [chat EXCEPT ![c] = x]
    BY <1>6, <1>p DEF Refuse, s
  <2>3. process' = process /\ UNCHANGED <<opts, log, calls, made, owed>>
    BY <1>6 DEF Refuse
  <2> HIDE DEF x
  <2>4. QED
    BY <2>1, <2>2, <2>3, <1>p, ScopeSet, Frame
<1>7. QED
  BY <1>1, <1>2, <1>3, <1>4, <1>5, <1>6

(* A step that leaves the environment and the logs alone.                  *)
LEMMA CallFrame ==
  ASSUME TypeOK, UNCHANGED <<opts, log>>, chat' \in [opts.chats -> ScopeType],
         calls' \subseteq CallType, process' \in ProcessType,
         owed' \in [opts.chats -> SUBSET Ids], made' \in [calls : Nat, crashes : Nat]
  PROVE  TypeOK'
  BY DEF TypeOK, CallType, ProcessType

LEMMA CallFacts ==
  ASSUME TypeOK, NEW t \in calls
  PROVE  /\ t \in CallType /\ t.chat \in opts.chats /\ t.id \in Ids /\ t.work \in Ids
         /\ t.round \in 0 .. opts.rounds
         /\ chat[t.chat] \in ScopeType /\ process \in ProcessType
         /\ calls \subseteq CallType /\ owed \in [opts.chats -> SUBSET Ids]
         /\ made \in [calls : Nat, crashes : Nat] /\ chat \in [opts.chats -> ScopeType]
<1>1. t \in CallType
  BY DEF TypeOK
<1>2. QED
  BY <1>1 DEF TypeOK, CallType, ProcessType

(* What a call does to its scope leaves a scope.                           *)
LEMMA RecordTyped ==
  ASSUME TypeOK, NEW t \in calls, NEW rec \in ScopeType, NEW traced \in BOOLEAN
  PROVE  /\ Publish(t, traced, rec) \in ScopeType
         /\ Opened(t, rec) \in ScopeType /\ Cleared(t, rec) \in ScopeType
         /\ Renumbered(t, rec) \in ScopeType
<1>0. t.id \in Ids /\ t.work \in Ids /\ rec.debts \in Buckets /\ rec.ids \in Nat
  BY CallFacts DEF ScopeType
<1>1. Put(rec.debts, t.id, t.work) \in Buckets /\ Drop(rec.debts, t.id) \in Buckets
  BY <1>0, DebtsTyped
<1>2. [rec EXCEPT !.trace = traced] \in ScopeType
  BY DEF ScopeType
<1>3. [rec EXCEPT !.debts = Put(rec.debts, t.id, t.work)] \in ScopeType
  BY <1>1 DEF ScopeType
<1>4. [rec EXCEPT !.debts = Drop(rec.debts, t.id)] \in ScopeType
  BY <1>1 DEF ScopeType
<1>5. [rec EXCEPT !.ids = rec.ids + 1] \in ScopeType
  BY <1>0 DEF ScopeType
<1>6. QED
  BY <1>2, <1>3, <1>4, <1>5 DEF Publish, Opened, Cleared, Renumbered

LEMMA QueueTyped ==
  ASSUME TypeOK, NEW t \in calls
  PROVE  [process EXCEPT !.queue = Owing(t)] \in ProcessType
         /\ [process EXCEPT !.queue = Clearing(t)] \in ProcessType
<1>1. process \in ProcessType /\ t.id \in Ids /\ t.work \in Ids
  BY CallFacts
<1>2. Event("open", t.id, t.work) \in Events /\ Event("cleared", t.id, t.work) \in Events
  BY <1>1, EventTyped
<1>3. Owing(t) \in Seq(Events) /\ Clearing(t) \in Seq(Events)
  BY <1>1, <1>2 DEF Owing, Clearing, ProcessType
<1>4. QED
  BY <1>1, <1>3 DEF ProcessType

LEMMA AdvancedTyped ==
  ASSUME TypeOK, NEW t \in calls
  PROVE  /\ \A by \in {"user", "timer"} : GivenUp(t, by) \in CallType
         /\ \A left \in BOOLEAN : [t EXCEPT !.pc = "verify", !.left = left] \in CallType
         /\ MayRework(t) => [t EXCEPT !.pc = "rework", !.round = @ + 1] \in CallType
         /\ [t EXCEPT !.pc = "verify", !.reworked = TRUE] \in CallType
<1>1. t \in CallType /\ t.round \in 0 .. opts.rounds /\ opts.rounds \in Nat
  BY CallFacts, OptionFacts DEF TypeOK
<1>2. MayRework(t) => t.round + 1 \in 0 .. opts.rounds
  BY <1>1 DEF MayRework
<1>3. MayRework(t) => [t EXCEPT !.pc = "rework", !.round = t.round + 1] \in CallType
  BY <1>1, <1>2 DEF CallType
<1>4. QED
  BY <1>1, <1>3 DEF CallType, GivenUp

LEMMA CallTyped ==
  ASSUME TypeOK, NEW t \in calls, Call(t)
  PROVE  TypeOK'
<1> DEFINE c == t.chat
           X == [opts.chats -> ScopeType]
<1>0. /\ c \in opts.chats /\ chat[c] \in ScopeType /\ chat \in X /\ process \in ProcessType
      /\ calls \subseteq CallType /\ owed \in [opts.chats -> SUBSET Ids] /\ t.work \in Ids
      /\ made \in [calls : Nat, crashes : Nat]
  BY CallFacts
<1>1. \A x \in ScopeType : [chat EXCEPT ![c] = x] \in X
  BY <1>0
<1>2. \A traced \in BOOLEAN :
        /\ [chat EXCEPT ![c].trace = traced] \in X
        /\ Publish(t, traced, chat[c]) \in ScopeType
        /\ Opened(t, Publish(t, traced, chat[c])) \in ScopeType
        /\ Cleared(t, Publish(t, traced, chat[c])) \in ScopeType
        /\ Renumbered(t, Publish(t, traced, chat[c])) \in ScopeType
        /\ Opened(t, chat[c]) \in ScopeType
        /\ Renumbered(t, Opened(t, chat[c])) \in ScopeType
        /\ Renumbered(t, chat[c]) \in ScopeType
  <2> TAKE traced \in BOOLEAN
  <2>1. Publish(t, traced, chat[c]) \in ScopeType /\ Opened(t, chat[c]) \in ScopeType
    BY <1>0, RecordTyped
  <2>2. [chat[c] EXCEPT !.trace = traced] \in ScopeType
    BY <1>0 DEF ScopeType
  <2>3. QED
    BY <1>0, <1>1, <2>1, <2>2, RecordTyped
<1> HIDE DEF X
<1>3. CASE \E traced \in BOOLEAN : Answer(t, traced)
  BY <1>0, <1>2, <1>3, CallFrame DEF Answer, Return, X
<1>4. CASE Overrun(t)
  BY <1>0, <1>4, AdvancedTyped, CallFrame DEF Overrun, Advance, X
<1>5. CASE GeneralFails(t)
  BY <1>0, <1>5, CallFrame DEF GeneralFails, Return, X
<1>6. CASE \E applied, late, left \in BOOLEAN : GeneralDone(t, applied, late, left)
  <2>1. PICK applied \in BOOLEAN, late \in BOOLEAN, left \in BOOLEAN :
          GeneralDone(t, applied, late, left)
    BY <1>6
  <2>u. PICK u \in CallType : u = [t EXCEPT !.pc = "verify", !.left = left]
    BY AdvancedTyped
  <2>c. calls' = (calls \ {t}) \cup {u} \/ calls' = calls \ {t}
    BY <2>1, <2>u DEF GeneralDone, Advance, Return
  <2>2. calls' \subseteq CallType
    BY <1>0, <2>c
  <2>3. chat' \in X
    BY <1>0, <1>1, <1>2, <2>1 DEF GeneralDone
  <2>4. owed' \in [opts.chats -> SUBSET Ids]
    BY <1>0, <2>1 DEF GeneralDone
  <2>5. process' \in ProcessType /\ UNCHANGED <<opts, log, made>>
    BY <2>1, QueueTyped DEF GeneralDone
  <2>6. QED
    BY <1>0, <2>2, <2>3, <2>4, <2>5, CallFrame DEF X
<1>7. CASE \E traced \in BOOLEAN : Reject(t, traced)
  <2>1. PICK traced \in BOOLEAN : Reject(t, traced)
    BY <1>7
  <2>2. calls' \subseteq CallType
    BY <1>0, <2>1, AdvancedTyped DEF Reject, Advance
  <2>3. chat' \in X
    BY <1>1, <1>2, <2>1 DEF Reject
  <2>4. QED
    BY <1>0, <2>1, <2>2, <2>3, CallFrame DEF Reject, X
<1>8. CASE \E traced \in BOOLEAN : Pass(t, traced)
  <2>1. PICK traced \in BOOLEAN : Pass(t, traced)
    BY <1>8
  <2>2. calls' \subseteq CallType
    BY <1>0, <2>1 DEF Pass, Return
  <2>3. chat' \in X
    BY <1>0, <1>1, <1>2, <2>1 DEF Pass
  <2>4. owed' \in [opts.chats -> SUBSET Ids]
    BY <1>0, <2>1 DEF Pass
  <2>5. process' \in ProcessType /\ UNCHANGED <<opts, log, made>>
    BY <2>1, QueueTyped DEF Pass
  <2>6. QED
    BY <1>0, <2>2, <2>3, <2>4, <2>5, CallFrame DEF X
<1>9. CASE \E traced \in BOOLEAN, verdict \in Verdicts : GiveUp(t, verdict, traced)
  <2>1. PICK traced \in BOOLEAN, verdict \in Verdicts : GiveUp(t, verdict, traced)
    BY <1>9
  <2>2. calls' \subseteq CallType
    BY <1>0, <2>1 DEF GiveUp, Return
  <2>3. chat' \in X
    BY <1>0, <1>1, <1>2, <2>1 DEF GiveUp
  <2>4. process' \in ProcessType /\ UNCHANGED <<opts, log, made, owed>>
    BY <2>1, QueueTyped DEF GiveUp
  <2>5. QED
    BY <1>0, <2>2, <2>3, <2>4, CallFrame DEF X
<1>10. CASE ReworkFails(t)
  <2>1. chat' \in X
    BY <1>0, <1>1, <1>2, <1>10 DEF ReworkFails
  <2>2. process' \in ProcessType /\ UNCHANGED <<opts, log, made, owed>>
    BY <1>10, QueueTyped DEF ReworkFails
  <2>3. QED
    BY <1>0, <1>10, <2>1, <2>2, CallFrame DEF ReworkFails, Return, X
<1>11. CASE ReworkDone(t)
  <2>2. chat' \in X
    BY <1>0, <1>1, <1>2, <1>11 DEF ReworkDone
  <2>3. calls' \subseteq CallType
    BY <1>0, <1>11, AdvancedTyped DEF ReworkDone, Advance
  <2>4. QED
    BY <1>0, <1>11, <2>2, <2>3, CallFrame DEF ReworkDone, X
<1>12. QED
  BY <1>3, <1>4, <1>5, <1>6, <1>7, <1>8, <1>9, <1>10, <1>11 DEF Call

LEMMA CancelTyped ==
  ASSUME TypeOK, NEW c \in opts.chats, Cancel(c)
  PROVE  TypeOK'
<1> DEFINE s == chat[c]
           x == [s EXCEPT !.pc = "closing", !.flush = Len(process.queue), !.cancelled = TRUE]
<1>1. /\ s \in ScopeType /\ Len(process.queue) \in Nat /\ process \in ProcessType
      /\ owed \in [opts.chats -> SUBSET Ids] /\ made \in [calls : Nat, crashes : Nat]
      /\ calls \subseteq CallType
  BY ScopeFacts DEF TypeOK, ProcessType
<1>2. x \in ScopeType
  BY <1>1 DEF ScopeType
<1>3. chat' = [chat EXCEPT ![c] = x]
  BY DEF Cancel, TypeOK
<1>4. calls' \subseteq CallType
  BY <1>1, AdvancedTyped DEF Cancel, Waited, CallsOf
<1> HIDE DEF x
<1>5. QED
  BY <1>1, <1>2, <1>3, <1>4, ScopeSet, CallFrame DEF Cancel

LEMMA SpawnTyped ==
  ASSUME TypeOK, NEW c \in opts.chats, NEW kind \in {"explore", "verify", "general"}, Spawn(c, kind)
  PROVE  TypeOK'
<1>1. /\ chat[c] \in ScopeType /\ process \in ProcessType
      /\ owed \in [opts.chats -> SUBSET Ids] /\ made \in [calls : Nat, crashes : Nat]
      /\ calls \subseteq CallType /\ opts.rounds \in Nat
  BY ScopeFacts, OptionFacts DEF TypeOK, ProcessType
<1>2. PICK i \in Ids, w \in Ids, n \in Nat, k \in Nat :
        i = chat[c].ids + 1 /\ w = made.calls + 1 /\ n = chat[c].spawned + 1 /\ k = chat[c].turns
  BY <1>1 DEF ScopeType, Ids
<1> DEFINE x == [chat[c] EXCEPT !.spawned = n, !.ids = i]
           u == [chat |-> c, turn |-> k, kind |-> kind, pc |-> "run",
                 id |-> i, work |-> w, round |-> 0,
                 left |-> FALSE, reworked |-> FALSE, waited |-> TRUE, told |-> "no"]
<1>3. x \in ScopeType
  BY <1>1, <1>2 DEF ScopeType, Ids
<1>4. u \in CallType
  BY <1>1 DEF CallType
<1>5. chat' = [chat EXCEPT ![c] = x] /\ calls' = calls \cup {u} /\ UNCHANGED <<opts, process, log, owed>>
  BY <1>2 DEF Spawn, TypeOK
<1>6. made' \in [calls : Nat, crashes : Nat]
  BY <1>1 DEF Spawn
<1> HIDE DEF x, u
<1>7. QED
  BY <1>1, <1>3, <1>4, <1>5, <1>6, ScopeSet, CallFrame

LEMMA RestTyped ==
  ASSUME TypeOK, Land \/ Crash \/ \E c \in opts.chats : \E d \in Replay(log[c]) : Waive(c, d)
  PROVE  TypeOK'
<1>0. /\ process \in ProcessType /\ chat \in [opts.chats -> ScopeType]
      /\ log \in [opts.chats -> Seq(Events)] /\ calls \subseteq CallType
      /\ owed \in [opts.chats -> SUBSET Ids] /\ made \in [calls : Nat, crashes : Nat]
      /\ \A c \in opts.chats : chat[c] \in ScopeType /\ Replay(log[c]) \in Buckets
      /\ NewScope \in ScopeType
  <2>1. \A c \in opts.chats : chat[c] \in ScopeType /\ Replay(log[c]) \in Buckets
    BY ScopeFacts
  <2>2. NewScope \in ScopeType
    BY DEF NewScope, ScopeType, Buckets
  <2>3. QED
    BY <2>1, <2>2 DEF TypeOK, ProcessType
<1>1. CASE Land
  <2> DEFINE e == Head(process.queue)
  <2>q. /\ process.queue \in Seq(Events) /\ process.queue # <<>>
        /\ process.cleared \subseteq Ids /\ process.bound \in opts.chats \cup {Nobody}
    BY <1>0, <1>1 DEF Land, ProcessType
  <2>h. e \in Events /\ Tail(process.queue) \in Seq(Events)
    BY <2>q
  <2>1. /\ e \in Events /\ Tail(process.queue) \in Seq(Events) /\ e.id \in Ids
        /\ process.cleared \subseteq Ids /\ process.bound \in opts.chats \cup {Nobody}
    BY <2>q, <2>h DEF Events
  <2>2. log' \in [opts.chats -> Seq(Events)]
    <3>1. \A d \in opts.chats : Append(log[d], e) \in Seq(Events)
      BY <1>0, <2>1
    <3>2. log' = log \/ \E d \in opts.chats : log' = [log EXCEPT ![d] = Append(log[d], e)]
      BY <1>0, <1>1, <2>1 DEF Land
    <3> HIDE DEF e
    <3>3. QED
      BY <1>0, <3>1, <3>2
  <2>3. process' \in ProcessType
    <3>1. Noted(e) \subseteq Ids
      BY <2>1 DEF Noted
    <3>2. \E cl \in SUBSET Ids : process' = [process EXCEPT !.queue = Tail(process.queue), !.cleared = cl]
      BY <1>1, <2>1, <3>1 DEF Land
    <3>3. QED
      BY <1>0, <2>1, <3>2 DEF ProcessType
  <2>4. chat' \in [opts.chats -> ScopeType]
    <3>1. \A c \in opts.chats : chat'[c] = [chat[c] EXCEPT !.flush = IF chat[c].flush = 0 THEN 0 ELSE chat[c].flush - 1]
      BY <1>1 DEF Land
    <3>2. \A c \in opts.chats : (IF chat[c].flush = 0 THEN 0 ELSE chat[c].flush - 1) \in Nat
      BY <1>0 DEF ScopeType
    <3>3. \A c \in opts.chats : chat'[c] \in ScopeType
      <4> TAKE c \in opts.chats
      <4>1. PICK n \in Nat : n = IF chat[c].flush = 0 THEN 0 ELSE chat[c].flush - 1
        BY <3>2
      <4>2. chat'[c] = [chat[c] EXCEPT !.flush = n] /\ chat[c] \in ScopeType
        BY <1>0, <3>1, <4>1
      <4>3. QED
        BY <4>2 DEF ScopeType
    <3>4. QED
      BY <1>1, <3>3 DEF Land
  <2>5. QED
    BY <1>0, <1>1, <2>2, <2>3, <2>4 DEF Land, TypeOK, CallType, ProcessType
<1>2. CASE Crash
  <2>1. \A c \in opts.chats : [NewScope EXCEPT !.turns = chat[c].turns] \in ScopeType
    BY <1>0 DEF ScopeType
  <2>2. chat' \in [opts.chats -> ScopeType]
    BY <1>2, <2>1 DEF Crash
  <2>3. \A c \in opts.chats : Works(Replay(log[c])) \subseteq Ids
    BY <1>0 DEF Works, Buckets
  <2>4. owed' \in [opts.chats -> SUBSET Ids]
    BY <1>2, <2>3 DEF Crash
  <2>n. PICK n \in Nat : n = made.crashes + 1
    BY <1>0
  <2>m. made' = [made EXCEPT !.crashes = n] /\ process' = NewProcess /\ opts' = opts
    BY <1>2, <2>n DEF Crash
  <2>5. process' \in ProcessType /\ made' \in [calls : Nat, crashes : Nat]
    BY <1>0, <2>m DEF NewProcess, ProcessType
  <2>6. QED
    BY <1>2, <2>2, <2>4, <2>5, CallFrame DEF Crash
<1>3. CASE \E c \in opts.chats : \E d \in Replay(log[c]) : Waive(c, d)
  <2>1. PICK c \in opts.chats : \E d \in Replay(log[c]) : Waive(c, d)
    BY <1>3
  <2>2. PICK d \in Replay(log[c]) : Waive(c, d)
    BY <2>1
  <2>3. d.id \in Ids /\ d.work \in Ids
    BY <1>0, <2>2 DEF Buckets
  <2>4. PICK e \in Events : e = Event("cleared", d.id, d.work)
    BY <2>3, EventTyped
  <2>5. log' = [log EXCEPT ![c] = Append(log[c], e)] /\ owed' = [owed EXCEPT ![c] = owed[c] \ {d.work}]
    BY <2>2, <2>4 DEF Waive
  <2>6. log' \in [opts.chats -> Seq(Events)] /\ owed' \in [opts.chats -> SUBSET Ids]
    BY <1>0, <2>4, <2>5
  <2>7. UNCHANGED <<opts, chat, process, calls, made>>
    BY <2>2 DEF Waive
  <2>8. QED
    BY <1>0, <2>6, <2>7 DEF TypeOK, CallType, ProcessType
<1>4. QED
  BY <1>1, <1>2, <1>3

LEMMA TypedStep == TypeOK /\ [Next]_vars => TypeOK'
<1> SUFFICES ASSUME TypeOK, [Next]_vars PROVE TypeOK'
  OBVIOUS
<1>1. CASE \E c \in opts.chats : Turn(c)
  <2>1. PICK c \in opts.chats : Turn(c)
    BY <1>1
  <2>2. CASE StartTurn(c) \/ Bind(c) \/ Hydrate(c) \/ Complete(c) \/ Gate(c) \/ Refuse(c)
    BY <2>2, TurnTyped
  <2>3. CASE Cancel(c)
    BY <2>3, CancelTyped
  <2>4. CASE \E kind \in {"explore", "verify", "general"} : Spawn(c, kind)
    BY <2>4, SpawnTyped
  <2>5. CASE \E d \in Replay(log[c]) : Waive(c, d)
    BY <2>5, RestTyped
  <2>6. QED
    BY <2>1, <2>2, <2>3, <2>4, <2>5 DEF Turn
<1>2. CASE \E t \in calls : Call(t)
  BY <1>2, CallTyped
<1>3. CASE Land \/ Crash
  BY <1>3, RestTyped
<1>4. CASE UNCHANGED vars
  BY <1>4 DEF vars, TypeOK, CallType
<1>5. QED
  BY <1>1, <1>2, <1>3, <1>4 DEF Next

(* The maps of the process and the logs hold what they are for: debts have *)
(* ids and works, the log only events of debts, whatever calls, turns,     *)
(* crashes and waivers do.                                                 *)
THEOREM TypeCorrect == Spec => []TypeOK
  BY InitTyped, TypedStep, PTL DEF Spec

-----------------------------------------------------------------------------
(*                       What a log of events says                         *)

LEMMA ReplayFunctional ==
  ASSUME NEW s \in Seq(Events), NEW d \in Replay(s), NEW e \in Replay(s), d.id = e.id
  PROVE  d = e
<1>1. PICK i \in 1 .. Len(s) : /\ s[i].kind = "open" /\ d = Debt(s[i].id, s[i].work)
                               /\ \A j \in 1 .. Len(s) : j > i => s[j].id # s[i].id
  BY DEF Replay
<1>2. PICK k \in 1 .. Len(s) : /\ s[k].kind = "open" /\ e = Debt(s[k].id, s[k].work)
                               /\ \A j \in 1 .. Len(s) : j > k => s[j].id # s[k].id
  BY DEF Replay
<1>3. s[i].id = s[k].id
  BY <1>1, <1>2 DEF Debt
<1>4. i = k
  BY <1>1, <1>2, <1>3
<1>5. QED
  BY <1>1, <1>2, <1>4

(* A debt comes from an event that opened it.                              *)
LEMMA ReplaySource ==
  ASSUME NEW s \in Seq(Events), NEW d \in Replay(s)
  PROVE  \E i \in 1 .. Len(s) :
           /\ s[i].kind = "open" /\ s[i].id = d.id /\ s[i].work = d.work
           /\ \A j \in 1 .. Len(s) : j > i => s[j].id # d.id
  BY DEF Replay, Debt

LEMMA ReplayAppend ==
  ASSUME NEW s \in Seq(Events), NEW e \in Events
  PROVE  Replay(Append(s, e)) =
           IF e.kind = "open" THEN Put(Replay(s), e.id, e.work) ELSE Drop(Replay(s), e.id)
<1> DEFINE r == Append(s, e)
           n == Len(s)
           Last(q, i) == q[i].kind = "open" /\ \A j \in 1 .. Len(q) : j > i => q[j].id # q[i].id
<1>0. /\ n \in Nat /\ Len(r) = n + 1 /\ r[n + 1] = e /\ \A i \in 1 .. n : r[i] = s[i]
      /\ DOMAIN r = 1 .. n + 1 /\ DOMAIN s = 1 .. n
  OBVIOUS
<1> HIDE DEF r, n
<1>1. \A d : d \in Replay(s) <=> \E i \in 1 .. n : Last(s, i) /\ d = Debt(s[i].id, s[i].work)
  BY <1>0 DEF Replay, n
<1>2. \A d : d \in Replay(r) <=> \E i \in 1 .. n + 1 : Last(r, i) /\ d = Debt(r[i].id, r[i].work)
  BY <1>0 DEF Replay
<1>3. \A i \in 1 .. n : Last(r, i) <=> Last(s, i) /\ s[i].id # e.id
  BY <1>0 DEF n
<1>4. Last(r, n + 1) <=> e.kind = "open"
  BY <1>0
<1>5. \A d : d \in Replay(r) <=>
        \/ d \in Replay(s) /\ d.id # e.id
        \/ e.kind = "open" /\ d = Debt(e.id, e.work)
  <2> TAKE d
  <2>1. ASSUME d \in Replay(s), d.id # e.id PROVE d \in Replay(r)
    <3>1. PICK i \in 1 .. n : Last(s, i) /\ d = Debt(s[i].id, s[i].work)
      BY <1>1, <2>1
    <3>2. s[i].id # e.id /\ i \in 1 .. n + 1 /\ r[i] = s[i]
      BY <1>0, <2>1, <3>1 DEF Debt
    <3>3. Last(r, i)
      BY <1>3, <3>1, <3>2
    <3> HIDE DEF Last
    <3>4. QED
      BY <1>2, <3>1, <3>2, <3>3
  <2>2. ASSUME e.kind = "open", d = Debt(e.id, e.work) PROVE d \in Replay(r)
    <3> HIDE DEF Last
    <3>1. QED
      BY <1>0, <1>2, <1>4, <2>2
  <2>3. ASSUME d \in Replay(r)
        PROVE  (d \in Replay(s) /\ d.id # e.id) \/ (e.kind = "open" /\ d = Debt(e.id, e.work))
    <3>1. PICK i \in 1 .. n + 1 : Last(r, i) /\ d = Debt(r[i].id, r[i].work)
      BY <1>2, <2>3
    <3> HIDE DEF Last
    <3>2. CASE i = n + 1
      BY <1>0, <1>4, <3>1, <3>2
    <3>3. CASE i \in 1 .. n
      <4>1. r[i] = s[i] /\ Last(s, i) /\ s[i].id # e.id
        BY <1>0, <1>3, <3>1, <3>3
      <4>2. d \in Replay(s)
        BY <1>1, <3>1, <3>3, <4>1
      <4>3. d.id = s[i].id
        BY <3>1, <4>1 DEF Debt
      <4>4. QED
        BY <4>1, <4>2, <4>3
    <3>4. QED
      BY <1>0, <3>2, <3>3
  <2>4. QED
    BY <2>1, <2>2, <2>3
<1>6. QED
  BY <1>5 DEF Put, Drop, r

(* From the m-th event on, s says the same.                                *)
Steady(s, m) == \A k \in m .. Len(s) : Replay(SubSeq(s, 1, k)) = Replay(s)

LEMMA SteadyPrefix ==
  ASSUME NEW p \in Seq(Events), NEW q \in Seq(Events), Steady(p \o q, Len(p))
  PROVE  Replay(p \o q) = Replay(p)
<1>1. Len(p) \in Len(p) .. Len(p \o q)
  OBVIOUS
<1>2. SubSeq(p \o q, 1, Len(p)) = p
  OBVIOUS
<1>3. Replay(SubSeq(p \o q, 1, Len(p))) = Replay(p \o q)
  BY <1>1, Zenon DEF Steady
<1>4. QED
  BY <1>2, <1>3

LEMMA SteadyEnd ==
  ASSUME NEW s \in Seq(Events)
  PROVE  Steady(s, Len(s))
<1> SUFFICES ASSUME NEW k \in Len(s) .. Len(s) PROVE SubSeq(s, 1, k) = s
  BY Zenon DEF Steady
<1>1. SubSeq(s, 1, Len(s)) = s /\ k = Len(s)
  OBVIOUS
<1>2. QED
  BY <1>1

LEMMA SteadyAppend ==
  ASSUME NEW s \in Seq(Events), NEW e \in Events, NEW m \in Nat, Steady(s, m),
         Replay(Append(s, e)) = Replay(s)
  PROVE  Steady(Append(s, e), m)
<1>0. Len(Append(s, e)) = Len(s) + 1
  OBVIOUS
<1> SUFFICES ASSUME NEW k \in m .. Len(s) + 1
             PROVE  Replay(SubSeq(Append(s, e), 1, k)) = Replay(s)
  BY <1>0 DEF Steady
<1>1. CASE k \in m .. Len(s)
  <2>1. SubSeq(Append(s, e), 1, k) = SubSeq(s, 1, k)
    BY <1>1
  <2>2. QED
    BY <1>1, <2>1 DEF Steady
<1>2. CASE k = Len(s) + 1
  <2>1. SubSeq(Append(s, e), 1, k) = Append(s, e)
    BY <1>2
  <2>2. QED
    BY <2>1
<1>3. QED
  BY <1>1, <1>2

LEMMA ReopenSays ==
  ASSUME NEW s \in Seq(Events), NEW id \in Ids, NEW work \in Ids, Debt(id, work) \in Replay(s)
  PROVE  Put(Replay(s), id, work) = Replay(s)
<1>1. \A d \in Replay(s) : d.id = id => d = Debt(id, work)
  BY ReplayFunctional DEF Debt
<1>2. QED
  BY <1>1 DEF Put, Drop

-----------------------------------------------------------------------------
(*                        The turn under way                               *)
(*                                                                         *)
(* The proofs below are about environments without the hazards of          *)
(* TaskTool.  Then there is one turn at a time, and what the process keeps *)
(* is about it.                                                            *)

Calm == \A o \in Options : o.faults = {}

TurnInv ==
  /\ \A c, d \in opts.chats : chat[c].pc # "idle" /\ chat[d].pc # "idle" => c = d
  /\ \A c \in opts.chats :
       /\ chat[c].pc \in {"starting", "hydrating"} => Quiet
       /\ chat[c].pc \in {"hydrating", "running", "closing"} => process.bound = c
       /\ process.bound = c => Tui \/ chat[c].pc \in {"hydrating", "running", "closing"}
       /\ chat[c].pc # "idle" => \A t \in calls : t.chat = c
       /\ chat[c].pc \in {"running", "closing"} => \A t \in calls : t.turn = chat[c].turns

CarryInv ==
  \A c \in opts.chats :
    /\ Tui => chat[c].carried = {}
    /\ chat[c].pc = "hydrating" => chat[c].debts = {}
    /\ chat[c].pc \in {"starting", "hydrating"} => chat[c].carried = {}

(* At most one call waits for a general, at most one is verified.          *)
CallInv ==
  /\ \A t \in calls :
       /\ t.waited <=> t.told = "no"
       /\ t.told = "no" => chat[t.chat].pc = "running"
       /\ t.told = "user" => chat[t.chat].pc # "running"
       /\ t.told = "timer" => t.pc = "run"
       /\ t.pc # "run" => t.kind = "general" /\ ~t.left
  /\ \A t, u \in calls : t.waited /\ u.waited /\ t.kind = "general" => t = u
  /\ \A t, u \in calls : t.pc # "run" /\ u.pc # "run" => t = u

WorkInv ==
  /\ \A t \in calls : t.work <= made.calls
  /\ \A t, u \in calls : t.work = u.work => t = u

Control == TurnInv /\ CarryInv /\ CallInv /\ WorkInv

LEMMA CalmFacts ==
  ASSUME Calm, TypeOK
  PROVE  \A h : ~Hazard(h)
  BY DEF Calm, TypeOK, Hazard

(* What a step of a call leaves of a scope.                                *)
KeepsTurn(x, rec) ==
  /\ x.pc = rec.pc /\ x.turns = rec.turns /\ x.flush = rec.flush
  /\ x.carried = rec.carried /\ x.outcome = rec.outcome

LEMMA RecordFields ==
  ASSUME NEW t \in calls, NEW rec \in ScopeType, NEW traced \in BOOLEAN
  PROVE  /\ KeepsTurn(Publish(t, traced, rec), rec) /\ Publish(t, traced, rec).debts = rec.debts
         /\ KeepsTurn(Renumbered(t, rec), rec) /\ Renumbered(t, rec).debts = rec.debts
         /\ KeepsTurn(Opened(t, rec), rec)
         /\ Opened(t, rec).debts = IF InScope(t) THEN Put(rec.debts, t.id, t.work) ELSE rec.debts
         /\ KeepsTurn(Cleared(t, rec), rec)
         /\ Cleared(t, rec).debts = IF InScope(t) THEN Drop(rec.debts, t.id) ELSE rec.debts
  BY DEF KeepsTurn, Publish, Renumbered, Opened, Cleared, ScopeType

(* u is the call t, further on.                                            *)
Same(u, t) ==
  /\ u.chat = t.chat /\ u.turn = t.turn /\ u.kind = t.kind
  /\ u.id = t.id /\ u.work = t.work

Follows(u, t) ==
  /\ Same(u, t)
  /\ \/ u.told = t.told /\ u.waited = t.waited /\ t.pc # "run" /\ u.pc # "run" /\ u.left = t.left
     \/ u.told = "timer" /\ ~u.waited /\ t.pc = "run" /\ u.pc = "run" /\ t.told = "no"

Left(t) == calls' = calls \ {t}
Becomes(t, u) == calls' = (calls \ {t}) \cup {u}
Debts(t, bucket) ==
  \A d \in opts.chats :
    chat'[d].debts = IF d = t.chat /\ InScope(t) THEN bucket ELSE chat[d].debts

Quietly(t) ==
  /\ UNCHANGED <<process, owed>>
  /\ \A d \in opts.chats : chat'[d].debts = chat[d].debts
  /\ Left(t) \/ \E u \in CallType : Follows(u, t) /\ Becomes(t, u)

Opens(t) ==
  /\ t.kind = "general" /\ t.pc = "run" /\ t.told = "no"
  /\ process' = [process EXCEPT !.queue = Owing(t)]
  /\ owed' = [owed EXCEPT ![t.chat] = owed[t.chat] \cup {t.work}]
  /\ Debts(t, Put(chat[t.chat].debts, t.id, t.work))
  /\ \/ Left(t)
     \/ \E u \in CallType : /\ Same(u, t) /\ u.told = t.told /\ u.waited = t.waited
                            /\ u.pc # "run" /\ ~u.left /\ Becomes(t, u)

Clears(t) ==
  /\ t.kind = "general" /\ t.pc # "run" /\ t.told = "no"
  /\ process' = [process EXCEPT !.queue = Clearing(t)]
  /\ owed' = [owed EXCEPT ![t.chat] = owed[t.chat] \ {t.work}]
  /\ Debts(t, Drop(chat[t.chat].debts, t.id))
  /\ Left(t)

Reopens(t) ==
  /\ t.kind = "general" /\ t.pc # "run"
  /\ process' = [process EXCEPT !.queue = Owing(t)]
  /\ owed' = owed
  /\ Debts(t, Put(chat[t.chat].debts, t.id, t.work))
  /\ Left(t)

CallStep(t) ==
  /\ UNCHANGED <<opts, log, made>>
  /\ \A d \in opts.chats : KeepsTurn(chat'[d], chat[d])
  /\ Quietly(t) \/ Opens(t) \/ Clears(t) \/ Reopens(t)

LEMMA CallCases ==
  ASSUME TypeOK, Calm, CallInv, NEW t \in calls, Call(t)
  PROVE  CallStep(t)
<1> DEFINE c == t.chat
           s == chat[c]
<1>0. /\ c \in opts.chats /\ s \in ScopeType /\ chat \in [opts.chats -> ScopeType]
      /\ owed \in [opts.chats -> SUBSET Ids] /\ t \in CallType
  BY CallFacts
<1>h. \A h : ~Hazard(h)
  BY CalmFacts
<1>t. t.pc # "run" => t.kind = "general" /\ ~t.left
  BY DEF CallInv
<1>e. /\ \A d \in opts.chats : KeepsTurn(chat[d], chat[d])
      /\ \A x : chat' = [chat EXCEPT ![c] = x] => 
           \A d \in opts.chats : chat'[d] = IF d = c THEN x ELSE chat[d]
  BY <1>0 DEF KeepsTurn
<1>k. \A x : chat' = [chat EXCEPT ![c] = x] /\ KeepsTurn(x, s) =>
        \A d \in opts.chats : KeepsTurn(chat'[d], chat[d])
  BY <1>e
<1>q. \A x : chat' = [chat EXCEPT ![c] = x] /\ x.debts = s.debts =>
        \A d \in opts.chats : chat'[d].debts = chat[d].debts
  BY <1>e
<1>d. \A x, b : chat' = [chat EXCEPT ![c] = x] /\ x.debts = (IF InScope(t) THEN b ELSE s.debts) =>
        Debts(t, b)
  BY <1>e DEF Debts
<1>1. CASE \E traced \in BOOLEAN : Answer(t, traced)
  <2>1. PICK traced \in BOOLEAN : Answer(t, traced)
    BY <1>1
  <2>2. chat' = chat \/ chat' = [chat EXCEPT ![c] = [s EXCEPT !.trace = traced]]
    BY <1>0, <2>1 DEF Answer
  <2>3. KeepsTurn([s EXCEPT !.trace = traced], s) /\ [s EXCEPT !.trace = traced].debts = s.debts
    BY <1>0 DEF KeepsTurn, ScopeType
  <2>4. /\ \A d \in opts.chats : KeepsTurn(chat'[d], chat[d])
        /\ \A d \in opts.chats : chat'[d].debts = chat[d].debts
    BY <1>e, <1>k, <1>q, <2>2, <2>3
  <2>5. QED
    BY <2>1, <2>4 DEF Answer, Return, CallStep, Quietly, Left
<1>2. CASE Overrun(t)
  <2>1. PICK u \in CallType : u = GivenUp(t, "timer")
    BY AdvancedTyped
  <2>2. Follows(u, t)
    BY <1>0, <1>2, <2>1 DEF Overrun, GivenUp, Follows, Same, CallType, CallInv
  <2>3. QED
    BY <1>2, <1>e, <2>1, <2>2 DEF Overrun, Advance, CallStep, Quietly, Becomes
<1>3. CASE GeneralFails(t)
  BY <1>3, <1>e DEF GeneralFails, Return, CallStep, Quietly, Left
<1>4. CASE \E applied, late, left \in BOOLEAN : GeneralDone(t, applied, late, left)
  <2>1. PICK applied \in BOOLEAN, late \in BOOLEAN, left \in BOOLEAN :
          GeneralDone(t, applied, late, left)
    BY <1>4
  <2>2. t.told = "no" /\ ~left /\ t.kind = "general" /\ t.pc = "run"
    BY <1>h, <2>1 DEF GeneralDone
  <2>3. PICK x \in ScopeType : x = Opened(t, s)
    BY <1>0, RecordTyped
  <2>4. chat' = [chat EXCEPT ![c] = Renumbered(t, x)] \/ chat' = [chat EXCEPT ![c] = x]
    BY <2>1, <2>3 DEF GeneralDone
  <2>5. /\ KeepsTurn(x, s) /\ x.debts = IF InScope(t) THEN Put(s.debts, t.id, t.work) ELSE s.debts
        /\ KeepsTurn(Renumbered(t, x), x) /\ Renumbered(t, x).debts = x.debts
    BY <1>0, <2>3, RecordFields
  <2>6. KeepsTurn(Renumbered(t, x), s)
    BY <2>5 DEF KeepsTurn
  <2>7. /\ \A d \in opts.chats : KeepsTurn(chat'[d], chat[d])
        /\ Debts(t, Put(s.debts, t.id, t.work))
    BY <1>k, <1>d, <2>4, <2>5, <2>6
  <2>u. PICK u \in CallType : u = [t EXCEPT !.pc = "verify", !.left = left]
    BY AdvancedTyped
  <2>v. Same(u, t) /\ u.told = t.told /\ u.waited = t.waited /\ u.pc # "run" /\ ~u.left
    BY <1>0, <2>2, <2>u DEF Same, CallType
  <2>w. Left(t) \/ Becomes(t, u)
    BY <2>1, <2>u DEF GeneralDone, Advance, Return, Left, Becomes
  <2>8. QED
    BY <2>1, <2>2, <2>7, <2>v, <2>w DEF GeneralDone, CallStep, Opens
<1>5. CASE \E traced \in BOOLEAN : Reject(t, traced)
  <2>1. PICK traced \in BOOLEAN : Reject(t, traced)
    BY <1>5
  <2>2. PICK x \in ScopeType : x = Publish(t, traced, s)
    BY <1>0, RecordTyped
  <2>3. chat' = [chat EXCEPT ![c] = Renumbered(t, x)]
    BY <2>1, <2>2 DEF Reject
  <2>4. KeepsTurn(x, s) /\ x.debts = s.debts /\ KeepsTurn(Renumbered(t, x), x) /\ Renumbered(t, x).debts = x.debts
    BY <1>0, <2>2, RecordFields
  <2>5. KeepsTurn(Renumbered(t, x), s)
    BY <2>4 DEF KeepsTurn
  <2>6. PICK u \in CallType : u = [t EXCEPT !.pc = "rework", !.round = @ + 1]
    BY <2>1, AdvancedTyped DEF Reject
  <2>7. Follows(u, t)
    BY <1>0, <2>1, <2>6 DEF Reject, Verifies, Follows, Same, CallType
  <2>8. (\A d \in opts.chats : KeepsTurn(chat'[d], chat[d])) /\ \A d \in opts.chats : chat'[d].debts = chat[d].debts
    BY <1>k, <1>q, <2>3, <2>4, <2>5
  <2>9. QED
    BY <2>1, <2>6, <2>7, <2>8 DEF Reject, Advance, CallStep, Quietly, Becomes
<1>6. CASE \E traced \in BOOLEAN : Pass(t, traced)
  <2>1. PICK traced \in BOOLEAN : Pass(t, traced)
    BY <1>6
  <2>2. PICK x \in ScopeType : x = Publish(t, traced, s)
    BY <1>0, RecordTyped
  <2>3. chat' = [chat EXCEPT ![c] = Cleared(t, x)]
    BY <2>1, <2>2 DEF Pass
  <2>4. /\ KeepsTurn(x, s) /\ x.debts = s.debts /\ KeepsTurn(Cleared(t, x), x)
        /\ Cleared(t, x).debts = IF InScope(t) THEN Drop(s.debts, t.id) ELSE s.debts
    BY <1>0, <2>2, RecordFields
  <2>5. KeepsTurn(Cleared(t, x), s)
    BY <2>4 DEF KeepsTurn
  <2>6. (\A d \in opts.chats : KeepsTurn(chat'[d], chat[d])) /\ Debts(t, Drop(s.debts, t.id))
    BY <1>k, <1>d, <2>3, <2>4, <2>5
  <2>7. owed' = [owed EXCEPT ![c] = owed[c] \ {t.work}]
    BY <1>t, <2>1 DEF Pass, Evidence, Verifies
  <2>8. QED
    BY <1>t, <2>1, <2>6, <2>7 DEF Pass, Verifies, Return, CallStep, Clears, Left
<1>7. CASE \E traced \in BOOLEAN, verdict \in Verdicts : GiveUp(t, verdict, traced)
  <2>1. PICK traced \in BOOLEAN, verdict \in Verdicts : GiveUp(t, verdict, traced)
    BY <1>7
  <2>2. PICK x \in ScopeType : x = Publish(t, traced, s)
    BY <1>0, RecordTyped
  <2>3. chat' = [chat EXCEPT ![c] = Opened(t, x)]
    BY <2>1, <2>2 DEF GiveUp
  <2>4. /\ KeepsTurn(x, s) /\ x.debts = s.debts /\ KeepsTurn(Opened(t, x), x)
        /\ Opened(t, x).debts = IF InScope(t) THEN Put(s.debts, t.id, t.work) ELSE s.debts
    BY <1>0, <2>2, RecordFields
  <2>5. KeepsTurn(Opened(t, x), s)
    BY <2>4 DEF KeepsTurn
  <2>6. (\A d \in opts.chats : KeepsTurn(chat'[d], chat[d])) /\ Debts(t, Put(s.debts, t.id, t.work))
    BY <1>k, <1>d, <2>3, <2>4, <2>5
  <2>8. QED
    BY <1>t, <2>1, <2>6 DEF GiveUp, Verifies, Return, CallStep, Reopens, Left
<1>8. CASE ReworkFails(t)
  <2>3. chat' = [chat EXCEPT ![c] = Opened(t, s)]
    BY <1>8 DEF ReworkFails
  <2>4. /\ KeepsTurn(Opened(t, s), s)
        /\ Opened(t, s).debts = IF InScope(t) THEN Put(s.debts, t.id, t.work) ELSE s.debts
    BY <1>0, RecordFields
  <2>6. (\A d \in opts.chats : KeepsTurn(chat'[d], chat[d])) /\ Debts(t, Put(s.debts, t.id, t.work))
    BY <1>k, <1>d, <2>3, <2>4
  <2>8. QED
    BY <1>t, <1>8, <2>6 DEF ReworkFails, Return, CallStep, Reopens, Left
<1>9. CASE ReworkDone(t)
  <2>1. chat' = [chat EXCEPT ![c] = Renumbered(t, s)]
    BY <1>9 DEF ReworkDone
  <2>2. KeepsTurn(Renumbered(t, s), s) /\ Renumbered(t, s).debts = s.debts
    BY <1>0, RecordFields
  <2>3. PICK u \in CallType : u = [t EXCEPT !.pc = "verify", !.reworked = TRUE]
    BY AdvancedTyped
  <2>4. Follows(u, t)
    BY <1>0, <1>9, <2>3 DEF ReworkDone, Follows, Same, CallType
  <2>5. (\A d \in opts.chats : KeepsTurn(chat'[d], chat[d])) /\ \A d \in opts.chats : chat'[d].debts = chat[d].debts
    BY <1>k, <1>q, <2>1, <2>2
  <2>6. QED
    BY <1>9, <2>3, <2>4, <2>5 DEF ReworkDone, Advance, CallStep, Quietly, Becomes
<1>10. QED
  BY <1>1, <1>2, <1>3, <1>4, <1>5, <1>6, <1>7, <1>8, <1>9 DEF Call

(* Whoever calls does so from a turn that runs or is over.                 *)
LEMMA CallsTurn ==
  ASSUME TypeOK, Control, NEW t \in calls
  PROVE  /\ \A c \in opts.chats : chat[c].pc \notin {"starting", "hydrating"}
         /\ t.chat \in opts.chats
         /\ process.bound \in opts.chats => process.bound = t.chat
<1>1. \A c \in opts.chats : chat[c].pc \notin {"starting", "hydrating"}
  BY DEF Control, TurnInv, Quiet
<1>2. t.chat \in opts.chats
  BY CallFacts
<1>3. ASSUME process.bound \in opts.chats PROVE process.bound = t.chat
  <2>1. CASE Tui
    BY <1>2, <1>3, <2>1, OptionFacts DEF TypeOK
  <2>2. CASE ~Tui
    BY <1>3, <2>2 DEF Control, TurnInv
  <2>3. QED
    BY <2>1, <2>2
<1>4. QED
  BY <1>1, <1>2, <1>3

(* What is left of the calls: none of them is new.                         *)
LEMMA CallsAfter ==
  ASSUME TypeOK, NEW t \in calls, CallStep(t)
  PROVE  \A u \in calls' : \/ u \in calls /\ u # t
                           \/ calls' = (calls \ {t}) \cup {u} /\ Same(u, t) /\ (Quietly(t) \/ Opens(t))
<1>1. CASE Quietly(t)
  BY <1>1 DEF Quietly, Left, Becomes, Follows
<1>2. CASE Opens(t)
  BY <1>2 DEF Opens, Left, Becomes
<1>3. CASE Clears(t)
  BY <1>3 DEF Clears, Left
<1>4. CASE Reopens(t)
  BY <1>4 DEF Reopens, Left
<1>5. QED
  BY <1>1, <1>2, <1>3, <1>4 DEF CallStep

LEMMA CallControl ==
  ASSUME TypeOK, Control, NEW t \in calls, CallStep(t)
  PROVE  Control'
<1>0. /\ UNCHANGED <<opts, log, made>> /\ process'.bound = process.bound
      /\ \A d \in opts.chats :
           chat'[d].pc = chat[d].pc /\ chat'[d].turns = chat[d].turns /\ chat'[d].carried = chat[d].carried
  <2>1. process \in ProcessType
    BY CallFacts
  <2>2. process'.bound = process.bound
    BY <2>1 DEF CallStep, Quietly, Opens, Clears, Reopens, ProcessType
  <2>3. QED
    BY <2>2 DEF CallStep, KeepsTurn
<1>1. /\ \A c \in opts.chats : chat[c].pc \notin {"starting", "hydrating"}
      /\ t.chat \in opts.chats /\ calls \subseteq CallType
  BY CallsTurn, CallFacts
<1>a. \A u \in calls' : \E v \in calls : Same(u, v)
  BY CallsAfter DEF Same
<1>2. TurnInv'
  <2>1. \A u \in calls' : \E v \in calls : u.chat = v.chat /\ u.turn = v.turn
    BY <1>a DEF Same
  <2>2. Tui' = Tui
    BY <1>0 DEF Tui
  <2>3. QED
    BY <1>0, <1>1, <2>1, <2>2 DEF Control, TurnInv
<1>3. CarryInv'
  BY <1>0, <1>1 DEF Control, CarryInv, Tui
<1>4. WorkInv'
  <2>1. \A u \in calls' : \E v \in calls : u.work = v.work
    BY <1>a DEF Same
  <2>2. \A u, v \in calls' : u.work = v.work => u = v
    BY CallsAfter DEF Control, WorkInv, Same
  <2>3. QED
    BY <1>0, <2>1, <2>2 DEF Control, WorkInv
<1>5. CallInv'
  <2>1. \A u \in calls' : u \in calls => 
          /\ u.waited <=> u.told = "no"
          /\ u.told = "no" => chat'[u.chat].pc = "running"
          /\ u.told = "user" => chat'[u.chat].pc # "running"
          /\ u.told = "timer" => u.pc = "run"
          /\ u.pc # "run" => u.kind = "general" /\ ~u.left
    <3>1. \A u \in calls : chat'[u.chat].pc = chat[u.chat].pc
      BY <1>0, CallFacts
    <3>2. QED
      BY <3>1 DEF Control, CallInv
  <2>2. CASE Left(t)
    BY <2>1, <2>2 DEF Left, Control, CallInv
  <2>3. ASSUME NEW u \in CallType, Follows(u, t), Becomes(t, u)
        PROVE  CallInv'
    <3>1. chat'[u.chat].pc = chat[t.chat].pc
      BY <1>0, <1>1, <2>3 DEF Follows, Same
    <3>2. /\ u.waited <=> u.told = "no"
          /\ u.told = "no" => chat'[u.chat].pc = "running"
          /\ u.told = "user" => chat'[u.chat].pc # "running"
          /\ u.told = "timer" => u.pc = "run"
          /\ u.pc # "run" => u.kind = "general" /\ ~u.left
      BY <2>3, <3>1 DEF Follows, Same, Control, CallInv
    <3>3. (u.waited => t.waited) /\ (u.pc # "run" => t.pc # "run") /\ u.kind = t.kind
      BY <2>3 DEF Follows, Same
    <3>4. QED
      BY <2>1, <2>3, <3>2, <3>3 DEF Becomes, Control, CallInv
  <2>4. ASSUME Opens(t), NEW u \in CallType, Same(u, t), u.told = t.told, u.waited = t.waited,
               u.pc # "run", ~u.left, Becomes(t, u)
        PROVE  CallInv'
    <3>1. chat'[u.chat].pc = chat[t.chat].pc
      BY <1>0, <1>1, <2>4 DEF Same
    <3>2. t.waited /\ t.told = "no" /\ t.kind = "general" /\ chat[t.chat].pc = "running" /\ u.kind = "general"
      BY <2>4 DEF Opens, Control, CallInv, Same
    <3>3. \A v \in calls : v.pc # "run" => v = t
      <4>1. \A v \in calls : v.chat = t.chat
        BY <1>1, <3>2 DEF Control, TurnInv
      <4>2. \A v \in calls : v.pc # "run" => v.told = "no" /\ v.waited
        BY <3>2, <4>1, CallFacts DEF Control, CallInv, CallType
      <4>3. QED
        BY <3>2, <4>2 DEF Control, CallInv
    <3>4. QED
      BY <2>1, <2>4, <3>1, <3>2, <3>3 DEF Becomes, Control, CallInv
  <2>5. QED
    BY <2>2, <2>3, <2>4 DEF CallStep, Quietly, Opens, Clears, Reopens
<1>6. QED
  BY <1>2, <1>3, <1>4, <1>5 DEF Control

(* A turn that is under way is the only one, and its calls are all.        *)
LEMMA TurnFacts ==
  ASSUME TypeOK, Control, NEW c \in opts.chats
  PROVE  /\ chat \in [opts.chats -> ScopeType] /\ process \in ProcessType
         /\ chat[c] \in ScopeType /\ NewScope \in ScopeType
         /\ chat[c].pc # "idle" => \A d \in opts.chats : d # c => chat[d].pc = "idle"
         /\ chat[c].pc \in {"starting", "hydrating"} => calls = {} /\ process.queue = <<>>
         /\ Nobody \notin opts.chats
<1>1. chat \in [opts.chats -> ScopeType] /\ process \in ProcessType
  BY DEF TypeOK, ProcessType
<1>2. NewScope \in ScopeType
  BY ScopeFacts
<1>3. QED
  BY <1>1, <1>2, OptionFacts DEF TypeOK, Control, TurnInv, Quiet

LEMMA StartControl ==
  ASSUME TypeOK, Calm, Control, NEW c \in opts.chats, StartTurn(c)
  PROVE  /\ Control' /\ calls = {} /\ process.queue = <<>>
         /\ \A d \in opts.chats : IF d = c THEN chat'[d].pc = "starting" ELSE chat'[d] = chat[d]
         /\ UNCHANGED <<opts, process, log, calls, made, owed>>
<1>0. \A d \in opts.chats : chat[d] \in ScopeType /\ chat[d].pc = "idle"
  BY CalmFacts, TurnFacts DEF StartTurn
<1>1. calls = {} /\ process.queue = <<>> /\ UNCHANGED <<opts, process, log, calls, made, owed>>
  BY CalmFacts DEF StartTurn, Quiet
<1>2. NewScope \in ScopeType /\ NewScope.carried = {} /\ chat \in [opts.chats -> ScopeType]
  BY TurnFacts DEF NewScope
<1>3. /\ \A d \in opts.chats : d # c => chat'[d] = chat[d]
      /\ chat'[c].pc = "starting" /\ chat'[c].carried = {}
  BY <1>0, <1>2 DEF StartTurn, ScopeType, Control, CarryInv
<1>4. TurnInv'
  BY <1>0, <1>1, <1>3 DEF Control, TurnInv, Quiet, Tui
<1>5. CarryInv' /\ CallInv' /\ WorkInv'
  BY <1>0, <1>1, <1>3 DEF Control, CarryInv, CallInv, WorkInv, Tui
<1>6. QED
  BY <1>1, <1>3, <1>4, <1>5 DEF Control

LEMMA BindControl ==
  ASSUME TypeOK, Control, NEW c \in opts.chats, Bind(c)
  PROVE  /\ Control' /\ calls = {} /\ process.queue = <<>>
         /\ process' = [process EXCEPT !.bound = c]
         /\ \A d \in opts.chats : IF d = c THEN chat'[d].pc = "hydrating" ELSE chat'[d] = chat[d]
         /\ UNCHANGED <<opts, log, calls, made, owed>>
<1>0. /\ \A d \in opts.chats : d # c => chat[d].pc = "idle"
      /\ chat \in [opts.chats -> ScopeType] /\ process \in ProcessType /\ chat[c] \in ScopeType
      /\ calls = {} /\ process.queue = <<>> /\ chat[c].carried = {}
  BY TurnFacts DEF Bind, Control, CarryInv
<1>1. UNCHANGED <<opts, log, calls, made, owed>> /\ process' = [process EXCEPT !.bound = c]
  BY DEF Bind
<1>2. process'.bound = c /\ process'.queue = <<>>
  BY <1>0, <1>1 DEF ProcessType
<1>3. /\ \A d \in opts.chats : d # c => chat'[d] = chat[d]
      /\ chat'[c].pc = "hydrating" /\ chat'[c].carried = {} /\ chat'[c].debts = {}
  BY <1>0 DEF Bind, ScopeType
<1>4. TurnInv'
  BY <1>0, <1>1, <1>2, <1>3 DEF Control, TurnInv, Quiet, Tui
<1>5. CarryInv' /\ CallInv' /\ WorkInv'
  BY <1>0, <1>1, <1>3 DEF Control, CarryInv, CallInv, WorkInv, Tui
<1>6. QED
  BY <1>0, <1>1, <1>3, <1>4, <1>5 DEF Control

LEMMA HydrateControl ==
  ASSUME TypeOK, Control, NEW c \in opts.chats, Hydrate(c)
  PROVE  /\ Control' /\ calls = {} /\ process.queue = <<>> /\ process.bound = c
         /\ chat'[c].pc = "running" /\ chat'[c].debts \cup chat'[c].carried = Replay(log[c])
         /\ \A d \in opts.chats : d # c => chat'[d] = chat[d] /\ chat[d].pc = "idle"
         /\ UNCHANGED <<opts, process, log, calls, made, owed>>
<1>0. /\ \A d \in opts.chats : d # c => chat[d].pc = "idle"
      /\ chat \in [opts.chats -> ScopeType] /\ process \in ProcessType /\ chat[c] \in ScopeType
      /\ calls = {} /\ process.queue = <<>> /\ chat[c].carried = {} /\ chat[c].debts = {}
      /\ process.bound = c
  BY TurnFacts DEF Hydrate, Control, CarryInv, TurnInv
<1>1. UNCHANGED <<opts, process, log, calls, made, owed>>
  BY DEF Hydrate
<1>2. Merge({}, Replay(log[c])) = Replay(log[c])
  BY DEF Merge
<1>3. /\ \A d \in opts.chats : d # c => chat'[d] = chat[d]
      /\ chat'[c].pc = "running"
      /\ chat'[c].debts = (IF Tui THEN Replay(log[c]) ELSE {})
      /\ chat'[c].carried = (IF Tui THEN {} ELSE Replay(log[c]))
  BY <1>0, <1>2 DEF Hydrate, ScopeType
<1>4. TurnInv'
  BY <1>0, <1>1, <1>3 DEF Control, TurnInv, Quiet, Tui
<1>5. CarryInv' /\ CallInv' /\ WorkInv'
  BY <1>0, <1>1, <1>3 DEF Control, CarryInv, CallInv, WorkInv, Tui
<1>6. QED
  BY <1>0, <1>1, <1>3, <1>4, <1>5 DEF Control

(* The turn goes on or comes to its end.                                   *)
LEMMA CompleteControl ==
  ASSUME TypeOK, Control, NEW c \in opts.chats, Complete(c) \/ Cancel(c)
  PROVE  /\ Control' /\ chat[c].pc = "running" /\ chat'[c].pc = "closing"
         /\ chat'[c].flush = Len(process.queue)
         /\ chat'[c].debts = chat[c].debts /\ chat'[c].carried = chat[c].carried
         /\ \A d \in opts.chats : d # c => chat'[d] = chat[d]
         /\ \A u \in calls' : \E t \in calls : Same(u, t) /\ u.pc = t.pc /\ (u.told = "no" => t.told = "no")
         /\ UNCHANGED <<opts, process, log, made, owed>>
<1>0. /\ \A d \in opts.chats : d # c => chat[d].pc = "idle"
      /\ chat \in [opts.chats -> ScopeType] /\ chat[c] \in ScopeType /\ chat[c].pc = "running"
      /\ \A t \in calls : t.chat = c /\ t.turn = chat[c].turns
      /\ calls \subseteq CallType /\ process.bound = c
  BY TurnFacts DEF Complete, Cancel, TypeOK, Control, TurnInv
<1>1. UNCHANGED <<opts, process, log, made, owed>>
  BY DEF Complete, Cancel
<1>2. /\ \A d \in opts.chats : d # c => chat'[d] = chat[d]
      /\ chat'[c].pc = "closing" /\ chat'[c].flush = Len(process.queue) /\ chat'[c].turns = chat[c].turns
      /\ chat'[c].debts = chat[c].debts /\ chat'[c].carried = chat[c].carried
  BY <1>0 DEF Complete, Cancel, ScopeType
<1>3. \A u \in calls' :
        /\ ~u.waited /\ u.told # "no"
        /\ \/ u \in calls /\ u.told = "timer"
           \/ \E t \in calls : t.told = "no" /\ t.waited /\ u = GivenUp(t, "user") /\ u.told = "user"
                               /\ Same(u, t) /\ u.pc = t.pc /\ u.left = t.left
  <2>1. CASE Complete(c)
    BY <1>0, <2>1 DEF Complete, Waited, CallsOf, Control, CallInv, CallType
  <2>2. CASE Cancel(c)
    <3>1. \A t \in Waited(c) : t \in calls /\ t.waited /\ t.told = "no"
      BY DEF Waited, CallsOf, Control, CallInv
    <3>2. \A t \in Waited(c) : /\ GivenUp(t, "user").told = "user" /\ ~GivenUp(t, "user").waited
                               /\ Same(GivenUp(t, "user"), t) /\ GivenUp(t, "user").pc = t.pc
                               /\ GivenUp(t, "user").left = t.left
      BY <1>0, <3>1 DEF GivenUp, Same, CallType
    <3>3. \A u \in calls' : u \in calls \ Waited(c) \/ \E t \in Waited(c) : u = GivenUp(t, "user")
      BY <2>2 DEF Cancel
    <3>4. \A u \in calls \ Waited(c) : ~u.waited /\ u.told = "timer"
      BY <1>0 DEF Waited, CallsOf, Control, CallInv, CallType
    <3>5. QED
      BY <3>1, <3>2, <3>3, <3>4
  <2>3. QED
    BY <2>1, <2>2
<1>4. \A u \in calls' : \E t \in calls : Same(u, t) /\ u.pc = t.pc /\ u.left = t.left /\ u.told # "no"
  BY <1>3 DEF Same
<1>5. TurnInv'
  BY <1>0, <1>1, <1>2, <1>4 DEF Same, Control, TurnInv, Quiet, Tui
<1>6. CarryInv'
  BY <1>0, <1>1, <1>2 DEF Control, CarryInv, Tui
<1>7. \A u, v \in calls' : u.work = v.work => u = v
  <2>1. \A t, u \in calls : t.work = u.work => t = u
    BY DEF Control, WorkInv
  <2>2. \A u \in calls, t \in calls : u.told = "timer" /\ t.told = "no" => u # t
    OBVIOUS
  <2>3. QED
    BY <1>3, <2>1, <2>2 DEF Same
<1>8. WorkInv'
  BY <1>1, <1>4, <1>7 DEF Same, Control, WorkInv
<1>9. CallInv'
  <2>1. \A u \in calls' :
          /\ u.waited <=> u.told = "no"
          /\ u.told = "no" => chat'[u.chat].pc = "running"
          /\ u.told = "user" => chat'[u.chat].pc # "running"
          /\ u.told = "timer" => u.pc = "run"
          /\ u.pc # "run" => u.kind = "general" /\ ~u.left
    BY <1>0, <1>2, <1>3, <1>4 DEF Same, Control, CallInv
  <2>2. \A u, v \in calls' : u.pc # "run" /\ v.pc # "run" => u.work = v.work
    BY <1>4 DEF Same, Control, CallInv
  <2>3. QED
    BY <1>3, <1>7, <2>1, <2>2 DEF CallInv
<1>10. QED
  BY <1>0, <1>1, <1>2, <1>4, <1>5, <1>6, <1>8, <1>9 DEF Control

LEMMA GateControl ==
  ASSUME TypeOK, Control, NEW c \in opts.chats, Gate(c)
  PROVE  /\ Control' /\ chat[c].pc = "closing" /\ chat'[c].pc = "idle" /\ chat[c].flush = 0
         /\ chat'[c].outcome = Verdict(c) /\ process.bound = c
         /\ process' = IF Tui THEN process ELSE [process EXCEPT !.bound = Nobody]
         /\ \A d \in opts.chats : d # c => chat'[d] = chat[d]
         /\ UNCHANGED <<opts, log, calls, made, owed>>
<1>0. /\ \A d \in opts.chats : d # c => chat[d].pc = "idle"
      /\ chat \in [opts.chats -> ScopeType] /\ chat[c] \in ScopeType /\ chat[c].pc = "closing"
      /\ process.bound = c /\ process \in ProcessType /\ chat[c].flush = 0 /\ Nobody \notin opts.chats
  BY TurnFacts DEF Gate, Flushed, Control, TurnInv
<1>1. UNCHANGED <<opts, log, calls, made, owed>>
  BY DEF Gate
<1>2. process' = IF Tui THEN process ELSE [process EXCEPT !.bound = Nobody]
  BY DEF Gate
<1>3. process'.bound = (IF Tui THEN c ELSE Nobody) /\ process'.queue = process.queue
  BY <1>0, <1>2 DEF ProcessType
<1>4. /\ \A d \in opts.chats : d # c => chat'[d] = chat[d]
      /\ chat'[c].pc = "idle" /\ chat'[c].outcome = Verdict(c) /\ chat'[c].carried = chat[c].carried
  BY <1>0 DEF Gate, ScopeType
<1>5. TurnInv'
  BY <1>0, <1>1, <1>3, <1>4 DEF Control, TurnInv, Quiet, Tui
<1>6. CarryInv' /\ WorkInv'
  BY <1>0, <1>1, <1>4 DEF Control, CarryInv, WorkInv, Tui
<1>7. CallInv'
  <2>1. \A t \in calls : t.chat \in opts.chats
    BY CallFacts
  <2>2. QED
    BY <1>0, <1>1, <1>4, <2>1 DEF Control, CallInv
<1>8. QED
  BY <1>0, <1>1, <1>2, <1>4, <1>5, <1>6, <1>7 DEF Control

LEMMA RefuseControl ==
  ASSUME TypeOK, Control, NEW c \in opts.chats, Refuse(c)
  PROVE  /\ Control'
         /\ \A d \in opts.chats : KeepsTurn(chat'[d], chat[d]) /\ chat'[d].debts = chat[d].debts
         /\ UNCHANGED <<opts, process, log, calls, made, owed>>
<1>0. chat \in [opts.chats -> ScopeType] /\ chat[c] \in ScopeType
  BY TurnFacts
<1>1. UNCHANGED <<opts, process, log, calls, made, owed>>
  BY DEF Refuse
<1>2. \A d \in opts.chats : KeepsTurn(chat'[d], chat[d]) /\ chat'[d].debts = chat[d].debts
  BY <1>0 DEF Refuse, ScopeType, KeepsTurn
<1>3. TurnInv' /\ CarryInv' /\ WorkInv'
  BY <1>1, <1>2 DEF KeepsTurn, Control, TurnInv, CarryInv, WorkInv, Quiet, Tui
<1>4. \A t \in calls : t.chat \in opts.chats
  BY CallFacts
<1>5. CallInv'
  BY <1>1, <1>2, <1>4 DEF KeepsTurn, Control, CallInv
<1>6. QED
  BY <1>1, <1>2, <1>3, <1>5 DEF Control

LEMMA SpawnControl ==
  ASSUME TypeOK, Calm, Control, NEW c \in opts.chats,
         NEW kind \in {"explore", "verify", "general"}, Spawn(c, kind)
  PROVE  /\ Control'
         /\ chat[c].pc = "running" /\ process.bound = c
         /\ \A d \in opts.chats : KeepsTurn(chat'[d], chat[d]) /\ chat'[d].debts = chat[d].debts
         /\ made'.calls = made.calls + 1
         /\ \E u \in CallType :
              /\ calls' = calls \cup {u} /\ u.chat = c /\ u.pc = "run" /\ u.work = made.calls + 1
              /\ u.kind = "general" => \A d \in Seen(c) : d.id # u.id
         /\ UNCHANGED <<opts, process, log, owed>>
<1>0. /\ chat \in [opts.chats -> ScopeType] /\ chat[c] \in ScopeType /\ chat[c].pc = "running"
      /\ \A d \in opts.chats : d # c => chat[d].pc = "idle"
      /\ made.calls \in Nat /\ opts.rounds \in Nat /\ calls \subseteq CallType
      /\ process.bound = c /\ process \in ProcessType
      /\ \A t \in calls : t.chat = c /\ t.turn = chat[c].turns
  BY TurnFacts, OptionFacts DEF Spawn, TypeOK, Control, TurnInv
<1>1. PICK i \in Ids, w \in Ids, n \in Nat, k \in Nat :
        i = chat[c].ids + 1 /\ w = made.calls + 1 /\ n = chat[c].spawned + 1 /\ k = chat[c].turns
  <2>1. chat[c].ids \in Nat /\ chat[c].spawned \in Nat /\ chat[c].turns \in Nat
    BY <1>0 DEF ScopeType
  <2>2. QED
    BY <1>0, <2>1 DEF Ids
<1>2. PICK u : u = [chat |-> c, turn |-> k, kind |-> kind, pc |-> "run",
                    id |-> i, work |-> w, round |-> 0,
                    left |-> FALSE, reworked |-> FALSE, waited |-> TRUE, told |-> "no"]
  OBVIOUS
<1>3. u \in CallType
  BY <1>0, <1>1, <1>2 DEF CallType
<1>4. /\ u.chat = c /\ u.turn = chat[c].turns /\ u.kind = kind /\ u.pc = "run" /\ u.id = i /\ u.work = w
      /\ u.waited /\ u.told = "no"
  BY <1>1, <1>2
<1>5. calls' = calls \cup {u} /\ UNCHANGED <<opts, process, log, owed>>
  BY <1>1, <1>2 DEF Spawn
<1>6. made'.calls = made.calls + 1
  BY <1>0 DEF Spawn, TypeOK
<1>7. \A d \in opts.chats : KeepsTurn(chat'[d], chat[d]) /\ chat'[d].debts = chat[d].debts
  BY <1>0 DEF Spawn, ScopeType, KeepsTurn
<1>8. kind = "general" => \A d \in Seen(c) : d.id # u.id
  BY <1>1, <1>4, CalmFacts DEF Spawn, FreshId
<1>9. TurnInv' /\ CarryInv'
  BY <1>0, <1>4, <1>5, <1>7 DEF KeepsTurn, Control, TurnInv, CarryInv, Quiet, Tui
<1>10. WorkInv'
  <2>1. \A t \in calls : t.work \in Ids /\ t.work <= made.calls
    BY CallFacts DEF Control, WorkInv
  <2>2. \A t \in calls : t.work # u.work /\ t.work <= made'.calls
    BY <1>0, <1>1, <1>4, <1>6, <2>1 DEF Ids
  <2>3. u.work <= made'.calls
    BY <1>0, <1>1, <1>4, <1>6
  <2>4. QED
    BY <1>5, <2>2, <2>3 DEF Control, WorkInv
<1>11. CallInv'
  <2>1. \A t \in calls : chat'[t.chat].pc = chat[t.chat].pc
    BY <1>0, <1>7 DEF KeepsTurn
  <2>2. chat'[u.chat].pc = "running"
    BY <1>0, <1>4, <1>7 DEF KeepsTurn
  <2>3. \A t \in calls : t.waited => t \in Waited(c)
    BY <1>0 DEF Waited, CallsOf
  <2>4. \A t \in calls : t.waited => kind # "general" /\ t.kind # "general"
    BY <2>3 DEF Spawn, Admitted
  <2>5. QED
    BY <1>4, <1>5, <2>1, <2>2, <2>4 DEF Control, CallInv
<1>12. QED
  BY <1>0, <1>1, <1>3, <1>4, <1>5, <1>6, <1>7, <1>8, <1>9, <1>10, <1>11 DEF Control

LEMMA LandControl ==
  ASSUME TypeOK, Control, Land
  PROVE  /\ Control'
         /\ \A d \in opts.chats :
              /\ chat'[d].pc = chat[d].pc /\ chat'[d].turns = chat[d].turns /\ chat'[d].outcome = chat[d].outcome
              /\ chat'[d].carried = chat[d].carried /\ chat'[d].debts = chat[d].debts
              /\ chat'[d].flush = IF chat[d].flush = 0 THEN 0 ELSE chat[d].flush - 1
         /\ process'.bound = process.bound /\ process'.queue = Tail(process.queue)
         /\ UNCHANGED <<opts, calls, made, owed>>
<1>0. chat \in [opts.chats -> ScopeType] /\ process \in ProcessType
  BY DEF TypeOK, ProcessType
<1>1. UNCHANGED <<opts, calls, made, owed>>
  BY DEF Land
<1>2. process'.bound = process.bound /\ process'.queue = Tail(process.queue)
  BY <1>0 DEF Land, ProcessType
<1>3. \A d \in opts.chats :
        /\ chat'[d].pc = chat[d].pc /\ chat'[d].turns = chat[d].turns /\ chat'[d].outcome = chat[d].outcome
        /\ chat'[d].carried = chat[d].carried /\ chat'[d].debts = chat[d].debts
        /\ chat'[d].flush = IF chat[d].flush = 0 THEN 0 ELSE chat[d].flush - 1
  BY <1>0 DEF Land, ScopeType
<1>4. \A d \in opts.chats : chat[d].pc \notin {"starting", "hydrating"}
  BY DEF Land, Control, TurnInv, Quiet
<1>5. TurnInv' /\ CarryInv' /\ WorkInv'
  BY <1>1, <1>2, <1>3, <1>4 DEF Control, TurnInv, CarryInv, WorkInv, Quiet, Tui
<1>6. \A t \in calls : t.chat \in opts.chats
  BY CallFacts
<1>7. CallInv'
  BY <1>1, <1>3, <1>6 DEF Control, CallInv
<1>8. QED
  BY <1>1, <1>2, <1>3, <1>5, <1>7 DEF Control

LEMMA CrashControl ==
  ASSUME TypeOK, Control, Crash
  PROVE  /\ Control' /\ calls' = {} /\ process' = NewProcess
         /\ \A d \in opts.chats : chat'[d].pc = "idle" /\ owed'[d] = Works(Replay(log[d]))
         /\ made'.calls = made.calls
         /\ UNCHANGED <<opts, log>>
<1>0. made \in [calls : Nat, crashes : Nat] /\ Nobody \notin opts.chats
  BY OptionFacts DEF TypeOK
<1>1. /\ calls' = {} /\ process' = NewProcess /\ UNCHANGED <<opts, log>>
      /\ process'.bound = Nobody
  BY DEF Crash, NewProcess
<1>2. \A d \in opts.chats : chat'[d].pc = "idle" /\ chat'[d].carried = {} /\ owed'[d] = Works(Replay(log[d]))
  BY DEF Crash, NewScope
<1>3. made'.calls = made.calls
  BY <1>0 DEF Crash
<1>4. TurnInv' /\ CarryInv' /\ WorkInv' /\ CallInv'
  BY <1>0, <1>1, <1>2 DEF TurnInv, CarryInv, WorkInv, CallInv
<1>5. QED
  BY <1>1, <1>2, <1>3, <1>4 DEF Control

LEMMA WaiveControl ==
  ASSUME TypeOK, Control, UNCHANGED <<opts, chat, process, calls, made>>
  PROVE  Control'
  BY DEF Control, TurnInv, CarryInv, WorkInv, CallInv, Quiet, Tui

LEMMA InitControl ==
  ASSUME Init
  PROVE  Control
<1>1. /\ calls = {} /\ process.bound = Nobody /\ Nobody \notin opts.chats
      /\ \A c \in opts.chats : chat[c].pc = "idle" /\ chat[c].carried = {}
  BY OptionFacts DEF Init, NewScope, NewProcess
<1>2. QED
  BY <1>1 DEF Control, TurnInv, CarryInv, WorkInv, CallInv

-----------------------------------------------------------------------------
(*                     Memory, log and what is owed                        *)
(*                                                                         *)
(* DebtsKept compares the work in memory, on the log and owed.  What makes *)
(* it inductive: memory and the log have the same debts and not only the   *)
(* same work, no two of them are of the same work (EventInv), the debt of  *)
(* a general that is being verified is among them and that of one that     *)
(* still works is not (OweInv), an event that clears a debt will not be    *)
(* taken for a repetition (SlotInv), and what is queued after the flush    *)
(* that precedes the gate changes nothing (FlushInv).                      *)

EventInv ==
  \A c \in opts.chats : \A i \in 1 .. Len(Recorded(c)) :
    /\ Recorded(c)[i].work <= made.calls
    /\ \A j \in 1 .. Len(Recorded(c)) :
         Recorded(c)[i].work = Recorded(c)[j].work => Recorded(c)[i].id = Recorded(c)[j].id
    /\ \A t \in calls : t.chat = c /\ t.pc = "run" => t.work # Recorded(c)[i].work

Kept ==
  \A c \in opts.chats :
    /\ Works(Replay(Recorded(c))) = owed[c]
    /\ chat[c].pc \in {"running", "closing"} => Seen(c) = Replay(Recorded(c))

OweInv ==
  \A t \in calls : t.kind = "general" =>
    /\ chat[t.chat].pc \in {"running", "closing"} => \A d \in chat[t.chat].carried : d.id # t.id
    /\ t.pc = "run" /\ t.told = "no" => \A d \in Replay(Recorded(t.chat)) : d.id # t.id
    /\ t.pc # "run" /\ process.bound = t.chat => Debt(t.id, t.work) \in Replay(Recorded(t.chat))

(* Among the first n events of the queue every clear of a slot, and one    *)
(* that landed before, is followed by an opening.                          *)
ClearedAt(i, id) ==
  IF i = 0 THEN id \in process.cleared
  ELSE process.queue[i].kind = "cleared" /\ process.queue[i].id = id
OpenedAt(i, id) == process.queue[i].kind = "open" /\ process.queue[i].id = id

Fresh(id, n) == \A i \in 0 .. n : ClearedAt(i, id) => \E j \in i + 1 .. n : OpenedAt(j, id)

SlotInv ==
  /\ \A i \in 1 .. Len(process.queue) :
       process.queue[i].kind = "cleared" => Fresh(process.queue[i].id, i - 1)
  /\ \A t \in calls : t.pc # "run" => Fresh(t.id, Len(process.queue))

FlushInv ==
  \A c \in opts.chats : chat[c].pc = "closing" =>
    Steady(Recorded(c), Len(log[c]) + chat[c].flush)

Data == EventInv /\ Kept /\ OweInv /\ SlotInv /\ FlushInv

LEMMA RecordedTyped ==
  ASSUME TypeOK, NEW c \in opts.chats
  PROVE  /\ Recorded(c) \in Seq(Events) /\ log[c] \in Seq(Events) /\ process.queue \in Seq(Events)
         /\ Len(log[c]) \in Nat /\ Len(process.queue) \in Nat /\ Len(Recorded(c)) \in Nat
         /\ process.bound = c => /\ Recorded(c) = log[c] \o process.queue
                                 /\ Len(Recorded(c)) = Len(log[c]) + Len(process.queue)
         /\ process.bound # c \/ process.queue = <<>> => Recorded(c) = log[c]
<1>1. log[c] \in Seq(Events) /\ process.queue \in Seq(Events)
  BY DEF TypeOK
<1>2. \A s \in Seq(Events) : s \o <<>> = s
  BY ConcatEmptySeq
<1>3. log[c] \o process.queue \in Seq(Events) /\ Len(log[c] \o process.queue) = Len(log[c]) + Len(process.queue)
  BY <1>1
<1>s. log[c] \o <<>> = log[c] /\ Len(log[c]) \in Nat /\ Len(process.queue) \in Nat
  BY <1>1, <1>2
<1>4. CASE process.bound = c
  <2>1. Recorded(c) = log[c] \o process.queue
    BY <1>4 DEF Recorded
  <2>2. process.queue = <<>> => Recorded(c) = log[c]
    BY <1>s, <2>1
  <2>3. Recorded(c) \in Seq(Events) /\ Len(Recorded(c)) = Len(log[c]) + Len(process.queue)
    BY <1>3, <2>1
  <2>4. Len(Recorded(c)) \in Nat
    BY <2>3, LenProperties
  <2> HIDE DEF Recorded
  <2>5. QED
    BY <1>1, <1>4, <1>s, <2>1, <2>2, <2>3, <2>4
<1>5. CASE process.bound # c
  <2>1. Recorded(c) = log[c]
    BY <1>5, <1>s DEF Recorded
  <2>2. QED
    BY <1>1, <1>5, <1>s, <2>1
<1>6. QED
  BY <1>4, <1>5

LEMMA SilentData ==
  ASSUME TypeOK, Control', Data, UNCHANGED <<opts, log, process, owed>>,
         made.calls \in Nat, made'.calls \in Nat, made.calls <= made'.calls,
         \A u \in calls' : \E t \in calls :
           Same(u, t) /\ (u.pc = "run" <=> t.pc = "run") /\ (u.told = "no" => t.told = "no"),
         \A c \in opts.chats : chat'[c].pc \in {"running", "closing"} =>
           /\ chat[c].pc \in {"running", "closing"}
           /\ chat'[c].debts = chat[c].debts /\ chat'[c].carried = chat[c].carried
           /\ chat'[c].pc = "closing" =>
                \/ chat[c].pc = "closing" /\ chat'[c].flush = chat[c].flush
                \/ chat'[c].flush = Len(process.queue)
  PROVE  Data'
<1>1. \A c \in opts.chats : Recorded(c)' = Recorded(c)
  BY DEF Recorded
<1>2. \A u \in calls' : u.chat \in opts.chats
  BY CallFacts DEF Same
<1>w. \A c \in opts.chats : \A i \in 1 .. Len(Recorded(c)) : Recorded(c)[i].work \in Nat
  <2>1. \A e \in Events : e.work \in Nat
    BY DEF Events, Ids
  <2>2. \A c \in opts.chats : Recorded(c) \in Seq(Events)
    BY RecordedTyped
  <2>3. QED
    BY <2>1, <2>2
<1>3. EventInv'
  <2> SUFFICES ASSUME NEW c \in opts.chats, NEW i \in 1 .. Len(Recorded(c))
               PROVE  /\ Recorded(c)[i].work <= made'.calls
                      /\ \A j \in 1 .. Len(Recorded(c)) :
                           Recorded(c)[i].work = Recorded(c)[j].work => Recorded(c)[i].id = Recorded(c)[j].id
                      /\ \A u \in calls' : u.chat = c /\ u.pc = "run" => u.work # Recorded(c)[i].work
    BY <1>1 DEF EventInv
  <2>1. Recorded(c)[i].work <= made.calls /\ Recorded(c)[i].work \in Nat
    BY <1>w DEF Data, EventInv
  <2>2. \A u \in calls' : u.chat = c /\ u.pc = "run" => u.work # Recorded(c)[i].work
    BY DEF Data, EventInv, Same
  <2>3. QED
    BY <2>1, <2>2 DEF Data, EventInv
<1>4. Kept'
  BY <1>1 DEF Data, Kept, Seen
<1>5. OweInv'
  BY <1>1, <1>2 DEF Data, OweInv, Same
<1>6. SlotInv'
  BY DEF Data, SlotInv, Fresh, ClearedAt, OpenedAt, Same
<1>7. FlushInv'
  <2> SUFFICES ASSUME NEW c \in opts.chats, chat'[c].pc = "closing"
               PROVE  Steady(Recorded(c), Len(log[c]) + chat'[c].flush)
    BY <1>1 DEF FlushInv
  <2>1. CASE chat[c].pc = "closing" /\ chat'[c].flush = chat[c].flush
    BY <2>1 DEF Data, FlushInv
  <2>2. CASE chat'[c].flush = Len(process.queue)
    <3>1. process.bound = c
      BY DEF Control, TurnInv
    <3>2. Recorded(c) \in Seq(Events) /\ Len(Recorded(c)) = Len(log[c]) + chat'[c].flush
      BY <2>2, <3>1, RecordedTyped
    <3>3. QED
      BY <3>2, SteadyEnd
  <2>3. QED
    BY <2>1, <2>2
<1>8. QED
  BY <1>3, <1>4, <1>5, <1>6, <1>7 DEF Data

LEMMA QuietData ==
  ASSUME TypeOK, Control, Control', Data, NEW t \in calls, CallStep(t), Quietly(t)
  PROVE  Data'
<1>1. \A u \in calls' : \E v \in calls :
        Same(u, v) /\ (u.pc = "run" <=> v.pc = "run") /\ (u.told = "no" => v.told = "no")
  <2>1. \A u \in calls : Same(u, u)
    BY DEF Same
  <2>2. CASE Left(t)
    BY <2>1, <2>2 DEF Left
  <2>3. CASE \E u \in CallType : Follows(u, t) /\ Becomes(t, u)
    BY <2>1, <2>3 DEF Becomes, Follows
  <2>4. QED
    BY <2>2, <2>3 DEF Quietly
<1>2. made.calls \in Nat /\ UNCHANGED <<opts, log, made, process, owed>>
  BY DEF TypeOK, CallStep, Quietly
<1>3. \A c \in opts.chats :
        /\ chat'[c].pc = chat[c].pc /\ chat'[c].flush = chat[c].flush
        /\ chat'[c].debts = chat[c].debts /\ chat'[c].carried = chat[c].carried
  BY DEF CallStep, Quietly, KeepsTurn
<1>4. QED
  BY <1>1, <1>2, <1>3, SilentData

LEMMA ConcatAppend ==
  ASSUME NEW l \in Seq(Events), NEW q \in Seq(Events), NEW e \in Events
  PROVE  l \o Append(q, e) = Append(l \o q, e)
<1>1. <<e>> \in Seq(Events) /\ l \o q \in Seq(Events)
  OBVIOUS
<1>2. Append(q, e) = q \o <<e>> /\ Append(l \o q, e) = (l \o q) \o <<e>>
  BY <1>1, AppendIsConcat
<1>3. QED
  BY <1>1, <1>2, ConcatAssociative

(* A step that queues an event.                                            *)
Emits(e) ==
  /\ UNCHANGED <<opts, log, made>>
  /\ process' = [process EXCEPT !.queue = Append(process.queue, e)]

LEMMA EmittedFacts ==
  ASSUME TypeOK, NEW e \in Events, Emits(e)
  PROVE  /\ process'.bound = process.bound /\ process'.cleared = process.cleared
         /\ process'.queue = Append(process.queue, e)
         /\ \A c \in opts.chats :
              Recorded(c)' = IF process.bound = c THEN Append(Recorded(c), e) ELSE Recorded(c)
<1>1. process \in ProcessType
  BY DEF TypeOK, ProcessType
<1>2. /\ process'.bound = process.bound /\ process'.cleared = process.cleared
      /\ process'.queue = Append(process.queue, e)
  BY <1>1 DEF Emits, ProcessType
<1>3. ASSUME NEW c \in opts.chats
      PROVE  Recorded(c)' = IF process.bound = c THEN Append(Recorded(c), e) ELSE Recorded(c)
  <2>1. log[c] \in Seq(Events) /\ process.queue \in Seq(Events)
    BY RecordedTyped, <1>3
  <2>2. log[c] \o Append(process.queue, e) = Append(log[c] \o process.queue, e)
    BY <2>1, ConcatAppend
  <2>3. log'[c] = log[c]
    BY DEF Emits
  <2>4. CASE process.bound = c
    <3>1. Recorded(c)' = log[c] \o Append(process.queue, e)
      BY <1>2, <2>3, <2>4 DEF Recorded
    <3>2. Recorded(c) = log[c] \o process.queue
      BY <2>4 DEF Recorded
    <3>3. QED
      BY <2>2, <2>4, <3>1, <3>2
  <2>5. CASE process.bound # c
    BY <1>2, <2>3, <2>5 DEF Recorded
  <2>6. QED
    BY <2>4, <2>5
<1>4. QED
  BY <1>2, <1>3

LEMMA EmittedEvents ==
  ASSUME TypeOK, Data, NEW e \in Events, Emits(e), e.work <= made.calls,
         \A c \in opts.chats : process.bound = c =>
           \A i \in 1 .. Len(Recorded(c)) : Recorded(c)[i].work = e.work => Recorded(c)[i].id = e.id,
         \A u \in calls' : u.pc = "run" => u \in calls /\ u.work # e.work
  PROVE  EventInv'
<1>1. \A c \in opts.chats :
        Recorded(c)' = IF process.bound = c THEN Append(Recorded(c), e) ELSE Recorded(c)
  BY EmittedFacts
<1>2. opts' = opts /\ made' = made
  BY DEF Emits
<1> SUFFICES ASSUME NEW c \in opts.chats
             PROVE  \A i \in 1 .. Len(Recorded(c)') :
                      /\ Recorded(c)'[i].work <= made.calls
                      /\ \A j \in 1 .. Len(Recorded(c)') :
                           Recorded(c)'[i].work = Recorded(c)'[j].work => Recorded(c)'[i].id = Recorded(c)'[j].id
                      /\ \A u \in calls' : u.chat = c /\ u.pc = "run" => u.work # Recorded(c)'[i].work
  BY <1>2 DEF EventInv
<1>3. PICK s \in Seq(Events) : s = Recorded(c)
  BY RecordedTyped
<1>4. /\ \A i \in 1 .. Len(s) :
           /\ s[i].work <= made.calls
           /\ \A j \in 1 .. Len(s) : s[i].work = s[j].work => s[i].id = s[j].id
           /\ \A u \in calls : u.chat = c /\ u.pc = "run" => u.work # s[i].work
  BY <1>3 DEF Data, EventInv
<1>5. CASE process.bound # c
  <2>1. Recorded(c)' = s
    BY <1>1, <1>3, <1>5
  <2>2. QED
    BY <1>4, <2>1
<1>6. CASE process.bound = c
  <2>1. PICK r : r = Append(s, e) /\ Recorded(c)' = r
    BY <1>1, <1>3, <1>6
  <2>2. /\ Len(r) = Len(s) + 1 /\ Len(s) \in Nat /\ r[Len(s) + 1] = e
        /\ \A i \in 1 .. Len(s) : r[i] = s[i]
        /\ \A i \in 1 .. Len(r) : i \in 1 .. Len(s) \/ i = Len(s) + 1
    BY <2>1
  <2>3. \A i \in 1 .. Len(s) : s[i].work = e.work => s[i].id = e.id
    BY <1>3, <1>6
  <2>4. QED
    BY <1>4, <2>1, <2>2, <2>3
<1>7. QED
  BY <1>5, <1>6

LEMMA EmittedOpen ==
  ASSUME TypeOK, Data, NEW e \in Events, Emits(e), e.kind = "open",
         \A u \in calls' : u.pc # "run" => u.id = e.id \/ (u \in calls)
  PROVE  SlotInv'
<1>q. PICK q \in Seq(Events) : q = process.queue
  BY DEF TypeOK
<1>r. PICK r \in Seq(Events) : r = Append(q, e)
  BY AppendProperties
<1>n. PICK n \in Nat : n = Len(q)
  BY <1>q
<1>1. process'.queue = r /\ process'.cleared = process.cleared
  BY <1>q, <1>r, EmittedFacts
<1>2. Len(r) = n + 1 /\ r[n + 1] = e /\ \A i \in 1 .. n : r[i] = q[i]
  BY <1>n, <1>r
<1>3. /\ \A id : \A i \in 0 .. n : ClearedAt(i, id)' <=> ClearedAt(i, id)
      /\ \A id : \A i \in 1 .. n : OpenedAt(i, id)' <=> OpenedAt(i, id)
      /\ \A id : ~ClearedAt(n + 1, id)' /\ OpenedAt(n + 1, e.id)'
  BY <1>q, <1>1, <1>2 DEF ClearedAt, OpenedAt
<1>4. \A id : \A k \in 0 .. n : Fresh(id, k) => Fresh(id, k)'
  BY <1>1, <1>3 DEF Fresh
<1>5. \A id : Fresh(id, n) => Fresh(id, n + 1)'
  <2> SUFFICES ASSUME NEW id, Fresh(id, n), NEW i \in 0 .. n + 1, ClearedAt(i, id)'
               PROVE  \E j \in i + 1 .. n + 1 : OpenedAt(j, id)'
    BY DEF Fresh
  <2>1. i \in 0 .. n /\ ClearedAt(i, id)
    BY <1>1, <1>3
  <2>2. QED
    BY <1>1, <1>3, <2>1 DEF Fresh
<1>6. Fresh(e.id, n + 1)'
  <2> SUFFICES ASSUME NEW i \in 0 .. n + 1, ClearedAt(i, e.id)'
               PROVE  \E j \in i + 1 .. n + 1 : OpenedAt(j, e.id)'
    BY DEF Fresh
  <2>1. i \in 0 .. n
    BY <1>1, <1>3
  <2>2. n + 1 \in i + 1 .. n + 1
    BY <1>1, <2>1
  <2>3. QED
    BY <1>3, <2>2
<1>7. \A i \in 1 .. n + 1 : r[i].kind = "cleared" => Fresh(r[i].id, i - 1)'
  <2> SUFFICES ASSUME NEW i \in 1 .. n + 1, r[i].kind = "cleared"
               PROVE  Fresh(r[i].id, i - 1)'
    OBVIOUS
  <2>1. i \in 1 .. n /\ r[i] = q[i]
    BY <1>1, <1>2
  <2>2. Fresh(q[i].id, i - 1) /\ i - 1 \in 0 .. n
    BY <1>1, <2>1, <1>q, <1>n DEF Data, SlotInv
  <2>3. QED
    BY <1>4, <2>1, <2>2
<1>8. \A u \in calls' : u.pc # "run" => Fresh(u.id, n + 1)'
  BY <1>5, <1>6, <1>q, <1>n DEF Data, SlotInv
<1>9. QED
  BY <1>1, <1>2, <1>7, <1>8 DEF SlotInv

LEMMA EmittedClear ==
  ASSUME TypeOK, Data, NEW e \in Events, Emits(e), Fresh(e.id, Len(process.queue)),
         \A u \in calls' : u.pc = "run"
  PROVE  SlotInv'
<1>q. PICK q \in Seq(Events) : q = process.queue
  BY DEF TypeOK
<1>r. PICK r \in Seq(Events) : r = Append(q, e)
  BY AppendProperties
<1>n. PICK n \in Nat : n = Len(q)
  BY <1>q
<1>1. process'.queue = r /\ process'.cleared = process.cleared
  BY <1>q, <1>r, EmittedFacts
<1>2. Len(r) = n + 1 /\ r[n + 1] = e /\ \A i \in 1 .. n : r[i] = q[i]
  BY <1>n, <1>r
<1>0. Fresh(e.id, n)
  BY <1>q, <1>n
<1>3. /\ \A id : \A i \in 0 .. n : ClearedAt(i, id)' <=> ClearedAt(i, id)
      /\ \A id : \A i \in 1 .. n : OpenedAt(i, id)' <=> OpenedAt(i, id)
  BY <1>q, <1>1, <1>2 DEF ClearedAt, OpenedAt
<1>4. \A id : \A k \in 0 .. n : Fresh(id, k) => Fresh(id, k)'
  BY <1>1, <1>3 DEF Fresh
<1>7. \A i \in 1 .. n + 1 : r[i].kind = "cleared" => Fresh(r[i].id, i - 1)'
  <2> SUFFICES ASSUME NEW i \in 1 .. n + 1, r[i].kind = "cleared"
               PROVE  Fresh(r[i].id, i - 1)'
    OBVIOUS
  <2>1. CASE i \in 1 .. n
    <3>1. r[i] = q[i]
      BY <1>2, <2>1
    <3>2. Fresh(q[i].id, i - 1) /\ i - 1 \in 0 .. n
      BY <1>1, <2>1, <3>1, <1>q, <1>n DEF Data, SlotInv
    <3>3. QED
      BY <1>4, <3>1, <3>2
  <2>2. CASE i = n + 1
    <3>1. r[i] = e /\ i - 1 = n /\ n \in 0 .. n
      BY <1>1, <1>2, <2>2
    <3>2. QED
      BY <1>0, <1>4, <3>1
  <2>3. QED
    BY <1>1, <2>1, <2>2
<1>9. QED
  BY <1>1, <1>2, <1>7 DEF SlotInv

(* No two debts of a log are of the same work.                             *)
LEMMA WorksDistinct ==
  ASSUME TypeOK, Data, NEW c \in opts.chats,
         NEW d \in Replay(Recorded(c)), NEW e \in Replay(Recorded(c)), d.work = e.work
  PROVE  d = e
<1>1. PICK s \in Seq(Events) : s = Recorded(c)
  BY RecordedTyped
<1>2. PICK i \in 1 .. Len(s) : s[i].id = d.id /\ s[i].work = d.work
  BY <1>1, ReplaySource
<1>3. PICK j \in 1 .. Len(s) : s[j].id = e.id /\ s[j].work = e.work
  BY <1>1, ReplaySource
<1>4. d.id = e.id
  BY <1>1, <1>2, <1>3 DEF Data, EventInv
<1>5. QED
  BY <1>1, <1>4, ReplayFunctional

LEMMA WorksDrop ==
  ASSUME TypeOK, Data, NEW c \in opts.chats, NEW debt \in Replay(Recorded(c))
  PROVE  Works(Drop(Replay(Recorded(c)), debt.id)) = Works(Replay(Recorded(c))) \ {debt.work}
<1>1. Recorded(c) \in Seq(Events)
  BY RecordedTyped
<1>2. \A d \in Replay(Recorded(c)) : d.work = debt.work <=> d.id = debt.id
  BY <1>1, WorksDistinct, ReplayFunctional
<1>3. QED
  BY <1>2 DEF Works, Drop

(* A general that is waited for is the one whose work is in question.      *)
LEMMA ActiveCall ==
  ASSUME TypeOK, Control, NEW t \in calls, t.told = "no", t.kind = "general"
  PROVE  /\ t.chat \in opts.chats /\ chat[t.chat].pc = "running" /\ process.bound = t.chat /\ InScope(t)
         /\ \A d \in opts.chats : d # t.chat => chat[d].pc = "idle" /\ process.bound # d
         /\ \A u \in calls : u.chat = t.chat /\ (u # t => u.pc = "run" /\ u.told = "timer")
<1>1. t.chat \in opts.chats /\ chat[t.chat].pc = "running" /\ t.waited
  BY CallFacts DEF Control, CallInv
<1>2. process.bound = t.chat /\ t.turn = chat[t.chat].turns /\ \A u \in calls : u.chat = t.chat
  BY <1>1 DEF Control, TurnInv
<1>3. InScope(t)
  BY <1>2 DEF InScope
<1>4. \A d \in opts.chats : d # t.chat => chat[d].pc = "idle" /\ process.bound # d
  BY <1>1, <1>2, TurnFacts
<1>5. ASSUME NEW u \in calls, u # t PROVE u.pc = "run" /\ u.told = "timer"
  <2>1. u.told \in {"no", "user", "timer"}
    BY CallFacts DEF CallType
  <2>2. u.told # "no"
    BY <1>1, <1>5 DEF Control, CallInv
  <2>3. u.told # "user"
    BY <1>1, <1>2 DEF Control, CallInv
  <2>4. QED
    BY <2>1, <2>2, <2>3 DEF Control, CallInv
<1>6. QED
  BY <1>1, <1>2, <1>3, <1>4, <1>5

LEMMA CallIds ==
  ASSUME TypeOK, NEW t \in calls
  PROVE  /\ t.id \in Ids /\ t.work \in Ids
         /\ Event("open", t.id, t.work) \in Events /\ Event("cleared", t.id, t.work) \in Events
         /\ Event("open", t.id, t.work).kind = "open" /\ Event("cleared", t.id, t.work).kind = "cleared"
         /\ Event("open", t.id, t.work).id = t.id /\ Event("cleared", t.id, t.work).id = t.id
         /\ Event("open", t.id, t.work).work = t.work /\ Event("cleared", t.id, t.work).work = t.work
<1>1. t.id \in Ids /\ t.work \in Ids
  BY CallFacts
<1>2. QED
  BY <1>1, EventTyped DEF Event

(* When one chat changes and the others are idle, Kept is about that one.  *)
LEMMA KeptFromOne ==
  ASSUME opts' = opts, Kept, NEW c \in opts.chats,
         \A d \in opts.chats : d # c =>
           chat'[d].pc \notin {"running", "closing"} /\ Recorded(d)' = Recorded(d) /\ owed'[d] = owed[d],
         Works(Replay(Recorded(c)')) = owed'[c],
         chat'[c].pc \in {"running", "closing"} =>
           chat'[c].debts \cup chat'[c].carried = Replay(Recorded(c)')
  PROVE  Kept'
<1>1. \A x, y : x = y => Replay(x) = Replay(y)
  OBVIOUS
<1> SUFFICES ASSUME NEW d \in opts.chats
             PROVE  /\ Works(Replay(Recorded(d)')) = owed'[d]
                    /\ chat'[d].pc \in {"running", "closing"} =>
                         chat'[d].debts \cup chat'[d].carried = Replay(Recorded(d)')
  BY DEF Kept, Seen
<1>2. CASE d = c
  BY <1>2
<1>3. CASE d # c
  <2>1. Works(Replay(Recorded(d))) = owed[d] /\ Recorded(d)' = Recorded(d)
    BY <1>3 DEF Kept
  <2>2. Works(Replay(Recorded(d)')) = owed'[d]
    BY <1>3, <2>1
  <2>3. QED
    BY <1>3, <2>2
<1>4. QED
  BY <1>2, <1>3

LEMMA WorksPut ==
  ASSUME NEW bucket, NEW id, NEW work, \A d \in bucket : d.id # id
  PROVE  Works(Put(bucket, id, work)) = Works(bucket) \cup {work}
<1>1. Drop(bucket, id) = bucket
  BY DEF Drop
<1>2. \A d : d \in Put(bucket, id, work) <=> d \in bucket \/ d = Debt(id, work)
  BY <1>1 DEF Put
<1>3. Debt(id, work).work = work
  BY DEF Debt
<1>4. QED
  BY <1>2, <1>3, Zenon DEF Works

LEMMA OpensData ==
  ASSUME TypeOK, Control, Data, NEW t \in calls, CallStep(t), Opens(t)
  PROVE  Data'
<1> DEFINE c == t.chat
<1>e. PICK e \in Events : /\ e = Event("open", t.id, t.work)
                          /\ e.kind = "open" /\ e.id = t.id /\ e.work = t.work
  BY CallIds
<1>1. Emits(e)
  BY <1>e DEF CallStep, Opens, Owing, Emits
<1>2. /\ t.told = "no" /\ t.kind = "general" /\ t.pc = "run"
      /\ c \in opts.chats /\ chat[c].pc = "running" /\ process.bound = c /\ InScope(t)
      /\ \A d \in opts.chats : d # c => chat[d].pc = "idle" /\ process.bound # d
      /\ \A u \in calls : u.chat = c /\ (u # t => u.pc = "run" /\ u.told = "timer")
  BY ActiveCall DEF Opens
<1>3. \A u \in calls' : (u \in calls /\ u # t) \/ (Same(u, t) /\ u.pc # "run")
  BY DEF Opens, Left, Becomes
<1>4. /\ opts' = opts
      /\ \A d \in opts.chats : /\ chat'[d].pc = chat[d].pc /\ chat'[d].carried = chat[d].carried
                               /\ d # c => chat'[d].debts = chat[d].debts
      /\ chat'[c].debts = Put(chat[c].debts, t.id, t.work)
  BY <1>2 DEF CallStep, KeepsTurn, Opens, Debts
<1>5. PICK s \in Seq(Events) : s = Recorded(c)
  BY <1>2, RecordedTyped
<1>6. /\ Recorded(c)' = Append(s, e) /\ process'.bound = c
      /\ \A d \in opts.chats : d # c => Recorded(d)' = Recorded(d)
  BY <1>1, <1>2, <1>5, EmittedFacts
<1>7. Replay(Append(s, e)) = Put(Replay(s), t.id, t.work)
  BY <1>e, ReplayAppend
<1>8. \A d \in Replay(s) : d.id # t.id
  BY <1>2, <1>5 DEF Data, OweInv
<1>9. EventInv'
  <2>1. t.work <= made.calls /\ \A u \in calls : u # t => u.work # t.work
    BY DEF Control, WorkInv
  <2>2. \A i \in 1 .. Len(Recorded(c)) : Recorded(c)[i].work # e.work
    BY <1>2, <1>e DEF Data, EventInv
  <2>3. QED
    BY <1>1, <1>2, <1>3, <1>e, <2>1, <2>2, EmittedEvents
<1>10. Kept'
  <2>1. Works(Put(Replay(s), t.id, t.work)) = Works(Replay(s)) \cup {t.work}
    BY <1>8, WorksPut
  <2>2. owed[c] = Works(Replay(s)) /\ Seen(c) = Replay(s)
    BY <1>2, <1>5 DEF Data, Kept
  <2>3. /\ owed'[c] = owed[c] \cup {t.work} /\ \A d \in opts.chats : d # c => owed'[d] = owed[d]
    BY <1>2 DEF Opens, TypeOK
  <2>4. \A d \in chat[c].carried : d.id # t.id
    BY <1>2 DEF Data, OweInv
  <2>5. chat'[c].debts \cup chat'[c].carried = Put(Replay(s), t.id, t.work)
    BY <1>2, <1>4, <2>2, <2>4 DEF Seen, Put, Drop
  <2>7. Works(Replay(Recorded(c)')) = owed'[c] /\ chat'[c].debts \cup chat'[c].carried = Replay(Recorded(c)')
    BY <1>6, <1>7, <2>1, <2>2, <2>3, <2>5
  <2>8. \A d \in opts.chats : d # c => chat'[d].pc \notin {"running", "closing"}
    BY <1>2, <1>4
  <2>k. PICK k \in opts.chats : k = c
    BY <1>2
  <2>a. /\ Works(Replay(Recorded(k)')) = owed'[k]
        /\ chat'[k].debts \cup chat'[k].carried = Replay(Recorded(k)')
        /\ \A d \in opts.chats : d # k => Recorded(d)' = Recorded(d) /\ owed'[d] = owed[d]
    BY <1>6, <2>3, <2>7, <2>k
  <2>9. QED
    BY <1>4, <2>8, <2>k, <2>a, KeptFromOne DEF Data
<1>11. OweInv'
  <2> SUFFICES ASSUME NEW u \in calls', u.kind = "general"
               PROVE  /\ \A d \in chat'[u.chat].carried : d.id # u.id
                      /\ u.pc = "run" /\ u.told = "no" => \A d \in Replay(Recorded(u.chat))' : d.id # u.id
                      /\ u.pc # "run" => Debt(u.id, u.work) \in Replay(Recorded(u.chat))'
    BY DEF OweInv
  <2>1. CASE u \in calls /\ u # t
    <3>1. u.chat = c /\ u.pc = "run" /\ u.told = "timer"
      BY <1>2, <2>1
    <3>2. QED
      BY <1>2, <1>4, <2>1, <3>1 DEF Data, OweInv
  <2>2. CASE Same(u, t) /\ u.pc # "run"
    <3>1. u.chat = c /\ u.id = t.id /\ u.work = t.work
      BY <2>2 DEF Same
    <3>2. \A d \in chat[c].carried : d.id # t.id
      BY <1>2 DEF Data, OweInv
    <3>3. Debt(t.id, t.work) \in Replay(Append(s, e))
      BY <1>7 DEF Put
    <3>4. Debt(u.id, u.work) \in Replay(Recorded(u.chat)')
      BY <1>6, <3>1, <3>3
    <3>5. \A d \in chat'[u.chat].carried : d.id # u.id
      BY <1>2, <1>4, <3>1, <3>2
    <3>6. QED
      BY <2>2, <3>4, <3>5
  <2>3. QED
    BY <1>3, <2>1, <2>2
<1>12. SlotInv'
  BY <1>1, <1>3, <1>e, EmittedOpen DEF Same
<1>13. FlushInv'
  BY <1>2, <1>4 DEF FlushInv
<1>14. QED
  BY <1>9, <1>10, <1>11, <1>12, <1>13 DEF Data

LEMMA ClearsData ==
  ASSUME TypeOK, Control, Data, NEW t \in calls, CallStep(t), Clears(t)
  PROVE  Data'
<1> DEFINE c == t.chat
<1>2. /\ t.told = "no" /\ t.kind = "general" /\ t.pc # "run"
      /\ c \in opts.chats /\ chat[c].pc = "running" /\ process.bound = c /\ InScope(t)
      /\ \A d \in opts.chats : d # c => chat[d].pc = "idle" /\ process.bound # d
      /\ \A u \in calls : u.chat = c /\ (u # t => u.pc = "run" /\ u.told = "timer")
  BY ActiveCall DEF Clears
<1>e. PICK e \in Events : /\ e = Event("cleared", t.id, t.work)
                          /\ e.kind = "cleared" /\ e.id = t.id /\ e.work = t.work
  BY CallIds
<1>5. PICK s \in Seq(Events) : s = Recorded(c)
  BY <1>2, RecordedTyped
<1>m. Debt(t.id, t.work) \in Replay(s) /\ Seen(c) = Replay(s) /\ \A d \in chat[c].carried : d.id # t.id
  BY <1>2, <1>5 DEF Data, OweInv, Kept
<1>1. Emits(e)
  <2>1. \E d \in chat[c].debts : d.id = t.id
    BY <1>m DEF Seen, Debt
  <2>2. QED
    BY <1>e, <2>1 DEF CallStep, Clears, Clearing, Emits
<1>3. calls' = calls \ {t}
  BY DEF Clears, Left
<1>4. /\ opts' = opts
      /\ \A d \in opts.chats : /\ chat'[d].pc = chat[d].pc /\ chat'[d].carried = chat[d].carried
                               /\ d # c => chat'[d].debts = chat[d].debts
      /\ chat'[c].debts = Drop(chat[c].debts, t.id)
  BY <1>2 DEF CallStep, KeepsTurn, Clears, Debts
<1>6. /\ Recorded(c)' = Append(s, e) /\ process'.bound = c
      /\ \A d \in opts.chats : d # c => Recorded(d)' = Recorded(d)
  BY <1>1, <1>2, <1>5, EmittedFacts
<1>7. Replay(Append(s, e)) = Drop(Replay(s), t.id)
  BY <1>e, ReplayAppend
<1>9. EventInv'
  <2>1. t.work <= made.calls /\ \A u \in calls : u # t => u.work # t.work
    BY DEF Control, WorkInv
  <2>2. PICK i \in 1 .. Len(s) : s[i].id = t.id /\ s[i].work = t.work
    BY <1>m, ReplaySource DEF Debt
  <2>3. \A j \in 1 .. Len(Recorded(c)) : Recorded(c)[j].work = e.work => Recorded(c)[j].id = e.id
    BY <1>2, <1>5, <1>e, <2>2 DEF Data, EventInv
  <2>4. QED
    BY <1>1, <1>2, <1>3, <1>e, <2>1, <2>3, EmittedEvents
<1>10. Kept'
  <2>1. Works(Drop(Replay(s), t.id)) = Works(Replay(s)) \ {t.work}
    <3>1. PICK debt \in Replay(Recorded(c)) : debt.id = t.id /\ debt.work = t.work
      BY <1>5, <1>m DEF Debt
    <3>2. QED
      BY <1>2, <1>5, <3>1, WorksDrop
  <2>2. owed[c] = Works(Replay(s))
    BY <1>2, <1>5 DEF Data, Kept
  <2>3. owed'[c] = owed[c] \ {t.work} /\ \A d \in opts.chats : d # c => owed'[d] = owed[d]
    BY <1>2 DEF Clears, TypeOK
  <2>5. chat'[c].debts \cup chat'[c].carried = Drop(Replay(s), t.id)
    BY <1>2, <1>4, <1>m DEF Seen, Drop
  <2>7. Works(Replay(Recorded(c)')) = owed'[c] /\ chat'[c].debts \cup chat'[c].carried = Replay(Recorded(c)')
    BY <1>6, <1>7, <2>1, <2>2, <2>3, <2>5
  <2>8. \A d \in opts.chats : d # c => chat'[d].pc \notin {"running", "closing"}
    BY <1>2, <1>4
  <2>k. PICK k \in opts.chats : k = c
    BY <1>2
  <2>a. /\ Works(Replay(Recorded(k)')) = owed'[k]
        /\ chat'[k].debts \cup chat'[k].carried = Replay(Recorded(k)')
        /\ \A d \in opts.chats : d # k => Recorded(d)' = Recorded(d) /\ owed'[d] = owed[d]
    BY <1>6, <2>3, <2>7, <2>k
  <2>9. QED
    BY <1>4, <2>8, <2>k, <2>a, KeptFromOne DEF Data
<1>11. OweInv'
  <2> SUFFICES ASSUME NEW u \in calls, u # t, u.kind = "general"
               PROVE  \A d \in chat'[u.chat].carried : d.id # u.id
    BY <1>2, <1>3 DEF OweInv
  <2>1. QED
    BY <1>2, <1>4 DEF Data, OweInv
<1>12. SlotInv'
  <2>1. Fresh(e.id, Len(process.queue))
    BY <1>2, <1>e DEF Data, SlotInv
  <2>2. QED
    BY <1>1, <1>2, <1>3, <2>1, EmittedClear
<1>13. FlushInv'
  BY <1>2, <1>4 DEF FlushInv
<1>14. QED
  BY <1>9, <1>10, <1>11, <1>12, <1>13 DEF Data

LEMMA ReopensData ==
  ASSUME TypeOK, Control, Data, NEW t \in calls, CallStep(t), Reopens(t)
  PROVE  Data'
<1>c. PICK c \in opts.chats : c = t.chat
  BY CallFacts
<1>e. PICK e \in Events : /\ e = Event("open", t.id, t.work)
                          /\ e.kind = "open" /\ e.id = t.id /\ e.work = t.work
  BY CallIds
<1>1. Emits(e)
  BY <1>e DEF CallStep, Reopens, Owing, Emits
<1>2. /\ t.kind = "general" /\ t.pc # "run" /\ calls' = calls \ {t}
      /\ opts' = opts /\ log' = log /\ owed' = owed
      /\ \A u \in calls : u.pc # "run" => u = t
  BY DEF Reopens, Left, CallStep, Control, CallInv
<1>3. /\ \A d \in opts.chats : chat'[d].pc = chat[d].pc /\ chat'[d].carried = chat[d].carried
                               /\ chat'[d].flush = chat[d].flush
      /\ chat'[c].debts = IF InScope(t) THEN Put(chat[c].debts, t.id, t.work) ELSE chat[c].debts
  BY <1>c DEF CallStep, KeepsTurn, Reopens, Debts
<1>4. \A d \in opts.chats : d # c => chat[d].pc = "idle" /\ process.bound # d
  <2> SUFFICES ASSUME NEW d \in opts.chats, d # c PROVE chat[d].pc = "idle" /\ process.bound # d
    OBVIOUS
  <2>1. chat[d].pc = "idle"
    BY <1>c DEF Control, TurnInv
  <2>2. Tui => d = c
    BY OptionFacts DEF TypeOK, Tui
  <2>3. QED
    BY <2>1, <2>2 DEF Control, TurnInv
<1>5. PICK s \in Seq(Events) : s = Recorded(c)
  BY RecordedTyped
<1>6. /\ process'.bound = process.bound
      /\ Recorded(c)' = IF process.bound = c THEN Append(s, e) ELSE s
      /\ \A d \in opts.chats : d # c => Recorded(d)' = Recorded(d)
  BY <1>1, <1>4, <1>5, EmittedFacts
<1>7. process.bound = c => Debt(t.id, t.work) \in Replay(s)
  BY <1>2, <1>c, <1>5 DEF Data, OweInv
<1>8. Replay(Recorded(c)') = Replay(s)
  <2>1. CASE process.bound = c
    <3>1. Replay(Append(s, e)) = Put(Replay(s), t.id, t.work)
      BY <1>e, ReplayAppend
    <3>2. Put(Replay(s), t.id, t.work) = Replay(s)
      BY <1>7, <2>1, CallIds, ReopenSays
    <3>3. QED
      BY <1>6, <2>1, <3>1, <3>2
  <2>2. CASE process.bound # c
    BY <1>6, <2>2
  <2>3. QED
    BY <2>1, <2>2
<1>9. EventInv'
  <2>1. t.work <= made.calls /\ \A u \in calls : u # t => u.work # t.work
    BY DEF Control, WorkInv
  <2>2. ASSUME NEW d \in opts.chats, process.bound = d, NEW j \in 1 .. Len(Recorded(d)),
               Recorded(d)[j].work = e.work
        PROVE  Recorded(d)[j].id = e.id
    <3>1. d = c
      BY <1>4, <2>2
    <3>2. PICK i \in 1 .. Len(s) : s[i].id = t.id /\ s[i].work = t.work
      BY <1>7, <2>2, <3>1, ReplaySource DEF Debt
    <3>3. QED
      BY <1>5, <1>e, <2>2, <3>1, <3>2 DEF Data, EventInv
  <2>3. QED
    BY <1>1, <1>2, <1>e, <2>1, <2>2, EmittedEvents
<1>10. Kept'
  <2>1. Works(Replay(s)) = owed[c]
    BY <1>5 DEF Data, Kept
  <2>2. ASSUME chat'[c].pc \in {"running", "closing"}
        PROVE  chat'[c].debts \cup chat'[c].carried = Replay(s)
    <3>1. chat[c].pc \in {"running", "closing"}
      BY <1>3, <2>2
    <3>2. process.bound = c /\ t.turn = chat[c].turns
      BY <1>c, <3>1 DEF Control, TurnInv
    <3>3. InScope(t)
      BY <1>c, <3>2 DEF InScope
    <3>4. Seen(c) = Replay(s) /\ \A d \in chat[c].carried : d.id # t.id
      BY <1>2, <1>c, <1>5, <3>1 DEF Data, Kept, OweInv
    <3>5. Put(Replay(s), t.id, t.work) = Replay(s)
      BY <1>7, <3>2, CallIds, ReopenSays
    <3>6. chat'[c].debts \cup chat'[c].carried = Put(Replay(s), t.id, t.work)
      BY <1>3, <3>3, <3>4 DEF Seen, Put, Drop
    <3>7. QED
      BY <3>5, <3>6
  <2>3. \A d \in opts.chats : d # c =>
          chat'[d].pc \notin {"running", "closing"} /\ Recorded(d)' = Recorded(d) /\ owed'[d] = owed[d]
    BY <1>2, <1>3, <1>4, <1>6
  <2>4. Works(Replay(Recorded(c)')) = owed'[c]
    BY <1>2, <1>8, <2>1
  <2>5. chat'[c].pc \in {"running", "closing"} => chat'[c].debts \cup chat'[c].carried = Replay(Recorded(c)')
    BY <1>8, <2>2
  <2>6. QED
    BY <1>2, <2>3, <2>4, <2>5, KeptFromOne DEF Data
<1>11. OweInv'
  <2> SUFFICES ASSUME NEW u \in calls, u # t, u.kind = "general"
               PROVE  /\ chat'[u.chat].pc \in {"running", "closing"} =>
                           \A d \in chat'[u.chat].carried : d.id # u.id
                      /\ u.pc = "run" /\ u.told = "no" => \A d \in Replay(Recorded(u.chat)') : d.id # u.id
    BY <1>2 DEF OweInv
  <2>0. PICK x \in opts.chats : x = u.chat
    BY CallFacts
  <2>1. chat'[x].pc \in {"running", "closing"} => \A d \in chat'[x].carried : d.id # u.id
    BY <1>3, <2>0 DEF Data, OweInv
  <2>2. Replay(Recorded(x)') = Replay(Recorded(x))
    BY <1>5, <1>6, <1>8
  <2>3. u.pc = "run" /\ u.told = "no" => \A d \in Replay(Recorded(x)) : d.id # u.id
    BY <2>0 DEF Data, OweInv
  <2>4. QED
    BY <2>0, <2>1, <2>2, <2>3
<1>12. SlotInv'
  BY <1>1, <1>2, <1>e, EmittedOpen
<1>13. FlushInv'
  <2> SUFFICES ASSUME NEW d \in opts.chats, chat'[d].pc = "closing"
               PROVE  Steady(Recorded(d)', Len(log[d]) + chat'[d].flush)
    BY <1>2 DEF FlushInv
  <2>1. d = c /\ chat[c].pc = "closing" /\ process.bound = c
    BY <1>3, <1>4 DEF Control, TurnInv
  <2>2. Steady(s, Len(log[c]) + chat[c].flush)
    BY <1>5, <2>1 DEF Data, FlushInv
  <2>3. chat[c].flush \in Nat /\ Len(log[c]) \in Nat
    BY TurnFacts, RecordedTyped DEF ScopeType
  <2>m. PICK m \in Nat : m = Len(log[c]) + chat[c].flush
    BY <2>3
  <2>4. Steady(Append(s, e), m)
    BY <1>6, <1>8, <2>1, <2>2, <2>m, SteadyAppend
  <2>5. QED
    BY <1>3, <1>6, <2>1, <2>4, <2>m
<1>14. QED
  BY <1>9, <1>10, <1>11, <1>12, <1>13 DEF Data

(* A step of a call.                                                       *)
LEMMA CallData ==
  ASSUME TypeOK, Calm, Control, Control', Data, NEW t \in calls, Call(t)
  PROVE  Data'
<1>1. CallStep(t)
  BY CallCases DEF Control
<1>2. QED
  BY <1>1, QuietData, OpensData, ClearsData, ReopensData DEF CallStep

LEMMA EmptyRecord ==
  ASSUME TypeOK, NEW c \in opts.chats, process.queue = <<>>
  PROVE  Recorded(c) = log[c]
  BY RecordedTyped

(* A step before or at the start of a turn, when no call is left and all   *)
(* events have landed.                                                     *)
LEMMA QuietTurnData ==
  ASSUME TypeOK, TypeOK', Data, calls' = {}, process.queue = <<>>, process'.queue = <<>>,
         UNCHANGED <<opts, log, made, owed>>,
         \A c \in opts.chats :
           /\ chat'[c].pc # "closing"
           /\ chat'[c].pc = "running" => chat'[c].debts \cup chat'[c].carried = Replay(log[c])
  PROVE  Data'
<1>1. \A c \in opts.chats : Recorded(c) = log[c]
  BY EmptyRecord
<1>2. \A c \in opts.chats : Recorded(c)' = log[c]
  <2>1. \A s \in Seq(Events) : s \o <<>> = s
    BY ConcatEmptySeq
  <2>2. \A c \in opts.chats : log'[c] = log[c] /\ log[c] \in Seq(Events)
    BY RecordedTyped
  <2>3. QED
    BY <2>1, <2>2 DEF Recorded
<1>3. EventInv'
  BY <1>1, <1>2 DEF Data, EventInv
<1>4. Kept'
  <2> SUFFICES ASSUME NEW c \in opts.chats
               PROVE  /\ Works(Replay(Recorded(c)')) = owed[c]
                      /\ chat'[c].pc \in {"running", "closing"} =>
                           chat'[c].debts \cup chat'[c].carried = Replay(Recorded(c)')
    BY DEF Kept, Seen
  <2>1. Works(Replay(log[c])) = owed[c]
    BY <1>1 DEF Data, Kept
  <2>2. QED
    BY <1>2, <2>1
<1>5. OweInv' /\ FlushInv'
  BY DEF OweInv, FlushInv
<1>6. SlotInv'
  BY DEF SlotInv
<1>7. QED
  BY <1>3, <1>4, <1>5, <1>6 DEF Data

LEMMA BeginData ==
  ASSUME TypeOK, TypeOK', Calm, Control, Data, NEW c \in opts.chats,
         StartTurn(c) \/ Bind(c) \/ Hydrate(c)
  PROVE  Data'
<1>0. chat[c].pc = "idle" => ~StartTurn(c) \/ \A d \in opts.chats : chat[d].pc = "idle"
  BY CalmFacts DEF StartTurn
<1>1. CASE StartTurn(c)
  <2>1. /\ calls = {} /\ process.queue = <<>> /\ UNCHANGED <<opts, process, log, calls, made, owed>>
        /\ \A d \in opts.chats : IF d = c THEN chat'[d].pc = "starting" ELSE chat'[d] = chat[d]
    BY <1>1, StartControl
  <2>2. \A d \in opts.chats : chat[d].pc = "idle"
    BY <1>0, <1>1 DEF StartTurn
  <2>3. \A d \in opts.chats : chat'[d].pc \in {"starting", "idle"}
    BY <2>1, <2>2
  <2>4. QED
    BY <2>1, <2>3, QuietTurnData
<1>2. CASE Bind(c)
  <2>1. /\ calls = {} /\ process.queue = <<>> /\ process' = [process EXCEPT !.bound = c]
        /\ UNCHANGED <<opts, log, calls, made, owed>>
        /\ \A d \in opts.chats : IF d = c THEN chat'[d].pc = "hydrating" ELSE chat'[d] = chat[d]
    BY <1>2, BindControl
  <2>2. \A d \in opts.chats : d # c => chat[d].pc = "idle"
    BY <1>2, TurnFacts DEF Bind
  <2>3. process'.queue = <<>>
    BY <2>1, TurnFacts DEF ProcessType
  <2>4. \A d \in opts.chats : chat'[d].pc \in {"hydrating", "idle"}
    BY <2>1, <2>2
  <2>5. QED
    BY <2>1, <2>3, <2>4, QuietTurnData
<1>3. CASE Hydrate(c)
  <2>1. /\ calls = {} /\ process.queue = <<>> /\ UNCHANGED <<opts, process, log, calls, made, owed>>
        /\ chat'[c].pc = "running" /\ chat'[c].debts \cup chat'[c].carried = Replay(log[c])
        /\ \A d \in opts.chats : d # c => chat'[d] = chat[d] /\ chat[d].pc = "idle"
    BY <1>3, HydrateControl
  <2>2. QED
    BY <2>1, QuietTurnData
<1>4. QED
  BY <1>1, <1>2, <1>3

LEMMA EndData ==
  ASSUME TypeOK, TypeOK', Control, Control', Data, NEW c \in opts.chats,
         Complete(c) \/ Cancel(c) \/ Refuse(c)
  PROVE  Data'
<1>0. made.calls \in Nat
  BY DEF TypeOK
<1>1. CASE Complete(c) \/ Cancel(c)
  <2>1. /\ chat[c].pc = "running" /\ chat'[c].pc = "closing"
        /\ chat'[c].flush = Len(process.queue)
        /\ chat'[c].debts = chat[c].debts /\ chat'[c].carried = chat[c].carried
        /\ \A d \in opts.chats : d # c => chat'[d] = chat[d]
        /\ \A u \in calls' : \E t \in calls : Same(u, t) /\ u.pc = t.pc /\ (u.told = "no" => t.told = "no")
        /\ UNCHANGED <<opts, process, log, made, owed>>
    BY <1>1, CompleteControl
  <2>2. \A u \in calls' : \E t \in calls :
          Same(u, t) /\ (u.pc = "run" <=> t.pc = "run") /\ (u.told = "no" => t.told = "no")
    BY <2>1
  <2>3. ASSUME NEW d \in opts.chats, chat'[d].pc \in {"running", "closing"}
        PROVE  /\ chat[d].pc \in {"running", "closing"}
               /\ chat'[d].debts = chat[d].debts /\ chat'[d].carried = chat[d].carried
               /\ chat'[d].pc = "closing" =>
                    \/ chat[d].pc = "closing" /\ chat'[d].flush = chat[d].flush
                    \/ chat'[d].flush = Len(process.queue)
    BY <2>1, <2>3
  <2>4. made.calls <= made'.calls /\ made'.calls \in Nat
    BY <1>0, <2>1
  <2>5. QED
    BY <1>0, <2>1, <2>2, <2>3, <2>4, SilentData
<1>2. CASE Refuse(c)
  <2>1. /\ \A d \in opts.chats : KeepsTurn(chat'[d], chat[d]) /\ chat'[d].debts = chat[d].debts
        /\ UNCHANGED <<opts, process, log, calls, made, owed>>
    BY <1>2, RefuseControl
  <2>2. \A u \in calls' : Same(u, u) /\ u \in calls
    BY <2>1 DEF Same
  <2>3. \A d \in opts.chats :
          /\ chat'[d].pc = chat[d].pc /\ chat'[d].flush = chat[d].flush
          /\ chat'[d].debts = chat[d].debts /\ chat'[d].carried = chat[d].carried
    BY <2>1 DEF KeepsTurn
  <2>4. made.calls <= made'.calls /\ made'.calls \in Nat
    BY <1>0, <2>1
  <2>5. QED
    BY <1>0, <2>1, <2>2, <2>3, <2>4, SilentData
<1>3. QED
  BY <1>1, <1>2

LEMMA SpawnData ==
  ASSUME TypeOK, Calm, Control, Data, NEW c \in opts.chats,
         NEW kind \in {"explore", "verify", "general"}, Spawn(c, kind)
  PROVE  Data'
<1>1. /\ chat[c].pc = "running" /\ process.bound = c
      /\ \A d \in opts.chats : KeepsTurn(chat'[d], chat[d]) /\ chat'[d].debts = chat[d].debts
      /\ made'.calls = made.calls + 1 /\ UNCHANGED <<opts, process, log, owed>>
  BY SpawnControl
<1>2. PICK u \in CallType :
        /\ calls' = calls \cup {u} /\ u.chat = c /\ u.pc = "run" /\ u.work = made.calls + 1
        /\ u.kind = "general" => \A d \in Seen(c) : d.id # u.id
  BY SpawnControl
<1>3. \A d \in opts.chats :
        /\ chat'[d].pc = chat[d].pc /\ chat'[d].flush = chat[d].flush
        /\ chat'[d].debts = chat[d].debts /\ chat'[d].carried = chat[d].carried
  BY <1>1 DEF KeepsTurn
<1>4. \A d \in opts.chats : Recorded(d)' = Recorded(d)
  BY <1>1 DEF Recorded
<1>5. PICK n \in Nat : n = made.calls
  BY DEF TypeOK
<1>w. \A d \in opts.chats : \A i \in 1 .. Len(Recorded(d)) :
        Recorded(d)[i].work \in Nat /\ Recorded(d)[i].work <= n
  <2>1. \A e \in Events : e.work \in Nat
    BY DEF Events, Ids
  <2>2. \A d \in opts.chats : Recorded(d) \in Seq(Events)
    BY RecordedTyped
  <2>3. QED
    BY <1>5, <2>1, <2>2 DEF Data, EventInv
<1>6. EventInv'
  <2> SUFFICES ASSUME NEW d \in opts.chats, NEW i \in 1 .. Len(Recorded(d))
               PROVE  /\ Recorded(d)[i].work <= n + 1
                      /\ \A j \in 1 .. Len(Recorded(d)) :
                           Recorded(d)[i].work = Recorded(d)[j].work => Recorded(d)[i].id = Recorded(d)[j].id
                      /\ \A t \in calls \cup {u} : t.chat = d /\ t.pc = "run" => t.work # Recorded(d)[i].work
    BY <1>1, <1>2, <1>4, <1>5 DEF EventInv
  <2>1. Recorded(d)[i].work <= n + 1 /\ u.work # Recorded(d)[i].work
    BY <1>2, <1>5, <1>w
  <2>2. QED
    BY <2>1 DEF Data, EventInv
<1>7. Kept'
  BY <1>1, <1>3, <1>4 DEF Data, Kept, Seen
<1>8. OweInv'
  <2>1. Seen(c) = Replay(Recorded(c))
    BY <1>1 DEF Data, Kept
  <2> SUFFICES ASSUME NEW t \in calls \cup {u}, t.kind = "general"
               PROVE  /\ chat'[t.chat].pc \in {"running", "closing"} =>
                           \A d \in chat'[t.chat].carried : d.id # t.id
                      /\ t.pc = "run" /\ t.told = "no" => \A d \in Replay(Recorded(t.chat)') : d.id # t.id
                      /\ t.pc # "run" /\ process.bound = t.chat =>
                           Debt(t.id, t.work) \in Replay(Recorded(t.chat)')
    BY <1>1, <1>2 DEF OweInv
  <2>2. CASE t \in calls
    <3>1. PICK x \in opts.chats : x = t.chat
      BY <2>2, CallFacts
    <3>2. /\ chat[x].pc \in {"running", "closing"} => \A d \in chat[x].carried : d.id # t.id
          /\ t.pc = "run" /\ t.told = "no" => \A d \in Replay(Recorded(x)) : d.id # t.id
          /\ t.pc # "run" /\ process.bound = x => Debt(t.id, t.work) \in Replay(Recorded(x))
      BY <2>2, <3>1 DEF Data, OweInv
    <3>3. Replay(Recorded(x)') = Replay(Recorded(x))
      BY <1>4
    <3>4. QED
      BY <1>3, <3>1, <3>2, <3>3
  <2>3. CASE t = u
    <3>1. \A d \in chat'[c].carried : d.id # u.id
      BY <1>2, <1>3, <2>3 DEF Seen
    <3>2. \A d \in Replay(Recorded(c)') : d.id # u.id
      BY <1>2, <1>4, <2>1, <2>3
    <3>3. QED
      BY <1>2, <2>3, <3>1, <3>2
  <2>4. QED
    BY <2>2, <2>3
<1>9. SlotInv'
  BY <1>1, <1>2 DEF Data, SlotInv, Fresh, ClearedAt, OpenedAt
<1>10. FlushInv'
  BY <1>1, <1>3, <1>4 DEF Data, FlushInv
<1>11. QED
  BY <1>6, <1>7, <1>8, <1>9, <1>10 DEF Data

(* What is on the log is the beginning of what is recorded.                *)
LEMMA LogEvents ==
  ASSUME TypeOK, EventInv, NEW c \in opts.chats, NEW i \in 1 .. Len(log[c])
  PROVE  /\ log[c][i].work <= made.calls
         /\ \A j \in 1 .. Len(log[c]) : log[c][i].work = log[c][j].work => log[c][i].id = log[c][j].id
         /\ \A t \in calls : t.chat = c /\ t.pc = "run" => t.work # log[c][i].work
<1>1. PICK l \in Seq(Events), q \in Seq(Events) : l = log[c] /\ q = process.queue
  BY RecordedTyped
<1>2. \A j \in 1 .. Len(l) : j \in 1 .. Len(l \o q) /\ (l \o q)[j] = l[j]
  OBVIOUS
<1>3. Recorded(c) = l \o q \/ Recorded(c) = l
  BY <1>1, RecordedTyped
<1>4. \A j \in 1 .. Len(l) : j \in 1 .. Len(Recorded(c)) /\ Recorded(c)[j] = l[j]
  BY <1>2, <1>3
<1>5. QED
  BY <1>1, <1>4 DEF EventInv

LEMMA GateData ==
  ASSUME TypeOK, Control, Data, NEW c \in opts.chats, Gate(c)
  PROVE  Data'
<1>1. /\ chat[c].pc = "closing" /\ chat'[c].pc = "idle" /\ chat[c].flush = 0 /\ process.bound = c
      /\ process' = IF Tui THEN process ELSE [process EXCEPT !.bound = Nobody]
      /\ \A d \in opts.chats : d # c => chat'[d] = chat[d]
      /\ UNCHANGED <<opts, log, calls, made, owed>>
  BY GateControl
<1>2. /\ \A d \in opts.chats : d # c => chat[d].pc = "idle" /\ process.bound # d
      /\ process \in ProcessType /\ Nobody \notin opts.chats
  BY <1>1, TurnFacts
<1>3. process'.bound \in {c, Nobody} /\ process'.queue = process.queue /\ process'.cleared = process.cleared
  BY <1>1, <1>2 DEF ProcessType
<1>4. \A d \in opts.chats : chat'[d].pc = "idle"
  BY <1>1, <1>2
<1>5. \A t \in calls : t.told # "no" /\ t.chat \in opts.chats
  BY <1>1, <1>2, CallFacts DEF Control, CallInv
<1>6. PICK l \in Seq(Events), q \in Seq(Events) : l = log[c] /\ q = process.queue
  BY RecordedTyped
<1>7. Recorded(c) = l \o q /\ \A d \in opts.chats : d # c => Recorded(d) = log[d]
  BY <1>1, <1>2, <1>6, RecordedTyped
<1>8. \A d \in opts.chats : Recorded(d)' = Recorded(d) \/ (process'.bound # d /\ Recorded(d)' = log[d])
  <2>1. \A s \in Seq(Events) : s \o <<>> = s
    BY ConcatEmptySeq
  <2>2. \A d \in opts.chats : log'[d] = log[d] /\ log[d] \in Seq(Events)
    BY <1>1, RecordedTyped
  <2> TAKE d \in opts.chats
  <2>3. CASE process'.bound = d
    <3>1. d = c
      BY <1>2, <1>3, <2>3
    <3>2. Recorded(c)' = l \o q
      BY <1>3, <1>6, <2>2, <2>3, <3>1 DEF Recorded
    <3>3. QED
      BY <1>7, <3>1, <3>2
  <2>4. CASE process'.bound # d
    <3>1. Recorded(d)' = log[d]
      BY <2>1, <2>2, <2>4 DEF Recorded
    <3>2. QED
      BY <2>4, <3>1
  <2>5. QED
    BY <2>3, <2>4
<1>9. \A d \in opts.chats : Replay(Recorded(d)') = Replay(Recorded(d))
  <2> SUFFICES ASSUME NEW d \in opts.chats, Recorded(d)' = log[d]
               PROVE  Replay(log[d]) = Replay(Recorded(d))
    BY <1>8
  <2>1. CASE d = c
    <3>1. Steady(Recorded(c), Len(log[c]) + 0)
      BY <1>1 DEF Data, FlushInv
    <3>2. Steady(l \o q, Len(l))
      BY <1>6, <1>7, <3>1
    <3>3. Replay(l \o q) = Replay(l)
      BY <3>2, SteadyPrefix
    <3>4. QED
      BY <1>6, <1>7, <2>1, <3>3
  <2>2. CASE d # c
    BY <1>7, <2>2
  <2>3. QED
    BY <2>1, <2>2
<1>10. EventInv'
  <2> SUFFICES ASSUME NEW d \in opts.chats, NEW i \in 1 .. Len(Recorded(d)')
               PROVE  /\ Recorded(d)'[i].work <= made.calls
                      /\ \A j \in 1 .. Len(Recorded(d)') :
                           Recorded(d)'[i].work = Recorded(d)'[j].work => Recorded(d)'[i].id = Recorded(d)'[j].id
                      /\ \A t \in calls : t.chat = d /\ t.pc = "run" => t.work # Recorded(d)'[i].work
    BY <1>1 DEF EventInv
  <2>1. CASE Recorded(d)' = Recorded(d)
    BY <2>1 DEF Data, EventInv
  <2>2. CASE Recorded(d)' = log[d]
    BY <2>2, LogEvents DEF Data
  <2>3. QED
    BY <1>8, <2>1, <2>2
<1>11. Kept'
  <2> SUFFICES ASSUME NEW d \in opts.chats PROVE Works(Replay(Recorded(d)')) = owed[d]
    BY <1>1, <1>4 DEF Kept
  <2>1. Works(Replay(Recorded(d))) = owed[d]
    BY DEF Data, Kept
  <2>2. QED
    BY <1>9, <2>1
<1>12. OweInv'
  <2> SUFFICES ASSUME NEW t \in calls, t.kind = "general", t.pc # "run", process'.bound = t.chat
               PROVE  Debt(t.id, t.work) \in Replay(Recorded(t.chat)')
    BY <1>1, <1>4, <1>5 DEF OweInv
  <2>1. t.chat = c
    BY <1>2, <1>3, <1>5
  <2>2. Debt(t.id, t.work) \in Replay(Recorded(c))
    BY <1>1, <2>1 DEF Data, OweInv
  <2>3. QED
    BY <1>9, <2>1, <2>2
<1>13. SlotInv'
  BY <1>1, <1>3 DEF Data, SlotInv, Fresh, ClearedAt, OpenedAt
<1>14. FlushInv'
  BY <1>1, <1>4 DEF FlushInv
<1>15. QED
  BY <1>10, <1>11, <1>12, <1>13, <1>14 DEF Data

LEMMA CrashData ==
  ASSUME TypeOK, Control, Data, Crash
  PROVE  Data'
<1>1. /\ calls' = {} /\ process'.queue = <<>> /\ process'.bound = Nobody /\ process'.cleared = {}
      /\ \A d \in opts.chats : chat'[d].pc = "idle" /\ owed'[d] = Works(Replay(log[d]))
      /\ made'.calls = made.calls /\ UNCHANGED <<opts, log>>
  BY CrashControl DEF NewProcess
<1>2. \A d \in opts.chats : Recorded(d)' = log[d]
  <2>1. \A s \in Seq(Events) : s \o <<>> = s
    BY ConcatEmptySeq
  <2>2. \A d \in opts.chats : log'[d] = log[d] /\ log[d] \in Seq(Events)
    BY <1>1, RecordedTyped
  <2>3. QED
    BY <1>1, <2>1, <2>2 DEF Recorded
<1>3. EventInv'
  BY <1>1, <1>2, LogEvents DEF Data, EventInv
<1>4. Kept'
  <2> SUFFICES ASSUME NEW d \in opts.chats PROVE Works(Replay(Recorded(d)')) = owed'[d]
    BY <1>1 DEF Kept
  <2>1. QED
    BY <1>1, <1>2
<1>5. OweInv' /\ SlotInv' /\ FlushInv'
  BY <1>1 DEF OweInv, SlotInv, FlushInv
<1>6. QED
  BY <1>3, <1>4, <1>5 DEF Data

LEMMA InitData ==
  ASSUME Init
  PROVE  Data
<1>1. /\ calls = {} /\ process.queue = <<>> /\ process.bound = Nobody
      /\ \A c \in opts.chats : chat[c].pc = "idle" /\ log[c] = <<>> /\ owed[c] = {}
  BY DEF Init, NewScope, NewProcess
<1>2. \A c \in opts.chats : Recorded(c) = <<>>
  BY <1>1 DEF Recorded
<1>3. Replay(<<>>) = {} /\ Works({}) = {}
  BY DEF Replay, Works
<1>4. EventInv
  BY <1>2 DEF EventInv
<1>5. Kept
  BY <1>1, <1>2, <1>3 DEF Kept
<1>6. OweInv /\ SlotInv /\ FlushInv
  BY <1>1 DEF OweInv, SlotInv, FlushInv
<1>7. QED
  BY <1>4, <1>5, <1>6 DEF Data

LEMMA WaiveData ==
  ASSUME TypeOK, Control, Data, NEW c \in opts.chats, NEW d \in Replay(log[c]), Waive(c, d)
  PROVE  Data'
<1>1. /\ chat[c].pc = "idle" /\ process.bound # c
      /\ log' = [log EXCEPT ![c] = Append(log[c], Event("cleared", d.id, d.work))]
      /\ owed' = [owed EXCEPT ![c] = owed[c] \ {d.work}]
      /\ UNCHANGED <<opts, chat, process, calls, made>>
  BY DEF Waive
<1>2. PICK s \in Seq(Events) : s = log[c] /\ s = Recorded(c)
  BY <1>1, RecordedTyped
<1>3. PICK i \in 1 .. Len(s) : s[i].id = d.id /\ s[i].work = d.work
  BY <1>2, ReplaySource
<1>4. s[i] \in Events
  BY <1>3
<1>e. PICK e \in Events : /\ e = Event("cleared", d.id, d.work)
                          /\ e.kind = "cleared" /\ e.id = d.id /\ e.work = d.work
  <2>1. d.id \in Ids /\ d.work \in Ids
    BY <1>3, <1>4 DEF Events
  <2>2. QED
    BY <2>1, EventTyped DEF Event
<1>5. PICK r \in Seq(Events) : r = Append(s, e)
  BY AppendProperties
<1>6. /\ log'[c] = r /\ \A x \in opts.chats : x # c => log'[x] = log[x]
      /\ owed'[c] = owed[c] \ {d.work} /\ \A x \in opts.chats : x # c => owed'[x] = owed[x]
  BY <1>1, <1>2, <1>5, <1>e DEF TypeOK
<1>7. Recorded(c)' = r /\ \A x \in opts.chats : x # c => Recorded(x)' = Recorded(x)
  <2>1. r \o <<>> = r
    BY ConcatEmptySeq
  <2>2. QED
    BY <1>1, <1>6, <2>1 DEF Recorded
<1>8. Replay(r) = Drop(Replay(s), d.id)
  BY <1>5, <1>e, ReplayAppend
<1>9. EventInv'
  <2>1. /\ Len(r) = Len(s) + 1 /\ Len(s) \in Nat /\ r[Len(s) + 1] = e
        /\ \A j \in 1 .. Len(s) : r[j] = s[j]
        /\ \A j \in 1 .. Len(r) : j \in 1 .. Len(s) \/ j = Len(s) + 1
    BY <1>5
  <2>2. \A j \in 1 .. Len(s) :
          /\ s[j].work <= made.calls
          /\ \A k \in 1 .. Len(s) : s[j].work = s[k].work => s[j].id = s[k].id
          /\ \A t \in calls : t.chat = c /\ t.pc = "run" => t.work # s[j].work
    BY <1>2 DEF Data, EventInv
  <2>3. \A j \in 1 .. Len(r) : \E k \in 1 .. Len(s) : r[j].work = s[k].work /\ r[j].id = s[k].id
    BY <1>3, <1>e, <2>1
  <2>4. \A j \in 1 .. Len(r) :
          /\ r[j].work <= made.calls
          /\ \A k \in 1 .. Len(r) : r[j].work = r[k].work => r[j].id = r[k].id
          /\ \A t \in calls : t.chat = c /\ t.pc = "run" => t.work # r[j].work
    <3> SUFFICES ASSUME NEW j \in 1 .. Len(r)
                 PROVE  /\ r[j].work <= made.calls
                        /\ \A k \in 1 .. Len(r) : r[j].work = r[k].work => r[j].id = r[k].id
                        /\ \A t \in calls : t.chat = c /\ t.pc = "run" => t.work # r[j].work
      OBVIOUS
    <3>1. PICK a \in 1 .. Len(s) : r[j].work = s[a].work /\ r[j].id = s[a].id
      BY <2>3
    <3>2. ASSUME NEW k \in 1 .. Len(r), r[j].work = r[k].work PROVE r[j].id = r[k].id
      <4>1. PICK b \in 1 .. Len(s) : r[k].work = s[b].work /\ r[k].id = s[b].id
        BY <2>3
      <4>2. s[a].id = s[b].id
        BY <2>2, <3>1, <3>2, <4>1
      <4>3. QED
        BY <3>1, <4>1, <4>2
    <3>3. QED
      BY <2>2, <3>1, <3>2
  <2> SUFFICES ASSUME NEW x \in opts.chats, NEW j \in 1 .. Len(Recorded(x)')
               PROVE  /\ Recorded(x)'[j].work <= made.calls
                      /\ \A k \in 1 .. Len(Recorded(x)') :
                           Recorded(x)'[j].work = Recorded(x)'[k].work => Recorded(x)'[j].id = Recorded(x)'[k].id
                      /\ \A t \in calls : t.chat = x /\ t.pc = "run" => t.work # Recorded(x)'[j].work
    BY <1>1 DEF EventInv
  <2>5. CASE x = c
    BY <1>7, <2>4, <2>5
  <2>6. CASE x # c
    BY <1>7, <2>6 DEF Data, EventInv
  <2>7. QED
    BY <2>5, <2>6
<1>10. Kept'
  <2>1. Works(Drop(Replay(s), d.id)) = Works(Replay(s)) \ {d.work}
    BY <1>2, WorksDrop
  <2>2. Works(Replay(s)) = owed[c]
    BY <1>2 DEF Data, Kept
  <2>3. Works(Replay(Recorded(c)')) = owed'[c]
    BY <1>6, <1>7, <1>8, <2>1, <2>2
  <2> SUFFICES ASSUME NEW x \in opts.chats
               PROVE  /\ Works(Replay(Recorded(x)')) = owed'[x]
                      /\ chat[x].pc \in {"running", "closing"} => Seen(x) = Replay(Recorded(x)')
    BY <1>1 DEF Kept, Seen
  <2>4. CASE x = c
    BY <1>1, <2>3, <2>4
  <2>5. CASE x # c
    <3>1. /\ Works(Replay(Recorded(x))) = owed[x]
          /\ chat[x].pc \in {"running", "closing"} => Seen(x) = Replay(Recorded(x))
      BY DEF Data, Kept
    <3>2. Recorded(x)' = Recorded(x) /\ owed'[x] = owed[x]
      BY <1>6, <1>7, <2>5
    <3>3. QED
      BY <3>1, <3>2
  <2>6. QED
    BY <2>4, <2>5
<1>11. OweInv'
  <2> SUFFICES ASSUME NEW t \in calls, t.kind = "general"
               PROVE  /\ chat[t.chat].pc \in {"running", "closing"} =>
                           \A x \in chat[t.chat].carried : x.id # t.id
                      /\ t.pc = "run" /\ t.told = "no" => \A x \in Replay(Recorded(t.chat)') : x.id # t.id
                      /\ t.pc # "run" /\ process.bound = t.chat =>
                           Debt(t.id, t.work) \in Replay(Recorded(t.chat)')
    BY <1>1 DEF OweInv
  <2>0. PICK y \in opts.chats : y = t.chat
    BY CallFacts
  <2>1. /\ chat[y].pc \in {"running", "closing"} => \A x \in chat[y].carried : x.id # t.id
        /\ t.pc = "run" /\ t.told = "no" => \A x \in Replay(Recorded(y)) : x.id # t.id
        /\ t.pc # "run" /\ process.bound = y => Debt(t.id, t.work) \in Replay(Recorded(y))
    BY <2>0 DEF Data, OweInv
  <2>2. CASE y = c
    <3>1. t.told # "no" /\ process.bound # y
      BY <1>1, <2>0, <2>2 DEF Control, CallInv
    <3>2. QED
      BY <2>0, <2>1, <3>1
  <2>3. CASE y # c
    <3>1. Recorded(y)' = Recorded(y)
      BY <1>7, <2>3
    <3>2. QED
      BY <2>0, <2>1, <3>1
  <2>4. QED
    BY <2>2, <2>3
<1>12. SlotInv'
  <2>1. process' = process /\ calls' = calls
    BY <1>1
  <2>2. /\ \A m, id : ClearedAt(m, id)' <=> ClearedAt(m, id)
        /\ \A m, id : OpenedAt(m, id)' <=> OpenedAt(m, id)
    BY <2>1 DEF ClearedAt, OpenedAt
  <2>3. \A id, n : Fresh(id, n)' <=> Fresh(id, n)
    BY <2>2 DEF Fresh
  <2>4. QED
    BY <2>1, <2>3 DEF Data, SlotInv
<1>13. FlushInv'
  <2> SUFFICES ASSUME NEW x \in opts.chats, chat[x].pc = "closing"
               PROVE  Steady(Recorded(x)', Len(log'[x]) + chat[x].flush)
    BY <1>1 DEF FlushInv
  <2>1. x # c
    BY <1>1
  <2>2. Recorded(x)' = Recorded(x) /\ log'[x] = log[x]
    BY <1>6, <1>7, <2>1
  <2>3. Steady(Recorded(x), Len(log[x]) + chat[x].flush)
    BY DEF Data, FlushInv
  <2>4. QED
    BY <2>2, <2>3
<1>14. QED
  BY <1>9, <1>10, <1>11, <1>12, <1>13 DEF Data

(* An event that lands is recorded where it was taken to be recorded: it   *)
(* is no repetition.                                                       *)
LEMMA LandData ==
  ASSUME TypeOK, Control, Data, Land
  PROVE  Data'
<1>1. /\ \A d \in opts.chats :
           /\ chat'[d].pc = chat[d].pc /\ chat'[d].carried = chat[d].carried
           /\ chat'[d].debts = chat[d].debts
           /\ chat'[d].flush = IF chat[d].flush = 0 THEN 0 ELSE chat[d].flush - 1
      /\ process'.bound = process.bound /\ process'.queue = Tail(process.queue)
      /\ UNCHANGED <<opts, calls, made, owed>>
  BY LandControl
<1>q. PICK q \in Seq(Events) : q = process.queue /\ q # <<>>
  BY DEF Land, TypeOK
<1>n. PICK n \in Nat : n = Len(q) /\ n >= 1
  <2>1. Len(q) \in Nat /\ Len(q) # 0
    BY <1>q, EmptySeq, LenProperties
  <2>2. QED
    BY <2>1
<1>e. PICK e \in Events : e = Head(q) /\ e = q[1]
  <2>1. 1 \in 1 .. Len(q) /\ Head(q) = q[1]
    BY <1>n
  <2>2. QED
    BY <1>q, <2>1
<1>r. PICK r \in Seq(Events) : r = Tail(q)
  BY <1>q, HeadTailProperties
<1>2. Len(r) = n - 1 /\ \A i \in 1 .. n - 1 : r[i] = q[i + 1]
  BY <1>q, <1>n, <1>r
<1>3. ~Repeated(e)
  <2>1. 1 \in 1 .. n /\ 0 \in 0 .. 0 /\ \A j : j \notin 0 + 1 .. 0
    BY <1>n
  <2>2. e.kind = "cleared" => Fresh(e.id, 0)
    BY <1>q, <1>n, <1>e, <2>1 DEF Data, SlotInv
  <2>3. e.kind = "cleared" => e.id \notin process.cleared
    BY <2>1, <2>2 DEF Fresh, ClearedAt
  <2>4. QED
    BY <2>3 DEF Repeated
<1>4. /\ log' = IF process.bound # Nobody THEN [log EXCEPT ![process.bound] = Append(log[process.bound], e)] ELSE log
      /\ process' = [process EXCEPT !.queue = r,
           !.cleared = IF process.bound # Nobody \/ e.kind = "open" THEN Noted(e) ELSE process.cleared]
  BY <1>3, <1>q, <1>e, <1>r DEF Land
<1>5. process'.cleared = IF process.bound # Nobody \/ e.kind = "open" THEN Noted(e) ELSE process.cleared
  BY <1>4 DEF TypeOK
<1>6. \A d \in opts.chats :
        log'[d] = IF process.bound = d THEN Append(log[d], e) ELSE log[d]
  BY <1>4, OptionFacts DEF TypeOK
<1>7. \A d \in opts.chats : Recorded(d)' = Recorded(d)
  <2> SUFFICES ASSUME NEW d \in opts.chats PROVE Recorded(d)' = Recorded(d)
    OBVIOUS
  <2>0. PICK l \in Seq(Events) : l = log[d]
    BY RecordedTyped
  <2>1. CASE process.bound = d
    <3>1. Recorded(d)' = Append(l, e) \o r
      BY <1>1, <1>6, <1>q, <1>r, <2>0, <2>1 DEF Recorded
    <3>2. Recorded(d) = l \o q
      BY <1>q, <2>0, <2>1 DEF Recorded
    <3>3. <<e>> \in Seq(Events) /\ q = <<e>> \o r
      BY <1>q, <1>e, <1>r
    <3>4. Append(l, e) = l \o <<e>>
      BY <2>0, AppendIsConcat
    <3>5. (l \o <<e>>) \o r = l \o (<<e>> \o r)
      BY <3>3, ConcatAssociative
    <3>6. QED
      BY <3>1, <3>2, <3>3, <3>4, <3>5
  <2>2. CASE process.bound # d
    BY <1>1, <1>6, <2>2 DEF Recorded
  <2>3. QED
    BY <2>1, <2>2
<1>8. EventInv'
  BY <1>1, <1>7 DEF Data, EventInv
<1>9. Kept'
  BY <1>1, <1>7 DEF Data, Kept, Seen
<1>10. OweInv'
  <2>1. \A t \in calls : t.chat \in opts.chats
    BY CallFacts
  <2>2. QED
    BY <1>1, <1>7, <2>1 DEF Data, OweInv
<1>11. \A id : \A k \in 1 .. n : Fresh(id, k) => Fresh(id, k - 1)'
  <2> SUFFICES ASSUME NEW id, NEW k \in 1 .. n, Fresh(id, k), NEW i \in 0 .. k - 1, ClearedAt(i, id)'
               PROVE  \E j \in i + 1 .. k - 1 : OpenedAt(j, id)'
    BY DEF Fresh
  <2>1. \A j \in 2 .. k : OpenedAt(j, id) => j - 1 \in 1 .. k - 1 /\ OpenedAt(j - 1, id)'
    <3> SUFFICES ASSUME NEW j \in 2 .. k, OpenedAt(j, id) PROVE j - 1 \in 1 .. k - 1 /\ OpenedAt(j - 1, id)'
      OBVIOUS
    <3>1. j - 1 \in 1 .. n - 1 /\ j - 1 \in 1 .. k - 1 /\ r[j - 1] = q[j]
      BY <1>2
    <3>2. QED
      BY <1>1, <1>q, <1>r, <3>1 DEF OpenedAt
  <2>2. CASE i # 0
    <3>1. i \in 1 .. n - 1 /\ r[i] = q[i + 1] /\ i + 1 \in 0 .. k /\ i + 1 # 0
      BY <1>2, <2>2
    <3>2. r[i].kind = "cleared" /\ r[i].id = id
      BY <1>1, <1>q, <1>r, <2>2 DEF ClearedAt
    <3>3. ClearedAt(i + 1, id)
      BY <1>q, <3>1, <3>2 DEF ClearedAt
    <3>4. PICK j \in i + 1 + 1 .. k : OpenedAt(j, id)
      BY <3>1, <3>3 DEF Fresh
    <3>5. j \in 2 .. k /\ j - 1 \in i + 1 .. k - 1
      BY <3>1, <3>4
    <3>6. QED
      BY <2>1, <3>4, <3>5
  <2>3. CASE i = 0
    <3>0. id \in process'.cleared
      BY <2>3 DEF ClearedAt
    <3>1. CASE id \in process.cleared /\ ~(e.kind = "open" /\ e.id = id)
      <4>1. ClearedAt(0, id) /\ 0 \in 0 .. k
        BY <3>1 DEF ClearedAt
      <4>2. PICK j \in 0 + 1 .. k : OpenedAt(j, id)
        BY <4>1 DEF Fresh
      <4>3. j # 1
        BY <1>q, <1>e, <3>1, <4>2 DEF OpenedAt
      <4>4. j \in 2 .. k /\ j - 1 \in i + 1 .. k - 1
        BY <2>3, <4>2, <4>3
      <4>5. QED
        BY <2>1, <4>2, <4>4
    <3>2. CASE e.kind = "cleared" /\ e.id = id
      <4>1. ClearedAt(1, id) /\ 1 \in 0 .. k
        BY <1>q, <1>e, <3>2 DEF ClearedAt
      <4>2. PICK j \in 1 + 1 .. k : OpenedAt(j, id)
        BY <4>1 DEF Fresh
      <4>3. j \in 2 .. k /\ j - 1 \in i + 1 .. k - 1
        BY <2>3, <4>2
      <4>4. QED
        BY <2>1, <4>2, <4>3
    <3>3. e.kind \in {"open", "cleared"}
      BY DEF Events
    <3>4. QED
      BY <1>5, <3>0, <3>1, <3>2, <3>3 DEF Noted
  <2>4. QED
    BY <2>2, <2>3
<1>12. SlotInv'
  <2>1. ASSUME NEW i \in 1 .. n - 1, r[i].kind = "cleared"
        PROVE  Fresh(r[i].id, i - 1)'
    <3>1. i + 1 \in 1 .. n /\ r[i] = q[i + 1] /\ i \in 1 .. n /\ (i + 1) - 1 = i
      BY <1>2
    <3>2. Fresh(r[i].id, i)
      BY <1>q, <1>n, <2>1, <3>1 DEF Data, SlotInv
    <3>3. QED
      BY <1>11, <3>1, <3>2
  <2>2. ASSUME NEW t \in calls, t.pc # "run" PROVE Fresh(t.id, n - 1)'
    <3>1. Fresh(t.id, n) /\ n \in 1 .. n
      BY <1>q, <1>n, <2>2 DEF Data, SlotInv
    <3>2. QED
      BY <1>11, <3>1
  <2>3. process'.queue = r /\ calls' = calls
    BY <1>1, <1>q, <1>r
  <2>4. QED
    BY <1>2, <2>1, <2>2, <2>3 DEF SlotInv
<1>13. FlushInv'
  <2> SUFFICES ASSUME NEW d \in opts.chats, chat[d].pc = "closing"
               PROVE  Steady(Recorded(d)', Len(log'[d]) + chat'[d].flush)
    BY <1>1 DEF FlushInv
  <2>1. process.bound = d
    BY DEF Control, TurnInv
  <2>2. PICK m \in Nat, f \in Nat : m = Len(log[d]) /\ f = chat[d].flush
    BY RecordedTyped, TurnFacts DEF ScopeType
  <2>l. PICK l \in Seq(Events) : l = log[d]
    BY RecordedTyped
  <2>3. Len(log'[d]) = m + 1
    <3>1. Len(Append(l, e)) = Len(l) + 1
      OBVIOUS
    <3>2. log'[d] = Append(l, e)
      BY <1>6, <2>1, <2>l
    <3>3. QED
      BY <2>2, <2>l, <3>1, <3>2
  <2>4. PICK s \in Seq(Events) : s = Recorded(d)
    BY RecordedTyped
  <2>5. Steady(s, m + f)
    BY <2>2, <2>4 DEF Data, FlushInv
  <2>g. PICK g \in Nat : g = chat'[d].flush /\ m + 1 + g >= m + f
    <3>1. chat'[d].flush = IF f = 0 THEN 0 ELSE f - 1
      BY <1>1, <2>2
    <3>2. QED
      BY <3>1
  <2>6. \A k \in m + 1 + chat'[d].flush .. Len(s) : k \in m + f .. Len(s)
    <3>1. Len(s) \in Nat
      BY <2>4, LenProperties
    <3>2. QED
      BY <2>g, <3>1
  <2>7. Steady(s, m + 1 + chat'[d].flush)
    BY <2>5, <2>6 DEF Steady
  <2>8. QED
    BY <1>7, <2>3, <2>4, <2>7
<1>14. QED
  BY <1>8, <1>9, <1>10, <1>12, <1>13 DEF Data

-----------------------------------------------------------------------------
LEMMA InvariantStep == Calm /\ TypeOK /\ Control /\ Data /\ [Next]_vars => Control' /\ Data'
<1> SUFFICES ASSUME Calm, TypeOK, Control, Data, [Next]_vars PROVE Control' /\ Data'
  OBVIOUS
<1>0. TypeOK'
  BY TypedStep
<1>1. ASSUME NEW c \in opts.chats, Turn(c) PROVE Control' /\ Data'
  <2>1. CASE StartTurn(c) \/ Bind(c) \/ Hydrate(c)
    BY <1>0, <2>1, StartControl, BindControl, HydrateControl, BeginData
  <2>2. CASE Complete(c) \/ Cancel(c) \/ Refuse(c)
    <3>1. Control'
      BY <2>2, CompleteControl, RefuseControl
    <3>2. QED
      BY <1>0, <2>2, <3>1, EndData
  <2>3. CASE Gate(c)
    BY <2>3, GateControl, GateData
  <2>4. CASE \E kind \in {"explore", "verify", "general"} : Spawn(c, kind)
    BY <2>4, SpawnControl, SpawnData
  <2>5. CASE \E d \in Replay(log[c]) : Waive(c, d)
    <3>1. UNCHANGED <<opts, chat, process, calls, made>>
      BY <2>5 DEF Waive
    <3>2. QED
      BY <2>5, <3>1, WaiveControl, WaiveData
  <2>6. QED
    BY <1>1, <2>1, <2>2, <2>3, <2>4, <2>5 DEF Turn
<1>2. ASSUME NEW t \in calls, Call(t) PROVE Control' /\ Data'
  <2>1. Control'
    BY <1>2, CallCases, CallControl DEF Control
  <2>2. QED
    BY <1>2, <2>1, CallData
<1>3. CASE Land
  BY <1>3, LandControl, LandData
<1>4. CASE Crash
  BY <1>4, CrashControl, CrashData
<1>5. CASE UNCHANGED vars
  <2>1. UNCHANGED <<opts, chat, process, log, calls, made, owed>>
    BY <1>5 DEF vars
  <2>2. Control'
    BY <2>1, WaiveControl
  <2>3. made.calls \in Nat /\ made.calls <= made'.calls /\ made'.calls \in Nat
    BY <2>1 DEF TypeOK
  <2>4. \A u \in calls' : u \in calls /\ Same(u, u)
    BY <2>1 DEF Same
  <2>5. Data'
    BY <2>1, <2>2, <2>3, <2>4, SilentData
  <2>6. QED
    BY <2>2, <2>5
<1>6. QED
  BY <1>1, <1>2, <1>3, <1>4, <1>5 DEF Next

LEMMA InvariantHolds ==
  ASSUME Calm
  PROVE  Spec => [](TypeOK /\ Control /\ Data)
<1>1. Init => TypeOK /\ Control /\ Data
  BY InitTyped, InitControl, InitData
<1>2. TypeOK /\ Control /\ Data /\ [Next]_vars => (TypeOK /\ Control /\ Data)'
  BY TypedStep, InvariantStep
<1>3. QED
  BY <1>1, <1>2, PTL DEF Spec

(* Without the hazards, what a turn sees in memory, what is owed and what  *)
(* a later process finds on the log are the debts of the same work, over   *)
(* turns, cancels, crashes and resumes: addTaskVerifyObligation,           *)
(* clearTaskVerifyObligation, the persist queue of verifyDebtSpine and     *)
(* hydrateTaskVerifyDebtFromSpine lose none and keep none too long.        *)
THEOREM DebtsAreKept ==
  ASSUME Calm
  PROVE  Spec => []DebtsKept
<1>1. Data => DebtsKept
  BY DEF Data, Kept, DebtsKept
<1>2. QED
  BY <1>1, InvariantHolds, PTL

LEMMA VerdictSound ==
  ASSUME Data, NEW c \in opts.chats, chat[c].pc = "closing"
  PROVE  /\ Verdict(c) = "clean" => owed[c] = {}
         /\ Verdict(c) = "blocked" => owed[c] # {}
<1>1. Works(Seen(c)) = owed[c]
  BY DEF Data, Kept
<1>2. Seen(c) = {} <=> owed[c] = {}
  BY <1>1 DEF Works
<1>3. QED
  BY <1>2 DEF Verdict

(* Without the hazards the strict gate of a completed turn (runOneTurn's   *)
(* look at taskVerifyObligation, after the flush) blocks it exactly when   *)
(* work is owed.                                                           *)
THEOREM GateIsSound ==
  ASSUME Calm
  PROVE  Spec => GateSound
<1> DEFINE Sound == \A c \in opts.chats : chat[c].outcome = "none" =>
                      /\ chat'[c].outcome = "clean" => owed[c] = {}
                      /\ chat'[c].outcome = "blocked" => owed[c] # {}
<1>1. TypeOK /\ Control /\ Data /\ [Next]_vars => [Sound]_vars
  <2> SUFFICES ASSUME TypeOK, Control, Data, Next, NEW c \in opts.chats
               PROVE  \/ chat'[c].outcome \in {chat[c].outcome, "none"}
                      \/ chat[c].pc = "closing" /\ chat'[c].outcome = Verdict(c)
    BY VerdictSound
  <2>1. ASSUME NEW d \in opts.chats, Turn(d)
        PROVE  \/ chat'[c].outcome \in {chat[c].outcome, "none"}
               \/ chat[c].pc = "closing" /\ chat'[c].outcome = Verdict(c)
    <3>0. chat \in [opts.chats -> ScopeType] /\ chat[c] \in ScopeType /\ chat[d] \in ScopeType
      BY TurnFacts
    <3>1. CASE StartTurn(d)
      BY <3>0, <3>1 DEF StartTurn, ScopeType, NewScope
    <3>2. CASE Bind(d) \/ Refuse(d)
      BY <3>0, <3>2 DEF Bind, Refuse, ScopeType
    <3>c. CASE Complete(d) \/ Cancel(d)
      <4>1. CASE Complete(d)
        BY <3>0, <4>1 DEF Complete, ScopeType
      <4>2. CASE Cancel(d)
        BY <3>0, <4>2 DEF Cancel, ScopeType
      <4>3. QED
        BY <3>c, <4>1, <4>2
    <3>3. CASE Hydrate(d)
      BY <3>0, <3>3 DEF Hydrate, ScopeType
    <3>4. CASE Gate(d)
      BY <3>4, GateControl
    <3>5. CASE \E kind \in {"explore", "verify", "general"} : Spawn(d, kind)
      BY <3>0, <3>5 DEF Spawn, ScopeType
    <3>6. CASE \E x \in Replay(log[d]) : Waive(d, x)
      BY <3>6 DEF Waive
    <3>7. QED
      BY <2>1, <3>1, <3>2, <3>c, <3>3, <3>4, <3>5, <3>6 DEF Turn
  <2>2. ASSUME NEW t \in calls, Call(t) PROVE chat'[c].outcome = chat[c].outcome
    BY <2>2, CallCases DEF CallStep, KeepsTurn, Control
  <2>3. CASE Land
    BY <2>3, LandControl
  <2>4. CASE Crash
    BY <2>4 DEF Crash, NewScope
  <2>5. QED
    BY <2>1, <2>2, <2>3, <2>4 DEF Next
<1>2. QED
  BY <1>1, InvariantHolds, PTL DEF Spec, GateSound
=============================================================================
