---------------------- MODULE KrakenExecutor_proofs ----------------------
(***************************************************************************)
(* What holds of the Kraken executor in every run, whatever the plan, the  *)
(* limits and the environment: KrakenExecutor's types and safety           *)
(* properties, from one inductive invariant.                               *)
(***************************************************************************)
EXTENDS KrakenExecutor, FiniteSetTheorems, SequenceTheorems, WellFoundedInduction,
        TLAPS

-----------------------------------------------------------------------------
(*                   Induction and recursive functions                     *)
(*                                                                         *)
(* A recursive function is whatever satisfies its equation, so that        *)
(* something does has to be shown before anything can be said of it.       *)

(* A set of numbers has a least element.                                   *)
LEMMA LeastNumber ==
  ASSUME NEW T, T \subseteq Nat, T # {}
  PROVE  \E x \in T : \A y \in T : x <= y
<1>1. PICK x \in T : \A y \in T : ~(<<y, x>> \in OpToRel(LAMBDA a, b : a < b, Nat))
  BY NatLessThanWellFounded, WFMin, Zenon
<1>2. \A y \in T : ~(y < x)
  BY <1>1 DEF OpToRel
<1>3. QED
  BY <1>2

LEMMA InductionOnSets ==
  ASSUME NEW S, 0 \in S, \A n \in Nat : n \in S => n + 1 \in S
  PROVE  \A n \in Nat : n \in S
<1> SUFFICES ASSUME Nat \ S # {} PROVE FALSE
  OBVIOUS
<1>1. PICK x \in Nat \ S : \A y \in Nat \ S : x <= y
  BY LeastNumber
<1>2. x - 1 \in Nat /\ x - 1 \in S
  BY <1>1
<1>3. (x - 1) + 1 \in S
  BY <1>2
<1>4. QED
  BY <1>1, <1>3

(* What is computed step by step from a first value exists: step[k] says  *)
(* what the k-th value is, given the one before it.                        *)
Steps(step, V) == step \in [Nat -> [V -> V]]

Stepwise(f, V, base, step, n) ==
  /\ f \in [0 .. n -> V]
  /\ f[0] = base
  /\ \A k \in 1 .. n : f[k] = step[k][f[k - 1]]

LEMMA StepwiseExists ==
  ASSUME NEW V, NEW base, base \in V, NEW step, Steps(step, V), NEW n \in Nat
  PROVE  \E f : Stepwise(f, V, base, step, n)
<1> DEFINE S == {m \in Nat : \E f : Stepwise(f, V, base, step, m)}
<1>1. 0 \in S
  <2>1. Stepwise([k \in 0 .. 0 |-> base], V, base, step, 0)
    BY DEF Stepwise
  <2>2. QED
    BY <2>1
<1>2. ASSUME NEW m \in Nat, m \in S
      PROVE  m + 1 \in S
  <2>1. PICK f : Stepwise(f, V, base, step, m)
    BY <1>2
  <2> DEFINE g == [k \in 0 .. (m + 1) |-> IF k <= m THEN f[k] ELSE step[m + 1][f[m]]]
  <2>2. step[m + 1][f[m]] \in V
    BY <2>1 DEF Stepwise, Steps
  <2>3. g \in [0 .. (m + 1) -> V]
    BY <2>1, <2>2 DEF Stepwise
  <2>4. g[0] = base
    BY <2>1 DEF Stepwise
  <2>5. ASSUME NEW k \in 1 .. (m + 1)
        PROVE  g[k] = step[k][g[k - 1]]
    <3>1. CASE k <= m
      BY <2>1, <3>1 DEF Stepwise
    <3>2. CASE k = m + 1
      BY <2>1, <3>2
    <3>3. QED
      BY <3>1, <3>2
  <2> HIDE DEF g
  <2>6. Stepwise(g, V, base, step, m + 1)
    BY <2>3, <2>4, <2>5 DEF Stepwise
  <2>7. QED
    BY <2>6
<1> HIDE DEF S
<1>3. n \in S
  BY <1>1, <1>2, InductionOnSets
<1>4. QED
  BY <1>3 DEF S


-----------------------------------------------------------------------------
(*                     Graphs, and what changes them                       *)

(* A function on 1 .. n is a sequence.                                     *)
LEMMA MadeSeq ==
  ASSUME NEW S, NEW n \in Nat, NEW f, f \in [1 .. n -> S]
  PROVE  f \in Seq(S) /\ Len(f) = n
BY DEF Seq

LEMMA SeqElements ==
  ASSUME NEW S, NEW s \in Seq(S)
  PROVE  /\ Len(s) \in Nat
         /\ s \in [1 .. Len(s) -> S]
         /\ \A i \in 1 .. Len(s) : s[i] \in S
BY DEF Seq

(* The nodes of a graph of n nodes; NodeType is NodesOf(Len(nodes), ...).  *)
NodesOf(n, rounds) ==
  [kind : Kinds, scope : SUBSET {"a", "b"}, deps : SUBSET (1 .. n),
   status : Statuses, retries : 0 .. 1, lineage : 1 .. n, rounds : 0 .. rounds,
   repairs : (1 .. n) \cup {0}, task : {"none", "works", "told", "zombie"},
   answer : {"none", "ok", "pass", "fail", "unknown", "error", "stuck"}]

LEMMA NodeTypes == NodeType = NodesOf(Len(nodes), opts.rounds)
BY DEF NodeType, NodesOf, Ids

(* What no step changes of a node, but for what a spawned node takes over. *)
SameRole(a, b) ==
  /\ a.kind = b.kind /\ a.scope = b.scope /\ a.deps = b.deps
  /\ a.lineage = b.lineage /\ a.rounds = b.rounds /\ a.repairs = b.repairs

SameShape(h, g) ==
  Len(h) = Len(g) /\ \A j \in 1 .. Len(g) : SameRole(h[j], g[j])

SameWork(a, b) == a.task = b.task /\ a.answer = b.answer

(* A graph h that differs from g in statuses only: those of `is' are s.    *)
Restated(h, g, is, s) ==
  /\ SameShape(h, g)
  /\ \A j \in 1 .. Len(g) :
       /\ SameWork(h[j], g[j])
       /\ j \in is => h[j].status = s
       /\ j \notin is => h[j].status = g[j].status

LEMMA SetStatusRestates ==
  ASSUME NEW n \in Nat, NEW b \in Nat, NEW g \in Seq(NodesOf(n, b)),
         NEW is, NEW s \in Statuses
  PROVE  /\ SetStatus(g, is, s) \in Seq(NodesOf(n, b))
         /\ Restated(SetStatus(g, is, s), g, is, s)
<1> DEFINE h == SetStatus(g, is, s)
<1>1. Len(g) \in Nat /\ \A j \in 1 .. Len(g) : g[j] \in NodesOf(n, b)
  BY SeqElements
<1>2. ASSUME NEW j \in 1 .. Len(g)
      PROVE  /\ h[j] \in NodesOf(n, b) /\ SameRole(h[j], g[j]) /\ SameWork(h[j], g[j])
             /\ j \in is => h[j].status = s
             /\ j \notin is => h[j].status = g[j].status
  <2>1. g[j] \in NodesOf(n, b)
    BY <1>1
  <2>2. h[j] = IF j \in is THEN [g[j] EXCEPT !.status = s] ELSE g[j]
    BY DEF SetStatus
  <2>3. CASE j \in is
    <3>1. h[j] = [g[j] EXCEPT !.status = s]
      BY <2>2, <2>3
    <3> HIDE DEF h
    <3> QED  BY <2>1, <3>1, <2>3 DEF NodesOf, SameRole, SameWork
  <2>4. CASE j \notin is
    BY <2>1, <2>2, <2>4 DEF SameRole, SameWork
  <2> QED  BY <2>3, <2>4
<1>3. h \in [1 .. Len(g) -> NodesOf(n, b)]
  BY <1>2 DEF SetStatus
<1>4. h \in Seq(NodesOf(n, b)) /\ Len(h) = Len(g)
  BY <1>1, <1>3, MadeSeq
<1> QED  BY <1>2, <1>4 DEF Restated, SameShape

(* A graph h that differs from g in the work of node i only.               *)
Worked(h, g, i, task, answer) ==
  /\ SameShape(h, g)
  /\ \A j \in 1 .. Len(g) :
       /\ h[j].status = g[j].status
       /\ j # i => SameWork(h[j], g[j])
  /\ h[i].task = task /\ h[i].answer = answer

Tasks   == {"none", "works", "told", "zombie"}
Replies == {"none", "ok", "pass", "fail", "unknown", "error", "stuck"}

LEMMA NodeUpdated ==
  ASSUME NEW n \in Nat, NEW b \in Nat, NEW g \in Seq(NodesOf(n, b)),
         NEW i \in 1 .. Len(g), NEW r \in NodesOf(n, b)
  PROVE  LET h == [g EXCEPT ![i] = r]
         IN  /\ h \in Seq(NodesOf(n, b)) /\ Len(h) = Len(g) /\ h[i] = r
             /\ \A j \in 1 .. Len(g) : j # i => h[j] = g[j]
<1> DEFINE h == [g EXCEPT ![i] = r]
<1>1. Len(g) \in Nat /\ g \in [1 .. Len(g) -> NodesOf(n, b)]
  BY SeqElements
<1>2. h \in [1 .. Len(g) -> NodesOf(n, b)]
  BY <1>1
<1>3. h \in Seq(NodesOf(n, b)) /\ Len(h) = Len(g)
  BY <1>1, <1>2, MadeSeq
<1> QED  BY <1>1, <1>3

LEMMA WorkedNode ==
  ASSUME NEW n \in Nat, NEW b \in Nat, NEW g \in Seq(NodesOf(n, b)),
         NEW i \in 1 .. Len(g), NEW t \in Tasks, NEW a \in Replies
  PROVE  LET h == [g EXCEPT ![i].task = t, ![i].answer = a]
         IN  h \in Seq(NodesOf(n, b)) /\ Worked(h, g, i, t, a)
<1> DEFINE h == [g EXCEPT ![i].task = t, ![i].answer = a]
<1>0. g \in [1 .. Len(g) -> NodesOf(n, b)]
  BY SeqElements
<1>1. \A j \in 1 .. Len(g) : g[j] \in NodesOf(n, b)
  BY SeqElements
<1>2. PICK r : r = [g[i] EXCEPT !.task = t, !.answer = a]
  OBVIOUS
<1>3. g[i] \in NodesOf(n, b)
  BY <1>1
<1>4. r \in NodesOf(n, b) /\ SameRole(r, g[i]) /\ r.status = g[i].status /\ r.task = t /\ r.answer = a
  BY <1>2, <1>3 DEF NodesOf, SameRole, Tasks, Replies
<1>5. h = [g EXCEPT ![i] = r]
  BY <1>0, <1>2
<1>6. /\ h \in Seq(NodesOf(n, b)) /\ Len(h) = Len(g) /\ h[i] = r
      /\ \A j \in 1 .. Len(g) : j # i => h[j] = g[j]
  <2>1. /\ [g EXCEPT ![i] = r] \in Seq(NodesOf(n, b))
        /\ Len([g EXCEPT ![i] = r]) = Len(g) /\ [g EXCEPT ![i] = r][i] = r
        /\ \A j \in 1 .. Len(g) : j # i => [g EXCEPT ![i] = r][j] = g[j]
    BY <1>4, NodeUpdated
  <2> HIDE DEF h
  <2> QED  BY <1>5, <2>1
<1> QED  BY <1>4, <1>6 DEF Worked, SameShape, SameRole, SameWork
-----------------------------------------------------------------------------
(* The inductive invariant, part by part.                                  *)

(* No dependency cycle: every set of nodes has one that needs no other.    *)
Acyclic ==
  \A S \in SUBSET Ids : S # {} => \E i \in S : nodes[i].deps \cap S = {}

(* A verify judges one writer.                                             *)
OneJudged ==
  \A v \in Ids :
    nodes[v].kind = "verify" =>
      \E w \in Ids : nodes[v].deps = {w} /\ nodes[w].kind \in Writers

(* A rework is a fix node of the lineage of a writer that is its own root. *)
Rooted ==
  \A i \in Ids :
    /\ nodes[nodes[i].lineage].lineage = nodes[i].lineage
    /\ IsRework(nodes, i) =>
         /\ nodes[i].kind = "fix" /\ nodes[i].repairs = 0
         /\ nodes[nodes[i].lineage].kind \in Writers

(* What a fix repairs is over, and nothing waits on it any more.           *)
Replaces(f) ==
  /\ nodes[f].kind = "fix"
  /\ nodes[nodes[f].repairs].task = "none" /\ nodes[nodes[f].repairs].answer = "error"
  /\ nodes[nodes[f].repairs].status \in {"error", "done"}
  /\ \A j \in Ids : nodes[f].repairs \notin nodes[j].deps

Replaced == \A f \in Ids : nodes[f].repairs # 0 => Replaces(f)

(* The scheduler waits for the running nodes and for no others.            *)
Tracked == \A i \in Ids : nodes[i].status = "running" <=> i \in inFlight

(* What has run, ran after all it depends on.                              *)
DepsDone ==
  \A i \in Ids :
    nodes[i].status \in {"running", "done", "error"} =>
      \A d \in nodes[i].deps : nodes[d].status = "done"

(* A tentacle belongs to a running or a failed node and has not answered,  *)
(* unless it was given up on; what it answers fits its kind.               *)
Manned ==
  \A i \in Ids :
    /\ nodes[i].task # "none" =>
         nodes[i].status \in {"running", "error"} /\ nodes[i].answer \in {"none", "stuck"}
    /\ nodes[i].task \in {"works", "told"} => nodes[i].answer = "none"
    /\ nodes[i].answer \in {"pass", "fail", "unknown"} => nodes[i].kind = "verify"
    /\ nodes[i].answer = "ok" => nodes[i].kind # "verify"

(* A selection is made of ready nodes, and is started or dropped at once.  *)
Selected == chosen \subseteq Ready(nodes) /\ (chosen # {} => pc = "admitted")

(* Only a cancelled run drains.                                            *)
DrainCancelled == pc \in {"drain", "draining"} => aborted = "yes"

(* What is waited for or selected may run together, and before the drain   *)
(* nothing else runs.                                                      *)
Together ==
  /\ \A i, j \in inFlight \cup chosen : i # j => CanRunParallel(nodes[i], nodes[j])
  /\ pc \notin {"draining", "over"} => \A i \in Ids : Running(i) => i \in inFlight

(* A merge waits on every verify still to be heard.                        *)
Awaited ==
  \A m, v \in Ids :
    /\ nodes[m].kind = "merge" /\ nodes[v].kind = "verify"
    /\ nodes[v].status \in {"pending", "running", "skipped"}
    => v \in nodes[m].deps

(* Every rework has a verify of its own, that does not run before it.      *)
Rejudged ==
  \A r \in Ids :
    IsRework(nodes, r) =>
      \E v \in Ids :
        /\ nodes[v].kind = "verify" /\ nodes[v].deps = {r}
        /\ nodes[r].status \in {"pending", "running"} =>
             nodes[v].status \in {"pending", "skipped"}

(* A rework waits on the verdict that asked for it, given on work of the   *)
(* same root.                                                              *)
Traced ==
  \A r \in Ids :
    IsRework(nodes, r) =>
      \E v, w \in Ids :
        /\ nodes[r].deps = {v} /\ nodes[v].status = "done"
        /\ nodes[v].deps = {w} /\ nodes[w].lineage = nodes[r].lineage

(* The reworks of a root can be numbered within its rounds.                *)
Numbering(num) ==
  /\ \A r \in Ids : IsRework(nodes, r) => num[r] \in 1 .. nodes[nodes[r].lineage].rounds
  /\ \A r, s \in Ids :
       /\ IsRework(nodes, r) /\ IsRework(nodes, s) /\ r # s
       /\ nodes[r].lineage = nodes[s].lineage
       => num[r] # num[s]

Counted ==
  /\ \E num \in [Ids -> Nat] : Numbering(num)
  /\ Cardinality({i \in Ids : nodes[i].repairs # 0}) + fixLeft = opts.fixes

(* How the loop was left.                                                  *)
Left ==
  /\ pc = "closing" =>
       /\ inFlight = {}
       /\ aborted = "yes" \/ AllSettled(nodes) \/ Ready(nodes) # {}
  /\ SettledAtEnd

(* Without a cancellation, a node is skipped for a failure another node    *)
(* waits on, which no fix took over.                                       *)
SkippedForError ==
  aborted = "no" /\ (\E i \in Ids : nodes[i].status = "skipped") =>
    \E e, j \in Ids : nodes[e].status = "error" /\ e \in nodes[j].deps

(* The last of a general's lineage has a verify, unless a fix replaced the *)
(* general.                                                                *)
IsLast(x, w) ==
  nodes[x].lineage = w /\ \A j \in Ids : nodes[j].lineage = w => j <= x

Repaired(i) == \E f \in Ids : nodes[f].repairs = i

LastJudged ==
  \A w \in Ids :
    nodes[w].kind = "general" /\ ~Repaired(w) =>
      \E x, v \in Ids :
        IsLast(x, w) /\ nodes[v].kind = "verify" /\ nodes[v].deps = {x}

(* A verify is done because it passed, because it was replaced, because a  *)
(* later rework took over or because its findings were accepted.           *)
DoneFor ==
  \A v \in Ids :
    nodes[v].kind = "verify" /\ nodes[v].status = "done" =>
      \/ nodes[v].answer = "pass"
      \/ Repaired(v)
      \/ unresolved # {}
      \/ \E x \in nodes[v].deps : \E r \in Ids :
           r > x /\ nodes[r].lineage = nodes[x].lineage

(* Nodes keep their type in a larger graph.                                *)
LEMMA WiderNodes ==
  ASSUME NEW m \in Nat, NEW n \in Nat, m <= n, NEW b \in Nat, NEW g \in Seq(NodesOf(m, b))
  PROVE  g \in Seq(NodesOf(n, b))
<1>1. Len(g) \in Nat /\ g \in [1 .. Len(g) -> NodesOf(m, b)]
  BY SeqElements
<1>2. 1 .. m \subseteq 1 .. n
  OBVIOUS
<1>3. NodesOf(m, b) \subseteq NodesOf(n, b)
  BY <1>2 DEF NodesOf
<1>4. g \in [1 .. Len(g) -> NodesOf(n, b)]
  BY <1>1, <1>3
<1> QED  BY <1>1, <1>4, MadeSeq

(* What a rewiring leaves alone, and the dependencies it moves.            *)
SameNode(a, b) ==
  /\ a.kind = b.kind /\ a.scope = b.scope /\ a.lineage = b.lineage
  /\ a.repairs = b.repairs /\ SameWork(a, b)

Moved(a, b, old, new) ==
  /\ old \in b.deps => a.deps = (b.deps \ {old}) \cup {new}
  /\ old \notin b.deps => a.deps = b.deps

LEMMA RewiredGraph ==
  ASSUME NEW n \in Nat, NEW b \in Nat, NEW g \in Seq(NodesOf(n, b)), NEW old, NEW new \in 1 .. n
  PROVE  LET h == Rewired(g, old, new)
         IN  /\ h \in Seq(NodesOf(n, b)) /\ Len(h) = Len(g)
             /\ \A j \in 1 .. Len(g) :
                  /\ SameNode(h[j], g[j]) /\ Moved(h[j], g[j], old, new)
                  /\ h[j].status = g[j].status /\ h[j].rounds = g[j].rounds
<1> DEFINE h == Rewired(g, old, new)
<1>1. Len(g) \in Nat /\ \A j \in 1 .. Len(g) : g[j] \in NodesOf(n, b)
  BY SeqElements
<1>2. ASSUME NEW j \in 1 .. Len(g)
      PROVE  /\ h[j] \in NodesOf(n, b)
             /\ SameNode(h[j], g[j]) /\ Moved(h[j], g[j], old, new)
             /\ h[j].status = g[j].status /\ h[j].rounds = g[j].rounds
  <2>1. g[j] \in NodesOf(n, b)
    BY <1>1
  <2>2. CASE old \in g[j].deps
    <3>1. PICK r : r = [g[j] EXCEPT !.deps = (g[j].deps \ {old}) \cup {new}]
      OBVIOUS
    <3>2. h[j] = r
      BY <2>2, <3>1 DEF Rewired
    <3> HIDE DEF h
    <3>3. r \in NodesOf(n, b)
      BY <2>1, <3>1 DEF NodesOf
    <3>4. SameNode(r, g[j]) /\ Moved(r, g[j], old, new) /\ r.status = g[j].status /\ r.rounds = g[j].rounds
      BY <2>1, <2>2, <3>1 DEF NodesOf, SameNode, SameWork, Moved
    <3> QED  BY <3>2, <3>3, <3>4
  <2>3. CASE old \notin g[j].deps
    BY <2>1, <2>3 DEF Rewired, SameNode, SameWork, Moved
  <2> QED  BY <2>2, <2>3
<1>3. h \in [1 .. Len(g) -> NodesOf(n, b)]
  BY <1>2 DEF Rewired
<1>4. h \in Seq(NodesOf(n, b)) /\ Len(h) = Len(g)
  BY <1>1, <1>3, MadeSeq
<1> QED  BY <1>2, <1>4

LEMMA Typed ==
  ASSUME TypeOK
  PROVE  /\ nodes \in Seq(NodesOf(Len(nodes), opts.rounds)) /\ Len(nodes) \in Nat
         /\ \A j \in Ids : nodes[j] \in NodesOf(Len(nodes), opts.rounds)
<1>1. nodes \in Seq(NodesOf(Len(nodes), opts.rounds))
  BY NodeTypes DEF TypeOK
<1> QED  BY <1>1, SeqElements DEF Ids

(* The run's limits are numbers.                                           *)
TypeInv == opts \in Options /\ TypeOK

LEMMA LimitTypes ==
  ASSUME TypeInv
  PROVE  /\ opts.rounds \in Nat /\ opts.fixes \in Nat /\ fixLeft \in Nat
         /\ opts.plan \in Seq(PlanNodes(Len(opts.plan)))
         /\ opts.faults \subseteq Hazards
BY OptionsAssumption DEF TypeInv, TypeOK

LEMMA NodeFields ==
  ASSUME TypeInv, NEW j \in Ids
  PROVE  /\ nodes[j].kind \in Kinds /\ nodes[j].scope \in SUBSET {"a", "b"}
         /\ nodes[j].deps \subseteq Ids /\ nodes[j].status \in Statuses
         /\ nodes[j].retries \in 0 .. 1 /\ nodes[j].lineage \in Ids
         /\ nodes[j].rounds \in 0 .. opts.rounds /\ nodes[j].repairs \in Ids \cup {0}
         /\ nodes[j].task \in Tasks /\ nodes[j].answer \in Replies
<1>1. nodes[j] \in NodesOf(Len(nodes), opts.rounds)
  BY Typed DEF TypeInv
<1> QED  BY <1>1 DEF NodesOf, Ids, Tasks, Replies

-----------------------------------------------------------------------------
(*                    What each action does to the graph                   *)

(* A graph as typed as the one before.                                     *)
StaysTyped == nodes' \in Seq(NodesOf(Len(nodes), opts.rounds))

LEMMA TypedAfter ==
  ASSUME Len(nodes') = Len(nodes), StaysTyped, UNCHANGED opts
  PROVE  nodes' \in Seq(NodeType')
BY DEF StaysTyped, NodeType, NodesOf, Ids

(* The answers of a kind.                                                  *)
Fits(kind, answer) ==
  /\ answer \in {"pass", "fail", "unknown"} => kind = "verify"
  /\ answer = "ok" => kind # "verify"

TalkStep(i, t, a) ==
  \/ /\ t = "none" /\ a \notin {"none", "stuck"}
     /\ Fits(nodes[i].kind, a) /\ nodes[i].task \in {"works", "told"}
  \/ t = "told" /\ nodes[i].task = "works" /\ a = nodes[i].answer
  \/ t = "zombie" /\ nodes[i].task = "told" /\ a = "stuck"
  \/ t = "none" /\ nodes[i].task = "zombie" /\ a = nodes[i].answer

Talked(i, t, a) ==
  /\ StaysTyped
  /\ Worked(nodes', nodes, i, t, a)
  /\ TalkStep(i, t, a)
  /\ handles' \subseteq handles \cup {i}
  /\ nodes[i].kind = "merge" /\ a = "ok" /\ nodes[i].answer # "ok" =>
       handles' \cap Behind(nodes, i) = {}
  /\ UNCHANGED <<opts, inFlight, chosen, fixLeft, unresolved, aborted, pc>>

LEMMA TalkFacts ==
  ASSUME TypeInv, NEW i \in Ids, Tentacle(i)
  PROVE  \E t \in Tasks, a \in Replies : Talked(i, t, a)
<1> DEFINE n == Len(nodes)  b == opts.rounds
           Made(t, a) == [nodes EXCEPT ![i].task = t, ![i].answer = a]
<1>0. n \in Nat /\ b \in Nat /\ nodes \in Seq(NodesOf(n, b)) /\ i \in 1 .. Len(nodes)
  BY Typed, LimitTypes DEF TypeInv, Ids
<1>1. ASSUME NEW t \in Tasks, NEW a \in Replies
      PROVE  Made(t, a) \in Seq(NodesOf(n, b)) /\ Worked(Made(t, a), nodes, i, t, a)
  BY <1>0, WorkedNode
<1>2. nodes \in [1 .. n -> NodesOf(n, b)] /\ nodes[i] \in NodesOf(n, b)
  BY <1>0, SeqElements
<1>3. nodes[i].task \in Tasks /\ nodes[i].answer \in Replies /\ nodes[i].kind \in Kinds
  BY NodeFields
<1>4. CASE Answer(i)
  <2>1. PICK a \in Answers(nodes[i].kind) :
          /\ nodes' = [nodes EXCEPT ![i].task = "none", ![i].answer = a]
          /\ handles' = IF a = "ok" /\ OpensWorktree(i) THEN handles \cup {i} ELSE handles
    BY <1>4 DEF Answer
  <2>2. /\ nodes[i].kind # "merge" /\ nodes[i].task \in {"works", "told"}
        /\ UNCHANGED <<opts, inFlight, chosen, fixLeft, unresolved, aborted, pc>>
    BY <1>4 DEF Answer
  <2>3. a \in Replies /\ a \notin {"none", "stuck"} /\ Fits(nodes[i].kind, a)
    BY DEF Answers, Replies, Fits
  <2>4. PICK t \in Tasks : t = "none"
    BY DEF Tasks
  <2>5. nodes' = Made(t, a)
    BY <2>1, <2>4
  <2>6. StaysTyped /\ Worked(nodes', nodes, i, t, a)
    BY <1>1, <2>3, <2>5 DEF StaysTyped
  <2>7. handles' \subseteq handles \cup {i}
    BY <2>1
  <2>8. TalkStep(i, t, a)
    BY <2>2, <2>3, <2>4 DEF TalkStep
  <2>9. Talked(i, t, a)
    BY <2>2, <2>6, <2>7, <2>8 DEF Talked
  <2> QED  BY <2>3, <2>9
<1>5. CASE Timeout(i)
  <2>1. /\ nodes' = [nodes EXCEPT ![i].task = "told"]
        /\ nodes[i].task = "works"
        /\ UNCHANGED <<opts, inFlight, chosen, fixLeft, handles, unresolved, aborted, pc>>
    BY <1>5 DEF Timeout
  <2>2. PICK t \in Tasks : t = "told"
    BY DEF Tasks
  <2>3. PICK a \in Replies : a = nodes[i].answer
    BY <1>3
  <2>4. nodes' = Made(t, a)
    BY <1>2, <2>1, <2>2, <2>3 DEF NodesOf
  <2>5. StaysTyped /\ Worked(nodes', nodes, i, t, a)
    BY <1>1, <2>4 DEF StaysTyped
  <2>6. Talked(i, t, a)
    BY <2>1, <2>2, <2>3, <2>5 DEF Talked, TalkStep
  <2> QED  BY <2>6
<1>6. CASE GraceExpires(i)
  <2>1. /\ nodes' = [nodes EXCEPT ![i].task = "zombie", ![i].answer = "stuck"]
        /\ nodes[i].task = "told"
        /\ UNCHANGED <<opts, inFlight, chosen, fixLeft, handles, unresolved, aborted, pc>>
    BY <1>6 DEF GraceExpires
  <2>2. PICK t \in Tasks : t = "zombie"
    BY DEF Tasks
  <2>3. PICK a \in Replies : a = "stuck"
    BY DEF Replies
  <2>4. nodes' = Made(t, a)
    BY <2>1, <2>2, <2>3
  <2>5. StaysTyped /\ Worked(nodes', nodes, i, t, a)
    BY <1>1, <2>4 DEF StaysTyped
  <2>6. Talked(i, t, a)
    BY <2>1, <2>2, <2>3, <2>5 DEF Talked, TalkStep
  <2> QED  BY <2>6
<1>7. CASE ZombieStops(i)
  <2>1. /\ nodes' = [nodes EXCEPT ![i].task = "none"]
        /\ nodes[i].task = "zombie"
        /\ UNCHANGED <<opts, inFlight, chosen, fixLeft, handles, unresolved, aborted, pc>>
    BY <1>7 DEF ZombieStops
  <2>2. PICK t \in Tasks : t = "none"
    BY DEF Tasks
  <2>3. PICK a \in Replies : a = nodes[i].answer
    BY <1>3
  <2>4. nodes' = Made(t, a)
    BY <1>2, <2>1, <2>2, <2>3 DEF NodesOf
  <2>5. StaysTyped /\ Worked(nodes', nodes, i, t, a)
    BY <1>1, <2>4 DEF StaysTyped
  <2>6. Talked(i, t, a)
    BY <2>1, <2>2, <2>3, <2>5 DEF Talked, TalkStep
  <2> QED  BY <2>6
<1>8. CASE MergeAnswers(i)
  <2>1. PICK bad \in SUBSET Sources(i) :
          /\ handles' = handles \ (Sources(i) \ bad)
          /\ nodes' = [nodes EXCEPT ![i].task = "none",
                                    ![i].answer = IF bad = {} THEN "ok" ELSE "error"]
    BY <1>8 DEF MergeAnswers
  <2>2. /\ nodes[i].kind = "merge" /\ nodes[i].task = "works"
        /\ UNCHANGED <<opts, inFlight, chosen, fixLeft, unresolved, aborted, pc>>
    BY <1>8 DEF MergeAnswers
  <2>3. PICK a \in Replies : a = IF bad = {} THEN "ok" ELSE "error"
    BY DEF Replies
  <2>4. PICK t \in Tasks : t = "none"
    BY DEF Tasks
  <2>5. nodes' = Made(t, a)
    BY <2>1, <2>3, <2>4
  <2>6. StaysTyped /\ Worked(nodes', nodes, i, t, a)
    BY <1>1, <2>5 DEF StaysTyped
  <2>7. handles' \subseteq handles \cup {i}
    BY <2>1
  <2>8. a = "ok" => handles' \cap Behind(nodes, i) = {}
    <3>1. SUFFICES ASSUME a = "ok" PROVE handles' \cap Behind(nodes, i) = {}
      OBVIOUS
    <3>2. bad = {}
      BY <2>3, <3>1
    <3> QED  BY <2>1, <3>2 DEF Sources
  <2>9. TalkStep(i, t, a)
    BY <2>2, <2>3, <2>4 DEF TalkStep, Fits
  <2>10. Talked(i, t, a)
    BY <2>2, <2>6, <2>7, <2>8, <2>9 DEF Talked
  <2> QED  BY <2>10
<1> QED  BY <1>4, <1>5, <1>6, <1>7, <1>8 DEF Tentacle

LEMMA RestateFacts ==
  ASSUME TypeInv, NEW is, NEW s \in Statuses, nodes' = SetStatus(nodes, is, s)
  PROVE  StaysTyped /\ Restated(nodes', nodes, is, s)
BY SetStatusRestates, Typed, LimitTypes DEF TypeInv, StaysTyped

(* Starting a selection.                                                   *)
Started ==
  /\ SameShape(nodes', nodes)
  /\ \A j \in Ids :
       /\ j \in chosen =>
            nodes'[j].status = "running" /\ nodes'[j].task = "works" /\ nodes'[j].answer = "none"
       /\ j \notin chosen =>
            nodes'[j].status = nodes[j].status /\ SameWork(nodes'[j], nodes[j])

LEMMA StartFacts ==
  ASSUME TypeInv, Start
  PROVE  StaysTyped /\ Started
<1> DEFINE n == Len(nodes)  T == NodesOf(n, opts.rounds)
<1>1. n \in Nat /\ \A j \in Ids : nodes[j] \in T
  BY Typed DEF TypeInv
<1>2. nodes' = [j \in Ids |->
        IF j \in chosen
        THEN [nodes[j] EXCEPT !.status = "running", !.task = "works", !.answer = "none"]
        ELSE nodes[j]]
  BY DEF Start
<1>3. ASSUME NEW j \in Ids
      PROVE  /\ nodes'[j] \in T /\ SameRole(nodes'[j], nodes[j])
             /\ j \in chosen =>
                  nodes'[j].status = "running" /\ nodes'[j].task = "works" /\ nodes'[j].answer = "none"
             /\ j \notin chosen =>
                  nodes'[j].status = nodes[j].status /\ SameWork(nodes'[j], nodes[j])
  <2>1. CASE j \in chosen
    <3>1. nodes'[j] = [nodes[j] EXCEPT !.status = "running", !.task = "works", !.answer = "none"]
      BY <1>2, <2>1
    <3> QED  BY <1>1, <2>1, <3>1 DEF NodesOf, SameRole, Statuses
  <2>2. CASE j \notin chosen
    BY <1>1, <1>2, <2>2 DEF SameRole, SameWork
  <2> QED  BY <2>1, <2>2
<1>4. nodes' \in [1 .. n -> T]
  BY <1>2, <1>3 DEF Ids
<1>5. nodes' \in Seq(T) /\ Len(nodes') = n
  BY <1>1, <1>4, MadeSeq
<1> QED  BY <1>3, <1>5 DEF Started, StaysTyped, SameShape, Ids

(* The nodes a success finishes: the node and what it repaired.            *)
Finished(i) ==
  IF nodes[i].repairs # 0 /\ nodes[nodes[i].repairs].status = "error"
  THEN {i, nodes[i].repairs} ELSE {i}

LEMMA DoneFacts ==
  ASSUME TypeInv, NEW i \in Ids
  PROVE  /\ Done(i) \in Seq(NodesOf(Len(nodes), opts.rounds))
         /\ Restated(Done(i), nodes, Finished(i), "done")
<1>1. Done(i) = SetStatus(nodes, Finished(i), "done")
  BY DEF Done, Finished
<1>2. "done" \in Statuses
  BY DEF Statuses
<1>3. /\ SetStatus(nodes, Finished(i), "done") \in Seq(NodesOf(Len(nodes), opts.rounds))
      /\ Restated(SetStatus(nodes, Finished(i), "done"), nodes, Finished(i), "done")
  BY <1>2, SetStatusRestates, Typed, LimitTypes DEF TypeInv
<1> QED  BY <1>1, <1>3

LEMMA RetryFacts ==
  ASSUME TypeInv, NEW i \in Ids, Retry(i)
  PROVE  StaysTyped /\ Restated(nodes', nodes, {i}, "pending")
<1> DEFINE n == Len(nodes)  b == opts.rounds
<1>0. n \in Nat /\ b \in Nat /\ nodes \in Seq(NodesOf(n, b)) /\ i \in 1 .. Len(nodes)
  BY Typed, LimitTypes DEF TypeInv, Ids
<1>1. nodes \in [1 .. n -> NodesOf(n, b)] /\ nodes[i] \in NodesOf(n, b)
  BY <1>0, SeqElements
<1>2. PICK r : r = [nodes[i] EXCEPT !.status = "pending", !.retries = nodes[i].retries + 1]
  OBVIOUS
<1>3. nodes[i].retries \in 0 .. 1 /\ nodes[i].retries < 1
  BY NodeFields DEF Retry, Retriable, MaxRetries
<1>4. /\ r \in NodesOf(n, b) /\ SameRole(r, nodes[i])
      /\ SameWork(r, nodes[i]) /\ r.status = "pending"
  <2>1. nodes[i].retries + 1 \in 0 .. 1
    BY <1>3
  <2>2. "pending" \in Statuses
    BY DEF Statuses
  <2> QED  BY <1>1, <1>2, <2>1, <2>2 DEF NodesOf, SameRole, SameWork
<1>5. nodes' = [nodes EXCEPT ![i] = r]
  BY <1>0, <1>1, <1>2 DEF Retry
<1>6. /\ [nodes EXCEPT ![i] = r] \in Seq(NodesOf(n, b))
      /\ Len([nodes EXCEPT ![i] = r]) = n /\ [nodes EXCEPT ![i] = r][i] = r
      /\ \A j \in 1 .. n : j # i => [nodes EXCEPT ![i] = r][j] = nodes[j]
  BY <1>0, <1>4, NodeUpdated
<1>7. /\ nodes' \in Seq(NodesOf(n, b)) /\ Len(nodes') = n /\ nodes'[i] = r
      /\ \A j \in 1 .. n : j # i => nodes'[j] = nodes[j]
  BY <1>5, <1>6
<1> QED  BY <1>4, <1>7 DEF StaysTyped, Restated, SameShape, SameRole, SameWork

(* A node that was just made.                                              *)
Fresh(x, kind, scope, deps, lineage, repairs) ==
  /\ x.kind = kind /\ x.scope = scope /\ x.deps = deps
  /\ x.lineage = lineage /\ x.repairs = repairs /\ x.rounds = 0
  /\ x.status = "pending" /\ x.task = "none" /\ x.answer = "none"

(* A FAIL's rework pair behind node i, whose writer is w.                  *)
Reworked(i, w) ==
  LET r == Len(nodes) + 1
      root == nodes[w].lineage
  IN /\ w \in Ids /\ nodes[i].deps = {w} /\ nodes[w].kind \in Writers
     /\ nodes[i].kind = "verify" /\ nodes[root].rounds < opts.rounds
     /\ nodes' \in Seq(NodesOf(r + 1, opts.rounds)) /\ Len(nodes') = r + 1
     /\ \A j \in Ids :
          /\ SameNode(nodes'[j], nodes[j]) /\ Moved(nodes'[j], nodes[j], i, r + 1)
          /\ j \in Finished(i) => nodes'[j].status = "done"
          /\ j \notin Finished(i) => nodes'[j].status = nodes[j].status
          /\ j = root => nodes'[j].rounds = nodes[j].rounds + 1
          /\ j # root => nodes'[j].rounds = nodes[j].rounds
     /\ Fresh(nodes'[r], "fix", nodes[w].scope, {i}, root, 0)
     /\ Fresh(nodes'[r + 1], "verify", {}, {r}, r + 1, 0)

LEMMA ReworkFacts ==
  ASSUME TypeInv, OneJudged, Manned, NEW i \in Ids, SpawnRework(i)
  PROVE  \E w \in Ids : Reworked(i, w)
<1> DEFINE n == Len(nodes)  b == opts.rounds  r == n + 1
<1>1. nodes[i].answer = "fail" /\ ReworkAllowed(i) /\ nodes' = WithRework(i)
  BY DEF SpawnRework
<1>2. nodes[i].kind = "verify"
  BY <1>1 DEF Manned
<1>3. PICK w \in Ids : nodes[i].deps = {w} /\ nodes[w].kind \in Writers
  BY <1>2 DEF OneJudged
<1>4. WriterBehind(i) = w
  BY <1>3 DEF WriterBehind
<1>5. PICK root \in Ids : root = nodes[w].lineage
  BY NodeFields
<1>6. nodes[root].rounds < b
  BY <1>1, <1>4, <1>5 DEF ReworkAllowed
<1>7. /\ n \in Nat /\ b \in Nat /\ nodes \in Seq(NodesOf(n, b))
      /\ i \in 1 .. n /\ w \in 1 .. n /\ root \in 1 .. n
  BY Typed, LimitTypes DEF TypeInv, Ids
<1>8. PICK a : a = Done(i)
  OBVIOUS
<1>9. a \in Seq(NodesOf(n, b)) /\ Restated(a, nodes, Finished(i), "done")
  BY <1>8, DoneFacts
<1>10. a \in [1 .. n -> NodesOf(n, b)] /\ Len(a) = n
  BY <1>9, SeqElements DEF Restated, SameShape
<1>11. PICK x : x = [a[root] EXCEPT !.rounds = a[root].rounds + 1]
  OBVIOUS
<1>12. a[root] \in NodesOf(n, b) /\ a[root].rounds = nodes[root].rounds
  BY <1>7, <1>9, <1>10 DEF Restated, SameShape, SameRole
<1>13. /\ x \in NodesOf(n, b) /\ SameNode(x, a[root]) /\ x.deps = a[root].deps
       /\ x.status = a[root].status /\ x.rounds = nodes[root].rounds + 1
  <2>1. a[root].rounds \in 0 .. b
    BY <1>12 DEF NodesOf
  <2>2. a[root].rounds + 1 \in 0 .. b
    BY <1>6, <1>7, <1>12, <2>1
  <2> QED  BY <1>11, <1>12, <2>2 DEF NodesOf, SameNode, SameWork
<1>14. PICK c : c = [a EXCEPT ![root] = x]
  OBVIOUS
<1>15. /\ c \in Seq(NodesOf(n, b)) /\ Len(c) = n /\ c[root] = x
       /\ \A j \in 1 .. n : j # root => c[j] = a[j]
  <2>1. /\ [a EXCEPT ![root] = x] \in Seq(NodesOf(n, b))
        /\ Len([a EXCEPT ![root] = x]) = Len(a) /\ [a EXCEPT ![root] = x][root] = x
        /\ \A j \in 1 .. Len(a) : j # root => [a EXCEPT ![root] = x][j] = a[j]
    BY <1>7, <1>9, <1>10, <1>13, NodeUpdated
  <2> QED  BY <1>10, <1>14, <2>1
<1>16. c = [Done(i) EXCEPT ![root].rounds = @ + 1]
  BY <1>7, <1>8, <1>10, <1>11, <1>14
<1>17. PICK d : d = Rewired(c, i, r + 1)
  OBVIOUS
<1>18. c \in Seq(NodesOf(r + 1, b)) /\ r + 1 \in 1 .. (r + 1) /\ r + 1 \in Nat
  BY <1>7, <1>15, WiderNodes
<1>19. /\ d \in Seq(NodesOf(r + 1, b)) /\ Len(d) = n
       /\ \A j \in 1 .. n :
            /\ SameNode(d[j], c[j]) /\ Moved(d[j], c[j], i, r + 1)
            /\ d[j].status = c[j].status /\ d[j].rounds = c[j].rounds
  <2>1. /\ Rewired(c, i, r + 1) \in Seq(NodesOf(r + 1, b)) /\ Len(Rewired(c, i, r + 1)) = Len(c)
        /\ \A j \in 1 .. Len(c) :
             /\ SameNode(Rewired(c, i, r + 1)[j], c[j]) /\ Moved(Rewired(c, i, r + 1)[j], c[j], i, r + 1)
             /\ Rewired(c, i, r + 1)[j].status = c[j].status
             /\ Rewired(c, i, r + 1)[j].rounds = c[j].rounds
    BY <1>7, <1>18, RewiredGraph
  <2> QED  BY <1>15, <1>17, <2>1
<1>20. PICK p : p = [Node(r, "fix", nodes[w].scope, {i}) EXCEPT !.lineage = root]
  OBVIOUS
<1>21. PICK q : q = Node(r + 1, "verify", {}, {r})
  OBVIOUS
<1>22. nodes[w].scope \in SUBSET {"a", "b"} /\ r \in 1 .. (r + 1) /\ i \in 1 .. (r + 1) /\ root \in 1 .. (r + 1)
  BY <1>7, NodeFields
<1>23. p \in NodesOf(r + 1, b) /\ Fresh(p, "fix", nodes[w].scope, {i}, root, 0)
  <2>1. p = [kind |-> "fix", scope |-> nodes[w].scope, deps |-> {i}, status |-> "pending",
             retries |-> 0, lineage |-> root, rounds |-> 0, repairs |-> 0,
             task |-> "none", answer |-> "none"]
    BY <1>20 DEF Node
  <2>2. 0 \in 0 .. 1 /\ 0 \in 0 .. b /\ {i} \in SUBSET (1 .. (r + 1)) /\ "fix" \in Kinds
    BY <1>7, <1>22 DEF Kinds
  <2> QED  BY <1>22, <2>1, <2>2 DEF NodesOf, Fresh, Statuses
<1>24. q \in NodesOf(r + 1, b) /\ Fresh(q, "verify", {}, {r}, r + 1, 0)
  <2>1. q = [kind |-> "verify", scope |-> {}, deps |-> {r}, status |-> "pending",
             retries |-> 0, lineage |-> r + 1, rounds |-> 0, repairs |-> 0,
             task |-> "none", answer |-> "none"]
    BY <1>21 DEF Node
  <2>2. 0 \in 0 .. 1 /\ 0 \in 0 .. b /\ {r} \in SUBSET (1 .. (r + 1)) /\ "verify" \in Kinds
    BY <1>7, <1>22 DEF Kinds
  <2> QED  BY <1>18, <1>22, <2>1, <2>2 DEF NodesOf, Fresh, Statuses
<1>25. nodes' = d \o <<p, q>>
  BY <1>1, <1>4, <1>5, <1>16, <1>17, <1>20, <1>21 DEF WithRework
<1>26. PICK e : e = <<p, q>>
  OBVIOUS
<1>27. e \in Seq(NodesOf(r + 1, b)) /\ Len(e) = 2 /\ e[1] = p /\ e[2] = q
  BY <1>23, <1>24, <1>26
<1>28. nodes' = d \o e
  BY <1>25, <1>26
<1>29. /\ nodes' \in Seq(NodesOf(r + 1, b)) /\ Len(nodes') = r + 1
       /\ nodes'[r] = p /\ nodes'[r + 1] = q
       /\ \A j \in 1 .. n : nodes'[j] = d[j]
  <2>1. /\ d \o e \in Seq(NodesOf(r + 1, b)) /\ Len(d \o e) = Len(d) + Len(e)
        /\ \A k \in 1 .. Len(d) + Len(e) :
             (d \o e)[k] = IF k <= Len(d) THEN d[k] ELSE e[k - Len(d)]
    BY <1>19, <1>27, ConcatProperties
  <2>2. Len(nodes') = n + 2 /\ n + 2 = r + 1
    BY <1>7, <1>19, <1>27, <1>28, <2>1
  <2>3. nodes'[r] = p
    BY <1>7, <1>19, <1>27, <1>28, <2>1
  <2>4. nodes'[r + 1] = q
    BY <1>7, <1>19, <1>27, <1>28, <2>1
  <2>5. \A j \in 1 .. n : nodes'[j] = d[j]
    BY <1>7, <1>19, <1>27, <1>28, <2>1
  <2> QED  BY <1>28, <2>1, <2>2, <2>3, <2>4, <2>5
<1>30. ASSUME NEW j \in Ids
       PROVE  /\ SameNode(nodes'[j], nodes[j]) /\ Moved(nodes'[j], nodes[j], i, r + 1)
              /\ j \in Finished(i) => nodes'[j].status = "done"
              /\ j \notin Finished(i) => nodes'[j].status = nodes[j].status
              /\ j = root => nodes'[j].rounds = nodes[j].rounds + 1
              /\ j # root => nodes'[j].rounds = nodes[j].rounds
  <2>1. /\ SameRole(a[j], nodes[j]) /\ SameWork(a[j], nodes[j])
        /\ j \in Finished(i) => a[j].status = "done"
        /\ j \notin Finished(i) => a[j].status = nodes[j].status
    BY <1>9 DEF Restated, SameShape, Ids
  <2>2. /\ SameNode(c[j], a[j]) /\ c[j].deps = a[j].deps /\ c[j].status = a[j].status
        /\ j = root => c[j].rounds = nodes[j].rounds + 1
        /\ j # root => c[j].rounds = a[j].rounds
    BY <1>13, <1>15 DEF Ids, SameNode, SameWork
  <2>3. /\ SameNode(nodes'[j], c[j]) /\ Moved(nodes'[j], c[j], i, r + 1)
        /\ nodes'[j].status = c[j].status /\ nodes'[j].rounds = c[j].rounds
    BY <1>19, <1>29 DEF Ids
  <2> QED  BY <2>1, <2>2, <2>3 DEF SameRole, SameNode, SameWork, Moved
<1>31. Reworked(i, w)
  BY <1>2, <1>3, <1>5, <1>6, <1>23, <1>24, <1>29, <1>30 DEF Reworked
<1> QED  BY <1>31

(* The fix node that takes over from the failed node i.                    *)
FixedUp(i) ==
  LET f == Len(nodes) + 1
  IN /\ nodes' \in Seq(NodesOf(f, opts.rounds)) /\ Len(nodes') = f
     /\ \A j \in Ids :
          /\ SameNode(nodes'[j], nodes[j]) /\ Moved(nodes'[j], nodes[j], i, f)
          /\ nodes'[j].rounds = nodes[j].rounds
          /\ j = i => nodes'[j].status = "error"
          /\ j # i => nodes'[j].status = nodes[j].status
     /\ Fresh(nodes'[f], "fix", nodes[i].scope, nodes[i].deps, f, i)

LEMMA FixFacts ==
  ASSUME TypeInv, NEW i \in Ids, SpawnFix(i)
  PROVE  FixedUp(i)
<1> DEFINE n == Len(nodes)  b == opts.rounds  f == n + 1
<1>1. n \in Nat /\ b \in Nat /\ nodes \in Seq(NodesOf(n, b)) /\ i \in 1 .. n
  BY Typed, LimitTypes DEF TypeInv, Ids
<1>2. PICK a : a = SetStatus(nodes, {i}, "error")
  OBVIOUS
<1>3. a \in Seq(NodesOf(n, b)) /\ Restated(a, nodes, {i}, "error")
  <2>1. "error" \in Statuses
    BY DEF Statuses
  <2> QED  BY <1>1, <1>2, <2>1, SetStatusRestates
<1>4. Len(a) = n
  BY <1>3 DEF Restated, SameShape
<1>5. a \in Seq(NodesOf(f, b)) /\ f \in 1 .. f /\ f \in Nat
  BY <1>1, <1>3, WiderNodes
<1>6. PICK d : d = Rewired(a, i, f)
  OBVIOUS
<1>7. /\ d \in Seq(NodesOf(f, b)) /\ Len(d) = n
      /\ \A j \in 1 .. n :
           /\ SameNode(d[j], a[j]) /\ Moved(d[j], a[j], i, f)
           /\ d[j].status = a[j].status /\ d[j].rounds = a[j].rounds
  <2>1. /\ Rewired(a, i, f) \in Seq(NodesOf(f, b)) /\ Len(Rewired(a, i, f)) = Len(a)
        /\ \A j \in 1 .. Len(a) :
             /\ SameNode(Rewired(a, i, f)[j], a[j]) /\ Moved(Rewired(a, i, f)[j], a[j], i, f)
             /\ Rewired(a, i, f)[j].status = a[j].status
             /\ Rewired(a, i, f)[j].rounds = a[j].rounds
    BY <1>1, <1>5, RewiredGraph
  <2> QED  BY <1>4, <1>6, <2>1
<1>8. PICK p : p = [Node(f, "fix", nodes[i].scope, nodes[i].deps) EXCEPT !.repairs = i]
  OBVIOUS
<1>9. p \in NodesOf(f, b) /\ Fresh(p, "fix", nodes[i].scope, nodes[i].deps, f, i)
  <2>1. p = [kind |-> "fix", scope |-> nodes[i].scope, deps |-> nodes[i].deps,
             status |-> "pending", retries |-> 0, lineage |-> f, rounds |-> 0,
             repairs |-> i, task |-> "none", answer |-> "none"]
    BY <1>8 DEF Node
  <2>2. 0 \in 0 .. 1 /\ 0 \in 0 .. b /\ i \in 1 .. f /\ "fix" \in Kinds
    BY <1>1 DEF Kinds
  <2>3. nodes[i].scope \in SUBSET {"a", "b"} /\ nodes[i].deps \in SUBSET (1 .. f)
    BY <1>1, NodeFields DEF Ids
  <2> QED  BY <1>5, <2>1, <2>2, <2>3 DEF NodesOf, Fresh, Statuses
<1>10. nodes' = Append(d, p)
  BY <1>2, <1>6, <1>8 DEF SpawnFix, WithFix
<1>11. /\ nodes' \in Seq(NodesOf(f, b)) /\ Len(nodes') = f /\ nodes'[f] = p
       /\ \A j \in 1 .. n : nodes'[j] = d[j]
  BY <1>1, <1>7, <1>9, <1>10, AppendProperties
<1>12. ASSUME NEW j \in Ids
       PROVE  /\ SameNode(nodes'[j], nodes[j]) /\ Moved(nodes'[j], nodes[j], i, f)
              /\ nodes'[j].rounds = nodes[j].rounds
              /\ j = i => nodes'[j].status = "error"
              /\ j # i => nodes'[j].status = nodes[j].status
  <2>1. /\ SameRole(a[j], nodes[j]) /\ SameWork(a[j], nodes[j])
        /\ j = i => a[j].status = "error"
        /\ j # i => a[j].status = nodes[j].status
    BY <1>3 DEF Restated, SameShape, Ids
  <2>2. /\ SameNode(nodes'[j], a[j]) /\ Moved(nodes'[j], a[j], i, f)
        /\ nodes'[j].status = a[j].status /\ nodes'[j].rounds = a[j].rounds
    BY <1>7, <1>11 DEF Ids
  <2> QED  BY <2>1, <2>2 DEF SameRole, SameNode, SameWork, Moved
<1> QED  BY <1>9, <1>11, <1>12 DEF FixedUp

-----------------------------------------------------------------------------
(*                            Kinds of step                                *)

(* The steps of the specification, by what they do to the graph.           *)
Quiet ==
  /\ nodes' = nodes
  /\ UNCHANGED <<opts, inFlight, fixLeft, handles, unresolved>>

(* Settling node i without adding one: is and s say what becomes of whom.  *)
Settled(i, is, s) ==
  /\ Settling(i) /\ nodes[i].answer # "none"
  /\ StaysTyped /\ Restated(nodes', nodes, is, s)
  /\ fixLeft' = fixLeft
  /\ unresolved \subseteq unresolved'

LEMMA SettleFacts ==
  ASSUME TypeInv, OneJudged, Manned, NEW i \in Ids, Settle(i)
  PROVE  \/ Succeed(i) /\ Settled(i, Finished(i), "done") /\ unresolved' = unresolved
         \/ AcceptFindings(i) /\ Settled(i, Finished(i), "done")
         \/ Retry(i) /\ Settled(i, {i}, "pending") /\ unresolved' = unresolved
         \/ Fail(i) /\ Settled(i, {i}, "error") /\ unresolved' = unresolved
         \/ \E w \in Ids : SpawnRework(i) /\ Reworked(i, w)
         \/ SpawnFix(i) /\ FixedUp(i)
<1>1. CASE Succeed(i)
  <2>1. StaysTyped /\ Restated(nodes', nodes, Finished(i), "done")
    BY <1>1, DoneFacts DEF Succeed, StaysTyped
  <2> QED  BY <1>1, <2>1 DEF Succeed, Settled, Settling
<1>2. CASE AcceptFindings(i)
  <2>1. StaysTyped /\ Restated(nodes', nodes, Finished(i), "done")
    BY <1>2, DoneFacts DEF AcceptFindings, StaysTyped
  <2> QED  BY <1>2, <2>1 DEF AcceptFindings, Settled, Settling
<1>3. CASE Retry(i)
  <2>1. StaysTyped /\ Restated(nodes', nodes, {i}, "pending")
    BY <1>3, RetryFacts
  <2> QED  BY <1>3, <2>1 DEF Retry, Settled, Settling
<1>4. CASE Fail(i)
  <2>1. StaysTyped /\ Restated(nodes', nodes, {i}, "error")
    <3>1. nodes' = SetStatus(nodes, {i}, "error") /\ "error" \in Statuses
      BY <1>4 DEF Fail, Statuses
    <3> QED  BY <3>1, RestateFacts
  <2> QED  BY <1>4, <2>1 DEF Fail, Settled, Settling
<1>5. CASE SpawnRework(i)
  BY <1>5, ReworkFacts
<1>6. CASE SpawnFix(i)
  BY <1>6, FixFacts
<1> QED  BY <1>1, <1>2, <1>3, <1>4, <1>5, <1>6 DEF Settle

(* What a step that only changes statuses outside settling does.           *)
Moves(is, s) ==
  /\ StaysTyped /\ Restated(nodes', nodes, is, s)
  /\ UNCHANGED <<opts, chosen, fixLeft, handles, unresolved, aborted>>

Late == {i \in inFlight : nodes[i].answer = "none"}

Unstarted == {i \in Ids : nodes[i].status = "pending"}

LEMMA SkipFacts ==
  ASSUME TypeInv, SkipBlocked
  PROVE  Moves(Blocked(nodes), "skipped")
<1>1. nodes' = SetStatus(nodes, Blocked(nodes), "skipped") /\ "skipped" \in Statuses
  BY DEF SkipBlocked, Statuses
<1> QED  BY <1>1, RestateFacts DEF Moves, SkipBlocked

LEMMA DrainFacts ==
  ASSUME TypeInv, Drain
  PROVE  Moves(Late, "error") /\ inFlight' = inFlight \ Late
<1>1. nodes' = SetStatus(nodes, Late, "error") /\ "error" \in Statuses
  BY DEF Drain, Late, Statuses
<1> QED  BY <1>1, RestateFacts DEF Moves, Drain, Late

LEMMA CloseFacts ==
  ASSUME TypeInv, Close
  PROVE  \/ aborted = "yes" /\ Moves(Unstarted, "skipped")
         \/ aborted # "yes" /\ Quiet /\ UNCHANGED <<chosen, aborted>>
<1>1. CASE aborted = "yes"
  <2>1. nodes' = SetStatus(nodes, Unstarted, "skipped") /\ "skipped" \in Statuses
    BY <1>1 DEF Close, Unstarted, Statuses
  <2> QED  BY <1>1, <2>1, RestateFacts DEF Moves, Close
<1>2. CASE aborted # "yes"
  BY <1>2 DEF Close, Quiet
<1> QED  BY <1>1, <1>2

(* Every step is one of these.                                             *)
QuietStep ==
  LeaveSettled \/ LeaveAtCap \/ LeaveCancelled \/ Admit \/ BailOut \/ Cancel

LEMMA QuietFacts ==
  ASSUME QuietStep
  PROVE  Quiet
BY DEF QuietStep, Quiet, LeaveSettled, LeaveAtCap, LeaveCancelled, Admit, BailOut, Cancel

LEMMA StepKinds ==
  ASSUME Next
  PROVE  \/ QuietStep
         \/ Start \/ SkipBlocked \/ Drain \/ Close
         \/ \E i \in Ids : Settle(i)
         \/ \E i \in Ids : Tentacle(i)
BY DEF Next, Schedule, QuietStep

(* The part of the invariant that every step's effect depends on.          *)
GraphInv == TypeInv /\ Acyclic /\ OneJudged /\ Rooted /\ Replaced

FlowInv == Tracked /\ DepsDone /\ Manned /\ Selected /\ DrainCancelled

Base == GraphInv /\ FlowInv

StatusOnly(is, s) ==
  StaysTyped /\ Restated(nodes', nodes, is, s) /\ fixLeft' = fixLeft /\ opts' = opts

LEMMA StepFacts ==
  ASSUME TypeInv, OneJudged, Manned, Next
  PROVE  \/ QuietStep /\ Quiet
         \/ Start /\ StaysTyped /\ Started
         \/ SkipBlocked /\ Moves(Blocked(nodes), "skipped")
         \/ Drain /\ Moves(Late, "error")
         \/ Close /\ aborted = "yes" /\ Moves(Unstarted, "skipped")
         \/ Close /\ aborted # "yes" /\ Quiet
         \/ \E i \in Ids : Succeed(i) /\ Settled(i, Finished(i), "done")
         \/ \E i \in Ids : AcceptFindings(i) /\ Settled(i, Finished(i), "done")
         \/ \E i \in Ids : Retry(i) /\ Settled(i, {i}, "pending")
         \/ \E i \in Ids : Fail(i) /\ Settled(i, {i}, "error")
         \/ \E i, w \in Ids : SpawnRework(i) /\ Reworked(i, w)
         \/ \E i \in Ids : SpawnFix(i) /\ FixedUp(i)
         \/ \E i \in Ids, t \in Tasks, a \in Replies : Talked(i, t, a)
<1>1. CASE QuietStep
  BY <1>1, QuietFacts
<1>2. CASE Start
  BY <1>2, StartFacts
<1>3. CASE SkipBlocked
  BY <1>3, SkipFacts
<1>4. CASE Drain
  BY <1>4, DrainFacts
<1>5. CASE Close
  BY <1>5, CloseFacts
<1>6. ASSUME NEW i \in Ids, Settle(i)
      PROVE  \/ Succeed(i) /\ Settled(i, Finished(i), "done")
             \/ AcceptFindings(i) /\ Settled(i, Finished(i), "done")
             \/ Retry(i) /\ Settled(i, {i}, "pending")
             \/ Fail(i) /\ Settled(i, {i}, "error")
             \/ \E w \in Ids : SpawnRework(i) /\ Reworked(i, w)
             \/ SpawnFix(i) /\ FixedUp(i)
  BY <1>6, SettleFacts
<1>7. ASSUME NEW i \in Ids, Tentacle(i)
      PROVE  \E t \in Tasks, a \in Replies : Talked(i, t, a)
  BY <1>7, TalkFacts
<1> QED  BY <1>1, <1>2, <1>3, <1>4, <1>5, <1>6, <1>7, StepKinds

(* A step keeps the shape of the graph or adds a rework pair or a fix.     *)
Kept == SameShape(nodes', nodes) /\ StaysTyped /\ fixLeft' = fixLeft /\ opts' = opts

LEMMA KeptWhenSame ==
  ASSUME TypeInv, nodes' = nodes
  PROVE  SameShape(nodes', nodes) /\ StaysTyped
<1>1. nodes \in Seq(NodesOf(Len(nodes), opts.rounds))
  BY Typed DEF TypeInv
<1> QED  BY <1>1 DEF SameShape, SameRole, StaysTyped

LEMMA KeptOrGrown ==
  ASSUME TypeInv, OneJudged, Manned, Next
  PROVE  \/ Kept
         \/ \E i, w \in Ids : SpawnRework(i) /\ Reworked(i, w)
         \/ \E i \in Ids : SpawnFix(i) /\ FixedUp(i)
<1>1. Quiet => Kept
  BY KeptWhenSame DEF Quiet, Kept
<1>2. Start /\ StaysTyped /\ Started => Kept
  BY DEF Start, Started, Kept
<1>3. ASSUME NEW is, NEW s, Moves(is, s) PROVE Kept
  BY <1>3 DEF Moves, Restated, Kept
<1>4. ASSUME NEW i, NEW is, NEW s, Settled(i, is, s) PROVE Kept
  BY <1>4 DEF Settled, Settling, Restated, Kept
<1>5. ASSUME NEW i, NEW t, NEW a, Talked(i, t, a) PROVE Kept
  BY <1>5 DEF Talked, Worked, Kept
<1> QED  BY <1>1, <1>2, <1>3, <1>4, <1>5, StepFacts

-----------------------------------------------------------------------------
(*                    What becomes of a node's status                      *)

Passes(j) ==
  \/ nodes'[j].status = nodes[j].status
  \/ nodes[j].status = "pending" /\ nodes'[j].status = "running" /\ j \in chosen
  \/ nodes[j].status = "pending" /\ nodes'[j].status = "skipped"
  \/ nodes[j].status = "running" /\ nodes'[j].status \in {"pending", "done", "error"}
  \/ /\ nodes[j].status = "error" /\ nodes'[j].status = "done"
     /\ \E f \in Ids : nodes[f].repairs = j

LEMMA StatusSteps ==
  ASSUME TypeInv, OneJudged, Manned, Tracked, Selected, Next, NEW j \in Ids
  PROVE  Passes(j)
<1>1. \A i \in inFlight : i \in Ids /\ nodes[i].status = "running"
  BY DEF Tracked, TypeInv, TypeOK
<1>2. \A i \in chosen : i \in Ids /\ nodes[i].status = "pending"
  BY DEF Selected, Ready, Ids
<1>3. Quiet => Passes(j)
  BY DEF Quiet, Passes
<1>4. Start /\ StaysTyped /\ Started => Passes(j)
  BY <1>2 DEF Started, Passes
<1>5. ASSUME NEW is, Moves(is, "skipped"), \A i \in is : nodes[i].status = "pending"
      PROVE  Passes(j)
  BY <1>5 DEF Moves, Restated, Passes, Ids
<1>6. Moves(Late, "error") => Passes(j)
  BY <1>1 DEF Moves, Restated, Passes, Ids, Late
<1>7. \A i \in Blocked(nodes) : nodes[i].status = "pending"
  BY DEF Blocked
<1>8. \A i \in Unstarted : nodes[i].status = "pending"
  BY DEF Unstarted
<1>9. ASSUME NEW i \in Ids, NEW s \in {"pending", "error"}, Settled(i, {i}, s)
      PROVE  Passes(j)
  BY <1>1, <1>9 DEF Settled, Settling, Restated, Passes, Ids
<1>10. ASSUME NEW i \in Ids, Settled(i, Finished(i), "done")
       PROVE  Passes(j)
  BY <1>1, <1>10 DEF Settled, Settling, Restated, Passes, Ids, Finished
<1>11. ASSUME NEW i \in Ids, NEW w \in Ids, SpawnRework(i), Reworked(i, w)
       PROVE  Passes(j)
  BY <1>1, <1>11 DEF SpawnRework, Settling, Reworked, Passes, Finished
<1>12. ASSUME NEW i \in Ids, SpawnFix(i), FixedUp(i)
       PROVE  Passes(j)
  BY <1>1, <1>12 DEF SpawnFix, Settling, FixedUp, Passes
<1>13. ASSUME NEW i \in Ids, NEW t, NEW a, Talked(i, t, a)
       PROVE  Passes(j)
  BY <1>13 DEF Talked, Worked, Passes, Ids
<1>14. /\ SkipBlocked /\ Moves(Blocked(nodes), "skipped") => Passes(j)
       /\ Close /\ Moves(Unstarted, "skipped") => Passes(j)
  BY <1>5, <1>7, <1>8
<1>15. ASSUME NEW i \in Ids
       PROVE  /\ Retry(i) /\ Settled(i, {i}, "pending") => Passes(j)
              /\ Fail(i) /\ Settled(i, {i}, "error") => Passes(j)
  BY <1>9
<1> QED  BY <1>3, <1>4, <1>6, <1>10, <1>11, <1>12, <1>13, <1>14, <1>15, StepFacts

-----------------------------------------------------------------------------
(*                         The greedy selection                            *)

(* A sel is fit when it is made of ready nodes that may run together and   *)
(* with what is in flight.                                                 *)
FitSelection(sel) ==
  /\ sel \subseteq Ready(nodes)
  /\ \A i \in sel, j \in inFlight \cup sel : i # j => CanRunParallel(nodes[i], nodes[j])

LEMMA ParallelSymmetric ==
  ASSUME NEW a, NEW b, CanRunParallel(a, b)
  PROVE  CanRunParallel(b, a)
BY DEF CanRunParallel, DisjointScopes

Takes(k, sel) ==
  /\ k \in Ready(nodes)
  /\ Cardinality(inFlight \cup sel) < opts.parallel
  /\ \A r \in inFlight \cup sel : CanRunParallel(nodes[r], nodes[k])

LEMMA SelectionFits ==
  ASSUME TypeInv
  PROVE  FitSelection(Selection)
<1> DEFINE n == Len(nodes)
           Eq(p) == p = [k \in 0 .. n |->
                      IF k = 0 THEN {}
                      ELSE IF Takes(k, p[k - 1]) THEN p[k - 1] \cup {k} ELSE p[k - 1]]
<1>1. n \in Nat
  BY Typed DEF TypeInv
<1>2. \E p : Eq(p)
  <2>1. PICK V : V = SUBSET (1 .. n)
    OBVIOUS
  <2>2. PICK step : step = [k \in Nat |-> [sel \in V |->
                      IF k \in 1 .. n /\ Takes(k, sel) THEN sel \cup {k} ELSE sel]]
    OBVIOUS
  <2>3. Steps(step, V)
    <3>1. ASSUME NEW k \in Nat, NEW sel \in V
          PROVE  (IF k \in 1 .. n /\ Takes(k, sel) THEN sel \cup {k} ELSE sel) \in V
      BY <2>1
    <3> QED  BY <2>2, <3>1 DEF Steps
  <2>4. PICK base : base = {}
    OBVIOUS
  <2>5. base \in V
    BY <2>1, <2>4
  <2>6. PICK p : Stepwise(p, V, base, step, n)
    BY <1>1, <2>3, <2>5, StepwiseExists
  <2>7. /\ p \in [0 .. n -> V] /\ p[0] = {}
        /\ \A k \in 1 .. n : p[k] = step[k][p[k - 1]]
    BY <2>4, <2>6 DEF Stepwise
  <2>8. ASSUME NEW k \in 0 .. n
        PROVE  p[k] = IF k = 0 THEN {}
                      ELSE IF Takes(k, p[k - 1]) THEN p[k - 1] \cup {k} ELSE p[k - 1]
    <3>1. CASE k = 0
      BY <2>7, <3>1
    <3>2. CASE k # 0
      <4>1. k \in 1 .. n /\ k \in Nat /\ k - 1 \in 0 .. n
        BY <1>1, <3>2
      <4>2. p[k - 1] \in V
        BY <2>7, <4>1
      <4>3. step[k][p[k - 1]] = IF Takes(k, p[k - 1]) THEN p[k - 1] \cup {k} ELSE p[k - 1]
        BY <2>2, <4>1, <4>2
      <4> QED  BY <2>7, <3>2, <4>1, <4>3
    <3> QED  BY <3>1, <3>2
  <2>9. p = [k \in 0 .. n |-> p[k]]
    BY <2>7
  <2>10. Eq(p)
    BY <2>8, <2>9
  <2> QED  BY <2>10
<1>3. PICK q : q = CHOOSE p : Eq(p)
  OBVIOUS
<1>4. Eq(q)
  BY <1>2, <1>3
<1>5. Selection = q[n]
  BY <1>3 DEF Selection, Takes
<1>6. /\ q[0] = {}
      /\ \A k \in 1 .. n :
           q[k] = IF Takes(k, q[k - 1]) THEN q[k - 1] \cup {k} ELSE q[k - 1]
  <2>1. \A k \in 0 .. n :
          q[k] = IF k = 0 THEN {}
                 ELSE IF Takes(k, q[k - 1]) THEN q[k - 1] \cup {k} ELSE q[k - 1]
    BY <1>4, Zenon
  <2>2. 0 \in 0 .. n /\ \A k \in 1 .. n : k \in 0 .. n /\ k # 0
    BY <1>1
  <2> QED  BY <2>1, <2>2
<1> HIDE DEF Eq
<1> DEFINE I == {k \in Nat : k <= n => FitSelection(q[k])}
<1>7. 0 \in I
  BY <1>6 DEF FitSelection
<1>8. ASSUME NEW k \in Nat, k \in I PROVE k + 1 \in I
  <2>1. SUFFICES ASSUME k + 1 <= n PROVE FitSelection(q[k + 1])
    OBVIOUS
  <2>2. FitSelection(q[k]) /\ k + 1 \in 1 .. n /\ (k + 1) - 1 = k
    BY <1>1, <1>8, <2>1
  <2>3. q[k + 1] = IF Takes(k + 1, q[k]) THEN q[k] \cup {k + 1} ELSE q[k]
    BY <1>6, <2>2
  <2>4. CASE Takes(k + 1, q[k])
    <3>1. q[k + 1] = q[k] \cup {k + 1}
      BY <2>3, <2>4
    <3>2. q[k + 1] \subseteq Ready(nodes)
      BY <2>2, <2>4, <3>1 DEF FitSelection, Takes
    <3>3. ASSUME NEW i \in q[k + 1], NEW j \in inFlight \cup q[k + 1], i # j
          PROVE  CanRunParallel(nodes[i], nodes[j])
      <4>1. CASE i \in q[k] /\ j \in inFlight \cup q[k]
        BY <2>2, <3>3, <4>1 DEF FitSelection
      <4>2. CASE j = k + 1 /\ i \in q[k]
        BY <2>4, <4>2 DEF Takes
      <4>3. CASE i = k + 1
        <5>1. j \in inFlight \cup q[k]
          BY <3>1, <3>3, <4>3
        <5>2. CanRunParallel(nodes[j], nodes[i])
          BY <2>4, <4>3, <5>1 DEF Takes
        <5> QED  BY <5>2, ParallelSymmetric
      <4> QED  BY <3>1, <4>1, <4>2, <4>3
    <3> QED  BY <3>2, <3>3 DEF FitSelection
  <2>5. CASE ~Takes(k + 1, q[k])
    BY <2>2, <2>3, <2>5
  <2> QED  BY <2>4, <2>5
<1>9. \A k \in Nat : k \in I
  <2> HIDE DEF I
  <2> QED  BY <1>7, <1>8, InductionOnSets
<1>10. FitSelection(q[n])
  BY <1>1, <1>9
<1> QED  BY <1>5, <1>10

LEMMA SelectionReady ==
  ASSUME TypeInv
  PROVE  Selection \subseteq Ready(nodes)
BY SelectionFits DEF FitSelection

-----------------------------------------------------------------------------
(*                     The graph, from step to step                        *)

(* The scheduler's variables after a step.                                 *)
LEMMA TypeStep ==
  ASSUME Base, Next
  PROVE  TypeInv'
<1> USE DEF Base, GraphInv, FlowInv
<1>1. opts' = opts
  <2>1. QuietStep => opts' = opts
    BY QuietFacts DEF Quiet
  <2> QED
    BY <2>1, KeptOrGrown DEF Kept, SpawnRework, SpawnFix, Settling
<1>2. \/ Len(nodes') = Len(nodes) /\ StaysTyped
      \/ \E i, w \in Ids : SpawnRework(i) /\ Reworked(i, w)
      \/ \E i \in Ids : SpawnFix(i) /\ FixedUp(i)
  BY KeptOrGrown DEF Kept, SameShape
<1>3. Len(nodes) \in Nat
  BY Typed DEF TypeInv
<1>4. nodes' \in Seq(NodeType')
  <2>1. CASE Len(nodes') = Len(nodes) /\ StaysTyped
    BY <1>1, <2>1, TypedAfter
  <2>2. ASSUME NEW i \in Ids, NEW w \in Ids, Reworked(i, w) PROVE nodes' \in Seq(NodeType')
    <3>1. nodes' \in Seq(NodesOf(Len(nodes'), opts.rounds))
      BY <2>2 DEF Reworked
    <3> QED  BY <1>1, <3>1 DEF NodeType, NodesOf, Ids
  <2>3. ASSUME NEW i \in Ids, FixedUp(i) PROVE nodes' \in Seq(NodeType')
    <3>1. nodes' \in Seq(NodesOf(Len(nodes'), opts.rounds))
      BY <2>3 DEF FixedUp
    <3> QED  BY <1>1, <3>1 DEF NodeType, NodesOf, Ids
  <2> QED  BY <1>2, <2>1, <2>2, <2>3
<1>5. Ids \subseteq Ids'
  <2>1. Len(nodes') \in Nat /\ Len(nodes') >= Len(nodes)
    <3>1. ASSUME NEW i \in Ids, NEW w \in Ids, Reworked(i, w)
          PROVE  Len(nodes') \in Nat /\ Len(nodes') >= Len(nodes)
      <4>1. Len(nodes') = (Len(nodes) + 1) + 1
        BY <3>1 DEF Reworked
      <4> QED  BY <1>3, <4>1
    <3>2. ASSUME NEW i \in Ids, FixedUp(i)
          PROVE  Len(nodes') \in Nat /\ Len(nodes') >= Len(nodes)
      <4>1. Len(nodes') = Len(nodes) + 1
        BY <3>2 DEF FixedUp
      <4> QED  BY <1>3, <4>1
    <3> QED  BY <1>2, <1>3, <3>1, <3>2
  <2> QED  BY <1>3, <2>1 DEF Ids
<1>6. inFlight' \subseteq Ids /\ chosen' \subseteq Ids /\ handles' \subseteq Ids
  <2>0. /\ inFlight \subseteq Ids /\ chosen \subseteq Ids /\ handles \subseteq Ids
    BY DEF TypeInv, TypeOK
  <2>1. CASE Admit
    <3>1. Selection \subseteq Ids
      BY SelectionReady DEF Ready, Ids
    <3>2. chosen' \subseteq Selection
      BY <2>1 DEF Admit
    <3> QED  BY <2>0, <2>1, <3>1, <3>2 DEF Admit
  <2>2. CASE QuietStep /\ ~Admit
    BY <2>0, <2>2
       DEF QuietStep, LeaveSettled, LeaveAtCap, LeaveCancelled, BailOut, Cancel
  <2>3. CASE Start
    BY <2>0, <2>3 DEF Start
  <2>4. CASE SkipBlocked
    BY <2>0, <2>4 DEF SkipBlocked
  <2>5. CASE Drain
    BY <2>0, <2>5 DEF Drain
  <2>6. CASE Close
    BY <2>0, <2>6 DEF Close
  <2>7. ASSUME NEW i \in Ids, Settle(i)
        PROVE  inFlight' \subseteq Ids /\ chosen' \subseteq Ids /\ handles' \subseteq Ids
    <3>1. Settling(i)
      BY <2>7 DEF Settle, Succeed, AcceptFindings, SpawnRework, Retry, SpawnFix, Fail
    <3> QED  BY <2>0, <3>1 DEF Settling
  <2>8. ASSUME NEW i \in Ids, Tentacle(i)
        PROVE  inFlight' \subseteq Ids /\ chosen' \subseteq Ids /\ handles' \subseteq Ids
    BY <2>0, <2>8, TalkFacts DEF Talked
  <2> QED  BY <2>1, <2>2, <2>3, <2>4, <2>5, <2>6, <2>7, <2>8, StepKinds
<1>7. unresolved' \subseteq [writer : Ids, why : {"fail", "unknown"}]
  <2>0. unresolved \subseteq [writer : Ids, why : {"fail", "unknown"}]
    BY DEF TypeInv, TypeOK
  <2>1. unresolved' = unresolved \/ \E i \in Ids : AcceptFindings(i)
    <3>1. QuietStep \/ Start \/ SkipBlocked \/ Drain \/ Close => unresolved' = unresolved
      BY QuietFacts DEF Quiet, Start, SkipBlocked, Drain, Close
    <3>2. ASSUME NEW i \in Ids, Settle(i) PROVE unresolved' = unresolved \/ AcceptFindings(i)
      BY <3>2 DEF Settle, Succeed, SpawnRework, Retry, SpawnFix, Fail
    <3>3. ASSUME NEW i \in Ids, Tentacle(i) PROVE unresolved' = unresolved
      BY <3>3, TalkFacts DEF Talked
    <3> QED  BY <3>1, <3>2, <3>3, StepKinds
  <2>2. ASSUME NEW i \in Ids, AcceptFindings(i)
        PROVE  unresolved' \subseteq [writer : Ids, why : {"fail", "unknown"}]
    <3>1. nodes[i].answer \in {"fail", "unknown"}
      BY <2>2 DEF AcceptFindings
    <3>2. nodes[i].kind = "verify"
      BY <3>1 DEF Manned
    <3>3. PICK w \in Ids : nodes[i].deps = {w} /\ nodes[w].kind \in Writers
      BY <3>2 DEF OneJudged
    <3>4. WriterBehind(i) \in Ids
      BY <3>3 DEF WriterBehind
    <3> QED  BY <2>0, <2>2, <3>1, <3>4 DEF AcceptFindings
  <2> QED  BY <2>0, <2>1, <2>2
<1>8. fixLeft' \in 0 .. opts.fixes
  <2>1. fixLeft \in 0 .. opts.fixes
    BY DEF TypeInv, TypeOK
  <2>2. ASSUME NEW i \in Ids, SpawnFix(i) PROVE fixLeft' \in 0 .. opts.fixes
    <3>1. fixLeft > 0 /\ fixLeft' = fixLeft - 1
      BY <2>2 DEF SpawnFix, Fixable
    <3> QED  BY <2>1, <3>1, LimitTypes
  <2> QED  BY <2>1, <2>2, KeptOrGrown DEF Kept, SpawnRework
<1>9. /\ aborted' \in {"yes", "no"}
      /\ pc' \in {"top", "admitted", "wait", "drain", "draining", "closing", "over"}
  <2>0. /\ aborted \in {"yes", "no"}
        /\ pc \in {"top", "admitted", "wait", "drain", "draining", "closing", "over"}
    BY DEF TypeInv, TypeOK
  <2>1. CASE QuietStep \/ Start \/ SkipBlocked \/ Drain \/ Close
    BY <2>0, <2>1 DEF QuietStep, LeaveSettled, LeaveAtCap, LeaveCancelled, Admit, BailOut,
                      Cancel, Start, SkipBlocked, Drain, Close
  <2>2. ASSUME NEW i \in Ids, Settle(i)
        PROVE  /\ aborted' = aborted
               /\ pc' \in {"top", "admitted", "wait", "drain", "draining", "closing", "over"}
    <3>1. Settling(i)
      BY <2>2 DEF Settle, Succeed, AcceptFindings, SpawnRework, Retry, SpawnFix, Fail
    <3> QED  BY <2>0, <3>1 DEF Settling
  <2>3. ASSUME NEW i \in Ids, Tentacle(i) PROVE aborted' = aborted /\ pc' = pc
    BY <2>3, TalkFacts DEF Talked
  <2> QED  BY <2>0, <2>1, <2>2, <2>3, StepKinds
<1>10. Ids' = 1 .. Len(nodes')
  BY DEF Ids
<1>11. unresolved' \subseteq [writer : Ids', why : {"fail", "unknown"}]
  BY <1>5, <1>7
<1> QED  BY <1>1, <1>4, <1>5, <1>6, <1>8, <1>9, <1>11 DEF TypeInv, TypeOK

-----------------------------------------------------------------------------
(*                 The shape of the graph, from step to step               *)

LEMMA ReworkIds ==
  ASSUME TypeInv, NEW i \in Ids, NEW w \in Ids, Reworked(i, w)
  PROVE  LET r == Len(nodes) + 1
         IN  /\ Ids' = Ids \cup {r, r + 1} /\ r \notin Ids /\ r + 1 \notin Ids /\ r # r + 1
             /\ \A j \in Ids : j < r
<1>1. Len(nodes) \in Nat
  BY Typed DEF TypeInv
<1>2. Len(nodes') = Len(nodes) + 2
  BY <1>1 DEF Reworked
<1>3. Ids' = 1 .. (Len(nodes) + 2) /\ Ids = 1 .. Len(nodes)
  BY <1>2 DEF Ids
<1> QED  BY <1>1, <1>3

LEMMA FixIds ==
  ASSUME TypeInv, NEW i \in Ids, FixedUp(i)
  PROVE  LET f == Len(nodes) + 1
         IN  Ids' = Ids \cup {f} /\ f \notin Ids /\ f # 0 /\ \A j \in Ids : j < f
<1>1. Len(nodes) \in Nat
  BY Typed DEF TypeInv
<1>2. Ids' = 1 .. (Len(nodes) + 1) /\ Ids = 1 .. Len(nodes)
  BY DEF Ids, FixedUp
<1> QED  BY <1>1, <1>2

LEMMA KeptRoles ==
  ASSUME Kept
  PROVE  Ids' = Ids /\ \A j \in Ids : SameRole(nodes'[j], nodes[j])
BY DEF Kept, SameShape, Ids

LEMMA AcyclicStep ==
  ASSUME Base, Next
  PROVE  Acyclic'
<1> USE DEF Base, GraphInv, FlowInv
<1>0. \A j \in Ids : nodes[j].deps \subseteq Ids
  BY NodeFields
<1>1. CASE Kept
  BY <1>1, KeptRoles DEF Acyclic, SameRole
<1>2. ASSUME NEW i \in Ids, NEW w \in Ids, SpawnRework(i), Reworked(i, w), NEW S \in SUBSET Ids', S # {}
      PROVE  \E x \in S : nodes'[x].deps \cap S = {}
  <2> DEFINE r == Len(nodes) + 1
  <2>1. /\ Ids' = Ids \cup {r, r + 1} /\ r \notin Ids /\ r + 1 \notin Ids /\ r # r + 1
    BY <1>2, ReworkIds
  <2>2. /\ nodes'[r].deps = {i} /\ nodes'[r + 1].deps = {r}
        /\ \A j \in Ids : Moved(nodes'[j], nodes[j], i, r + 1)
    BY <1>2 DEF Reworked, Fresh
  <2> HIDE DEF r
  <2>3. PICK T : T = (S \cap Ids) \cup (IF r \in S \/ r + 1 \in S THEN {i} ELSE {})
    OBVIOUS
  <2>4. T \in SUBSET Ids /\ T # {}
    BY <1>2, <2>1, <2>3
  <2>5. PICK x \in T : nodes[x].deps \cap T = {}
    BY <2>4 DEF Acyclic
  <2>6. x \in Ids /\ nodes[x].deps \subseteq Ids
    BY <1>0, <2>4, <2>5
  <2>7. CASE x # i
    <3>1. x \in S
      BY <2>3, <2>5, <2>7
    <3>2. CASE i \in nodes[x].deps
      <4>1. i \notin S /\ r \notin S /\ r + 1 \notin S
        BY <2>3, <2>5, <3>2
      <4>2. nodes'[x].deps = (nodes[x].deps \ {i}) \cup {r + 1}
        BY <2>2, <2>6, <3>2 DEF Moved
      <4> QED  BY <2>3, <2>5, <2>6, <3>1, <4>1, <4>2
    <3>3. CASE i \notin nodes[x].deps
      <4>1. nodes'[x].deps = nodes[x].deps
        BY <2>2, <2>6, <3>3 DEF Moved
      <4> QED  BY <2>3, <2>5, <2>6, <3>1, <4>1
    <3> QED  BY <3>2, <3>3
  <2>8. CASE x = i
    <3>1. CASE i \in S
      <4>1. nodes'[i].deps = nodes[i].deps
        BY <2>2, <2>5, <2>6, <2>8 DEF Moved
      <4> QED  BY <2>3, <2>5, <2>6, <2>8, <3>1, <4>1
    <3>2. CASE i \notin S /\ r \in S
      BY <2>2, <3>2
    <3>3. CASE i \notin S /\ r \notin S
      <4>1. r + 1 \in S
        BY <2>3, <2>5, <2>8, <3>3
      <4> QED  BY <2>2, <3>3, <4>1
    <3> QED  BY <3>1, <3>2, <3>3
  <2> QED  BY <2>7, <2>8
<1>3. ASSUME NEW i \in Ids, SpawnFix(i), FixedUp(i), NEW S \in SUBSET Ids', S # {}
      PROVE  \E x \in S : nodes'[x].deps \cap S = {}
  <2> DEFINE f == Len(nodes) + 1
  <2>1. Ids' = Ids \cup {f} /\ f \notin Ids
    BY <1>3, FixIds
  <2>2. /\ nodes'[f].deps = nodes[i].deps
        /\ \A j \in Ids : Moved(nodes'[j], nodes[j], i, f)
    BY <1>3 DEF FixedUp, Fresh
  <2> HIDE DEF f
  <2>3. PICK T : T = (S \cap Ids) \cup (IF f \in S THEN {i} ELSE {})
    OBVIOUS
  <2>4. T \in SUBSET Ids /\ T # {}
    BY <1>3, <2>1, <2>3
  <2>5. PICK x \in T : nodes[x].deps \cap T = {}
    BY <2>4 DEF Acyclic
  <2>6. x \in Ids /\ nodes[x].deps \subseteq Ids
    BY <1>0, <2>4, <2>5
  <2>7. CASE x # i
    <3>1. x \in S
      BY <2>3, <2>5, <2>7
    <3>2. CASE i \in nodes[x].deps
      <4>1. i \notin S /\ f \notin S
        BY <2>3, <2>5, <3>2
      <4>2. nodes'[x].deps = (nodes[x].deps \ {i}) \cup {f}
        BY <2>2, <2>6, <3>2 DEF Moved
      <4> QED  BY <2>3, <2>5, <2>6, <3>1, <4>1, <4>2
    <3>3. CASE i \notin nodes[x].deps
      <4>1. nodes'[x].deps = nodes[x].deps
        BY <2>2, <2>6, <3>3 DEF Moved
      <4> QED  BY <2>1, <2>3, <2>5, <2>6, <3>1, <4>1
    <3> QED  BY <3>2, <3>3
  <2>8. CASE x = i
    <3>1. CASE f \in S
      BY <2>1, <2>2, <2>3, <2>5, <2>6, <2>8, <3>1
    <3>2. CASE f \notin S
      <4>1. i \in S
        BY <2>3, <2>5, <2>8, <3>2
      <4>2. nodes'[i].deps = nodes[i].deps
        BY <2>2, <2>5, <2>6, <2>8 DEF Moved
      <4> QED  BY <2>1, <2>3, <2>5, <2>6, <2>8, <3>2, <4>1, <4>2
    <3> QED  BY <3>1, <3>2
  <2> QED  BY <2>7, <2>8
<1>4. ASSUME NEW S \in SUBSET Ids', S # {}
      PROVE  Kept \/ \E x \in S : nodes'[x].deps \cap S = {}
  BY <1>2, <1>3, <1>4, KeptOrGrown
<1> QED  BY <1>1, <1>4 DEF Acyclic

LEMMA OneJudgedStep ==
  ASSUME Base, Next
  PROVE  OneJudged'
<1> USE DEF Base, GraphInv, FlowInv
<1>1. CASE Kept
  BY <1>1, KeptRoles DEF OneJudged, SameRole
<1>2. ASSUME NEW i \in Ids, NEW w \in Ids, SpawnRework(i), Reworked(i, w), NEW v \in Ids',
             nodes'[v].kind = "verify"
      PROVE  \E x \in Ids' : nodes'[v].deps = {x} /\ nodes'[x].kind \in Writers
  <2> DEFINE r == Len(nodes) + 1
  <2>1. Ids' = Ids \cup {r, r + 1}
    BY <1>2, ReworkIds
  <2>2. /\ nodes'[r].kind = "fix" /\ nodes'[r + 1].deps = {r}
        /\ \A j \in Ids : Moved(nodes'[j], nodes[j], i, r + 1) /\ nodes'[j].kind = nodes[j].kind
        /\ nodes[i].kind = "verify"
    BY <1>2 DEF Reworked, Fresh, SameNode
  <2> HIDE DEF r
  <2>3. CASE v \in Ids
    <3>1. PICK x \in Ids : nodes[v].deps = {x} /\ nodes[x].kind \in Writers
      BY <1>2, <2>2, <2>3 DEF OneJudged
    <3>2. x # i
      BY <2>2, <3>1 DEF Writers
    <3> QED  BY <2>1, <2>2, <2>3, <3>1, <3>2 DEF Moved
  <2>4. CASE v = r
    BY <1>2, <2>2, <2>4
  <2>5. CASE v = r + 1
    BY <2>1, <2>2, <2>5 DEF Writers
  <2> QED  BY <1>2, <2>1, <2>3, <2>4, <2>5
<1>3. ASSUME NEW i \in Ids, SpawnFix(i), FixedUp(i), NEW v \in Ids', nodes'[v].kind = "verify"
      PROVE  \E x \in Ids' : nodes'[v].deps = {x} /\ nodes'[x].kind \in Writers
  <2> DEFINE f == Len(nodes) + 1
  <2>1. Ids' = Ids \cup {f}
    BY <1>3, FixIds
  <2>2. /\ nodes'[f].kind = "fix"
        /\ \A j \in Ids : Moved(nodes'[j], nodes[j], i, f) /\ nodes'[j].kind = nodes[j].kind
    BY <1>3 DEF FixedUp, Fresh, SameNode
  <2> HIDE DEF f
  <2>3. v \in Ids
    BY <1>3, <2>1, <2>2
  <2>4. PICK x \in Ids : nodes[v].deps = {x} /\ nodes[x].kind \in Writers
    BY <1>3, <2>2, <2>3 DEF OneJudged
  <2>5. CASE x = i
    BY <2>1, <2>2, <2>3, <2>4, <2>5 DEF Moved, Writers
  <2>6. CASE x # i
    BY <2>1, <2>2, <2>3, <2>4, <2>6 DEF Moved
  <2> QED  BY <2>5, <2>6
<1>4. ASSUME NEW v \in Ids', nodes'[v].kind = "verify"
      PROVE  Kept \/ \E x \in Ids' : nodes'[v].deps = {x} /\ nodes'[x].kind \in Writers
  BY <1>2, <1>3, <1>4, KeptOrGrown
<1> QED  BY <1>1, <1>4 DEF OneJudged

LEMMA RootedStep ==
  ASSUME Base, Next
  PROVE  Rooted'
<1> USE DEF Base, GraphInv, FlowInv
<1>0. \A j \in Ids : nodes[j].lineage \in Ids
  BY NodeFields
<1>1. CASE Kept
  BY <1>0, <1>1, KeptRoles DEF Rooted, SameRole, IsRework
<1>2. ASSUME NEW i \in Ids, NEW w \in Ids, SpawnRework(i), Reworked(i, w)
      PROVE  Rooted'
  <2> DEFINE r == Len(nodes) + 1
  <2>1. Ids' = Ids \cup {r, r + 1} /\ r \notin Ids /\ r + 1 \notin Ids /\ r # r + 1
    BY <1>2, ReworkIds
  <2>2. /\ nodes'[r].kind = "fix" /\ nodes'[r].repairs = 0 /\ nodes'[r].lineage = nodes[w].lineage
        /\ nodes'[r + 1].lineage = r + 1 /\ nodes[w].kind \in Writers
        /\ \A j \in Ids : SameNode(nodes'[j], nodes[j])
    BY <1>2 DEF Reworked, Fresh
  <2> HIDE DEF r
  <2>3. nodes[nodes[w].lineage].kind \in Writers
    BY <2>2 DEF Rooted, IsRework
  <2>4. ASSUME NEW j \in Ids'
        PROVE  /\ nodes'[nodes'[j].lineage].lineage = nodes'[j].lineage
               /\ nodes'[j].lineage # j =>
                    /\ nodes'[j].kind = "fix" /\ nodes'[j].repairs = 0
                    /\ nodes'[nodes'[j].lineage].kind \in Writers
    <3>1. CASE j \in Ids
      BY <1>0, <2>2, <3>1 DEF Rooted, IsRework, SameNode
    <3>2. CASE j = r
      BY <1>0, <2>2, <2>3, <3>2 DEF Rooted, SameNode
    <3>3. CASE j = r + 1
      BY <2>2, <3>3
    <3> QED  BY <2>1, <3>1, <3>2, <3>3
  <2> QED  BY <2>4 DEF Rooted, IsRework
<1>3. ASSUME NEW i \in Ids, SpawnFix(i), FixedUp(i)
      PROVE  Rooted'
  <2> DEFINE f == Len(nodes) + 1
  <2>1. Ids' = Ids \cup {f}
    BY <1>3, FixIds
  <2>2. nodes'[f].lineage = f /\ \A j \in Ids : SameNode(nodes'[j], nodes[j])
    BY <1>3 DEF FixedUp, Fresh
  <2> HIDE DEF f
  <2>4. ASSUME NEW j \in Ids'
        PROVE  /\ nodes'[nodes'[j].lineage].lineage = nodes'[j].lineage
               /\ nodes'[j].lineage # j =>
                    /\ nodes'[j].kind = "fix" /\ nodes'[j].repairs = 0
                    /\ nodes'[nodes'[j].lineage].kind \in Writers
    <3>1. CASE j \in Ids
      BY <1>0, <2>2, <3>1 DEF Rooted, IsRework, SameNode
    <3>2. CASE j = f
      BY <2>2, <3>2
    <3> QED  BY <2>1, <3>1, <3>2
  <2> QED  BY <2>4 DEF Rooted, IsRework
<1> QED  BY <1>1, <1>2, <1>3, KeptOrGrown

-----------------------------------------------------------------------------
(*                 The flow of the nodes, from step to step                *)

(* What becomes of the work of a node.                                     *)
Works(j) ==
  \/ SameWork(nodes'[j], nodes[j])
  \/ /\ j \in chosen /\ nodes'[j].status = "running"
     /\ nodes'[j].task = "works" /\ nodes'[j].answer = "none"
  \/ \E t, a :
       /\ TalkStep(j, t, a) /\ nodes'[j].task = t /\ nodes'[j].answer = a
       /\ nodes'[j].status = nodes[j].status

LEMMA WorkSteps ==
  ASSUME TypeInv, OneJudged, Manned, Next, NEW j \in Ids
  PROVE  Works(j)
<1>1. Quiet => Works(j)
  BY DEF Quiet, Works, SameWork
<1>2. Start /\ StaysTyped /\ Started => Works(j)
  BY DEF Started, Works
<1>3. ASSUME NEW is, NEW s, Restated(nodes', nodes, is, s) PROVE Works(j)
  BY <1>3 DEF Restated, Works, Ids
<1>4. ASSUME NEW i, NEW is, NEW s, Settled(i, is, s) PROVE Works(j)
  BY <1>3, <1>4 DEF Settled
<1>5. ASSUME NEW is, NEW s, Moves(is, s) PROVE Works(j)
  BY <1>3, <1>5 DEF Moves
<1>6. ASSUME NEW i \in Ids, NEW w \in Ids, Reworked(i, w) PROVE Works(j)
  BY <1>6 DEF Reworked, SameNode, Works
<1>7. ASSUME NEW i \in Ids, FixedUp(i) PROVE Works(j)
  BY <1>7 DEF FixedUp, SameNode, Works
<1>8. ASSUME NEW i \in Ids, NEW t, NEW a, Talked(i, t, a) PROVE Works(j)
  <2>1. CASE j = i
    <3>1. TalkStep(j, t, a) /\ nodes'[j].task = t /\ nodes'[j].answer = a
      BY <1>8, <2>1 DEF Talked, Worked
    <3>2. nodes'[j].status = nodes[j].status
      BY <1>8 DEF Talked, Worked, Ids
    <3> QED  BY <3>1, <3>2 DEF Works
  <2>2. CASE j # i
    BY <1>8, <2>2 DEF Talked, Worked, Works, Ids
  <2> QED  BY <2>1, <2>2
<1> QED  BY <1>1, <1>2, <1>4, <1>5, <1>6, <1>7, <1>8, StepFacts

(* A node leaves "running" for anything but a failure once its tentacle    *)
(* has answered.                                                           *)
LEMMA AnsweredFirst ==
  ASSUME Base, Next, NEW j \in Ids, nodes[j].status = "running",
         nodes'[j].status \in {"pending", "done"}
  PROVE  nodes[j].task = "none"
<1> USE DEF Base, GraphInv, FlowInv
<1>0. \A i \in Ids : nodes[i].answer \notin {"none", "stuck"} => nodes[i].task = "none"
  BY DEF Manned
<1>1. ~Quiet
  BY DEF Quiet
<1>2. ~(Start /\ StaysTyped /\ Started)
  BY DEF Started
<1>3. ASSUME NEW is, NEW s \in {"skipped", "error"}, Moves(is, s) PROVE FALSE
  BY <1>3 DEF Moves, Restated, Ids
<1>4. ASSUME NEW i \in Ids, Succeed(i) \/ AcceptFindings(i), Settled(i, Finished(i), "done")
      PROVE  nodes[j].task = "none"
  <2>1. nodes[i].task = "none"
    BY <1>0, <1>4 DEF Succeed, AcceptFindings
  <2>2. j \in Finished(i)
    BY <1>4 DEF Settled, Restated, Ids
  <2> QED  BY <2>1, <2>2 DEF Finished
<1>5. ASSUME NEW i \in Ids, Retry(i), Settled(i, {i}, "pending")
      PROVE  nodes[j].task = "none"
  <2>1. nodes[i].task = "none"
    BY <1>0, <1>5 DEF Retry, Recoverable
  <2>2. j = i
    BY <1>5 DEF Settled, Restated, Ids
  <2> QED  BY <2>1, <2>2
<1>6. ASSUME NEW i \in Ids, Fail(i), Settled(i, {i}, "error") PROVE FALSE
  BY <1>6 DEF Settled, Restated, Ids
<1>7. ASSUME NEW i \in Ids, NEW w \in Ids, SpawnRework(i), Reworked(i, w)
      PROVE  nodes[j].task = "none"
  <2>1. nodes[i].task = "none"
    BY <1>0, <1>7 DEF SpawnRework
  <2>2. j \in Finished(i)
    BY <1>7 DEF Reworked
  <2> QED  BY <2>1, <2>2 DEF Finished
<1>8. ASSUME NEW i \in Ids, SpawnFix(i), FixedUp(i) PROVE FALSE
  BY <1>8 DEF FixedUp
<1>9. ASSUME NEW i \in Ids, NEW t, NEW a, Talked(i, t, a) PROVE FALSE
  BY <1>9 DEF Talked, Worked, Ids
<1> QED  BY <1>1, <1>2, <1>3, <1>4, <1>5, <1>6, <1>7, <1>8, <1>9, StepFacts

LEMMA MannedStep ==
  ASSUME Base, Next
  PROVE  Manned'
<1> USE DEF Base, GraphInv, FlowInv
<1> DEFINE P(j) ==
      /\ nodes'[j].task # "none" =>
           nodes'[j].status \in {"running", "error"} /\ nodes'[j].answer \in {"none", "stuck"}
      /\ nodes'[j].task \in {"works", "told"} => nodes'[j].answer = "none"
      /\ nodes'[j].answer \in {"pass", "fail", "unknown"} => nodes'[j].kind = "verify"
      /\ nodes'[j].answer = "ok" => nodes'[j].kind # "verify"
<1>1. ASSUME NEW j \in Ids PROVE nodes'[j].kind = nodes[j].kind
  BY KeptOrGrown, KeptRoles DEF SameRole, Reworked, FixedUp, SameNode
<1>2. ASSUME NEW j \in Ids PROVE P(j)
  <2>1. /\ nodes[j].task # "none" =>
             nodes[j].status \in {"running", "error"} /\ nodes[j].answer \in {"none", "stuck"}
        /\ nodes[j].task \in {"works", "told"} => nodes[j].answer = "none"
        /\ nodes[j].answer \in {"pass", "fail", "unknown"} => nodes[j].kind = "verify"
        /\ nodes[j].answer = "ok" => nodes[j].kind # "verify"
    BY DEF Manned
  <2>2. Passes(j) /\ Works(j)
    BY StatusSteps, WorkSteps
  <2>3. CASE SameWork(nodes'[j], nodes[j])
    <3>1. ASSUME nodes[j].task # "none" PROVE nodes'[j].status \in {"running", "error"}
      <4>1. nodes[j].status \in {"running", "error"}
        BY <2>1, <3>1
      <4>2. \A f \in Ids : nodes[f].repairs # j
        BY <3>1, NodeFields DEF Replaced, Replaces, Ids
      <4> QED  BY <2>2, <3>1, <4>1, <4>2, AnsweredFirst DEF Passes
    <3> QED  BY <1>1, <2>1, <2>3, <3>1 DEF SameWork
  <2>4. CASE /\ nodes'[j].status = "running"
             /\ nodes'[j].task = "works" /\ nodes'[j].answer = "none"
    BY <2>4
  <2>5. ASSUME NEW t, NEW a, TalkStep(j, t, a), nodes'[j].task = t, nodes'[j].answer = a,
               nodes'[j].status = nodes[j].status
        PROVE  P(j)
    BY <1>1, <2>1, <2>5 DEF TalkStep, Fits
  <2> QED  BY <2>2, <2>3, <2>4, <2>5 DEF Works
<1>3. ASSUME NEW i \in Ids, NEW w \in Ids, Reworked(i, w), NEW j \in Ids' PROVE P(j)
  <2>1. /\ nodes'[Len(nodes) + 1].task = "none" /\ nodes'[Len(nodes) + 1].answer = "none"
        /\ nodes'[Len(nodes) + 2].task = "none" /\ nodes'[Len(nodes) + 2].answer = "none"
    <3>1. Len(nodes) + 2 = (Len(nodes) + 1) + 1
      BY Typed DEF TypeInv
    <3> QED  BY <1>3, <3>1 DEF Reworked, Fresh
  <2>2. j \in Ids \/ j = Len(nodes) + 1 \/ j = Len(nodes) + 2
    <3>1. Len(nodes) + 2 = (Len(nodes) + 1) + 1
      BY Typed DEF TypeInv
    <3> QED  BY <1>3, <3>1, ReworkIds
  <2> QED  BY <1>2, <2>1, <2>2
<1>4. ASSUME NEW i \in Ids, FixedUp(i), NEW j \in Ids' PROVE P(j)
  BY <1>2, <1>4, FixIds DEF FixedUp, Fresh
<1>5. ASSUME Kept, NEW j \in Ids' PROVE P(j)
  BY <1>2, <1>5, KeptRoles
<1>6. \A j \in Ids' : P(j)
  BY <1>3, <1>4, <1>5, KeptOrGrown
<1> QED  BY <1>6 DEF Manned

LEMMA ReplacedStep ==
  ASSUME Base, Next
  PROVE  Replaced'
<1> USE DEF Base, GraphInv, FlowInv
<1>0. \A i \in inFlight : nodes[i].status = "running"
  BY DEF Tracked, TypeInv, TypeOK
<1>1. \A i \in chosen : nodes[i].status = "pending"
  BY DEF Selected, Ready
<1>2. ASSUME NEW f \in Ids, nodes[f].repairs # 0
      PROVE  /\ nodes[f].repairs \in Ids /\ Replaces(f)
             /\ nodes'[nodes[f].repairs].task = "none"
             /\ nodes'[nodes[f].repairs].answer = "error"
             /\ nodes'[nodes[f].repairs].status \in {"error", "done"}
  <2> DEFINE e == nodes[f].repairs
  <2>1. e \in Ids /\ Replaces(f)
    BY <1>2, NodeFields DEF Replaced
  <2>2. nodes[e].task = "none" /\ nodes[e].answer = "error" /\ nodes[e].status \in {"error", "done"}
    BY <2>1 DEF Replaces
  <2>3. Passes(e) /\ Works(e)
    BY <2>1, StatusSteps, WorkSteps
  <2>4. nodes'[e].status \in {"error", "done"}
    BY <2>2, <2>3 DEF Passes
  <2>5. nodes'[e].task = "none" /\ nodes'[e].answer = "error"
    BY <1>1, <2>2, <2>3 DEF Works, SameWork, TalkStep
  <2> QED  BY <2>1, <2>4, <2>5
<1>3. CASE Kept
  <2>1. Ids' = Ids /\ \A j \in Ids : SameRole(nodes'[j], nodes[j])
    BY <1>3, KeptRoles
  <2> QED  BY <1>2, <2>1 DEF Replaced, Replaces, SameRole
<1>4. ASSUME NEW i \in Ids, NEW w \in Ids, SpawnRework(i), Reworked(i, w),
             NEW f \in Ids', nodes'[f].repairs # 0
      PROVE  Replaces(f)'
  <2> DEFINE r == Len(nodes) + 1
  <2>1. Ids' = Ids \cup {r, r + 1} /\ r \notin Ids /\ r + 1 \notin Ids
    BY <1>4, ReworkIds
  <2>2. /\ nodes'[r].repairs = 0 /\ nodes'[r + 1].repairs = 0
        /\ nodes'[r].deps = {i} /\ nodes'[r + 1].deps = {r}
        /\ \A j \in Ids : SameNode(nodes'[j], nodes[j]) /\ Moved(nodes'[j], nodes[j], i, r + 1)
    BY <1>4 DEF Reworked, Fresh
  <2> HIDE DEF r
  <2>3. f \in Ids /\ nodes[f].repairs # 0 /\ nodes'[f].repairs = nodes[f].repairs
        /\ nodes'[f].kind = nodes[f].kind
    BY <1>4, <2>1, <2>2 DEF SameNode
  <2>4. PICK e \in Ids : e = nodes[f].repairs
    BY <1>2, <2>3
  <2>5. /\ nodes[f].kind = "fix" /\ \A j \in Ids : e \notin nodes[j].deps
        /\ nodes[e].status \in {"error", "done"}
    BY <1>2, <2>3, <2>4 DEF Replaces
  <2>6. nodes[i].status = "running"
    BY <1>0, <1>4 DEF SpawnRework, Settling
  <2>7. ASSUME NEW j \in Ids' PROVE e \notin nodes'[j].deps
    BY <2>1, <2>2, <2>4, <2>5, <2>6 DEF Moved
  <2> QED  BY <1>2, <2>3, <2>4, <2>5, <2>7 DEF Replaces
<1>5. ASSUME NEW i \in Ids, SpawnFix(i), FixedUp(i), NEW f \in Ids', nodes'[f].repairs # 0
      PROVE  Replaces(f)'
  <2> DEFINE n == Len(nodes) + 1
  <2>1. Ids' = Ids \cup {n} /\ n \notin Ids
    BY <1>5, FixIds
  <2>2. /\ nodes'[n].repairs = i /\ nodes'[n].kind = "fix" /\ nodes'[n].deps = nodes[i].deps
        /\ \A j \in Ids : SameNode(nodes'[j], nodes[j]) /\ Moved(nodes'[j], nodes[j], i, n)
        /\ nodes'[i].status = "error"
    BY <1>5 DEF FixedUp, Fresh
  <2> HIDE DEF n
  <2>3. CASE f = n
    <3>1. nodes[i].task = "none" /\ nodes[i].answer = "error"
      BY <1>5 DEF SpawnFix, Recoverable, Manned
    <3>2. i \notin nodes[i].deps
      <4>1. \E x \in {i} : nodes[x].deps \cap {i} = {}
        BY DEF Acyclic
      <4> QED  BY <4>1
    <3>3. ASSUME NEW j \in Ids' PROVE i \notin nodes'[j].deps
      BY <2>1, <2>2, <3>2 DEF Moved
    <3>4. nodes'[i].task = "none" /\ nodes'[i].answer = "error"
      BY <2>2, <3>1 DEF SameNode, SameWork
    <3> QED  BY <2>2, <2>3, <3>3, <3>4 DEF Replaces
  <2>4. CASE f \in Ids
    <3>1. nodes[f].repairs # 0 /\ nodes'[f].repairs = nodes[f].repairs
          /\ nodes'[f].kind = nodes[f].kind
      BY <1>5, <2>2, <2>4 DEF SameNode
    <3>2. PICK e \in Ids : e = nodes[f].repairs
      BY <1>2, <2>4, <3>1
    <3>3. nodes[f].kind = "fix" /\ \A j \in Ids : e \notin nodes[j].deps
      BY <1>2, <2>4, <3>1, <3>2 DEF Replaces
    <3>4. ASSUME NEW j \in Ids' PROVE e \notin nodes'[j].deps
      BY <2>1, <2>2, <3>2, <3>3 DEF Moved
    <3> QED  BY <1>2, <2>4, <3>1, <3>2, <3>3, <3>4 DEF Replaces
  <2> QED  BY <2>1, <2>3, <2>4
<1>6. ASSUME NEW f \in Ids', nodes'[f].repairs # 0
      PROVE  Kept \/ Replaces(f)'
  BY <1>4, <1>5, <1>6, KeptOrGrown
<1> QED  BY <1>3, <1>6 DEF Replaced

LEMMA TrackedStep ==
  ASSUME Base, Next
  PROVE  Tracked'
<1> USE DEF Base, GraphInv, FlowInv
<1>0. \A i \in Ids : nodes[i].status = "running" <=> i \in inFlight
  BY DEF Tracked
<1>1. inFlight \subseteq Ids
  BY DEF TypeInv, TypeOK
<1>2. \A i \in chosen : i \in Ids /\ nodes[i].status = "pending"
  BY DEF Selected, Ready, Ids
<1> DEFINE P(j) == nodes'[j].status = "running" <=> j \in inFlight'
<1>3. Quiet => Tracked'
  BY <1>0 DEF Quiet, Tracked, Ids
<1>4. ASSUME Start, Started, NEW j \in Ids PROVE P(j)
  BY <1>0, <1>4 DEF Start, Started
<1>5. ASSUME NEW is, Moves(is, "skipped"), \A i \in is : nodes[i].status = "pending",
             inFlight' = inFlight, NEW j \in Ids
      PROVE  P(j)
  BY <1>0, <1>5 DEF Moves, Restated, Ids
<1>6. ASSUME SkipBlocked, Moves(Blocked(nodes), "skipped"), NEW j \in Ids PROVE P(j)
  <2>1. \A i \in Blocked(nodes) : nodes[i].status = "pending"
    BY DEF Blocked
  <2> QED  BY <1>5, <1>6, <2>1 DEF SkipBlocked
<1>7. ASSUME Close, Moves(Unstarted, "skipped"), NEW j \in Ids PROVE P(j)
  <2>1. \A i \in Unstarted : nodes[i].status = "pending"
    BY DEF Unstarted
  <2> QED  BY <1>5, <1>7, <2>1 DEF Close
<1>8. ASSUME Drain, Moves(Late, "error"), NEW j \in Ids PROVE P(j)
  <2>1. inFlight' = inFlight \ Late
    BY <1>8 DEF Drain, Late
  <2>2. CASE j \in Late
    BY <1>8, <2>1, <2>2 DEF Moves, Restated, Ids
  <2>3. CASE j \notin Late
    BY <1>0, <1>8, <2>1, <2>3 DEF Moves, Restated, Ids
  <2> QED  BY <2>2, <2>3
<1>9. ASSUME NEW i \in Ids, NEW s \in {"pending", "error", "done"}, NEW is,
             is = {i} \/ is = Finished(i), Settled(i, is, s), NEW j \in Ids
      PROVE  P(j)
  <2>1. inFlight' = inFlight \ {i}
    BY <1>9 DEF Settled, Settling
  <2>2. CASE j \in is
    <3>1. j = i \/ nodes[j].status = "error"
      BY <1>9, <2>2 DEF Finished
    <3> QED  BY <1>0, <1>9, <2>1, <2>2, <3>1 DEF Settled, Restated, Ids
  <2>3. CASE j \notin is
    <3>1. j # i
      BY <1>9, <2>3 DEF Finished
    <3> QED  BY <1>0, <1>9, <2>1, <2>3, <3>1 DEF Settled, Restated, Ids
  <2> QED  BY <2>2, <2>3
<1>10. ASSUME NEW i \in Ids, NEW w \in Ids, SpawnRework(i), Reworked(i, w), NEW j \in Ids'
       PROVE  P(j)
  <2> DEFINE r == Len(nodes) + 1
  <2>1. Ids' = Ids \cup {r, r + 1} /\ r \notin Ids /\ r + 1 \notin Ids
    BY <1>10, ReworkIds
  <2>2. nodes'[r].status = "pending" /\ nodes'[r + 1].status = "pending"
    BY <1>10 DEF Reworked, Fresh
  <2>3. /\ \A k \in Finished(i) : nodes'[k].status = "done" \/ k \notin Ids
        /\ \A k \in Ids : k \notin Finished(i) => nodes'[k].status = nodes[k].status
    BY <1>10 DEF Reworked
  <2> HIDE DEF r
  <2>4. inFlight' = inFlight \ {i}
    BY <1>10 DEF SpawnRework, Settling
  <2>5. CASE j \in Ids /\ j \in Finished(i)
    <3>1. j = i \/ nodes[j].status = "error"
      BY <2>5 DEF Finished
    <3> QED  BY <1>0, <2>3, <2>4, <2>5, <3>1
  <2>6. CASE j \in Ids /\ j \notin Finished(i)
    <3>1. j # i
      BY <2>6 DEF Finished
    <3> QED  BY <1>0, <2>3, <2>4, <2>6, <3>1
  <2> QED  BY <1>1, <2>1, <2>2, <2>4, <2>5, <2>6
<1>11. ASSUME NEW i \in Ids, SpawnFix(i), FixedUp(i), NEW j \in Ids'
       PROVE  P(j)
  <2>1. inFlight' = inFlight \ {i}
    BY <1>11 DEF SpawnFix, Settling
  <2> QED  BY <1>0, <1>1, <1>11, <2>1, FixIds DEF FixedUp, Fresh
<1>12. ASSUME NEW i \in Ids, NEW t, NEW a, Talked(i, t, a), NEW j \in Ids
       PROVE  P(j)
  BY <1>0, <1>12 DEF Talked, Worked, Ids
<1>13. Kept => Ids' = Ids
  BY KeptRoles
<1>14. CASE Kept
  <2>1. ASSUME NEW j \in Ids, ~Quiet PROVE P(j)
    <3>1. ASSUME NEW i \in Ids
          PROVE  /\ Settled(i, Finished(i), "done") => P(j)
                 /\ Settled(i, {i}, "pending") => P(j)
                 /\ Settled(i, {i}, "error") => P(j)
      BY <1>9
    <3>2. ASSUME NEW i \in Ids, NEW w \in Ids, SpawnRework(i), Reworked(i, w) PROVE P(j)
      BY <1>10, <1>13, <1>14, <3>2
    <3>3. ASSUME NEW i \in Ids, SpawnFix(i), FixedUp(i) PROVE P(j)
      BY <1>11, <1>13, <1>14, <3>3
    <3> QED  BY <1>4, <1>6, <1>7, <1>8, <1>12, <2>1, <3>1, <3>2, <3>3, StepFacts
  <2> QED  BY <1>3, <1>13, <1>14, <2>1 DEF Tracked
<1>15. ASSUME ~Kept, NEW j \in Ids' PROVE P(j)
  BY <1>10, <1>11, <1>15, KeptOrGrown
<1> QED  BY <1>14, <1>15 DEF Tracked

LEMMA DepsDoneStep ==
  ASSUME Base, Next
  PROVE  DepsDone'
<1> USE DEF Base, GraphInv, FlowInv
<1>0. \A j \in Ids : nodes[j].deps \subseteq Ids
  BY NodeFields
<1>1. ASSUME NEW j \in Ids, nodes'[j].status \in {"running", "done", "error"}
      PROVE  \A d \in nodes[j].deps : nodes[d].status = "done" /\ nodes'[d].status = "done"
  <2>1. Passes(j)
    BY StatusSteps
  <2>2. nodes[j].status \in {"running", "done", "error"} \/ j \in Ready(nodes)
    BY <1>1, <2>1 DEF Passes, Selected
  <2>3. \A d \in nodes[j].deps : nodes[d].status = "done"
    BY <2>2 DEF DepsDone, Ready
  <2>4. \A d \in nodes[j].deps : Passes(d)
    BY <1>0, StatusSteps
  <2> QED  BY <2>3, <2>4 DEF Passes
<1>2. CASE Kept
  BY <1>1, <1>2, KeptRoles DEF DepsDone, SameRole
<1>3. \A i \in inFlight : nodes[i].status = "running"
  BY DEF Tracked, TypeInv, TypeOK
<1>4. ASSUME NEW i \in Ids, NEW w \in Ids, SpawnRework(i), Reworked(i, w),
             NEW j \in Ids', nodes'[j].status \in {"running", "done", "error"},
             NEW d \in nodes'[j].deps
      PROVE  nodes'[d].status = "done"
  <2>1. j \in Ids
    BY <1>4, ReworkIds DEF Reworked, Fresh
  <2>2. nodes[i].status = "running"
    BY <1>3, <1>4 DEF SpawnRework, Settling
  <2>3. i \notin nodes[j].deps
    BY <1>1, <1>4, <2>1, <2>2
  <2>4. nodes'[j].deps = nodes[j].deps
    BY <1>4, <2>1, <2>3 DEF Reworked, Moved
  <2> QED  BY <1>1, <1>4, <2>1, <2>4
<1>5. ASSUME NEW i \in Ids, SpawnFix(i), FixedUp(i),
             NEW j \in Ids', nodes'[j].status \in {"running", "done", "error"},
             NEW d \in nodes'[j].deps
      PROVE  nodes'[d].status = "done"
  <2>1. j \in Ids
    BY <1>5, FixIds DEF FixedUp, Fresh
  <2>2. nodes[i].status = "running"
    BY <1>3, <1>5 DEF SpawnFix, Settling
  <2>3. i \notin nodes[j].deps
    BY <1>1, <1>5, <2>1, <2>2
  <2>4. nodes'[j].deps = nodes[j].deps
    BY <1>5, <2>1, <2>3 DEF FixedUp, Moved
  <2> QED  BY <1>1, <1>5, <2>1, <2>4
<1>6. ASSUME ~Kept, NEW j \in Ids', nodes'[j].status \in {"running", "done", "error"},
             NEW d \in nodes'[j].deps
      PROVE  nodes'[d].status = "done"
  BY <1>4, <1>5, <1>6, KeptOrGrown
<1> QED  BY <1>2, <1>6 DEF DepsDone

(* Settling a node happens outside an admission.                           *)
LEMMA SettlesOutside ==
  ASSUME NEW i \in Ids, Settle(i)
  PROVE  Settling(i)
BY DEF Settle, Succeed, AcceptFindings, SpawnRework, Retry, SpawnFix, Fail

LEMMA SelectedStep ==
  ASSUME Base, Next
  PROVE  Selected'
<1> USE DEF Base, GraphInv, FlowInv
<1>0. chosen \subseteq Ready(nodes) /\ (chosen # {} => pc = "admitted")
  BY DEF Selected
<1>1. CASE chosen' = {}
  BY <1>1 DEF Selected
<1>2. CASE Admit
  <2>1. chosen' \subseteq Selection /\ pc' = "admitted" /\ nodes' = nodes
    BY <1>2 DEF Admit
  <2>2. Selection \subseteq Ready(nodes)
    BY SelectionReady
  <2> QED  BY <2>1, <2>2 DEF Selected, Ready
<1>3. CASE Cancel
  BY <1>0, <1>3 DEF Cancel, Selected, Ready
<1>4. ASSUME NEW i \in Ids, Tentacle(i) PROVE Selected'
  <2>1. PICK t \in Tasks, a \in Replies : Talked(i, t, a)
    BY <1>4, TalkFacts
  <2>2. /\ Len(nodes') = Len(nodes)
        /\ \A j \in Ids : nodes'[j].status = nodes[j].status /\ nodes'[j].deps = nodes[j].deps
    BY <2>1 DEF Talked, Worked, SameShape, SameRole, Ids
  <2>3. \A j \in Ids : nodes[j].deps \subseteq Ids
    BY NodeFields
  <2>4. Ready(nodes)' = Ready(nodes)
    <3>1. \A j \in Ids : (\A d \in nodes'[j].deps : nodes'[d].status = "done")
                    <=> (\A d \in nodes[j].deps : nodes[d].status = "done")
      BY <2>2, <2>3
    <3> QED  BY <2>2, <3>1 DEF Ready, Ids
  <2> QED  BY <1>0, <2>1, <2>4 DEF Talked, Selected
<1>5. CASE LeaveSettled \/ LeaveAtCap \/ LeaveCancelled
  BY <1>0, <1>1, <1>5 DEF LeaveSettled, LeaveAtCap, LeaveCancelled
<1>6. CASE Start
  BY <1>1, <1>6 DEF Start
<1>7. CASE SkipBlocked \/ BailOut
  BY <1>1, <1>7 DEF SkipBlocked, BailOut
<1>8. CASE Drain \/ Close
  BY <1>0, <1>1, <1>8 DEF Drain, Close
<1>9. ASSUME NEW i \in Ids, Settle(i) PROVE Selected'
  <2>1. Settling(i)
    BY <1>9, SettlesOutside
  <2> QED  BY <1>0, <1>1, <2>1 DEF Settling
<1> QED
  BY <1>2, <1>3, <1>4, <1>5, <1>6, <1>7, <1>8, <1>9, StepKinds DEF QuietStep

LEMMA DrainCancelledStep ==
  ASSUME Base, Next
  PROVE  DrainCancelled'
<1> USE DEF Base, GraphInv, FlowInv
<1>0. pc \in {"drain", "draining"} => aborted = "yes"
  BY DEF DrainCancelled
<1>1. CASE QuietStep
  BY <1>0, <1>1 DEF QuietStep, LeaveSettled, LeaveAtCap, LeaveCancelled, Admit, BailOut,
                    Cancel, DrainCancelled
<1>2. CASE Start \/ SkipBlocked \/ Drain \/ Close
  BY <1>0, <1>2 DEF Start, SkipBlocked, Drain, Close, DrainCancelled
<1>3. ASSUME NEW i \in Ids, Settle(i) PROVE DrainCancelled'
  <2>1. Settling(i)
    BY <1>3, SettlesOutside
  <2> QED  BY <1>0, <2>1 DEF Settling, DrainCancelled
<1>4. ASSUME NEW i \in Ids, Tentacle(i) PROVE DrainCancelled'
  BY <1>0, <1>4, TalkFacts DEF Talked, DrainCancelled
<1> QED  BY <1>1, <1>2, <1>3, <1>4, StepKinds

LEMMA BaseStep ==
  ASSUME Base, Next
  PROVE  Base'
BY TypeStep, AcyclicStep, OneJudgedStep, RootedStep, ReplacedStep, TrackedStep, DepsDoneStep,
   MannedStep, SelectedStep, DrainCancelledStep DEF Base, GraphInv, FlowInv

-----------------------------------------------------------------------------
(*                         Writers kept apart                              *)

LEMMA ParallelKept ==
  ASSUME TypeInv, OneJudged, Manned, Next, NEW i \in Ids, NEW j \in Ids
  PROVE  CanRunParallel(nodes'[i], nodes'[j]) <=> CanRunParallel(nodes[i], nodes[j])
<1>1. /\ nodes'[i].kind = nodes[i].kind /\ nodes'[i].scope = nodes[i].scope
      /\ nodes'[j].kind = nodes[j].kind /\ nodes'[j].scope = nodes[j].scope
  BY KeptOrGrown, KeptRoles DEF SameRole, Reworked, FixedUp, SameNode
<1> QED  BY <1>1 DEF CanRunParallel

LEMMA RunnersStep ==
  ASSUME Base, Together, WritersApart, Next
  PROVE  Together' /\ WritersApart'
<1> USE DEF Base, GraphInv, FlowInv
<1>0. inFlight \subseteq Ids /\ chosen \subseteq Ids
  BY DEF TypeInv, TypeOK
<1>1. /\ \A i, j \in inFlight \cup chosen : i # j => CanRunParallel(nodes[i], nodes[j])
      /\ pc \notin {"draining", "over"} => \A i \in Ids : Running(i) => i \in inFlight
  BY DEF Together
<1>2. \A i, j \in inFlight' \cup chosen' :
        i \in Ids /\ j \in Ids /\ (i # j => CanRunParallel(nodes'[i], nodes'[j]))
  <2>1. ASSUME inFlight' \cup chosen' \subseteq inFlight \cup chosen,
               NEW i \in inFlight' \cup chosen', NEW j \in inFlight' \cup chosen'
        PROVE  i \in Ids /\ j \in Ids /\ (i # j => CanRunParallel(nodes'[i], nodes'[j]))
    BY <1>0, <1>1, <2>1, ParallelKept
  <2>2. CASE Admit
    <3>1. chosen' \subseteq Selection /\ inFlight' = inFlight /\ nodes' = nodes /\ chosen = {}
      BY <2>2 DEF Admit, Selected
    <3>2. FitSelection(Selection)
      BY SelectionFits
    <3>3. Selection \subseteq Ids
      BY SelectionReady DEF Ready, Ids
    <3>4. ASSUME NEW i \in inFlight \cup Selection, NEW j \in inFlight \cup Selection, i # j
          PROVE  CanRunParallel(nodes[i], nodes[j])
      <4>1. CASE i \in Selection
        BY <3>2, <3>4, <4>1 DEF FitSelection
      <4>2. CASE j \in Selection
        BY <3>2, <3>4, <4>2, ParallelSymmetric DEF FitSelection
      <4>3. CASE i \in inFlight /\ j \in inFlight
        BY <1>1, <3>4, <4>3
      <4> QED  BY <4>1, <4>2, <4>3
    <3> QED  BY <1>0, <3>1, <3>3, <3>4
  <2>3. CASE inFlight' \cup chosen' \subseteq inFlight \cup chosen
    BY <2>1, <2>3
  <2>4. QuietStep => Admit \/ inFlight' \cup chosen' \subseteq inFlight \cup chosen
    BY DEF QuietStep, LeaveSettled, LeaveAtCap, LeaveCancelled, BailOut, Cancel
  <2>5. Start \/ SkipBlocked \/ Drain \/ Close =>
          inFlight' \cup chosen' \subseteq inFlight \cup chosen
    BY DEF Start, SkipBlocked, Drain, Close
  <2>6. ASSUME NEW i \in Ids, Settle(i)
        PROVE  inFlight' \cup chosen' \subseteq inFlight \cup chosen
    BY <2>6, SettlesOutside DEF Settling
  <2>7. ASSUME NEW i \in Ids, Tentacle(i)
        PROVE  inFlight' \cup chosen' \subseteq inFlight \cup chosen
    BY <2>7, TalkFacts DEF Talked
  <2> QED  BY <2>2, <2>3, <2>4, <2>5, <2>6, <2>7, StepKinds
<1>3. \A i \in Ids' : Running(i)' => i \in Ids /\ (Running(i) \/ (i \in chosen /\ Start))
  <2>1. ASSUME NEW i \in Ids, Running(i)', ~Running(i)
        PROVE  i \in chosen /\ Start
    <3>1. Works(i)
      BY WorkSteps
    <3>2. i \in chosen /\ nodes'[i].status = "running" /\ nodes'[i].task = "works"
      BY <2>1, <3>1 DEF Works, Running, SameWork, TalkStep
    <3>3. nodes[i].status = "pending" /\ pc = "admitted" /\ chosen # {}
      BY <3>2 DEF Selected, Ready
    <3>4. inFlight \cup chosen # {}
      BY <3>2
    <3>5. ~Quiet
      BY <3>2, <3>3 DEF Quiet
    <3>6. ~SkipBlocked /\ ~Drain /\ ~Close
      BY <3>3, <3>4 DEF SkipBlocked, Drain, Close
    <3>7. ASSUME NEW j \in Ids, Settle(j) PROVE FALSE
      BY <3>3, <3>7, SettlesOutside DEF Settling
    <3>8. ASSUME NEW j \in Ids, NEW t, NEW a, Talked(j, t, a) PROVE FALSE
      BY <3>2, <3>3, <3>8 DEF Talked, Worked, Ids
    <3> QED  BY <3>2, <3>5, <3>6, <3>7, <3>8, StepKinds, QuietFacts, TalkFacts
  <2>2. ASSUME NEW i \in Ids', Running(i)' PROVE i \in Ids
    <3>1. ASSUME NEW j \in Ids, NEW w \in Ids, Reworked(j, w) PROVE i \in Ids
      BY <2>2, <3>1, ReworkIds DEF Reworked, Fresh, Running
    <3>2. ASSUME NEW j \in Ids, FixedUp(j) PROVE i \in Ids
      BY <2>2, <3>2, FixIds DEF FixedUp, Fresh, Running
    <3> QED  BY <2>2, <3>1, <3>2, KeptOrGrown, KeptRoles
  <2> QED  BY <2>1, <2>2
<1>4. pc' \notin {"draining", "over"} => \A i \in Ids' : Running(i)' => i \in inFlight'
  <2>1. SUFFICES ASSUME pc' \notin {"draining", "over"}, NEW i \in Ids', Running(i)'
                 PROVE  i \in inFlight'
    OBVIOUS
  <2>2. i \in Ids /\ (Running(i) \/ (i \in chosen /\ Start))
    BY <1>3, <2>1
  <2>3. CASE Start
    <3>1. pc = "admitted" /\ inFlight' = inFlight \cup chosen
      BY <2>3 DEF Start
    <3> QED  BY <1>1, <2>2, <3>1
  <2>4. CASE ~Start
    <3>1. Running(i)
      BY <2>2, <2>4
    <3>2. QuietStep \/ SkipBlocked \/ Drain \/ Close =>
            pc \notin {"draining", "over"} /\ inFlight' = inFlight
      BY <2>1, QuietFacts
         DEF QuietStep, Quiet, LeaveSettled, LeaveAtCap, LeaveCancelled, Admit, BailOut,
             Cancel, SkipBlocked, Drain, Close
    <3>3. ASSUME NEW j \in Ids, Settle(j) PROVE i \in inFlight'
      <4>1. pc = "wait" /\ inFlight' = inFlight \ {j}
        BY <2>1, <3>3, SettlesOutside DEF Settling
      <4>2. i \in inFlight
        BY <1>1, <2>2, <3>1, <4>1
      <4>3. nodes[j].answer # "none"
        BY <3>3, SettlesOutside DEF Settling
      <4>4. nodes[i].answer = "none"
        BY <2>2, <3>1 DEF Manned, Running
      <4> QED  BY <4>1, <4>2, <4>3, <4>4
    <3>4. ASSUME NEW j \in Ids, Tentacle(j) PROVE i \in inFlight'
      BY <1>1, <2>1, <2>2, <3>1, <3>4, TalkFacts DEF Talked
    <3> QED  BY <1>1, <2>2, <2>4, <3>1, <3>2, <3>3, <3>4, StepKinds
  <2> QED  BY <2>3, <2>4
<1>5. Together'
  <2>1. \A i, j \in inFlight' \cup chosen' : i # j => CanRunParallel(nodes'[i], nodes'[j])
    BY <1>2
  <2> QED  BY <1>4, <2>1 DEF Together
<1>6. ASSUME NEW i \in Ids', NEW j \in Ids', i # j, Running(i)', Running(j)'
      PROVE  CanRunParallel(nodes'[i], nodes'[j])
  <2>1. /\ i \in Ids /\ (Running(i) \/ (i \in chosen /\ Start))
        /\ j \in Ids /\ (Running(j) \/ (j \in chosen /\ Start))
    BY <1>3, <1>6
  <2>2. CanRunParallel(nodes[i], nodes[j])
    <3>1. CASE Running(i) /\ Running(j)
      BY <1>6, <2>1, <3>1 DEF WritersApart
    <3>2. CASE Start
      <4>1. pc = "admitted"
        BY <3>2 DEF Start
      <4>2. i \in inFlight \cup chosen /\ j \in inFlight \cup chosen
        BY <1>1, <2>1, <4>1
      <4> QED  BY <1>1, <1>6, <4>2
    <3> QED  BY <2>1, <3>1, <3>2
  <2> QED  BY <2>1, <2>2, ParallelKept
<1> QED  BY <1>5, <1>6 DEF WritersApart

-----------------------------------------------------------------------------
(*                          Spawns bounded                                 *)

FixNodes == {i \in Ids : nodes[i].repairs # 0}

LEMMA IdsFinite ==
  ASSUME TypeInv
  PROVE  /\ IsFiniteSet(Ids)
         /\ \A S \in SUBSET Ids : IsFiniteSet(S) /\ Cardinality(S) \in Nat
<1>1. IsFiniteSet(Ids)
  BY Typed, FS_Interval DEF TypeInv, Ids
<1> QED  BY <1>1, FS_Subset, FS_CardinalityType

LEMMA CountedStep ==
  ASSUME Base, Counted, Next
  PROVE  Counted'
<1> USE DEF Base, GraphInv, FlowInv
<1>0. PICK num \in [Ids -> Nat] : Numbering(num)
  BY DEF Counted
<1>1. Cardinality(FixNodes) + fixLeft = opts.fixes
  BY DEF Counted, FixNodes
<1>2. IsFiniteSet(FixNodes) /\ Cardinality(FixNodes) \in Nat
  BY IdsFinite DEF FixNodes
<1>3. \A j \in Ids : nodes[j].lineage \in Ids /\ nodes[j].rounds \in Nat
  BY NodeFields
<1>4. /\ \A r \in Ids : IsRework(nodes, r) => num[r] \in 1 .. nodes[nodes[r].lineage].rounds
      /\ \A r, s \in Ids :
           /\ IsRework(nodes, r) /\ IsRework(nodes, s) /\ r # s
           /\ nodes[r].lineage = nodes[s].lineage
           => num[r] # num[s]
  BY <1>0 DEF Numbering
<1>5. CASE Kept
  <2>1. Ids' = Ids /\ \A j \in Ids : SameRole(nodes'[j], nodes[j])
    BY <1>5, KeptRoles
  <2>2. Numbering(num)'
    BY <1>3, <1>4, <2>1 DEF Numbering, IsRework, SameRole
  <2>3. FixNodes' = FixNodes
    BY <2>1 DEF FixNodes, SameRole
  <2>4. Cardinality(FixNodes') + fixLeft' = opts'.fixes
    BY <1>1, <1>5, <2>3 DEF Kept
  <2> QED  BY <1>0, <2>1, <2>2, <2>4 DEF Counted, FixNodes
<1>6. ASSUME NEW i \in Ids, NEW w \in Ids, SpawnRework(i), Reworked(i, w)
      PROVE  Counted'
  <2> DEFINE r == Len(nodes) + 1
  <2>1. Ids' = Ids \cup {r, r + 1} /\ r \notin Ids /\ r + 1 \notin Ids /\ r # r + 1
    BY <1>6, ReworkIds
  <2>2. PICK root \in Ids : root = nodes[w].lineage
    BY <1>3
  <2>3. /\ nodes'[r].repairs = 0 /\ nodes'[r].lineage = root
        /\ nodes'[r + 1].repairs = 0 /\ nodes'[r + 1].lineage = r + 1
        /\ \A j \in Ids :
             /\ nodes'[j].lineage = nodes[j].lineage /\ nodes'[j].repairs = nodes[j].repairs
             /\ j = root => nodes'[j].rounds = nodes[j].rounds + 1
             /\ j # root => nodes'[j].rounds = nodes[j].rounds
    BY <1>6, <2>2 DEF Reworked, Fresh, SameNode
  <2> HIDE DEF r
  <2>4. PICK k \in Nat : k = nodes[root].rounds + 1
    BY <1>3
  <2>5. PICK new : new = [j \in Ids' |-> IF j = r THEN k ELSE IF j = r + 1 THEN 0 ELSE num[j]]
    OBVIOUS
  <2>6. new \in [Ids' -> Nat] /\ new[r] = k /\ \A j \in Ids : new[j] = num[j]
    BY <1>0, <2>1, <2>4, <2>5
  <2>7. ASSUME NEW x \in Ids', nodes'[x].lineage # x
        PROVE  new[x] \in 1 .. nodes'[nodes'[x].lineage].rounds
    <3>1. CASE x = r
      <4>1. nodes'[nodes'[x].lineage].rounds = k
        BY <2>3, <2>4, <3>1
      <4>2. k >= 1
        BY <1>3, <2>4
      <4> QED  BY <2>4, <2>6, <3>1, <4>1, <4>2
    <3>2. CASE x \in Ids
      <4>1. PICK y \in Ids : y = nodes[x].lineage
        BY <1>3, <3>2
      <4>2. num[x] \in 1 .. nodes[y].rounds
        BY <1>4, <2>3, <2>7, <3>2, <4>1 DEF IsRework
      <4>3. nodes'[nodes'[x].lineage].rounds \in {nodes[y].rounds, nodes[y].rounds + 1}
        BY <2>3, <3>2, <4>1
      <4>4. nodes[y].rounds \in Nat
        BY <1>3
      <4> QED  BY <2>6, <3>2, <4>2, <4>3, <4>4
    <3> QED  BY <2>1, <2>3, <2>7, <3>1, <3>2
  <2>8. ASSUME NEW x \in Ids', NEW y \in Ids', nodes'[x].lineage # x, nodes'[y].lineage # y,
               x # y, nodes'[x].lineage = nodes'[y].lineage
        PROVE  new[x] # new[y]
    <3>1. ASSUME NEW z \in Ids, nodes[z].lineage # z, nodes[z].lineage = root
          PROVE  num[z] # k
      <4>1. num[z] \in 1 .. nodes[root].rounds
        BY <1>4, <3>1 DEF IsRework
      <4> QED  BY <1>3, <2>4, <4>1
    <3>2. x # r + 1 /\ y # r + 1
      BY <2>3, <2>8
    <3>3. CASE x = r
      BY <2>1, <2>3, <2>6, <2>8, <3>1, <3>2, <3>3
    <3>4. CASE y = r
      BY <2>1, <2>3, <2>6, <2>8, <3>1, <3>2, <3>4
    <3>5. CASE x \in Ids /\ y \in Ids
      BY <1>4, <2>3, <2>6, <2>8, <3>5 DEF IsRework
    <3> QED  BY <2>1, <3>2, <3>3, <3>4, <3>5
  <2>9. Numbering(new)'
    BY <2>7, <2>8 DEF Numbering, IsRework
  <2>10. FixNodes' = FixNodes
    BY <2>1, <2>3 DEF FixNodes
  <2>11. Cardinality(FixNodes') + fixLeft' = opts'.fixes
    BY <1>1, <1>6, <2>10 DEF SpawnRework, Settling
  <2>12. new \in [Ids -> Nat]'
    BY <2>6
  <2>13. \E f \in [Ids -> Nat]' : Numbering(f)'
    BY <2>9, <2>12
  <2> QED  BY <2>11, <2>13 DEF Counted, FixNodes
<1>7. ASSUME NEW i \in Ids, SpawnFix(i), FixedUp(i)
      PROVE  Counted'
  <2> DEFINE f == Len(nodes) + 1
  <2>1. Ids' = Ids \cup {f} /\ f \notin Ids
    BY <1>7, FixIds
  <2>2. /\ nodes'[f].repairs = i /\ nodes'[f].lineage = f
        /\ \A j \in Ids :
             /\ nodes'[j].lineage = nodes[j].lineage /\ nodes'[j].repairs = nodes[j].repairs
             /\ nodes'[j].rounds = nodes[j].rounds
    BY <1>7 DEF FixedUp, Fresh, SameNode
  <2>3. i # 0
    BY DEF Ids
  <2> HIDE DEF f
  <2>4. PICK new : new = [j \in Ids' |-> IF j = f THEN 0 ELSE num[j]]
    OBVIOUS
  <2>5. new \in [Ids' -> Nat] /\ \A j \in Ids : new[j] = num[j]
    BY <1>0, <2>1, <2>4
  <2>6. Numbering(new)'
    BY <1>3, <1>4, <2>1, <2>2, <2>5 DEF Numbering, IsRework
  <2>7. FixNodes' = FixNodes \cup {f}
    BY <2>1, <2>2, <2>3 DEF FixNodes
  <2>8. Cardinality(FixNodes') = Cardinality(FixNodes) + 1
    BY <1>2, <2>1, <2>7, FS_AddElement DEF FixNodes
  <2>9. fixLeft' = fixLeft - 1 /\ opts' = opts
    BY <1>7 DEF SpawnFix, Settling
  <2>10. Cardinality(FixNodes') + fixLeft' = opts'.fixes
    BY <1>1, <1>2, <2>8, <2>9, LimitTypes
  <2>11. new \in [Ids -> Nat]'
    BY <2>5
  <2>12. \E g \in [Ids -> Nat]' : Numbering(g)'
    BY <2>6, <2>11
  <2> QED  BY <2>10, <2>12 DEF Counted, FixNodes
<1> QED  BY <1>5, <1>6, <1>7, KeptOrGrown

LEMMA CountedBounds ==
  ASSUME TypeInv, Counted
  PROVE  RoundsKept /\ FixesKept
<1>1. PICK num \in [Ids -> Nat] : Numbering(num)
  BY DEF Counted
<1>2. ASSUME NEW w \in Ids
      PROVE  Cardinality({r \in Ids : IsRework(nodes, r) /\ nodes[r].lineage = w}) <= opts.rounds
  <2>1. PICK R : R = {r \in Ids : IsRework(nodes, r) /\ nodes[r].lineage = w}
    OBVIOUS
  <2>2. PICK b \in Nat : b = opts.rounds
    BY LimitTypes
  <2>3. IsFiniteSet(1 .. b) /\ Cardinality(1 .. b) = b
    <3>1. 1 \in Int /\ b \in Int
      BY <2>2
    <3>2. IsFiniteSet(1 .. b) /\ Cardinality(1 .. b) = IF 1 > b THEN 0 ELSE b - 1 + 1
      BY <3>1, FS_Interval
    <3> QED  BY <3>2, <2>2
  <2>4. PICK f : f = [r \in R |-> num[r]]
    OBVIOUS
  <2>5. ASSUME NEW r \in R PROVE num[r] \in 1 .. b
    <3>1. num[r] \in 1 .. nodes[w].rounds /\ nodes[w].rounds \in 0 .. b
      BY <1>1, <2>1, <2>2, NodeFields DEF Numbering
    <3> QED  BY <2>2, <3>1
  <2>6. f \in [R -> 1 .. b]
    BY <2>4, <2>5
  <2>7. ASSUME NEW r \in R, NEW s \in R, f[r] = f[s] PROVE r = s
    <3>1. num[r] = num[s]
      BY <2>4, <2>7
    <3> QED  BY <1>1, <2>1, <3>1 DEF Numbering
  <2>8. f \in Injection(R, 1 .. b)
    BY <2>6, <2>7 DEF Injection, IsInjective
  <2>9. Cardinality(R) <= Cardinality(1 .. b)
    BY <2>3, <2>8, FS_Injection
  <2> QED  BY <2>1, <2>2, <2>3, <2>9
<1>3. FixesKept
  <2>1. Cardinality(FixNodes) + fixLeft = opts.fixes /\ Cardinality(FixNodes) \in Nat
    BY IdsFinite DEF Counted, FixNodes
  <2>2. Cardinality(FixNodes) <= opts.fixes
    BY <2>1, LimitTypes
  <2> QED  BY <2>2 DEF FixesKept, FixNodes
<1> QED  BY <1>2, <1>3 DEF RoundsKept

-----------------------------------------------------------------------------
(*                       Verdicts before merges                            *)

LEMMA AwaitedStep ==
  ASSUME Base, Awaited, Next
  PROVE  Awaited'
<1> USE DEF Base, GraphInv, FlowInv
<1> DEFINE Waits == {"pending", "running", "skipped"}
<1>1. ASSUME NEW m \in Ids, NEW v \in Ids, nodes[m].kind = "merge", nodes[v].kind = "verify",
             nodes'[v].status \in Waits
      PROVE  v \in nodes[m].deps
  <2>1. nodes[v].status \in Waits
    BY <1>1, StatusSteps DEF Passes
  <2> QED  BY <1>1, <2>1 DEF Awaited
<1>2. \A i \in inFlight : nodes[i].status = "running"
  BY DEF Tracked, TypeInv, TypeOK
<1>3. CASE Kept
  BY <1>1, <1>3, KeptRoles DEF Awaited, SameRole
<1>4. ASSUME NEW i \in Ids, NEW w \in Ids, SpawnRework(i), Reworked(i, w),
             NEW m \in Ids', NEW v \in Ids', nodes'[m].kind = "merge", nodes'[v].kind = "verify",
             nodes'[v].status \in Waits
      PROVE  v \in nodes'[m].deps
  <2> DEFINE r == Len(nodes) + 1
  <2>1. Ids' = Ids \cup {r, r + 1}
    BY <1>4, ReworkIds
  <2>2. /\ nodes'[r].kind = "fix" /\ nodes'[r + 1].kind = "verify" /\ nodes[i].kind = "verify"
        /\ \A j \in Ids : Moved(nodes'[j], nodes[j], i, r + 1) /\ nodes'[j].kind = nodes[j].kind
        /\ nodes'[i].status = "done"
    BY <1>4 DEF Reworked, Fresh, SameNode, Finished
  <2> HIDE DEF r
  <2>3. m \in Ids /\ nodes[m].kind = "merge"
    BY <1>4, <2>1, <2>2
  <2>4. CASE v = r + 1
    <3>1. nodes[i].status = "running"
      BY <1>2, <1>4 DEF SpawnRework, Settling
    <3>2. i \in nodes[m].deps
      BY <2>2, <2>3, <3>1 DEF Awaited
    <3> QED  BY <2>2, <2>3, <2>4, <3>2 DEF Moved
  <2>5. CASE v \in Ids
    <3>1. v \in nodes[m].deps /\ v # i
      BY <1>1, <1>4, <2>2, <2>3, <2>5
    <3> QED  BY <2>2, <2>3, <3>1 DEF Moved
  <2> QED  BY <1>4, <2>1, <2>2, <2>4, <2>5
<1>5. ASSUME NEW i \in Ids, SpawnFix(i), FixedUp(i),
             NEW m \in Ids', NEW v \in Ids', nodes'[m].kind = "merge", nodes'[v].kind = "verify",
             nodes'[v].status \in Waits
      PROVE  v \in nodes'[m].deps
  <2> DEFINE f == Len(nodes) + 1
  <2>1. Ids' = Ids \cup {f}
    BY <1>5, FixIds
  <2>2. /\ nodes'[f].kind = "fix" /\ nodes'[i].status = "error"
        /\ \A j \in Ids : Moved(nodes'[j], nodes[j], i, f) /\ nodes'[j].kind = nodes[j].kind
    BY <1>5 DEF FixedUp, Fresh, SameNode
  <2> HIDE DEF f
  <2>3. m \in Ids /\ nodes[m].kind = "merge" /\ v \in Ids /\ nodes[v].kind = "verify"
    BY <1>5, <2>1, <2>2
  <2>4. v \in nodes[m].deps /\ v # i
    BY <1>1, <1>5, <2>2, <2>3
  <2> QED  BY <2>2, <2>3, <2>4 DEF Moved
<1>6. ASSUME ~Kept, NEW m \in Ids', NEW v \in Ids', nodes'[m].kind = "merge",
             nodes'[v].kind = "verify", nodes'[v].status \in Waits
      PROVE  v \in nodes'[m].deps
  BY <1>4, <1>5, <1>6, KeptOrGrown
<1> QED  BY <1>3, <1>6 DEF Awaited

(* The verify of rework r, as Rejudged has it.                             *)
JudgeOf(v, r) ==
  /\ nodes[v].kind = "verify" /\ nodes[v].deps = {r}
  /\ nodes[r].status \in {"pending", "running"} => nodes[v].status \in {"pending", "skipped"}

LEMMA RejudgedStep ==
  ASSUME Base, Rejudged, Next
  PROVE  Rejudged'
<1> USE DEF Base, GraphInv, FlowInv
<1>1. ASSUME NEW r \in Ids, IsRework(nodes, r)
      PROVE  \E v \in Ids :
               /\ nodes[v].kind = "verify" /\ nodes[v].deps = {r}
               /\ nodes'[r].status \in {"pending", "running"} =>
                    nodes'[v].status \in {"pending", "skipped"}
  <2>1. PICK v \in Ids : JudgeOf(v, r)
    BY <1>1 DEF Rejudged, JudgeOf
  <2>2. Passes(r) /\ Passes(v)
    BY StatusSteps
  <2>3. v \in chosen => nodes[r].status = "done"
    BY <2>1 DEF Selected, Ready, JudgeOf
  <2> QED  BY <2>1, <2>2, <2>3 DEF Passes, JudgeOf
<1>2. CASE Kept
  <2>1. Ids' = Ids /\ \A j \in Ids : SameRole(nodes'[j], nodes[j])
    BY <1>2, KeptRoles
  <2> QED  BY <1>1, <2>1 DEF Rejudged, IsRework, SameRole
<1>3. ASSUME NEW i \in Ids, NEW w \in Ids, SpawnRework(i), Reworked(i, w),
             NEW r \in Ids', IsRework(nodes', r)
      PROVE  \E v \in Ids' : JudgeOf(v, r)'
  <2> DEFINE n == Len(nodes) + 1
  <2>1. Ids' = Ids \cup {n, n + 1}
    BY <1>3, ReworkIds
  <2>2. /\ nodes'[n].kind = "fix" /\ nodes[i].kind = "verify"
        /\ nodes'[n + 1].kind = "verify" /\ nodes'[n + 1].deps = {n}
        /\ nodes'[n + 1].status = "pending" /\ nodes'[n + 1].lineage = n + 1
        /\ \A j \in Ids : Moved(nodes'[j], nodes[j], i, n + 1) /\ SameNode(nodes'[j], nodes[j])
    BY <1>3 DEF Reworked, Fresh
  <2> HIDE DEF n
  <2>3. CASE r = n
    BY <2>1, <2>2, <2>3 DEF JudgeOf
  <2>4. CASE r \in Ids
    <3>1. IsRework(nodes, r)
      BY <1>3, <2>2, <2>4 DEF IsRework, SameNode
    <3>2. r # i
      BY <2>2, <3>1 DEF Rooted
    <3>3. PICK v \in Ids :
            /\ nodes[v].kind = "verify" /\ nodes[v].deps = {r}
            /\ nodes'[r].status \in {"pending", "running"} =>
                 nodes'[v].status \in {"pending", "skipped"}
      BY <1>1, <2>4, <3>1
    <3>4. nodes'[v].kind = "verify" /\ nodes'[v].deps = {r}
      BY <2>2, <3>2, <3>3 DEF Moved, SameNode
    <3> QED  BY <2>1, <3>3, <3>4 DEF JudgeOf
  <2> QED  BY <1>3, <2>1, <2>2, <2>3, <2>4 DEF IsRework
<1>4. ASSUME NEW i \in Ids, SpawnFix(i), FixedUp(i), NEW r \in Ids', IsRework(nodes', r)
      PROVE  \E v \in Ids' : JudgeOf(v, r)'
  <2> DEFINE f == Len(nodes) + 1
  <2>1. Ids' = Ids \cup {f}
    BY <1>4, FixIds
  <2>2. /\ nodes'[f].lineage = f /\ nodes[i].kind # "fix"
        /\ \A j \in Ids : Moved(nodes'[j], nodes[j], i, f) /\ SameNode(nodes'[j], nodes[j])
    BY <1>4 DEF FixedUp, Fresh, SpawnFix, Fixable
  <2> HIDE DEF f
  <2>3. r \in Ids /\ IsRework(nodes, r)
    BY <1>4, <2>1, <2>2 DEF IsRework, SameNode
  <2>4. r # i
    BY <2>2, <2>3 DEF Rooted
  <2>5. PICK v \in Ids :
          /\ nodes[v].kind = "verify" /\ nodes[v].deps = {r}
          /\ nodes'[r].status \in {"pending", "running"} =>
               nodes'[v].status \in {"pending", "skipped"}
    BY <1>1, <2>3
  <2>6. nodes'[v].kind = "verify" /\ nodes'[v].deps = {r}
    BY <2>2, <2>4, <2>5 DEF Moved, SameNode
  <2> QED  BY <2>1, <2>5, <2>6 DEF JudgeOf
<1>5. ASSUME ~Kept, NEW r \in Ids', IsRework(nodes', r)
      PROVE  \E v \in Ids' : JudgeOf(v, r)'
  BY <1>3, <1>4, <1>5, KeptOrGrown
<1> QED  BY <1>2, <1>5 DEF Rejudged, JudgeOf

LEMMA VerdictsFirst ==
  ASSUME Base, Awaited, Rejudged
  PROVE  MergeAfterVerdicts
<1> USE DEF Base, GraphInv, FlowInv
<1> SUFFICES ASSUME NEW m \in Ids, NEW r \in Ids,
                    nodes[m].kind = "merge", nodes[m].status = "running",
                    IsRework(nodes, r), nodes[r].status \in {"pending", "running"}
             PROVE  FALSE
  BY DEF MergeAfterVerdicts
<1>1. PICK v \in Ids : nodes[v].kind = "verify" /\ nodes[v].status \in {"pending", "skipped"}
  BY DEF Rejudged
<1>2. v \in nodes[m].deps
  BY <1>1 DEF Awaited
<1>3. nodes[v].status = "done"
  BY <1>2 DEF DepsDone
<1> QED  BY <1>1, <1>3

-----------------------------------------------------------------------------
(*                     What is behind a node                               *)

Within(g, D) == {d \in D : g[d].kind # "merge"}

(* A set with the dependencies of its nodes, but for the merges.           *)
Closed(g, D) == \A x \in D : Within(g, g[x].deps) \subseteq D

Dag(g) ==
  /\ Len(g) \in Nat
  /\ \A j \in 1 .. Len(g) : g[j].deps \subseteq 1 .. Len(g)
  /\ \A S \in SUBSET (1 .. Len(g)) : S # {} => \E i \in S : g[i].deps \cap S = {}

(* The equation Behind's function is a solution of, and its least one.     *)
BehindEq(g, b) ==
  b = [j \in 1 .. Len(g) |->
         Within(g, g[j].deps) \cup UNION {b[d] : d \in Within(g, g[j].deps)}]

Reach(g, j) ==
  {d \in 1 .. Len(g) :
     \A D \in SUBSET (1 .. Len(g)) :
       Within(g, g[j].deps) \subseteq D /\ Closed(g, D) => d \in D}

LEMMA ReachClosed ==
  ASSUME NEW g, Dag(g), NEW j \in 1 .. Len(g)
  PROVE  /\ Reach(g, j) \subseteq 1 .. Len(g)
         /\ Within(g, g[j].deps) \subseteq Reach(g, j)
         /\ Closed(g, Reach(g, j))
         /\ \A D \in SUBSET (1 .. Len(g)) :
              Within(g, g[j].deps) \subseteq D /\ Closed(g, D) => Reach(g, j) \subseteq D
<1>1. \A x \in 1 .. Len(g) : Within(g, g[x].deps) \subseteq 1 .. Len(g)
  BY DEF Dag, Within
<1>2. Within(g, g[j].deps) \subseteq Reach(g, j)
  BY <1>1 DEF Reach
<1>3. ASSUME NEW x \in Reach(g, j), NEW y \in Within(g, g[x].deps) PROVE y \in Reach(g, j)
  <2>1. x \in 1 .. Len(g) /\ y \in 1 .. Len(g)
    BY <1>1, <1>3 DEF Reach
  <2>2. ASSUME NEW D \in SUBSET (1 .. Len(g)), Within(g, g[j].deps) \subseteq D, Closed(g, D)
        PROVE  y \in D
    BY <1>3, <2>2 DEF Reach, Closed
  <2> QED  BY <2>1, <2>2 DEF Reach
<1>4. Closed(g, Reach(g, j))
  BY <1>3 DEF Closed
<1> QED  BY <1>2, <1>4 DEF Reach

LEMMA ReachSolves ==
  ASSUME NEW g, Dag(g), NEW j \in 1 .. Len(g)
  PROVE  Reach(g, j) =
           Within(g, g[j].deps) \cup UNION {Reach(g, d) : d \in Within(g, g[j].deps)}
<1> DEFINE E == Within(g, g[j].deps) \cup UNION {Reach(g, d) : d \in Within(g, g[j].deps)}
<1>1. Within(g, g[j].deps) \subseteq 1 .. Len(g)
  BY DEF Dag, Within
<1>2. E \subseteq 1 .. Len(g)
  BY <1>1, ReachClosed
<1>3. ASSUME NEW x \in E, NEW y \in Within(g, g[x].deps) PROVE y \in E
  <2>1. CASE x \in Within(g, g[j].deps)
    <3>1. y \in Reach(g, x)
      BY <1>1, <1>3, <2>1, ReachClosed
    <3> QED  BY <2>1, <3>1
  <2>2. ASSUME NEW d \in Within(g, g[j].deps), x \in Reach(g, d) PROVE y \in E
    <3>1. Closed(g, Reach(g, d))
      BY <1>1, ReachClosed
    <3>2. y \in Reach(g, d)
      BY <1>3, <2>2, <3>1 DEF Closed
    <3> QED  BY <3>2
  <2> QED  BY <1>3, <2>1, <2>2
<1>4. Closed(g, E)
  BY <1>3 DEF Closed
<1>5. Reach(g, j) \subseteq E
  BY <1>2, <1>4, ReachClosed
<1>6. ASSUME NEW d \in Within(g, g[j].deps) PROVE Reach(g, d) \subseteq Reach(g, j)
  <2>1. d \in 1 .. Len(g)
    BY <1>1
  <2>2. /\ Reach(g, j) \in SUBSET (1 .. Len(g)) /\ Closed(g, Reach(g, j)) /\ d \in Reach(g, j)
    BY <1>6, ReachClosed
  <2>3. Within(g, g[d].deps) \subseteq Reach(g, j)
    BY <2>2 DEF Closed
  <2> QED  BY <2>1, <2>2, <2>3, ReachClosed
<1>7. E \subseteq Reach(g, j)
  BY <1>6, ReachClosed
<1> QED  BY <1>5, <1>7

LEMMA BehindReaches ==
  ASSUME NEW g, Dag(g), NEW i \in 1 .. Len(g)
  PROVE  Behind(g, i) = Reach(g, i)
<1>1. \E b : BehindEq(g, b)
  <2>1. PICK b : b = [j \in 1 .. Len(g) |-> Reach(g, j)]
    OBVIOUS
  <2>2. ASSUME NEW j \in 1 .. Len(g)
        PROVE  b[j] = Within(g, g[j].deps) \cup UNION {b[d] : d \in Within(g, g[j].deps)}
    <3>1. Within(g, g[j].deps) \subseteq 1 .. Len(g)
      BY DEF Dag, Within
    <3>2. \A d \in Within(g, g[j].deps) : b[d] = Reach(g, d)
      BY <2>1, <3>1
    <3>3. UNION {b[d] : d \in Within(g, g[j].deps)} = UNION {Reach(g, d) : d \in Within(g, g[j].deps)}
      BY <3>2, Zenon
    <3>4. b[j] = Reach(g, j)
      BY <2>1
    <3> QED  BY <3>3, <3>4, ReachSolves
  <2>3. b = [j \in 1 .. Len(g) |-> b[j]]
    BY <2>1
  <2>4. BehindEq(g, b)
    BY <2>2, <2>3 DEF BehindEq
  <2> QED  BY <2>4
<1>2. PICK q : q = CHOOSE b : BehindEq(g, b)
  OBVIOUS
<1>3. BehindEq(g, q)
  BY <1>1, <1>2
<1>4. Behind(g, i) = q[i]
  BY <1>2 DEF Behind, BehindEq, Within
<1>5. \A j \in 1 .. Len(g) :
        q[j] = Within(g, g[j].deps) \cup UNION {q[d] : d \in Within(g, g[j].deps)}
  BY <1>3, Zenon DEF BehindEq
<1>6. {j \in 1 .. Len(g) : q[j] # Reach(g, j)} = {}
  <2> DEFINE S == {j \in 1 .. Len(g) : q[j] # Reach(g, j)}
  <2>1. SUFFICES ASSUME S # {} PROVE FALSE
    OBVIOUS
  <2>2. PICK j \in S : g[j].deps \cap S = {}
    BY <2>1 DEF Dag
  <2>3. Within(g, g[j].deps) \subseteq 1 .. Len(g) /\ Within(g, g[j].deps) \subseteq g[j].deps
    BY <2>2 DEF Dag, Within
  <2>4. \A d \in Within(g, g[j].deps) : q[d] = Reach(g, d)
    BY <2>2, <2>3
  <2>5. UNION {q[d] : d \in Within(g, g[j].deps)} = UNION {Reach(g, d) : d \in Within(g, g[j].deps)}
    BY <2>4, Zenon
  <2>6. q[j] = Reach(g, j)
    BY <1>5, <2>2, <2>5, ReachSolves
  <2> QED  BY <2>2, <2>6
<1> QED  BY <1>4, <1>6

LEMMA BehindFacts ==
  ASSUME NEW g, Dag(g), NEW i \in 1 .. Len(g)
  PROVE  /\ Behind(g, i) \subseteq 1 .. Len(g)
         /\ Within(g, g[i].deps) \subseteq Behind(g, i)
         /\ Closed(g, Behind(g, i))
         /\ \A D \in SUBSET (1 .. Len(g)) :
              Within(g, g[i].deps) \subseteq D /\ Closed(g, D) => Behind(g, i) \subseteq D
BY ReachClosed, BehindReaches

LEMMA TypedDag ==
  ASSUME NEW g, NEW b, g \in Seq(NodesOf(Len(g), b)),
         \A S \in SUBSET (1 .. Len(g)) : S # {} => \E i \in S : g[i].deps \cap S = {}
  PROVE  Dag(g)
<1>1. Len(g) \in Nat /\ \A j \in 1 .. Len(g) : g[j] \in NodesOf(Len(g), b)
  BY SeqElements
<1> QED  BY <1>1 DEF Dag, NodesOf

-----------------------------------------------------------------------------
(*                         Merges leave nothing                            *)

(* A node that succeeded had all it depends on.                            *)
OkAfterAll ==
  \A m \in Ids : nodes[m].answer = "ok" => \A d \in nodes[m].deps : nodes[d].status = "done"

(* What is done keeps its dependencies.                                    *)
LEMMA DoneKeepsDeps ==
  ASSUME Base, Next, NEW j \in Ids, \A d \in nodes[j].deps : nodes[d].status = "done"
  PROVE  nodes'[j].deps = nodes[j].deps
<1> USE DEF Base, GraphInv, FlowInv
<1>1. \A i \in inFlight : nodes[i].status = "running"
  BY DEF Tracked, TypeInv, TypeOK
<1>2. ASSUME NEW i \in Ids, NEW w \in Ids, SpawnRework(i), Reworked(i, w)
      PROVE  nodes'[j].deps = nodes[j].deps
  <2>1. i \notin nodes[j].deps
    BY <1>1, <1>2 DEF SpawnRework, Settling
  <2> QED  BY <1>2, <2>1 DEF Reworked, Moved
<1>3. ASSUME NEW i \in Ids, SpawnFix(i), FixedUp(i)
      PROVE  nodes'[j].deps = nodes[j].deps
  <2>1. i \notin nodes[j].deps
    BY <1>1, <1>3 DEF SpawnFix, Settling
  <2> QED  BY <1>3, <2>1 DEF FixedUp, Moved
<1> QED  BY <1>2, <1>3, KeptOrGrown, KeptRoles DEF SameRole

LEMMA TracedStep ==
  ASSUME Base, Traced, Next
  PROVE  Traced'
<1> USE DEF Base, GraphInv, FlowInv
<1> DEFINE Asked(g, r, v, w) ==
             /\ g[r].deps = {v} /\ g[v].status = "done"
             /\ g[v].deps = {w} /\ g[w].lineage = g[r].lineage
<1>1. /\ Ids \subseteq Ids'
      /\ \A j \in Ids : nodes'[j].lineage = nodes[j].lineage
      /\ \A j \in Ids : nodes[j].status = "done" => nodes'[j].status = "done"
  <2>1. Ids \subseteq Ids' /\ \A j \in Ids : nodes'[j].lineage = nodes[j].lineage
    <3>1. CASE Kept
      BY <3>1, KeptRoles DEF SameRole
    <3>2. ASSUME NEW i \in Ids, NEW w \in Ids, Reworked(i, w)
          PROVE  Ids \subseteq Ids' /\ \A j \in Ids : nodes'[j].lineage = nodes[j].lineage
      BY <3>2, ReworkIds DEF Reworked, SameNode
    <3>3. ASSUME NEW i \in Ids, FixedUp(i)
          PROVE  Ids \subseteq Ids' /\ \A j \in Ids : nodes'[j].lineage = nodes[j].lineage
      BY <3>3, FixIds DEF FixedUp, SameNode
    <3> QED  BY <3>1, <3>2, <3>3, KeptOrGrown
  <2> QED  BY <2>1, StatusSteps DEF Passes
<1>2. ASSUME NEW r \in Ids, IsRework(nodes, r)
      PROVE  \E v, w \in Ids : Asked(nodes', r, v, w)
  <2>1. PICK v \in Ids, w \in Ids : Asked(nodes, r, v, w)
    BY <1>2 DEF Traced
  <2>2. \A d \in nodes[v].deps : nodes[d].status = "done"
    BY <2>1 DEF DepsDone
  <2>3. nodes'[v].deps = {w}
    BY <2>1, <2>2, DoneKeepsDeps
  <2>4. nodes'[r].deps = {v}
    BY <2>1, DoneKeepsDeps
  <2>5. Asked(nodes', r, v, w)
    BY <1>1, <2>1, <2>3, <2>4
  <2> QED  BY <2>5
<1>3. ASSUME NEW r \in Ids', nodes'[r].lineage # r
      PROVE  r \in Ids \/ \E v, w \in Ids : Asked(nodes', r, v, w)
  <2>1. CASE Kept
    BY <1>3, <2>1, KeptRoles
  <2>2. ASSUME NEW i \in Ids, NEW w \in Ids, SpawnRework(i), Reworked(i, w), r \notin Ids
        PROVE  Asked(nodes', r, i, w)
    <3> DEFINE n == Len(nodes) + 1
    <3>1. Ids' = Ids \cup {n, n + 1}
      BY <2>2, ReworkIds
    <3>2. /\ nodes'[n].deps = {i} /\ nodes'[n].lineage = nodes[w].lineage
          /\ nodes'[n + 1].lineage = n + 1 /\ nodes[i].deps = {w}
      BY <2>2 DEF Reworked, Fresh
    <3>3. nodes'[i].status = "done"
      BY <2>2 DEF Reworked, Finished
    <3> HIDE DEF n
    <3>4. r = n
      BY <1>3, <2>2, <3>1, <3>2
    <3>5. nodes[i].status = "running"
      BY <2>2 DEF SpawnRework, Settling, Tracked
    <3>6. nodes'[i].deps = {w}
      BY <3>2, <3>5, DoneKeepsDeps DEF DepsDone
    <3> QED  BY <1>1, <3>2, <3>3, <3>4, <3>6
  <2>3. ASSUME NEW i \in Ids, FixedUp(i) PROVE r \in Ids
    BY <1>3, <2>3, FixIds DEF FixedUp, Fresh
  <2> QED  BY <2>1, <2>2, <2>3, KeptOrGrown
<1>4. ASSUME NEW r \in Ids', nodes'[r].lineage # r
      PROVE  \E v, w \in Ids' : Asked(nodes', r, v, w)
  <2>1. r \in Ids => IsRework(nodes, r)
    BY <1>1, <1>4 DEF IsRework
  <2>2. \E v, w \in Ids : Asked(nodes', r, v, w)
    BY <1>2, <1>3, <1>4, <2>1
  <2> HIDE DEF Asked
  <2> QED  BY <1>1, <2>2
<1> QED  BY <1>4 DEF Traced, IsRework

LEMMA KindKept ==
  ASSUME TypeInv, OneJudged, Manned, Next
  PROVE  /\ \A j \in Ids : nodes'[j].kind = nodes[j].kind
         /\ \A j \in Ids' : j \in Ids \/ (nodes'[j].kind \in {"fix", "verify"} /\ nodes'[j].answer = "none"
                                           /\ nodes'[j].status = "pending")
         /\ Ids \subseteq Ids'
<1>1. CASE Kept
  BY <1>1, KeptRoles DEF SameRole
<1>2. ASSUME NEW i \in Ids, NEW w \in Ids, Reworked(i, w)
      PROVE  /\ \A j \in Ids : nodes'[j].kind = nodes[j].kind
             /\ \A j \in Ids' : j \in Ids \/ (nodes'[j].kind \in {"fix", "verify"} /\ nodes'[j].answer = "none"
                                               /\ nodes'[j].status = "pending")
             /\ Ids \subseteq Ids'
  BY <1>2, ReworkIds DEF Reworked, Fresh, SameNode
<1>3. ASSUME NEW i \in Ids, FixedUp(i)
      PROVE  /\ \A j \in Ids : nodes'[j].kind = nodes[j].kind
             /\ \A j \in Ids' : j \in Ids \/ (nodes'[j].kind \in {"fix", "verify"} /\ nodes'[j].answer = "none"
                                               /\ nodes'[j].status = "pending")
             /\ Ids \subseteq Ids'
  BY <1>3, FixIds DEF FixedUp, Fresh, SameNode
<1> QED  BY <1>1, <1>2, <1>3, KeptOrGrown

LEMMA OkAfterAllStep ==
  ASSUME Base, OkAfterAll, Next
  PROVE  OkAfterAll'
<1> USE DEF Base, GraphInv, FlowInv
<1> SUFFICES ASSUME NEW m \in Ids', nodes'[m].answer = "ok", NEW d \in nodes'[m].deps
             PROVE  nodes'[d].status = "done"
  BY DEF OkAfterAll
<1>1. m \in Ids
  BY KindKept
<1>2. Works(m)
  BY <1>1, WorkSteps
<1>3. nodes[m].answer = "ok" \/ nodes[m].task # "none"
  BY <1>2 DEF Works, SameWork, TalkStep
<1>4. \A x \in nodes[m].deps : nodes[x].status = "done"
  BY <1>1, <1>3 DEF OkAfterAll, Manned, DepsDone
<1>5. nodes'[m].deps = nodes[m].deps /\ nodes[m].deps \subseteq Ids
  BY <1>1, <1>4, DoneKeepsDeps, NodeFields
<1>6. Passes(d) /\ nodes[d].status = "done"
  BY <1>4, <1>5, StatusSteps
<1> QED  BY <1>6 DEF Passes

(* A worktree is opened or given up by one tentacle at a time.             *)
LEMMA HandleSteps ==
  ASSUME TypeInv, OneJudged, Manned, Next
  PROVE  \/ handles' = handles /\ \A j \in Ids : nodes'[j].answer = "ok" => nodes[j].answer = "ok"
         \/ \E i \in Ids, t \in Tasks, a \in Replies : Talked(i, t, a)
<1> DEFINE P == handles' = handles /\ \A j \in Ids : nodes'[j].answer = "ok" => nodes[j].answer = "ok"
<1>1. Quiet => P
  BY DEF Quiet
<1>2. Start /\ StaysTyped /\ Started => P
  BY DEF Start, Started, SameWork
<1>3. ASSUME NEW is, NEW s, Restated(nodes', nodes, is, s), handles' = handles PROVE P
  BY <1>3 DEF Restated, SameWork, Ids
<1>4. ASSUME NEW i, NEW is, NEW s, Settled(i, is, s) PROVE P
  BY <1>3, <1>4 DEF Settled, Settling
<1>5. ASSUME NEW is, NEW s, Moves(is, s) PROVE P
  BY <1>3, <1>5 DEF Moves
<1>6. ASSUME NEW i \in Ids, NEW w \in Ids, SpawnRework(i), Reworked(i, w) PROVE P
  BY <1>6 DEF SpawnRework, Settling, Reworked, SameNode, SameWork
<1>7. ASSUME NEW i \in Ids, SpawnFix(i), FixedUp(i) PROVE P
  BY <1>7 DEF SpawnFix, Settling, FixedUp, SameNode, SameWork
<1> QED  BY <1>1, <1>2, <1>4, <1>5, <1>6, <1>7, StepFacts

LEMMA MergesCompleteStep ==
  ASSUME Base, OkAfterAll, MergesComplete, Next
  PROVE  MergesComplete'
<1> USE DEF Base, GraphInv, FlowInv
<1> SUFFICES ASSUME NEW m \in Ids', nodes'[m].kind = "merge", nodes'[m].answer = "ok"
             PROVE  Behind(nodes', m) \cap handles' = {}
  BY DEF MergesComplete
<1>1. m \in Ids /\ nodes[m].kind = "merge"
  BY KindKept
<1>2. Dag(nodes) /\ Dag(nodes')
  <2>1. Base'
    BY BaseStep
  <2>2. nodes' \in Seq(NodesOf(Len(nodes'), opts'.rounds))
    BY <2>1 DEF Base, GraphInv, TypeInv, TypeOK, NodeType, NodesOf, Ids
  <2>3. \A S \in SUBSET (1 .. Len(nodes')) : S # {} => \E i \in S : nodes'[i].deps \cap S = {}
    BY <2>1 DEF Base, GraphInv, Acyclic, Ids
  <2>4. nodes \in Seq(NodesOf(Len(nodes), opts.rounds))
    BY Typed DEF TypeInv
  <2>5. \A S \in SUBSET (1 .. Len(nodes)) : S # {} => \E i \in S : nodes[i].deps \cap S = {}
    BY DEF Acyclic, Ids
  <2> QED  BY <2>2, <2>3, <2>4, <2>5, TypedDag
<1>3. nodes[m].answer = "ok" \/ nodes[m].task # "none"
  <2>1. Works(m)
    BY <1>1, WorkSteps
  <2> QED  BY <2>1 DEF Works, SameWork, TalkStep
<1>4. \A d \in nodes[m].deps : nodes[d].status = "done"
  BY <1>1, <1>3 DEF OkAfterAll, Manned, DepsDone
<1>5. PICK B : B = Behind(nodes, m)
  OBVIOUS
<1>6. /\ B \subseteq Ids /\ Within(nodes, nodes[m].deps) \subseteq B /\ Closed(nodes, B)
      /\ \A D \in SUBSET Ids :
           Within(nodes, nodes[m].deps) \subseteq D /\ Closed(nodes, D) => B \subseteq D
  BY <1>1, <1>2, <1>5, BehindFacts DEF Ids
<1>7. \A d \in B : nodes[d].status = "done"
  <2> DEFINE D == {d \in Ids : nodes[d].status = "done"}
  <2>1. Within(nodes, nodes[m].deps) \subseteq D
    BY <1>1, <1>4, NodeFields DEF Within
  <2>2. Closed(nodes, D)
    BY NodeFields DEF Closed, Within, DepsDone
  <2> QED  BY <1>6, <2>1, <2>2
<1>8. \A d \in B \cup {m} : nodes'[d].deps = nodes[d].deps
  BY <1>1, <1>4, <1>6, <1>7, DoneKeepsDeps DEF DepsDone
<1>9. \A d \in B \cup {m} : Within(nodes', nodes'[d].deps) = Within(nodes, nodes[d].deps)
  <2>1. \A d \in B \cup {m} : nodes[d].deps \subseteq Ids
    BY <1>1, <1>6, NodeFields
  <2>2. \A j \in Ids : nodes'[j].kind = nodes[j].kind
    BY KindKept
  <2> QED  BY <1>8, <2>1, <2>2 DEF Within
<1>10. Behind(nodes', m) \subseteq B
  <2>1. B \in SUBSET (1 .. Len(nodes')) /\ m \in 1 .. Len(nodes')
    BY <1>1, <1>6, KindKept DEF Ids
  <2>2. Within(nodes', nodes'[m].deps) \subseteq B /\ Closed(nodes', B)
    BY <1>6, <1>9 DEF Closed
  <2> QED  BY <1>2, <2>1, <2>2, BehindFacts
<1>11. B \cap handles' = {}
  <2>1. CASE handles' = handles /\ \A j \in Ids : nodes'[j].answer = "ok" => nodes[j].answer = "ok"
    BY <1>1, <1>5, <2>1 DEF MergesComplete
  <2>2. ASSUME NEW i \in Ids, NEW t, NEW a, Talked(i, t, a) PROVE B \cap handles' = {}
    <3>1. /\ handles' \subseteq handles \cup {i} /\ TalkStep(i, t, a)
          /\ nodes[i].kind = "merge" /\ a = "ok" /\ nodes[i].answer # "ok" =>
               handles' \cap Behind(nodes, i) = {}
          /\ Worked(nodes', nodes, i, t, a)
      BY <2>2 DEF Talked
    <3>2. i \notin B
      <4>1. nodes[i].task # "none"
        BY <3>1 DEF TalkStep
      <4> QED  BY <1>7, <4>1 DEF Manned
    <3>3. CASE nodes[m].answer = "ok"
      BY <1>1, <1>5, <3>1, <3>2, <3>3 DEF MergesComplete
    <3>4. CASE nodes[m].answer # "ok"
      <4>1. m = i /\ a = "ok"
        BY <1>1, <3>1, <3>4 DEF Worked, SameWork, Ids
      <4> QED  BY <1>1, <1>5, <3>1, <3>4, <4>1
    <3> QED  BY <3>3, <3>4
  <2> QED  BY <2>1, <2>2, HandleSteps
<1> QED  BY <1>10, <1>11

-----------------------------------------------------------------------------
(*                          How a run ends                                 *)

(* What a solution of hopeless's equation looks like, as a set.            *)
Doomed(g, D, i) ==
  \/ g[i].status \in {"error", "skipped"}
  \/ g[i].status = "pending" /\ \E d \in g[i].deps : d \in D

HopelessEq(g, h) ==
  h = [i \in 1 .. Len(g) |->
         \/ g[i].status \in {"error", "skipped"}
         \/ g[i].status = "pending" /\ \E d \in g[i].deps : h[d]]

Absorbs(g, D) == \A i \in 1 .. Len(g) : Doomed(g, D, i) => i \in D

LEMMA DoomedExists ==
  ASSUME NEW g
  PROVE  \E H \in SUBSET (1 .. Len(g)) : \A i \in 1 .. Len(g) : i \in H <=> Doomed(g, H, i)
<1>1. PICK H : H = {i \in 1 .. Len(g) :
                      \A D \in SUBSET (1 .. Len(g)) : Absorbs(g, D) => i \in D}
  OBVIOUS
<1>2. H \in SUBSET (1 .. Len(g))
  BY <1>1
<1>3. ASSUME NEW i \in 1 .. Len(g), Doomed(g, H, i) PROVE i \in H
  <2>1. ASSUME NEW D \in SUBSET (1 .. Len(g)), Absorbs(g, D) PROVE i \in D
    <3>1. H \subseteq D
      BY <1>1, <2>1
    <3>2. Doomed(g, D, i)
      BY <1>3, <3>1 DEF Doomed
    <3> QED  BY <2>1, <3>2 DEF Absorbs
  <2> QED  BY <1>1, <2>1
<1>4. ASSUME NEW i \in 1 .. Len(g), i \in H, ~Doomed(g, H, i) PROVE FALSE
  <2>1. PICK D \in SUBSET (1 .. Len(g)) : D = H \ {i}
    BY <1>2
  <2>2. ASSUME NEW j \in 1 .. Len(g), Doomed(g, D, j) PROVE j \in D
    <3>1. Doomed(g, H, j)
      BY <2>1, <2>2 DEF Doomed
    <3> QED  BY <1>3, <1>4, <2>1, <3>1
  <2>3. Absorbs(g, D)
    BY <2>2 DEF Absorbs
  <2> QED  BY <1>1, <1>4, <2>1, <2>3
<1> QED  BY <1>2, <1>3, <1>4

LEMMA BlockedSolves ==
  ASSUME NEW g, Dag(g)
  PROVE  \E H \in SUBSET (1 .. Len(g)) :
           /\ \A i \in 1 .. Len(g) : i \in H <=> Doomed(g, H, i)
           /\ Blocked(g) = {i \in 1 .. Len(g) : g[i].status = "pending" /\ i \in H}
<1>0. \A i \in 1 .. Len(g) : g[i].deps \subseteq 1 .. Len(g)
  BY DEF Dag
<1>1. \E h : HopelessEq(g, h)
  <2>1. PICK H \in SUBSET (1 .. Len(g)) : \A i \in 1 .. Len(g) : i \in H <=> Doomed(g, H, i)
    BY DoomedExists
  <2>2. PICK h : h = [i \in 1 .. Len(g) |-> i \in H]
    OBVIOUS
  <2>3. ASSUME NEW i \in 1 .. Len(g)
        PROVE  (i \in H) = (\/ g[i].status \in {"error", "skipped"}
                            \/ g[i].status = "pending" /\ \E d \in g[i].deps : h[d])
    <3>1. \A d \in g[i].deps : h[d] <=> d \in H
      BY <1>0, <2>2, Zenon
    <3>2. (\E d \in g[i].deps : h[d]) <=> (\E d \in g[i].deps : d \in H)
      BY <3>1, Zenon
    <3>3. i \in H <=> Doomed(g, H, i)
      BY <2>1
    <3>4. CASE i \in H
      <4>1. \/ g[i].status \in {"error", "skipped"}
            \/ g[i].status = "pending" /\ \E d \in g[i].deps : h[d]
        BY <3>2, <3>3, <3>4, Zenon DEF Doomed
      <4>2. (i \in H) = TRUE
        BY <3>4
      <4>3. (\/ g[i].status \in {"error", "skipped"}
             \/ g[i].status = "pending" /\ \E d \in g[i].deps : h[d]) = TRUE
        BY <4>1, SMT
      <4> QED  BY <4>2, <4>3
    <3>5. CASE i \notin H
      <4>1. ~(\/ g[i].status \in {"error", "skipped"}
              \/ g[i].status = "pending" /\ \E d \in g[i].deps : h[d])
        BY <3>2, <3>3, <3>5, Zenon DEF Doomed
      <4>2. (i \in H) = FALSE
        BY <3>5
      <4>3. (\/ g[i].status \in {"error", "skipped"}
             \/ g[i].status = "pending" /\ \E d \in g[i].deps : h[d]) = FALSE
        BY <4>1, SMT
      <4> QED  BY <4>2, <4>3
    <3> QED  BY <3>4, <3>5
  <2>4. h = [i \in 1 .. Len(g) |-> (\/ g[i].status \in {"error", "skipped"}
                                    \/ g[i].status = "pending" /\ \E d \in g[i].deps : h[d])]
    BY <2>2, <2>3, Zenon
  <2> QED  BY <2>4, Zenon DEF HopelessEq
<1>2. PICK q : q = CHOOSE h : HopelessEq(g, h)
  OBVIOUS
<1>3. HopelessEq(g, q)
  BY <1>1, <1>2, Zenon
<1>4. Blocked(g) = {i \in 1 .. Len(g) : g[i].status = "pending" /\ q[i]}
  BY <1>2, Zenon DEF Blocked, HopelessEq
<1>5. \A i \in 1 .. Len(g) :
        q[i] = (\/ g[i].status \in {"error", "skipped"}
                \/ g[i].status = "pending" /\ \E d \in g[i].deps : q[d])
  BY <1>3, Zenon DEF HopelessEq
<1>6. PICK H : H = {i \in 1 .. Len(g) : q[i]}
  OBVIOUS
<1>7. ASSUME NEW i \in 1 .. Len(g) PROVE i \in H <=> Doomed(g, H, i)
  <2>1. \A d \in g[i].deps : d \in H <=> q[d]
    BY <1>0, <1>6, Zenon
  <2>2. (\E d \in g[i].deps : q[d]) <=> (\E d \in g[i].deps : d \in H)
    BY <2>1, Zenon
  <2>3. i \in H <=> q[i]
    BY <1>6, Zenon
  <2>4. q[i] <=> (\/ g[i].status \in {"error", "skipped"}
                  \/ g[i].status = "pending" /\ \E d \in g[i].deps : q[d])
    BY <1>5, Zenon
  <2> QED  BY <2>2, <2>3, <2>4, Zenon DEF Doomed
<1>8. Blocked(g) = {i \in 1 .. Len(g) : g[i].status = "pending" /\ i \in H}
  <2>1. \A i \in 1 .. Len(g) : i \in H <=> q[i]
    BY <1>6, Zenon
  <2> QED  BY <1>4, <2>1, Zenon
<1>9. H \in SUBSET (1 .. Len(g))
  BY <1>6, Zenon
<1> QED  BY <1>7, <1>8, <1>9, Zenon

LEMMA NodesDag ==
  ASSUME TypeInv, Acyclic
  PROVE  Dag(nodes)
<1>1. nodes \in Seq(NodesOf(Len(nodes), opts.rounds))
  BY Typed DEF TypeInv
<1> QED  BY <1>1, TypedDag DEF Acyclic, Ids

(* When nothing runs and nothing is blocked, all is over or something is   *)
(* ready.                                                                  *)
LEMMA NothingBlocked ==
  ASSUME TypeInv, Acyclic, Tracked, inFlight = {}, Blocked(nodes) = {}, ~AllSettled(nodes)
  PROVE  Ready(nodes) # {}
<1>1. PICK H \in SUBSET Ids :
        /\ \A i \in Ids : i \in H <=> Doomed(nodes, H, i)
        /\ Blocked(nodes) = {i \in Ids : nodes[i].status = "pending" /\ i \in H}
  BY NodesDag, BlockedSolves DEF Ids
<1>2. PICK S \in SUBSET Ids : S = {i \in Ids : nodes[i].status = "pending"}
  OBVIOUS
<1>3. \A i \in Ids : nodes[i].status # "running"
  BY DEF Tracked
<1>4. S # {}
  BY <1>2, <1>3 DEF AllSettled, Ids
<1>5. PICK i \in S : nodes[i].deps \cap S = {}
  BY <1>4 DEF Acyclic
<1>6. ASSUME NEW d \in nodes[i].deps PROVE nodes[d].status = "done"
  <2>1. d \in Ids /\ d \notin S
    BY <1>5, NodeFields
  <2>2. nodes[d].status \notin {"error", "skipped"}
    <3>1. SUFFICES ASSUME nodes[d].status \in {"error", "skipped"} PROVE FALSE
      OBVIOUS
    <3>2. d \in H
      BY <1>1, <2>1, <3>1 DEF Doomed
    <3>3. i \in H
      BY <1>1, <1>2, <1>5, <3>2 DEF Doomed
    <3> QED  BY <1>1, <1>2, <1>5, <3>3
  <2>3. nodes[d].status \in Statuses
    BY <2>1, NodeFields
  <2> QED  BY <1>2, <1>3, <2>1, <2>2, <2>3 DEF Statuses
<1> QED  BY <1>2, <1>5, <1>6 DEF Ready, Ids

LEMMA TalkKeeps ==
  ASSUME TypeInv, NEW i \in Ids, NEW t, NEW a, Talked(i, t, a)
  PROVE  /\ Ids' = Ids /\ Ready(nodes') = Ready(nodes)
         /\ AllSettled(nodes') <=> AllSettled(nodes)
         /\ \A j \in Ids : nodes'[j].status = nodes[j].status
<1>1. /\ Len(nodes') = Len(nodes)
      /\ \A j \in Ids : nodes'[j].status = nodes[j].status /\ nodes'[j].deps = nodes[j].deps
  BY DEF Talked, Worked, SameShape, SameRole, Ids
<1>2. \A j \in Ids : nodes[j].deps \subseteq Ids
  BY NodeFields
<1>3. \A j \in Ids : (\A d \in nodes'[j].deps : nodes'[d].status = "done")
                <=> (\A d \in nodes[j].deps : nodes[d].status = "done")
  BY <1>1, <1>2
<1> QED  BY <1>1, <1>3 DEF Ready, AllSettled, Ids

LEMMA LeftStep ==
  ASSUME Base, Left, Next
  PROVE  Left'
<1> USE DEF Base, GraphInv, FlowInv
<1>0. /\ pc = "closing" =>
           /\ inFlight = {}
           /\ aborted = "yes" \/ AllSettled(nodes) \/ Ready(nodes) # {}
      /\ pc = "over" =>
           \/ AllSettled(nodes)
           \/ /\ aborted = "no" /\ Ready(nodes) # {}
              /\ \A i \in Ids : nodes[i].status # "running"
      /\ aborted \in {"yes", "no"}
  BY DEF Left, SettledAtEnd, TypeInv, TypeOK
<1>1. CASE pc' \notin {"closing", "over"}
  BY <1>1 DEF Left, SettledAtEnd
<1>2. CASE LeaveSettled
  <2>1. AllSettled(nodes) /\ nodes' = nodes /\ inFlight' = inFlight /\ pc' = "closing"
    BY <1>2 DEF LeaveSettled
  <2>2. inFlight = {}
    BY <2>1 DEF AllSettled, Tracked, Ids, TypeInv, TypeOK
  <2> QED  BY <2>1, <2>2 DEF Left, SettledAtEnd
<1>3. CASE LeaveCancelled
  BY <1>3 DEF LeaveCancelled, Left, SettledAtEnd
<1>4. CASE BailOut
  <2>1. /\ inFlight = {} /\ Blocked(nodes) = {} /\ nodes' = nodes
        /\ inFlight' = inFlight /\ pc' = "closing"
    BY <1>4 DEF BailOut
  <2>2. AllSettled(nodes) \/ Ready(nodes) # {}
    BY <2>1, NothingBlocked
  <2> QED  BY <2>1, <2>2 DEF Left, SettledAtEnd
<1>5. CASE Cancel
  <2>1. /\ nodes' = nodes /\ inFlight' = inFlight /\ pc' = pc /\ aborted' = "yes" /\ pc # "over"
    BY <1>5 DEF Cancel
  <2> QED  BY <1>0, <2>1 DEF Left, SettledAtEnd
<1>6. CASE Close
  <2>1. pc' = "over" /\ (pc = "closing" \/ (pc = "draining" /\ inFlight = {}))
    BY <1>6 DEF Close
  <2>2. inFlight = {}
    BY <1>0, <2>1
  <2>3. \A j \in Ids : nodes[j].status # "running"
    BY <2>2 DEF Tracked
  <2>4. CASE aborted = "yes" /\ Moves(Unstarted, "skipped")
    <3>1. ASSUME NEW j \in Ids PROVE nodes'[j].status \notin {"pending", "running"}
      BY <2>3, <2>4 DEF Moves, Restated, Unstarted, Ids
    <3>2. AllSettled(nodes')
      BY <2>4, <3>1 DEF Moves, Restated, SameShape, AllSettled, Ids
    <3> QED  BY <2>1, <3>2 DEF Left, SettledAtEnd
  <2>5. CASE aborted # "yes" /\ Quiet /\ UNCHANGED aborted
    <3>1. pc = "closing"
      BY <2>1, <2>5 DEF DrainCancelled
    <3>2. AllSettled(nodes) \/ Ready(nodes) # {}
      BY <1>0, <2>5, <3>1
    <3> QED  BY <1>0, <2>1, <2>3, <2>5, <3>2 DEF Left, SettledAtEnd, Quiet, Ids
  <2> QED  BY <1>6, <2>4, <2>5, CloseFacts
<1>7. ASSUME NEW i \in Ids, Tentacle(i) PROVE Left'
  <2>1. PICK t \in Tasks, a \in Replies : Talked(i, t, a)
    BY <1>7, TalkFacts
  <2>2. /\ Ids' = Ids /\ Ready(nodes') = Ready(nodes)
        /\ AllSettled(nodes') <=> AllSettled(nodes)
        /\ \A j \in Ids : nodes'[j].status = nodes[j].status
    BY <2>1, TalkKeeps
  <2>3. inFlight' = inFlight /\ pc' = pc /\ aborted' = aborted
    BY <2>1 DEF Talked
  <2> QED  BY <1>0, <2>2, <2>3 DEF Left, SettledAtEnd
<1>8. LeaveAtCap \/ Admit \/ Start \/ SkipBlocked \/ Drain => pc' \notin {"closing", "over"}
  BY DEF LeaveAtCap, Admit, Start, SkipBlocked, Drain
<1>9. ASSUME NEW i \in Ids, Settle(i) PROVE pc' \notin {"closing", "over"}
  BY <1>9, SettlesOutside DEF Settling
<1> QED
  BY <1>1, <1>2, <1>3, <1>4, <1>5, <1>6, <1>7, <1>8, <1>9, StepKinds DEF QuietStep

(* What a fix repaired stays repaired, findings stay accepted, and only a  *)
(* cancellation cancels.                                                   *)
LEMMA OnlyGrows ==
  ASSUME TypeInv, OneJudged, Manned, Next
  PROVE  /\ unresolved \subseteq unresolved'
         /\ \A j \in Ids : nodes'[j].repairs = nodes[j].repairs /\ nodes'[j].lineage = nodes[j].lineage
         /\ aborted' = "no" => aborted = "no"
<1>1. unresolved \subseteq unresolved'
  <2>1. QuietStep \/ Start \/ SkipBlocked \/ Drain \/ Close => unresolved' = unresolved
    BY QuietFacts DEF Quiet, Start, SkipBlocked, Drain, Close
  <2>2. ASSUME NEW i \in Ids, Settle(i) PROVE unresolved \subseteq unresolved'
    BY <2>2 DEF Settle, Succeed, AcceptFindings, SpawnRework, Retry, SpawnFix, Fail
  <2>3. ASSUME NEW i \in Ids, Tentacle(i) PROVE unresolved' = unresolved
    BY <2>3, TalkFacts DEF Talked
  <2> QED  BY <2>1, <2>2, <2>3, StepKinds
<1>2. \A j \in Ids : nodes'[j].repairs = nodes[j].repairs /\ nodes'[j].lineage = nodes[j].lineage
  BY KeptOrGrown, KeptRoles DEF SameRole, Reworked, FixedUp, SameNode
<1>3. aborted' = "no" => aborted = "no"
  <2>1. QuietStep \/ Start \/ SkipBlocked \/ Drain \/ Close => aborted' = aborted \/ aborted' = "yes"
    BY DEF QuietStep, LeaveSettled, LeaveAtCap, LeaveCancelled, Admit, BailOut, Cancel,
           Start, SkipBlocked, Drain, Close
  <2>2. ASSUME NEW i \in Ids, Settle(i) PROVE aborted' = aborted
    BY <2>2, SettlesOutside DEF Settling
  <2>3. ASSUME NEW i \in Ids, Tentacle(i) PROVE aborted' = aborted
    BY <2>3, TalkFacts DEF Talked
  <2> QED  BY <2>1, <2>2, <2>3, StepKinds
<1> QED  BY <1>1, <1>2, <1>3

(* Nodes are skipped by skipBlockedNodes and at the end of a cancelled run.*)
LEMMA SkipSteps ==
  ASSUME TypeInv, OneJudged, Manned, Tracked, Next, aborted' = "no",
         NEW j \in Ids, nodes'[j].status = "skipped", nodes[j].status # "skipped"
  PROVE  SkipBlocked /\ Moves(Blocked(nodes), "skipped")
<1>0. aborted = "no"
  BY OnlyGrows
<1>1. ~Quiet
  BY DEF Quiet
<1>2. ~(Start /\ Started)
  BY DEF Started
<1>3. ASSUME NEW is, NEW s \in {"pending", "done", "error"}, Restated(nodes', nodes, is, s)
      PROVE  FALSE
  BY <1>3 DEF Restated, Ids
<1>4. ASSUME NEW i, NEW is, NEW s \in {"pending", "done", "error"}, Settled(i, is, s) PROVE FALSE
  BY <1>3, <1>4 DEF Settled
<1>5. ~Moves(Late, "error")
  BY <1>3 DEF Moves
<1>6. ASSUME NEW i \in Ids, NEW w \in Ids, Reworked(i, w) PROVE FALSE
  BY <1>6 DEF Reworked
<1>7. ASSUME NEW i \in Ids, FixedUp(i) PROVE FALSE
  BY <1>7 DEF FixedUp
<1>8. ASSUME NEW i \in Ids, NEW t, NEW a, Talked(i, t, a) PROVE FALSE
  BY <1>8 DEF Talked, Worked, Ids
<1>9. ASSUME NEW i \in Ids
      PROVE  /\ ~Settled(i, Finished(i), "done") /\ ~Settled(i, {i}, "pending")
             /\ ~Settled(i, {i}, "error")
  BY <1>4
<1> QED  BY <1>0, <1>1, <1>2, <1>5, <1>6, <1>7, <1>8, <1>9, StepFacts

(* A dependency on anything but the node that settles is kept.             *)
LEMMA DepsKept ==
  ASSUME TypeInv, OneJudged, Manned, Tracked, Next, NEW j \in Ids, NEW d \in nodes[j].deps,
         nodes[d].status # "running"
  PROVE  d \in nodes'[j].deps
<1>0. \A i \in inFlight : nodes[i].status = "running"
  BY DEF Tracked, TypeInv, TypeOK
<1>1. ASSUME NEW i \in Ids, NEW w \in Ids, SpawnRework(i), Reworked(i, w)
      PROVE  d \in nodes'[j].deps
  <2>1. d # i
    BY <1>0, <1>1 DEF SpawnRework, Settling
  <2> QED  BY <1>1, <2>1 DEF Reworked, Moved
<1>2. ASSUME NEW i \in Ids, SpawnFix(i), FixedUp(i)
      PROVE  d \in nodes'[j].deps
  <2>1. d # i
    BY <1>0, <1>2 DEF SpawnFix, Settling
  <2> QED  BY <1>2, <2>1 DEF FixedUp, Moved
<1> QED  BY <1>1, <1>2, KeptOrGrown, KeptRoles DEF SameRole

LEMMA SkippedForErrorStep ==
  ASSUME Base, SkippedForError, Next
  PROVE  SkippedForError'
<1> USE DEF Base, GraphInv, FlowInv
<1> SUFFICES ASSUME aborted' = "no", NEW k \in Ids', nodes'[k].status = "skipped"
             PROVE  \E e, j \in Ids' : nodes'[e].status = "error" /\ e \in nodes'[j].deps
  BY DEF SkippedForError
<1>0. aborted = "no" /\ k \in Ids /\ Ids \subseteq Ids'
  BY OnlyGrows, KindKept
<1>1. \E e, j \in Ids :
        nodes[e].status = "error" /\ e \in nodes[j].deps /\ nodes'[e].status = "error"
  <2>1. CASE \E i \in Ids : nodes[i].status = "skipped"
    <3>1. PICK e \in Ids, j \in Ids : nodes[e].status = "error" /\ e \in nodes[j].deps
      BY <1>0, <2>1 DEF SkippedForError
    <3>2. Passes(e)
      BY StatusSteps
    <3>3. \A f \in Ids : nodes[f].repairs # e
      BY <3>1, NodeFields DEF Replaced, Replaces, Ids
    <3> QED  BY <3>1, <3>2, <3>3 DEF Passes
  <2>2. CASE \A i \in Ids : nodes[i].status # "skipped"
    <3>1. Moves(Blocked(nodes), "skipped")
      BY <1>0, <2>2, SkipSteps
    <3>2. PICK H \in SUBSET Ids :
            /\ \A i \in Ids : i \in H <=> Doomed(nodes, H, i)
            /\ Blocked(nodes) = {i \in Ids : nodes[i].status = "pending" /\ i \in H}
      BY NodesDag, BlockedSolves DEF Ids
    <3>3. k \in Blocked(nodes)
      BY <1>0, <2>2, <3>1 DEF Moves, Restated, Ids
    <3>4. PICK i \in Blocked(nodes) : nodes[i].deps \cap Blocked(nodes) = {}
      BY <3>2, <3>3 DEF Acyclic
    <3>5. i \in Ids /\ nodes[i].status = "pending" /\ Doomed(nodes, H, i)
      BY <3>2, <3>4
    <3>6. PICK d \in nodes[i].deps : d \in H
      BY <3>5 DEF Doomed
    <3>7. d \in Ids /\ d \notin Blocked(nodes) /\ Doomed(nodes, H, d)
      BY <3>2, <3>4, <3>6
    <3>8. nodes[d].status = "error"
      BY <2>2, <3>2, <3>6, <3>7 DEF Doomed
    <3>9. nodes'[d].status = "error"
      BY <3>1, <3>7, <3>8 DEF Moves, Restated, Ids
    <3> QED  BY <3>5, <3>6, <3>7, <3>8, <3>9
  <2> QED  BY <2>1, <2>2
<1>2. PICK e \in Ids, j \in Ids :
        nodes[e].status = "error" /\ e \in nodes[j].deps /\ nodes'[e].status = "error"
  BY <1>1
<1>3. e \in nodes'[j].deps
  BY <1>2, DepsKept
<1> QED  BY <1>0, <1>2, <1>3

LEMMA LastJudgedStep ==
  ASSUME Base, LastJudged, Next
  PROVE  LastJudged'
<1> USE DEF Base, GraphInv, FlowInv
<1> DEFINE Judged(x, v, w) == IsLast(x, w) /\ nodes[v].kind = "verify" /\ nodes[v].deps = {x}
<1>0. Ids \subseteq Ids' /\ \A j \in Ids : nodes'[j].kind = nodes[j].kind
  BY KindKept
<1>1. ASSUME NEW w \in Ids', nodes'[w].kind = "general", ~Repaired(w)'
      PROVE  /\ w \in Ids /\ nodes[w].kind = "general" /\ ~Repaired(w)
             /\ \E x, v \in Ids : Judged(x, v, w) /\ nodes[x].kind \in Writers
  <2>1. w \in Ids /\ nodes[w].kind = "general"
    BY <1>1, KindKept
  <2>2. ~Repaired(w)
    BY <1>0, <1>1, OnlyGrows DEF Repaired
  <2>3. PICK x \in Ids, v \in Ids : Judged(x, v, w)
    BY <2>1, <2>2 DEF LastJudged
  <2>4. nodes[x].kind \in Writers
    BY <2>3 DEF OneJudged
  <2> QED  BY <2>1, <2>2, <2>3, <2>4
<1>2. CASE Kept
  <2>1. Ids' = Ids /\ \A j \in Ids : SameRole(nodes'[j], nodes[j])
    BY <1>2, KeptRoles
  <2>2. ASSUME NEW w \in Ids', nodes'[w].kind = "general", ~Repaired(w)'
        PROVE  \E x, v \in Ids' : Judged(x, v, w)'
    <3>1. PICK x \in Ids, v \in Ids : Judged(x, v, w)
      BY <1>1, <2>2
    <3>2. Judged(x, v, w)'
      BY <2>1, <3>1 DEF IsLast, SameRole
    <3> QED  BY <1>0, <3>2
  <2> QED  BY <2>2 DEF LastJudged
<1>3. ASSUME NEW i \in Ids, NEW w0 \in Ids, SpawnRework(i), Reworked(i, w0),
             NEW w \in Ids', nodes'[w].kind = "general", ~Repaired(w)'
      PROVE  \E x, v \in Ids' : Judged(x, v, w)'
  <2> DEFINE r == Len(nodes) + 1
  <2>1. /\ Ids' = Ids \cup {r, r + 1} /\ r \notin Ids /\ r + 1 \notin Ids
        /\ \A j \in Ids : j < r
    BY <1>3, ReworkIds
  <2>2. /\ nodes'[r].lineage = nodes[w0].lineage /\ nodes'[r + 1].lineage = r + 1
        /\ nodes'[r + 1].kind = "verify" /\ nodes'[r + 1].deps = {r} /\ nodes[i].kind = "verify"
        /\ \A j \in Ids : Moved(nodes'[j], nodes[j], i, r + 1) /\ SameNode(nodes'[j], nodes[j])
    BY <1>3 DEF Reworked, Fresh
  <2>3. r \in Nat
    BY Typed DEF TypeInv
  <2> HIDE DEF r
  <2>4. w \in Ids
    BY <1>1, <1>3
  <2>5. PICK x \in Ids, v \in Ids : Judged(x, v, w) /\ nodes[x].kind \in Writers
    BY <1>1, <1>3
  <2>6. CASE nodes[w0].lineage = w
    <3>1. \A j \in Ids' : nodes'[j].lineage = w => j <= r
      <4>1. \A j \in Ids : j <= r
        BY <2>1, <2>3 DEF Ids
      <4>2. r <= r
        BY <2>3
      <4> QED  BY <2>1, <2>2, <2>4, <4>1, <4>2
    <3>2. nodes'[r].lineage = w /\ nodes'[r + 1].kind = "verify" /\ nodes'[r + 1].deps = {r}
      BY <2>2, <2>6
    <3>3. \E x1, v1 \in Ids' :
            /\ nodes'[x1].lineage = w /\ \A j \in Ids' : nodes'[j].lineage = w => j <= x1
            /\ nodes'[v1].kind = "verify" /\ nodes'[v1].deps = {x1}
      BY <2>1, <3>1, <3>2
    <3> QED  BY <3>3 DEF IsLast
  <2>7. CASE nodes[w0].lineage # w
    <3>1. IsLast(x, w)'
      BY <2>1, <2>2, <2>4, <2>5, <2>7 DEF IsLast, SameNode
    <3>2. x # i
      BY <2>2, <2>5 DEF Writers
    <3>3. nodes'[v].kind = "verify" /\ nodes'[v].deps = {x}
      BY <2>2, <2>5, <3>2 DEF Moved, SameNode
    <3> QED  BY <1>0, <3>1, <3>3
  <2> QED  BY <2>6, <2>7
<1>4. ASSUME NEW i \in Ids, SpawnFix(i), FixedUp(i),
             NEW w \in Ids', nodes'[w].kind = "general", ~Repaired(w)'
      PROVE  \E x, v \in Ids' : Judged(x, v, w)'
  <2> DEFINE f == Len(nodes) + 1
  <2>1. Ids' = Ids \cup {f} /\ f \notin Ids
    BY <1>4, FixIds
  <2>2. /\ nodes'[f].lineage = f /\ nodes'[f].repairs = i /\ nodes[i].kind # "fix"
        /\ \A j \in Ids : Moved(nodes'[j], nodes[j], i, f) /\ SameNode(nodes'[j], nodes[j])
    BY <1>4 DEF FixedUp, Fresh, SpawnFix, Fixable
  <2> HIDE DEF f
  <2>3. w \in Ids
    BY <1>1, <1>4
  <2>4. PICK x \in Ids, v \in Ids : Judged(x, v, w)
    BY <1>1, <1>4
  <2>5. x # i
    <3>1. w # i
      BY <1>4, <2>1, <2>2 DEF Repaired
    <3>2. nodes[x].lineage = w
      BY <2>4 DEF IsLast
    <3> QED  BY <2>2, <3>1, <3>2 DEF Rooted, IsRework
  <2>6. IsLast(x, w)'
    BY <2>1, <2>2, <2>3, <2>4 DEF IsLast, SameNode
  <2>7. nodes'[v].kind = "verify" /\ nodes'[v].deps = {x}
    BY <2>2, <2>4, <2>5 DEF Moved, SameNode
  <2> QED  BY <1>0, <2>6, <2>7
<1>5. ASSUME ~Kept, NEW w \in Ids', nodes'[w].kind = "general", ~Repaired(w)'
      PROVE  \E x, v \in Ids' : Judged(x, v, w)'
  BY <1>3, <1>4, <1>5, KeptOrGrown
<1> QED  BY <1>2, <1>5 DEF LastJudged

(* A node that becomes done was settled, by one of these.                  *)
LEMMA DoneSteps ==
  ASSUME Base, Next, NEW v \in Ids, nodes[v].status = "running", nodes'[v].status = "done"
  PROVE  \/ Succeed(v) \/ AcceptFindings(v)
         \/ \E w \in Ids : SpawnRework(v) /\ Reworked(v, w)
<1> USE DEF Base, GraphInv, FlowInv
<1> DEFINE P == \/ Succeed(v) \/ AcceptFindings(v)
                \/ \E w \in Ids : SpawnRework(v) /\ Reworked(v, w)
<1>1. ~Quiet
  BY DEF Quiet
<1>2. ~(Start /\ Started)
  BY DEF Started
<1>3. ASSUME NEW is, NEW s \in {"pending", "skipped", "error"}, Restated(nodes', nodes, is, s)
      PROVE  FALSE
  BY <1>3 DEF Restated, Ids
<1>4. ~Moves(Blocked(nodes), "skipped") /\ ~Moves(Unstarted, "skipped") /\ ~Moves(Late, "error")
  BY <1>3 DEF Moves
<1>5. ASSUME NEW i \in Ids
      PROVE  ~Settled(i, {i}, "pending") /\ ~Settled(i, {i}, "error")
  BY <1>3 DEF Settled
<1>6. ASSUME NEW i \in Ids, Succeed(i) \/ AcceptFindings(i), Settled(i, Finished(i), "done")
      PROVE  P
  <2>1. v \in Finished(i)
    BY <1>6 DEF Settled, Restated, Ids
  <2>2. v = i
    BY <2>1 DEF Finished
  <2> QED  BY <1>6, <2>2
<1>7. ASSUME NEW i \in Ids, NEW w \in Ids, SpawnRework(i), Reworked(i, w)
      PROVE  P
  <2>1. v \in Finished(i)
    BY <1>7 DEF Reworked
  <2>2. v = i
    BY <2>1 DEF Finished
  <2> QED  BY <1>7, <2>2
<1>8. ASSUME NEW i \in Ids, SpawnFix(i), FixedUp(i) PROVE FALSE
  BY <1>8 DEF FixedUp
<1>9. ASSUME NEW i \in Ids, NEW t, NEW a, Talked(i, t, a) PROVE FALSE
  BY <1>9 DEF Talked, Worked, Ids
<1> QED  BY <1>1, <1>2, <1>4, <1>5, <1>6, <1>7, <1>8, <1>9, StepFacts

LEMMA DoneForStep ==
  ASSUME Base, DoneFor, Next
  PROVE  DoneFor'
<1> USE DEF Base, GraphInv, FlowInv
<1> SUFFICES ASSUME NEW v \in Ids', nodes'[v].kind = "verify", nodes'[v].status = "done"
             PROVE  \/ nodes'[v].answer = "pass" \/ Repaired(v)' \/ unresolved' # {}
                    \/ \E x \in nodes'[v].deps : \E r \in Ids' :
                         r > x /\ nodes'[r].lineage = nodes'[x].lineage
  BY DEF DoneFor
<1>0. v \in Ids /\ nodes[v].kind = "verify" /\ Ids \subseteq Ids'
  BY KindKept
<1>1. Passes(v) /\ Works(v)
  BY <1>0, StatusSteps, WorkSteps
<1>2. \A j \in Ids : nodes'[j].repairs = nodes[j].repairs /\ nodes'[j].lineage = nodes[j].lineage
  BY OnlyGrows
<1>3. (\E f \in Ids : nodes[f].repairs = v) => Repaired(v)'
  BY <1>0, <1>2 DEF Repaired
<1>4. PICK w \in Ids : nodes[v].deps = {w} /\ nodes[w].kind \in Writers
  BY <1>0 DEF OneJudged
<1>5. CASE nodes[v].status = "done"
  <2>1. nodes'[v].answer = nodes[v].answer
    <3>1. nodes[v].task = "none"
      BY <1>0, <1>5 DEF Manned
    <3> QED  BY <1>1, <1>5, <3>1 DEF Works, SameWork, TalkStep, Selected, Ready
  <2>2. nodes'[v].deps = nodes[v].deps
    BY <1>0, <1>5, DoneKeepsDeps DEF DepsDone
  <2>3. \/ nodes[v].answer = "pass" \/ Repaired(v) \/ unresolved # {}
        \/ \E x \in nodes[v].deps : \E r \in Ids : r > x /\ nodes[r].lineage = nodes[x].lineage
    BY <1>0, <1>5 DEF DoneFor
  <2>4. ASSUME NEW x \in nodes[v].deps, NEW r \in Ids, r > x, nodes[r].lineage = nodes[x].lineage
        PROVE  \E y \in nodes'[v].deps : \E s \in Ids' : s > y /\ nodes'[s].lineage = nodes'[y].lineage
    BY <1>0, <1>2, <1>4, <2>2, <2>4
  <2>5. unresolved # {} => unresolved' # {}
    BY OnlyGrows
  <2> QED  BY <1>3, <2>1, <2>3, <2>4, <2>5 DEF Repaired
<1>6. CASE nodes[v].status = "running"
  <2>1. CASE Succeed(v)
    <3>1. nodes[v].answer = "pass"
      BY <1>0, <2>1 DEF Succeed, Manned
    <3>2. nodes[v].task = "none"
      BY <1>0, <3>1 DEF Manned
    <3>3. nodes'[v].answer = "pass"
      BY <1>1, <1>6, <3>1, <3>2 DEF Works, SameWork, TalkStep, Selected, Ready
    <3> QED  BY <3>3
  <2>2. CASE AcceptFindings(v)
    BY <2>2 DEF AcceptFindings
  <2>3. ASSUME NEW u \in Ids, SpawnRework(v), Reworked(v, u)
        PROVE  \E x \in nodes'[v].deps : \E r \in Ids' : r > x /\ nodes'[r].lineage = nodes'[x].lineage
    <3> DEFINE r == Len(nodes) + 1
    <3>1. Ids' = Ids \cup {r, r + 1} /\ \A j \in Ids : j < r
      BY <1>0, <2>3, ReworkIds
    <3>2. /\ nodes'[r].lineage = nodes[u].lineage /\ nodes[v].deps = {u}
          /\ nodes[u].kind \in Writers
          /\ \A j \in Ids : Moved(nodes'[j], nodes[j], v, r + 1)
      BY <2>3 DEF Reworked, Fresh
    <3>3. r \in Nat
      BY Typed DEF TypeInv
    <3> HIDE DEF r
    <3>4. u # v
      BY <1>0, <3>2 DEF Writers
    <3>5. nodes'[v].deps = {u}
      BY <1>0, <3>2, <3>4 DEF Moved
    <3>6. r > u
      BY <3>1, <3>3 DEF Ids
    <3> QED  BY <1>2, <3>1, <3>2, <3>5, <3>6
  <2> QED  BY <1>0, <1>6, <2>1, <2>2, <2>3, DoneSteps
<1>7. CASE nodes[v].status = "error"
  BY <1>1, <1>3, <1>7 DEF Passes
<1> QED  BY <1>1, <1>5, <1>6, <1>7 DEF Passes

LEMMA EndsWell ==
  ASSUME Base, Left, SkippedForError, LastJudged, DoneFor
  PROVE  EndsSound
<1> USE DEF Base, GraphInv, FlowInv
<1>1. SettledAtEnd
  BY DEF Left
<1>2. ConvergedSkipsNothing
  <2>1. SUFFICES ASSUME RunConverged, NEW i \in Ids PROVE nodes[i].status = "done"
    BY DEF ConvergedSkipsNothing
  <2>2. aborted = "no" /\ \A j \in Ids : nodes[j].status \in {"done", "skipped"}
    BY <2>1 DEF RunConverged, Converged, Ids
  <2> QED  BY <2>2 DEF SkippedForError
<1>3. CleanMeansVerified
  <2>1. SUFFICES ASSUME CleanRun, NEW w \in Ids, Accomplished(w)
                 PROVE  Passed(w) \/ VerifyReplaced(w)
    BY DEF CleanMeansVerified
  <2>2. unresolved = {} /\ \A j \in Ids : nodes[j].status = "done"
    BY <1>2, <2>1 DEF CleanRun, ConvergedSkipsNothing
  <2>3. nodes[w].kind = "general" /\ nodes[w].answer = "ok"
    BY <2>1 DEF Accomplished
  <2>4. ~Repaired(w)
    BY <2>3, NodeFields DEF Repaired, Replaced, Replaces, Ids
  <2>5. PICK x \in Ids, v \in Ids : IsLast(x, w) /\ nodes[v].kind = "verify" /\ nodes[v].deps = {x}
    BY <2>3, <2>4 DEF LastJudged
  <2>6. LastOf(w) = x
    <3>1. \A y \in Ids : IsLast(y, w) => y = x
      BY <2>5 DEF IsLast, Ids
    <3>2. LastOf(w) = CHOOSE y \in Ids : IsLast(y, w)
      BY DEF LastOf, IsLast
    <3> QED  BY <2>5, <3>1, <3>2
  <2>7. \/ nodes[v].answer = "pass" \/ Repaired(v)
        \/ \E r \in Ids : r > x /\ nodes[r].lineage = nodes[x].lineage
    BY <2>2, <2>5 DEF DoneFor
  <2>8. ~\E r \in Ids : r > x /\ nodes[r].lineage = nodes[x].lineage
    BY <2>5 DEF IsLast, Ids
  <2> QED  BY <2>5, <2>6, <2>7, <2>8 DEF Passed, VerifyReplaced, Repaired
<1> QED  BY <1>1, <1>2, <1>3 DEF EndsSound

-----------------------------------------------------------------------------
(*                          The graph of a plan                            *)

(* The generals up to i.                                                   *)
UpTo(G, i) == {j \in G : j <= i}

LEMMA CountSteps ==
  ASSUME NEW G, NEW n \in Nat, G \subseteq 1 .. n
  PROVE  /\ \A i \in Nat : IsFiniteSet(UpTo(G, i)) /\ Cardinality(UpTo(G, i)) \in Nat
         /\ Cardinality(UpTo(G, 0)) = 0 /\ UpTo(G, n) = G
         /\ \A i \in Nat : i + 1 \in G =>
              Cardinality(UpTo(G, i + 1)) = Cardinality(UpTo(G, i)) + 1
         /\ \A i \in Nat : i + 1 \notin G => UpTo(G, i + 1) = UpTo(G, i)
         /\ \A i, j \in Nat : i <= j => Cardinality(UpTo(G, i)) <= Cardinality(UpTo(G, j))
<1>0. \A x \in G : x \in Nat /\ 1 <= x /\ x <= n
  OBVIOUS
<1>1. IsFiniteSet(1 .. n)
  BY FS_Interval
<1>2. ASSUME NEW i \in Nat
      PROVE  IsFiniteSet(UpTo(G, i)) /\ Cardinality(UpTo(G, i)) \in Nat
  <2>1. UpTo(G, i) \subseteq 1 .. n
    BY DEF UpTo
  <2> QED  BY <1>1, <2>1, FS_Subset, FS_CardinalityType
<1>3. UpTo(G, 0) = {} /\ UpTo(G, n) = G
  <2>1. \A x \in G : ~(x <= 0) /\ x <= n
    BY <1>0
  <2> QED  BY <2>1 DEF UpTo
<1>4. ASSUME NEW i \in Nat, i + 1 \in G
      PROVE  Cardinality(UpTo(G, i + 1)) = Cardinality(UpTo(G, i)) + 1
  <2>1. UpTo(G, i + 1) = UpTo(G, i) \cup {i + 1} /\ i + 1 \notin UpTo(G, i)
    <3>1. \A x \in G : x <= i + 1 <=> x <= i \/ x = i + 1
      BY <1>0
    <3>2. ~(i + 1 <= i)
      OBVIOUS
    <3> QED  BY <1>4, <3>1, <3>2 DEF UpTo
  <2> QED  BY <1>2, <2>1, FS_AddElement
<1>5. ASSUME NEW i \in Nat, i + 1 \notin G
      PROVE  UpTo(G, i + 1) = UpTo(G, i)
  <2>1. \A x \in G : x <= i + 1 <=> x <= i
    BY <1>0, <1>5
  <2> QED  BY <2>1 DEF UpTo
<1>6. ASSUME NEW i \in Nat, NEW j \in Nat, i <= j
      PROVE  Cardinality(UpTo(G, i)) <= Cardinality(UpTo(G, j))
  <2>1. UpTo(G, i) \subseteq UpTo(G, j)
    <3>1. \A x \in G : x <= i => x <= j
      BY <1>0, <1>6
    <3> QED  BY <3>1 DEF UpTo
  <2> QED  BY <1>2, <2>1, FS_Subset
<1> QED  BY <1>2, <1>3, <1>4, <1>5, <1>6, FS_EmptySet

(* The generals of a plan are numbered from one, without a gap.            *)
LEMMA GeneralsNumbered ==
  ASSUME NEW plan, Len(plan) \in Nat
  PROVE  LET G == Generals(plan)
         IN  /\ Cardinality(G) \in Nat
             /\ \A k \in 1 .. Cardinality(G) : NthGeneral(plan, k) \in G
             /\ \A i \in G : \E k \in 1 .. Cardinality(G) : NthGeneral(plan, k) = i
<1> DEFINE G == Generals(plan)
           N(i) == Cardinality(UpTo(G, i))
<1>0. G \subseteq 1 .. Len(plan)
  BY DEF Generals
<1>1. ASSUME NEW k PROVE NthGeneral(plan, k) = CHOOSE i \in G : N(i) = k
  BY DEF NthGeneral, UpTo
<1> HIDE DEF G
<1>2. /\ \A i \in Nat : N(i) \in Nat
      /\ N(0) = 0 /\ UpTo(G, Len(plan)) = G
      /\ \A i \in Nat : i + 1 \in G => N(i + 1) = N(i) + 1
      /\ \A i \in Nat : i + 1 \notin G => N(i + 1) = N(i)
      /\ \A i, j \in Nat : i <= j => N(i) <= N(j)
  <2>1. \A i \in Nat : i + 1 \notin G => N(i + 1) = N(i)
    BY <1>0, CountSteps
  <2> QED  BY <1>0, <2>1, CountSteps
<1> HIDE DEF N
<1>3. N(Len(plan)) = Cardinality(G)
  BY <1>2 DEF N
<1>4. \A n \in Nat : \A k \in 1 .. N(n) : \E i \in G : N(i) = k
  <2> DEFINE S == {n \in Nat : \A k \in 1 .. N(n) : \E i \in G : N(i) = k}
  <2>1. 0 \in S
    BY <1>2
  <2>2. ASSUME NEW n \in Nat, n \in S PROVE n + 1 \in S
    <3>1. ASSUME NEW k \in 1 .. N(n + 1) PROVE \E i \in G : N(i) = k
      <4>1. CASE n + 1 \in G
        <5>1. k \in 1 .. N(n) \/ k = N(n + 1)
          BY <1>2, <4>1
        <5> QED  BY <2>2, <4>1, <5>1
      <4>2. CASE n + 1 \notin G
        BY <1>2, <2>2, <4>2
      <4> QED  BY <4>1, <4>2
    <3> QED  BY <3>1
  <2> HIDE DEF S
  <2>3. \A n \in Nat : n \in S
    BY <2>1, <2>2, InductionOnSets
  <2> QED  BY <2>3 DEF S
<1>5. \A k \in 1 .. Cardinality(G) : NthGeneral(plan, k) \in G /\ N(NthGeneral(plan, k)) = k
  <2>1. ASSUME NEW k \in 1 .. Cardinality(G) PROVE \E i \in G : N(i) = k
    BY <1>3, <1>4
  <2> QED  BY <1>1, <2>1
<1>6. \A i, j \in G : N(i) = N(j) => i = j
  <2>1. ASSUME NEW i \in G, NEW j \in G, i < j PROVE N(i) < N(j)
    <3>1. i \in Nat /\ j - 1 \in Nat /\ i <= j - 1 /\ (j - 1) + 1 = j
      BY <1>0, <2>1
    <3>2. N((j - 1) + 1) = N(j - 1) + 1
      BY <1>2, <3>1
    <3>3. N(i) <= N(j - 1) /\ N(i) \in Nat /\ N(j - 1) \in Nat
      BY <1>2, <3>1
    <3> QED  BY <3>1, <3>2, <3>3
  <2>2. ASSUME NEW i \in G PROVE i \in Nat /\ N(i) \in Nat
    BY <1>0, <1>2
  <2> QED  BY <2>1, <2>2
<1>7. ASSUME NEW i \in G PROVE N(i) \in 1 .. Cardinality(G)
  <2>1. i \in Nat /\ i - 1 \in Nat /\ (i - 1) + 1 = i /\ i <= Len(plan)
    BY <1>0
  <2>2. N((i - 1) + 1) = N(i - 1) + 1 /\ N(i - 1) \in Nat
    BY <1>2, <2>1
  <2>3. N(i) <= N(Len(plan))
    BY <1>2, <2>1
  <2> QED  BY <1>2, <1>3, <2>1, <2>2, <2>3
<1>8. \A i \in G : NthGeneral(plan, N(i)) = i
  BY <1>5, <1>6, <1>7
<1>9. Cardinality(G) \in Nat
  BY <1>2, <1>3
<1> QED  BY <1>5, <1>7, <1>8, <1>9 DEF G

(* What the runs start from: a graph without cycles of which nothing has   *)
(* run; every general has its verify and the merge waits on all of them.   *)
Unrun(x, j) ==
  /\ x.status = "pending" /\ x.retries = 0 /\ x.lineage = j /\ x.rounds = 0
  /\ x.repairs = 0 /\ x.task = "none" /\ x.answer = "none"

Cycleless(is, g) ==
  \A S \in SUBSET is : S # {} => \E i \in S : g[i].deps \cap S = {}

Planned(g, b) ==
  /\ Len(g) \in Nat /\ g \in Seq(NodesOf(Len(g), b))
  /\ \A j \in 1 .. Len(g) :
       /\ Unrun(g[j], j)
       /\ g[j].kind = "verify" =>
            \E w \in 1 .. Len(g) : g[j].deps = {w} /\ g[w].kind = "general"
       /\ g[j].kind = "merge" =>
            \A v \in 1 .. Len(g) : g[v].kind = "verify" => v \in g[j].deps
       /\ g[j].kind = "general" =>
            \E v \in 1 .. Len(g) : g[v].kind = "verify" /\ g[v].deps = {j}
  /\ Cycleless(1 .. Len(g), g)

LEMMA BuiltGraph ==
  ASSUME NEW plan, plan \in Seq(PlanNodes(Len(plan))), NEW b \in Nat,
         Cycleless(1 .. Len(plan), plan)
  PROVE  Planned(BuildGraph(plan), b)
<1>1. PICK n, G, c : n = Len(plan) /\ G = Generals(plan) /\ c = Cardinality(G)
  OBVIOUS
<1>2. n \in Nat /\ \A i \in 1 .. n : plan[i] \in PlanNodes(n)
  BY <1>1, SeqElements
<1>3. /\ c \in Nat
      /\ \A k \in 1 .. c : NthGeneral(plan, k) \in G
      /\ \A i \in G : \E k \in 1 .. c : NthGeneral(plan, k) = i
  BY <1>1, <1>2, GeneralsNumbered
<1>4. G = {i \in 1 .. n : plan[i].kind = "general"}
  BY <1>1 DEF Generals
<1>5. PICK m : m = IF (n + c) - n >= 2 THEN n + c + 1 ELSE n + c
  OBVIOUS
<1>6. m \in Nat /\ n + c <= m /\ m <= n + c + 1
  BY <1>2, <1>3, <1>5
<1>7. BuildGraph(plan) =
        [i \in 1 .. m |->
           IF i <= n THEN Node(i, plan[i].kind, plan[i].scope, plan[i].deps)
           ELSE IF i <= n + c THEN Node(i, "verify", {}, {NthGeneral(plan, i - n)})
           ELSE Node(i, "merge", {}, (n + 1) .. (n + c))]
  BY <1>1, <1>5 DEF BuildGraph, MergeFrom
<1>8. PICK g : g = BuildGraph(plan)
  OBVIOUS
<1>9. /\ \A j \in 1 .. n : g[j] = Node(j, plan[j].kind, plan[j].scope, plan[j].deps)
      /\ \A j \in (n + 1) .. (n + c) : g[j] = Node(j, "verify", {}, {NthGeneral(plan, j - n)})
      /\ \A j \in (n + c + 1) .. m : g[j] = Node(j, "merge", {}, (n + 1) .. (n + c))
  <2>1. ASSUME NEW j \in 1 .. m
        PROVE  g[j] = IF j <= n THEN Node(j, plan[j].kind, plan[j].scope, plan[j].deps)
                      ELSE IF j <= n + c THEN Node(j, "verify", {}, {NthGeneral(plan, j - n)})
                      ELSE Node(j, "merge", {}, (n + 1) .. (n + c))
    BY <1>7, <1>8
  <2>2. ASSUME NEW j \in 1 .. n
        PROVE  g[j] = Node(j, plan[j].kind, plan[j].scope, plan[j].deps)
    <3>1. j \in 1 .. m /\ j <= n
      BY <1>2, <1>3, <1>6
    <3> QED  BY <2>1, <3>1
  <2>3. ASSUME NEW j \in (n + 1) .. (n + c)
        PROVE  g[j] = Node(j, "verify", {}, {NthGeneral(plan, j - n)})
    <3>1. j \in 1 .. m /\ ~(j <= n) /\ j <= n + c
      BY <1>2, <1>3, <1>6
    <3> QED  BY <2>1, <3>1
  <2>4. ASSUME NEW j \in (n + c + 1) .. m
        PROVE  g[j] = Node(j, "merge", {}, (n + 1) .. (n + c))
    <3>1. j \in 1 .. m /\ ~(j <= n) /\ ~(j <= n + c)
      BY <1>2, <1>3, <1>6
    <3> QED  BY <2>1, <3>1
  <2> QED  BY <2>2, <2>3, <2>4
<1>10. \A j \in 1 .. m : j \in 1 .. n \/ j \in (n + 1) .. (n + c) \/ j \in (n + c + 1) .. m
  BY <1>2, <1>3, <1>6
<1>11. ASSUME NEW j \in 1 .. n
       PROVE  /\ g[j] \in NodesOf(m, b) /\ Unrun(g[j], j)
              /\ g[j].kind \in {"explore", "general"} /\ g[j].kind = plan[j].kind
              /\ g[j].deps = plan[j].deps /\ g[j].deps \subseteq 1 .. n
  <2>1. plan[j] \in PlanNodes(n)
    BY <1>1, <1>2
  <2>2. /\ plan[j].kind \in {"explore", "general"} /\ plan[j].scope \in SUBSET {"a", "b"}
        /\ plan[j].deps \subseteq 1 .. n
    BY <2>1 DEF PlanNodes
  <2>3. j \in 1 .. m /\ 1 .. n \subseteq 1 .. m
    BY <1>2, <1>3, <1>6
  <2>4. PICK k, s, D : k = plan[j].kind /\ s = plan[j].scope /\ D = plan[j].deps
    OBVIOUS
  <2>5. /\ k \in {"explore", "general"} /\ s \in SUBSET {"a", "b"}
        /\ D \subseteq 1 .. n /\ D \subseteq 1 .. m
    BY <2>2, <2>3, <2>4
  <2>6. g[j] = Node(j, k, s, D)
    BY <1>9, <2>4
  <2> QED  BY <2>3, <2>4, <2>5, <2>6 DEF Node, NodesOf, Unrun, Kinds, Statuses
<1>12. ASSUME NEW j \in (n + 1) .. (n + c)
       PROVE  /\ g[j] \in NodesOf(m, b) /\ Unrun(g[j], j)
              /\ g[j].kind = "verify" /\ g[j].deps = {NthGeneral(plan, j - n)}
              /\ NthGeneral(plan, j - n) \in G /\ g[j].deps \subseteq 1 .. n
  <2>1. PICK w : w = NthGeneral(plan, j - n)
    OBVIOUS
  <2>2. j - n \in 1 .. c
    BY <1>2, <1>3
  <2>3. w \in G
    BY <1>3, <2>1, <2>2
  <2>4. w \in 1 .. n
    BY <1>4, <2>3
  <2>5. j \in 1 .. m /\ w \in 1 .. m
    BY <1>2, <1>3, <1>6, <2>4
  <2>6. g[j] = Node(j, "verify", {}, {w})
    BY <1>9, <2>1
  <2> QED  BY <2>1, <2>3, <2>4, <2>5, <2>6 DEF Node, NodesOf, Unrun, Kinds, Statuses
<1>13. ASSUME NEW j \in (n + c + 1) .. m
       PROVE  /\ g[j] \in NodesOf(m, b) /\ Unrun(g[j], j)
              /\ g[j].kind = "merge" /\ g[j].deps = (n + 1) .. (n + c)
  <2>1. PICK D : D = (n + 1) .. (n + c)
    OBVIOUS
  <2>2. D \subseteq 1 .. m /\ j \in 1 .. m
    BY <1>2, <1>3, <1>6, <2>1
  <2>3. g[j] = Node(j, "merge", {}, D)
    BY <1>9, <2>1
  <2> QED  BY <2>1, <2>2, <2>3 DEF Node, NodesOf, Unrun, Kinds, Statuses
<1>14. g \in [1 .. m -> NodesOf(m, b)]
  <2>1. \A j \in 1 .. m : g[j] \in NodesOf(m, b)
    BY <1>10, <1>11, <1>12, <1>13
  <2> QED  BY <1>7, <1>8, <2>1
<1>15. g \in Seq(NodesOf(m, b)) /\ Len(g) = m
  BY <1>6, <1>14, MadeSeq
<1>16. ASSUME NEW j \in 1 .. m, g[j].kind = "verify"
       PROVE  j \in (n + 1) .. (n + c) /\ \E w \in 1 .. m : g[j].deps = {w} /\ g[w].kind = "general"
  <2>1. j \in (n + 1) .. (n + c)
    BY <1>10, <1>11, <1>13, <1>16
  <2>2. PICK w \in G : g[j].deps = {w}
    BY <1>12, <2>1
  <2>3. w \in 1 .. n /\ plan[w].kind = "general"
    BY <1>4, <2>2
  <2>4. w \in 1 .. m
    BY <1>2, <1>3, <1>6, <2>3
  <2> QED  BY <1>11, <2>1, <2>2, <2>3, <2>4
<1>17. ASSUME NEW j \in 1 .. m, g[j].kind = "merge", NEW v \in 1 .. m, g[v].kind = "verify"
       PROVE  v \in g[j].deps
  <2>1. j \in (n + c + 1) .. m
    BY <1>10, <1>11, <1>12, <1>17
  <2> QED  BY <1>13, <1>16, <1>17, <2>1
<1>18. ASSUME NEW j \in 1 .. m, g[j].kind = "general"
       PROVE  \E v \in 1 .. m : g[v].kind = "verify" /\ g[v].deps = {j}
  <2>1. j \in 1 .. n /\ plan[j].kind = "general"
    BY <1>10, <1>11, <1>12, <1>13, <1>18
  <2>2. PICK k \in 1 .. c : NthGeneral(plan, k) = j
    BY <1>3, <1>4, <2>1
  <2>3. n + k \in (n + 1) .. (n + c) /\ n + k \in 1 .. m /\ (n + k) - n = k
    BY <1>2, <1>3, <1>6
  <2> QED  BY <1>12, <2>2, <2>3
<1>19. \A j \in 1 .. m : Unrun(g[j], j)
  BY <1>10, <1>11, <1>12, <1>13
<1>20. Cycleless(1 .. m, g)
  <2>1. SUFFICES ASSUME NEW S \in SUBSET (1 .. m), S # {}
                 PROVE  \E i \in S : g[i].deps \cap S = {}
    BY DEF Cycleless
  <2>2. CASE S \cap (1 .. n) # {}
    <3>1. PICK i \in S \cap (1 .. n) : plan[i].deps \cap (S \cap (1 .. n)) = {}
      BY <1>1, <2>2 DEF Cycleless
    <3> QED  BY <1>11, <3>1
  <2>3. CASE S \cap (1 .. n) = {} /\ S \cap ((n + 1) .. (n + c)) # {}
    <3>1. PICK i \in S \cap ((n + 1) .. (n + c)) : TRUE
      BY <2>3
    <3> QED  BY <1>12, <2>3, <3>1
  <2>4. CASE S \cap (1 .. n) = {} /\ S \cap ((n + 1) .. (n + c)) = {}
    <3>1. PICK i \in S : i \in (n + c + 1) .. m
      BY <1>10, <2>1, <2>4
    <3> QED  BY <1>13, <2>4, <3>1
  <2> QED  BY <2>2, <2>3, <2>4
<1>21. Planned(g, b)
  BY <1>6, <1>15, <1>16, <1>17, <1>18, <1>19, <1>20 DEF Planned
<1> QED  BY <1>8, <1>21

-----------------------------------------------------------------------------
(*                           What always holds                             *)

IInv ==
  /\ Base
  /\ Together /\ WritersApart
  /\ Counted /\ Traced
  /\ Awaited /\ Rejudged
  /\ OkAfterAll /\ MergesComplete
  /\ Left /\ SkippedForError /\ LastJudged /\ DoneFor

LEMMA InitInv ==
  ASSUME Init
  PROVE  IInv
<1>1. /\ opts \in Options /\ opts.fixes \in Nat /\ opts.rounds \in Nat
      /\ opts.plan \in Seq(PlanNodes(Len(opts.plan)))
      /\ Cycleless(1 .. Len(opts.plan), opts.plan)
  BY OptionsAssumption DEF Init, Cycleless
<1>2. /\ nodes = BuildGraph(opts.plan)
      /\ inFlight = {} /\ chosen = {} /\ handles = {} /\ unresolved = {}
      /\ fixLeft = opts.fixes /\ aborted = "no" /\ pc = "top"
  BY DEF Init
<1>3. /\ Len(nodes) \in Nat /\ nodes \in Seq(NodesOf(Len(nodes), opts.rounds))
      /\ \A j \in Ids :
           /\ Unrun(nodes[j], j)
           /\ nodes[j].kind = "verify" =>
                \E w \in Ids : nodes[j].deps = {w} /\ nodes[w].kind = "general"
           /\ nodes[j].kind = "merge" =>
                \A v \in Ids : nodes[v].kind = "verify" => v \in nodes[j].deps
           /\ nodes[j].kind = "general" =>
                \E v \in Ids : nodes[v].kind = "verify" /\ nodes[v].deps = {j}
      /\ Cycleless(Ids, nodes)
  <2>1. PICK p, b : p = opts.plan /\ b = opts.rounds
    OBVIOUS
  <2>2. Planned(BuildGraph(p), b)
    BY <1>1, <2>1, BuiltGraph
  <2>3. Planned(nodes, opts.rounds)
    BY <1>2, <2>1, <2>2
  <2> QED  BY <2>3 DEF Planned, Ids
<1>4. TypeInv
  BY <1>1, <1>2, <1>3, NodeTypes DEF TypeInv, TypeOK
<1>5. \A j \in Ids : /\ nodes[j].status = "pending" /\ nodes[j].lineage = j /\ nodes[j].repairs = 0
                     /\ nodes[j].task = "none" /\ nodes[j].answer = "none"
  BY <1>3 DEF Unrun
<1>6. Acyclic
  BY <1>3 DEF Acyclic, Cycleless
<1>7. OneJudged
  BY <1>3 DEF OneJudged, Writers
<1>8. Rooted /\ Rejudged /\ Traced
  BY <1>5 DEF Rooted, Rejudged, Traced, IsRework
<1>9. Replaced /\ Tracked /\ DepsDone /\ Manned /\ DrainCancelled
  BY <1>2, <1>5 DEF Replaced, Tracked, DepsDone, Manned, DrainCancelled
<1>10. Selected
  BY <1>2 DEF Selected
<1>11. Together /\ WritersApart
  BY <1>2, <1>5 DEF Together, WritersApart, Running
<1>12. Counted
  <2>1. Numbering([i \in Ids |-> 0])
    BY <1>5 DEF Numbering, IsRework
  <2>2. {i \in Ids : nodes[i].repairs # 0} = {}
    BY <1>5
  <2>3. Cardinality({i \in Ids : nodes[i].repairs # 0}) = 0
    BY <2>2, FS_EmptySet
  <2>4. [i \in Ids |-> 0] \in [Ids -> Nat]
    OBVIOUS
  <2> QED  BY <1>1, <1>2, <2>1, <2>3, <2>4 DEF Counted
<1>13. Awaited
  BY <1>3 DEF Awaited
<1>14. OkAfterAll /\ MergesComplete
  BY <1>5 DEF OkAfterAll, MergesComplete
<1>15. Left /\ SkippedForError
  BY <1>2, <1>5 DEF Left, SettledAtEnd, SkippedForError
<1>16. LastJudged
  <2>1. ASSUME NEW w \in Ids PROVE IsLast(w, w)
    BY <1>5 DEF IsLast, Ids
  <2> QED  BY <1>3, <2>1 DEF LastJudged
<1>17. DoneFor
  BY <1>5 DEF DoneFor
<1> QED
  BY <1>4, <1>6, <1>7, <1>8, <1>9, <1>10, <1>11, <1>12, <1>13, <1>14, <1>15, <1>16, <1>17
     DEF IInv, Base, GraphInv, FlowInv

LEMMA StutterInv ==
  ASSUME IInv, UNCHANGED vars
  PROVE  IInv'
<1>1. /\ nodes' = nodes /\ opts' = opts /\ inFlight' = inFlight /\ chosen' = chosen
      /\ fixLeft' = fixLeft /\ handles' = handles /\ unresolved' = unresolved
      /\ aborted' = aborted /\ pc' = pc
  BY DEF vars
<1>2. Ids' = Ids
  BY <1>1 DEF Ids
<1> USE DEF IInv, Base, GraphInv, FlowInv
<1>3. TypeInv'
  BY <1>1, <1>2 DEF TypeInv, TypeOK, NodeType
<1>4. Acyclic' /\ OneJudged' /\ Rooted' /\ Replaced'
  BY <1>1, <1>2 DEF Acyclic, OneJudged, Rooted, Replaced, Replaces
<1>5. Tracked' /\ DepsDone' /\ Manned' /\ Selected' /\ DrainCancelled'
  BY <1>1, <1>2 DEF Tracked, DepsDone, Manned, Selected, DrainCancelled
<1>6. Together' /\ WritersApart'
  BY <1>1, <1>2 DEF Together, WritersApart, Running
<1>7. Counted' /\ Traced'
  <2>1. Counted'
    BY <1>1, <1>2 DEF Counted, Numbering
  <2>2. Traced'
    BY <1>1, <1>2 DEF Traced
  <2> QED  BY <2>1, <2>2
<1>8. Awaited' /\ Rejudged' /\ OkAfterAll' /\ MergesComplete'
  BY <1>1, <1>2 DEF Awaited, Rejudged, OkAfterAll, MergesComplete
<1>9. Left' /\ SkippedForError'
  BY <1>1, <1>2 DEF Left, SettledAtEnd, SkippedForError
<1>10. LastJudged'
  BY <1>1, <1>2 DEF LastJudged, IsLast, Repaired
<1>11. DoneFor'
  BY <1>1, <1>2 DEF DoneFor, Repaired
<1> QED  BY <1>3, <1>4, <1>5, <1>6, <1>7, <1>8, <1>9, <1>10, <1>11

LEMMA StepInv ==
  ASSUME IInv, Next
  PROVE  IInv'
<1> USE DEF IInv
<1>1. Base'
  BY BaseStep
<1>2. Together' /\ WritersApart'
  BY RunnersStep
<1>3. Counted' /\ Traced' /\ Awaited' /\ Rejudged'
  BY CountedStep, TracedStep, AwaitedStep, RejudgedStep
<1>4. OkAfterAll' /\ MergesComplete'
  BY OkAfterAllStep, MergesCompleteStep
<1>5. Left' /\ SkippedForError'
  BY LeftStep, SkippedForErrorStep
<1>6. LastJudged' /\ DoneFor'
  BY LastJudgedStep, DoneForStep
<1> QED  BY <1>1, <1>2, <1>3, <1>4, <1>5, <1>6

(* The invariant the theorems below read their properties off.             *)
THEOREM Inductive == Spec => []IInv
<1>1. Init => IInv
  BY InitInv
<1>2. IInv /\ [Next]_vars => IInv'
  BY StepInv, StutterInv
<1> QED  BY <1>1, <1>2, PTL DEF Spec

(* The graph stays a graph, whatever plan it was built from and whatever   *)
(* reworks and fixes are spliced into it: every dependency and every root  *)
(* is a node of it (spawnFix, spawnReworkPair), and neither the retries,   *)
(* the rounds nor the fix budget (fixBudgetRemaining) leave their ranges.  *)
THEOREM TypeCorrect == Spec => []TypeOK
<1>1. IInv => TypeOK
  BY DEF IInv, Base, GraphInv, TypeInv
<1> QED  BY <1>1, Inductive, PTL

(* Tentacles that run at once may: admit() compares a candidate with those *)
(* in flight and with those it has just selected, and neither its awaits,  *)
(* a retry nor a node spawned meanwhile can put two writers of one scope,  *)
(* or anything beside a merge, to work at the same time.                   *)
THEOREM RunnersApart == Spec => []WritersApart
<1>1. IInv => WritersApart
  BY DEF IInv
<1> QED  BY <1>1, Inductive, PTL

(* A plan of any size and any sequence of verdicts and failures adds at    *)
(* most opts.rounds reworks for each writer (reviewRounds of its lineage)  *)
(* and opts.fixes fixes in all to the graph; a rework of a rework counts   *)
(* for the writer both go back to (reviewLineage).                         *)
THEOREM Bounded == Spec => []SpawnsBounded
<1>1. IInv => RoundsKept /\ FixesKept
  BY CountedBounds DEF IInv, Base, GraphInv
<1>2. IInv => OneLineage
  BY DEF IInv, Traced, OneLineage
<1>3. IInv => SpawnsBounded
  BY <1>1, <1>2 DEF SpawnsBounded
<1> QED  BY <1>3, Inductive, PTL

(* runMergeNode merges no writer whose rework is still to come or under    *)
(* way, because the merge waits on every verify that is still to be heard  *)
(* (spawnReworkPair rewires it), and one that answered without a conflict  *)
(* left no worktree behind it unmerged.                                    *)
THEOREM Merging == Spec => []MergesSound
<1>1. IInv => MergesSound
  BY VerdictsFirst DEF IInv, MergesSound
<1> QED  BY <1>1, Inductive, PTL

(* What the summary says is so, however the loop was left: nothing runs    *)
(* on, what converged skipped nothing, and a clean run has a PASS for the  *)
(* last rework of every general's work, or a fix in the verify's place.    *)
THEOREM Ending == Spec => []EndsSound
<1>1. IInv => EndsSound
  BY EndsWell DEF IInv
<1> QED  BY <1>1, Inductive, PTL

(* What was cancelled spawns nothing: from cancelRun on, no fix, rework or *)
(* retry is added to the graph, whatever was already in flight answers     *)
(* (handleNodeFailure and applyVerifyVerdict look at aborted first).       *)
THEOREM CancelHolds == Spec => CancelledSpawnsNothing
<1>1. ASSUME IInv, [Next]_vars, aborted = "yes"
      PROVE  /\ Len(nodes') = Len(nodes)
             /\ \A i \in Ids : nodes[i].status # "pending" => nodes'[i].status # "pending"
  <2>0. TypeInv /\ OneJudged /\ Manned /\ Tracked /\ Selected
    BY <1>1 DEF IInv, Base, GraphInv, FlowInv
  <2>1. CASE UNCHANGED vars
    BY <2>1 DEF vars
  <2>2. CASE Next
    <3>1. \A i \in Ids : ~SpawnRework(i) /\ ~SpawnFix(i) /\ ~Retry(i)
      BY <1>1 DEF SpawnRework, ReworkAllowed, SpawnFix, Retry, Recoverable
    <3>2. Kept
      BY <2>0, <2>2, <3>1, KeptOrGrown
    <3>3. ASSUME NEW j \in Ids, nodes[j].status # "pending", nodes'[j].status = "pending"
          PROVE  FALSE
      <4>1. ~Quiet /\ ~(Start /\ Started)
        BY <3>3 DEF Quiet, Started
      <4>2. ASSUME NEW is, NEW s \in {"skipped", "done", "error"}, Restated(nodes', nodes, is, s)
            PROVE  FALSE
        BY <3>3, <4>2 DEF Restated, Ids
      <4>3. ~Moves(Blocked(nodes), "skipped") /\ ~Moves(Unstarted, "skipped") /\ ~Moves(Late, "error")
        BY <4>2 DEF Moves
      <4>4. ASSUME NEW i \in Ids
            PROVE  ~Settled(i, Finished(i), "done") /\ ~Settled(i, {i}, "error")
        BY <4>2 DEF Settled
      <4>5. ASSUME NEW i \in Ids, NEW t, NEW a, Talked(i, t, a) PROVE FALSE
        BY <3>3, <4>5 DEF Talked, Worked, Ids
      <4> QED  BY <2>0, <2>2, <3>1, <4>1, <4>3, <4>4, <4>5, StepFacts
    <3> QED  BY <3>2, <3>3 DEF Kept, SameShape
  <2> QED  BY <1>1, <2>1, <2>2
<1>2. IInv /\ [Next]_vars =>
        [aborted = "yes" =>
           /\ Len(nodes') = Len(nodes)
           /\ \A i \in Ids : nodes[i].status # "pending" => nodes'[i].status # "pending"]_vars
  BY <1>1
<1> QED  BY <1>2, Inductive, PTL DEF Spec, CancelledSpawnsNothing
=============================================================================
