--------------------------- MODULE KrakenExecutor ---------------------------
(***************************************************************************)
(* KrakenGraphExecutor (src/cli/kraken/executor.ts): the scheduling loop   *)
(* that runs a task graph with several sub-agents ("tentacles") at once.   *)
(*                                                                         *)
(* Between two awaits the scheduler runs alone, so each of its actions is  *)
(* the code from one await to the next.  Tentacles, their timers and the   *)
(* caller's cancellation interleave with it.                               *)
(*                                                                         *)
(* Not modelled: the radio, the workbench and the memory (no influence on  *)
(* the run), transactional writers (off by default), the worktree rescues  *)
(* of ZELARI_KRAKEN_WORKTREE=auto, and the one re-ask of an unreadable     *)
(* verdict, which always reads an empty result and recovers nothing.       *)
(***************************************************************************)
EXTENDS KrakenGraph

CONSTANT
  Options  \* the runs: a plan, limits of the executor and an environment

(* What may go wrong in a run, opts.faults:                                *)
(* "error"    a tentacle may fail                                          *)
(* "stuck"    a tentacle may ignore its cancellation                       *)
(* "reject"   a verify may answer FAIL, "vague" one without a verdict      *)
(* "conflict" a worktree may not merge                                     *)
(* "veto"     the ROI gate may hold ready nodes back                       *)
(* "cancel"   the caller or the graph timer may cancel the run             *)
(* "cap"      the loop may reach its iteration cap                         *)
Hazards ==
  {"error", "stuck", "reject", "vague", "conflict", "veto", "cancel", "cap"}

(* Planned nodes are explores and generals over a DAG (validateGraph).     *)
PlanNodes(n) ==
  [kind : {"explore", "general"}, scope : SUBSET {"a", "b"}, deps : SUBSET (1 .. n)]

ASSUME OptionsAssumption ==
  \A o \in Options :
    /\ o.plan \in Seq(PlanNodes(Len(o.plan)))
    /\ \A S \in SUBSET (1 .. Len(o.plan)) : S # {} => \E i \in S : o.plan[i].deps \cap S = {}
    /\ o.parallel \in Nat \ {0}  \* tentacles at a time
    /\ o.fixes \in Nat            \* fix nodes a run may spawn
    /\ o.rounds \in Nat           \* rework rounds per writer
    /\ o.worktrees \in BOOLEAN    \* whether writers run in git worktrees
    /\ o.faults \subseteq Hazards

VARIABLES
  opts,        \* what the run was started with, never changed
  nodes,       \* graph.nodes, and the tentacle behind each of them
  inFlight,    \* the nodes the scheduler waits for
  chosen,      \* what the admission under way has selected
  fixLeft,     \* fixBudgetRemaining
  handles,     \* writers whose worktree is not merged (nodeRunState)
  unresolved,  \* the writers accepted with findings, and why
  aborted,     \* "yes" once cancelRun ran
  pc           \* where the scheduler is

vars == <<opts, nodes, inFlight, chosen, fixLeft, handles, unresolved, aborted, pc>>

Ids == 1 .. Len(nodes)

Init ==
  /\ opts \in Options
  /\ nodes = BuildGraph(opts.plan)
  /\ inFlight = {} /\ chosen = {} /\ handles = {} /\ unresolved = {}
  /\ fixLeft = opts.fixes
  /\ aborted = "no"
  /\ pc = "top"

SetStatus(g, is, s) ==
  [i \in 1 .. Len(g) |-> IF i \in is THEN [g[i] EXCEPT !.status = s] ELSE g[i]]

-----------------------------------------------------------------------------
(*                       The top of the loop: admission                    *)

LeaveSettled ==
  /\ pc = "top"
  /\ AllSettled(nodes)
  /\ pc' = "closing"
  /\ UNCHANGED <<opts, nodes, inFlight, chosen, fixLeft, handles, unresolved, aborted>>

(* iterations > maxIterations: cancelRun, then drain.                      *)
LeaveAtCap ==
  /\ "cap" \in opts.faults
  /\ pc = "top" /\ ~AllSettled(nodes)
  /\ aborted' = "yes"
  /\ pc' = "drain"
  /\ UNCHANGED <<opts, nodes, inFlight, chosen, fixLeft, handles, unresolved>>

LeaveCancelled ==
  /\ pc = "top" /\ ~AllSettled(nodes)
  /\ aborted = "yes" /\ inFlight = {}
  /\ pc' = "closing"
  /\ UNCHANGED <<opts, nodes, inFlight, chosen, fixLeft, handles, unresolved, aborted>>

(* The greedy pass over the ready nodes, in insertion order.               *)
Selection_Blind ==
  LET pick[k \in 0 .. Len(nodes)] ==
        IF k = 0 THEN {}
        ELSE LET sel == pick[k - 1]
             IN IF /\ k \in Ready(nodes)
                   /\ Cardinality(inFlight \cup sel) < opts.parallel
                   /\ \A r \in sel : CanRunParallel(nodes[r], nodes[k])
                THEN sel \cup {k} ELSE sel
  IN pick[Len(nodes)]

Selection ==
  LET pick[k \in 0 .. Len(nodes)] ==
        IF k = 0 THEN {}
        ELSE LET sel == pick[k - 1]
             IN IF /\ k \in Ready(nodes)
                   /\ Cardinality(inFlight \cup sel) < opts.parallel
                   /\ \A r \in inFlight \cup sel : CanRunParallel(nodes[r], nodes[k])
                THEN sel \cup {k} ELSE sel
  IN pick[Len(nodes)]

(* admit() up to its awaits; the ROI gate may drop any of the selection.   *)
Admit ==
  /\ pc = "top" /\ ~AllSettled(nodes)
  /\ aborted = "no" \/ inFlight # {}
  /\ \E keep \in SUBSET Selection :
       /\ "veto" \in opts.faults \/ keep = Selection
       /\ chosen' = IF aborted = "no" THEN keep ELSE {}
  /\ pc' = "admitted"
  /\ UNCHANGED <<opts, nodes, inFlight, fixLeft, handles, unresolved, aborted>>

(* Everything admitted is started, whatever happened during the awaits.    *)
Start ==
  /\ pc = "admitted"
  /\ inFlight \cup chosen # {}
  /\ nodes' = [i \in Ids |->
       IF i \in chosen
       THEN [nodes[i] EXCEPT !.status = "running", !.task = "works", !.answer = "none"]
       ELSE nodes[i]]
  /\ inFlight' = inFlight \cup chosen
  /\ chosen' = {}
  /\ pc' = "wait"
  /\ UNCHANGED <<opts, fixLeft, handles, unresolved, aborted>>

SkipBlocked ==
  /\ pc = "admitted"
  /\ inFlight \cup chosen = {}
  /\ Blocked(nodes) # {}
  /\ nodes' = SetStatus(nodes, Blocked(nodes), "skipped")
  /\ pc' = "top"
  /\ UNCHANGED <<opts, inFlight, chosen, fixLeft, handles, unresolved, aborted>>

(* Nothing ready, nothing running, nothing to skip.                        *)
BailOut ==
  /\ pc = "admitted"
  /\ inFlight \cup chosen = {}
  /\ Blocked(nodes) = {}
  /\ pc' = "closing"
  /\ UNCHANGED <<opts, nodes, inFlight, chosen, fixLeft, handles, unresolved, aborted>>

-----------------------------------------------------------------------------
(*                    Settling one node (applyResultInner)                 *)

Settling(i) ==
  /\ pc \in {"wait", "draining"}
  /\ i \in inFlight
  /\ nodes[i].answer # "none"
  /\ inFlight' = inFlight \ {i}
  /\ pc' = IF pc = "wait" THEN "top" ELSE pc
  /\ UNCHANGED <<opts, chosen, handles, aborted>>

(* The node is done, and so is the failed node it repaired.                *)
Done(i) ==
  LET f == nodes[i].repairs
  IN SetStatus(nodes, IF f # 0 /\ nodes[f].status = "error" THEN {i, f} ELSE {i}, "done")

(* writerBehind: a verify has one dep, the writer it judges.               *)
WriterBehind(i) == CHOOSE w \in nodes[i].deps : nodes[w].kind \in Writers

Succeed(i) ==
  /\ Settling(i)
  /\ nodes[i].answer \in {"ok", "pass"}
  /\ nodes' = Done(i)
  /\ UNCHANGED <<fixLeft, unresolved>>

(* An unreadable verdict, or a FAIL whose rework budget is spent or whose  *)
(* run is cancelled, is recorded and accepted.                             *)
ReworkAllowed_Aborted(i) == nodes[nodes[WriterBehind(i)].lineage].rounds < opts.rounds
ReworkAllowed(i) ==
  aborted = "no" /\ nodes[nodes[WriterBehind(i)].lineage].rounds < opts.rounds

AcceptFindings_Silent(i) ==
  /\ Settling(i)
  /\ \/ nodes[i].answer = "unknown"
     \/ nodes[i].answer = "fail" /\ ~ReworkAllowed(i)
  /\ nodes' = Done(i)
  /\ UNCHANGED <<fixLeft, unresolved>>

AcceptFindings(i) ==
  /\ Settling(i)
  /\ \/ nodes[i].answer = "unknown"
     \/ nodes[i].answer = "fail" /\ ~ReworkAllowed(i)
  /\ nodes' = Done(i)
  /\ unresolved' = unresolved \cup {[writer |-> WriterBehind(i), why |-> nodes[i].answer]}
  /\ UNCHANGED fixLeft

(* spawnReworkPair: the rework of the writer and a verify of the rework;   *)
(* what waited on the old verify waits on the new one.                     *)
WithRework_NoRewire(i) ==
  LET w == WriterBehind(i)
      root == nodes[w].lineage
      r == Len(nodes) + 1
      rework == [Node(r, "fix", nodes[w].scope, {i}) EXCEPT !.lineage = root]
      reVerify == Node(r + 1, "verify", {}, {r})
      counted == [Done(i) EXCEPT ![root].rounds = @ + 1]
  IN counted \o <<rework, reVerify>>

WithRework_OwnRoot(i) ==
  LET w == WriterBehind(i)
      r == Len(nodes) + 1
      rework == [Node(r, "fix", nodes[w].scope, {i}) EXCEPT !.lineage = w]
      reVerify == Node(r + 1, "verify", {}, {r})
      counted == [Done(i) EXCEPT ![w].rounds = @ + 1]
  IN Rewired(counted, i, r + 1) \o <<rework, reVerify>>

WithRework(i) ==
  LET w == WriterBehind(i)
      root == nodes[w].lineage
      r == Len(nodes) + 1
      rework == [Node(r, "fix", nodes[w].scope, {i}) EXCEPT !.lineage = root]
      reVerify == Node(r + 1, "verify", {}, {r})
      counted == [Done(i) EXCEPT ![root].rounds = @ + 1]
  IN Rewired(counted, i, r + 1) \o <<rework, reVerify>>

SpawnRework(i) ==
  /\ Settling(i)
  /\ nodes[i].answer = "fail"
  /\ ReworkAllowed(i)
  /\ nodes' = WithRework(i)
  /\ UNCHANGED <<fixLeft, unresolved>>

(* A failure is retried, then repaired by a fix node, then final; at once  *)
(* final in a cancelled run or when the tentacle may still be writing.     *)
Recoverable(i) == aborted = "no" /\ nodes[i].answer = "error"

Retriable(i) == nodes[i].retries < MaxRetries(nodes[i].kind)

Fixable_Unbounded(i) == nodes[i].kind # "merge"
Fixable(i) == fixLeft > 0 /\ nodes[i].kind # "fix"

Retry_Uncounted(i) ==
  /\ Settling(i)
  /\ Recoverable(i) /\ Retriable(i)
  /\ nodes' = [nodes EXCEPT ![i].status = "pending"]
  /\ UNCHANGED <<fixLeft, unresolved>>

Retry(i) ==
  /\ Settling(i)
  /\ Recoverable(i) /\ Retriable(i)
  /\ nodes' = [nodes EXCEPT ![i].status = "pending", ![i].retries = @ + 1]
  /\ UNCHANGED <<fixLeft, unresolved>>

WithFix(i) ==
  LET f == Len(nodes) + 1
  IN Append(Rewired(SetStatus(nodes, {i}, "error"), i, f),
            [Node(f, "fix", nodes[i].scope, nodes[i].deps) EXCEPT !.repairs = i])

SpawnFix(i) ==
  /\ Settling(i)
  /\ Recoverable(i) /\ ~Retriable(i) /\ Fixable(i)
  /\ nodes' = WithFix(i)
  /\ fixLeft' = fixLeft - 1
  /\ UNCHANGED unresolved

Fail(i) ==
  /\ Settling(i)
  /\ nodes[i].answer \in {"error", "stuck"}
  /\ ~(Recoverable(i) /\ (Retriable(i) \/ Fixable(i)))
  /\ nodes' = SetStatus(nodes, {i}, "error")
  /\ UNCHANGED <<fixLeft, unresolved>>

Settle(i) ==
  \/ Succeed(i) \/ AcceptFindings(i) \/ SpawnRework(i)
  \/ Retry(i) \/ SpawnFix(i) \/ Fail(i)

-----------------------------------------------------------------------------
(*                        Draining and the summary                         *)

(* drainInFlight: when all have answered or the one deadline fires, what   *)
(* has not answered is abandoned; the rest is settled as usual.            *)
Drain ==
  /\ pc = "drain"
  /\ LET late == {i \in inFlight : nodes[i].answer = "none"}
     IN /\ inFlight' = inFlight \ late
        /\ nodes' = SetStatus(nodes, late, "error")
  /\ pc' = "draining"
  /\ UNCHANGED <<opts, chosen, fixLeft, handles, unresolved, aborted>>

(* A cancelled run skips what never started; the summary follows.          *)
Close ==
  /\ pc = "closing" \/ (pc = "draining" /\ inFlight = {})
  /\ nodes' = IF aborted = "yes"
              THEN SetStatus(nodes, {i \in Ids : nodes[i].status = "pending"}, "skipped")
              ELSE nodes
  /\ pc' = "over"
  /\ UNCHANGED <<opts, inFlight, chosen, fixLeft, handles, unresolved, aborted>>

(* cancelRun, from the caller's signal or the graph timer.                 *)
Cancel ==
  /\ "cancel" \in opts.faults
  /\ aborted = "no" /\ pc # "over"
  /\ aborted' = "yes"
  /\ UNCHANGED <<opts, nodes, inFlight, chosen, fixLeft, handles, unresolved, pc>>

-----------------------------------------------------------------------------
(*                              Tentacles                                  *)

Answers(kind) ==
  (IF kind = "verify"
   THEN {"pass"} \cup (IF "reject" \in opts.faults THEN {"fail"} ELSE {})
                 \cup (IF "vague" \in opts.faults THEN {"unknown"} ELSE {})
   ELSE {"ok"})
  \cup (IF "error" \in opts.faults THEN {"error"} ELSE {})

(* A rework edits its writer's worktree and opens none.                    *)
OpensWorktree(i) ==
  opts.worktrees /\ nodes[i].kind \in Writers /\ ~IsRework(nodes, i)

(* runNodeInner resolves; a success in the grace period counts.            *)
Answer(i) ==
  /\ nodes[i].kind # "merge"
  /\ nodes[i].task \in {"works", "told"}
  /\ \E a \in Answers(nodes[i].kind) :
       /\ nodes' = [nodes EXCEPT ![i].task = "none", ![i].answer = a]
       /\ handles' = IF a = "ok" /\ OpensWorktree(i) THEN handles \cup {i} ELSE handles
  /\ UNCHANGED <<opts, inFlight, chosen, fixLeft, unresolved, aborted, pc>>

(* withNodeTimeout: the budget is blown, the tentacle is told to stop.     *)
Timeout(i) ==
  /\ nodes[i].kind # "merge"
  /\ nodes[i].task = "works"
  /\ nodes' = [nodes EXCEPT ![i].task = "told"]
  /\ UNCHANGED <<opts, inFlight, chosen, fixLeft, handles, unresolved, aborted, pc>>

(* The grace period passes: the node fails, the tentacle runs on.          *)
GraceExpires(i) ==
  /\ "stuck" \in opts.faults
  /\ nodes[i].task = "told"
  /\ nodes' = [nodes EXCEPT ![i].task = "zombie", ![i].answer = "stuck"]
  /\ UNCHANGED <<opts, inFlight, chosen, fixLeft, handles, unresolved, aborted, pc>>

ZombieStops(i) ==
  /\ nodes[i].task = "zombie"
  /\ nodes' = [nodes EXCEPT ![i].task = "none"]
  /\ UNCHANGED <<opts, inFlight, chosen, fixLeft, handles, unresolved, aborted, pc>>

(* runMergeNode: every worktree behind the node, those that do not merge   *)
(* are kept and fail the node.  It merges them one after the other, while  *)
(* nothing else runs (a merge is admitted alone).                          *)
Sources(i) == Behind(nodes, i) \cap handles

MergeAnswers(i) ==
  /\ nodes[i].kind = "merge"
  /\ nodes[i].task = "works"
  /\ \E bad \in SUBSET Sources(i) :
       /\ bad = {} \/ "conflict" \in opts.faults
       /\ handles' = handles \ (Sources(i) \ bad)
       /\ nodes' = [nodes EXCEPT ![i].task = "none",
                                 ![i].answer = IF bad = {} THEN "ok" ELSE "error"]
  /\ UNCHANGED <<opts, inFlight, chosen, fixLeft, unresolved, aborted, pc>>

-----------------------------------------------------------------------------
Schedule ==
  \/ LeaveSettled \/ LeaveAtCap \/ LeaveCancelled \/ Admit
  \/ Start \/ SkipBlocked \/ BailOut \/ Drain \/ Close
  \/ \E i \in Ids : Settle(i)

Tentacle(i) ==
  Answer(i) \/ Timeout(i) \/ GraceExpires(i) \/ ZombieStops(i) \/ MergeAnswers(i)

Next == Schedule \/ Cancel \/ \E i \in Ids : Tentacle(i)

Spec == Init /\ [][Next]_vars

(* The event loop runs, timers fire, merges return and a tentacle that was *)
(* told to stop answers or uses up its grace; one that was not told may    *)
(* hang for ever.                                                          *)
MaxIds == 30
Fairness ==
  /\ WF_vars(Schedule)
  /\ \A i \in 1 .. MaxIds :
       /\ WF_vars(i \in Ids /\ Timeout(i))
       /\ WF_vars(i \in Ids /\ nodes[i].task = "told" /\ (Answer(i) \/ GraceExpires(i)))
       /\ WF_vars(i \in Ids /\ MergeAnswers(i))

FairSpec == Spec /\ Fairness

-----------------------------------------------------------------------------
(*                               Properties                                *)

NodeType ==
  [kind : Kinds, scope : SUBSET {"a", "b"}, deps : SUBSET Ids,
   status : Statuses, retries : 0 .. 1, lineage : Ids, rounds : 0 .. opts.rounds,
   repairs : Ids \cup {0}, task : {"none", "works", "told", "zombie"},
   answer : {"none", "ok", "pass", "fail", "unknown", "error", "stuck"}]

(* Types and ranges; the fix budget and the rounds of a writer stay within *)
(* their limits.                                                           *)
TypeOK ==
  /\ nodes \in Seq(NodeType)
  /\ inFlight \subseteq Ids /\ chosen \subseteq Ids /\ handles \subseteq Ids
  /\ unresolved \subseteq [writer : Ids, why : {"fail", "unknown"}]
  /\ fixLeft \in 0 .. opts.fixes
  /\ aborted \in {"yes", "no"}
  /\ pc \in {"top", "admitted", "wait", "drain", "draining", "closing", "over"}

(* Tentacles whose nodes are running may run in parallel: no two of them   *)
(* write overlapping scopes and a merge runs alone.                        *)
Running(i) == nodes[i].task \in {"works", "told"}

WritersApart ==
  \A i, j \in Ids : i # j /\ Running(i) /\ Running(j) => CanRunParallel(nodes[i], nodes[j])

(* A merge never merges a branch mid-rework: while it runs, no writer      *)
(* behind it has a rework that is still to come or under way; and one that *)
(* succeeded left no worktree behind it on its branch (runMergeNode).      *)
MergeAfterVerdicts ==
  \A m, r \in Ids :
    /\ nodes[m].kind = "merge" /\ nodes[m].status = "running"
    /\ IsRework(nodes, r) /\ nodes[r].lineage \in Behind(nodes, m)
    => nodes[r].status \notin {"pending", "running"}

MergesComplete ==
  \A m \in Ids :
    nodes[m].kind = "merge" /\ nodes[m].answer = "ok" =>
      Behind(nodes, m) \cap handles = {}

MergesSound == MergeAfterVerdicts /\ MergesComplete

(* However verdicts and failures fall, a writer's work is redone           *)
(* opts.rounds times at most and a run spawns opts.fixes fixes: a rework   *)
(* has the root of the work whose verdict asked for it, so that no writer  *)
(* takes another's rounds or begins anew, and no root has more reworks     *)
(* than rounds.                                                            *)
OneLineage ==
  \A r \in Ids :
    IsRework(nodes, r) =>
      \E v \in nodes[r].deps : \E w \in nodes[v].deps : nodes[w].lineage = nodes[r].lineage

RoundsKept ==
  \A w \in Ids :
    Cardinality({r \in Ids : IsRework(nodes, r) /\ nodes[r].lineage = w}) <= opts.rounds

FixesKept == Cardinality({i \in Ids : nodes[i].repairs # 0}) <= opts.fixes

SpawnsBounded == OneLineage /\ RoundsKept /\ FixesKept

RunConverged == pc = "over" /\ aborted = "no" /\ Converged(nodes)

(* A run that converges clean settled every verdict: after its last rework *)
(* each writer's work has a verify that answered PASS, unless that verify  *)
(* could not run and a fix node took its place.                            *)
LastOf(w) ==
  CHOOSE i \in Ids :
    /\ nodes[i].lineage = w
    /\ \A j \in Ids : nodes[j].lineage = w => j <= i

CleanRun == RunConverged /\ unresolved = {}

Accomplished(w) == nodes[w].kind = "general" /\ nodes[w].answer = "ok"

Passed(w) ==
  \E v \in Ids :
    nodes[v].kind = "verify" /\ nodes[v].answer = "pass" /\ nodes[v].deps = {LastOf(w)}

VerifyReplaced(w) ==
  \E v, f \in Ids :
    nodes[v].kind = "verify" /\ nodes[v].deps = {LastOf(w)} /\ nodes[f].repairs = v

CleanMeansVerified ==
  CleanRun => \A w \in Ids : Accomplished(w) => Passed(w) \/ VerifyReplaced(w)

(* Whatever broke the loop, the summary shows no node running, and none    *)
(* pending unless the gate of an uncancelled run held back what was ready; *)
(* and a run that converged left nothing out: a skipped node means a       *)
(* failure that no fix repaired, and that one keeps it from converging.    *)
SettledAtEnd ==
  pc = "over" =>
    \/ AllSettled(nodes)
    \/ /\ aborted = "no" /\ Ready(nodes) # {}
       /\ \A i \in Ids : nodes[i].status # "running"

ConvergedSkipsNothing ==
  RunConverged => \A i \in Ids : nodes[i].status = "done"

(* The three of them: what the summary of a finished run may be read as.   *)
EndsSound == SettledAtEnd /\ ConvergedSkipsNothing /\ CleanMeansVerified

(* The caller asked for the graph to stop: from then on no node is added   *)
(* and none that left pending returns to it.                               *)
CancelledSpawnsNothing ==
  [][aborted = "yes" =>
       /\ Len(nodes') = Len(nodes)
       /\ \A i \in Ids : nodes[i].status # "pending" => nodes'[i].status # "pending"]_vars

(* Every run ends, with tentacles that hang and whatever the verdicts.     *)
Terminates == <>(pc = "over")

-----------------------------------------------------------------------------
(*              What the comments say and the code does not do             *)

(* "A cancelled run admits nothing" (schedule): no node starts running     *)
(* once the run is cancelled.                                              *)
CancelledAdmitsNothing ==
  [][aborted = "yes" =>
       \A i \in Ids : nodes'[i].status = "running" => nodes[i].status = "running"]_vars

(* "A tentacle that may still be writing must not be joined" by another on *)
(* its scope (withNodeTimeout), one that ignored its cancellation either.  *)
Live(i) == nodes[i].task # "none"

ZombiesApart ==
  \A i, j \in Ids : i # j /\ Live(i) /\ Live(j) => CanRunParallel(nodes[i], nodes[j])

(* Vetoed nodes "stay READY and are re-offered next round" (roiGate): a    *)
(* run that was not cancelled does not end while a node is ready.          *)
ReadyIsOffered == pc = "over" /\ aborted = "no" => Ready(nodes) = {}

(* execute ends "after schedule() has merged every deferred worktree": a   *)
(* run that converged leaves no worktree unmerged.                         *)
ConvergedMerged == RunConverged => handles = {}

(* "On conflict the branch is kept and the conflict is surfaced in the     *)
(* merge node's error" (runMergeNode): a merge reported done has merged    *)
(* all there was behind it.                                                *)
ConflictSurfaces ==
  \A m \in Ids :
    nodes[m].kind = "merge" /\ nodes[m].status = "done" =>
      Behind(nodes, m) \cap handles = {}

(* A node is done when "no verdict against it" is left open               *)
(* (applyVerifyVerdict): in a clean run every writer has its PASS.         *)
CleanMeansPassed == CleanRun => \A w \in Ids : Accomplished(w) => Passed(w)

(* A later writer's branch "was cut from a HEAD that already contained the *)
(* earlier work" (collectWorktreeSources): a writer that opens a worktree  *)
(* has no unmerged one behind it.                                          *)
CutFromMergedHead ==
  [][\A i \in Ids :
       /\ nodes[i].status = "pending" /\ nodes'[i].status = "running"
       /\ OpensWorktree(i)
       => Behind(nodes, i) \cap handles = {}]_vars
=============================================================================
