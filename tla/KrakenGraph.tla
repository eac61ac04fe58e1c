----------------------------- MODULE KrakenGraph -----------------------------
(***************************************************************************)
(* The task graph of one Kraken run: packages/core/src/kraken/graph.ts and *)
(* conflict.ts, and buildGraphFromPlan of src/cli/kraken/planner.ts.       *)
(*                                                                         *)
(* A graph is the sequence of its nodes in the insertion order of the Map  *)
(* (the order every loop of the scheduler uses); a node's id is its index. *)
(* Nodes are only ever added.  A scope is the set of files its globs cover *)
(* and {} a scope that was not declared, which claims the whole tree.      *)
(***************************************************************************)
EXTENDS Naturals, FiniteSets, Sequences

Kinds    == {"explore", "general", "verify", "fix", "merge"}
Writers  == {"general", "fix"}
Statuses == {"pending", "running", "done", "error", "skipped"}

(* DEFAULT_MAX_RETRIES; a fix and a rework carry maxRetries 0.             *)
MaxRetries(kind) == IF kind \in {"general", "verify"} THEN 1 ELSE 0

(* A node that has not run.  `lineage' is the writer a rework goes back to *)
(* and the node itself otherwise; `rounds' counts the reworks of a root;   *)
(* `repairs' is the node a fix stands in for.  `task' and `answer' are the *)
(* tentacle behind the node and what it resolved to.                       *)
Node(id, kind, scope, deps) ==
  [kind |-> kind, scope |-> scope, deps |-> deps, status |-> "pending",
   retries |-> 0, lineage |-> id, rounds |-> 0, repairs |-> 0,
   task |-> "none", answer |-> "none"]

-----------------------------------------------------------------------------
(* buildGraphFromPlan: a verify behind every general, and one merge behind *)
(* those verifies once there are two generals.                             *)
Generals(plan) == {i \in 1 .. Len(plan) : plan[i].kind = "general"}

NthGeneral(plan, n) ==
  CHOOSE i \in Generals(plan) :
    Cardinality({j \in Generals(plan) : j <= i}) = n

MergeFrom(plan) == 2

BuildGraph(plan) ==
  LET n == Len(plan)
      v == n + Cardinality(Generals(plan))
      m == IF v - n >= MergeFrom(plan) THEN v + 1 ELSE v
  IN [i \in 1 .. m |->
        IF i <= n THEN Node(i, plan[i].kind, plan[i].scope, plan[i].deps)
        ELSE IF i <= v THEN Node(i, "verify", {}, {NthGeneral(plan, i - n)})
        ELSE Node(i, "merge", {}, (n + 1) .. v)]

-----------------------------------------------------------------------------
IsRework(g, i) == g[i].lineage # i

(* disjointScopeSets and canRunParallel.                                   *)
DisjointScopes(a, b) == a # {} /\ b # {} /\ a \cap b = {}

CanRunParallel(a, b) ==
  /\ a.kind # "merge" /\ b.kind # "merge"
  /\ a.kind \in Writers /\ b.kind \in Writers => DisjointScopes(a.scope, b.scope)

(* getReadyNodes, isSettled, isConverged.                                  *)
Ready(g) ==
  {i \in 1 .. Len(g) :
     g[i].status = "pending" /\ \A d \in g[i].deps : g[d].status = "done"}

AllSettled(g) ==
  \A i \in 1 .. Len(g) : g[i].status \notin {"pending", "running"}

Converged(g) == \A i \in 1 .. Len(g) : g[i].status \in {"done", "skipped"}

(* skipBlockedNodes: pending nodes that a failed or skipped node precedes. *)
Blocked(g) ==
  LET hopeless[i \in 1 .. Len(g)] ==
        \/ g[i].status \in {"error", "skipped"}
        \/ g[i].status = "pending" /\ \E d \in g[i].deps : hopeless[d]
  IN {i \in 1 .. Len(g) : g[i].status = "pending" /\ hopeless[i]}

(* collectWorktreeSources visits everything behind a node's deps, without  *)
(* going past a merge.                                                     *)
Behind(g, i) ==
  LET open(ds) == {d \in ds : g[d].kind # "merge"}
      behind[j \in 1 .. Len(g)] ==
        open(g[j].deps) \cup UNION {behind[d] : d \in open(g[j].deps)}
  IN behind[i]

(* What waited on `old' waits on `new' instead.                            *)
Rewired(g, old, new) ==
  [i \in 1 .. Len(g) |->
     IF old \in g[i].deps
     THEN [g[i] EXCEPT !.deps = (@ \ {old}) \cup {new}]
     ELSE g[i]]
=============================================================================
