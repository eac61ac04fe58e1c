------------------------------ MODULE MCKraken ------------------------------
(* TLC instances of KrakenExecutor: the shapes of plan that differ in what *)
(* may run together, what waits for what, and whether a merge is built.    *)
EXTENDS KrakenExecutor

PlanNode(kind, scope, deps) == [kind |-> kind, scope |-> scope, deps |-> deps]

(* One writer: no merge node.                                              *)
Single == <<PlanNode("general", {"a"}, {})>>

(* Two writers that may run together, that may not, and that wait.         *)
Disjoint == <<PlanNode("general", {"a"}, {}), PlanNode("general", {"b"}, {})>>
Overlap  == <<PlanNode("general", {"a"}, {}), PlanNode("general", {}, {})>>
Chain    == <<PlanNode("general", {"a"}, {}), PlanNode("general", {"b"}, {1})>>

(* The same, planned in the other order.                                   *)
Turned   == <<PlanNode("general", {"b"}, {2}), PlanNode("general", {"a"}, {})>>

(* A writer that waits for an explore.                                     *)
Explored == <<PlanNode("explore", {}, {}), PlanNode("general", {"a"}, {1})>>

Overlapping == {Disjoint, Overlap, Chain}

Runs(plans, parallel, fixes, rounds, faults) ==
  {[plan |-> p, parallel |-> parallel, fixes |-> fixes, rounds |-> rounds,
    worktrees |-> TRUE, faults |-> faults] : p \in plans}

(* Verdicts and the iteration cap; failures, conflicts and a gate that     *)
(* holds nodes back; tentacles that hang, one at a time.                   *)
ReworkRuns == Runs(Overlapping, 2, 0, 2, {"reject", "vague", "cap", "cancel"})
RepairRuns ==
  Runs(Overlapping \cup {Single, Explored}, 2, 2, 1, {"error", "conflict", "veto", "cancel"})
HangRuns ==
  Runs({Single, Explored, Turned}, 1, 1, 1, {"error", "reject", "stuck", "cancel"})
AllRuns == ReworkRuns \cup RepairRuns \cup HangRuns

(* One run for each of the divergences.                                    *)
ConflictRuns    == Runs({Disjoint}, 2, 1, 1, {"conflict"})
LateStartRuns   == Runs({Single}, 2, 0, 1, {"cancel"})
SingleRuns      == Runs({Single}, 2, 0, 1, {})
StaleBaseRuns   == Runs({Chain}, 2, 0, 1, {})
StuckWriterRuns == Runs(Overlapping, 2, 0, 1, {"stuck"})
VerifyFixRuns   == Runs({Single}, 2, 1, 1, {"error"})
VetoRuns        == Runs({Single}, 2, 0, 1, {"veto"})
=============================================================================
