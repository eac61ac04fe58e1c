----------------------------- MODULE MCCompanion ----------------------------
(* Instances of CompanionRuns: a trusted folder and another, two keys.     *)
EXTENDS CompanionRuns

CONSTANTS home, other, k1, k2

MCFolders == {home, other}
MCHome == {home}
MCKeys == {k1, k2}

Env(client, runCount, faults) ==
  [client |-> client, recent |-> 1, runs |-> runCount, lines |-> 1, faults |-> faults]

(* Two runs with one remembered, so that a run is forgotten; a child may   *)
(* fail to start where no other run follows.                               *)
SpawnRuns == {Env(FALSE, 2, {}), Env(FALSE, 1, {"spawn"})}
ClientRuns == {Env(TRUE, 2, {"harness"}), Env(TRUE, 1, {"crash"})}
CrashRuns == {[Env(FALSE, 2, {"crash"}) EXCEPT !.lines = 0]}
DeathRuns == {Env(TRUE, 1, {"death"})}

AllRuns == SpawnRuns \cup ClientRuns \cup CrashRuns \cup DeathRuns

(* Divergences. *)
FailedSpawnRuns == {Env(FALSE, 2, {"spawn"})}
ParkedRuns == {Env(client, 1, {"parked"}) : client \in BOOLEAN}
RestartRuns == {Env(FALSE, 2, {"crash"})}
RefusedRuns == {Env(TRUE, 1, {"harness"})}
=============================================================================
