----------------------------- MODULE MCTurnLoop -----------------------------
(* Instances of TurnLoop: one read, one write, caps of a few turns.        *)
EXTENDS TurnLoop

CONSTANTS read, write

MCCalls == {read, write}
MCWrites == {write}

Run(soft, hard, perTurn, deltas, mutation, faults) ==
  [soft |-> soft, hard |-> hard, extensions |-> 2, recoveries |-> 1,
   mutation |-> mutation, perTurn |-> perTurn, queued |-> 1, reentries |-> 1,
   doom |-> 2, stall |-> 2, deltas |-> deltas, plane |-> "stdin", faults |-> faults]

(* A turn of several calls, native and as text, some of them refused, some *)
(* answered from the cache.                                                *)
CallRuns == {[Run(1, 1, 2, 3, FALSE, {"text", "deny", "steer", "cancel"}) EXCEPT !.doom = 3]}

(* Turns in a row: caps, extensions, repeats, and a build with recoveries. *)
LoopRuns == {Run(2, 4, 1, 1, mutation, {"ask", "fail", "garble", "cancel", "deny"}) : mutation \in BOOLEAN}

(* The user steps in anywhere.                                             *)
UserRuns == {[Run(1, 2, 1, 1, FALSE, {"cancel", "steer", "prompt"}) EXCEPT !.plane = p] :
                p \in {"stdin", "serve"}}

(* Divergences.  A steer; a file read, written and read again; a question  *)
(* next to a call; a host gone; a cancel before the run; a queued prompt;  *)
(* a steer at the last boundary.                                           *)
SteerRuns == {Run(1, 2, 1, 1, FALSE, {"steer"})}
StaleRuns == {[Run(1, 4, 1, 1, FALSE, {}) EXCEPT !.doom = 3]}
AskRuns == {Run(1, 2, 1, 1, FALSE, {"ask"})}
ServeRuns == {[Run(1, 1, 1, 1, FALSE, {"steer"}) EXCEPT !.plane = "serve"]}

CancelRuns == {Run(1, 1, 1, 1, FALSE, {"cancel"})}
QueueRuns == {Run(1, 1, 1, 1, FALSE, {"prompt"})}
LastSteerRuns == {Run(1, 1, 1, 1, FALSE, {"steer"})}

AllRuns == CallRuns \cup LoopRuns \cup UserRuns
=============================================================================
