---------------------------- MODULE MCSpineMirror ----------------------------
(* TLC instances of SpineMirror.                                           *)
EXTENDS SpineMirror

(* Bound: five groups of any kind, or twice as many of hosts that record   *)
(* their users' turns and nothing in between, so that several turns of one *)
(* host fit in a behaviour.                                                *)
TurnsOnly(events) == \A i \in 1 .. Len(events) : events[i].kind \notin {"imported", "call", "result"}
FewOrTurns == issued <= 5 \/ (TurnsOnly(log) /\ TurnsOnly(chain))
=============================================================================
