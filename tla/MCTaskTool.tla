----------------------------- MODULE MCTaskTool -----------------------------
(* Instances of TaskTool: one chat in the TUI or headless, and two chats   *)
(* of one server.                                                          *)
EXTENDS TaskTool

CONSTANTS c1, c2

MCChats == {c1, c2}

Env(host, chats, callCount, turnCount, crashCount, faults) ==
  [host |-> host, chats |-> chats, cap |-> 2, rounds |-> 1, calls |-> callCount,
   turns |-> turnCount, crashes |-> crashCount, faults |-> faults]

AllRuns ==
  {Env(host, {c1}, 3, 2, 1, {}) : host \in {"tui", "headless"}}
    \cup {Env("headless", {c1, c2}, 2, 1, 1, {})}

(* Divergences. *)
ReuseRuns == {Env("tui", {c1}, 2, 2, 1, {"reuse"})}
SharedSinkRuns == {Env("headless", {c1, c2}, 1, 2, 0, {"overlap"})}
StraggleRuns == {Env("tui", {c1}, 1, 2, 0, {"straggle"})}
LeftoverRuns == {Env("headless", {c1}, 1, 1, 0, {"leftover"})}
HeadlessReuseRuns == {Env("headless", {c1}, 2, 3, 0, {"reuse"})}
=============================================================================
