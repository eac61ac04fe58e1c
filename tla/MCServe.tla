------------------------------ MODULE MCServe ------------------------------
(* Instances of ServeHarness: two chats, two tools of one category.        *)
EXTENDS ServeHarness

CONSTANTS s1, s2, root, shell, task, execute, ask_user

MCSessions == {s1, s2}
OneRoot == {root}
MCTools == {shell, task}
MCNeeds == [t \in MCTools |-> {execute}]
MCCategories == {execute}

Run(t, c, kinds, tools, insists, requests) ==
  [turns |-> t, calls |-> c, steers |-> 1, kinds |-> kinds, tools |-> tools,
   insists |-> insists, requests |-> requests]

(* Two turns and the requests that reach them; the asks of two turns, of   *)
(* one chat or two; of a turn that may outlive its session; of a turn      *)
(* whose calls ask at the same time, with a rule that insists or without.  *)
ControlRuns == {Run(2, 0, {"agent", "mission"}, {}, {}, {"steer", "cancel", "dispose"})}
AskRuns == {Run(2, 2, {"mission"}, {shell, ask_user}, {FALSE}, {})}
OutliveRuns == {Run(1, 2, {"mission"}, {shell, ask_user}, BOOLEAN, {"dispose"})}
ParallelRuns == {Run(1, 3, {"mission"}, MCTools, {FALSE}, {}),
                 Run(1, 2, {"mission"}, MCTools, BOOLEAN, {"cancel"})}
AllRuns == ControlRuns \cup AskRuns \cup OutliveRuns \cup ParallelRuns

(* Divergences.  Two turns of a chat; a chat that ends under its turn; two *)
(* tools called at the same time.                                          *)
TwoTurns == {Run(2, 0, {"mission"}, {}, {}, {})}
TwoCalls == {Run(1, 2, {"mission"}, {shell, task}, {FALSE}, {})}
=============================================================================
