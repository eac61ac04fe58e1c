---------------------------- MODULE ServeHarness ----------------------------
(***************************************************************************)
(* The harness server (zelari-code --serve-harness): one process, many     *)
(* sessions, each a chat on a workspace (packages/core/src/harness/        *)
(* appServer.ts), driven by requests on stdin (cli/serve/harnessServer.ts).*)
(* A session runs turns; a turn registers its control so that a steer or a *)
(* cancel finds it (cli/serve/sessionControl.ts), and calls tools that may *)
(* have to ask: the ask goes to the host as a request and is settled by an *)
(* answer, by a timer, or by an "always" given to another ask of the chat  *)
(* (cli/toolRegistry.ts, safety/toolPermissions.ts, permissionBridge.ts,   *)
(* askUserBridge.ts).                                                      *)
(*                                                                         *)
(* One action is one line of stdin, one timer, or what runs when a promise *)
(* resolves.  What a turn does with a steer is TurnLoop's; what happens    *)
(* to the proof that a turn writes is left out.                            *)
(***************************************************************************)
EXTENDS Integers, FiniteSets, SequencesExt

CONSTANTS
  Sessions,   \* session ids: random, each is used once
  Roots,      \* workspace roots
  Tools,      \* tools that ask for permission
  Categories, \* what a permission is about: execute, network...
  Needs,      \* the categories a tool needs
  Question,   \* ask_user, which asks a question rather than for permission
  Options     \* what a behaviour holds, see OptionsAssumption

ASSUME RootsAssumption == Roots # {}
ASSUME ToolsAssumption ==
  /\ Question \notin Tools
  /\ Needs \in [Tools -> (SUBSET Categories) \ {{}}]
ASSUME OptionsAssumption ==
  \A o \in Options :
    /\ o.turns \in Nat  \* bound: turns ever dispatched
    /\ o.calls \in Nat  \* bound: gated calls ever made
    /\ o.steers \in Nat \* bound: steers waiting in a turn's queue
    /\ o.kinds \subseteq {"agent", "mission"} \* what the turns run
    /\ o.tools \subseteq Tools \cup {Question} \* what the turns call
    /\ o.insists \subseteq BOOLEAN \* whether a rule asks in spite of a grant
    /\ o.requests \subseteq {"steer", "cancel", "dispose"} \* what the host asks of a session

VARIABLES
  opts,     \* what this behaviour holds, never changed
  sessions, \* each session: its state, its root, the services it was given
  services, \* the services of each root (0: none) and how many use them
  turns,    \* every run.turn dispatched
  live,     \* liveTurns: the turn whose control a session's requests reach
  calls,    \* every call a turn made that may ask, and what came of it
  grants    \* "always this session": tools and categories, by session

vars == <<opts, sessions, services, turns, live, calls, grants>>

-----------------------------------------------------------------------------
NoGrants == [tools |-> {}, categories |-> {}]

Init ==
  /\ opts \in Options
  /\ sessions = [s \in Sessions |-> [state |-> "new", root |-> CHOOSE r \in Roots : TRUE, given |-> 0]]
  /\ services = [r \in Roots |-> [current |-> 0, made |-> 0, count |-> 0]]
  /\ turns = <<>>
  /\ live = [s \in Sessions |-> 0]
  /\ calls = <<>>
  /\ grants = [s \in Sessions |-> NoGrants]

Requests(method) == method \in opts.requests

TurnIds == DOMAIN turns
CallIds == DOMAIN calls

SessionOf(c) == turns[calls[c].turn].session
IsQuestion(c) == calls[c].tool = Question
Ongoing(t) == turns[t].state # "over"

-----------------------------------------------------------------------------
(*                        Sessions and services                            *)

(* Mutant: only the session that creates the services is counted.          *)
Counted_First(r) == IF services[r].current = 0 THEN 1 ELSE services[r].count
Counted(r) == services[r].count + 1

(* session.create: the services of a root are made once and shared.        *)
CreateSession(s, r) ==
  /\ sessions[s].state = "new"
  /\ LET fresh == services[r].current = 0
         given == IF fresh THEN services[r].made + 1 ELSE services[r].current
     IN /\ sessions' = [sessions EXCEPT ![s] = [state |-> "open", root |-> r, given |-> given]]
        /\ services' = [services EXCEPT ![r] =
                          [current |-> given, made |-> IF fresh THEN given ELSE @.made,
                           count |-> Counted(r)]]
  /\ UNCHANGED <<opts, turns, live, calls, grants>>

(* session.dispose: the last session of a root disposes of its services.   *)
(* The turns of the session go on.                                         *)
Dispose(s) ==
  /\ Requests("dispose")
  /\ sessions[s].state = "open"
  /\ sessions' = [sessions EXCEPT ![s].state = "closing"]
  /\ LET r == sessions[s].root
         last == services[r].count - 1 <= 0
     IN services' = [services EXCEPT ![r].current = IF last THEN 0 ELSE @,
                                     ![r].count = IF last THEN 0 ELSE @ - 1]
  /\ UNCHANGED <<opts, turns, live, calls, grants>>

(* Once the await is over, the grants of the session are dropped.          *)
DropGrants(s) ==
  /\ sessions[s].state = "closing"
  /\ sessions' = [sessions EXCEPT ![s].state = "gone"]
  /\ grants' = [grants EXCEPT ![s] = NoGrants]
  /\ UNCHANGED <<opts, services, turns, live, calls>>

-----------------------------------------------------------------------------
(*                        Turns and their control                          *)

(* run.turn: a new dispatch, known by its own token.  A second turn of the *)
(* same session is not refused.                                            *)
Dispatch(s, kind) ==
  /\ sessions[s].state = "open"
  /\ Len(turns) < opts.turns
  /\ turns' = Append(turns, [session |-> s, kind |-> kind, state |-> "starting", order |-> 0,
                             hook |-> FALSE, cancelled |-> FALSE, queue |-> 0])
  /\ UNCHANGED <<opts, sessions, services, live, calls, grants>>

(* The turn registers, over an earlier turn of its session.  A council or  *)
(* a mission can be cancelled from here on, an agent once its loop exists. *)
Register(t) ==
  /\ turns[t].state = "starting"
  /\ turns' = [turns EXCEPT ![t].state = "running", ![t].hook = turns[t].kind = "mission",
                            ![t].order = Cardinality({u \in TurnIds : turns[u].order > 0}) + 1]
  /\ live' = [live EXCEPT ![turns[t].session] = t]
  /\ UNCHANGED <<opts, sessions, services, calls, grants>>

HookCancel(t) ==
  /\ turns[t].state = "running"
  /\ ~turns[t].hook
  /\ turns' = [turns EXCEPT ![t].hook = TRUE]
  /\ UNCHANGED <<opts, sessions, services, live, calls, grants>>

(* session.steer and session.cancel: they reach the turn that is live.     *)
Steer(s) ==
  /\ Requests("steer")
  /\ sessions[s].state = "open"
  /\ live[s] # 0
  /\ turns[live[s]].queue < opts.steers
  /\ turns' = [turns EXCEPT ![live[s]].queue = @ + 1]
  /\ UNCHANGED <<opts, sessions, services, live, calls, grants>>

Cancel(s) ==
  /\ Requests("cancel")
  /\ sessions[s].state = "open"
  /\ live[s] # 0
  /\ turns[live[s]].hook
  /\ turns' = [turns EXCEPT ![live[s]].cancelled = TRUE]
  /\ UNCHANGED <<opts, sessions, services, live, calls, grants>>

(* SteeringObserver takes the steers at the boundary of a turn.            *)
TakeSteers(t) ==
  /\ turns[t].state = "running"
  /\ turns[t].queue > 0
  /\ turns' = [turns EXCEPT ![t].queue = 0]
  /\ UNCHANGED <<opts, sessions, services, live, calls, grants>>

(* Mutant: the end of a turn clears whatever its session has registered.   *)
Registered_Any(t) == TRUE
Registered(t) == live[turns[t].session] = t

(* The turn is over, with a result or an exception, registered or not: its *)
(* tools have returned, and its own registration, if it is still there, is *)
(* removed (unregister and clearSessionTurnControl).                       *)
TurnEnds(t) ==
  /\ Ongoing(t)
  /\ \A c \in CallIds : calls[c].turn = t => calls[c].state = "returned"
  /\ turns' = [turns EXCEPT ![t].state = "over"]
  /\ live' = IF Registered(t) THEN [live EXCEPT ![turns[t].session] = 0] ELSE live
  /\ UNCHANGED <<opts, sessions, services, calls, grants>>

-----------------------------------------------------------------------------
(*                              Asking                                     *)

(* isSessionGranted, in the grants g of the session that asks.  Mutant:    *)
(* the grants of every session, as when they were kept per process.        *)
Granted_Process(s, tool, g) ==
  \E o \in Sessions :
    \/ tool \in g[o].tools
    \/ Needs[tool] \subseteq g[o].categories

Granted(s, tool, g) ==
  \/ tool \in g[s].tools
  \/ Needs[tool] \subseteq g[s].categories

(* A gated tool is called.  Granted, it runs, unless a rule, a claim, the   *)
(* contract or the provenance of its arguments insists on an ask, which    *)
(* then names no category; or the gate decides to ask, and records that    *)
(* before it does.  ask_user posts its question at once.                   *)
Call(t, tool, insists) ==
  /\ turns[t].state = "running"
  /\ Len(calls) < opts.calls
  /\ LET question == tool = Question
         granted == ~question /\ Granted(turns[t].session, tool, grants)
         runs == granted /\ ~insists
     IN calls' = Append(calls,
          [turn |-> t, tool |-> tool, frames |-> <<>>, ran |-> runs, late |-> FALSE,
           names |-> IF question \/ granted THEN {} ELSE Needs[tool],
           state |-> IF runs THEN "returned" ELSE IF question THEN "pending" ELSE "deciding"])
  /\ UNCHANGED <<opts, sessions, services, turns, live, grants>>

(* isSessionGranted of an ask, by the categories that it names.            *)
Covered(c, g) ==
  /\ ~IsQuestion(c)
  /\ \/ calls[c].tool \in g[SessionOf(c)].tools
     \/ calls[c].names # {} /\ calls[c].names \subseteq g[SessionOf(c)].categories

(* The await is over: onPermissionAsk posts the ask with its timer, and    *)
(* nothing looks at the grants again.  (late is for the properties only.)  *)
Post(c) ==
  /\ calls[c].state = "deciding"
  /\ calls' = [calls EXCEPT ![c].state = "pending", ![c].late = Covered(c, grants)]
  /\ UNCHANGED <<opts, sessions, services, turns, live, grants>>

Pending(c) == calls[c].state = "pending"

Frame(decision, by) == [decision |-> decision, by |-> by]

(* settle: the settled frame is written, and the asker will resume.        *)
Settled(call, frame) ==
  [call EXCEPT !.state = "settled", !.frames = Append(@, frame)]

Always == {"always-tool", "always-category"}
Decisions(c) == IF IsQuestion(c) THEN {"answer", "null"} ELSE {"allow", "deny"} \cup Always

(* permission.respond and ask_user.respond, from a host that names the     *)
(* session of the ask or none; any other answer changes nothing.           *)
Respond(c, decision) ==
  /\ Pending(c)
  /\ calls' = [calls EXCEPT ![c] = Settled(@, Frame(decision, "host"))]
  /\ UNCHANGED <<opts, sessions, services, turns, live, grants>>

(* No answer in time: a denial, or no answer to the question.  Mutants: a  *)
(* decision of its own, that nothing expects; an ask without a timer.      *)
TimedOut_Undecided(c) == Frame("timeout", "timer")
TimedOut(c) == Frame(IF IsQuestion(c) THEN "null" ELSE "deny", "timer")

Armed_Question(c) == ~IsQuestion(c)
Armed(c) == TRUE

Timeout(c) ==
  /\ Pending(c)
  /\ Armed(c)
  /\ calls' = [calls EXCEPT ![c] = Settled(@, TimedOut(c))]
  /\ UNCHANGED <<opts, sessions, services, turns, live, grants>>

(* What an "always" adds to the grants of the session that asked.          *)
GrantsOf(c) ==
  LET g == grants[SessionOf(c)]
      decision == Head(calls[c].frames).decision
      tool == calls[c].tool
  IN IF decision \notin Always THEN grants
     ELSE [grants EXCEPT ![SessionOf(c)] =
             [tools |-> g.tools \cup {tool},
              categories |-> g.categories \cup
                (IF decision = "always-category" THEN calls[c].names ELSE {})]]

(* releaseGranted, after an "always": every pending ask that the grants of *)
(* its own session now cover is allowed.  Mutant: only those for the tool  *)
(* that was granted.                                                       *)
Released_Tool(d, g) == ~IsQuestion(d) /\ calls[d].tool \in g[SessionOf(d)].tools
Released(d, g) == Covered(d, g)

(* The promise of the ask resolves: the handler grants and releases, and   *)
(* the tool runs, even if the turn was cancelled; or it is refused.        *)
Resume(c) ==
  /\ calls[c].state = "settled"
  /\ grants' = GrantsOf(c)
  /\ calls' = [d \in CallIds |->
       IF d = c
       THEN [calls[c] EXCEPT !.state = "returned",
                             !.ran = Head(calls[c].frames).decision \notin {"deny", "null"}]
       ELSE IF /\ Head(calls[c].frames).decision \in Always
               /\ Pending(d)
               /\ Released(d, grants')
            THEN Settled(calls[d], Frame("allow", "grant"))
            ELSE calls[d]]
  /\ UNCHANGED <<opts, sessions, services, turns, live>>

-----------------------------------------------------------------------------
Next ==
  \/ \E s \in Sessions : \/ \E r \in Roots : CreateSession(s, r)
                         \/ \E kind \in opts.kinds : Dispatch(s, kind)
                         \/ Dispose(s) \/ DropGrants(s)
                         \/ Steer(s) \/ Cancel(s)
  \/ \E t \in TurnIds : \/ Register(t) \/ HookCancel(t) \/ TakeSteers(t) \/ TurnEnds(t)
                        \/ \E tool \in opts.tools, insists \in opts.insists : Call(t, tool, insists)
  \/ \E c \in CallIds : \/ \E decision \in Decisions(c) : Respond(c, decision)
                        \/ Post(c) \/ Timeout(c) \/ Resume(c)

Spec == Init /\ [][Next]_vars

(* Timers fire, promises that resolved are resumed, and a turn whose calls *)
(* have returned comes to its end.  Nobody has to answer.                  *)
Bound(n) == 1 .. Max({0} \cup {n[o] : o \in Options})
MaxTurns == Bound([o \in Options |-> o.turns])
MaxCalls == Bound([o \in Options |-> o.calls])

Fairness ==
  /\ \A c \in MaxCalls : WF_vars(c \in CallIds /\ (Post(c) \/ Timeout(c) \/ Resume(c)))
  /\ \A t \in MaxTurns : WF_vars(t \in TurnIds /\ TurnEnds(t))

FairSpec == Spec /\ Fairness

-----------------------------------------------------------------------------
(*                              Properties                                 *)

SessionType ==
  [state : {"new", "open", "closing", "gone"}, root : Roots, given : Nat]
ServicesType == [current : Nat, made : Nat, count : Nat]
TurnType ==
  [session : Sessions, kind : {"agent", "mission"}, state : {"starting", "running", "over"},
   order : 0 .. Len(turns), hook : BOOLEAN, cancelled : BOOLEAN, queue : 0 .. opts.steers]
FrameType ==
  [decision : {"allow", "deny", "answer", "null"} \cup Always, by : {"host", "timer", "grant"}]
CallType ==
  [turn : TurnIds, tool : Tools \cup {Question}, frames : Seq(FrameType), ran : BOOLEAN,
   late : BOOLEAN, names : SUBSET Categories,
   state : {"deciding", "pending", "settled", "returned"}]

(* The server's state has the shape its maps have; control is registered   *)
(* for turns that exist.                                                   *)
TypeOK ==
  /\ opts \in Options
  /\ sessions \in [Sessions -> SessionType]
  /\ services \in [Roots -> ServicesType]
  /\ turns \in Seq(TurnType)
  /\ live \in [Sessions -> {0} \cup TurnIds]
  /\ calls \in Seq(CallType)
  /\ grants \in [Sessions -> [tools : SUBSET Tools, categories : SUBSET Categories]]

(* The sessions of a root use the same services, those the server still    *)
(* has, which it has as long as one of them is open and no longer          *)
(* (appServer.ts, createSession and dispose): no session is left with      *)
(* services that the end of another has disposed of.                       *)
UsersOf(r) == {s \in Sessions : sessions[s].state = "open" /\ sessions[s].root = r}

ServicesShared ==
  \A r \in Roots :
    /\ services[r].current # 0 <=> UsersOf(r) # {}
    /\ \A s \in UsersOf(r) : sessions[s].given = services[r].current

(* What a chat's requests reach is the turn that registered last, as long  *)
(* as it runs, whatever turns of the same chat end before it: neither a    *)
(* dead queue nor, once the turn that replaced it is over, an older one    *)
(* (sessionControl.ts).                                                    *)
Newest(s) ==
  {t \in TurnIds : /\ turns[t].session = s
                   /\ turns[t].order > 0
                   /\ \A u \in TurnIds : turns[u].session = s => turns[u].order <= turns[t].order}

ControlSound ==
  \A s \in Sessions : IF \E t \in Newest(s) : Ongoing(t) THEN live[s] \in Newest(s) ELSE live[s] = 0

(* The host's "always" answers in a chat that cover a tool.                *)
AlwaysIn(s, decisions) ==
  {c \in CallIds : /\ SessionOf(c) = s
                   /\ calls[c].frames # <<>>
                   /\ Head(calls[c].frames).by = "host"
                   /\ Head(calls[c].frames).decision \in decisions}

Sanctioned(s, tool) ==
  \/ \E c \in AlwaysIn(s, Always) : calls[c].tool = tool
  \/ Needs[tool] \subseteq UNION {calls[c].names : c \in AlwaysIn(s, {"always-category"})}

(* An ask is settled once, however the answer, the timer and the grants    *)
(* race, and what the tool does is what the settled frame said; a tool     *)
(* that runs without the host's word for it runs on an "always" that the   *)
(* host gave in the same chat (permissionBridge.ts "the bridge can never   *)
(* silently allow"; toolPermissions.ts on chat isolation).                 *)
SettledRightly ==
  \A c \in CallIds :
    /\ Len(calls[c].frames) <= 1
    /\ calls[c].ran /\ ~IsQuestion(c) =>
         \/ calls[c].frames # <<>> /\ Head(calls[c].frames).by = "host"
                                   /\ Head(calls[c].frames).decision # "deny"
         \/ Sanctioned(SessionOf(c), calls[c].tool)
    /\ calls[c].state = "returned" /\ calls[c].frames # <<>> =>
         (calls[c].ran <=> Head(calls[c].frames).decision \notin {"deny", "null"})

(* An "always" settles the asks of the chat that it covers, and not only   *)
(* the one it answers: of the asks that are open under a grant, all came   *)
(* up under it.  None was open when the grant was written, not even one    *)
(* posted between the answer and the grant (releaseGranted, "so the user   *)
(* is not asked 3x").                                                      *)
AlwaysReleases ==
  \A c \in CallIds : Pending(c) /\ Covered(c, grants) => calls[c].late

(* What the host's answers and its "always" do, and nothing else does.     *)
AsksSound == SettledRightly /\ AlwaysReleases

(* Every turn ends though nobody answers, its session disposed of or not.  *)
TurnsEnd == \A t \in MaxTurns : (t \in TurnIds) ~> (t \in TurnIds /\ ~Ongoing(t))

(* Not so: no ask is open under a grant unless a rule insists on it.  The   *)
(* grants are read before the ask is recorded, which is awaited, and an    *)
(* "always" in between does not see an ask that is not posted yet.         *)
NeverAskedUnderGrant == \A c \in CallIds : Pending(c) => ~Covered(c, grants)

(* Not so: "already_finished" means that no turn is running                *)
(* (harnessServer.ts): the older of two turns of a chat cannot be reached  *)
(* once the newer one has ended.                                           *)
FinishedMeansIdle ==
  \A t \in TurnIds : turns[t].state = "running" => live[turns[t].session] # 0

(* Not so: the grants of a session die with it (harnessServer.ts): an ask  *)
(* of a turn that outlives it may still be answered "always".              *)
GrantsDie == \A s \in Sessions : sessions[s].state = "gone" => grants[s] = NoGrants

(* Not so: a turn has services for as long as it runs: its session's may   *)
(* be disposed of under it.                                                *)
TurnsServed ==
  \A t \in TurnIds : Ongoing(t) =>
    services[sessions[turns[t].session].root].current = sessions[turns[t].session].given
=============================================================================
