# zelari-code in TLA+

TLA+ modules for zelari-code, an AI coding agent with a CLI, a long-lived
harness server, a multi-agent scheduler ("Kraken") and an append-only session
log ("spine").  The models are translated from the TypeScript sources; every
definition that stands for code is listed with its lines in `PROJECT.json`
under `map`.  Paths below are relative to the repository root; `core/` stands
for `packages/core/src/` and `cli/` for `src/cli/`.

Contents

1. The system: components, state, operations, interactions
2. The modules and how they correspond to the code
3. The runs: what each one asks, its bounds, what it shows
4. Where code and comments disagree
5. The proofs
6. What is only model-checked, and what is not modelled
7. What could come next

## 1. The system

zelari-code runs as a set of Node processes on one machine: an interactive
CLI, headless one-shot runs, `serve` (a harness server that hosts several
sessions), a companion server for mobile clients, and missions.  Inside one
process everything between two `await`s is atomic; between processes only the
file system orders anything.  The hard parts are therefore (a) files that two
processes write, and (b) state that is read before an `await` and used after.

| component | state | operations | interacts with | correct when |
|---|---|---|---|---|
| **Session log and lock** (`core/session/writer.ts`, `store.ts`, `cli/serve/spineLockSweep.ts`) | `writer.lock`, `events.jsonl`, the writer's `nextSeq` and promise chain | acquire, judge, take over, heartbeat, append, close, boot sweep | mirror (opens it), replay (reads it), other hosts (through the file system) | one owner at a time; the owner's lock is there; the log is gap-free and never loses an acknowledged event; a dead owner's lock is reclaimed |
| **Spine mirror** (`cli/sessionSpine.ts`, `headlessSpine.ts`) | status, writer, chain, coalescing buffers | start, adopt, mirror an event, close, interrupt | log, replay cache | degrades once and stops; never blocks a turn; a degraded mirror writes nothing |
| **Replay and its cache** (`core/session/replay.ts`, `replayCache.ts`) | parsed prefix of each file, bytes it owns, partial tail | cold read, incremental read | log (grows while it is read) | an incremental read equals a full one |
| **Kraken executor** (`cli/kraken/executor.ts`, `planner.ts`, `core/kraken/graph.ts`, `conflict.ts`) | task graph, in-flight set, fix budget, worktree handles, `aborted` | admit, start, settle, retry, fix, rework, merge, cancel, drain | tentacles (sub-agents with timers), git, the caller's abort signal | tentacles on overlapping files never run together; merges wait for verdicts; a clean convergence was verified; spawning is bounded; the run ends |
| **Agent turn loop** (`core/core/AgentHarness.ts`) | transcript, control queue, prompts queued, result cache, anti-loop guard, caps | request, stream, execute, seal, next turn, final answer, steer, cancel | providers, tools, budgets | what the provider is sent is well formed; the loop ends at its limits; a build that changed nothing is not reported as completed; a cancel stops it |
| **Harness server and bridges** (`core/harness/appServer.ts`, `cli/serve/*`) | sessions, live turn controls, pending permission asks and questions, grants | createSession, run.turn, steer, cancel, permission.respond, dispose | clients over JSON lines, turn loop, registry | an ask is answered exactly once; a grant dies with its session; a control reaches the turn it was meant for |
| **Companion server** (`cli/companion/*`) | active run, recent runs, listeners, idempotency store, trusted folders | start, park, trust, cancel, subscribe, resubmit | harness client, children, phones | one run at a time, in a trusted folder, started once for a key; a watcher sees all of its run and nothing else; the slot is given back |
| **Task tool** (`cli/tools/taskTool.ts`, `verifyDebtSpine.ts`; the gate in `cli/headless/runOneTurn.ts`, `cli/hooks/useChatTurn.ts`) | spawn budget of the turn, debts in memory, queue of events to persist, debt events on the session log | spawn, refuse, open and clear a debt, verify, rework, persist, replay, judge the turn, waive | turn loop (calls it), session log, the registry's timer, hosts | memory, log and the work nobody verified agree; a completed turn passes exactly when nothing is owed |
| **Budgets** (`core/runtime/resourceBudget.ts`) | counters, limits | charge, check | turn loop, tools | hard limits stop, soft ones warn once |
| **Verification and completion gates** (`core/verification`, `cli/kraken/completion*.ts`) | none (decision tables) | judge evidence | executor, turn loop | no completion without the evidence it claims |
| **Missions** (`cli/zelariMission.ts`, `missionSlice.ts`, `triggerLock.ts`) | mission state, trigger lock | slice, resume, trigger | plan store, turn loop | one mission per project; progress is kept |
| **Plan store and workspace state** (`cli/workspace/*`, `cli/state`) | JSON files, in-process mutex | read-modify-write | missions, tools | no lost update inside a process (across processes the code promises best effort) |
| **Tools, permissions, claims** (`core/core/tools`, `cli/toolRegistry.ts`, `cli/safety`) | rules, resource claims, grants | decide, claim, release | bridges, turn loop | deny wins; claims are released |
| **MCP, LSP, ACP** ; **providers, failover, OAuth** ; **memory** ; **council** ; **UI and clients** ; **evaluation, scripts, docs** | child processes, HTTP streams, notes, prompts, widgets | I/O | | outside the models, see section 6 |

Interactions that the models cover: hosts with each other through `writer.lock`
and `events.jsonl`; the boot sweep with hosts; the mirror's two-step open (read
the log, then take the lock); readers with a writer that appends in pieces; the
Kraken scheduler with tentacles, their timers, git merges and a caller that
cancels; the model/tool loop with a provider's stream, tools and a user; the
task tool with sub-agents, the persist queue and later processes; the
server's chats with a host that answers, timers and each other; the companion
with children, the harness server and phones.

Hard behaviours, each with its line, are the `hazards` of `PROJECT.json`.

## 2. The modules

```
SpineLog ──────────┬── SpineLock ──┬── MCSpineLock
                   │      │        └── SpineLock_proofs (TLAPS)
                   │      └ implements ─ Journal
                   └── SessionReplay ── ReplayCache ──┬── MCReplayCache
                                                      └── ReplayCache_proofs (TLAPS)
SpineMirror ────────┬─ MCSpineMirror
                    └─ SpineMirror_proofs (TLAPS)
KrakenGraph ────────── KrakenExecutor ──┬── MCKraken
                                        └── KrakenExecutor_proofs (TLAPS)
TaskTool ───────────┬─ MCTaskTool
                    └─ TaskTool_proofs (TLAPS)
TurnLoop ───────────┬─ MCTurnLoop
                    └─ TurnLoop_proofs (TLAPS)
ServeHarness ───────┬─ MCServe
                    └─ ServeHarness_proofs (TLAPS)
CompanionRuns ──────┬─ MCCompanion
                    └─ CompanionRuns_proofs (TLAPS)
```

### The session log

**SpineLog** is what `parseSessionLogLines` keeps of a file whose lines are
records `[seq, by, text]`: never stopping at a bad line, it keeps a readable
line exactly when no earlier readable one carries a seq as large.  This closed
form is used where proofs are wanted; the loop itself is in SessionReplay and
the two are compared there (`LoopKeepsRising`, proved for all bytes).

**SpineLock** is the lock and the writers.

| model | code |
|---|---|
| `lock` (pid, age of ts) | `writer.lock`; `"unknown"`/`NoProc` a file without a usable field, `LegacyLock` one written before pids were |
| `log`, `tail` | `events.jsonl`; `"torn"` when it does not end in a newline |
| `live` | the pids `process.kill(pid, 0)` accepts |
| `pc`, `nextSeq` | where each host is in `readSessionLog` → `acquireLock` → `append` → `close`; `SessionLogWriter.nextSeq` |
| `beat` | heartbeat writes in flight: `writeFile` is started by the chain and awaited only by the link that started it |
| `ReadLog`, `CreateLock`, `LockExists`, `JudgeTakeover`/`Refuse`, `TakeLock` | the awaits of the open: last seq read, `wx` create, EEXIST, `evaluateLockTakeover`, overwrite |
| `Enqueue`, `Heartbeat`, `HeartbeatLands`, `AppendLine`, `Acknowledge`, `AppendFails` | `append`: seq assigned, lock refreshed, line written, promise resolved; a failed append may leave part of its line, and the mirror drops the writer without closing it: the host lives on without one, its lock stays |
| `dropped` | history: who dropped its last writer so |
| `Close`, `RemoveLock` | `close()` |
| `Crash`, `TornLine`, `TornLock`, `ReusePid`, `Age` | the environment |
| `SweepJudge`, `SweepRemove` | `sweepStaleSpineLocks` at boot: judged, later removed |

`Faults` says what the environment of a run may do: hosts that stay idle past
the staleness threshold (`idle`), acquisitions that race (`race`), a host that
starts to open a session another one is writing (`overlap`), a heartbeat that
lands late (`reorder`), half-written files after a crash or a failed append
(`torn`), failing appends (`diskfull`).  Crashes and pid reuse are always possible.

**Journal** is the abstract specification: one owner at a time, only the owner
records, nothing recorded is removed, replaced or hidden.  SpineLock implements it under
`owner <- Owner` (who is past the lock) and `journal <- Replayed` (the authors
of what replay shows).

### The spine mirror

**SpineMirror** is `SessionSpineMirror`.  `chain` is the promise chain as a
sequence of links: `append` queues a *group* (the event, then what must follow
it: limit and snapshot after a tool call, the derived file event after a
result, contract or update after a message), and a group that fails is dropped
to its end, where the catch takes the writer away.

| model | code |
|---|---|
| `Queue`, `Links` | the tail of `append`; `Accepts` its first line |
| `PrepareTurn`, `UserMessage`, `ImportedMessage`, `ToolCall`, `ToolResult` | what hosts call: `beginResourceTurn`, `userMessage` (with and without a turn of its own), `mirrorBrainEvent` |
| `LinkLands`, `LinkSkips`, `LinkFails`, `LinkUnowned` | one link of the chain: written, nothing to do, write failed (swallowed for contracts, degrading otherwise), writer already gone |
| `writer` | the mirror's writer, whether its own chain has rejected (`poisoned`), and its `nextSeq` |
| `Adopt`, `AdoptFails`, `Adopted` | `adopt`: read and open, refused, status set after the first event |
| `Close`, `Ended`, `Flushed`; `Release`, `Released` | `close` and `release`, await by await; while they wait the host goes on appending |
| `owed` | history: what was queued before close or release |

Which events are due is data (the budget's counters, the shape of a tool's
output), so `ToolCall` and `ToolResult` choose freely.

### Replay and the cache

**SessionReplay** works on bytes: `Decoded` is the UTF-8 decoding of Node
(replacement characters included; `CharAt` is one character, an ill-formed byte
gives U+FFFD), `Split`, `NonBlank` and the parsing loop `Parsed` follow
`replay.ts`.  They are recursive functions, so that they can be proved about.
Envelopes are short byte strings whose text contains characters of two or three
bytes, because where a character is cut is what the cache's byte arithmetic is
about.

**ReplayCache** is `readSessionLogCached`: `Fetch` (the entry is taken), `Stat`
(the size is taken; a hit, an extension or a full read follows), `Extend` (the
new bytes are read from the owned offset, an incomplete character held back,
the tail kept as `partial`, the entry stored), `Full` (everything is read and
the entry seeded).  A writer appends in pieces (`WriteSome`) and may die in the
middle of a line (`CrashMidLine`), to which the next line is glued.  `Reader`
reads may be under way at once, as the mirror's are.  Three faults are left out of
the passing run: a crash that cuts a character (`midchar`), a cold read of a file
whose last line is still open (`midline`, which the header of `replayCache.ts`
documents) and a stat that falls inside a character of three or four bytes
(`widecut`).  Texts hold such characters all the same, and a stat may fall inside a
character of two.

### Kraken

**KrakenGraph** is the pure part: `buildGraphFromPlan` (a verify behind each
writer, a merge once there are two), ready and blocked nodes, settled and
converged, `canRunParallel`, what is behind a node.  A graph is the sequence of
its nodes in Map insertion order; a scope is the set of files its globs cover.

**KrakenExecutor** is the scheduler.  `pc` marks the awaits of `schedule()`:

| model | code |
|---|---|
| `top` → `Admit` | the head of the loop, `admit()`: greedy selection under `MaxParallel` against what is in flight and chosen; the ROI gate may drop any of it |
| `admitted` → `Start`, `SkipBlocked`, `BailOut` | what follows the awaits of admission |
| `wait` → `Settle` | `Promise.race` of the tentacles, then `applyResult` to the end: `Succeed`, `AcceptFindings`, `SpawnRework`, `Retry`, `SpawnFix`, `Fail` |
| `LeaveSettled`, `LeaveAtCap`, `LeaveCancelled`, `Drain`, `Close` | the exits and the drain |
| `Cancel` | `cancelRun`, from the caller's signal or the graph timer, at any await |
| `Answer`, `Timeout`, `GraceExpires`, `ZombieStops`, `MergeAnswers` | a tentacle answers, is told to stop by its timer (`withNodeTimeout`), is given up after the grace, stops late; a merge node merges |

`nodes[i].task` and `.answer` are the tentacle behind a node, so a result
exists from the moment the tentacle resolves to the moment the scheduler
applies it, and everything can happen in between.

### The task tool

**TaskTool** is what a parent's `task` calls do to the process and to the log.
A *debt* is the obligation to verify the work of one writing sub-agent (a
general).

| model | code |
|---|---|
| `chat[c]` | the scope of a chat: the spawn counter, the numbering of its tentacles, the bucket of debts its calls use, the bucket a headless turn replayed (`carried`), the channel on which a verify publishes what it executed |
| `process` | module-level state: whose log is bound (`bindVerifyDebtSpineSink`), events waiting for it, slots known to be cleared |
| `StartTurn`, `Bind`, `Hydrate` | the three awaits at the start of a turn: flush, forget the cache and bind, replay the log's open debts |
| `Spawn`, `Refuse`, `Answer` | `execute` up to the tentacle; the call over the cap; an explore or a verify of the parent |
| `Overrun`, `GeneralFails`, `GeneralDone` | the registry's timer gives the call up; no result; a result, merged or not, with time for a verify or not - the debt is opened here |
| `Reject`, `Pass`, `GiveUp`, `ReworkFails`, `ReworkDone` | `runAutoVerifyAfterGeneral`: rework in the same tree, clear on evidence, or leave the debt |
| `Land` | one link of the persist chain, on the log that is bound by then |
| `Complete`, `Cancel`, `Gate` | the turn ends, is flushed, and is judged |
| `Crash`, `Waive` | a new process resumes the logs; `session waive-debt` |
| `owed` | history: the work of a chat nobody has passed or waived |

The TUI keeps its scope over turns; a headless turn has one of its own, so a call
that outlives it writes to nothing a later turn looks at.  `Hazards` names what
the passing run excludes: an id that a later process gives again (`reuse`), turns
of two chats at once (`overlap`), calls that go on after they were given up
(`straggle`), a merged tree that cannot be removed (`leftover`).

### The turn loop

**TurnLoop** is one run of `AgentHarness.run`.  A call is a tool with its
arguments, a message the ids of the calls it makes or answers.

| model | code |
|---|---|
| `Begin`, `Request` | the start of `run`; `runSingleTurn` up to the call of the provider |
| `CallDelta`, `TextDelta`, `FinishDelta`, `ErrorDelta`, `StreamBreaks`, `TextLoops`, `NoticeCancel` | the stream, delta by delta: a call, text that may hold a call, the finish, the ways it goes wrong, the cancel seen between two |
| `Skip`, `Deny`, `Refuse`, `Replay`, `Execute` | what becomes of a call: over the cap of the turn or cancelled, refused by a gate, repeated too often, answered from `toolCallCache`, executed |
| `AfterNatives`, `TextCall`, `AfterTexts`, `Seal` | calls written as text are taken up after the native ones; the turn is put into the transcript |
| `NextTurn`, `AskFinalAnswer`, `FinalAnswerEnds`, `Judge`, `DrainPrompt`, `QueuedEnds`, `End` | `run` between turns: caps, extensions, build recoveries, the closing answer, liveness of a build, queued prompts, `agent_end`.  What *changed* the workspace is a change in the model; the code believes any ok result of a write tool |
| `Cancel`, `Steer`, `EnqueuePrompt`, `Detach` | the user; the host letting go of the queue when the run is over |

### The harness server

**ServeHarness** is the process behind `--serve-harness`.  One action is one
line of stdin, one timer, or what runs when a promise resolves.

| model | code |
|---|---|
| `CreateSession`, `Dispose`, `DropGrants` | `HarnessAppServer.createSession`, `dispose`, and what the handler does when dispose has returned |
| `services` | the services of a workspace root, shared by its sessions and counted |
| `Dispatch`, `Register`, `HookCancel`, `TakeSteers`, `TurnEnds` | `run.turn` and its turn: dispatched, control registered, cancel attached, queue drained, over |
| `live` | `liveTurns`: the turn that a session's steer and cancel reach |
| `Call`, `Post` | a call meets the gate (`toolRegistry.ts`), which reads the grants; if it must ask, it awaits `emitPermissionAsked` (state `deciding`) and only then posts the ask, without a second look.  A rule, a claim, the contract or the provenance of the arguments may *insist* on an ask in spite of a grant; such an ask names no category, so that only a grant of the tool covers it.  `ask_user` posts at once |
| `Respond`, `Timeout`, `Resume` | the host answers, the timer fires, the promise is resumed - which grants and releases (`releaseGranted`), and runs the tool or not |
| `calls[c].late` | history: posted under a grant that covers it |
| `calls[c].frames` | history: the frames that settled the ask, and by whom |

### The companion

**CompanionRuns** is `RunManager` with the routes that call it, in both modes: a
headless child per run, or a session on the harness server.

| model | code |
|---|---|
| `Post` | `POST /runs`: deduplication, busy, parked for trust or started |
| `Approve`, `Deny`, `Cancel` | trust of the folder given or refused; `cancelRun` |
| `Driver` | what drives a run answers: spawn failure and its two events, exit, session created or refused (or created for a run that has been cancelled: `dropping` until it is disposed of), turn settled, disposed |
| `Line`, `ServerLine` | a child's line; a line of the harness server, of whatever session or of none, which goes to the run in the slot |
| `Watch`, `Poll` | a phone subscribes, or comes late and is shown what there is (`replayed`); the poll that closes its stream |
| `ServerDies`, `Crash` | the harness server dies; the companion is killed and started again with what `input-dedup.json` and `companion.json` hold |

Each property is preceded in its module by a sentence that says what it claims
and of which code.  Operators named `X_Variant`, defined before `X`, are
plausible mistakes in `X`, at least one for every property of every passing run; with one of them in
the place of `X`, the run reports the property it belongs to.

## 3. The runs

`tlc -config <cfg> <module>`; each ends within five minutes.  Deadlock is not
checked: hosts may stop opening sessions, files stop growing at the bound, and
runs and turns end.  Environments are values of `Options`: one run of TLC checks
all of those listed.

| run | cfg, module | what is asked | bounds |
|---|---|---|---|
| spine_exclusive | SpineExclusive, MCSpineLock | types; one owner, whose lock is on disk (`OwnerSound`); a host without a writer has no lock there, unless it dropped one on a failed append | 3 hosts, 2 seqs, overlap, torn files, failing appends |
| spine_sequence | SpineSequence | lines are 1..n; the journal is implemented | 3 hosts, 4 seqs, failing appends |
| spine_reclaim | SpineReclaim | a lock without its owner is taken over or swept | 2 hosts, 2 seqs, everything but torn files |
| spine_torn_lock | SpineTornLock | *violated*: an orphan is reclaimed | 2 hosts, torn files |
| kraken_runs | KrakenRuns, MCKraken | types; two tentacles never on one scope; at most `rounds` reworks of each writer and `fixes` fixes (`SpawnsBounded`); merges wait for the last rework and merge everything (`MergesSound`); nothing left running, a converged run skipped nothing and a clean one was verified (`EndsSound`); nothing spawned after a cancel; the run ends | three environments: two-writer plans (disjoint, overlapping, chained in either order), 2 at a time, 2 rework rounds, vague verdicts, iteration cap; all five plan shapes, 2 fixes, failures, conflicts, vetoes; three shapes, 1 at a time, tentacles that hang.  All with cancel |
| mirror_chain | MirrorChain, MCSpineMirror | types; what is queued lands, in groups and in order, before close and release return (`QueueLands`); seqs without holes; one contract with rising versions and one epoch per turn (`MessagesRecorded`) | any number of hosts that queue 5 groups of events of any kind, or 10 of turns without tools and imports; failing writes, crashes |
| replay_cache | ReplayCache, MCReplayCache | an entry owns what it says and an incremental read equals a full one, and the loop keeps what the closed form keeps (`CacheSound`) | 2 concurrent reads, 2 lines, 2 seqs, characters of two and three bytes |
| turn_loop | TurnLoop, MCTurnLoop | types; well-formed requests; bounded requests; no false success; after a cancel no request, one notice and no `completed` (`CancelSound`); a completed run leaves no tool result unread except those of a queued prompt or of a turn the guard ended, and no steer in the queue (`LeavesTidy`); the run ends | two calls (one writes), turns of up to 3 deltas, caps of up to 4 turns, 2 extensions, 1 recovery, 1 queued prompt, 1 steer |
| companion | Companion, MCCompanion | types; slot, drivers and memory agree (`SlotSound`); runs start where they may, and once for a key while the run is known (`StartsSound`); runs are told what is theirs and phones are shown it in order (`EventsSound`); a run cancelled while connecting gets no turn; slots are given back and streams close | 2 runs, 2 folders (one trusted), 2 keys, 1 remembered, both modes |
| serve | Serve, MCServe | types; services shared and given up with the last user; steer and cancel reach the newest turn; asks settled once and rightly, and an "always" leaves none open that it covers (`AsksSound`); every turn ends | 2 chats on 1 workspace, 2 turns, up to 3 asks at once, 2 tools and a question, a rule that insists |
| task_debts | Task, MCTaskTool | types; memory, log and what is owed agree (`DebtsKept`); the gate passes a completed turn exactly when nothing is owed (`GateSound`) | one chat, in the TUI and headless: 3 calls, 2 turns, 1 crash, cap of 2, 1 rework; two chats of one process: 2 calls, 1 turn each |
| task_debt_ids | TaskReuse, MCTaskTool | *violated*: the gate, when a later process gives an id again | 2 calls, 2 turns, 1 crash |

**Why the bounds are enough.**  *Spine*: two hosts and the sweep already make
every pair of conflicting steps; a third host is needed for one to judge a lock
that a second is taking from a first.  Two seqs make an append after an append;
sequencing needs a third owner after a takeover, hence four.  *Kraken*: with two
writers every relation of scopes (disjoint, overlapping, undeclared) and of
dependencies (none, chain, explore first) occurs; a second round of rework is
the first at which the budget could be charged to the wrong node; a second fix
is the first that could repair a fix.  Hanging tentacles run one at a time
because liveness checking is quadratic in what runs together.  *Mirror*: five
groups of events are more than the least for a message before and after a resume,
with an imported message, a call or a result among them; a turn of a host queues
an epoch, a snapshot and a message, and a contract or its update may follow, so
that two turns in one host queue seven groups or more: ten leave room for the
third of a host that records nothing in between (`FewOrTurns`; beyond five, a
state that has left the bound is checked and not continued from).
*Replay*: two lines are the least for one to be glued to the
other, two reads the least for one to store over the other, a two-byte
character the least that can be cut, and a three-byte one the least that is cut
after its second byte; pieces are of every length.  *Turn loop*:
three deltas and a cap of two make a turn with a call executed, one refused and
one over the cap, native or as text; four turns are the least for a repeat to
reach the guard, an extension and a recovery in one run.  *Companion*: two runs
with one remembered are the least for a run to be forgotten while its key is
not.  *Server*: two turns of one chat or of two are the least for a control to go
wrong, three asks the least for an "always" to release one ask and leave another, and two
calls the least for an "always" between the gate and the post of the other.
*Task tool*: three calls fill the cap and exceed it or leave two debts and a
verify between them; two turns and a crash put a debt into a resumed log and a
later turn; one rework is the first that could verify the wrong tree.

**Symmetry** is used over hosts and readers in runs that check no liveness.

**Fairness.**  *Spine*: time passes (`Age`), hosts keep booting and each boot
sweeps (`SweepJudge`, `SweepRemove`), and a live host that began to open a
session gets on with it: these are file-system calls that return.  Nobody is
obliged to open, append or close.  *Kraken*: the event loop runs (`Schedule`),
armed timers fire (`Timeout`, `GraceExpires`) and git returns (`MergeAnswers`).
A tentacle is never obliged to answer, nor the caller to cancel; `Terminates`
then rests on the node timeouts and on the finite budgets of retries, fixes and
reworks.  *Turn loop*: the provider and the tools get on (`Provider \/ Harness`):
both have their timeouts; the user need not act.  *Server*: timers fire and
awaited promises are resumed (`Post`, `Timeout`, `Resume`), and a turn whose calls have
returned ends; the host need not answer.  *Companion*: what drives a run gets on
(`Driver`) and the poll, a timer, fires; nobody need answer for a folder, and the
harness server may die, which the properties except.

**What the conditions of the passing runs mean.**  `OwnerSound` (`SingleOwner` and
`LockNamesOwner`) holds as long as owners heartbeat in time, acquisitions do not
overlap and heartbeats land in order; each of the three conditions is needed
(section 4).  `LogContiguous` needs in addition that a host opens a session
only after the previous one left, and no torn tails.  The lock is thus a guard
against an *older* owner, not a mutual exclusion between simultaneous openers.
`DebtsKept` and `GateSound` hold without the four hazards of TaskTool; each of
them alone breaks one or both (section 4).  `SlotSound` and `EventsSound` hold
without two runs of which one cannot be spawned.

**What they do not say.**  `ClosedLeavesNoLock` leaves out a host that dropped its
writer: its lock is there, fresh and of a live process, and refuses the host itself
(and every other) when it opens the session again, until it goes stale or the
process ends.  `CancelSound` lets the tools of the turn under way run, lets a run
that was cancelled before it began make one request, and lets a cancelled run that
failed end as an error.  `LeavesTidy` counts a steer as kept once it is in the
transcript, whether or not a request follows.  `NoFalseSuccess` speaks of changes,
not of their verification, which is no part of the turn loop.  `SingleFlight` counts
the work of the companion that is alive: the child of one that was killed works on
beside the next run.  `SlotDriven` excepts a server that died: what it owes an answer
keeps the slot (CompanionDeath).  `StreamWhole` lets the poll cut a stream off after a
cancel, before the last lines and the end, and shows a late watcher the end twice.
`OwnEvents` lets a run on the harness server be told lines of other sessions.
`KeyedOnce` holds while the run is known.  `AlwaysReleases` lets an ask be
posted under a grant.

## 4. Where code and comments disagree

Two are runs of the project, with the quoted text, under `findings`:

* a crash between creating the lock and writing its payload leaves an empty
  file that neither the takeover rule nor the sweep ever reclaims
  (spine_torn_lock);
* the slot of a debt is the id of its tentacle, and ids count from one in every
  process: a resumed process that gives an id again overwrites the debt that
  carried it, and a verify of the second work clears both (task_debt_ids).

Others can be seen with configurations kept beside them; TLC reports the
property named here violated.  Where an option set is named, take the
configuration with `Options` given that definition, `SPECIFICATION Spec`, and the
property alone.

| cfg | module | property | what happens |
|---|---|---|---|
| SpineLateBeat | MCSpineLock | ClosedLeavesNoLock | a heartbeat nobody awaits re-creates `writer.lock` after `close()` removed it |
| SpineIdleOwner | MCSpineLock | SingleOwner | an owner that appends nothing sends no heartbeat; past the threshold another host takes its lock while it is alive |
| SpineTwoTakers | MCSpineLock | SingleOwner | two hosts judge the same reclaimable lock and both overwrite it |
| SpineTornTail | MCSpineLock | SeqGapFree | a crash in the middle of a line glues the next owner's first event to the fragment, and that event is lost |
| SpineStaleStart | MCSpineLock | LogContiguous | the start seq is computed before the lock is held; the owner of that moment appends once more, and a seq is used twice |
| KrakenRuns, `ConflictRuns` | MCKraken | ConflictSurfaces | a fix node that stands in for a merge that met a conflict makes the merge count as done although worktrees stay unmerged |
| KrakenRuns, `StuckWriterRuns` | MCKraken | ZombiesApart | a tentacle that ignores its cancellation still writes while its retry runs on the same scope |
| KrakenRuns, `LateStartRuns` | MCKraken | CancelledAdmitsNothing | a cancel between the check of `aborted` and the start still starts what was selected |
| KrakenRuns, `VerifyFixRuns` | MCKraken | CleanMeansPassed | a fix node that stands in for a verify that failed to run makes the run converge clean although no verdict was given |
| MirrorAdopt | SpineMirror | ActiveHasWriter | `adopt` reports `active` although its first append failed and the writer is gone; hosts then attach a budget and derive context as if the spine worked |
| KrakenRuns, `VetoRuns` | MCKraken | ReadyIsOffered | with everything ready held back and nothing in flight, the loop ends instead of offering again |
| KrakenRuns, `SingleRuns` | MCKraken | ConvergedMerged | a plan with one writer has no merge node, and its worktree is left unmerged |
| KrakenRuns, `StaleBaseRuns` | MCKraken | CutFromMergedHead | a writer that depends on another starts from a tree without the other's work |
| ReplayWide | MCReplayCache | NeverPoisoned | `utf8IncompleteTailBytes` gives how many bytes are missing, and they are taken off the end as if they were there: of a character of three bytes cut after one or two the wrong number is held back, and the rest is decoded half |
| ReplayMidChar | MCReplayCache | SameAsFullRead | a crash inside a character makes the decoded text longer than the bytes; the entry then owns bytes the file has yet to get, and the next extension skips them |
| TurnLoop, `SteerRuns` | MCTurnLoop | SteerAfterTurn | a steer that arrives during a turn is put into the transcript before the answer of that turn, which was given without it |
| TurnLoop, `StaleRuns` | MCTurnLoop | FreshResults | the cache of results is not emptied by a write: a file read, written and read again is answered as it was |
| TurnLoop, `AskRuns` | MCTurnLoop | QuestionPauses | a turn that asks the user next to another call goes on without the answer |
| TurnLoop, `ServeRuns` | MCTurnLoop | SteerNotLost | on the server's plane a steer that no boundary drained is dropped with the queue, although it was acknowledged |
| TurnLoop, `CancelRuns` | MCTurnLoop | CancelIdle | a cancel that comes while no turn runs is documented to make the next run end as cancelled "before any work" (`AgentHarness.ts`, `cancel`); the flag is looked at only once the first request has been sent |
| TurnLoop, `QueueRuns` | MCTurnLoop | RunEndsAnswered | what the tools of the last queued prompt return is not sent back, although "the run always ends with assistant text answering the user with what has been gathered" (`AgentHarness.ts`, `runFinalAnswerTurn`) |
| TurnLoop, `LastSteerRuns` | MCTurnLoop | AppliedIsDelivered | a steer is acknowledged as applied when it is put into the transcript; at the last boundary no request follows, although hosts "must wait for control_applied before marking a control as delivered to the agent" (`controlBridge.ts`) |
| CompanionDoubleFree | MCCompanion | SingleFlight | a child that cannot be spawned is reported twice, and the second report takes the slot from the run that has started in between |
| CompanionLeak | MCCompanion | SessionsDisposed | a turn the server refuses leaves the session that was created for it |
| CompanionParked | MCCompanion | SlotDriven | a run cancelled while it waits for trust has nothing that frees the slot |
| CompanionDeath | MCCompanion | SlotFreedAnyway | requests to a server that died are never settled, and the run keeps the slot |
| CompanionRestart | MCCompanion | OncePerKey | after a restart the run of a key is unknown, and its repetition starts another |
| Companion, `RestartRuns` | MCCompanion | OneAtWork | the child of a companion that was killed works on beside the run the next one starts |
| Companion, `ClientRuns` | MCCompanion | LinesOwn | `emit` gives every line of the harness server to the run in the slot: those of a session being disposed of, of an earlier run, of none |
| Companion, `ClientRuns` or `SpawnRuns` | MCCompanion | EndShownOnce | the poll of a cancelled run's stream closes it before the end is emitted; who watches late is shown the end in the list and once more |
| ServeAskedAgain | MCServe | NeverAskedUnderGrant | the gate reads the grants, awaits `emitPermissionAsked` and then posts: an "always" in between leaves the ask open under its grant, although `permissionBridge.ts` says that "the user is not asked 3×" |
| ServeGrants | MCServe | GrantsDie | an ask of a turn that outlives its session may be answered "always" after the grants were dropped |
| ServeOutlived | MCServe | TurnsServed | a turn goes on although the services of its disposed session are gone |
| ServeTwoTurns | MCServe | FinishedMeansIdle | with two turns of a chat the older one cannot be reached once the newer one is over |
| Task, `SharedSinkRuns` | MCTaskTool | DebtsKept, GateSound | one log is bound per process: with turns of two chats at once a debt lands on the other chat's log, or, once that turn has ended, nowhere |
| Task, `StraggleRuns` | MCTaskTool | DebtsKept, GateSound | a general that finishes after its turn was given up opens a debt the gate of that turn did not see, and the start of the next may forget |
| Task, `LeftoverRuns` | MCTaskTool | GateSound | a tree that stays after its merge is reworked and verified there, and the rework is never merged |
| Task, `HeadlessReuseRuns` | MCTaskTool | DebtsKept, GateSound | the same reuse of ids from one headless turn to the next, where every turn counts from one |

## 5. The proofs

The `_proofs` modules are checked by `tlapm` (all obligations, SMT, Zenon and
LS4).  Each assumes what its model assumes of its constants and no more, so
bounds such as `MaxSeq`, the deltas of a turn, the asks or the runs are arbitrary
naturals, and `Proc`, `Folders` or `Keys` are any sets, finite or not.

| module | theorem | statement | under |
|---|---|---|---|
| SpineLock | TypeCorrect | `[]TypeOK` | nothing |
| | OwnershipIsSound | `[]OwnerSound` | `Calm` |
| | Sequenced | `[]LogContiguous` | `Orderly` |
| | JournalImplemented | `ImplementsJournal` | `Orderly` |
| | CloseRemovesLock | `[]ClosedLeavesNoLock` | `"reorder" \notin Faults` |
| ReplayCache | TypeCorrect | `[]TypeOK` | `Faults = {}` |
| | LoopCorrect | `[]LoopKeepsRising` | nothing |
| | CacheCorrect | `[]CacheSound` | `Faults = {}` |
| SpineMirror | Typing | `[]TypeOK` | nothing |
| | Numbered | `[]NoHole` | nothing |
| | Landing | `[]QueueLands` | nothing |
| | Recording | `[]MessagesRecorded` | nothing |
| KrakenExecutor | TypeCorrect | `[]TypeOK` | nothing |
| | RunnersApart | `[]WritersApart` | nothing |
| | Bounded | `[]SpawnsBounded` | nothing |
| | Merging | `[]MergesSound` | nothing |
| | Ending | `[]EndsSound` | nothing |
| | CancelHolds | `CancelledSpawnsNothing` | nothing |
| TaskTool | TypeCorrect | `[]TypeOK` | nothing |
| | DebtsAreKept | `[]DebtsKept` | `Calm` |
| | GateIsSound | `GateSound` | `Calm` |
| TurnLoop | StateTyped | `[]TypeOK` | nothing |
| | LeftTidy | `[]LeavesTidy` | nothing |
| | TranscriptsWellFormed | `RequestWellFormed` | nothing |
| | RequestsBounded | `[]LoopBounded` | nothing |
| | SuccessIsTrue | `[]NoFalseSuccess` | nothing |
| | CancelIsSound | `CancelSound` | nothing |
| ServeHarness | TypeCorrect | `[]TypeOK` | nothing |
| | ServicesOutliveNoUser | `[]ServicesShared` | nothing |
| | ControlReachesNewest | `ControlSound` | nothing |
| | AsksAreSettledRightly | `[]AsksSound` | nothing |
| CompanionRuns | TypeCorrect | `[]TypeOK` | nothing |
| | StartsRightly | `StartsSound` | nothing |
| | CancelledNeverTurns | `CancelledBeforeTurn` | nothing |
| | EventsReachTheirPhone | `EventsSound` | `OneAtATime` |
| | SlotHeldRightly | `[]SlotSound` | `OneAtATime`, `NeverParked` |

### SpineLock

`Calm` is `{"idle", "race", "reorder"} \cap Faults = {}`; overlapping opens,
crashes, reused pids, torn files and failing appends remain.  `Orderly` is
`Faults \subseteq {"diskfull"}`.

*Exclusivity.*  `LockNamesOwner` (an open writer's lock is on disk, with its
pid and a fresh heartbeat) is not inductive: it says nothing of a host between
the verdict and the overwrite, nor of the sweep between its verdict and the
removal.  `OwnerInv` adds that such a step finds no open writer
(`TakeFindsNoOwner`, `NoSweepWhileOpening`), that at most one host is opening
(`OneOpening`), that hosts past the lock are alive (`Alive`) and that no
heartbeat floats.  `OwnerStep` goes through the actions; the case that matters is
`JudgeTakeover`: a lock it accepts cannot be an open writer's, because that one
is live and fresh.  `SingleOwner` follows since one file names one pid.

*Sequencing.*  `LogContiguous` needs the position of each counter relative to
the file.  `CounterInv`: one past the last line, two past it between the
increment of `append` and the line landing; no host is open while another is
opening; no torn tail.  `ContiguousLast` (replay of a contiguous log ends at
its length) gives a new owner its start, and `ContiguousAppend` carries the
invariant over `AppendLine`.

*Refinement.*  Under both invariants each step of SpineLock is a step of
Journal or leaves its variables alone: becoming active is `Acquire`, the line
landing is `Record` (a contiguous log hides nothing, so `Replayed` grows by
one), closing, crashing and failing to append are `Leave`.

*Closing.*  `ClosedLeavesNoLock` says nothing of a host that is opening again and
may be refused; `ClosedInv` has it for every host that does not write and has not
dropped a writer, with no heartbeat in flight.  A host that dropped one and opens the
session again is out of it until it has a lock again, by taking over its own once
that is stale or by creating one.  Of the hazards only the late heartbeat is excluded: it is the
one that re-creates a removed lock (section 4).

### Induction and recursive functions

A recursive function of a model (`f[n \in 0 .. k] == ... f[n - 1] ...`) is whatever
satisfies its equation, so that a solution has to be shown to exist before
anything can be said of its values.  The library's induction theorems take an
operator and cannot be used; the modules that need it (the proofs of SpineMirror,
ReplayCache, KrakenExecutor and TurnLoop) begin with induction over sets of
numbers instead (`LeastNumber`, `InductionOnSets`), from the well-founded order of
the library, and that what is computed step by step exists (`StepwiseExists`).
With it follow the four loops of replay, the links of `Links` and `All`, the text calls of `TextTools`, the greedy
`Selection` of Kraken and the numbering of a plan's generals.  The functions that
recurse along the edges of a graph (`Behind`, `Blocked`) are not stepwise: for them
the solution is given as a set - what is in every closed set, or a least one - and
`Acyclic` makes it the only one.

### ReplayCache

*What the cache rests on.*  An extension decodes, splits and parses only the new
bytes and puts the result behind what the entry holds; a full read does the three
over the whole file.  That they agree is three lemmas about a text in two pieces:
well-formed bytes cut between two characters decode to the two decodings
(`DecodeConcat`), splitting the second piece begins in the last line of the first
(`SplitConcat`), and the parser can be stopped after any line and resumed with what
it had (`ParsedConcat`).  Each is an induction along the function it is about; the
closed form of SpineLog is a fourth (`LoopRises`), and needs no assumption at all, so
`LoopCorrect` holds of any bytes, with every fault.

*The invariant.*  `CacheSound` speaks of the entry and of the last report.  It is not
inductive: a read holds on to the entry it fetched while others store theirs, and the
bytes it will decode are the end of a file that has grown since its `stat`.
The invariant has three parts.  `FileOK`: the file and the rest of the line under way are
together well-formed UTF-8 (neither is on its own in the middle of a character).
`CacheOK`: no entry, stat or report is ahead of the file, and a read that extends has
an entry smaller than its stat.  `AnswersOK`: the entry *and the entry each read
fetched* end between two characters, and hold the lines and the rest of exactly the
bytes they own (`Owns`).  `Owns` is kept because the file only grows at its end
(`Grows`, `OwnsStays`), the seed of a full read has it (`SeededHolds`), and an
extension carries it on (`ExtendHolds`), where the case that matters is the stat that
falls inside a character: `KeptBetweenCharacters` is that what
`utf8IncompleteTailBytes` holds back is then exactly the part of that character, and
rests on `LeadFound`, that behind a cut stands one lead byte with nothing but its
continuation bytes after it.  It holds of a character of two bytes, of which one is
missing and one is there; of a wider one it is false in the code.  `Tellable` is what a
read remembers of its stat: that it did not fall inside a wider one.
TLC checked the three parts on the instance of section 3 before they were proved.

*The conditions.*  `Faults = {}` leaves out a crash inside a character, after which the
glued line is decoded with U+FFFD and the byte length of what was decoded is no
longer that of the file, and the cold read of an open last line, which the header of
`replayCache.ts` documents as read differently, and the stat inside a character of
three or four bytes (ReplayWide, section 4).  A crash between
characters, with the next line glued to the torn one, remains, and so does a stat at
any other byte.  Number and order of readers, lines and seqs and the texts themselves,
in characters of one to four bytes, are arbitrary.

### SpineMirror

*Numbers.*  `NoHole` says nothing of the writer.  `SeqInv` adds that a writer whose own chain
has not rejected is exactly one ahead of the log (`WriterAhead`).  `LandKeepsSeq`
is the line that lands, `AdoptKeepsSeq` the host that continues from the last
line, and `FailKeepsSeq` the failed write: its number is lost, but so is the
writer, also where the mirror swallows the error and keeps calling it.

*Queue and records.*  What the properties say of the log is decided when an event
is queued, from flags that are ahead of the log (`prepared`, `seeded`).  `MirrorInv`
therefore says it of the log *and the queue behind it* (`Well(All(log, chain), ...)`):
groups are whole and in order, a turn that started has its epoch exactly when
`prepared` says so, versions continue.  That holds as long as there is a writer; without
one (`ChainInv`) nothing queued lands, and what matters is the log alone (`LogInv`).
The `Push` lemmas show for each kind of append that the whole stays well formed; a line
that lands only moves the boundary in it (`LandKeepsLog`), and a contract that is skipped
or whose failure is swallowed leaves the rest well formed (`DropKeeps`).  `FlushInv` says
of what close and release wait for that it has landed or is in the part of the queue
they wait for.

### KrakenExecutor

One invariant, `IInv`, gives all six theorems.  The plan is any acyclic graph of
explores and generals; limits and environments are arbitrary, all hazards included.

*The graph* (`GraphInv`).  Reworks and fixes are spliced in by moving edges, so that
the order of the nodes says nothing about their dependencies: `Acyclic` says that
every set of nodes has one that needs no other of it, which survives because a
spawned node takes over the place of a node in the order (`AcyclicStep`).  `OneJudged`:
a verify waits on one writer.  `Rooted`: the root of a rework's lineage is its own root.
`Replaced`: what a fix repairs is over and nothing waits on it any more.

*The flow* (`FlowInv`).  `Tracked`: the scheduler waits for the running nodes and for
no others.  `DepsDone`: what has run, ran after all it depends on, and these stay done.
`Manned`: what a tentacle may be doing and may have answered for each status of its
node.  `Selected`, `DrainCancelled`: where the scheduler is.

*Writers apart.*  `WritersApart` looks at running tentacles, admission at `inFlight` and
`chosen`; `Together` says that all that is in flight or chosen may run together and
that, until the drain gives up on late tentacles, nothing else runs.  A retry keeps
scope and kind, and a selection is started at once.

*Bounds.*  A rework is charged to the root of its lineage (`reviewRounds`,
`reviewLineage`).  `Counted` says that the reworks of each root can be numbered within
its `rounds`; a new rework takes the number the counter has just reached, so that no
root has more of them than rounds.  `Traced` says that a rework waits on a verdict given
on work of the same root: no writer begins anew as another's rework.  For the fixes,
budget plus fixes is constant.

*Merges.*  `Awaited`: a merge waits on every verify still to be heard.  `Rejudged`: a
rework to come or under way has a verify of its own that has not been heard.  Together
with `DepsDone` no rework is open while a merge runs.  `OkAfterAll` then says that
what is behind a merge that succeeded is done, so that no worktree appears there
afterwards.

*Endings.*  `Left` ties the exits of the loop to the statuses: it is left with everything
settled, with a cancellation, or with a ready node that was held back - never with blocked
nodes only, because those are skipped first (`NothingBlocked`).  `SkippedForError`: without
a cancellation a skipped node has a failed one behind it.  `LastJudged`: the last of
a general's lineage has a verify, unless a fix replaced the general.  `DoneFor`: a verify is
done because it passed, was replaced, was followed by a later rework, or because its
findings were accepted - and in a clean run there are none.

### TaskTool

`Calm` says that no environment has one of the four hazards; failing, late, rejected
and reworked generals, cancels, crashes and waivers remain, and chats, calls, turns
and rounds are arbitrary.  The option sets of `task_debts` satisfy it.

*Control.*  One turn is under way at a time, its log is the bound one and every
call belongs to it (`TurnInv`); the buckets it starts with are empty (`CarryInv`);
at most one general is waited for and at most one is being verified (`CallInv`);
works are distinct (`WorkInv`).

*Data.*  `DebtsKept` compares works.  `Kept` strengthens it to the debts, and to
carry that through a step one has to know that no two debts of a log are of the
same work (`EventInv`), that the debt of a general under verification is open and
that of one still at work is not (`OweInv`), that a clear in the queue is not taken
for a repetition when it lands (`SlotInv`), and that what is queued after the flush
before the gate says nothing new (`FlushInv`).  `CallStep` reduces the ten kinds of
step of a call to four: nothing owed changes, a debt is opened, cleared, or opened
again.  Two cases matter.  A passing verify clears *by id*, and must not take
another work's debt with it.  A headless `Gate` unbinds the log while a general that
was cancelled may still queue its debt again: the rest of the queue is then lost,
and `SteadyPrefix` says that it was redundant.

*The gate.*  Only `Gate` gives a verdict, and by `Kept` what it sees is empty exactly
when nothing is owed (`VerdictSound`).

### TurnLoop

All rest on `Typed`, the type of what they look at (messages and results
only have to be sequences); `StateTyped` adds the calls, the counts and the cache.

*What is left.*  `ResultsRead` speaks of a completed run.  `ChunkInv` follows the
extensions of the soft budget, which reach the hard cap or stay ahead of the turns, so
that a loop that was cut short hit the hard cap; `ReadInv` follows the results no
request has carried from the turn that is sealed (`SealedResults`: it wants another
turn, unless the guard ended it) to the end of the run.  `SteerInv` follows each steer
to the host's letting go of the queue.

*Bounded requests.*  `LoopBounded` counts over the whole run and says nothing of
the turn a request belongs to.  `CountInv` adds what each kind of turn, at each
place, may exceed the loop's own turns by: one for the first, one for the closing
answer, one for a queued prompt under way (`Extra`).

*Cancel.*  `CancelInv` says what a cancel finds and leaves at each place: one that
comes late finds no request ahead of it (`TurnsBack`: a run that was asked to stop
never turns back to a request), the notice is given where the turn ends, and no run
that was asked to stop ends as completed.

*No false success.*  `MutationInv` ties the harness's belief that something was
changed to the workspace, through the cache of results (a replayed answer counts
for the call it repeats), and carries the judgement past the queued prompts.

*Transcripts.*  The transcript is well formed at every moment, because it grows by
whole blocks (`Paired`: an assistant with n calls and, right behind it, their n
results in order), and because when a turn is sealed each of its calls has a
result (`ResultsInv`), also those denied, over the cap or cancelled.

### ServeHarness

*Services.*  `SharedInv`: the count of a root is the number of its open sessions,
each of which was given the services of now.

*Control.*  `ControlInv`: numbers given to turns are distinct and never above
how many were given, so the newest turn of a chat is one turn; what is
registered is the newest and is ongoing, and a newest that is ongoing is
registered.  The case that matters is a turn that ends when a newer one has
registered.

*Asks.*  `AsksInv` says of each call what its state and its frame mean, and that
whatever is granted was sanctioned by an "always" of the same session
(`GrantsInv`).  The case that matters is an answer that releases others: their
frame is written by the grant, and the promise that resumes grants nothing.  An ask
is open under a grant only if it was when it was posted (`PostAsks`); a grant written
later settles it (`AlwaysReleases`), in the step that writes it.

### CompanionRuns

*Starts.*  `StartsInv`: runs in untrusted folders wait, and the key of a run that
is known leads to it.

*Events.*  `OneAtATime` says that a child that cannot be spawned is the only run of
its environment (two give the divergence CompanionDoubleFree).  `SlotInv` then
gives one driven run at a time, `OwnInv` that a run is told of nobody's start, trust,
failure or end but its own and ends once, `WatchInv` that an open stream has shown all
of its run and is remembered by the slot, and that one which closed short of its run
heard of a cancel: the run in the slot is open, or has been told that it is cancelled
(`SlotTold`), so that nothing is emitted to a run whose watchers went without one.

*The slot.*  `NeverParked` leaves out runs cancelled while they wait for trust
(CompanionParked).  `DrivenInv`: a run that is open is in the slot, is driven (or waits
for a server that died), and is not among the remembered ones.  Both conditions are satisfied by the instance
the passing run checks.


## 6. What is only model-checked, and what is not modelled

Only TLC, on the instances of section 3:

* liveness, which is out of the prover's reach: `OrphanReclaimed`, `Terminates`,
  `Ends`, `TurnsEnd`, `RunsSettle`.

Every invariant and every action property of the passing runs is stated by a theorem.
Where a theorem has a condition, the last column of its table names it.  What a
condition leaves out is either a hazard for which section 4 shows the statement to fail
in the code, or one that the code documents; nothing is claimed of those cases.

Abstracted in what is modelled:

* *spine*: validation of payloads, the fields of the lock that no rule reads, the
  clock (only the crossing of the staleness threshold is a step).
* *mirror*: the buffers that put streamed text together, the budget's counters,
  the read-only queries, a disabled spine; the lock and torn lines are
  SpineLock's.
* *replay*: `mtime` (guards against a file that is replaced, which nothing in
  the program does), LRU eviction, the projections built from the events.
* *Kraken*: globs (a scope is a set of files), folding of small plans,
  transactional writers (off by default), the rescues of
  `ZELARI_KRAKEN_WORKTREE=auto`, quality escalation, radio, workbench and
  memory (no influence on the run), and the one re-ask of an unreadable verdict: it
  reads `node.result` before it is assigned, so it never recovers anything.
* *task tool*: prompts and reports of sub-agents, candidates (alpha), memory and
  metrics, a log that refuses to be written, the repeated pass of a headless turn.
* *turn loop*: how calls are recognised in text, compaction of the transcript,
  memory, metrics and observers.
* *server*: read-only queries, writing of proofs, shutdown of the process; denials by
  rules before anything is asked; a timeout of 0, which `askUserTimeout.ts` documents
  as none and with which the timer of the bridge fires at once.
* *companion*: authentication, forwarding of steers and answers, the cap on the
  events kept of a run, expiry of keys, a second cancel.

Not modelled: UI and clients, evaluation and scripts (not control logic of the
running program); MCP, LSP, ACP, providers, OAuth (adapters around I/O); memory
(scoring of notes); council (prompts and a sequence of roles).  Budgets, gates,
missions, the plan store and claims are in section 7.

The map covers a small share of the repository.  Of its some 188 thousand lines by
far most are user interface (desktop, VS Code and Ink widgets), adapters around
I/O, prompts, tool bodies, benchmarks and formatting, which have no state machine
to check.  The modules model the parts whose control is concurrent, persistent or
hard to test; what the map names is what they translate and no more.

Hazards that are known and not among those of `PROJECT.json`, because there the code
does what no property that holds can exclude, are the rows of section 4: idle owners, reused pids,
two takers, a host refused by the lock it dropped (section 3), the sweep's race, torn tails, the mirror's adopt, cut characters and
open lines in replay, Kraken's stuck writers, vetoes, late starts, single writers,
stale bases, the replayed result after a write, parked and leaked companion runs.

## 7. What could come next

* **Plan store** (`cli/workspace`): read-modify-write under an in-process mutex and
  without one across processes; the code promises best effort, so an abstract
  specification would have to say which updates may be lost.
* **Missions** (`cli/zelariMission.ts`, `triggerLock.ts`): slices over the plan store
  and the turn loop; worth modelling once the plan store is.
* **Budgets** (`core/runtime/resourceBudget.ts`): counters without interleaving; they
  enter TurnLoop as its caps.
* **Verification and completion gates**: decision tables without state, to be compared
  with their definition over all combinations of evidence.
* **Tools, permissions and claims**: rules are data; the claims of concurrent calls
  would extend TaskTool's admission.
* **Proofs**: whether some weaker `Owns` survives cut characters (the same lines up
  to the characters around a cut) is open; it would have to be stated and checked
  with the faults `midchar` and `widecut` first.
