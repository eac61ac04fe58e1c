----------------------------- MODULE SpineMirror -----------------------------
(***************************************************************************)
(* SessionSpineMirror (src/cli/sessionSpine.ts): the host's side of the    *)
(* session log.  Its methods return at once; what they append is queued on *)
(* one promise chain, while the host goes on appending, closes the mirror, *)
(* releases it on an interrupt, or dies and adopts the session again.      *)
(*                                                                         *)
(* An append is a group of links: the event itself and what must follow it *)
(* in the log.  A link runs to its end before the next one starts.  The    *)
(* lock is SpineLock's subject and the caches' ReplayCache's: here one     *)
(* host at a time has the session, and a read of the log is exact.         *)
(* A disabled spine (ZELARI_SESSION_SPINE=0) does nothing and is left out, *)
(* so are the buffers that put an assistant message together.              *)
(***************************************************************************)
EXTENDS Naturals, Sequences

CONSTANTS
  MaxIssues,  \* bound: groups queued in a behaviour
  Faults      \* "fail" a write may fail, "crash" the host may die

ASSUME MaxIssuesAssumption == MaxIssues \in Nat
ASSUME FaultsAssumption == Faults \subseteq {"fail", "crash"}

VARIABLES
  log,       \* events.jsonl
  chain,     \* the links that have not run
  issued,    \* how many groups were queued
  status,    \* SessionSpineMirror.status
  writer,    \* its writer, the writer's own chain, and the writer's nextSeq
  seeded,    \* contractSeeded
  prepared,  \* resourceTurnPrepared
  pc,        \* where adopt, close or release is
  awaits,    \* the last group that close or release waits for
  owed       \* what was queued before close or release was called

vars == <<log, chain, issued, status, writer, seeded, prepared, pc, awaits, owed>>

Turns == {"user", "imported"}
(* Their failure is swallowed inside the link.                             *)
Contracts == {"contract", "update"}
Kinds == Turns \cup Contracts \cup
  {"started", "epoch", "snapshot", "call", "limit", "result", "file", "ended"}

NoWriter == [state |-> "null", nextSeq |-> 1]
OpenAt(n) == [state |-> "open", nextSeq |-> n]

Init ==
  /\ log = <<>> /\ chain = <<>> /\ issued = 0
  /\ status = "disabled" /\ writer = NoWriter
  /\ seeded = FALSE /\ prepared = FALSE
  /\ pc = "down" /\ awaits = 0 /\ owed = {}

-----------------------------------------------------------------------------
(*                                 append()                                *)

(* The groups of links `gs', queued one behind the other.                  *)
Links_FromZero(gs, n) ==
  LET queue[k \in 0 .. Len(gs)] ==
        IF k = 0 THEN <<>>
        ELSE queue[k - 1] \o
               [i \in 1 .. Len(gs[k]) |-> [kind |-> gs[k][i], group |-> n + k - 1]]
  IN queue[Len(gs)]

Links(gs, n) ==
  LET queue[k \in 0 .. Len(gs)] ==
        IF k = 0 THEN <<>>
        ELSE queue[k - 1] \o
               [i \in 1 .. Len(gs[k]) |-> [kind |-> gs[k][i], group |-> n + k]]
  IN queue[Len(gs)]

Accepts == writer.state # "null" /\ status # "closed"

Queue(gs) ==
  /\ issued + Len(gs) <= MaxIssues
  /\ chain' = chain \o Links(gs, issued)
  /\ issued' = issued + Len(gs)

Calls == pc \in {"up", "ending", "flushing", "releasing"} /\ Accepts

(* owed grows until close or release is called.                            *)
Owe == owed' = IF pc = "up" THEN owed \cup (issued + 1) .. issued' ELSE owed

(* beginResourceTurn: the epoch and its snapshot, unless already prepared. *)
Epoch == IF prepared THEN <<>> ELSE << <<"epoch">>, <<"snapshot">> >>

PrepareTurn ==
  /\ Calls
  /\ ~prepared
  /\ Queue(Epoch) /\ Owe
  /\ prepared' = TRUE
  /\ UNCHANGED <<log, status, writer, seeded, pc, awaits>>

(* The first message seeds the contract, every later one updates it: the   *)
(* flag is read and set before anything is queued.                         *)
Message(kind) == <<kind, IF seeded THEN "update" ELSE "contract">>

UserMessage_KeepsPrepared ==
  /\ Calls
  /\ Queue(Epoch \o <<Message("user")>>) /\ Owe
  /\ seeded' = TRUE
  /\ UNCHANGED <<log, status, writer, prepared, pc, awaits>>

UserMessage ==
  /\ Calls
  /\ Queue(Epoch \o <<Message("user")>>) /\ Owe
  /\ seeded' = TRUE /\ prepared' = FALSE
  /\ UNCHANGED <<log, status, writer, pc, awaits>>

(* userMessage with beginResourceTurn: false, for imported history.        *)
ImportedMessage ==
  /\ Calls
  /\ Queue(<<Message("imported")>>) /\ Owe
  /\ seeded' = TRUE
  /\ UNCHANGED <<log, status, writer, prepared, pc, awaits>>

(* mirrorBrainEvent and the recording methods: a tool call is counted when *)
(* it is queued, and the events that are due follow it.                    *)
ToolCall ==
  /\ Calls
  /\ \E limit \in {<<>>, <<"limit">>}, snapshot \in {<<>>, <<"snapshot">>} :
       Queue(<< <<"call">> \o limit \o snapshot >>)
  /\ Owe
  /\ UNCHANGED <<log, status, writer, seeded, prepared, pc, awaits>>

(* The file event derived from a result, when there is one.                *)
ToolResult ==
  /\ Calls
  /\ \E file \in {<<>>, <<"file">>} : Queue(<< <<"result">> \o file >>)
  /\ Owe
  /\ UNCHANGED <<log, status, writer, seeded, prepared, pc, awaits>>

-----------------------------------------------------------------------------
(*                            The links run                                *)

Settled == \A i \in 1 .. Len(chain) : chain[i].group > awaits

(* close and release are the first to hear that their wait is over.        *)
Resumes == pc \in {"ending", "flushing", "releasing"} /\ Settled

Versions == {log[i].version : i \in 1 .. Len(log)}
Latest == CHOOSE v \in Versions \cup {0} : \A w \in Versions : w <= v

(* A message becomes an update when its link runs, from the log as it then *)
(* is; without a contract there is nothing to update.                      *)
Version(kind) ==
  CASE kind = "contract" -> 1
    [] kind = "update"   -> Latest + 1
    [] OTHER             -> 0

Skips(link) == link.kind = "update" /\ Latest = 0

Running(state) == chain # <<>> /\ ~Resumes /\ writer.state = state

Land(link) ==
  log' = Append(log, [kind |-> link.kind, group |-> link.group,
                      seq |-> writer.nextSeq, version |-> Version(link.kind)])

LinkLands_Requeues ==
  /\ Running("open") /\ ~Skips(Head(chain))
  /\ Land(Head(chain))
  /\ LET rest == SelectSeq(Tail(chain), LAMBDA l : l.group = Head(chain).group)
         others == SelectSeq(chain, LAMBDA l : l.group # Head(chain).group)
     IN chain' = others \o rest
  /\ writer' = OpenAt(writer.nextSeq + 1)
  /\ UNCHANGED <<issued, status, seeded, prepared, pc, awaits, owed>>

LinkLands ==
  /\ Running("open") /\ ~Skips(Head(chain))
  /\ Land(Head(chain))
  /\ chain' = Tail(chain)
  /\ writer' = OpenAt(writer.nextSeq + 1)
  /\ UNCHANGED <<issued, status, seeded, prepared, pc, awaits, owed>>

LinkSkips ==
  /\ Running("open") \/ Running("poisoned")
  /\ Skips(Head(chain))
  /\ chain' = Tail(chain)
  /\ UNCHANGED <<log, issued, status, writer, seeded, prepared, pc, awaits, owed>>

(* The catch at the end of a group: the rest of it, the first n links of   *)
(* the queue, is dropped.                                                  *)
AfterGroup ==
  LET n == CHOOSE k \in 1 .. Len(chain) :
             /\ \A i \in 1 .. k : chain[i].group = Head(chain).group
             /\ k < Len(chain) => chain[k + 1].group # Head(chain).group
  IN SubSeq(chain, n + 1, Len(chain))

Degrade == chain' = AfterGroup /\ status' = "degraded" /\ writer' = NoWriter

(* An event the schema rejects has used no seq; a failed appendFile has,   *)
(* and leaves the writer's own chain rejected for ever.                    *)
Spoilt_Recovers == {writer, OpenAt(writer.nextSeq + 1)}
Spoilt == {writer, [state |-> "poisoned", nextSeq |-> writer.nextSeq + 1]}

LinkFails ==
  /\ \/ Running("poisoned")
     \/ Running("open") /\ "fail" \in Faults
  /\ ~Skips(Head(chain))
  /\ IF Head(chain).kind \in Contracts
     THEN /\ chain' = Tail(chain)
          /\ writer' \in Spoilt
          /\ UNCHANGED status
     ELSE Degrade
  /\ owed' = {}
  /\ UNCHANGED <<log, issued, seeded, prepared, pc, awaits>>

(* this.writer! is null: the group fails on the spot.                      *)
LinkUnowned ==
  /\ Running("null")
  /\ Degrade
  /\ UNCHANGED <<log, issued, seeded, prepared, pc, awaits, owed>>

-----------------------------------------------------------------------------
(*                     adopt, close, release, crash                        *)

NoOne == pc \in {"down", "closed"} /\ chain = <<>>

LastSeq == IF log = <<>> THEN 0 ELSE log[Len(log)].seq

Adopt_ForgetsContract ==
  /\ NoOne
  /\ writer' = OpenAt(LastSeq + 1)
  /\ seeded' = FALSE
  /\ prepared' = FALSE /\ status' = "disabled" /\ owed' = {}
  /\ Queue(<< <<"started">> >>)
  /\ pc' = "adopting"
  /\ UNCHANGED <<log, awaits>>

(* The log is read, the writer opened, and the first event awaited.  The   *)
(* host counts on the mirror only afterwards.                              *)
Adopt ==
  /\ NoOne
  /\ writer' = OpenAt(LastSeq + 1)
  /\ seeded' = \E i \in 1 .. Len(log) : log[i].kind \in Turns \cup {"contract"}
  /\ prepared' = FALSE /\ status' = "disabled" /\ owed' = {}
  /\ Queue(<< <<"started">> >>)
  /\ pc' = "adopting"
  /\ UNCHANGED <<log, awaits>>

(* The lock is held, or the directory unusable.                            *)
AdoptFails ==
  /\ NoOne
  /\ writer' = NoWriter
  /\ status' \in {"locked", "degraded"}
  /\ pc' = "up"
  /\ prepared' = FALSE /\ seeded' = FALSE /\ owed' = {}
  /\ UNCHANGED <<log, chain, issued, awaits>>

(* status = 'active', whatever became of the first event.                  *)
Adopted ==
  /\ pc = "adopting" /\ chain = <<>>
  /\ status' = "active" /\ pc' = "up"
  /\ UNCHANGED <<log, chain, issued, writer, seeded, prepared, awaits, owed>>

(* close: session.ended first, when there is a writer to take it.          *)
Close ==
  /\ pc = "up"
  /\ IF status = "active" /\ writer.state # "null"
     THEN Queue(<< <<"ended">> >>) /\ Owe /\ pc' = "ending"
     ELSE UNCHANGED <<chain, issued, owed>> /\ pc' = "flushing"
  /\ awaits' = issued'
  /\ UNCHANGED <<log, status, writer, seeded, prepared>>

Ended ==
  /\ pc = "ending" /\ Settled
  /\ awaits' = issued /\ pc' = "flushing"
  /\ UNCHANGED <<log, chain, issued, status, writer, seeded, prepared, owed>>

(* What was queued meanwhile finds no writer.                              *)
Flushed ==
  /\ pc = "flushing" /\ Settled
  /\ writer' = NoWriter /\ status' = "closed" /\ pc' = "closed"
  /\ UNCHANGED <<log, chain, issued, seeded, prepared, awaits, owed>>

Release ==
  /\ pc = "up"
  /\ pc' = "releasing" /\ awaits' = issued
  /\ UNCHANGED <<log, chain, issued, status, writer, seeded, prepared, owed>>

Released ==
  /\ pc = "releasing" /\ Settled
  /\ writer' = NoWriter /\ pc' = "closed"
  /\ status' = IF status = "active" THEN "closed" ELSE status
  /\ UNCHANGED <<log, chain, issued, seeded, prepared, awaits, owed>>

Crash ==
  /\ "crash" \in Faults
  /\ pc \notin {"down", "closed"}
  /\ pc' = "down" /\ chain' = <<>> /\ writer' = NoWriter
  /\ status' = "disabled" /\ owed' = {}
  /\ UNCHANGED <<log, issued, seeded, prepared, awaits>>

Host == PrepareTurn \/ UserMessage \/ ImportedMessage \/ ToolCall \/ ToolResult
Link == LinkLands \/ LinkSkips \/ LinkFails \/ LinkUnowned
Life == Adopt \/ AdoptFails \/ Adopted \/ Close \/ Ended \/ Flushed
          \/ Release \/ Released \/ Crash

Next == Host \/ Link \/ Life

Spec == Init /\ [][Next]_vars

-----------------------------------------------------------------------------
(*                               Properties                                *)

(* Types and ranges of the queue, the log and the mirror's fields.         *)
TypeOK ==
  /\ issued \in 0 .. MaxIssues
  /\ chain \in Seq([kind : Kinds, group : 1 .. issued])
  /\ log \in Seq([kind : Kinds, group : 1 .. issued, seq : Nat, version : Nat])
  /\ status \in {"disabled", "active", "locked", "degraded", "closed"}
  /\ writer \in [state : {"null", "open", "poisoned"}, nextSeq : Nat \ {0}]
  /\ seeded \in BOOLEAN /\ prepared \in BOOLEAN
  /\ pc \in {"down", "adopting", "up", "ending", "flushing", "releasing", "closed"}
  /\ awaits \in 0 .. issued /\ owed \subseteq 1 .. issued

(* "Envelope order is the audit order" (append): the log has the groups in *)
(* the order they were queued and nothing between an event and the ones    *)
(* that must follow it, whatever the host appends meanwhile.               *)
AuditOrder ==
  \A i, j \in 1 .. Len(log) : i < j => log[i].group <= log[j].group

(* The seqs are 1, 2, 3, ... over all the hosts of the session: a write    *)
(* that fails, even one whose failure is swallowed, leaves no hole.        *)
NoHole == \A i \in 1 .. Len(log) : log[i].seq = i

(* A session has one initial contract and its updates count up from it,    *)
(* over messages queued together, failures, crashes and resumes.           *)
OneContract ==
  \A i \in 1 .. Len(log) :
    LET v == log[i].version
    IN v > 0 =>
         /\ log[i].kind = "contract" <=> v = 1
         /\ \A j \in 1 .. (i - 1) : log[j].version < v
         /\ \A w \in 1 .. (v - 1) : \E j \in 1 .. (i - 1) : log[j].version = w

(* Each turn has an epoch of its own: between a user message and the one   *)
(* before it, or the start of the host, one epoch was started.             *)
TurnStart(i) ==
  CHOOSE k \in 1 .. (i - 1) :
    /\ log[k].kind \in {"user", "started"}
    /\ \A j \in (k + 1) .. (i - 1) : log[j].kind \notin {"user", "started"}

EpochPerTurn ==
  \A i \in 1 .. Len(log) :
    log[i].kind = "user" =>
      \E k \in TurnStart(i) .. i :
        \A j \in TurnStart(i) .. i : log[j].kind = "epoch" <=> j = k

(* What a user message brings with it: its contract and its epoch.         *)
MessagesRecorded == OneContract /\ EpochPerTurn

(* close and release flush: unless a write failed, everything queued       *)
(* before the call is in the log when the writer is let go.                *)
CloseFlushes ==
  pc = "closed" => owed \subseteq {log[i].group : i \in 1 .. Len(log)}

(* What is queued lands: in order, together and before the mirror is done. *)
QueueLands == AuditOrder /\ CloseFlushes

-----------------------------------------------------------------------------
(*              What the comments say and the code does not do             *)

(* On a spine error "the mirror marks itself degraded [...] and stops      *)
(* writing" (header): a mirror that lost its writer is not active.         *)
ActiveHasWriter == status = "active" => writer.state # "null"
=============================================================================
