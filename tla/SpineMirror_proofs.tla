------------------------- MODULE SpineMirror_proofs -------------------------
(* Proofs about SpineMirror, for any number of appends, hosts, failures    *)
(* and crashes.                                                            *)
EXTENDS SpineMirror, SequenceTheorems, WellFoundedInduction, TLAPS

-----------------------------------------------------------------------------
(*                   Induction and recursive functions                     *)
(*                                                                         *)
(* A recursive function is whatever satisfies its equation, so that        *)
(* something does has to be shown before anything can be said of it.       *)

(* A set of numbers has a least element.                                   *)
LEMMA LeastNumber ==
  ASSUME NEW T, T \subseteq Nat, T # {}
  PROVE  \E x \in T : \A y \in T : x <= y
<1>1. PICK x \in T : \A y \in T : ~(<<y, x>> \in OpToRel(LAMBDA a, b : a < b, Nat))
  BY NatLessThanWellFounded, WFMin, Zenon
<1>2. \A y \in T : ~(y < x)
  BY <1>1 DEF OpToRel
<1>3. QED
  BY <1>2

LEMMA InductionOnSets ==
  ASSUME NEW S, 0 \in S, \A n \in Nat : n \in S => n + 1 \in S
  PROVE  \A n \in Nat : n \in S
<1> SUFFICES ASSUME Nat \ S # {} PROVE FALSE
  OBVIOUS
<1>1. PICK x \in Nat \ S : \A y \in Nat \ S : x <= y
  BY LeastNumber
<1>2. x - 1 \in Nat /\ x - 1 \in S
  BY <1>1
<1>3. (x - 1) + 1 \in S
  BY <1>2
<1>4. QED
  BY <1>1, <1>3

(* What is computed step by step from a first value exists: step[k] says  *)
(* what the k-th value is, given the one before it.                        *)
Steps(step, V) == step \in [Nat -> [V -> V]]

Stepwise(f, V, base, step, n) ==
  /\ f \in [0 .. n -> V]
  /\ f[0] = base
  /\ \A k \in 1 .. n : f[k] = step[k][f[k - 1]]

LEMMA StepwiseExists ==
  ASSUME NEW V, NEW base, base \in V, NEW step, Steps(step, V), NEW n \in Nat
  PROVE  \E f : Stepwise(f, V, base, step, n)
<1> DEFINE S == {m \in Nat : \E f : Stepwise(f, V, base, step, m)}
<1>1. 0 \in S
  <2>1. Stepwise([k \in 0 .. 0 |-> base], V, base, step, 0)
    BY DEF Stepwise
  <2>2. QED
    BY <2>1
<1>2. ASSUME NEW m \in Nat, m \in S
      PROVE  m + 1 \in S
  <2>1. PICK f : Stepwise(f, V, base, step, m)
    BY <1>2
  <2> DEFINE g == [k \in 0 .. (m + 1) |-> IF k <= m THEN f[k] ELSE step[m + 1][f[m]]]
  <2>2. step[m + 1][f[m]] \in V
    BY <2>1 DEF Stepwise, Steps
  <2>3. g \in [0 .. (m + 1) -> V]
    BY <2>1, <2>2 DEF Stepwise
  <2>4. g[0] = base
    BY <2>1 DEF Stepwise
  <2>5. ASSUME NEW k \in 1 .. (m + 1)
        PROVE  g[k] = step[k][g[k - 1]]
    <3>1. CASE k <= m
      BY <2>1, <3>1 DEF Stepwise
    <3>2. CASE k = m + 1
      BY <2>1, <3>2
    <3>3. QED
      BY <3>1, <3>2
  <2> HIDE DEF g
  <2>6. Stepwise(g, V, base, step, m + 1)
    BY <2>3, <2>4, <2>5 DEF Stepwise
  <2>7. QED
    BY <2>6
<1> HIDE DEF S
<1>3. n \in S
  BY <1>1, <1>2, InductionOnSets
<1>4. QED
  BY <1>3 DEF S


-----------------------------------------------------------------------------
(*                          Seqs without holes                             *)
(*                                                                         *)
(* NoHole says nothing of the writer.  SeqInv adds that a writer whose     *)
(* chain has not rejected is one ahead of the log: that is what a new host *)
(* reads off the log, and what a writer loses with its first failed write. *)

(* The log is a sequence, whatever its lines are.                          *)
IsLog == \E S : log \in Seq(S)

WriterAhead == writer.state = "open" => writer.nextSeq = Len(log) + 1

SeqInv == IsLog /\ NoHole /\ WriterAhead

LEMMA AppendFacts ==
  ASSUME NEW S, NEW s \in Seq(S), NEW e
  PROVE  /\ Append(s, e) \in Seq(S \cup {e})
         /\ Len(Append(s, e)) = Len(s) + 1
         /\ \A i \in 1 .. Len(s) : Append(s, e)[i] = s[i]
         /\ Append(s, e)[Len(s) + 1] = e
<1>1. s \in Seq(S \cup {e})
  OBVIOUS
<1>2. QED
  BY <1>1

(* A line that lands takes the next number.                                *)
LEMMA LandKeepsSeq ==
  ASSUME SeqInv, LinkLands
  PROVE  SeqInv'
<1> DEFINE line == [kind |-> Head(chain).kind, group |-> Head(chain).group,
                    seq |-> writer.nextSeq, version |-> Version(Head(chain).kind)]
<1>1. PICK S : log \in Seq(S)
  BY DEF SeqInv, IsLog
<1>2. /\ log' = Append(log, line)
      /\ writer' = OpenAt(writer.nextSeq + 1)
      /\ writer.nextSeq = Len(log) + 1
  BY DEF SeqInv, WriterAhead, LinkLands, Land, Running
<1>3. line.seq = Len(log) + 1
  BY <1>2
<1> HIDE DEF line
<1>4. /\ log' \in Seq(S \cup {line})
      /\ Len(log') = Len(log) + 1
      /\ \A i \in 1 .. Len(log) : log'[i] = log[i]
      /\ log'[Len(log) + 1] = line
  BY <1>1, <1>2, AppendFacts
<1>5. Len(log) \in Nat
  BY <1>1
<1>6. NoHole'
  BY <1>3, <1>4, <1>5 DEF SeqInv, NoHole
<1>7. WriterAhead'
  BY <1>2, <1>4, <1>5 DEF WriterAhead, OpenAt
<1>8. QED
  BY <1>4, <1>6, <1>7 DEF SeqInv, IsLog

(* A host that opens the session continues from the last line.             *)
LEMMA AdoptKeepsSeq ==
  ASSUME SeqInv, Adopt
  PROVE  SeqInv'
<1>1. PICK S : log \in Seq(S)
  BY DEF SeqInv, IsLog
<1>2. LastSeq = Len(log)
  BY <1>1 DEF LastSeq, SeqInv, NoHole
<1>3. log' = log /\ writer' = OpenAt(Len(log) + 1)
  BY <1>2 DEF Adopt
<1>4. QED
  BY <1>3 DEF SeqInv, IsLog, NoHole, WriterAhead, OpenAt

(* A failed write takes a number with it, and the writer too.              *)
LEMMA FailKeepsSeq ==
  ASSUME SeqInv, LinkFails
  PROVE  SeqInv'
<1>1. log' = log
  BY DEF LinkFails
<1>2. writer' \in Spoilt \/ writer' = NoWriter
  BY DEF LinkFails, Degrade
<1>3. writer' = writer \/ writer'.state # "open"
  BY <1>2 DEF Spoilt, NoWriter
<1>4. QED
  BY <1>1, <1>3 DEF SeqInv, IsLog, NoHole, WriterAhead

LEMMA SeqStep == SeqInv /\ [Next]_vars => SeqInv'
<1> SUFFICES ASSUME SeqInv, [Next]_vars
             PROVE  SeqInv'
  OBVIOUS
<1>1. CASE UNCHANGED <<log, writer>>
  BY <1>1 DEF SeqInv, IsLog, NoHole, WriterAhead
<1>2. CASE log' = log /\ writer' = NoWriter
  BY <1>2 DEF SeqInv, IsLog, NoHole, WriterAhead, NoWriter
<1>3. CASE Host
  BY <1>1, <1>3 DEF Host, PrepareTurn, UserMessage, ImportedMessage, ToolCall, ToolResult
<1>4. CASE LinkLands
  BY <1>4, LandKeepsSeq
<1>5. CASE LinkSkips
  BY <1>1, <1>5 DEF LinkSkips
<1>6. CASE LinkFails
  BY <1>6, FailKeepsSeq
<1>7. CASE LinkUnowned
  BY <1>2, <1>7 DEF LinkUnowned, Degrade
<1>8. CASE Adopt
  BY <1>8, AdoptKeepsSeq
<1>9. CASE AdoptFails
  BY <1>2, <1>9 DEF AdoptFails
<1>10. CASE Adopted \/ Close \/ Ended \/ Release
  BY <1>1, <1>10 DEF Adopted, Close, Ended, Release
<1>11. CASE Flushed \/ Released \/ Crash
  BY <1>2, <1>11 DEF Flushed, Released, Crash
<1>12. CASE UNCHANGED vars
  BY <1>1, <1>12 DEF vars
<1>13. QED
  BY <1>3, <1>4, <1>5, <1>6, <1>7, <1>8, <1>9, <1>10, <1>11, <1>12
     DEF Next, Link, Life

(* The numbers of the log are 1, 2, 3, ... without a hole or a repetition, *)
(* over every host that opened the session one after another: append takes *)
(* a number before it writes, and after a write that failed its writer     *)
(* never writes again, even when the mirror has swallowed the error.       *)
THEOREM Numbered == Spec => []NoHole
<1>1. Init => SeqInv
  <2>1. ASSUME Init
        PROVE  log \in Seq({}) /\ Len(log) = 0 /\ writer.state = "null"
    BY <2>1 DEF Init, NoWriter
  <2>2. QED
    BY <2>1 DEF SeqInv, IsLog, NoHole, WriterAhead
<1>2. SeqInv => NoHole
  BY DEF SeqInv
<1>3. QED
  BY <1>1, <1>2, SeqStep, PTL DEF Spec

-----------------------------------------------------------------------------
(*                       The log and what is to follow it                  *)

Item(m) == [kind : Kinds, group : 1 .. m]
Line(m) == [kind : Kinds, group : 1 .. m, seq : Nat, version : Nat]

(* The log l as it will be when the queue c has run.                       *)
All(l, c) ==
  [i \in 1 .. (Len(l) + Len(c)) |->
     IF i <= Len(l) THEN [kind |-> l[i].kind, group |-> l[i].group]
     ELSE c[i - Len(l)]]

Starts == {"user", "started"}

(* Each user message has its epoch: s is where its turn starts.            *)
TurnsOK(F) ==
  \A i \in 1 .. Len(F) : F[i].kind = "user" =>
    \E s \in 1 .. (i - 1) : \E k \in (s + 1) .. (i - 1) :
      /\ F[s].kind \in Starts
      /\ \A j \in (s + 1) .. (i - 1) : F[j].kind \notin Starts
      /\ \A j \in s .. i : F[j].kind = "epoch" <=> j = k

(* The turn that is going on has an epoch exactly when p.                  *)
Now(F, p) ==
  \E s \in 1 .. Len(F) :
    /\ F[s].kind \in Starts
    /\ \A j \in (s + 1) .. Len(F) : F[j].kind \notin Starts
    /\ p => \E k \in (s + 1) .. Len(F) : \A j \in s .. Len(F) : F[j].kind = "epoch" <=> j = k
    /\ ~p => \A j \in s .. Len(F) : F[j].kind # "epoch"

(* A contract follows its message in the same group.                       *)
Follows(F) ==
  \A i \in 1 .. Len(F) : F[i].kind \in Contracts => i > 1 /\ F[i - 1].group = F[i].group

InGroups(F) ==
  /\ \A i, j \in 1 .. Len(F) : i <= j => F[i].group <= F[j].group
  /\ Follows(F)

(* One contract at most, and none unless s.                                *)
OneSeed(F, s) ==
  /\ \A i, j \in 1 .. Len(F) : F[i].kind = "contract" /\ F[j].kind = "contract" => i = j
  /\ ~s => \A i \in 1 .. Len(F) : F[i].kind # "contract"

Well(F, p, s) == TurnsOK(F) /\ Now(F, p) /\ InGroups(F) /\ OneSeed(F, s)

LEMMA SameItem ==
  ASSUME NEW m, NEW a \in Item(m), NEW b \in Item(m), a.kind = b.kind, a.group = b.group
  PROVE  a = b
BY DEF Item

LEMMA AllFacts ==
  ASSUME NEW m \in Nat, NEW l \in Seq(Line(m)), NEW c \in Seq(Item(m))
  PROVE  /\ All(l, c) \in Seq(Item(m))
         /\ Len(All(l, c)) = Len(l) + Len(c)
         /\ \A i \in 1 .. Len(l) : /\ All(l, c)[i].kind = l[i].kind
                                   /\ All(l, c)[i].group = l[i].group
         /\ \A i \in 1 .. Len(c) : All(l, c)[Len(l) + i] = c[i]
<1>1. Len(l) \in Nat /\ Len(c) \in Nat
  BY LenProperties
<1>2. PICK n \in Nat : n = Len(l) + Len(c)
  BY <1>1
<1>3. ASSUME NEW i \in 1 .. n
      PROVE  (IF i <= Len(l) THEN [kind |-> l[i].kind, group |-> l[i].group]
              ELSE c[i - Len(l)]) \in Item(m)
  <2>1. CASE i <= Len(l)
    <3>1. l[i] \in Line(m)
      BY <1>1, <1>2, <2>1, ElementOfSeq
    <3>2. l[i].kind \in Kinds /\ l[i].group \in 1 .. m
      BY <3>1 DEF Line
    <3>3. QED
      BY <2>1, <3>2 DEF Item
  <2>2. CASE ~(i <= Len(l))
    <3>1. i - Len(l) \in 1 .. Len(c)
      BY <1>1, <1>2, <2>2
    <3>2. QED
      BY <2>2, <3>1, ElementOfSeq
  <2>3. QED
    BY <2>1, <2>2
<1>4. All(l, c) = [i \in 1 .. n |-> IF i <= Len(l) THEN [kind |-> l[i].kind, group |-> l[i].group]
                                   ELSE c[i - Len(l)]]
  BY <1>2 DEF All
<1>5. All(l, c) \in [1 .. n -> Item(m)]
  BY <1>3, <1>4
<1>6. All(l, c) \in Seq(Item(m)) /\ Len(All(l, c)) = n
  BY <1>5
<1>7. \A i \in 1 .. Len(l) : All(l, c)[i] = [kind |-> l[i].kind, group |-> l[i].group]
  BY <1>1, <1>2, <1>4
<1>8. ASSUME NEW i \in 1 .. Len(c)
      PROVE  All(l, c)[Len(l) + i] = c[i]
  <2>1. Len(l) + i \in 1 .. n /\ ~(Len(l) + i <= Len(l)) /\ (Len(l) + i) - Len(l) = i
    BY <1>1, <1>2
  <2>2. QED
    BY <1>4, <2>1
<1>9. \A i \in 1 .. Len(l) : All(l, c)[i].kind = l[i].kind /\ All(l, c)[i].group = l[i].group
  <2> SUFFICES ASSUME NEW i \in 1 .. Len(l)
               PROVE  All(l, c)[i].kind = l[i].kind /\ All(l, c)[i].group = l[i].group
    OBVIOUS
  <2>1. All(l, c)[i] = [kind |-> l[i].kind, group |-> l[i].group]
    BY <1>7
  <2>2. QED
    BY <2>1
<1>10. QED
  BY <1>2, <1>6, <1>8, <1>9

(* What is queued is queued at the end.                                    *)
LEMMA AllPush ==
  ASSUME NEW m \in Nat, NEW l \in Seq(Line(m)), NEW c \in Seq(Item(m)), NEW e \in Item(m)
  PROVE  All(l, Append(c, e)) = Append(All(l, c), e)
<1>1. Append(c, e) \in Seq(Item(m)) /\ Len(Append(c, e)) = Len(c) + 1
      /\ (\A i \in 1 .. Len(c) : Append(c, e)[i] = c[i]) /\ Append(c, e)[Len(c) + 1] = e
  BY AppendProperties
<1>2. PICK F : F = All(l, c)
  OBVIOUS
<1>3. PICK G : G = All(l, Append(c, e))
  OBVIOUS
<1>4. /\ F \in Seq(Item(m)) /\ Len(F) = Len(l) + Len(c)
      /\ \A i \in 1 .. Len(l) : F[i].kind = l[i].kind /\ F[i].group = l[i].group
      /\ \A i \in 1 .. Len(c) : F[Len(l) + i] = c[i]
  BY <1>2, AllFacts
<1>5. /\ G \in Seq(Item(m)) /\ Len(G) = Len(l) + (Len(c) + 1)
      /\ \A i \in 1 .. Len(l) : G[i].kind = l[i].kind /\ G[i].group = l[i].group
      /\ \A i \in 1 .. (Len(c) + 1) : G[Len(l) + i] = Append(c, e)[i]
  <2>1. PICK d : d = Append(c, e)
    OBVIOUS
  <2>2. d \in Seq(Item(m)) /\ Len(d) = Len(c) + 1 /\ G = All(l, d)
    BY <1>1, <1>3, <2>1
  <2>3. /\ All(l, d) \in Seq(Item(m)) /\ Len(All(l, d)) = Len(l) + Len(d)
        /\ \A i \in 1 .. Len(l) : All(l, d)[i].kind = l[i].kind /\ All(l, d)[i].group = l[i].group
        /\ \A i \in 1 .. Len(d) : All(l, d)[Len(l) + i] = d[i]
    BY <2>2, AllFacts
  <2>4. QED
    BY <2>1, <2>2, <2>3
<1>6. /\ Append(F, e) \in Seq(Item(m)) /\ Len(Append(F, e)) = Len(F) + 1
      /\ \A i \in 1 .. Len(F) : Append(F, e)[i] = F[i]
      /\ Append(F, e)[Len(F) + 1] = e
  BY <1>4, AppendProperties
<1>7. Len(l) \in Nat /\ Len(c) \in Nat
  BY LenProperties
<1>8. ASSUME NEW i \in 1 .. Len(G)
      PROVE  G[i] = Append(F, e)[i]
  <2>1. CASE i <= Len(l)
    <3>1. i \in 1 .. Len(F) /\ i \in 1 .. Len(G) /\ i \in 1 .. Len(l)
      BY <1>4, <1>5, <1>7, <2>1
    <3>2. G[i] = F[i]
      <4>1. G[i] \in Item(m) /\ F[i] \in Item(m)
        BY <1>4, <1>5, <3>1, ElementOfSeq
      <4>2. G[i].kind = F[i].kind /\ G[i].group = F[i].group
        BY <1>4, <1>5, <3>1
      <4>3. QED
        BY <4>1, <4>2, SameItem
    <3>3. QED
      BY <1>4, <1>6, <1>7, <2>1, <3>2
  <2>2. CASE i = Len(F) + 1
    <3>1. Len(c) + 1 \in 1 .. (Len(c) + 1) /\ i = Len(l) + (Len(c) + 1)
      BY <1>4, <1>7, <2>2
    <3>2. G[i] = Append(c, e)[Len(c) + 1]
      BY <1>5, <3>1
    <3>3. QED
      BY <1>1, <1>6, <2>2, <3>2
  <2>3. CASE ~(i <= Len(l)) /\ i # Len(F) + 1
    <3>1. PICK j \in 1 .. Len(c) : i = Len(l) + j
      <4>1. Len(l) \in Nat /\ Len(c) \in Nat /\ i \in Nat /\ i <= Len(l) + (Len(c) + 1)
            /\ ~(i <= Len(l)) /\ i # (Len(l) + Len(c)) + 1
        BY <1>4, <1>5, <1>7, <2>3
      <4>2. i - Len(l) \in 1 .. Len(c) /\ i = Len(l) + (i - Len(l))
        BY <4>1
      <4>3. QED
        BY <4>2
    <3>2. G[i] = c[j] /\ F[i] = c[j] /\ i \in 1 .. Len(F)
      BY <1>1, <1>4, <1>5, <1>7, <3>1
    <3>3. QED
      BY <1>6, <3>2
  <2>4. QED
    BY <2>1, <2>2, <2>3
<1>9. G = Append(F, e)
  BY <1>4, <1>5, <1>6, <1>7, <1>8, SeqEqual
<1>10. QED
  BY <1>2, <1>3, <1>9

(* A link that lands changes nothing of what there will be.                *)
LEMMA AllLand ==
  ASSUME NEW m \in Nat, NEW l \in Seq(Line(m)), NEW c \in Seq(Item(m)), c # <<>>,
         NEW line \in Line(m), line.kind = Head(c).kind, line.group = Head(c).group
  PROVE  All(Append(l, line), Tail(c)) = All(l, c)
<1>1. Append(l, line) \in Seq(Line(m)) /\ Len(Append(l, line)) = Len(l) + 1
      /\ (\A i \in 1 .. Len(l) : Append(l, line)[i] = l[i]) /\ Append(l, line)[Len(l) + 1] = line
  BY AppendProperties
<1>2. Tail(c) \in Seq(Item(m)) /\ Len(Tail(c)) = Len(c) - 1
      /\ (\A i \in 1 .. Len(Tail(c)) : Tail(c)[i] = c[i + 1])
  BY HeadTailProperties
<1>3. PICK F : F = All(l, c)
  OBVIOUS
<1>4. PICK G : G = All(Append(l, line), Tail(c))
  OBVIOUS
<1>5. /\ F \in Seq(Item(m)) /\ Len(F) = Len(l) + Len(c)
      /\ \A i \in 1 .. Len(l) : F[i].kind = l[i].kind /\ F[i].group = l[i].group
      /\ \A i \in 1 .. Len(c) : F[Len(l) + i] = c[i]
  BY <1>3, AllFacts
<1>6. /\ G \in Seq(Item(m)) /\ Len(G) = (Len(l) + 1) + (Len(c) - 1)
      /\ \A i \in 1 .. (Len(l) + 1) : /\ G[i].kind = Append(l, line)[i].kind
                                      /\ G[i].group = Append(l, line)[i].group
      /\ \A i \in 1 .. (Len(c) - 1) : G[(Len(l) + 1) + i] = Tail(c)[i]
  <2>1. PICK k, d : k = Append(l, line) /\ d = Tail(c)
    OBVIOUS
  <2>2. /\ d \in Seq(Item(m)) /\ Len(d) = Len(c) - 1 /\ G = All(k, d)
        /\ k \in Seq(Line(m)) /\ Len(k) = Len(l) + 1
    BY <1>1, <1>2, <1>4, <2>1
  <2>3. /\ All(k, d) \in Seq(Item(m)) /\ Len(All(k, d)) = Len(k) + Len(d)
        /\ \A i \in 1 .. Len(k) : All(k, d)[i].kind = k[i].kind /\ All(k, d)[i].group = k[i].group
        /\ \A i \in 1 .. Len(d) : All(k, d)[Len(k) + i] = d[i]
    BY <2>2, AllFacts
  <2>4. QED
    BY <2>1, <2>2, <2>3
<1>7. Len(l) \in Nat /\ Len(c) \in Nat /\ Len(c) > 0 /\ Head(c) = c[1]
  BY LenProperties, EmptySeq
<1>8. ASSUME NEW i \in 1 .. Len(G)
      PROVE  G[i] = F[i]
  <2>1. CASE i <= Len(l) + 1
    <3>1. G[i].kind = F[i].kind /\ G[i].group = F[i].group
      <4>1. CASE i <= Len(l)
        BY <1>1, <1>5, <1>6, <1>7, <4>1
      <4>2. CASE i = Len(l) + 1
        <5>1. F[i] = Head(c) /\ G[i].kind = line.kind /\ G[i].group = line.group
          BY <1>1, <1>5, <1>6, <1>7, <4>2
        <5>2. QED
          BY <5>1
      <4>3. QED
        BY <1>7, <2>1, <4>1, <4>2
    <3>2. G[i] \in Item(m) /\ F[i] \in Item(m)
      BY <1>5, <1>6, <1>7, ElementOfSeq
    <3>3. QED
      BY <3>1, <3>2 DEF Item
  <2>2. CASE ~(i <= Len(l) + 1)
    <3>1. PICK j \in 1 .. (Len(c) - 1) : i = (Len(l) + 1) + j
      <4>1. i - (Len(l) + 1) \in 1 .. (Len(c) - 1) /\ i = (Len(l) + 1) + (i - (Len(l) + 1))
        BY <1>6, <1>7, <2>2
      <4>2. QED
        BY <4>1
    <3>2. G[i] = c[j + 1]
      BY <1>2, <1>6, <3>1
    <3>3. j + 1 \in 1 .. Len(c) /\ i = Len(l) + (j + 1)
      BY <1>7, <3>1
    <3>4. QED
      BY <1>5, <3>2, <3>3
  <2>3. QED
    BY <2>1, <2>2
<1>9. QED
  <2>1. Len(F) = Len(G)
    BY <1>5, <1>6, <1>7
  <2>2. G = F
    BY <1>5, <1>6, <1>8, <2>1, SeqEqual
  <2>3. QED
    BY <1>3, <1>4, <2>2

(* A link that is dropped leaves a gap of one.                             *)
LEMMA AllSkip ==
  ASSUME NEW m \in Nat, NEW l \in Seq(Line(m)), NEW c \in Seq(Item(m)), c # <<>>
  PROVE  /\ Len(All(l, Tail(c))) = Len(All(l, c)) - 1
         /\ \A i \in 1 .. Len(All(l, Tail(c))) :
              All(l, Tail(c))[i] = All(l, c)[IF i <= Len(l) THEN i ELSE i + 1]
<1>1. Tail(c) \in Seq(Item(m)) /\ Len(Tail(c)) = Len(c) - 1
      /\ (\A i \in 1 .. Len(Tail(c)) : Tail(c)[i] = c[i + 1])
  BY HeadTailProperties
<1>2. PICK F : F = All(l, c)
  OBVIOUS
<1>3. PICK G : G = All(l, Tail(c))
  OBVIOUS
<1>4. /\ F \in Seq(Item(m)) /\ Len(F) = Len(l) + Len(c)
      /\ \A i \in 1 .. Len(l) : F[i].kind = l[i].kind /\ F[i].group = l[i].group
      /\ \A i \in 1 .. Len(c) : F[Len(l) + i] = c[i]
  BY <1>2, AllFacts
<1>5. /\ G \in Seq(Item(m)) /\ Len(G) = Len(l) + (Len(c) - 1)
      /\ \A i \in 1 .. Len(l) : G[i].kind = l[i].kind /\ G[i].group = l[i].group
      /\ \A i \in 1 .. (Len(c) - 1) : G[Len(l) + i] = Tail(c)[i]
  <2>1. PICK d : d = Tail(c)
    OBVIOUS
  <2>2. d \in Seq(Item(m)) /\ Len(d) = Len(c) - 1 /\ G = All(l, d)
    BY <1>1, <1>3, <2>1
  <2>3. /\ All(l, d) \in Seq(Item(m)) /\ Len(All(l, d)) = Len(l) + Len(d)
        /\ \A i \in 1 .. Len(l) : All(l, d)[i].kind = l[i].kind /\ All(l, d)[i].group = l[i].group
        /\ \A i \in 1 .. Len(d) : All(l, d)[Len(l) + i] = d[i]
    BY <2>2, AllFacts
  <2>4. QED
    BY <2>1, <2>2, <2>3
<1>6. Len(l) \in Nat /\ Len(c) \in Nat /\ Len(c) > 0
  BY LenProperties, EmptySeq
<1>7. ASSUME NEW i \in 1 .. Len(G)
      PROVE  G[i] = F[IF i <= Len(l) THEN i ELSE i + 1]
  <2>1. CASE i <= Len(l)
    <3>1. G[i].kind = F[i].kind /\ G[i].group = F[i].group
      BY <1>4, <1>5, <2>1
    <3>2. G[i] \in Item(m) /\ F[i] \in Item(m)
      BY <1>4, <1>5, <1>6, <2>1, ElementOfSeq
    <3>3. G[i] = F[i]
      BY <3>1, <3>2 DEF Item
    <3>4. QED
      BY <2>1, <3>3
  <2>2. CASE ~(i <= Len(l))
    <3>1. PICK j \in 1 .. (Len(c) - 1) : i = Len(l) + j
      <4>1. i - Len(l) \in 1 .. (Len(c) - 1) /\ i = Len(l) + (i - Len(l))
        BY <1>5, <1>6, <2>2
      <4>2. QED
        BY <4>1
    <3>2. G[i] = c[j + 1]
      BY <1>1, <1>5, <3>1
    <3>3. j + 1 \in 1 .. Len(c) /\ i + 1 = Len(l) + (j + 1)
      BY <1>6, <3>1
    <3>4. F[i + 1] = c[j + 1]
      BY <1>4, <3>3
    <3>5. QED
      BY <2>2, <3>2, <3>4
  <2>3. QED
    BY <2>1, <2>2
<1>8. Len(G) = Len(F) - 1
  BY <1>4, <1>5, <1>6
<1>9. QED
  BY <1>2, <1>3, <1>7, <1>8

-----------------------------------------------------------------------------
(*                          One more link is queued                        *)

(* What the flags are when a link of this kind has been queued.            *)
Marks(kind, p, s, p2, s2) ==
  /\ kind = "user" => p
  /\ kind = "epoch" => ~p
  /\ p2 = IF kind \in Starts THEN FALSE ELSE IF kind = "epoch" THEN TRUE ELSE p
  /\ kind = "contract" => ~s
  /\ s2 = IF kind = "contract" THEN TRUE ELSE s

LEMMA PushTurns ==
  ASSUME NEW S, NEW F \in Seq(S), NEW e \in S, NEW p \in BOOLEAN,
         TurnsOK(F), e.kind = "user" => p /\ Now(F, p)
  PROVE  TurnsOK(Append(F, e))
<1>1. PICK G : G = Append(F, e)
  OBVIOUS
<1>2. PICK n \in Nat : n = Len(F)
  BY LenProperties
<1>3. /\ Len(G) = n + 1
      /\ \A i \in 1 .. n : G[i] = F[i]
      /\ G[n + 1] = e
  BY <1>1, <1>2, AppendProperties
<1>4. ASSUME NEW i \in 1 .. Len(G), G[i].kind = "user"
      PROVE  \E s \in 1 .. (i - 1) : \E k \in (s + 1) .. (i - 1) :
               /\ G[s].kind \in Starts
               /\ \A j \in (s + 1) .. (i - 1) : G[j].kind \notin Starts
               /\ \A j \in s .. i : G[j].kind = "epoch" <=> j = k
  <2>1. CASE i \in 1 .. n
    <3>1. F[i].kind = "user"
      BY <1>3, <1>4, <2>1
    <3>2. PICK s \in 1 .. (i - 1) : \E k \in (s + 1) .. (i - 1) :
                 /\ F[s].kind \in Starts
                 /\ \A j \in (s + 1) .. (i - 1) : F[j].kind \notin Starts
                 /\ \A j \in s .. i : F[j].kind = "epoch" <=> j = k
      BY <1>2, <2>1, <3>1 DEF TurnsOK
    <3>3. PICK k \in (s + 1) .. (i - 1) :
                 /\ F[s].kind \in Starts
                 /\ \A j \in (s + 1) .. (i - 1) : F[j].kind \notin Starts
                 /\ \A j \in s .. i : F[j].kind = "epoch" <=> j = k
      BY <3>2
    <3>4. \A j \in s .. i : G[j] = F[j]
      BY <1>2, <1>3, <2>1
    <3>5. /\ G[s].kind \in Starts
          /\ \A j \in (s + 1) .. (i - 1) : G[j].kind \notin Starts
          /\ \A j \in s .. i : G[j].kind = "epoch" <=> j = k
      <4>1. G[s] = F[s] /\ \A j \in (s + 1) .. (i - 1) : G[j] = F[j]
        BY <1>2, <2>1, <3>4
      <4>2. QED
        BY <3>3, <3>4, <4>1
    <3>6. QED
      BY <3>5
  <2>2. CASE i = n + 1
    <3>1. e.kind = "user" /\ Now(F, TRUE)
      BY <1>2, <1>3, <1>4, <2>2
    <3>2. PICK s \in 1 .. n :
                 /\ F[s].kind \in Starts
                 /\ \A j \in (s + 1) .. n : F[j].kind \notin Starts
                 /\ \E k \in (s + 1) .. n : \A j \in s .. n : F[j].kind = "epoch" <=> j = k
      BY <1>2, <3>1 DEF Now
    <3>3. PICK k \in (s + 1) .. n : \A j \in s .. n : F[j].kind = "epoch" <=> j = k
      BY <3>2
    <3>4. \A j \in s .. n : G[j] = F[j]
      BY <1>2, <1>3
    <3>5. \A j \in s .. i : G[j].kind = "epoch" <=> j = k
      <4>1. ASSUME NEW j \in s .. i
            PROVE  G[j].kind = "epoch" <=> j = k
        <5>1. CASE j \in s .. n
          BY <3>3, <3>4, <5>1
        <5>2. CASE j = n + 1
          BY <1>2, <1>3, <3>1, <5>2
        <5>3. QED
          BY <1>2, <2>2, <5>1, <5>2
      <4>2. QED
        BY <4>1
    <3>6. /\ G[s].kind \in Starts
          /\ \A j \in (s + 1) .. (i - 1) : G[j].kind \notin Starts
      BY <1>2, <2>2, <3>2, <3>4
    <3>7. s \in 1 .. (i - 1) /\ k \in (s + 1) .. (i - 1)
      BY <1>2, <2>2
    <3>8. QED
      BY <3>5, <3>6, <3>7
  <2>3. QED
    BY <1>2, <1>3, <2>1, <2>2
<1>5. TurnsOK(G)
  BY <1>4 DEF TurnsOK
<1>6. QED
  BY <1>1, <1>5

LEMMA PushNow ==
  ASSUME NEW S, NEW F \in Seq(S), NEW e \in S, NEW p \in BOOLEAN, NEW p2 \in BOOLEAN,
         e.kind \notin Starts => Now(F, p),
         e.kind = "epoch" => ~p,
         p2 = IF e.kind \in Starts THEN FALSE ELSE IF e.kind = "epoch" THEN TRUE ELSE p
  PROVE  Now(Append(F, e), p2)
<1>1. PICK G : G = Append(F, e)
  OBVIOUS
<1>2. PICK n \in Nat : n = Len(F)
  BY LenProperties
<1>3. /\ Len(G) = n + 1
      /\ \A i \in 1 .. n : G[i] = F[i]
      /\ G[n + 1] = e
  BY <1>1, <1>2, AppendProperties
<1>4. CASE e.kind \in Starts
  <2>1. n + 1 \in 1 .. Len(G) /\ G[n + 1].kind \in Starts /\ ~p2
    BY <1>2, <1>3, <1>4
  <2>2. \A j \in ((n + 1) + 1) .. Len(G) : G[j].kind \notin Starts
    BY <1>2, <1>3
  <2>3. \A j \in (n + 1) .. Len(G) : G[j].kind # "epoch"
    BY <1>2, <1>3, <1>4 DEF Starts
  <2>4. Now(G, p2)
    BY <2>1, <2>2, <2>3 DEF Now
  <2>5. QED
    BY <1>1, <2>4
<1>5. CASE e.kind \notin Starts
  <2>1. PICK s \in 1 .. n :
               /\ F[s].kind \in Starts
               /\ \A j \in (s + 1) .. n : F[j].kind \notin Starts
               /\ p => \E k \in (s + 1) .. n : \A j \in s .. n : F[j].kind = "epoch" <=> j = k
               /\ ~p => \A j \in s .. n : F[j].kind # "epoch"
    BY <1>2, <1>5 DEF Now
  <2>2. \A j \in s .. n : G[j] = F[j]
    BY <1>2, <1>3
  <2>3. \A j \in (s + 1) .. Len(G) : G[j].kind \notin Starts
    BY <1>2, <1>3, <1>5, <2>1, <2>2
  <2>4. ASSUME p2
        PROVE  \E k \in (s + 1) .. Len(G) : \A j \in s .. Len(G) : G[j].kind = "epoch" <=> j = k
    <3>1. CASE e.kind = "epoch"
      <4>1. n + 1 \in (s + 1) .. Len(G) /\ \A j \in s .. n : G[j].kind # "epoch"
        BY <1>2, <1>3, <2>1, <2>2, <3>1
      <4>2. \A j \in s .. Len(G) : G[j].kind = "epoch" <=> j = n + 1
        BY <1>2, <1>3, <3>1, <4>1
      <4>3. QED
        BY <4>1, <4>2
    <3>2. CASE e.kind # "epoch"
      <4>1. PICK k \in (s + 1) .. n : \A j \in s .. n : F[j].kind = "epoch" <=> j = k
        BY <1>5, <2>1, <2>4, <3>2
      <4>2. k \in (s + 1) .. Len(G)
        BY <1>2, <1>3
      <4>3. \A j \in s .. Len(G) : G[j].kind = "epoch" <=> j = k
        BY <1>2, <1>3, <2>2, <3>2, <4>1
      <4>4. QED
        BY <4>2, <4>3
    <3>3. QED
      BY <3>1, <3>2
  <2>5. ASSUME ~p2
        PROVE  \A j \in s .. Len(G) : G[j].kind # "epoch"
    BY <1>2, <1>3, <1>5, <2>1, <2>2, <2>5
  <2>6. s \in 1 .. Len(G) /\ G[s].kind \in Starts
    BY <1>2, <1>3, <2>1
  <2>7. Now(G, p2)
    BY <2>3, <2>4, <2>5, <2>6 DEF Now
  <2>8. QED
    BY <1>1, <2>7
<1>6. QED
  BY <1>4, <1>5

LEMMA PushGroups ==
  ASSUME NEW m \in Nat, NEW F \in Seq(Item(m)), NEW e \in Item(m),
         InGroups(F), \A i \in 1 .. Len(F) : F[i].group <= e.group,
         e.kind \in Contracts => Len(F) > 0 /\ F[Len(F)].group = e.group
  PROVE  InGroups(Append(F, e))
<1>1. PICK G : G = Append(F, e)
  OBVIOUS
<1>2. PICK n \in Nat : n = Len(F)
  BY LenProperties
<1>3. /\ Len(G) = n + 1
      /\ \A i \in 1 .. n : G[i] = F[i]
      /\ G[n + 1] = e
  BY <1>1, <1>2, AppendProperties
<1>4. ASSUME NEW i \in 1 .. Len(G), NEW j \in 1 .. Len(G), i <= j
      PROVE  G[i].group <= G[j].group
  <2>1. CASE j \in 1 .. n
    <3>1. i \in 1 .. n
      BY <1>2, <1>4, <2>1
    <3>2. QED
      BY <1>2, <1>3, <1>4, <2>1, <3>1 DEF InGroups
  <2>2. CASE j = n + 1
    <3>1. e.group \in 1 .. m
      BY DEF Item
    <3>2. QED
      BY <1>2, <1>3, <1>4, <2>2, <3>1
  <2>3. QED
    BY <1>2, <1>3, <2>1, <2>2
<1>5. ASSUME NEW i \in 1 .. Len(G), G[i].kind \in Contracts
      PROVE  i > 1 /\ G[i - 1].group = G[i].group
  <2>1. CASE i \in 1 .. n
    <3>1. i > 1 /\ F[i - 1].group = F[i].group
      BY <1>2, <1>3, <1>5, <2>1 DEF InGroups, Follows
    <3>2. QED
      BY <1>2, <1>3, <2>1, <3>1
  <2>2. CASE i = n + 1
    BY <1>2, <1>3, <1>5, <2>2
  <2>3. QED
    BY <1>2, <1>3, <2>1, <2>2
<1>6. InGroups(G)
  BY <1>4, <1>5 DEF InGroups, Follows
<1>7. QED
  BY <1>1, <1>6

LEMMA PushSeed ==
  ASSUME NEW S, NEW F \in Seq(S), NEW e \in S, NEW s \in BOOLEAN, NEW s2 \in BOOLEAN,
         OneSeed(F, s), e.kind = "contract" => ~s,
         s2 = IF e.kind = "contract" THEN TRUE ELSE s
  PROVE  OneSeed(Append(F, e), s2)
<1>1. PICK G : G = Append(F, e)
  OBVIOUS
<1>2. PICK n \in Nat : n = Len(F)
  BY LenProperties
<1>3. /\ Len(G) = n + 1
      /\ \A i \in 1 .. n : G[i] = F[i]
      /\ G[n + 1] = e
  BY <1>1, <1>2, AppendProperties
<1>4. \A i, j \in 1 .. n : F[i].kind = "contract" /\ F[j].kind = "contract" => i = j
  BY <1>2 DEF OneSeed
<1>5. ~s => \A i \in 1 .. n : F[i].kind # "contract"
  BY <1>2 DEF OneSeed
<1>6. ASSUME NEW i \in 1 .. Len(G), NEW j \in 1 .. Len(G),
             G[i].kind = "contract", G[j].kind = "contract"
      PROVE  i = j
  BY <1>2, <1>3, <1>4, <1>5, <1>6
<1>7. ~s2 => \A i \in 1 .. Len(G) : G[i].kind # "contract"
  BY <1>2, <1>3, <1>5
<1>8. OneSeed(G, s2)
  BY <1>6, <1>7 DEF OneSeed
<1>9. QED
  BY <1>1, <1>8

(* The queue c behind the log l, with the flags p and s and m groups.      *)
Fine(l, c, m, p, s) ==
  /\ m \in Nat /\ l \in Seq(Line(m)) /\ c \in Seq(Item(m))
  /\ p \in BOOLEAN /\ s \in BOOLEAN
  /\ Well(All(l, c), p, s)

(* The last link of the queue is one of group m.                           *)
EndsIn(c, m) == c # <<>> /\ c[Len(c)].group = m

Groups(c) == {c[i].group : i \in 1 .. Len(c)}

LEMMA TypesGrow ==
  ASSUME NEW m \in Nat, NEW n \in Nat, m <= n
  PROVE  Item(m) \subseteq Item(n) /\ Line(m) \subseteq Line(n)
<1>1. 1 .. m \subseteq 1 .. n
  OBVIOUS
<1>2. QED
  BY <1>1 DEF Item, Line

LEMMA Push ==
  ASSUME NEW l, NEW c, NEW m, NEW p, NEW s, Fine(l, c, m, p, s),
         NEW n \in Nat, n = m + 1 \/ n = m, n > 0,
         NEW kind \in Kinds, NEW p2, NEW s2, Marks(kind, p, s, p2, s2),
         kind \in Contracts => n = m /\ EndsIn(c, m)
  PROVE  LET d == Append(c, [kind |-> kind, group |-> n])
         IN /\ Fine(l, d, n, p2, s2)
            /\ EndsIn(d, n)
            /\ Groups(d) = Groups(c) \cup {n}
<1>1. PICK e : e = [kind |-> kind, group |-> n]
  OBVIOUS
<1>2. /\ m \in Nat /\ l \in Seq(Line(m)) /\ c \in Seq(Item(m))
      /\ p \in BOOLEAN /\ s \in BOOLEAN
      /\ TurnsOK(All(l, c)) /\ Now(All(l, c), p) /\ InGroups(All(l, c)) /\ OneSeed(All(l, c), s)
  BY DEF Fine, Well
<1>3. l \in Seq(Line(n)) /\ c \in Seq(Item(n)) /\ e \in Item(n)
  <2>1. Item(m) \subseteq Item(n) /\ Line(m) \subseteq Line(n)
    BY <1>2, TypesGrow
  <2>2. l \in Seq(Line(n)) /\ c \in Seq(Item(n))
    BY <1>2, <2>1, SeqMonotonic
  <2>3. QED
    BY <1>1, <2>2 DEF Item
<1>4. PICK F : F = All(l, c)
  OBVIOUS
<1>5. /\ F \in Seq(Item(m)) /\ F \in Seq(Item(n)) /\ Len(F) = Len(l) + Len(c)
      /\ \A i \in 1 .. Len(c) : F[Len(l) + i] = c[i]
  BY <1>2, <1>3, <1>4, AllFacts
<1>6. p2 \in BOOLEAN /\ s2 \in BOOLEAN /\ e.kind = kind /\ e.group = n
  BY <1>1, <1>2 DEF Marks
<1>7. \A i \in 1 .. Len(F) : F[i].group <= e.group
  <2>1. ASSUME NEW i \in 1 .. Len(F)
        PROVE  F[i].group <= e.group
    <3>1. F[i] \in Item(m)
      BY <1>5, ElementOfSeq
    <3>2. F[i].group \in 1 .. m
      BY <3>1 DEF Item
    <3>3. QED
      BY <1>2, <1>6, <3>2
  <2>2. QED
    BY <2>1
<1>8. kind \in Contracts => Len(F) > 0 /\ F[Len(F)].group = e.group
  <2>1. ASSUME kind \in Contracts
        PROVE  Len(F) > 0 /\ F[Len(F)].group = e.group
    <3>1. Len(l) \in Nat /\ Len(c) \in Nat \ {0} /\ c[Len(c)].group = n
      BY <1>2, <2>1, LenProperties, EmptySeq DEF EndsIn
    <3>2. Len(c) \in 1 .. Len(c)
      BY <3>1
    <3>3. F[Len(F)] = c[Len(c)] /\ Len(F) > 0
      BY <1>5, <3>1, <3>2
    <3>4. QED
      BY <1>6, <3>1, <3>3
  <2>2. QED
    BY <2>1
<1>9. TurnsOK(Append(F, e))
  <2>1. e.kind = "user" => p /\ Now(F, p)
    BY <1>2, <1>4, <1>6 DEF Marks
  <2>2. QED
    BY <1>2, <1>3, <1>4, <1>5, <2>1, PushTurns
<1>10. Now(Append(F, e), p2)
  <2>1. /\ e.kind \notin Starts => Now(F, p)
        /\ e.kind = "epoch" => ~p
        /\ p2 = IF e.kind \in Starts THEN FALSE ELSE IF e.kind = "epoch" THEN TRUE ELSE p
    BY <1>2, <1>4, <1>6 DEF Marks
  <2>2. QED
    BY <1>2, <1>3, <1>5, <1>6, <2>1, PushNow
<1>11. InGroups(Append(F, e))
  BY <1>2, <1>3, <1>4, <1>5, <1>6, <1>7, <1>8, PushGroups
<1>12. OneSeed(Append(F, e), s2)
  <2>1. /\ e.kind = "contract" => ~s
        /\ s2 = IF e.kind = "contract" THEN TRUE ELSE s
    BY <1>6 DEF Marks
  <2>2. QED
    BY <1>2, <1>3, <1>4, <1>5, <1>6, <2>1, PushSeed
<1>13. All(l, Append(c, e)) = Append(F, e)
  BY <1>3, <1>4, AllPush
<1>14. /\ Append(c, e) \in Seq(Item(n)) /\ Append(c, e) # <<>>
       /\ Len(Append(c, e)) = Len(c) + 1
       /\ \A i \in 1 .. Len(c) : Append(c, e)[i] = c[i]
       /\ Append(c, e)[Len(c) + 1] = e
  BY <1>3, AppendProperties
<1>15. Fine(l, Append(c, e), n, p2, s2)
  BY <1>3, <1>6, <1>9, <1>10, <1>11, <1>12, <1>13, <1>14 DEF Fine, Well
<1>16. EndsIn(Append(c, e), n)
  BY <1>6, <1>14 DEF EndsIn
<1>17. Groups(Append(c, e)) = Groups(c) \cup {n}
  <2>1. PICK d : d = Append(c, e)
    OBVIOUS
  <2> DEFINE k == Len(c)
  <2>0. k \in Nat
    BY <1>3, LenProperties
  <2>2. Len(d) = k + 1 /\ d[k + 1] = e /\ \A i \in 1 .. k : d[i] = c[i]
    BY <1>14, <2>1, <2>0
  <2>3. Groups(d) \subseteq Groups(c) \cup {n}
    BY <1>6, <2>1, <2>2 DEF Groups
  <2>4. n \in Groups(d)
    <3>1. k + 1 \in 1 .. Len(d) /\ d[k + 1].group = n
      BY <1>6, <2>2
    <3>2. QED
      BY <3>1 DEF Groups
  <2>5. Groups(c) \subseteq Groups(d)
    <3>1. ASSUME NEW i \in 1 .. k
          PROVE  c[i].group \in Groups(d)
      <4>1. i \in 1 .. Len(d) /\ d[i].group = c[i].group
        BY <2>2
      <4>2. QED
        BY <4>1 DEF Groups
    <3>2. QED
      BY <2>1, <3>1 DEF Groups
  <2>6. QED
    BY <2>1, <2>3, <2>4, <2>5
<1>18. QED
  BY <1>1, <1>15, <1>16, <1>17

(* A link that opens a group, and one that follows in its group.           *)
LEMMA PushFirst ==
  ASSUME NEW l, NEW c, NEW m, NEW p, NEW s, Fine(l, c, m, p, s),
         NEW n \in Nat, n = m + 1,
         NEW kind \in Kinds, kind \notin Contracts,
         NEW p2, NEW s2, Marks(kind, p, s, p2, s2)
  PROVE  LET d == Append(c, [kind |-> kind, group |-> n])
         IN Fine(l, d, n, p2, s2) /\ EndsIn(d, n) /\ Groups(d) = Groups(c) \cup {n}
<1>1. n \in Nat /\ n > 0
  BY DEF Fine
<1>2. QED
  BY <1>1, Push

LEMMA PushNext ==
  ASSUME NEW l, NEW c, NEW n, NEW p, NEW s, Fine(l, c, n, p, s), n > 0, EndsIn(c, n),
         NEW kind \in Kinds,
         NEW p2, NEW s2, Marks(kind, p, s, p2, s2)
  PROVE  LET d == Append(c, [kind |-> kind, group |-> n])
         IN Fine(l, d, n, p2, s2) /\ EndsIn(d, n) /\ Groups(d) = Groups(c) \cup {n}
<1>1. n \in Nat
  BY DEF Fine
<1>2. QED
  BY <1>1, Push

-----------------------------------------------------------------------------
(*                         What Queue queues                               *)

(* The links of one group.                                                 *)
Group(g, n) == [i \in 1 .. Len(g) |-> [kind |-> g[i], group |-> n]]

LEMMA GroupTyped ==
  ASSUME NEW g \in Seq(Kinds), NEW m \in Nat, NEW n \in 1 .. m
  PROVE  Group(g, n) \in Seq(Item(m))
<1>1. PICK k \in Nat : k = Len(g)
  BY LenProperties
<1>2. \A i \in 1 .. k : [kind |-> g[i], group |-> n] \in Item(m)
  BY <1>1, ElementOfSeq DEF Item
<1>3. Group(g, n) \in [1 .. k -> Item(m)]
  BY <1>1, <1>2 DEF Group
<1>4. QED
  BY <1>3

LEMMA LinksFacts ==
  ASSUME NEW gs \in Seq(Seq(Kinds)), NEW n \in Nat
  PROVE  \E q : /\ q[0] = <<>>
                /\ \A k \in 1 .. Len(gs) : q[k] = q[k - 1] \o Group(gs[k], n + k)
                /\ Links(gs, n) = q[Len(gs)]
<1>1. PICK z \in Nat : z = Len(gs)
  BY LenProperties
<1>2. PICK V : V = Seq(Item(n + z))
  OBVIOUS
<1>3. PICK step : step = [k \in Nat |-> [v \in V |->
             IF k \notin 1 .. z THEN v ELSE v \o Group(gs[k], n + k)]]
  OBVIOUS
<1>4. Steps(step, V)
  <2>1. ASSUME NEW k \in Nat, NEW v \in V, k \in 1 .. z
        PROVE  v \o Group(gs[k], n + k) \in V
    <3>1. n + z \in Nat /\ n + k \in 1 .. (n + z) /\ gs[k] \in Seq(Kinds)
      BY <1>1, <2>1, ElementOfSeq
    <3>2. Group(gs[k], n + k) \in V
      BY <1>2, <3>1, GroupTyped
    <3>3. QED
      BY <1>2, <3>2, ConcatProperties
  <2>2. QED
    BY <1>3, <2>1 DEF Steps
<1>5. <<>> \in V
  BY <1>2
<1>6. PICK f : Stepwise(f, V, <<>>, step, z)
  BY <1>4, <1>5, StepwiseExists
<1>7. \A k \in 1 .. z : f[k] = f[k - 1] \o Group(gs[k], n + k)
  <2> SUFFICES ASSUME NEW k \in 1 .. z
               PROVE  f[k] = f[k - 1] \o Group(gs[k], n + k)
    OBVIOUS
  <2>1. k \in Nat /\ f[k - 1] \in V
    BY <1>6 DEF Stepwise
  <2>2. f[k] = step[k][f[k - 1]]
    BY <1>6 DEF Stepwise
  <2>3. QED
    BY <1>3, <2>1, <2>2
<1>8. f = [k \in 0 .. z |->
             IF k = 0 THEN <<>>
             ELSE f[k - 1] \o [i \in 1 .. Len(gs[k]) |-> [kind |-> gs[k][i], group |-> n + k]]]
  <2>1. \A k \in 0 .. z : f[k] = IF k = 0 THEN <<>>
             ELSE f[k - 1] \o [i \in 1 .. Len(gs[k]) |-> [kind |-> gs[k][i], group |-> n + k]]
    <3>1. f[0] = <<>> /\ \A k \in 0 .. z : k # 0 => k \in 1 .. z
      BY <1>6 DEF Stepwise
    <3>2. QED
      BY <1>7, <3>1 DEF Group
  <2>2. f = [k \in 0 .. z |-> f[k]]
    BY <1>6 DEF Stepwise
  <2>3. QED
    BY <2>1, <2>2
<1>9. PICK q : q = CHOOSE h : h = [k \in 0 .. z |->
             IF k = 0 THEN <<>>
             ELSE h[k - 1] \o [i \in 1 .. Len(gs[k]) |-> [kind |-> gs[k][i], group |-> n + k]]]
  OBVIOUS
<1>10. q = [k \in 0 .. z |->
             IF k = 0 THEN <<>>
             ELSE q[k - 1] \o [i \in 1 .. Len(gs[k]) |-> [kind |-> gs[k][i], group |-> n + k]]]
  BY <1>8, <1>9
<1>11. Links(gs, n) = q[z]
  BY <1>1, <1>9 DEF Links
<1>12. q[0] = <<>>
  BY <1>10
<1>13. ASSUME NEW k \in 1 .. z
       PROVE  q[k] = q[k - 1] \o Group(gs[k], n + k)
  <2>1. k \in 0 .. z /\ k # 0
    OBVIOUS
  <2>2. QED
    BY <1>10, <2>1 DEF Group
<1>14. QED
  BY <1>1, <1>11, <1>12, <1>13

(* The links of one, two and three groups.                                 *)
LEMMA LinksOne ==
  ASSUME NEW g \in Seq(Kinds), NEW n \in Nat
  PROVE  Links(<<g>>, n) = Group(g, n + 1)
<1>1. PICK gs : gs = <<g>>
  OBVIOUS
<1>2. gs \in Seq(Seq(Kinds)) /\ Len(gs) = 1 /\ gs[1] = g
  BY <1>1
<1>3. PICK q : /\ q[0] = <<>>
               /\ \A k \in 1 .. 1 : q[k] = q[k - 1] \o Group(gs[k], n + k)
               /\ Links(gs, n) = q[1]
  BY <1>2, LinksFacts
<1>4. q[1] = <<>> \o Group(g, n + 1)
  <2>1. q[1] = q[0] \o Group(gs[1], n + 1)
    <3>1. 1 \in 1 .. 1 /\ 1 - 1 = 0
      OBVIOUS
    <3>2. QED
      BY <1>3, <3>1
  <2>2. QED
    BY <1>2, <1>3, <2>1
<1>5. Group(g, n + 1) \in Seq(Item(n + 1))
  BY GroupTyped
<1>6. QED
  BY <1>1, <1>3, <1>4, <1>5, ConcatEmptySeq

LEMMA LinksTwo ==
  ASSUME NEW g \in Seq(Kinds), NEW h \in Seq(Kinds), NEW n \in Nat
  PROVE  Links(<<g, h>>, n) = Group(g, n + 1) \o Group(h, n + 2)
<1>1. PICK gs : gs = <<g, h>>
  OBVIOUS
<1>2. gs \in Seq(Seq(Kinds)) /\ Len(gs) = 2 /\ gs[1] = g /\ gs[2] = h
  BY <1>1
<1>3. PICK q : /\ q[0] = <<>>
               /\ \A k \in 1 .. 2 : q[k] = q[k - 1] \o Group(gs[k], n + k)
               /\ Links(gs, n) = q[2]
  BY <1>2, LinksFacts
<1>4. q[1] = <<>> \o Group(g, n + 1) /\ q[2] = q[1] \o Group(h, n + 2)
  <2>1. q[1] = q[0] \o Group(gs[1], n + 1)
    <3>1. 1 \in 1 .. 2 /\ 1 - 1 = 0
      OBVIOUS
    <3>2. QED
      BY <1>3, <3>1
  <2>2. q[2] = q[1] \o Group(gs[2], n + 2)
    <3>1. 2 \in 1 .. 2 /\ 2 - 1 = 1
      OBVIOUS
    <3>2. QED
      BY <1>3, <3>1
  <2>3. QED
    BY <1>2, <1>3, <2>1, <2>2
<1>5. Group(g, n + 1) \in Seq(Item(n + 1))
  BY GroupTyped
<1>6. q[1] = Group(g, n + 1)
  BY <1>4, <1>5, ConcatEmptySeq
<1>7. QED
  BY <1>1, <1>3, <1>4, <1>6

LEMMA LinksThree ==
  ASSUME NEW g \in Seq(Kinds), NEW h \in Seq(Kinds), NEW r \in Seq(Kinds), NEW n \in Nat
  PROVE  Links(<<g, h, r>>, n) = (Group(g, n + 1) \o Group(h, n + 2)) \o Group(r, n + 3)
<1>1. PICK gs : gs = <<g, h, r>>
  OBVIOUS
<1>2. gs \in Seq(Seq(Kinds)) /\ Len(gs) = 3 /\ gs[1] = g /\ gs[2] = h /\ gs[3] = r
  BY <1>1
<1>3. PICK q : /\ q[0] = <<>>
               /\ \A k \in 1 .. 3 : q[k] = q[k - 1] \o Group(gs[k], n + k)
               /\ Links(gs, n) = q[3]
  BY <1>2, LinksFacts
<1>4. q[1] = <<>> \o Group(g, n + 1) /\ q[2] = q[1] \o Group(h, n + 2)
      /\ q[3] = q[2] \o Group(r, n + 3)
  <2>1. q[1] = q[0] \o Group(gs[1], n + 1)
    <3>1. 1 \in 1 .. 3 /\ 1 - 1 = 0
      OBVIOUS
    <3>2. QED
      BY <1>3, <3>1
  <2>2. q[2] = q[1] \o Group(gs[2], n + 2)
    <3>1. 2 \in 1 .. 3 /\ 2 - 1 = 1
      OBVIOUS
    <3>2. QED
      BY <1>3, <3>1
  <2>3. q[3] = q[2] \o Group(gs[3], n + 3)
    <3>1. 3 \in 1 .. 3 /\ 3 - 1 = 2
      OBVIOUS
    <3>2. QED
      BY <1>3, <3>1
  <2>4. QED
    BY <1>2, <1>3, <2>1, <2>2, <2>3
<1>5. Group(g, n + 1) \in Seq(Item(n + 1))
  BY GroupTyped
<1>6. q[1] = Group(g, n + 1)
  BY <1>4, <1>5, ConcatEmptySeq
<1>7. QED
  BY <1>1, <1>3, <1>4, <1>6

(* A group behind a queue is its links behind it, one after another.       *)
LEMMA GroupPushOne ==
  ASSUME NEW m \in Nat, NEW c \in Seq(Item(m)), NEW n \in 1 .. m, NEW a \in Kinds
  PROVE  c \o Group(<<a>>, n) = Append(c, [kind |-> a, group |-> n])
<1>1. PICK x : x = [kind |-> a, group |-> n]
  OBVIOUS
<1>2. x \in Item(m)
  BY <1>1 DEF Item
<1>3. Group(<<a>>, n) = <<x>>
  BY <1>1 DEF Group
<1>4. c \o <<x>> = Append(c, x)
  BY <1>2
<1>5. QED
  BY <1>1, <1>3, <1>4

LEMMA GroupPushTwo ==
  ASSUME NEW m \in Nat, NEW c \in Seq(Item(m)), NEW n \in 1 .. m, NEW a \in Kinds, NEW b \in Kinds
  PROVE  c \o Group(<<a, b>>, n) =
           Append(Append(c, [kind |-> a, group |-> n]), [kind |-> b, group |-> n])
<1>1. PICK x, y : x = [kind |-> a, group |-> n] /\ y = [kind |-> b, group |-> n]
  OBVIOUS
<1>2. x \in Item(m) /\ y \in Item(m)
  BY <1>1 DEF Item
<1>3. Group(<<a, b>>, n) = <<x, y>>
  BY <1>1 DEF Group
<1>4. Append(c, x) \in Seq(Item(m))
  BY <1>2
<1>5. c \o <<x, y>> = Append(Append(c, x), y)
  BY <1>2, <1>4
<1>6. QED
  BY <1>1, <1>3, <1>5

LEMMA GroupPushThree ==
  ASSUME NEW m \in Nat, NEW c \in Seq(Item(m)), NEW n \in 1 .. m,
         NEW a \in Kinds, NEW b \in Kinds, NEW d \in Kinds
  PROVE  c \o Group(<<a, b, d>>, n) =
           Append(Append(Append(c, [kind |-> a, group |-> n]),
                         [kind |-> b, group |-> n]), [kind |-> d, group |-> n])
<1>1. PICK x, y, z : /\ x = [kind |-> a, group |-> n]
                     /\ y = [kind |-> b, group |-> n]
                     /\ z = [kind |-> d, group |-> n]
  OBVIOUS
<1>2. x \in Item(m) /\ y \in Item(m) /\ z \in Item(m)
  BY <1>1 DEF Item
<1>3. Group(<<a, b, d>>, n) = <<x, y, z>>
  BY <1>1 DEF Group
<1>4. Append(c, x) \in Seq(Item(m)) /\ Append(Append(c, x), y) \in Seq(Item(m))
  BY <1>2
<1>5. c \o <<x, y, z>> = Append(Append(Append(c, x), y), z)
  BY <1>2, <1>4
<1>6. QED
  BY <1>1, <1>3, <1>5

(* What the operations queue, link by link: in each case the queue stays   *)
(* as it should be, with the flags that the operation sets.                *)
Grown(l, c, m, p, s, d, n) ==
  /\ n > m /\ Fine(l, d, n, p, s) /\ Groups(d) = Groups(c) \cup (m + 1) .. n

Plain == {"snapshot", "call", "limit", "result", "file", "ended"}

LEMMA PushPlain ==
  ASSUME NEW l, NEW c, NEW m, NEW p, NEW s, Fine(l, c, m, p, s),
         NEW a \in Plain, NEW b \in Plain, NEW d \in Plain
  PROVE  /\ Grown(l, c, m, p, s, c \o Links(<< <<a>> >>, m), m + 1)
         /\ Grown(l, c, m, p, s, c \o Links(<< <<a, b>> >>, m), m + 1)
         /\ Grown(l, c, m, p, s, c \o Links(<< <<a, b, d>> >>, m), m + 1)
<1>1. /\ m \in Nat /\ c \in Seq(Item(m)) /\ p \in BOOLEAN /\ s \in BOOLEAN
  BY DEF Fine
<1>2. a \in Kinds /\ b \in Kinds /\ d \in Kinds
  BY DEF Plain, Kinds
<1>3. \A k \in Plain : Marks(k, p, s, p, s) /\ k \notin Contracts
  BY <1>1 DEF Plain, Marks, Starts, Contracts
<1>4. PICK n \in Nat : n = m + 1
  BY <1>1
<1>5. c \in Seq(Item(n)) /\ n \in 1 .. n /\ n > 0
  <2>1. Item(m) \subseteq Item(n)
    BY <1>1, <1>4, TypesGrow
  <2>2. QED
    BY <1>1, <1>4, <2>1, SeqMonotonic
<1>6. PICK x : x = Append(c, [kind |-> a, group |-> n])
  OBVIOUS
<1>7. Fine(l, x, n, p, s) /\ Groups(x) = Groups(c) \cup {n}
  BY <1>1, <1>2, <1>3, <1>4, <1>5, <1>6, Push
<1>8. PICK y : y = Append(x, [kind |-> b, group |-> n])
  OBVIOUS
<1>9. Fine(l, y, n, p, s) /\ Groups(y) = Groups(x) \cup {n}
  BY <1>1, <1>2, <1>3, <1>5, <1>7, <1>8, Push
<1>10. PICK z : z = Append(y, [kind |-> d, group |-> n])
  OBVIOUS
<1>11. Fine(l, z, n, p, s) /\ Groups(z) = Groups(y) \cup {n}
  BY <1>1, <1>2, <1>3, <1>5, <1>9, <1>10, Push
<1>12. {n} = (m + 1) .. n /\ n > m
  BY <1>1, <1>4
<1>13. Grown(l, c, m, p, s, x, n) /\ Grown(l, c, m, p, s, y, n) /\ Grown(l, c, m, p, s, z, n)
  BY <1>7, <1>9, <1>11, <1>12 DEF Grown
<1>14. <<a>> \in Seq(Kinds) /\ <<a, b>> \in Seq(Kinds) /\ <<a, b, d>> \in Seq(Kinds)
  BY <1>2
<1>15. /\ Links(<< <<a>> >>, m) = Group(<<a>>, n)
       /\ Links(<< <<a, b>> >>, m) = Group(<<a, b>>, n)
       /\ Links(<< <<a, b, d>> >>, m) = Group(<<a, b, d>>, n)
  <2>1. Links(<< <<a>> >>, m) = Group(<<a>>, n)
    BY <1>1, <1>4, <1>14, LinksOne
  <2>2. Links(<< <<a, b>> >>, m) = Group(<<a, b>>, n)
    BY <1>1, <1>4, <1>14, LinksOne
  <2>3. Links(<< <<a, b, d>> >>, m) = Group(<<a, b, d>>, n)
    BY <1>1, <1>4, <1>14, LinksOne
  <2>4. QED
    BY <2>1, <2>2, <2>3
<1>16. /\ c \o Group(<<a>>, n) = x
       /\ c \o Group(<<a, b>>, n) = y
       /\ c \o Group(<<a, b, d>>, n) = z
  <2>1. n \in Nat
    OBVIOUS
  <2>2. c \o Group(<<a>>, n) = x
    BY <1>2, <1>5, <1>6, <2>1, GroupPushOne
  <2>3. c \o Group(<<a, b>>, n) = y
    BY <1>2, <1>5, <1>6, <1>8, <2>1, GroupPushTwo
  <2>4. c \o Group(<<a, b, d>>, n) = z
    BY <1>2, <1>5, <1>6, <1>8, <1>10, <2>1, GroupPushThree
  <2>5. QED
    BY <2>2, <2>3, <2>4
<1>17. QED
  BY <1>4, <1>13, <1>15, <1>16

LEMMA PushEpoch ==
  ASSUME NEW l, NEW c, NEW m, NEW f, NEW t, NEW s, Fine(l, c, m, f, s),
         Marks("epoch", f, s, t, s), Marks("snapshot", t, s, t, s)
  PROVE  Grown(l, c, m, t, s, c \o Links(<< <<"epoch">>, <<"snapshot">> >>, m), m + 2)
<1>1. m \in Nat /\ c \in Seq(Item(m)) /\ s \in BOOLEAN
  BY DEF Fine
<1>2. PICK n \in Nat, k \in Nat : n = m + 1 /\ k = m + 2
  BY <1>1
<1>3. /\ "epoch" \in Kinds /\ "epoch" \notin Contracts /\ Marks("epoch", f, s, t, s)
      /\ "snapshot" \in Kinds /\ "snapshot" \notin Contracts /\ Marks("snapshot", t, s, t, s)
  BY DEF Kinds, Contracts
<1>4. PICK x : x = Append(c, [kind |-> "epoch", group |-> n])
  OBVIOUS
<1>5. Fine(l, x, n, t, s) /\ Groups(x) = Groups(c) \cup {n}
  BY <1>2, <1>3, <1>4, PushFirst
<1>6. PICK y : y = Append(x, [kind |-> "snapshot", group |-> k])
  OBVIOUS
<1>7. Fine(l, y, k, t, s) /\ Groups(y) = Groups(x) \cup {k}
  <2>1. k = n + 1
    BY <1>1, <1>2
  <2>2. QED
    BY <1>3, <1>5, <1>6, <2>1, PushFirst
<1>8. {n} \cup {k} = (m + 1) .. k /\ k > m
  BY <1>1, <1>2
<1>9. Groups(y) = Groups(c) \cup (m + 1) .. k
  BY <1>5, <1>7, <1>8
<1>10. Grown(l, c, m, t, s, y, k)
  BY <1>7, <1>8, <1>9 DEF Grown
<1>11. <<"epoch">> \in Seq(Kinds) /\ <<"snapshot">> \in Seq(Kinds)
  BY <1>3
<1>12. Links(<< <<"epoch">>, <<"snapshot">> >>, m) = Group(<<"epoch">>, n) \o Group(<<"snapshot">>, k)
  BY <1>1, <1>2, <1>11, LinksTwo
<1>13. c \in Seq(Item(k)) /\ x \in Seq(Item(k)) /\ n \in 1 .. k /\ k \in 1 .. k
  <2>1. Item(m) \subseteq Item(k) /\ Item(n) \subseteq Item(k)
    BY <1>1, <1>2, TypesGrow
  <2>2. x \in Seq(Item(n))
    BY <1>5 DEF Fine
  <2>3. QED
    BY <1>1, <1>2, <2>1, <2>2, SeqMonotonic
<1>14. c \o Group(<<"epoch">>, n) = x /\ x \o Group(<<"snapshot">>, k) = y
  <2>1. c \o Group(<<"epoch">>, n) = x
    BY <1>3, <1>4, <1>13, GroupPushOne
  <2>2. x \o Group(<<"snapshot">>, k) = y
    BY <1>3, <1>6, <1>13, GroupPushOne
  <2>3. QED
    BY <2>1, <2>2
<1>15. Group(<<"epoch">>, n) \in Seq(Item(k)) /\ Group(<<"snapshot">>, k) \in Seq(Item(k))
  BY <1>11, <1>13, GroupTyped
<1>16. c \o (Group(<<"epoch">>, n) \o Group(<<"snapshot">>, k)) = y
  <2>1. PICK E, T : E = Group(<<"epoch">>, n) /\ T = Group(<<"snapshot">>, k)
    OBVIOUS
  <2>2. E \in Seq(Item(k)) /\ T \in Seq(Item(k))
    BY <1>15, <2>1
  <2>3. (c \o E) \o T = c \o (E \o T)
    BY <1>13, <2>2, ConcatAssociative
  <2>4. QED
    BY <1>14, <2>1, <2>3
<1>17. QED
  BY <1>2, <1>10, <1>12, <1>16

LEMMA PushMessage ==
  ASSUME NEW l, NEW c, NEW m, NEW p, NEW s, Fine(l, c, m, p, s),
         NEW kind \in Turns, NEW mark \in Contracts, NEW p2, NEW t,
         Marks(kind, p, s, p2, s), Marks(mark, p2, s, p2, t)
  PROVE  Grown(l, c, m, p2, t,
               c \o Group(<<kind, mark>>, m + 1), m + 1)
<1>1. m \in Nat /\ c \in Seq(Item(m)) /\ s \in BOOLEAN /\ p \in BOOLEAN
  BY DEF Fine
<1>2. PICK n \in Nat : n = m + 1
  BY <1>1
<1>4. kind \in Kinds /\ kind \notin Contracts /\ mark \in Kinds
  BY DEF Kinds, Contracts, Turns
<1>5. PICK x : x = Append(c, [kind |-> kind, group |-> n])
  OBVIOUS
<1>6. Fine(l, x, n, p2, s) /\ EndsIn(x, n) /\ Groups(x) = Groups(c) \cup {n}
  BY <1>2, <1>4, <1>5, PushFirst
<1>7. PICK y : y = Append(x, [kind |-> mark, group |-> n])
  OBVIOUS
<1>8. Fine(l, y, n, p2, t) /\ Groups(y) = Groups(x) \cup {n}
  <2>1. n > 0
    BY <1>1, <1>2
  <2>2. QED
    BY <1>4, <1>6, <1>7, <2>1, PushNext
<1>9. {n} = (m + 1) .. n /\ n > m
  BY <1>1, <1>2
<1>10. Grown(l, c, m, p2, t, y, n)
  BY <1>6, <1>8, <1>9 DEF Grown
<1>11. c \in Seq(Item(n)) /\ n \in 1 .. n
  <2>1. Item(m) \subseteq Item(n)
    BY <1>1, <1>2, TypesGrow
  <2>2. QED
    BY <1>1, <1>2, <2>1, SeqMonotonic
<1>12. c \o Group(<<kind, mark>>, n) = y
  BY <1>4, <1>5, <1>7, <1>11, GroupPushTwo
<1>13. QED
  BY <1>2, <1>10, <1>12

(* A user message whose turn has no epoch yet brings one.                  *)
LEMMA PushTurn ==
  ASSUME NEW l, NEW c, NEW m, NEW s, NEW f, NEW t, Fine(l, c, m, f, s),
         NEW mark \in Contracts,
         Marks("epoch", f, s, t, s), Marks("snapshot", t, s, t, s),
         Marks("user", t, s, f, s), Marks(mark, f, s, f, t)
  PROVE  Grown(l, c, m, f, t,
               c \o Links(<< <<"epoch">>, <<"snapshot">>, <<"user", mark>> >>, m), m + 3)
<1>1. m \in Nat /\ c \in Seq(Item(m)) /\ s \in BOOLEAN
  BY DEF Fine
<1>2. PICK n \in Nat, k \in Nat : n = m + 2 /\ k = m + 3
  BY <1>1
<1>3. "epoch" \in Kinds /\ "snapshot" \in Kinds /\ "user" \in Kinds /\ mark \in Kinds
  BY DEF Kinds, Turns, Contracts
<1>4. <<"epoch">> \in Seq(Kinds) /\ <<"snapshot">> \in Seq(Kinds) /\ <<"user", mark>> \in Seq(Kinds)
  BY <1>3
<1>5. PICK E, T, U : /\ E = Group(<<"epoch">>, m + 1)
                     /\ T = Group(<<"snapshot">>, n)
                     /\ U = Group(<<"user", mark>>, k)
  OBVIOUS
<1>6. Links(<< <<"epoch">>, <<"snapshot">>, <<"user", mark>> >>, m) = (E \o T) \o U
  <2>1. PICK g \in Seq(Kinds) : g = <<"epoch">>
    BY <1>4
  <2>2. PICK h \in Seq(Kinds) : h = <<"snapshot">>
    BY <1>4
  <2>3. PICK r \in Seq(Kinds) : r = <<"user", mark>>
    BY <1>4
  <2>4. Links(<<g, h, r>>, m) = (Group(g, m + 1) \o Group(h, m + 2)) \o Group(r, m + 3)
    BY <1>1, LinksThree
  <2>5. QED
    BY <1>2, <1>5, <2>1, <2>2, <2>3, <2>4
<1>7. Links(<< <<"epoch">>, <<"snapshot">> >>, m) = E \o T
  BY <1>1, <1>2, <1>4, <1>5, LinksTwo
<1>8. PICK y : y = c \o (E \o T)
  OBVIOUS
<1>9. Grown(l, c, m, t, s, y, n)
  BY <1>2, <1>7, <1>8, PushEpoch
<1>10. Fine(l, y, n, t, s) /\ Groups(y) = Groups(c) \cup (m + 1) .. n
  BY <1>9 DEF Grown
<1>11. PICK z : z = y \o U
  OBVIOUS
<1>12. Grown(l, y, n, f, t, z, k)
  <2>1. "user" \in Turns /\ k = n + 1
    BY <1>1, <1>2 DEF Turns
  <2>2. PICK kind \in Turns : kind = "user"
    BY <2>1
  <2>3. Marks(kind, t, s, f, s)
    BY <2>2
  <2>4. Grown(l, y, n, f, t, y \o Group(<<kind, mark>>, n + 1), n + 1)
    BY <1>10, <2>3, PushMessage
  <2>5. QED
    BY <1>5, <1>11, <2>1, <2>2, <2>4
<1>13. Fine(l, z, k, f, t) /\ Groups(z) = Groups(y) \cup (n + 1) .. k
  BY <1>12 DEF Grown
<1>14. (m + 1) .. n \cup (n + 1) .. k = (m + 1) .. k /\ k > m
  BY <1>1, <1>2
<1>15. Groups(z) = Groups(c) \cup (m + 1) .. k
  BY <1>10, <1>13, <1>14
<1>16. Grown(l, c, m, f, t, z, k)
  BY <1>13, <1>14, <1>15 DEF Grown
<1>17. z = c \o ((E \o T) \o U)
  <2>1. c \in Seq(Item(k)) /\ m + 1 \in 1 .. k /\ n \in 1 .. k /\ k \in 1 .. k
    <3>1. Item(m) \subseteq Item(k)
      BY <1>1, <1>2, TypesGrow
    <3>2. QED
      BY <1>1, <1>2, <3>1, SeqMonotonic
  <2>2. E \in Seq(Item(k)) /\ T \in Seq(Item(k)) /\ U \in Seq(Item(k))
    BY <1>4, <1>5, <2>1, GroupTyped
  <2>3. E \o T \in Seq(Item(k))
    BY <2>2, ConcatProperties
  <2>4. PICK W : W = E \o T
    OBVIOUS
  <2>5. PICK S : S = Item(k)
    OBVIOUS
  <2>6. c \in Seq(S) /\ W \in Seq(S) /\ U \in Seq(S)
    BY <2>1, <2>2, <2>3, <2>4, <2>5
  <2>7. (c \o W) \o U = c \o (W \o U)
    BY <2>6, ConcatAssociative
  <2>8. QED
    BY <1>8, <1>11, <2>4, <2>7
<1>18. QED
  BY <1>2, <1>6, <1>16, <1>17

-----------------------------------------------------------------------------
(*                            The invariant                                *)

(* The versions of the log count up from the contract.                     *)
Versioned ==
  /\ \A i \in 1 .. Len(log) : log[i].version > 0 => log[i].kind \in Contracts
  /\ \A i \in 1 .. Len(log) : log[i].kind = "contract" => log[i].version = 1
  /\ OneContract
  /\ \E v \in Versions \cup {0} : \A w \in Versions : w <= v

LogInv == Versioned /\ AuditOrder /\ TurnsOK(log) /\ Follows(log)

(* What is queued continues the log, while there is a writer to write it:  *)
(* without one nothing that is queued lands any more.                      *)
ChainInv == writer.state # "null" => Well(All(log, chain), prepared, seeded)

(* What is owed is in the log, or on its way there.                        *)
FlushInv ==
  /\ owed \subseteq Groups(log) \cup (IF writer.state = "null" THEN {} ELSE Groups(chain))
  /\ pc \in {"ending", "flushing", "releasing"} => \A g \in owed : g <= awaits
  /\ pc = "closed" => writer.state = "null"

MirrorInv == TypeOK /\ LogInv /\ ChainInv /\ FlushInv

LEMMA Typed ==
  ASSUME TypeOK
  PROVE  /\ issued \in Nat
         /\ chain \in Seq(Item(issued)) /\ log \in Seq(Line(issued))
         /\ Len(log) \in Nat /\ Len(chain) \in Nat
<1>1. chain \in Seq(Item(issued)) /\ log \in Seq(Line(issued)) /\ issued \in 0 .. MaxIssues
  BY DEF TypeOK, Item, Line
<1>2. QED
  BY <1>1, MaxIssuesAssumption, LenProperties

LEMMA FineNow ==
  ASSUME MirrorInv, writer.state # "null"
  PROVE  Fine(log, chain, issued, prepared, seeded)
<1>1. /\ issued \in Nat
      /\ chain \in Seq(Item(issued)) /\ log \in Seq(Line(issued))
  BY Typed DEF MirrorInv
<1>2. prepared \in BOOLEAN /\ seeded \in BOOLEAN
  BY DEF MirrorInv, TypeOK
<1>3. Well(All(log, chain), prepared, seeded)
  BY DEF MirrorInv, ChainInv
<1>4. QED
  BY <1>1, <1>2, <1>3 DEF Fine

LEMMA Tuples ==
  ASSUME NEW a, NEW b, NEW d
  PROVE  /\ <<a>> \o <<b>> = <<a, b>>
         /\ <<a, b>> \o <<d>> = <<a, b, d>>
         /\ <<a>> \o <<>> = <<a>>
         /\ <<a, b>> \o <<>> = <<a, b>>
         /\ <<>> \o <<a>> = <<a>>
<1>1. PICK S : S = {a, b, d}
  OBVIOUS
<1>2. /\ <<a>> \in Seq(S) /\ <<b>> \in Seq(S) /\ <<d>> \in Seq(S)
      /\ <<a, b>> \in Seq(S) /\ <<a, b, d>> \in Seq(S)
  BY <1>1
<1>3. <<a>> \o <<>> = <<a>> /\ <<a, b>> \o <<>> = <<a, b>> /\ <<>> \o <<a>> = <<a>>
  BY <1>2, ConcatEmptySeq
<1>4. <<a>> \o <<b>> = <<a, b>>
  <2>1. PICK s, t, u : s = <<a>> /\ t = <<b>> /\ u = <<a, b>>
    OBVIOUS
  <2>2. s \in Seq(S) /\ t \in Seq(S) /\ u \in Seq(S) /\ Len(s) = 1 /\ Len(t) = 1 /\ Len(u) = 2
        /\ s[1] = a /\ t[1] = b /\ u[1] = a /\ u[2] = b
    BY <1>2, <2>1
  <2>3. /\ s \o t \in Seq(S) /\ Len(s \o t) = Len(s) + Len(t)
        /\ \A i \in 1 .. Len(s) + Len(t) : (s \o t)[i] = IF i <= Len(s) THEN s[i] ELSE t[i - Len(s)]
    BY <2>2, ConcatProperties
  <2>4. s \o t = u
    BY <2>2, <2>3, SeqEqual
  <2>5. QED
    BY <2>1, <2>4
<1>5. <<a, b>> \o <<d>> = <<a, b, d>>
  <2>1. PICK s, t, u : s = <<a, b>> /\ t = <<d>> /\ u = <<a, b, d>>
    OBVIOUS
  <2>2. s \in Seq(S) /\ t \in Seq(S) /\ u \in Seq(S) /\ Len(s) = 2 /\ Len(t) = 1 /\ Len(u) = 3
        /\ s[1] = a /\ s[2] = b /\ t[1] = d /\ u[1] = a /\ u[2] = b /\ u[3] = d
    BY <1>2, <2>1
  <2>3. /\ s \o t \in Seq(S) /\ Len(s \o t) = Len(s) + Len(t)
        /\ \A i \in 1 .. Len(s) + Len(t) : (s \o t)[i] = IF i <= Len(s) THEN s[i] ELSE t[i - Len(s)]
    BY <2>2, ConcatProperties
  <2>4. s \o t = u
    BY <2>2, <2>3, SeqEqual
  <2>5. QED
    BY <2>1, <2>4
<1>6. QED
  BY <1>3, <1>4, <1>5

(* What a call of the host queues.                                         *)
LEMMA PrepareGrows ==
  ASSUME MirrorInv, PrepareTurn
  PROVE  Grown(log, chain, issued, prepared', seeded', chain', issued')
<1>1. Fine(log, chain, issued, prepared, seeded)
  BY FineNow DEF PrepareTurn, Calls, Accepts
<1>2. Marks("epoch", prepared, seeded, prepared', seeded) /\ Marks("snapshot", prepared', seeded, prepared', seeded)
  BY DEF PrepareTurn, Marks, Starts
<1>3. Epoch = << <<"epoch">>, <<"snapshot">> >>
  BY DEF PrepareTurn, Epoch
<1>4. issued' = issued + 2 /\ chain' = chain \o Links(<< <<"epoch">>, <<"snapshot">> >>, issued)
  BY <1>3 DEF PrepareTurn, Queue
<1>5. Grown(log, chain, issued, prepared', seeded,
            chain \o Links(<< <<"epoch">>, <<"snapshot">> >>, issued), issued + 2)
  BY <1>1, <1>2, PushEpoch
<1>6. seeded' = seeded
  BY DEF PrepareTurn
<1>7. QED
  BY <1>4, <1>5, <1>6

LEMMA UserGrows ==
  ASSUME MirrorInv, UserMessage
  PROVE  Grown(log, chain, issued, prepared', seeded', chain', issued')
<1>1. Fine(log, chain, issued, prepared, seeded)
  BY FineNow DEF UserMessage, Calls, Accepts
<1>2. PICK mark : mark = IF seeded THEN "update" ELSE "contract"
  OBVIOUS
<1>3. mark \in Contracts /\ Message("user") = <<"user", mark>>
  BY <1>2 DEF Message, Contracts
<1>4. "user" \in Turns /\ <<"user", mark>> \in Seq(Kinds) /\ issued \in Nat
  BY <1>1, <1>3 DEF Turns, Kinds, Contracts, Fine
<1>5. CASE prepared
  <2>1. Marks("user", prepared, seeded, prepared', seeded) /\ Marks(mark, prepared', seeded, prepared', seeded')
    BY <1>2, <1>5 DEF UserMessage, Marks, Starts
  <2>2. Epoch \o <<Message("user")>> = << <<"user", mark>> >>
    BY <1>3, <1>5, Tuples DEF Epoch
  <2>3. issued' = issued + 1 /\ chain' = chain \o Links(<< <<"user", mark>> >>, issued)
    BY <2>2 DEF UserMessage, Queue
  <2>4. Links(<< <<"user", mark>> >>, issued) = Group(<<"user", mark>>, issued + 1)
    BY <1>4, LinksOne
  <2>5. Grown(log, chain, issued, prepared', seeded', chain \o Group(<<"user", mark>>, issued + 1), issued + 1)
    BY <1>1, <1>3, <1>4, <2>1, PushMessage
  <2>6. QED
    BY <2>3, <2>4, <2>5
<1>6. CASE ~prepared
  <2>1. /\ Marks("epoch", prepared, seeded, seeded', seeded)
        /\ Marks("snapshot", seeded', seeded, seeded', seeded)
        /\ Marks("user", seeded', seeded, prepared, seeded)
        /\ Marks(mark, prepared, seeded, prepared, seeded')
    <3>1. prepared = FALSE /\ seeded \in BOOLEAN /\ seeded' = TRUE
      BY <1>1, <1>6 DEF Fine, UserMessage
    <3>2. QED
      BY <1>2, <3>1 DEF Marks, Starts
  <2>2. Epoch \o <<Message("user")>> = << <<"epoch">>, <<"snapshot">>, <<"user", mark>> >>
    <3>1. PICK a, b, d : a = <<"epoch">> /\ b = <<"snapshot">> /\ d = <<"user", mark>>
      OBVIOUS
    <3>2. Epoch = <<a, b>> /\ <<a, b>> \o <<d>> = <<a, b, d>>
      <4>1. Epoch = <<a, b>>
        BY <1>6, <3>1 DEF Epoch
      <4>2. <<a, b>> \o <<d>> = <<a, b, d>>
        BY Tuples
      <4>3. QED
        BY <4>1, <4>2
    <3>3. QED
      BY <1>3, <3>1, <3>2
  <2>3. issued' = issued + 3
        /\ chain' = chain \o Links(<< <<"epoch">>, <<"snapshot">>, <<"user", mark>> >>, issued)
    BY <2>2 DEF UserMessage, Queue
  <2>4. Grown(log, chain, issued, prepared, seeded',
              chain \o Links(<< <<"epoch">>, <<"snapshot">>, <<"user", mark>> >>, issued), issued + 3)
    BY <1>1, <1>3, <2>1, PushTurn
  <2>5. prepared' = prepared
    BY <1>1, <1>6 DEF UserMessage, Fine
  <2>6. QED
    BY <2>3, <2>4, <2>5
<1>7. QED
  BY <1>5, <1>6

LEMMA ImportedGrows ==
  ASSUME MirrorInv, ImportedMessage
  PROVE  Grown(log, chain, issued, prepared', seeded', chain', issued')
<1>1. Fine(log, chain, issued, prepared, seeded)
  BY FineNow DEF ImportedMessage, Calls, Accepts
<1>2. PICK mark : mark = IF seeded THEN "update" ELSE "contract"
  OBVIOUS
<1>3. mark \in Contracts /\ Message("imported") = <<"imported", mark>>
  BY <1>2 DEF Message, Contracts
<1>4. "imported" \in Turns /\ <<"imported", mark>> \in Seq(Kinds) /\ issued \in Nat
  BY <1>1, <1>3 DEF Turns, Kinds, Contracts, Fine
<1>5. Marks("imported", prepared, seeded, prepared, seeded) /\ Marks(mark, prepared, seeded, prepared, seeded')
  BY <1>2 DEF ImportedMessage, Marks, Starts
<1>6. issued' = issued + 1 /\ chain' = chain \o Links(<< <<"imported", mark>> >>, issued)
  BY <1>3 DEF ImportedMessage, Queue
<1>7. Links(<< <<"imported", mark>> >>, issued) = Group(<<"imported", mark>>, issued + 1)
  BY <1>4, LinksOne
<1>8. Grown(log, chain, issued, prepared, seeded', chain \o Group(<<"imported", mark>>, issued + 1), issued + 1)
  BY <1>1, <1>3, <1>4, <1>5, PushMessage
<1>9. prepared' = prepared
  BY DEF ImportedMessage
<1>10. QED
  BY <1>6, <1>7, <1>8, <1>9

LEMMA PlainGrows ==
  ASSUME MirrorInv, writer.state # "null", NEW g, Queue(<<g>>),
         UNCHANGED <<prepared, seeded>>,
         \E a, b, d \in Plain : g \in {<<a>>, <<a, b>>, <<a, b, d>>}
  PROVE  Grown(log, chain, issued, prepared', seeded', chain', issued')
<1>1. Fine(log, chain, issued, prepared, seeded)
  BY FineNow
<1>2. issued' = issued + 1 /\ chain' = chain \o Links(<<g>>, issued)
  BY DEF Queue
<1>3. PICK a \in Plain, b \in Plain, d \in Plain : g = <<a>> \/ g = <<a, b>> \/ g = <<a, b, d>>
  OBVIOUS
<1>4. /\ Grown(log, chain, issued, prepared, seeded, chain \o Links(<< <<a>> >>, issued), issued + 1)
      /\ Grown(log, chain, issued, prepared, seeded, chain \o Links(<< <<a, b>> >>, issued), issued + 1)
      /\ Grown(log, chain, issued, prepared, seeded, chain \o Links(<< <<a, b, d>> >>, issued), issued + 1)
  BY <1>1, PushPlain
<1>5. Grown(log, chain, issued, prepared, seeded, chain \o Links(<<g>>, issued), issued + 1)
  BY <1>3, <1>4
<1>6. QED
  BY <1>2, <1>5

LEMMA CallGrows ==
  ASSUME MirrorInv, ToolCall
  PROVE  Grown(log, chain, issued, prepared', seeded', chain', issued')
<1>1. PICK limit \in {<<>>, <<"limit">>}, snapshot \in {<<>>, <<"snapshot">>} :
        Queue(<< <<"call">> \o limit \o snapshot >>)
  BY DEF ToolCall
<1>2. writer.state # "null" /\ UNCHANGED <<prepared, seeded>>
  BY DEF ToolCall, Calls, Accepts
<1>3. PICK g : g = <<"call">> \o limit \o snapshot
  OBVIOUS
<1>4. g \in {<<"call">>, <<"call", "limit">>, <<"call", "snapshot">>, <<"call", "limit", "snapshot">>}
  BY <1>3, Tuples
<1>5. "call" \in Plain /\ "limit" \in Plain /\ "snapshot" \in Plain
  BY DEF Plain
<1>6. \E a, b, d \in Plain : g \in {<<a>>, <<a, b>>, <<a, b, d>>}
  BY <1>4, <1>5
<1>7. QED
  BY <1>1, <1>2, <1>3, <1>6, PlainGrows

LEMMA ResultGrows ==
  ASSUME MirrorInv, ToolResult
  PROVE  Grown(log, chain, issued, prepared', seeded', chain', issued')
<1>1. PICK file \in {<<>>, <<"file">>} : Queue(<< <<"result">> \o file >>)
  BY DEF ToolResult
<1>2. writer.state # "null" /\ UNCHANGED <<prepared, seeded>>
  BY DEF ToolResult, Calls, Accepts
<1>3. PICK g : g = <<"result">> \o file
  OBVIOUS
<1>4. g \in {<<"result">>, <<"result", "file">>}
  BY <1>3, Tuples
<1>5. "result" \in Plain /\ "file" \in Plain
  BY DEF Plain
<1>6. \E a, b, d \in Plain : g \in {<<a>>, <<a, b>>, <<a, b, d>>}
  BY <1>4, <1>5
<1>7. QED
  BY <1>1, <1>2, <1>3, <1>6, PlainGrows

LEMMA EndedGrows ==
  ASSUME MirrorInv, writer.state # "null", Queue(<< <<"ended">> >>), UNCHANGED <<prepared, seeded>>
  PROVE  Grown(log, chain, issued, prepared', seeded', chain', issued')
<1>1. PICK g : g = <<"ended">>
  OBVIOUS
<1>2. "ended" \in Plain
  BY DEF Plain
<1>3. \E a, b, d \in Plain : g \in {<<a>>, <<a, b>>, <<a, b, d>>}
  BY <1>1, <1>2
<1>4. QED
  BY <1>1, <1>3, PlainGrows

-----------------------------------------------------------------------------
(*                          A link is dropped                              *)

(* F without its x-th element.                                             *)
Gap(F, G, x) ==
  /\ Len(G) = Len(F) - 1
  /\ \A i \in 1 .. Len(G) : G[i] = F[IF i < x THEN i ELSE i + 1]

LEMMA GapTurns ==
  ASSUME NEW F, NEW G, NEW x, Len(F) \in Nat, x \in 1 .. Len(F), Gap(F, G, x),
         F[x].kind \in Contracts, TurnsOK(F)
  PROVE  TurnsOK(G)
<1>1. PICK n \in Nat : n = Len(F)
  OBVIOUS
<1>2. /\ Len(G) = n - 1 /\ x \in 1 .. n
      /\ \A i \in 1 .. (n - 1) : i < x => G[i] = F[i]
      /\ \A i \in 1 .. (n - 1) : i >= x => G[i] = F[i + 1]
  BY <1>1 DEF Gap
<1>3. F[x].kind \notin Starts /\ F[x].kind # "user" /\ F[x].kind # "epoch"
  BY DEF Contracts, Starts
<1>4. ASSUME NEW i \in 1 .. Len(G), G[i].kind = "user"
      PROVE  \E s \in 1 .. (i - 1) : \E k \in (s + 1) .. (i - 1) :
               /\ G[s].kind \in Starts
               /\ \A j \in (s + 1) .. (i - 1) : G[j].kind \notin Starts
               /\ \A j \in s .. i : G[j].kind = "epoch" <=> j = k
  <2>1. PICK y \in 1 .. n : y = IF i < x THEN i ELSE i + 1
    BY <1>1, <1>2
  <2>2. F[y].kind = "user"
    BY <1>1, <1>2, <1>4, <2>1
  <2>3. PICK s \in 1 .. (y - 1) : \E k \in (s + 1) .. (y - 1) :
               /\ F[s].kind \in Starts
               /\ \A j \in (s + 1) .. (y - 1) : F[j].kind \notin Starts
               /\ \A j \in s .. y : F[j].kind = "epoch" <=> j = k
    <3>1. y \in 1 .. Len(F)
      BY <1>1
    <3>2. QED
      BY <2>2, <3>1 DEF TurnsOK
  <2>4. PICK k \in (s + 1) .. (y - 1) :
               /\ F[s].kind \in Starts
               /\ \A j \in (s + 1) .. (y - 1) : F[j].kind \notin Starts
               /\ \A j \in s .. y : F[j].kind = "epoch" <=> j = k
    BY <2>3
  <2>5. s # x /\ k # x /\ F[k].kind = "epoch"
    <3>1. k \in s .. y
      BY <2>1
    <3>2. F[k].kind = "epoch"
      BY <2>4, <3>1
    <3>3. QED
      BY <1>3, <2>4, <3>2
  <2>6. PICK t \in 1 .. (i - 1) : t = IF s < x THEN s ELSE s - 1
    BY <1>1, <1>2, <2>1, <2>5
  <2>7. PICK h \in (t + 1) .. (i - 1) : h = IF k < x THEN k ELSE k - 1
    BY <1>1, <1>2, <2>1, <2>5, <2>6
  <2>8. G[t].kind \in Starts
    BY <1>1, <1>2, <2>1, <2>4, <2>5, <2>6
  <2>9. ASSUME NEW j \in (t + 1) .. (i - 1)
        PROVE  G[j].kind \notin Starts
    <3>1. PICK z \in 1 .. n : z = IF j < x THEN j ELSE j + 1
      BY <1>1, <1>2, <2>6
    <3>2. G[j] = F[z]
      BY <1>1, <1>2, <2>6, <3>1
    <3>3. z \in (s + 1) .. (y - 1)
      BY <1>1, <1>2, <2>1, <2>5, <2>6, <3>1
    <3>4. QED
      BY <2>4, <3>2, <3>3
  <2>10. ASSUME NEW j \in t .. i
         PROVE  G[j].kind = "epoch" <=> j = h
    <3>1. PICK z \in 1 .. n : z = IF j < x THEN j ELSE j + 1
      BY <1>1, <1>2, <2>6
    <3>2. G[j] = F[z]
      BY <1>1, <1>2, <2>6, <3>1
    <3>3. z \in s .. y
      BY <1>1, <1>2, <2>1, <2>5, <2>6, <3>1
    <3>4. F[z].kind = "epoch" <=> z = k
      BY <2>4, <3>3
    <3>5. z = k <=> j = h
      BY <1>1, <1>2, <2>5, <2>6, <2>7, <3>1
    <3>6. QED
      BY <3>2, <3>4, <3>5
  <2>11. QED
    BY <2>8, <2>9, <2>10
<1>5. QED
  BY <1>4 DEF TurnsOK

LEMMA GapNow ==
  ASSUME NEW F, NEW G, NEW x, Len(F) \in Nat, x \in 1 .. Len(F), Gap(F, G, x),
         F[x].kind \in Contracts, NEW p \in BOOLEAN, Now(F, p)
  PROVE  Now(G, p)
<1>1. PICK n \in Nat : n = Len(F)
  OBVIOUS
<1>2. /\ Len(G) = n - 1 /\ x \in 1 .. n
      /\ \A i \in 1 .. (n - 1) : i < x => G[i] = F[i]
      /\ \A i \in 1 .. (n - 1) : i >= x => G[i] = F[i + 1]
  BY <1>1 DEF Gap
<1>3. F[x].kind \notin Starts /\ F[x].kind # "epoch"
  BY DEF Contracts, Starts
<1>4. PICK s \in 1 .. n :
               /\ F[s].kind \in Starts
               /\ \A j \in (s + 1) .. n : F[j].kind \notin Starts
               /\ p => \E k \in (s + 1) .. n : \A j \in s .. n : F[j].kind = "epoch" <=> j = k
               /\ ~p => \A j \in s .. n : F[j].kind # "epoch"
  BY <1>1 DEF Now
<1>5. s # x
  BY <1>3, <1>4
<1>6. PICK t \in 1 .. (n - 1) : t = IF s < x THEN s ELSE s - 1
  BY <1>2, <1>5
<1>7. ASSUME NEW j \in t .. (n - 1)
      PROVE  \E z \in s .. n : z = (IF j < x THEN j ELSE j + 1) /\ G[j] = F[z]
  <2>1. PICK z \in 1 .. n : z = IF j < x THEN j ELSE j + 1
    BY <1>2, <1>6
  <2>2. G[j] = F[z]
    BY <1>2, <1>6, <2>1
  <2>3. z \in s .. n
    BY <1>2, <1>5, <1>6, <2>1
  <2>4. QED
    BY <2>1, <2>2, <2>3
<1>8. G[t].kind \in Starts
  BY <1>2, <1>4, <1>5, <1>6
<1>9. ASSUME NEW j \in (t + 1) .. (n - 1)
      PROVE  G[j].kind \notin Starts
  <2>1. j \in t .. (n - 1)
    BY <1>6
  <2>2. PICK z \in s .. n : z = (IF j < x THEN j ELSE j + 1) /\ G[j] = F[z]
    BY <1>7, <2>1
  <2>3. z \in (s + 1) .. n
    BY <1>2, <1>5, <1>6, <2>2
  <2>4. QED
    BY <1>4, <2>2, <2>3
<1>10. ASSUME p
       PROVE  \E h \in (t + 1) .. (n - 1) : \A j \in t .. (n - 1) : G[j].kind = "epoch" <=> j = h
  <2>1. PICK k \in (s + 1) .. n : \A j \in s .. n : F[j].kind = "epoch" <=> j = k
    BY <1>4, <1>10
  <2>2. k \in s .. n
    OBVIOUS
  <2>3. k # x
    BY <1>3, <2>1, <2>2
  <2>4. PICK h \in (t + 1) .. (n - 1) : h = IF k < x THEN k ELSE k - 1
    BY <1>2, <1>5, <1>6, <2>3
  <2>5. ASSUME NEW j \in t .. (n - 1)
        PROVE  G[j].kind = "epoch" <=> j = h
    <3>1. PICK z \in s .. n : z = (IF j < x THEN j ELSE j + 1) /\ G[j] = F[z]
      BY <1>7
    <3>2. z = k <=> j = h
      BY <1>2, <1>6, <2>3, <2>4, <3>1
    <3>3. QED
      BY <2>1, <3>1, <3>2
  <2>6. QED
    BY <2>5
<1>11. ASSUME ~p
       PROVE  \A j \in t .. (n - 1) : G[j].kind # "epoch"
  BY <1>4, <1>7, <1>11
<1>12. QED
  BY <1>2, <1>8, <1>9, <1>10, <1>11 DEF Now

LEMMA GapGroups ==
  ASSUME NEW F, NEW G, NEW x, Len(F) \in Nat, x \in 1 .. Len(F), Gap(F, G, x),
         F[x].kind \in Contracts, InGroups(F)
  PROVE  InGroups(G)
<1>1. PICK n \in Nat : n = Len(F)
  OBVIOUS
<1>2. /\ Len(G) = n - 1 /\ x \in 1 .. n
      /\ \A i \in 1 .. (n - 1) : i < x => G[i] = F[i]
      /\ \A i \in 1 .. (n - 1) : i >= x => G[i] = F[i + 1]
  BY <1>1 DEF Gap
<1>3. /\ \A i, j \in 1 .. n : i <= j => F[i].group <= F[j].group
      /\ \A i \in 1 .. n : F[i].kind \in Contracts => i > 1 /\ F[i - 1].group = F[i].group
  BY <1>1 DEF InGroups, Follows
<1>4. ASSUME NEW i \in 1 .. (n - 1)
      PROVE  \E z \in 1 .. n : z = (IF i < x THEN i ELSE i + 1) /\ G[i] = F[z]
  BY <1>2
<1>5. ASSUME NEW i \in 1 .. (n - 1), NEW j \in 1 .. (n - 1), i <= j
      PROVE  G[i].group <= G[j].group
  <2>1. PICK y \in 1 .. n : y = (IF i < x THEN i ELSE i + 1) /\ G[i] = F[y]
    BY <1>4
  <2>2. PICK z \in 1 .. n : z = (IF j < x THEN j ELSE j + 1) /\ G[j] = F[z]
    BY <1>4
  <2>3. y <= z
    BY <1>2, <1>5, <2>1, <2>2
  <2>4. QED
    BY <1>3, <2>1, <2>2, <2>3
<1>6. ASSUME NEW i \in 1 .. (n - 1), G[i].kind \in Contracts
      PROVE  i > 1 /\ G[i - 1].group = G[i].group
  <2>1. PICK z \in 1 .. n : z = (IF i < x THEN i ELSE i + 1) /\ G[i] = F[z]
    BY <1>4
  <2>2. z > 1 /\ F[z - 1].group = F[z].group /\ z - 1 \in 1 .. n
    <3>1. z > 1 /\ F[z - 1].group = F[z].group
      BY <1>3, <1>6, <2>1
    <3>2. QED
      BY <3>1
  <2>3. CASE z - 1 # x
    <3>1. i > 1 /\ i - 1 \in 1 .. (n - 1)
      BY <1>2, <2>1, <2>2, <2>3
    <3>2. PICK y \in 1 .. n : y = (IF i - 1 < x THEN i - 1 ELSE (i - 1) + 1) /\ G[i - 1] = F[y]
      BY <1>4, <3>1
    <3>3. y = z - 1
      BY <1>2, <2>1, <2>3, <3>1, <3>2
    <3>4. QED
      BY <2>1, <2>2, <3>1, <3>2, <3>3
  <2>4. CASE z - 1 = x
    <3>1. x > 1 /\ F[x - 1].group = F[x].group
      BY <1>2, <1>3
    <3>2. i = x /\ i > 1 /\ i - 1 \in 1 .. (n - 1) /\ i - 1 < x
      BY <1>2, <2>1, <2>4, <3>1
    <3>3. G[i - 1] = F[i - 1]
      BY <1>2, <3>2
    <3>4. QED
      BY <2>1, <2>2, <2>4, <3>1, <3>2, <3>3
  <2>5. QED
    BY <2>3, <2>4
<1>7. QED
  BY <1>2, <1>5, <1>6 DEF InGroups, Follows

LEMMA GapSeed ==
  ASSUME NEW F, NEW G, NEW x, Len(F) \in Nat, x \in 1 .. Len(F), Gap(F, G, x),
         NEW s \in BOOLEAN, OneSeed(F, s)
  PROVE  OneSeed(G, s)
<1>1. PICK n \in Nat : n = Len(F)
  OBVIOUS
<1>2. /\ Len(G) = n - 1 /\ x \in 1 .. n
      /\ \A i \in 1 .. (n - 1) : i < x => G[i] = F[i]
      /\ \A i \in 1 .. (n - 1) : i >= x => G[i] = F[i + 1]
  BY <1>1 DEF Gap
<1>3. /\ \A i, j \in 1 .. n : F[i].kind = "contract" /\ F[j].kind = "contract" => i = j
      /\ ~s => \A i \in 1 .. n : F[i].kind # "contract"
  BY <1>1 DEF OneSeed
<1>4. ASSUME NEW i \in 1 .. (n - 1)
      PROVE  \E z \in 1 .. n : z = (IF i < x THEN i ELSE i + 1) /\ G[i] = F[z]
  BY <1>2
<1>5. ASSUME NEW i \in 1 .. (n - 1), NEW j \in 1 .. (n - 1),
             G[i].kind = "contract", G[j].kind = "contract"
      PROVE  i = j
  <2>1. PICK y \in 1 .. n : y = (IF i < x THEN i ELSE i + 1) /\ G[i] = F[y]
    BY <1>4
  <2>2. PICK z \in 1 .. n : z = (IF j < x THEN j ELSE j + 1) /\ G[j] = F[z]
    BY <1>4
  <2>3. y = z
    BY <1>3, <1>5, <2>1, <2>2
  <2>4. QED
    BY <1>2, <2>1, <2>2, <2>3
<1>6. ~s => \A i \in 1 .. (n - 1) : G[i].kind # "contract"
  BY <1>3, <1>4
<1>7. QED
  BY <1>2, <1>5, <1>6 DEF OneSeed

(* A contract that is skipped, or whose failure is swallowed.              *)
LEMMA DropKeeps ==
  ASSUME NEW m \in Nat, NEW l \in Seq(Line(m)), NEW c \in Seq(Item(m)), c # <<>>,
         Head(c).kind \in Contracts,
         NEW p \in BOOLEAN, NEW s \in BOOLEAN, Well(All(l, c), p, s)
  PROVE  /\ Well(All(l, Tail(c)), p, s)
         /\ Head(c).group \in Groups(l)
         /\ Groups(c) = Groups(Tail(c)) \cup {Head(c).group}
<1>1. Len(l) \in Nat /\ Len(c) \in Nat \ {0}
  BY LenProperties, EmptySeq
<1>2. PICK F, G : F = All(l, c) /\ G = All(l, Tail(c))
  OBVIOUS
<1>3. /\ F \in Seq(Item(m)) /\ Len(F) = Len(l) + Len(c)
      /\ \A i \in 1 .. Len(l) : F[i].kind = l[i].kind /\ F[i].group = l[i].group
      /\ \A i \in 1 .. Len(c) : F[Len(l) + i] = c[i]
  BY <1>2, AllFacts
<1>4. PICK x : x = Len(l) + 1
  OBVIOUS
<1>5. Gap(F, G, x)
  <2>1. /\ Len(G) = Len(F) - 1
        /\ \A i \in 1 .. Len(G) : G[i] = F[IF i <= Len(l) THEN i ELSE i + 1]
    BY <1>2, AllSkip
  <2>2. \A i \in 1 .. Len(G) : i <= Len(l) <=> i < x
    BY <1>1, <1>3, <1>4, <2>1
  <2>3. QED
    BY <2>1, <2>2 DEF Gap
<1>6. Len(F) \in Nat /\ x \in 1 .. Len(F) /\ F[x] = Head(c)
  <2>1. 1 \in 1 .. Len(c) /\ Head(c) = c[1]
    BY <1>1
  <2>2. QED
    BY <1>1, <1>3, <1>4, <2>1
<1>7. Well(G, p, s)
  <2>1. TurnsOK(F) /\ Now(F, p) /\ InGroups(F) /\ OneSeed(F, s) /\ F[x].kind \in Contracts
    BY <1>2, <1>6 DEF Well
  <2>2. TurnsOK(G)
    BY <1>5, <1>6, <2>1, GapTurns
  <2>3. Now(G, p)
    BY <1>5, <1>6, <2>1, GapNow
  <2>4. InGroups(G)
    BY <1>5, <1>6, <2>1, GapGroups
  <2>5. OneSeed(G, s)
    BY <1>5, <1>6, <2>1, GapSeed
  <2>6. QED
    BY <2>2, <2>3, <2>4, <2>5 DEF Well
<1>8. Head(c).group \in Groups(l)
  <2>1. x > 1 /\ F[x - 1].group = F[x].group
    BY <1>2, <1>6 DEF Well, InGroups, Follows
  <2>2. Len(l) \in 1 .. Len(l) /\ x - 1 = Len(l)
    BY <1>1, <1>4, <2>1
  <2>3. l[Len(l)].group = Head(c).group
    BY <1>3, <1>6, <2>1, <2>2
  <2>4. QED
    BY <2>2, <2>3 DEF Groups
<1>9. Groups(c) = Groups(Tail(c)) \cup {Head(c).group}
  <2>1. PICK d : d = Tail(c)
    OBVIOUS
  <2>2. /\ Len(d) = Len(c) - 1 /\ \A i \in 1 .. Len(d) : d[i] = c[i + 1]
    BY <2>1, HeadTailProperties
  <2>3. Groups(c) \subseteq Groups(d) \cup {c[1].group}
    <3>1. ASSUME NEW i \in 1 .. Len(c), i # 1
          PROVE  c[i].group \in Groups(d)
      <4>1. i - 1 \in 1 .. Len(d) /\ d[i - 1] = c[i]
        BY <1>1, <2>2, <3>1
      <4>2. QED
        BY <4>1 DEF Groups
    <3>2. QED
      BY <3>1 DEF Groups
  <2>4. Groups(d) \subseteq Groups(c)
    <3>1. ASSUME NEW i \in 1 .. Len(d)
          PROVE  d[i].group \in Groups(c)
      <4>1. i + 1 \in 1 .. Len(c) /\ d[i] = c[i + 1]
        BY <1>1, <2>2
      <4>2. QED
        BY <4>1 DEF Groups
    <3>2. QED
      BY <3>1 DEF Groups
  <2>5. c[1].group \in Groups(c) /\ Head(c) = c[1]
    <3>1. 1 \in 1 .. Len(c) /\ Head(c) = c[1]
      BY <1>1
    <3>2. QED
      BY <3>1 DEF Groups
  <2>6. QED
    BY <2>1, <2>3, <2>4, <2>5
<1>10. QED
  BY <1>2, <1>7, <1>8, <1>9

-----------------------------------------------------------------------------
(*                            A link lands                                 *)

LEMMA LatestFacts ==
  ASSUME TypeOK, Versioned
  PROVE  /\ Latest \in Nat
         /\ \A i \in 1 .. Len(log) : log[i].version \in Nat /\ log[i].version <= Latest
         /\ Latest > 0 => \E i \in 1 .. Len(log) : log[i].version = Latest
<1>1. log \in Seq(Line(issued)) /\ Len(log) \in Nat
  BY Typed
<1>2. \A i \in 1 .. Len(log) : log[i].version \in Nat
  <2>1. ASSUME NEW i \in 1 .. Len(log)
        PROVE  log[i].version \in Nat
    <3>1. log[i] \in Line(issued)
      BY <1>1, ElementOfSeq
    <3>2. QED
      BY <3>1 DEF Line
  <2>2. QED
    BY <2>1
<1>3. Latest \in Versions \cup {0} /\ \A w \in Versions : w <= Latest
  BY DEF Versioned, Latest
<1>4. \A i \in 1 .. Len(log) : log[i].version \in Versions
  BY DEF Versions
<1>5. QED
  BY <1>2, <1>3, <1>4 DEF Versions

(* With no contract in the log there are no versions.                      *)
LEMMA NoVersions ==
  ASSUME TypeOK, Versioned, \A i \in 1 .. Len(log) : log[i].kind # "contract"
  PROVE  \A i \in 1 .. Len(log) : log[i].version = 0
<1>1. /\ Len(log) \in Nat
      /\ \A i \in 1 .. Len(log) : log[i].version \in Nat
  BY Typed, LatestFacts
<1>2. SUFFICES ASSUME NEW i \in 1 .. Len(log), log[i].version > 0
               PROVE  FALSE
  BY <1>1
<1>3. /\ log[i].kind = "contract" <=> log[i].version = 1
      /\ \A w \in 1 .. (log[i].version - 1) : \E j \in 1 .. (i - 1) : log[j].version = w
  BY <1>2 DEF Versioned, OneContract
<1>4. log[i].version > 1
  BY <1>1, <1>2, <1>3
<1>5. PICK j \in 1 .. (i - 1) : log[j].version = 1
  <2>1. 1 \in 1 .. (log[i].version - 1)
    BY <1>1, <1>4
  <2>2. QED
    BY <1>3, <2>1
<1>6. j \in 1 .. Len(log)
  BY <1>1
<1>7. log[j].kind = "contract"
  BY <1>5, <1>6 DEF Versioned, OneContract
<1>8. QED
  BY <1>6, <1>7

LEMMA LandFacts ==
  ASSUME MirrorInv, LinkLands
  PROVE  \E line \in Line(issued) :
           /\ log' = Append(log, line)
           /\ line.kind = Head(chain).kind /\ line.group = Head(chain).group
           /\ line.version = Version(line.kind)
           /\ line.kind = "update" => Latest # 0
           /\ chain # <<>> /\ chain' = Tail(chain)
           /\ writer.state = "open" /\ writer'.state = "open"
           /\ Len(log') = Len(log) + 1
           /\ (\A i \in 1 .. Len(log) : log'[i] = log[i]) /\ log'[Len(log) + 1] = line
<1>1. /\ issued \in Nat /\ log \in Seq(Line(issued)) /\ chain \in Seq(Item(issued))
  BY Typed DEF MirrorInv
<1>2. /\ chain # <<>> /\ writer.state = "open" /\ ~Skips(Head(chain)) /\ Land(Head(chain))
      /\ chain' = Tail(chain) /\ writer' = OpenAt(writer.nextSeq + 1)
  BY DEF LinkLands, Running
<1>3. Head(chain) \in Item(issued)
  BY <1>1, <1>2, HeadTailProperties
<1>4. PICK h \in Item(issued) : h = Head(chain)
  BY <1>3
<1>5. PICK line : line = [kind |-> h.kind, group |-> h.group, seq |-> writer.nextSeq, version |-> Version(h.kind)]
  OBVIOUS
<1>6. line.kind = h.kind /\ line.group = h.group /\ line.seq = writer.nextSeq /\ line.version = Version(h.kind)
  BY <1>5
<1>7. Version(h.kind) \in Nat
  BY LatestFacts DEF MirrorInv, LogInv, Version
<1>8. h.kind \in Kinds /\ h.group \in 1 .. issued /\ writer.nextSeq \in Nat
  BY DEF Item, MirrorInv, TypeOK
<1>9. line \in Line(issued)
  BY <1>5, <1>7, <1>8 DEF Line
<1>10. log' = Append(log, line)
  BY <1>2, <1>4, <1>5 DEF Land
<1>11. /\ Len(Append(log, line)) = Len(log) + 1
       /\ \A i \in 1 .. Len(log) : Append(log, line)[i] = log[i]
       /\ Append(log, line)[Len(log) + 1] = line
  BY <1>1, <1>9, AppendProperties
<1>12. writer'.state = "open"
  BY <1>2 DEF OpenAt
<1>13. h.kind = "update" => Latest # 0
  BY <1>2, <1>4 DEF Skips
<1>14. QED
  BY <1>2, <1>4, <1>6, <1>9, <1>10, <1>11, <1>12, <1>13

LEMMA LandKeepsVersions ==
  ASSUME MirrorInv, LinkLands
  PROVE  Versioned'
<1>1. PICK line \in Line(issued) :
           /\ log' = Append(log, line)
           /\ line.kind = Head(chain).kind /\ line.group = Head(chain).group
           /\ line.version = Version(line.kind)
           /\ line.kind = "update" => Latest # 0
           /\ chain # <<>> /\ chain' = Tail(chain)
           /\ writer.state = "open" /\ writer'.state = "open"
           /\ Len(log') = Len(log) + 1
           /\ (\A i \in 1 .. Len(log) : log'[i] = log[i]) /\ log'[Len(log) + 1] = line
  BY LandFacts
<1>2. /\ issued \in Nat /\ log \in Seq(Line(issued)) /\ chain \in Seq(Item(issued))
      /\ Len(log) \in Nat /\ Len(chain) \in Nat
  BY Typed DEF MirrorInv
<1>3. /\ Latest \in Nat
      /\ \A i \in 1 .. Len(log) : log[i].version \in Nat /\ log[i].version <= Latest
      /\ Latest > 0 => \E i \in 1 .. Len(log) : log[i].version = Latest
  BY LatestFacts DEF MirrorInv, LogInv
<1>4. line.kind = "contract" => \A i \in 1 .. Len(log) : log[i].version = 0
  <2>1. ASSUME line.kind = "contract"
        PROVE  \A i \in 1 .. Len(log) : log[i].kind # "contract"
    <3>1. PICK F : F = All(log, chain)
      OBVIOUS
    <3>2. /\ Len(F) = Len(log) + Len(chain)
          /\ \A i \in 1 .. Len(log) : F[i].kind = log[i].kind /\ F[i].group = log[i].group
          /\ \A i \in 1 .. Len(chain) : F[Len(log) + i] = chain[i]
      BY <1>2, <3>1, AllFacts
    <3>3. \A i, j \in 1 .. Len(F) : F[i].kind = "contract" /\ F[j].kind = "contract" => i = j
      BY <1>1, <3>1 DEF MirrorInv, ChainInv, Well, OneSeed
    <3>4. Len(chain) > 0 /\ Head(chain) = chain[1]
      BY <1>1, <1>2, EmptySeq
    <3>5. 1 \in 1 .. Len(chain) /\ Len(log) + 1 \in 1 .. Len(F)
      BY <1>2, <3>2, <3>4
    <3>6. F[Len(log) + 1].kind = "contract"
      BY <1>1, <2>1, <3>2, <3>4, <3>5
    <3>7. QED
      BY <1>2, <3>2, <3>3, <3>5, <3>6
  <2>2. QED
    BY <2>1, NoVersions DEF MirrorInv, LogInv
<1>5. PICK v \in Nat : v = line.version
  BY DEF Line
<1>6. v = IF line.kind = "contract" THEN 1 ELSE IF line.kind = "update" THEN Latest + 1 ELSE 0
  BY <1>1, <1>5 DEF Version
<1>7. PICK n \in Nat : n = Len(log)
  BY <1>2
<1>8. Len(log') = n + 1 /\ log'[n + 1].kind = line.kind /\ log'[n + 1].version = v
      /\ \A i \in 1 .. n : log'[i] = log[i]
  BY <1>1, <1>5, <1>7
<1>9. \A i \in 1 .. n : /\ log[i].version > 0 => log[i].kind \in Contracts
                        /\ log[i].kind = "contract" => log[i].version = 1
  BY <1>7 DEF MirrorInv, LogInv, Versioned
<1>10. ASSUME NEW i \in 1 .. Len(log')
       PROVE  /\ log'[i].version > 0 => log'[i].kind \in Contracts
              /\ log'[i].kind = "contract" => log'[i].version = 1
  <2>1. CASE i = n + 1
    BY <1>6, <1>8, <2>1 DEF Contracts
  <2>2. CASE i # n + 1
    BY <1>8, <1>9, <2>2
  <2>3. QED
    BY <2>1, <2>2
<1>11. ASSUME NEW i \in 1 .. Len(log'), log'[i].version > 0
       PROVE  /\ log'[i].kind = "contract" <=> log'[i].version = 1
              /\ \A j \in 1 .. (i - 1) : log'[j].version < log'[i].version
              /\ \A w \in 1 .. (log'[i].version - 1) : \E j \in 1 .. (i - 1) : log'[j].version = w
  <2>1. CASE i \in 1 .. n
    <3>1. \A j \in 1 .. i : log'[j] = log[j]
      BY <1>8, <2>1
    <3>2. /\ log[i].kind = "contract" <=> log[i].version = 1
          /\ \A j \in 1 .. (i - 1) : log[j].version < log[i].version
          /\ \A w \in 1 .. (log[i].version - 1) : \E j \in 1 .. (i - 1) : log[j].version = w
      BY <1>7, <1>8, <1>11, <2>1 DEF MirrorInv, LogInv, Versioned, OneContract
    <3>3. log'[i] = log[i] /\ \A j \in 1 .. (i - 1) : log'[j] = log[j]
      BY <2>1, <3>1
    <3>4. QED
      BY <3>2, <3>3
  <2>2. CASE i = n + 1 /\ line.kind = "contract"
    <3>1. v = 1 /\ \A j \in 1 .. n : log'[j].version = 0
      BY <1>4, <1>6, <1>7, <1>8, <2>2
    <3>2. QED
      BY <1>8, <2>2, <3>1
  <2>3. CASE i = n + 1 /\ line.kind # "contract"
    <3>1. line.kind = "update" /\ v = Latest + 1 /\ Latest > 0
      BY <1>1, <1>3, <1>6, <1>8, <1>11, <2>3
    <3>2. \A j \in 1 .. n : log'[j].version < v
      BY <1>3, <1>7, <1>8, <3>1
    <3>3. PICK k \in 1 .. n : log[k].version = Latest
      BY <1>3, <1>7, <3>1
    <3>4. ASSUME NEW w \in 1 .. Latest
          PROVE  \E j \in 1 .. n : log'[j].version = w
      <4>1. CASE w = Latest
        BY <1>8, <3>3, <4>1
      <4>2. CASE w # Latest
        <5>1. w \in 1 .. (log[k].version - 1)
          BY <1>3, <3>3, <4>2
        <5>2. \E j \in 1 .. (k - 1) : log[j].version = w
          BY <1>3, <1>7, <3>1, <3>3, <5>1 DEF MirrorInv, LogInv, Versioned, OneContract
        <5>3. PICK j \in 1 .. n : log[j].version = w
          BY <5>2
        <5>4. QED
          BY <1>8, <5>3
      <4>3. QED
        BY <4>1, <4>2
    <3>5. i - 1 = n /\ v - 1 = Latest /\ log'[i].version = v /\ v # 1 /\ log'[i].kind # "contract"
      BY <1>3, <1>8, <2>3, <3>1
    <3>6. QED
      BY <3>2, <3>4, <3>5
  <2>4. QED
    BY <1>8, <2>1, <2>2, <2>3
<1>12. OneContract'
  BY <1>11 DEF OneContract
<1>13. (\E u \in Versions \cup {0} : \A w \in Versions : w <= u)'
  <2>1. \A i \in 1 .. (n + 1) : log'[i].version \in Versions'
    BY <1>8 DEF Versions
  <2>2. \A w \in Versions' : w = v \/ \E i \in 1 .. n : w = log[i].version
    BY <1>7, <1>8 DEF Versions
  <2>3. \A w \in Versions' : w = v \/ (w \in Nat /\ w <= Latest)
    BY <1>3, <1>7, <2>2
  <2>4. CASE v > Latest
    <3>1. v \in Versions'
      <4>1. n + 1 \in 1 .. (n + 1)
        OBVIOUS
      <4>2. QED
        BY <1>8, <2>1, <4>1
    <3>2. \A w \in Versions' : w <= v
      BY <1>3, <2>3, <2>4
    <3>3. QED
      BY <3>1, <3>2
  <2>5. CASE v <= Latest
    <3>1. Latest \in (Versions \cup {0})'
      <4>1. CASE Latest = 0
        BY <4>1
      <4>2. CASE Latest > 0
        <5>1. PICK i \in 1 .. n : log[i].version = Latest
          BY <1>3, <1>7, <4>2
        <5>2. i \in 1 .. (n + 1) /\ log'[i].version = Latest
          BY <1>8, <5>1
        <5>3. QED
          BY <2>1, <5>2
      <4>3. QED
        BY <1>3, <4>1, <4>2
    <3>2. \A w \in Versions' : w <= Latest
      BY <1>3, <2>3, <2>5
    <3>3. QED
      BY <3>1, <3>2
  <2>6. QED
    BY <1>3, <2>4, <2>5
<1>14. QED
  BY <1>10, <1>12, <1>13 DEF Versioned

LEMMA LandKeepsLog ==
  ASSUME MirrorInv, LinkLands
  PROVE  /\ LogInv' /\ ChainInv'
         /\ Groups(log') \cup Groups(chain') = Groups(log) \cup Groups(chain)
<1>1. PICK line \in Line(issued) :
           /\ log' = Append(log, line)
           /\ line.kind = Head(chain).kind /\ line.group = Head(chain).group
           /\ line.version = Version(line.kind)
           /\ line.kind = "update" => Latest # 0
           /\ chain # <<>> /\ chain' = Tail(chain)
           /\ writer.state = "open" /\ writer'.state = "open"
           /\ Len(log') = Len(log) + 1
           /\ (\A i \in 1 .. Len(log) : log'[i] = log[i]) /\ log'[Len(log) + 1] = line
  BY LandFacts
<1>2. /\ issued \in Nat /\ log \in Seq(Line(issued)) /\ chain \in Seq(Item(issued))
      /\ Len(log) \in Nat /\ Len(chain) \in Nat
  BY Typed DEF MirrorInv
<1>3. PICK F : F = All(log, chain)
  OBVIOUS
<1>4. /\ F \in Seq(Item(issued)) /\ Len(F) = Len(log) + Len(chain)
      /\ \A i \in 1 .. Len(log) : F[i].kind = log[i].kind /\ F[i].group = log[i].group
      /\ \A i \in 1 .. Len(chain) : F[Len(log) + i] = chain[i]
  BY <1>2, <1>3, AllFacts
<1>5. /\ TurnsOK(F) /\ InGroups(F)
  BY <1>1, <1>3 DEF MirrorInv, ChainInv, Well
<1>6. Len(chain) > 0 /\ Head(chain) = chain[1]
  BY <1>1, <1>2, EmptySeq
<1>7. PICK n \in Nat : n = Len(log)
  BY <1>2
<1>8. Len(F) >= n + 1 /\ Len(F) \in Nat /\ Len(log') = n + 1
  BY <1>1, <1>2, <1>4, <1>6, <1>7
<1>9. \A i \in 1 .. (n + 1) : F[i].kind = log'[i].kind /\ F[i].group = log'[i].group
  <2>1. \A i \in 1 .. n : F[i].kind = log'[i].kind /\ F[i].group = log'[i].group
    BY <1>1, <1>4, <1>7
  <2>2. F[n + 1] = chain[1] /\ log'[n + 1] = line
    <3>1. 1 \in 1 .. Len(chain)
      BY <1>2, <1>6
    <3>2. QED
      BY <1>1, <1>4, <1>7, <3>1
  <2>3. F[n + 1].kind = log'[n + 1].kind /\ F[n + 1].group = log'[n + 1].group
    BY <1>1, <1>6, <2>2
  <2>4. \A i \in 1 .. (n + 1) : i = n + 1 \/ i \in 1 .. n
    OBVIOUS
  <2>5. QED
    BY <2>1, <2>3, <2>4
<1>10. AuditOrder'
  <2>1. ASSUME NEW i \in 1 .. Len(log'), NEW j \in 1 .. Len(log'), i < j
        PROVE  log'[i].group <= log'[j].group
    <3>1. i \in 1 .. Len(F) /\ j \in 1 .. Len(F) /\ i <= j
      BY <1>8, <2>1
    <3>2. F[i].group <= F[j].group
      BY <1>5, <3>1 DEF InGroups
    <3>3. QED
      BY <1>8, <1>9, <3>2
  <2>2. QED
    BY <2>1 DEF AuditOrder
<1>11. Follows(log')
  <2>1. ASSUME NEW i \in 1 .. Len(log'), log'[i].kind \in Contracts
        PROVE  i > 1 /\ log'[i - 1].group = log'[i].group
    <3>1. i \in 1 .. Len(F) /\ F[i].kind \in Contracts
      BY <1>8, <1>9, <2>1
    <3>2. i > 1 /\ F[i - 1].group = F[i].group
      BY <1>5, <3>1 DEF InGroups, Follows
    <3>3. QED
      BY <1>8, <1>9, <3>2
  <2>2. QED
    BY <2>1 DEF Follows
<1>12. TurnsOK(log')
  <2>1. ASSUME NEW i \in 1 .. Len(log'), log'[i].kind = "user"
        PROVE  \E s \in 1 .. (i - 1) : \E k \in (s + 1) .. (i - 1) :
                 /\ log'[s].kind \in Starts
                 /\ \A j \in (s + 1) .. (i - 1) : log'[j].kind \notin Starts
                 /\ \A j \in s .. i : log'[j].kind = "epoch" <=> j = k
    <3>1. i \in 1 .. Len(F) /\ F[i].kind = "user"
      BY <1>8, <1>9, <2>1
    <3>2. PICK s \in 1 .. (i - 1) : \E k \in (s + 1) .. (i - 1) :
                 /\ F[s].kind \in Starts
                 /\ \A j \in (s + 1) .. (i - 1) : F[j].kind \notin Starts
                 /\ \A j \in s .. i : F[j].kind = "epoch" <=> j = k
      BY <1>5, <3>1 DEF TurnsOK
    <3>3. PICK k \in (s + 1) .. (i - 1) :
                 /\ F[s].kind \in Starts
                 /\ \A j \in (s + 1) .. (i - 1) : F[j].kind \notin Starts
                 /\ \A j \in s .. i : F[j].kind = "epoch" <=> j = k
      BY <3>2
    <3>4. \A j \in s .. i : F[j].kind = log'[j].kind
      BY <1>8, <1>9
    <3>5. s \in s .. i /\ \A j \in (s + 1) .. (i - 1) : j \in s .. i
      BY <1>8
    <3>6. QED
      BY <3>3, <3>4, <3>5
  <2>2. QED
    BY <2>1 DEF TurnsOK
<1>13. All(log', chain') = All(log, chain)
  BY <1>1, <1>2, AllLand
<1>14. ChainInv'
  <2>1. prepared' = prepared /\ seeded' = seeded
    BY DEF LinkLands
  <2>2. QED
    BY <1>1, <1>13, <2>1 DEF MirrorInv, ChainInv
<1>15. Groups(log') \cup Groups(chain') = Groups(log) \cup Groups(chain)
  <2>1. PICK d : d = chain'
    OBVIOUS
  <2>2. /\ Len(d) = Len(chain) - 1 /\ \A i \in 1 .. Len(d) : d[i] = chain[i + 1]
    BY <1>1, <1>2, <2>1, HeadTailProperties
  <2>3. PICK g : g = line.group
    OBVIOUS
  <2>4. Groups(chain) = Groups(d) \cup {g}
    <3>1. \A i \in 1 .. Len(chain) : i = 1 \/ (i - 1 \in 1 .. Len(d) /\ d[i - 1] = chain[i])
      BY <1>2, <1>6, <2>2
    <3>2. Groups(chain) \subseteq Groups(d) \cup {g}
      BY <1>1, <1>6, <2>3, <3>1 DEF Groups
    <3>3. \A i \in 1 .. Len(d) : i + 1 \in 1 .. Len(chain) /\ d[i] = chain[i + 1]
      BY <1>2, <2>2
    <3>4. 1 \in 1 .. Len(chain) /\ chain[1].group = g
      BY <1>1, <1>2, <1>6, <2>3
    <3>5. Groups(d) \cup {g} \subseteq Groups(chain)
      BY <3>3, <3>4 DEF Groups
    <3>6. QED
      BY <3>2, <3>5
  <2>5. Groups(log') = Groups(log) \cup {g}
    <3>1. n + 1 \in 1 .. Len(log') /\ log'[n + 1].group = g
      BY <1>1, <1>7, <1>8, <2>3
    <3>2. Groups(log') \subseteq Groups(log) \cup {g}
      BY <1>1, <1>7, <1>8, <3>1 DEF Groups
    <3>3. Groups(log) \cup {g} \subseteq Groups(log')
      <4>1. \A i \in 1 .. n : i \in 1 .. Len(log') /\ log'[i].group = log[i].group
        BY <1>1, <1>7, <1>8
      <4>2. QED
        BY <1>7, <3>1, <4>1 DEF Groups
    <3>4. QED
      BY <3>2, <3>3
  <2>6. QED
    BY <2>1, <2>4, <2>5
<1>16. LogInv'
  BY <1>10, <1>11, <1>12, LandKeepsVersions DEF LogInv
<1>17. QED
  BY <1>14, <1>15, <1>16

-----------------------------------------------------------------------------
(*                          The steps, and the rest                        *)

(* The end of a group: what is dropped is the head of the queue.           *)
LEMMA AfterGroupTyped ==
  ASSUME TypeOK, chain # <<>>
  PROVE  AfterGroup \in Seq(Item(issued))
<1>1. chain \in Seq(Item(issued)) /\ Len(chain) \in Nat \ {0}
  BY Typed, EmptySeq
<1>2. PICK z \in Nat : z = Len(chain) /\ z > 0
  BY <1>1
<1>3. PICK T : T = {k \in Nat : k > 0 /\ (k < z => chain[k + 1].group # Head(chain).group)}
  OBVIOUS
<1>4. PICK x \in T : \A y \in T : x <= y
  <2>1. z \in T
    BY <1>2, <1>3
  <2>2. T \subseteq Nat /\ T # {}
    BY <1>3, <2>1
  <2>3. QED
    BY <2>2, LeastNumber
<1>5. z \in T
  BY <1>2, <1>3
<1>6. x \in 1 .. z /\ (x < z => chain[x + 1].group # Head(chain).group)
  BY <1>2, <1>3, <1>4, <1>5
<1>7. ASSUME NEW i \in 1 .. x
      PROVE  chain[i].group = Head(chain).group
  <2>1. CASE i = 1
    BY <1>1, <2>1
  <2>2. CASE i # 1
    <3>1. i - 1 \in Nat /\ i - 1 > 0 /\ i - 1 < x /\ (i - 1) + 1 = i
      BY <1>6, <2>2
    <3>2. i - 1 \notin T
      BY <1>3, <1>4, <3>1
    <3>3. QED
      BY <1>3, <3>1, <3>2
  <2>3. QED
    BY <2>1, <2>2
<1>8. PICK n : n = CHOOSE k \in 1 .. Len(chain) :
             /\ \A i \in 1 .. k : chain[i].group = Head(chain).group
             /\ k < Len(chain) => chain[k + 1].group # Head(chain).group
  OBVIOUS
<1>9. n \in 1 .. Len(chain)
  BY <1>2, <1>6, <1>7, <1>8
<1>10. AfterGroup = SubSeq(chain, n + 1, Len(chain))
  BY <1>8 DEF AfterGroup
<1>11. \A i \in (n + 1) .. Len(chain) : chain[i] \in Item(issued)
  BY <1>1, <1>9, ElementOfSeq
<1>12. QED
  BY <1>1, <1>9, <1>10, <1>11, SubSeqProperties

(* The lines keep what they are when the groups grow.                      *)
LEMMA LogTyped ==
  ASSUME TypeOK, log' = log, issued' \in Nat, issued <= issued'
  PROVE  log' \in Seq(Line(issued'))
<1>1. issued \in Nat /\ log \in Seq(Line(issued))
  BY Typed
<1>2. Line(issued) \subseteq Line(issued')
  BY <1>1, TypesGrow
<1>3. QED
  BY <1>1, <1>2, SeqMonotonic

(* A call of the host.                                                     *)
LEMMA HostFacts ==
  ASSUME MirrorInv, Host
  PROVE  /\ Grown(log, chain, issued, prepared', seeded', chain', issued')
         /\ issued' \in 0 .. MaxIssues
         /\ UNCHANGED <<log, status, writer, pc, awaits>>
         /\ Owe /\ writer.state # "null" /\ pc # "closed"
<1>1. Grown(log, chain, issued, prepared', seeded', chain', issued')
  BY PrepareGrows, UserGrows, ImportedGrows, CallGrows, ResultGrows DEF Host
<1>2. Calls /\ Owe /\ UNCHANGED <<log, status, writer, pc, awaits>>
  <2>1. CASE PrepareTurn
    BY <2>1 DEF PrepareTurn
  <2>2. CASE UserMessage
    BY <2>2 DEF UserMessage
  <2>3. CASE ImportedMessage
    BY <2>3 DEF ImportedMessage
  <2>4. CASE ToolCall
    BY <2>4 DEF ToolCall
  <2>5. CASE ToolResult
    BY <2>5 DEF ToolResult
  <2>6. QED
    BY <2>1, <2>2, <2>3, <2>4, <2>5 DEF Host
<1>3. issued' <= MaxIssues
  <2>1. \A gs : Queue(gs) => issued' <= MaxIssues
    BY DEF Queue
  <2>2. QED
    BY <2>1 DEF Host, PrepareTurn, UserMessage, ImportedMessage, ToolCall, ToolResult
<1>4. issued' \in Nat
  BY <1>1 DEF Grown, Fine
<1>5. QED
  BY <1>1, <1>2, <1>3, <1>4, MaxIssuesAssumption DEF Calls, Accepts

(* What close queues.                                                      *)
LEMMA CloseFacts ==
  ASSUME MirrorInv, Close
  PROVE  /\ UNCHANGED <<log, status, writer, prepared, seeded>>
         /\ pc = "up" /\ pc' \in {"ending", "flushing"} /\ awaits' = issued'
         /\ \/ UNCHANGED <<chain, issued, owed>>
            \/ /\ Grown(log, chain, issued, prepared', seeded', chain', issued')
               /\ issued' \in 0 .. MaxIssues
               /\ owed' = owed \cup (issued + 1) .. issued'
               /\ writer.state # "null"
<1>1. /\ UNCHANGED <<log, status, writer, prepared, seeded>>
      /\ pc = "up" /\ pc' \in {"ending", "flushing"} /\ awaits' = issued'
  BY DEF Close
<1>2. CASE status = "active" /\ writer.state # "null"
  <2>1. Queue(<< <<"ended">> >>) /\ Owe /\ prepared' = prepared /\ seeded' = seeded
    BY <1>2 DEF Close
  <2>2. Grown(log, chain, issued, prepared', seeded', chain', issued')
    BY <1>2, <2>1, EndedGrows
  <2>3. issued' \in Nat
    BY <2>2 DEF Grown, Fine
  <2>4. issued' <= MaxIssues
    BY <2>1 DEF Queue
  <2>5. owed' = owed \cup (issued + 1) .. issued'
    BY <1>1, <2>1 DEF Owe
  <2>6. QED
    BY <1>1, <1>2, <2>2, <2>3, <2>4, <2>5, MaxIssuesAssumption
<1>3. CASE ~(status = "active" /\ writer.state # "null")
  BY <1>1, <1>3 DEF Close
<1>4. QED
  BY <1>2, <1>3

(* What adopt finds and queues.                                            *)
LEMMA AdoptFacts ==
  ASSUME MirrorInv, Adopt
  PROVE  /\ Fine(log, chain', issued', prepared', seeded')
         /\ issued' = issued + 1 /\ issued' \in 0 .. MaxIssues
         /\ writer'.state = "open" /\ writer'.nextSeq \in Nat \ {0}
         /\ log' = log /\ owed' = {} /\ pc' = "adopting" /\ awaits' = awaits
         /\ status' = "disabled"
<1>1. /\ issued \in Nat /\ log \in Seq(Line(issued)) /\ Len(log) \in Nat
  BY Typed DEF MirrorInv
<1>2. /\ chain = <<>> /\ log' = log /\ owed' = {} /\ pc' = "adopting" /\ awaits' = awaits
      /\ writer' = OpenAt(LastSeq + 1) /\ prepared' = FALSE /\ status' = "disabled"
      /\ seeded' = \E i \in 1 .. Len(log) : log[i].kind \in Turns \cup {"contract"}
      /\ Queue(<< <<"started">> >>)
  BY DEF Adopt, NoOne
<1>3. chain' = <<>> \o Links(<< <<"started">> >>, issued) /\ issued' = issued + 1 /\ issued' <= MaxIssues
  BY <1>2 DEF Queue
<1>4. PICK n \in Nat : n = issued + 1
  BY <1>1
<1>5. PICK e : e = [kind |-> "started", group |-> n]
  OBVIOUS
<1>6. e \in Item(n) /\ e.kind = "started" /\ e.group = n /\ "started" \in Kinds
  <2>1. "started" \in Kinds /\ n \in 1 .. n
    BY <1>1, <1>4 DEF Kinds
  <2>2. QED
    BY <1>5, <2>1 DEF Item
<1>7. chain' = Append(<<>>, e)
  <2>1. <<"started">> \in Seq(Kinds)
    BY <1>6
  <2>2. Links(<< <<"started">> >>, issued) = Group(<<"started">>, n)
    BY <1>1, <1>4, <2>1, LinksOne
  <2>3. <<>> \in Seq(Item(n))
    OBVIOUS
  <2>4. n \in 1 .. n
    BY <1>1, <1>4
  <2>5. <<>> \o Group(<<"started">>, n) = Append(<<>>, [kind |-> "started", group |-> n])
    BY <1>6, <2>3, <2>4, GroupPushOne
  <2>6. QED
    BY <1>3, <1>5, <2>2, <2>5
<1>8. PICK m \in Nat : m = issued
  BY <1>1
<1>9. PICK F : F = All(log, <<>>)
  OBVIOUS
<1>10. <<>> \in Seq(Item(m)) /\ <<>> \in Seq(Item(n)) /\ log \in Seq(Line(m)) /\ log \in Seq(Line(n))
  <2>1. Line(m) \subseteq Line(n)
    BY <1>4, <1>8, TypesGrow
  <2>2. QED
    BY <1>1, <1>8, <2>1, SeqMonotonic
<1>11. /\ F \in Seq(Item(m)) /\ Len(F) = Len(log)
       /\ \A i \in 1 .. Len(log) : F[i].kind = log[i].kind /\ F[i].group = log[i].group
  <2>1. PICK c : c = <<>>
    OBVIOUS
  <2>2. c \in Seq(Item(m)) /\ Len(c) = 0 /\ F = All(log, c)
    BY <1>9, <1>10, <2>1
  <2>3. /\ All(log, c) \in Seq(Item(m)) /\ Len(All(log, c)) = Len(log) + Len(c)
        /\ \A i \in 1 .. Len(log) : All(log, c)[i].kind = log[i].kind /\ All(log, c)[i].group = log[i].group
    BY <1>10, <2>2, AllFacts
  <2>4. QED
    BY <1>1, <2>2, <2>3
<1>12. F \in Seq(Item(n))
  <2>1. Item(m) \subseteq Item(n)
    BY <1>4, <1>8, TypesGrow
  <2>2. QED
    BY <1>11, <2>1, SeqMonotonic
<1>13. TurnsOK(F)
  <2>1. TurnsOK(log)
    BY DEF MirrorInv, LogInv
  <2>2. ASSUME NEW i \in 1 .. Len(F), F[i].kind = "user"
        PROVE  \E s \in 1 .. (i - 1) : \E k \in (s + 1) .. (i - 1) :
                 /\ F[s].kind \in Starts
                 /\ \A j \in (s + 1) .. (i - 1) : F[j].kind \notin Starts
                 /\ \A j \in s .. i : F[j].kind = "epoch" <=> j = k
    <3>1. i \in 1 .. Len(log) /\ log[i].kind = "user"
      BY <1>11, <2>2
    <3>2. PICK s \in 1 .. (i - 1) : \E k \in (s + 1) .. (i - 1) :
                 /\ log[s].kind \in Starts
                 /\ \A j \in (s + 1) .. (i - 1) : log[j].kind \notin Starts
                 /\ \A j \in s .. i : log[j].kind = "epoch" <=> j = k
      BY <2>1, <3>1 DEF TurnsOK
    <3>3. PICK k \in (s + 1) .. (i - 1) :
                 /\ log[s].kind \in Starts
                 /\ \A j \in (s + 1) .. (i - 1) : log[j].kind \notin Starts
                 /\ \A j \in s .. i : log[j].kind = "epoch" <=> j = k
      BY <3>2
    <3>4. \A j \in s .. i : F[j].kind = log[j].kind
      BY <1>1, <1>11
    <3>5. s \in s .. i /\ \A j \in (s + 1) .. (i - 1) : j \in s .. i
      BY <1>1, <1>11
    <3>6. QED
      BY <3>3, <3>4, <3>5
  <2>3. QED
    BY <2>2 DEF TurnsOK
<1>14. InGroups(F)
  <2>1. ASSUME NEW i \in 1 .. Len(F), NEW j \in 1 .. Len(F), i <= j
        PROVE  F[i].group <= F[j].group
    <3>1. CASE i = j
      <4>1. F[i] \in Item(m)
        BY <1>11, ElementOfSeq
      <4>2. F[i].group \in 1 .. m
        BY <4>1 DEF Item
      <4>3. QED
        BY <3>1, <4>2
    <3>2. CASE i # j
      <4>1. log[i].group <= log[j].group
        BY <1>1, <1>11, <2>1, <3>2 DEF MirrorInv, LogInv, AuditOrder
      <4>2. QED
        BY <1>11, <4>1
    <3>3. QED
      BY <3>1, <3>2
  <2>2. ASSUME NEW i \in 1 .. Len(F), F[i].kind \in Contracts
        PROVE  i > 1 /\ F[i - 1].group = F[i].group
    <3>1. i > 1 /\ log[i - 1].group = log[i].group
      BY <1>11, <2>2 DEF MirrorInv, LogInv, Follows
    <3>2. i - 1 \in 1 .. Len(log)
      BY <1>1, <1>11, <3>1
    <3>3. QED
      BY <1>11, <3>1, <3>2
  <2>3. QED
    BY <2>1, <2>2 DEF InGroups, Follows
<1>15. OneSeed(F, seeded')
  <2>1. ASSUME NEW i \in 1 .. Len(F), NEW j \in 1 .. Len(F),
               F[i].kind = "contract", F[j].kind = "contract"
        PROVE  i = j
    <3>1. /\ i \in 1 .. Len(log) /\ j \in 1 .. Len(log)
          /\ log[i].version = 1 /\ log[j].version = 1
      BY <1>11, <2>1 DEF MirrorInv, LogInv, Versioned
    <3>2. ~(i < j) /\ ~(j < i)
      <4>1. \A x \in 1 .. Len(log) : log[x].version = 1 => \A y \in 1 .. (x - 1) : log[y].version < 1
        BY DEF MirrorInv, LogInv, Versioned, OneContract
      <4>2. QED
        BY <1>1, <3>1, <4>1
    <3>3. QED
      BY <3>1, <3>2
  <2>2. ~seeded' => \A i \in 1 .. Len(F) : F[i].kind # "contract"
    BY <1>2, <1>11
  <2>3. QED
    BY <2>1, <2>2 DEF OneSeed
<1>16. TurnsOK(Append(F, e)) /\ Now(Append(F, e), prepared')
  <2>1. e.kind # "user" /\ e.kind \in Starts
    BY <1>6 DEF Starts
  <2>2. PICK p \in BOOLEAN : p = prepared'
    BY <1>2
  <2>3. TurnsOK(Append(F, e))
    BY <1>6, <1>12, <1>13, <2>1, PushTurns
  <2>4. p = IF e.kind \in Starts THEN FALSE ELSE IF e.kind = "epoch" THEN TRUE ELSE p
    BY <1>2, <2>1, <2>2
  <2>5. Now(Append(F, e), p)
    <3>1. e.kind \notin Starts => Now(F, p)
      BY <2>1
    <3>2. e.kind = "epoch" => ~p
      BY <1>6
    <3>3. QED
      BY <1>6, <1>12, <2>4, <3>1, <3>2, PushNow
  <2>6. QED
    BY <2>2, <2>3, <2>5
<1>17. InGroups(Append(F, e))
  <2>1. ASSUME NEW i \in 1 .. Len(F)
        PROVE  F[i].group <= e.group
    <3>1. F[i] \in Item(m)
      BY <1>11, ElementOfSeq
    <3>2. F[i].group \in 1 .. m
      BY <3>1 DEF Item
    <3>3. QED
      BY <1>4, <1>6, <1>8, <3>2
  <2>2. e.kind \notin Contracts
    BY <1>6 DEF Contracts
  <2>3. QED
    BY <1>6, <1>12, <1>14, <2>1, <2>2, PushGroups
<1>18. OneSeed(Append(F, e), seeded')
  <2>1. PICK s \in BOOLEAN : s = seeded'
    BY <1>2
  <2>2. e.kind # "contract"
    BY <1>6
  <2>3. s = IF e.kind = "contract" THEN TRUE ELSE s
    BY <2>2
  <2>4. OneSeed(F, s)
    BY <1>15, <2>1
  <2>5. OneSeed(Append(F, e), s)
    BY <1>6, <1>12, <2>2, <2>3, <2>4, PushSeed
  <2>6. QED
    BY <2>1, <2>5
<1>19. All(log, Append(<<>>, e)) = Append(F, e)
  BY <1>6, <1>9, <1>10, AllPush
<1>20. chain' \in Seq(Item(n))
  BY <1>6, <1>7, <1>10, AppendProperties
<1>21. Fine(log, chain', issued', prepared', seeded')
  <2>1. prepared' \in BOOLEAN /\ seeded' \in BOOLEAN
    BY <1>2
  <2>2. issued' = n
    BY <1>3, <1>4
  <2>3. QED
    BY <1>7, <1>10, <1>16, <1>17, <1>18, <1>19, <1>20, <2>1, <2>2 DEF Fine, Well
<1>22. LastSeq + 1 \in Nat \ {0}
  <2>1. CASE log = <<>>
    BY <2>1 DEF LastSeq
  <2>2. CASE log # <<>>
    <3>1. Len(log) \in 1 .. Len(log)
      BY <1>1, <2>2, EmptySeq
    <3>2. log[Len(log)] \in Line(issued)
      BY <1>1, <3>1, ElementOfSeq
    <3>3. log[Len(log)].seq \in Nat
      BY <3>2 DEF Line
    <3>4. QED
      BY <2>2, <3>3 DEF LastSeq
  <2>3. QED
    BY <2>1, <2>2
<1>23. writer'.state = "open" /\ writer'.nextSeq \in Nat \ {0}
  BY <1>2, <1>22 DEF OpenAt
<1>24. issued' \in 0 .. MaxIssues
  BY <1>3, <1>4, MaxIssuesAssumption
<1>25. QED
  BY <1>2, <1>3, <1>21, <1>23, <1>24

(* A step that leaves the queue alone, or drops links from it.             *)
LEMMA LinkFacts ==
  ASSUME MirrorInv, LinkSkips \/ LinkFails \/ LinkUnowned
  PROVE  /\ UNCHANGED <<log, issued, seeded, prepared, pc, awaits>>
         /\ chain # <<>>
         /\ status' \in {status, "degraded"}
         /\ \/ /\ chain' = Tail(chain) /\ Head(chain).kind \in Contracts
               /\ writer.state # "null" /\ writer' \in Spoilt /\ owed' \in {owed, {}}
            \/ /\ chain' = AfterGroup /\ writer' = NoWriter
               /\ owed' = {} \/ (owed' = owed /\ writer.state = "null")
<1>1. CASE LinkSkips
  BY <1>1 DEF LinkSkips, Running, Skips, Contracts, Spoilt
<1>2. CASE LinkFails
  <2>1. /\ UNCHANGED <<log, issued, seeded, prepared, pc, awaits>>
        /\ chain # <<>> /\ owed' = {} /\ writer.state # "null"
    BY <1>2 DEF LinkFails, Running
  <2>2. \/ chain' = Tail(chain) /\ Head(chain).kind \in Contracts /\ writer' \in Spoilt /\ status' = status
        \/ chain' = AfterGroup /\ status' = "degraded" /\ writer' = NoWriter
    BY <1>2 DEF LinkFails, Degrade
  <2>3. QED
    BY <2>1, <2>2
<1>3. CASE LinkUnowned
  BY <1>3 DEF LinkUnowned, Degrade, Running
<1>4. QED
  BY <1>1, <1>2, <1>3

(* A step of close, of release or of the host's death.                     *)
LEMMA LifeFacts ==
  ASSUME MirrorInv, AdoptFails \/ Adopted \/ Ended \/ Flushed \/ Release \/ Released \/ Crash
  PROVE  /\ UNCHANGED <<log, issued>>
         /\ chain' \in {chain, <<>>}
         /\ status' \in {"disabled", "active", "locked", "degraded", "closed"}
         /\ pc' \in {"down", "up", "flushing", "releasing", "closed"}
         /\ seeded' \in BOOLEAN /\ prepared' \in BOOLEAN
         /\ awaits' \in {awaits, issued}
         /\ \/ writer' = NoWriter
            \/ UNCHANGED <<writer, chain, seeded, prepared, owed>>
<1>1. /\ status \in {"disabled", "active", "locked", "degraded", "closed"}
      /\ seeded \in BOOLEAN /\ prepared \in BOOLEAN
  BY DEF MirrorInv, TypeOK
<1>2. CASE AdoptFails
  BY <1>1, <1>2 DEF AdoptFails
<1>3. CASE Adopted
  BY <1>1, <1>3 DEF Adopted
<1>4. CASE Ended
  BY <1>1, <1>4 DEF Ended
<1>5. CASE Flushed
  BY <1>1, <1>5 DEF Flushed
<1>6. CASE Release
  BY <1>1, <1>6 DEF Release
<1>7. CASE Released
  BY <1>1, <1>7 DEF Released
<1>8. CASE Crash
  BY <1>1, <1>8 DEF Crash
<1>9. QED
  BY <1>2, <1>3, <1>4, <1>5, <1>6, <1>7, <1>8

LEMMA WritersTyped ==
  ASSUME TypeOK
  PROVE  /\ NoWriter \in [state : {"null", "open", "poisoned"}, nextSeq : Nat \ {0}]
         /\ Spoilt \subseteq [state : {"null", "open", "poisoned"}, nextSeq : Nat \ {0}]
         /\ \A n \in Nat \ {0} : OpenAt(n) \in [state : {"null", "open", "poisoned"}, nextSeq : Nat \ {0}]
<1>1. writer \in [state : {"null", "open", "poisoned"}, nextSeq : Nat \ {0}]
  BY DEF TypeOK
<1>2. writer.nextSeq + 1 \in Nat \ {0}
  BY <1>1
<1>3. [state |-> "poisoned", nextSeq |-> writer.nextSeq + 1] \in [state : {"null", "open", "poisoned"}, nextSeq : Nat \ {0}]
  BY <1>2
<1>4. QED
  BY <1>1, <1>3 DEF NoWriter, Spoilt, OpenAt

LEMMA TypeStep ==
  ASSUME MirrorInv, [Next]_vars
  PROVE  TypeOK'
<1> DEFINE Writers == [state : {"null", "open", "poisoned"}, nextSeq : Nat \ {0}]
           Statuses == {"disabled", "active", "locked", "degraded", "closed"}
           Places == {"down", "adopting", "up", "ending", "flushing", "releasing", "closed"}
<1>1. /\ issued \in Nat /\ issued \in 0 .. MaxIssues
      /\ chain \in Seq(Item(issued)) /\ log \in Seq(Line(issued))
      /\ status \in Statuses /\ writer \in Writers
      /\ seeded \in BOOLEAN /\ prepared \in BOOLEAN
      /\ pc \in Places /\ awaits \in 0 .. issued /\ owed \subseteq 1 .. issued
  BY Typed DEF MirrorInv, TypeOK
<1>2. NoWriter \in Writers /\ Spoilt \subseteq Writers /\ \A n \in Nat \ {0} : OpenAt(n) \in Writers
  BY WritersTyped DEF MirrorInv
<1>3. /\ log \in Seq(Line(issued)) <=> log \in Seq([kind : Kinds, group : 1 .. issued, seq : Nat, version : Nat])
      /\ chain \in Seq(Item(issued)) <=> chain \in Seq([kind : Kinds, group : 1 .. issued])
  BY DEF Line, Item
<1> HIDE DEF Writers, Statuses, Places
<1>4. SUFFICES /\ issued' \in 0 .. MaxIssues
               /\ chain' \in Seq(Item(issued')) /\ log' \in Seq(Line(issued'))
               /\ status' \in Statuses /\ writer' \in Writers
               /\ seeded' \in BOOLEAN /\ prepared' \in BOOLEAN
               /\ pc' \in Places /\ awaits' \in 0 .. issued' /\ owed' \subseteq 1 .. issued'
  BY DEF TypeOK, Item, Line, Writers, Statuses, Places
<1>5. CASE Host
  <2>1. /\ Grown(log, chain, issued, prepared', seeded', chain', issued')
        /\ issued' \in 0 .. MaxIssues
        /\ UNCHANGED <<log, status, writer, pc, awaits>>
        /\ Owe
    BY <1>5, HostFacts
  <2>2. /\ issued' > issued /\ issued' \in Nat /\ chain' \in Seq(Item(issued'))
        /\ log \in Seq(Line(issued')) /\ prepared' \in BOOLEAN /\ seeded' \in BOOLEAN
    BY <2>1 DEF Grown, Fine
  <2>3. owed' \subseteq 1 .. issued'
    BY <1>1, <2>1, <2>2 DEF Owe
  <2>4. awaits' \in 0 .. issued'
    BY <1>1, <2>1, <2>2
  <2>5. QED
    BY <1>1, <2>1, <2>2, <2>3, <2>4
<1>6. CASE LinkLands
  <2>1. PICK line \in Line(issued) : log' = Append(log, line) /\ chain # <<>> /\ chain' = Tail(chain)
    BY <1>6, LandFacts
  <2>2. chain' \in Seq(Item(issued)) /\ log' \in Seq(Line(issued))
    BY <1>1, <2>1, HeadTailProperties, AppendProperties
  <2>3. UNCHANGED <<issued, status, seeded, prepared, pc, awaits, owed>> /\ writer' = OpenAt(writer.nextSeq + 1)
    BY <1>6 DEF LinkLands
  <2>4. writer.nextSeq + 1 \in Nat \ {0}
    BY <1>1 DEF Writers
  <2>5. QED
    BY <1>1, <1>2, <2>2, <2>3, <2>4
<1>7. CASE LinkSkips \/ LinkFails \/ LinkUnowned
  <2>1. /\ UNCHANGED <<log, issued, seeded, prepared, pc, awaits>>
        /\ chain # <<>>
        /\ status' \in {status, "degraded"}
        /\ chain' = Tail(chain) \/ chain' = AfterGroup
        /\ writer' \in Spoilt \/ writer' = NoWriter
        /\ owed' \in {owed, {}}
    BY <1>7, LinkFacts
  <2>2. Tail(chain) \in Seq(Item(issued)) /\ AfterGroup \in Seq(Item(issued))
    BY <1>1, <2>1, HeadTailProperties, AfterGroupTyped DEF MirrorInv
  <2>3. status' \in Statuses
    BY <1>1, <2>1 DEF Statuses
  <2>4. QED
    BY <1>1, <1>2, <2>1, <2>2, <2>3
<1>8. CASE Adopt
  <2>1. /\ Fine(log, chain', issued', prepared', seeded')
        /\ issued' = issued + 1 /\ issued' \in 0 .. MaxIssues
        /\ log' = log /\ owed' = {} /\ pc' = "adopting" /\ awaits' = awaits
        /\ status' = "disabled" /\ writer' = OpenAt(LastSeq + 1)
    BY <1>8, AdoptFacts DEF Adopt
  <2>2. writer'.nextSeq \in Nat \ {0} /\ writer'.nextSeq = LastSeq + 1
    BY <1>8, <2>1, AdoptFacts DEF OpenAt
  <2>3. writer' \in Writers
    BY <1>2, <2>1, <2>2
  <2>4. /\ chain' \in Seq(Item(issued')) /\ log \in Seq(Line(issued'))
        /\ prepared' \in BOOLEAN /\ seeded' \in BOOLEAN
    BY <2>1 DEF Fine
  <2>5. awaits' \in 0 .. issued' /\ owed' \subseteq 1 .. issued'
    BY <1>1, <2>1
  <2>6. status' \in Statuses /\ pc' \in Places
    BY <2>1 DEF Statuses, Places
  <2>7. QED
    BY <2>1, <2>3, <2>4, <2>5, <2>6
<1>9. CASE AdoptFails \/ Adopted \/ Ended \/ Flushed \/ Release \/ Released \/ Crash
  <2>1. /\ UNCHANGED <<log, issued>>
        /\ chain' \in {chain, <<>>}
        /\ status' \in Statuses
        /\ pc' \in {"down", "up", "flushing", "releasing", "closed"}
        /\ seeded' \in BOOLEAN /\ prepared' \in BOOLEAN
        /\ awaits' \in {awaits, issued}
        /\ writer' \in {NoWriter, writer}
    BY <1>9, LifeFacts DEF Statuses
  <2>2. owed' \in {owed, {}}
    BY <1>9 DEF AdoptFails, Adopted, Ended, Flushed, Release, Released, Crash
  <2>3. pc' \in Places
    BY <2>1 DEF Places
  <2>4. chain' \in Seq(Item(issued'))
    <3>1. <<>> \in Seq(Item(issued))
      OBVIOUS
    <3>2. QED
      BY <1>1, <2>1, <3>1
  <2>5. QED
    BY <1>1, <1>2, <2>1, <2>2, <2>3, <2>4
<1>10. CASE Close
  <2>1. /\ UNCHANGED <<log, status, writer, prepared, seeded>>
        /\ pc' \in {"ending", "flushing"} /\ awaits' = issued'
    BY <1>10, CloseFacts
  <2>2. CASE UNCHANGED <<chain, issued, owed>>
    <3>1. pc' \in Places /\ awaits' \in 0 .. issued'
      BY <1>1, <2>1, <2>2 DEF Places
    <3>2. QED
      BY <1>1, <2>1, <2>2, <3>1
  <2>3. CASE /\ Grown(log, chain, issued, prepared', seeded', chain', issued')
             /\ issued' \in 0 .. MaxIssues
             /\ owed' = owed \cup (issued + 1) .. issued'
    <3>1. /\ issued' > issued /\ issued' \in Nat /\ chain' \in Seq(Item(issued'))
          /\ log \in Seq(Line(issued'))
      BY <2>3 DEF Grown, Fine
    <3>2. owed' \subseteq 1 .. issued' /\ awaits' \in 0 .. issued' /\ pc' \in Places
      BY <1>1, <2>1, <2>3, <3>1 DEF Places
    <3>3. QED
      BY <1>1, <2>1, <2>3, <3>1, <3>2
  <2>4. QED
    BY <1>10, <2>2, <2>3, CloseFacts
<1>11. CASE UNCHANGED vars
  BY <1>1, <1>11 DEF vars
<1>12. QED
  BY <1>5, <1>6, <1>7, <1>8, <1>9, <1>10, <1>11 DEF Next, Link, Life

LEMMA LogStep ==
  ASSUME MirrorInv, [Next]_vars
  PROVE  LogInv'
<1>1. CASE log' = log
  <2>1. Versions' = Versions
    BY <1>1 DEF Versions
  <2>2. OneContract <=> OneContract'
    BY <1>1 DEF OneContract
  <2>3. AuditOrder' <=> AuditOrder
    BY <1>1 DEF AuditOrder
  <2>4. Versioned'
    BY <1>1, <2>1, <2>2 DEF MirrorInv, LogInv, Versioned
  <2>5. QED
    BY <1>1, <2>3, <2>4 DEF MirrorInv, LogInv
<1>2. CASE LinkLands
  BY <1>2, LandKeepsLog
<1>3. CASE Host
  BY <1>1, <1>3, HostFacts
<1>4. CASE LinkSkips \/ LinkFails \/ LinkUnowned
  BY <1>1, <1>4, LinkFacts
<1>5. CASE Adopt
  BY <1>1, <1>5, AdoptFacts
<1>6. CASE AdoptFails \/ Adopted \/ Ended \/ Flushed \/ Release \/ Released \/ Crash
  BY <1>1, <1>6, LifeFacts
<1>7. CASE Close
  BY <1>1, <1>7, CloseFacts
<1>8. CASE UNCHANGED vars
  BY <1>1, <1>8 DEF vars
<1>9. QED
  BY <1>2, <1>3, <1>4, <1>5, <1>6, <1>7, <1>8 DEF Next, Link, Life

LEMMA ChainStep ==
  ASSUME MirrorInv, [Next]_vars
  PROVE  ChainInv'
<1>1. CASE writer' = NoWriter
  BY <1>1 DEF ChainInv, NoWriter
<1>2. CASE UNCHANGED <<log, chain, writer, prepared, seeded>>
  BY <1>2 DEF MirrorInv, ChainInv
<1>3. CASE log' = log /\ Grown(log, chain, issued, prepared', seeded', chain', issued')
  BY <1>3 DEF Grown, Fine, ChainInv
<1>4. CASE Host
  BY <1>3, <1>4, HostFacts
<1>5. CASE LinkLands
  BY <1>5, LandKeepsLog
<1>6. CASE LinkSkips \/ LinkFails \/ LinkUnowned
  <2>1. CASE /\ chain' = Tail(chain) /\ Head(chain).kind \in Contracts
             /\ writer.state # "null" /\ chain # <<>> /\ UNCHANGED <<log, prepared, seeded>>
    <3>1. /\ issued \in Nat /\ chain \in Seq(Item(issued)) /\ log \in Seq(Line(issued))
      BY Typed DEF MirrorInv
    <3>2. /\ prepared \in BOOLEAN /\ seeded \in BOOLEAN /\ Well(All(log, chain), prepared, seeded)
      BY <2>1 DEF MirrorInv, TypeOK, ChainInv
    <3>3. Well(All(log, Tail(chain)), prepared, seeded)
      BY <2>1, <3>1, <3>2, DropKeeps
    <3>4. QED
      BY <2>1, <3>3 DEF ChainInv
  <2>2. QED
    BY <1>1, <1>6, <2>1, LinkFacts
<1>7. CASE Adopt
  <2>1. Fine(log, chain', issued', prepared', seeded') /\ log' = log
    BY <1>7, AdoptFacts
  <2>2. QED
    BY <2>1 DEF Fine, ChainInv
<1>8. CASE AdoptFails \/ Adopted \/ Ended \/ Flushed \/ Release \/ Released \/ Crash
  BY <1>1, <1>2, <1>8, LifeFacts
<1>9. CASE Close
  BY <1>2, <1>3, <1>9, CloseFacts
<1>10. CASE UNCHANGED vars
  BY <1>2, <1>10 DEF vars
<1>11. QED
  BY <1>4, <1>5, <1>6, <1>7, <1>8, <1>9, <1>10 DEF Next, Link, Life

(* close and release wait until nothing that is owed is in the queue.      *)
LEMMA SettledFacts ==
  ASSUME MirrorInv, Settled, pc \in {"ending", "flushing", "releasing"}
  PROVE  owed \subseteq Groups(log)
<1>1. /\ issued \in Nat /\ chain \in Seq(Item(issued)) /\ awaits \in 0 .. issued /\ owed \subseteq 1 .. issued
  BY Typed DEF MirrorInv, TypeOK
<1>2. \A g \in owed : g <= awaits
  BY DEF MirrorInv, FlushInv
<1>3. \A i \in 1 .. Len(chain) : chain[i].group > awaits
  BY DEF Settled
<1>4. ASSUME NEW g \in owed, g \in Groups(chain)
      PROVE  FALSE
  <2>1. PICK i \in 1 .. Len(chain) : chain[i].group = g
    BY <1>4 DEF Groups
  <2>2. QED
    BY <1>1, <1>2, <1>3, <1>4, <2>1
<1>5. QED
  BY <1>4 DEF MirrorInv, FlushInv

LEMMA FlushStep ==
  ASSUME MirrorInv, [Next]_vars
  PROVE  FlushInv'
<1>1. /\ issued \in Nat /\ chain \in Seq(Item(issued)) /\ log \in Seq(Line(issued))
      /\ awaits \in 0 .. issued /\ owed \subseteq 1 .. issued
  BY Typed DEF MirrorInv, TypeOK
<1>2. /\ owed \subseteq Groups(log) \cup (IF writer.state = "null" THEN {} ELSE Groups(chain))
      /\ pc \in {"ending", "flushing", "releasing"} => \A g \in owed : g <= awaits
      /\ pc = "closed" => writer.state = "null"
  BY DEF MirrorInv, FlushInv
<1>3. CASE Host
  <2>1. /\ Groups(chain') = Groups(chain) \cup (issued + 1) .. issued'
        /\ UNCHANGED <<log, writer, pc, awaits>>
        /\ Owe /\ writer.state # "null" /\ pc # "closed"
    BY <1>3, HostFacts DEF Grown
  <2>2. owed' \subseteq Groups(log') \cup Groups(chain')
    BY <1>2, <2>1 DEF Owe
  <2>3. pc' \in {"ending", "flushing", "releasing"} => owed' = owed
    BY <2>1 DEF Owe
  <2>4. QED
    BY <1>2, <2>1, <2>2, <2>3 DEF FlushInv
<1>4. CASE LinkLands
  <2>1. Groups(log') \cup Groups(chain') = Groups(log) \cup Groups(chain)
    BY <1>4, LandKeepsLog
  <2>2. /\ writer.state = "open" /\ writer'.state = "open"
    BY <1>4, LandFacts
  <2>3. pc' = pc /\ awaits' = awaits /\ owed' = owed
    BY <1>4 DEF LinkLands
  <2>4. QED
    BY <1>2, <2>1, <2>2, <2>3 DEF FlushInv
<1>5. CASE LinkSkips \/ LinkFails \/ LinkUnowned
  <2>1. UNCHANGED <<log, pc, awaits>> /\ chain # <<>> /\ owed' \in {owed, {}}
    BY <1>5, LinkFacts
  <2>2. CASE /\ chain' = Tail(chain) /\ Head(chain).kind \in Contracts
             /\ writer.state # "null" /\ writer' \in Spoilt
    <3>1. /\ prepared \in BOOLEAN /\ seeded \in BOOLEAN /\ Well(All(log, chain), prepared, seeded)
      BY <2>2 DEF MirrorInv, TypeOK, ChainInv
    <3>2. Head(chain).group \in Groups(log) /\ Groups(chain) = Groups(chain') \cup {Head(chain).group}
      BY <1>1, <2>1, <2>2, <3>1, DropKeeps
    <3>3. writer'.state # "null"
      BY <2>2 DEF Spoilt
    <3>4. owed' \subseteq Groups(log') \cup Groups(chain')
      BY <1>2, <2>1, <2>2, <3>2
    <3>5. QED
      BY <1>2, <2>1, <2>2, <3>3, <3>4 DEF FlushInv
  <2>3. CASE writer' = NoWriter /\ (owed' = {} \/ (owed' = owed /\ writer.state = "null"))
    <3>1. writer'.state = "null"
      BY <2>3 DEF NoWriter
    <3>2. owed' \subseteq Groups(log')
      BY <1>2, <2>1, <2>3
    <3>3. QED
      BY <1>2, <2>1, <3>1, <3>2 DEF FlushInv
  <2>4. QED
    BY <1>5, <2>2, <2>3, LinkFacts
<1>6. CASE Adopt
  BY <1>6, AdoptFacts DEF FlushInv
<1>7. CASE AdoptFails \/ Crash
  <2>1. owed' = {} /\ pc' \in {"up", "down"}
    BY <1>7 DEF AdoptFails, Crash
  <2>2. QED
    BY <2>1 DEF FlushInv
<1>8. CASE Adopted
  BY <1>2, <1>8 DEF Adopted, FlushInv
<1>9. CASE Ended
  <2>1. UNCHANGED <<log, chain, writer, owed>> /\ awaits' = issued /\ pc' = "flushing"
    BY <1>9 DEF Ended
  <2>2. \A g \in owed : g <= issued
    BY <1>1
  <2>3. QED
    BY <1>2, <2>1, <2>2 DEF FlushInv
<1>10. CASE Release
  <2>1. UNCHANGED <<log, chain, writer, owed>> /\ awaits' = issued /\ pc' = "releasing"
    BY <1>10 DEF Release
  <2>2. \A g \in owed : g <= issued
    BY <1>1
  <2>3. QED
    BY <1>2, <2>1, <2>2 DEF FlushInv
<1>11. CASE Flushed \/ Released
  <2>1. /\ pc \in {"ending", "flushing", "releasing"} /\ Settled
        /\ UNCHANGED <<log, owed>> /\ pc' = "closed" /\ writer' = NoWriter
    BY <1>11 DEF Flushed, Released
  <2>2. owed \subseteq Groups(log)
    BY <2>1, SettledFacts
  <2>3. QED
    BY <2>1, <2>2 DEF FlushInv, NoWriter
<1>12. CASE Close
  <2>1. /\ UNCHANGED <<log, writer>> /\ pc' \in {"ending", "flushing"} /\ awaits' = issued'
    BY <1>12, CloseFacts
  <2>2. owed' \subseteq 1 .. issued' /\ issued' \in Nat
    BY <1>12, TypeStep, MaxIssuesAssumption DEF TypeOK, Next, Life
  <2>3. \A g \in owed' : g <= awaits'
    BY <2>1, <2>2
  <2>4. CASE UNCHANGED <<chain, owed>>
    BY <1>2, <2>1, <2>3, <2>4 DEF FlushInv
  <2>5. CASE /\ Groups(chain') = Groups(chain) \cup (issued + 1) .. issued'
             /\ owed' = owed \cup (issued + 1) .. issued'
             /\ writer.state # "null"
    <3>1. owed' \subseteq Groups(log') \cup Groups(chain')
      BY <1>2, <2>1, <2>5
    <3>2. QED
      BY <2>1, <2>3, <2>5, <3>1 DEF FlushInv
  <2>6. QED
    BY <1>12, <2>4, <2>5, CloseFacts DEF Grown
<1>13. CASE UNCHANGED vars
  BY <1>2, <1>13 DEF vars, FlushInv
<1>14. QED
  BY <1>3, <1>4, <1>5, <1>6, <1>7, <1>8, <1>9, <1>10, <1>11, <1>12, <1>13 DEF Next, Link, Life

LEMMA MirrorInit == Init => MirrorInv
<1> SUFFICES ASSUME Init PROVE MirrorInv
  OBVIOUS
<1>1. log = <<>> /\ chain = <<>> /\ Len(log) = 0 /\ owed = {} /\ issued = 0 /\ awaits = 0
      /\ writer = NoWriter /\ pc = "down" /\ status = "disabled" /\ seeded = FALSE /\ prepared = FALSE
  BY DEF Init
<1>2. TypeOK
  <2>1. /\ <<>> \in Seq([kind : Kinds, group : 1 .. issued])
        /\ <<>> \in Seq([kind : Kinds, group : 1 .. issued, seq : Nat, version : Nat])
    OBVIOUS
  <2>2. QED
    <3>1. NoWriter \in [state : {"null", "open", "poisoned"}, nextSeq : Nat \ {0}]
      BY DEF NoWriter
    <3>2. issued \in 0 .. MaxIssues /\ awaits \in 0 .. issued /\ owed \subseteq 1 .. issued
      BY <1>1, MaxIssuesAssumption
    <3>3. QED
      BY <1>1, <2>1, <3>1, <3>2 DEF TypeOK
<1>3. LogInv
  <2>1. Versions = {}
    BY <1>1 DEF Versions
  <2>2. QED
    BY <1>1, <2>1 DEF LogInv, Versioned, OneContract, AuditOrder, TurnsOK, Follows
<1>4. ChainInv /\ FlushInv
  BY <1>1 DEF ChainInv, FlushInv, NoWriter
<1>5. QED
  BY <1>2, <1>3, <1>4 DEF MirrorInv

LEMMA MirrorStep == MirrorInv /\ [Next]_vars => MirrorInv'
BY TypeStep, LogStep, ChainStep, FlushStep DEF MirrorInv

LEMMA Mirrored == Spec => []MirrorInv
BY MirrorInit, MirrorStep, PTL DEF Spec

(* A turn's start is where the proof says it is.                           *)
LEMMA EpochsInTurns ==
  ASSUME MirrorInv
  PROVE  EpochPerTurn
<1>1. Len(log) \in Nat
  BY Typed DEF MirrorInv
<1>2. SUFFICES ASSUME NEW i \in 1 .. Len(log), log[i].kind = "user"
               PROVE  \E k \in TurnStart(i) .. i :
                        \A j \in TurnStart(i) .. i : log[j].kind = "epoch" <=> j = k
  BY DEF EpochPerTurn
<1>3. PICK s \in 1 .. (i - 1) : \E k \in (s + 1) .. (i - 1) :
               /\ log[s].kind \in Starts
               /\ \A j \in (s + 1) .. (i - 1) : log[j].kind \notin Starts
               /\ \A j \in s .. i : log[j].kind = "epoch" <=> j = k
  BY <1>2 DEF MirrorInv, LogInv, TurnsOK
<1>4. PICK k \in (s + 1) .. (i - 1) :
               /\ log[s].kind \in Starts
               /\ \A j \in (s + 1) .. (i - 1) : log[j].kind \notin Starts
               /\ \A j \in s .. i : log[j].kind = "epoch" <=> j = k
  BY <1>3
<1>5. PICK t : t = TurnStart(i)
  OBVIOUS
<1>6. t = s
  <2>1. /\ s \in 1 .. (i - 1) /\ log[s].kind \in {"user", "started"}
        /\ \A j \in (s + 1) .. (i - 1) : log[j].kind \notin {"user", "started"}
    BY <1>4 DEF Starts
  <2>2. /\ t \in 1 .. (i - 1) /\ log[t].kind \in {"user", "started"}
        /\ \A j \in (t + 1) .. (i - 1) : log[j].kind \notin {"user", "started"}
    BY <1>5, <2>1 DEF TurnStart
  <2>3. ~(s < t) /\ ~(t < s)
    BY <1>1, <2>1, <2>2
  <2>4. QED
    BY <1>1, <2>1, <2>2, <2>3
<1>7. k \in s .. i
  BY <1>1
<1>8. QED
  <2>1. \E h \in t .. i : \A j \in t .. i : log[j].kind = "epoch" <=> j = h
    BY <1>4, <1>6, <1>7
  <2>2. QED
    BY <1>5, <2>1

(* The queue, the log and the mirror's fields stay in their ranges, over   *)
(* any number of hosts that adopt the session, fail and die.               *)
THEOREM Typing == Spec => []TypeOK
<1>1. MirrorInv => TypeOK
  BY DEF MirrorInv
<1>2. QED
  BY <1>1, Mirrored, PTL

(* What is queued lands in the order it was queued, an event together with *)
(* what must follow it, and what was queued before close or release is in  *)
(* the log when the writer is let go, unless a write failed: a failed      *)
(* group drops the rest of itself and nothing lands behind it.             *)
THEOREM Landing == Spec => []QueueLands
<1>1. MirrorInv => QueueLands
  <2>1. MirrorInv => AuditOrder
    BY DEF MirrorInv, LogInv
  <2>2. MirrorInv => CloseFlushes
    BY DEF MirrorInv, FlushInv, CloseFlushes, Groups
  <2>3. QED
    BY <2>1, <2>2 DEF QueueLands
<1>2. QED
  BY <1>1, Mirrored, PTL

(* One initial contract, its updates counting up from it, and an epoch for *)
(* every turn, however the messages are queued and whichever writes fail:  *)
(* the flags that say so are set when an event is queued, long before it   *)
(* lands, and a resumed host reads them off the log.                       *)
THEOREM Recording == Spec => []MessagesRecorded
<1>1. MirrorInv => MessagesRecorded
  BY EpochsInTurns DEF MessagesRecorded, MirrorInv, LogInv, Versioned
<1>2. QED
  BY <1>1, Mirrored, PTL
=============================================================================
