------------------------- MODULE ReplayCache_proofs -------------------------
(***************************************************************************)
(* What holds of the replay cache for any number of readers, any lines and *)
(* any texts: from what decoding, splitting and parsing do to one more     *)
(* character or line, by way of what they do to bytes that come in two     *)
(* pieces, to the invariant that an entry stands for the bytes it owns.    *)
(***************************************************************************)
EXTENDS ReplayCache, SequenceTheorems, FiniteSetTheorems, WellFoundedInduction, TLAPS

-----------------------------------------------------------------------------
(*                   Induction and recursive functions                     *)
(*                                                                         *)
(* A recursive function is whatever satisfies its equation, so that        *)
(* something does has to be shown before anything can be said of it.       *)

(* A set of numbers has a least element.                                   *)
LEMMA LeastNumber ==
  ASSUME NEW T, T \subseteq Nat, T # {}
  PROVE  \E x \in T : \A y \in T : x <= y
<1>1. PICK x \in T : \A y \in T : ~(<<y, x>> \in OpToRel(LAMBDA a, b : a < b, Nat))
  BY NatLessThanWellFounded, WFMin, Zenon
<1>2. \A y \in T : ~(y < x)
  BY <1>1 DEF OpToRel
<1>3. QED
  BY <1>2

LEMMA InductionOnSets ==
  ASSUME NEW S, 0 \in S, \A n \in Nat : n \in S => n + 1 \in S
  PROVE  \A n \in Nat : n \in S
<1> SUFFICES ASSUME Nat \ S # {} PROVE FALSE
  OBVIOUS
<1>1. PICK x \in Nat \ S : \A y \in Nat \ S : x <= y
  BY LeastNumber
<1>2. x - 1 \in Nat /\ x - 1 \in S
  BY <1>1
<1>3. (x - 1) + 1 \in S
  BY <1>2
<1>4. QED
  BY <1>1, <1>3

(* What is computed step by step from a first value exists: step[k] says  *)
(* what the k-th value is, given the one before it.                        *)
Steps(step, V) == step \in [Nat -> [V -> V]]

Stepwise(f, V, base, step, n) ==
  /\ f \in [0 .. n -> V]
  /\ f[0] = base
  /\ \A k \in 1 .. n : f[k] = step[k][f[k - 1]]

LEMMA StepwiseExists ==
  ASSUME NEW V, NEW base, base \in V, NEW step, Steps(step, V), NEW n \in Nat
  PROVE  \E f : Stepwise(f, V, base, step, n)
<1> DEFINE S == {m \in Nat : \E f : Stepwise(f, V, base, step, m)}
<1>1. 0 \in S
  <2>1. Stepwise([k \in 0 .. 0 |-> base], V, base, step, 0)
    BY DEF Stepwise
  <2>2. QED
    BY <2>1
<1>2. ASSUME NEW m \in Nat, m \in S
      PROVE  m + 1 \in S
  <2>1. PICK f : Stepwise(f, V, base, step, m)
    BY <1>2
  <2> DEFINE g == [k \in 0 .. (m + 1) |-> IF k <= m THEN f[k] ELSE step[m + 1][f[m]]]
  <2>2. step[m + 1][f[m]] \in V
    BY <2>1 DEF Stepwise, Steps
  <2>3. g \in [0 .. (m + 1) -> V]
    BY <2>1, <2>2 DEF Stepwise
  <2>4. g[0] = base
    BY <2>1 DEF Stepwise
  <2>5. ASSUME NEW k \in 1 .. (m + 1)
        PROVE  g[k] = step[k][g[k - 1]]
    <3>1. CASE k <= m
      BY <2>1, <3>1 DEF Stepwise
    <3>2. CASE k = m + 1
      BY <2>1, <3>2
    <3>3. QED
      BY <3>1, <3>2
  <2> HIDE DEF g
  <2>6. Stepwise(g, V, base, step, m + 1)
    BY <2>3, <2>4, <2>5 DEF Stepwise
  <2>7. QED
    BY <2>6
<1> HIDE DEF S
<1>3. n \in S
  BY <1>1, <1>2, InductionOnSets
<1>4. QED
  BY <1>3 DEF S

(* Two stepwise computations that take the same steps have the same values. *)
LEMMA StepwiseAgree ==
  ASSUME NEW V, NEW base, NEW a, NEW b, NEW m \in Nat, NEW n \in Nat, m <= n,
         NEW f, NEW g, Stepwise(f, V, base, a, m), Stepwise(g, V, base, b, n),
         \A k \in 1 .. m : \A v \in V : a[k][v] = b[k][v]
  PROVE  f[m] = g[m]
<1> DEFINE S == {k \in Nat : k <= m => f[k] = g[k]}
<1>1. 0 \in S
  BY DEF Stepwise
<1>2. ASSUME NEW k \in Nat, k \in S
      PROVE  k + 1 \in S
  <2>1. ASSUME k + 1 <= m
        PROVE  f[k + 1] = g[k + 1]
    <3>1. f[k] = g[k] /\ f[k] \in V
      BY <1>2, <2>1 DEF Stepwise
    <3>2. k + 1 \in 1 .. m /\ k + 1 \in 1 .. n /\ (k + 1) - 1 = k
      BY <2>1
    <3>3. f[k + 1] = a[k + 1][f[k]]
      BY <3>2 DEF Stepwise
    <3>4. g[k + 1] = b[k + 1][g[k]]
      BY <3>2 DEF Stepwise
    <3>5. QED
      BY <3>1, <3>2, <3>3, <3>4
  <2>2. QED
    BY <2>1
<1> HIDE DEF S
<1>3. m \in S
  BY <1>1, <1>2, InductionOnSets
<1>4. QED
  BY <1>3 DEF S

(* A set of sequences that is closed under Append holds all of them.       *)
LEMMA InductionOnSequences ==
  ASSUME NEW T, NEW S, <<>> \in S,
         \A s \in Seq(T), c \in T : s \in S => Append(s, c) \in S
  PROVE  \A s \in Seq(T) : s \in S
<1> DEFINE N == {n \in Nat : \A s \in Seq(T) : Len(s) = n => s \in S}
<1>1. 0 \in N
  <2>1. \A s \in Seq(T) : Len(s) = 0 => s = <<>>
    OBVIOUS
  <2>2. QED
    BY <2>1
<1>2. ASSUME NEW n \in Nat, n \in N
      PROVE  n + 1 \in N
  <2>1. ASSUME NEW s \in Seq(T), Len(s) = n + 1
        PROVE  s \in S
    <3>1. PICK t \in Seq(T), c \in T : s = Append(t, c)
      BY <2>1, EmptySeq, SequenceEmptyOrAppend
    <3>2. Len(t) = n
      BY <2>1, <3>1
    <3>3. QED
      BY <1>2, <3>1, <3>2
  <2>2. QED
    BY <2>1
<1> HIDE DEF N
<1>3. \A n \in Nat : n \in N
  BY <1>1, <1>2, InductionOnSets
<1>4. QED
  BY <1>3 DEF N

-----------------------------------------------------------------------------
(*                              Flattening                                 *)

(* FlattenSeq appends the pieces one after another.                        *)
FlattenSteps(V, s) ==
  [k \in Nat |-> [v \in V |-> IF k \in 1 .. Len(s) THEN v \o s[k] ELSE v]]

LEMMA FlattenFold ==
  ASSUME NEW T, NEW s \in Seq(Seq(T))
  PROVE  \E u : /\ Stepwise(u, Seq(T), <<>>, FlattenSteps(Seq(T), s), Len(s))
                /\ FlattenSeq(s) = u[Len(s)]
<1>1. PICK V : V = Seq(T)
  OBVIOUS
<1>2. PICK n \in Nat : n = Len(s)
  OBVIOUS
<1>3. PICK step : step = FlattenSteps(V, s)
  OBVIOUS
<1>4. <<>> \in V /\ \A k \in 1 .. n : s[k] \in V /\ \A v \in V : v \o s[k] \in V
  BY <1>1, <1>2
<1>5. Steps(step, V)
  BY <1>2, <1>3, <1>4 DEF Steps, FlattenSteps
<1>6. PICK u : Stepwise(u, V, <<>>, step, n)
  BY <1>4, <1>5, StepwiseExists
<1>7. \A k \in 1 .. n : u[k] = u[k - 1] \o s[k]
  <2> SUFFICES ASSUME NEW k \in 1 .. n
               PROVE  u[k] = u[k - 1] \o s[k]
    OBVIOUS
  <2>1. k \in Nat /\ u[k - 1] \in V /\ u[k] = step[k][u[k - 1]]
    BY <1>6 DEF Stepwise
  <2>2. QED
    BY <1>2, <1>3, <2>1 DEF FlattenSteps
<1>8. FlattenSeq(s) = u[n]
  <2>1. CASE n = 0
    <3>1. s = <<>>
      <4>1. PICK W : W = Seq(T)
        OBVIOUS
      <4>2. QED
        BY <1>2, <2>1, <4>1, EmptySeq
    <3>2. QED
      BY <1>2, <1>6, <2>1, <3>1 DEF Stepwise, FlattenSeq
  <2>2. CASE n # 0
    <3> DEFINE Eq(f) == f = [i \in 1 .. n |-> IF i = 1 THEN s[i] ELSE f[i - 1] \o s[i]]
    <3>0. u[1] = s[1]
      <4>1. u[0] = <<>> /\ 1 \in 1 .. n /\ s[1] \in Seq(T)
        BY <1>1, <1>2, <1>4, <1>6, <2>2 DEF Stepwise
      <4>2. u[1] = u[0] \o s[1]
        <5>1. PICK k \in 1 .. n : k = 1
          BY <4>1
        <5>2. u[k] = u[k - 1] \o s[k]
          BY <1>7
        <5>3. k - 1 = 0
          BY <5>1
        <5>4. QED
          BY <5>1, <5>2, <5>3
      <4>3. QED
        BY <4>1, <4>2
    <3>1. Eq([i \in 1 .. n |-> u[i]])
      <4>2. \A i \in 1 .. n : i # 1 => i - 1 \in 1 .. n
        OBVIOUS
      <4>3. QED
        BY <1>7, <3>0, <4>2
    <3>2. PICK f : f = CHOOSE g : Eq(g)
      OBVIOUS
    <3>3. Eq(f)
      BY <3>1, <3>2
    <3>4. FlattenSeq(s) = f[n]
      BY <1>2, <2>2, <3>2 DEF FlattenSeq
    <3> DEFINE S == {k \in Nat : k + 1 <= n => f[k + 1] = u[k + 1]}
    <3>5. 0 \in S
      <4>1. 0 + 1 = 1 /\ 1 \in 1 .. n
        BY <2>2
      <4>2. f[1] = s[1]
        BY <3>3, <4>1
      <4>3. QED
        BY <3>0, <4>1, <4>2
    <3>6. ASSUME NEW k \in Nat, k \in S
          PROVE  k + 1 \in S
      <4>1. ASSUME (k + 1) + 1 <= n
            PROVE  f[(k + 1) + 1] = u[(k + 1) + 1]
        <5>1. f[k + 1] = u[k + 1] /\ (k + 1) + 1 \in 1 .. n /\ (k + 1) + 1 # 1
              /\ ((k + 1) + 1) - 1 = k + 1
          BY <3>6, <4>1
        <5>2. f[(k + 1) + 1] = f[k + 1] \o s[(k + 1) + 1]
          BY <3>3, <5>1
        <5>3. u[(k + 1) + 1] = u[k + 1] \o s[(k + 1) + 1]
          BY <1>7, <5>1
        <5>4. QED
          BY <5>1, <5>2, <5>3
      <4>2. QED
        BY <4>1
    <3> HIDE DEF S
    <3>7. n - 1 \in S
      BY <2>2, <3>5, <3>6, InductionOnSets
    <3>8. QED
      BY <3>4, <3>7 DEF S
  <2>3. QED
    BY <2>1, <2>2
<1>9. QED
  BY <1>1, <1>2, <1>3, <1>6, <1>8

LEMMA FlattenEmpty == FlattenSeq(<<>>) = <<>>
  BY DEF FlattenSeq

LEMMA FlattenTyped ==
  ASSUME NEW T, NEW s \in Seq(Seq(T))
  PROVE  FlattenSeq(s) \in Seq(T)
<1>1. PICK u : /\ Stepwise(u, Seq(T), <<>>, FlattenSteps(Seq(T), s), Len(s))
               /\ FlattenSeq(s) = u[Len(s)]
  BY FlattenFold
<1>2. Len(s) \in 0 .. Len(s)
  OBVIOUS
<1>3. QED
  BY <1>1, <1>2 DEF Stepwise

LEMMA FlattenAppend ==
  ASSUME NEW T, NEW s \in Seq(Seq(T)), NEW c \in Seq(T)
  PROVE  FlattenSeq(Append(s, c)) = FlattenSeq(s) \o c
<1>2. PICK V : V = Seq(T)
  OBVIOUS
<1>1. PICK t \in Seq(V) : t = Append(s, c)
  BY <1>2, AppendProperties
<1>3. PICK n \in Nat : n = Len(s)
  BY <1>2
<1>4. Len(t) = n + 1 /\ t[n + 1] = c /\ \A k \in 1 .. n : t[k] = s[k]
  BY <1>1, <1>2, <1>3, AppendProperties
<1>5. PICK u : Stepwise(u, V, <<>>, FlattenSteps(V, s), n) /\ FlattenSeq(s) = u[n]
  BY <1>2, <1>3, FlattenFold
<1>6. PICK w : Stepwise(w, V, <<>>, FlattenSteps(V, t), n + 1) /\ FlattenSeq(t) = w[n + 1]
  BY <1>2, <1>4, FlattenFold
<1>7. \A k \in 1 .. n : \A v \in V : FlattenSteps(V, s)[k][v] = FlattenSteps(V, t)[k][v]
  <2>1. \A k \in 1 .. n : k \in 1 .. (n + 1) /\ k \in Nat
    OBVIOUS
  <2>2. QED
    BY <1>3, <1>4, <2>1 DEF FlattenSteps
<1>8. n <= n + 1 /\ n + 1 \in Nat
  OBVIOUS
<1>9. u[n] = w[n]
  BY <1>5, <1>6, <1>7, <1>8, StepwiseAgree
<1>10. w[n + 1] = w[n] \o c
  <2>1. n + 1 \in 1 .. (n + 1) /\ (n + 1) - 1 = n /\ n \in 0 .. (n + 1) /\ n + 1 \in Nat
    OBVIOUS
  <2>2. w[n] \in V /\ w[n + 1] = FlattenSteps(V, t)[n + 1][w[n]]
    BY <1>6, <2>1 DEF Stepwise
  <2>3. QED
    BY <1>4, <2>1, <2>2 DEF FlattenSteps
<1>11. QED
  BY <1>1, <1>5, <1>6, <1>9, <1>10

LEMMA FlattenConcat ==
  ASSUME NEW T, NEW s \in Seq(Seq(T))
  PROVE  \A t \in Seq(Seq(T)) : FlattenSeq(s \o t) = FlattenSeq(s) \o FlattenSeq(t)
<1>1. PICK U : U = Seq(T)
  OBVIOUS
<1> DEFINE S == {t \in Seq(U) : FlattenSeq(s \o t) = FlattenSeq(s) \o FlattenSeq(t)}
<1>2. \A t \in Seq(U) : FlattenSeq(t) \in Seq(T)
  BY <1>1, FlattenTyped
<1>3. <<>> \in S
  <2>1. s \o <<>> = s /\ FlattenSeq(s) \o <<>> = FlattenSeq(s) /\ <<>> \in Seq(U)
    BY <1>1, <1>2
  <2>2. QED
    BY <2>1, FlattenEmpty
<1>4. ASSUME NEW t \in Seq(U), NEW c \in U, t \in S
      PROVE  Append(t, c) \in S
  <2>1. /\ s \o Append(t, c) = Append(s \o t, c)
        /\ s \o t \in Seq(U) /\ Append(t, c) \in Seq(U)
    BY <1>1
  <2>2. FlattenSeq(Append(s \o t, c)) = FlattenSeq(s \o t) \o c
    BY <1>1, <2>1, FlattenAppend
  <2>3. FlattenSeq(Append(t, c)) = FlattenSeq(t) \o c
    BY <1>1, FlattenAppend
  <2>4. (FlattenSeq(s) \o FlattenSeq(t)) \o c = FlattenSeq(s) \o (FlattenSeq(t) \o c)
    BY <1>1, <1>2, ConcatAssociative
  <2>5. QED
    BY <1>4, <2>1, <2>2, <2>3, <2>4
<1> HIDE DEF S
<1>5. \A t \in Seq(U) : t \in S
  BY <1>3, <1>4, InductionOnSequences
<1>6. QED
  BY <1>1, <1>5 DEF S

LEMMA FlattenOne ==
  ASSUME NEW T, NEW c \in Seq(T)
  PROVE  FlattenSeq(<<c>>) = c
<1>1. Append(<<>>, c) = <<c>> /\ <<>> \in Seq(Seq(T)) /\ <<>> \o c = c
  OBVIOUS
<1>2. QED
  BY <1>1, FlattenAppend, FlattenEmpty

Byte == 0 .. 255
Bytes == Seq(Byte)
String == Seq(Bytes)

-----------------------------------------------------------------------------
(*                               Decoding                                  *)

LEMMA CharLenRange ==
  ASSUME NEW b \in Byte
  PROVE  CharLen(b) \in 1 .. 4
  BY DEF CharLen, Byte

(* What RunAt chooses.                                                     *)
RunFits(bytes, i, n) ==
  /\ i + n - 1 <= Len(bytes)
  /\ \A j \in 1 .. (n - 1) : Continues(bytes[i + j])
  /\ \/ n = CharLen(bytes[i])
     \/ i + n > Len(bytes)
     \/ ~Continues(bytes[i + n])

LEMMA RunExists ==
  ASSUME NEW bytes \in Bytes, NEW i \in 1 .. Len(bytes)
  PROVE  RunAt(bytes, i) \in 1 .. CharLen(bytes[i]) /\ RunFits(bytes, i, RunAt(bytes, i))
<1>1. PICK m \in 1 .. 4 : m = CharLen(bytes[i])
  BY CharLenRange DEF Bytes
<1>2. PICK n \in Nat : n = Len(bytes)
  BY DEF Bytes
<1> DEFINE More(k) == i + k <= n /\ Continues(bytes[i + k])
<1>3. \E k \in 1 .. m : /\ \A j \in 1 .. (k - 1) : More(j)
                        /\ k = m \/ ~More(k)
  <2>1. CASE m = 1 \/ ~More(1)
    <3>1. 1 \in 1 .. m /\ 1 .. (1 - 1) = {}
      BY <1>1
    <3>2. QED
      BY <2>1, <3>1
  <2>2. CASE m # 1 /\ More(1) /\ (m = 2 \/ ~More(2))
    <3>1. 2 \in 1 .. m /\ 1 .. (2 - 1) = {1}
      BY <1>1, <2>2
    <3>2. QED
      BY <2>2, <3>1
  <2>3. CASE m \notin {1, 2} /\ More(1) /\ More(2) /\ (m = 3 \/ ~More(3))
    <3>1. 3 \in 1 .. m /\ 1 .. (3 - 1) = {1, 2}
      BY <1>1, <2>3
    <3>2. QED
      BY <2>3, <3>1
  <2>4. CASE m \notin {1, 2, 3} /\ More(1) /\ More(2) /\ More(3)
    <3>1. m = 4 /\ 4 \in 1 .. m /\ 1 .. (4 - 1) = {1, 2, 3}
      BY <1>1, <2>4
    <3>2. QED
      BY <2>4, <3>1
  <2>5. QED
    BY <1>1, <2>1, <2>2, <2>3, <2>4
<1>4. \E k \in 1 .. m : RunFits(bytes, i, k)
  <2>1. PICK k \in 1 .. m : (\A j \in 1 .. (k - 1) : More(j)) /\ (k = m \/ ~More(k))
    BY <1>3
  <2>2. k = 1 \/ k - 1 \in 1 .. (k - 1)
    BY <1>1
  <2>3. i + k - 1 <= n
    <3>1. CASE k = 1
      BY <1>2, <3>1
    <3>2. CASE k # 1
      <4>1. PICK j \in 1 .. (k - 1) : j = k - 1
        BY <2>2, <3>2
      <4>2. i + j <= n
        BY <2>1
      <4>3. QED
        BY <1>2, <4>1, <4>2
    <3>3. QED
      BY <3>1, <3>2
  <2>4. k = m \/ i + k > n \/ ~Continues(bytes[i + k])
    BY <1>1, <1>2, <2>1
  <2>5. QED
    BY <1>1, <1>2, <2>1, <2>3, <2>4 DEF RunFits
<1> HIDE DEF More
<1>5. RunAt(bytes, i) = CHOOSE k \in 1 .. m : RunFits(bytes, i, k)
  BY <1>1 DEF RunAt, RunFits
<1>6. QED
  BY <1>1, <1>4, <1>5

LEMMA RunRange ==
  ASSUME NEW bytes \in Bytes, NEW i \in 1 .. Len(bytes)
  PROVE  RunAt(bytes, i) \in 1 .. 4 /\ i + RunAt(bytes, i) \in (i + 1) .. (Len(bytes) + 1)
<1>1. PICK m \in 1 .. 4 : m = CharLen(bytes[i])
  BY CharLenRange DEF Bytes
<1>2. PICK n \in Nat : n = Len(bytes)
  BY DEF Bytes
<1>3. PICK r \in 1 .. m : r = RunAt(bytes, i)
  BY <1>1, RunExists
<1>4. i + r - 1 <= n
  BY <1>2, <1>3, RunExists DEF RunFits
<1>5. QED
  BY <1>1, <1>2, <1>3, <1>4

LEMMA CharTyped ==
  ASSUME NEW bytes \in Bytes, NEW i \in 1 .. Len(bytes)
  PROVE  CharAt(bytes, i) \in Bytes
<1>1. PICK r \in 1 .. 4 : r = RunAt(bytes, i) /\ i + r - 1 <= Len(bytes)
  BY RunRange
<1>2. \A j \in i .. (i + r - 1) : bytes[j] \in Byte
  BY <1>1 DEF Bytes
<1>3. SubSeq(bytes, i, i + r - 1) \in Seq(Byte)
  BY <1>1, <1>2, SubSeqProperties
<1>4. Replacement \in Seq(Byte)
  BY DEF Replacement, Byte
<1>5. QED
  BY <1>1, <1>3, <1>4 DEF CharAt, Bytes

(* What decoding computes from the back: the characters from i on.         *)
Decodes(u, bytes, from) ==
  u = [i \in from .. (Len(bytes) + 1) |->
         IF i > Len(bytes) THEN <<>>
         ELSE <<CharAt(bytes, i)>> \o u[i + RunAt(bytes, i)]]

LEMMA DecodedFold ==
  ASSUME NEW bytes \in Bytes
  PROVE  \E u : Decodes(u, bytes, 1) /\ Decoded(bytes) = u[1]
<1>1. PICK n \in Nat : n = Len(bytes)
  BY DEF Bytes
<1> DEFINE S == {m \in Nat : m <= n => \E u : Decodes(u, bytes, n + 1 - m)}
<1>2. 0 \in S
  <2>1. Decodes([i \in (n + 1) .. (n + 1) |-> <<>>], bytes, n + 1)
    BY <1>1 DEF Decodes
  <2>2. n + 1 - 0 = n + 1
    OBVIOUS
  <2>3. QED
    BY <2>1, <2>2
<1>3. ASSUME NEW m \in Nat, m \in S
      PROVE  m + 1 \in S
  <2>1. ASSUME m + 1 <= n
        PROVE  \E u : Decodes(u, bytes, n + 1 - (m + 1))
    <3>1. PICK k \in 1 .. n : k = n + 1 - (m + 1) /\ n + 1 - m = k + 1
      BY <2>1
    <3>2. PICK u : Decodes(u, bytes, k + 1)
      BY <1>3, <2>1, <3>1
    <3>3. PICK w : w = <<CharAt(bytes, k)>> \o u[k + RunAt(bytes, k)]
      OBVIOUS
    <3>4. PICK v : v = [i \in k .. (n + 1) |-> IF i = k THEN w ELSE u[i]]
      OBVIOUS
    <3>5. ASSUME NEW i \in k .. (n + 1)
          PROVE  v[i] = IF i > n THEN <<>>
                        ELSE <<CharAt(bytes, i)>> \o v[i + RunAt(bytes, i)]
      <4>1. CASE i > n
        <5>1. i \in (k + 1) .. (n + 1) /\ i # k
          BY <4>1
        <5>2. u[i] = <<>>
          BY <1>1, <3>2, <4>1, <5>1 DEF Decodes
        <5>3. QED
          BY <3>4, <4>1, <5>1, <5>2
      <4>2. CASE i <= n
        <5>1. PICK r \in 1 .. 4 : r = RunAt(bytes, i) /\ i + r \in (i + 1) .. (n + 1)
          BY <1>1, <4>2, RunRange
        <5>2. v[i + r] = u[i + r]
          BY <3>4, <5>1
        <5>3. CASE i = k
          BY <3>3, <3>4, <4>2, <5>1, <5>2, <5>3
        <5>4. CASE i # k
          <6>1. i \in (k + 1) .. (n + 1) /\ ~(i > n)
            BY <4>2, <5>4
          <6>2. u[i] = <<CharAt(bytes, i)>> \o u[i + r]
            BY <1>1, <3>2, <5>1, <6>1 DEF Decodes
          <6>3. v[i] = u[i]
            BY <3>4, <5>4
          <6>4. QED
            BY <5>1, <5>2, <6>1, <6>2, <6>3
        <5>5. QED
          BY <5>3, <5>4
      <4>3. QED
        BY <4>1, <4>2
    <3>6. v = [i \in k .. (n + 1) |-> v[i]]
      BY <3>4
    <3>7. Decodes(v, bytes, k)
      BY <1>1, <3>5, <3>6 DEF Decodes
    <3>8. QED
      BY <3>1, <3>7
  <2>2. QED
    BY <2>1
<1> HIDE DEF S
<1>4. n \in S /\ n + 1 - n = 1
  BY <1>2, <1>3, InductionOnSets
<1>5. \E u : Decodes(u, bytes, 1)
  BY <1>4 DEF S
<1>6. PICK u : u = CHOOSE v : Decodes(v, bytes, 1)
  OBVIOUS
<1>7. Decodes(u, bytes, 1)
  BY <1>5, <1>6
<1>8. Decoded(bytes) = u[1]
  BY <1>6 DEF Decoded, Decodes
<1>9. QED
  BY <1>7, <1>8

LEMMA DecodesAt ==
  ASSUME NEW bytes \in Bytes, NEW u, Decodes(u, bytes, 1)
  PROVE  /\ u[Len(bytes) + 1] = <<>>
         /\ \A i \in 1 .. Len(bytes) :
              u[i] = <<CharAt(bytes, i)>> \o u[i + RunAt(bytes, i)]
<1>1. PICK n \in Nat : n = Len(bytes)
  BY DEF Bytes
<1>2. n + 1 \in 1 .. (n + 1) /\ n + 1 > n /\ \A i \in 1 .. n : i \in 1 .. (n + 1) /\ ~(i > n)
  OBVIOUS
<1>3. QED
  BY <1>1, <1>2 DEF Decodes

(* Decoding any bytes gives a string.                                      *)
LEMMA DecodedTyped ==
  ASSUME NEW bytes \in Bytes
  PROVE  Decoded(bytes) \in String
<1>1. PICK u : Decodes(u, bytes, 1) /\ Decoded(bytes) = u[1]
  BY DecodedFold
<1>2. PICK n \in Nat : n = Len(bytes)
  BY DEF Bytes
<1>3. PICK V : V = String
  OBVIOUS
<1> DEFINE S == {m \in Nat : \A i \in 1 .. (n + 1) : i >= n + 1 - m => u[i] \in V}
<1>4. 0 \in S
  <2>1. <<>> \in V
    BY <1>3 DEF String
  <2>2. \A i \in 1 .. (n + 1) : i >= n + 1 - 0 => i = n + 1
    OBVIOUS
  <2>3. QED
    BY <1>1, <1>2, <2>1, <2>2, DecodesAt
<1>5. ASSUME NEW m \in Nat, m \in S
      PROVE  m + 1 \in S
  <2>1. ASSUME NEW i \in 1 .. (n + 1), i >= n + 1 - (m + 1)
        PROVE  u[i] \in V
    <3>1. CASE i >= n + 1 - m
      BY <1>5, <3>1
    <3>2. CASE i < n + 1 - m
      <4>1. i \in 1 .. n /\ i = n - m
        BY <2>1, <3>2
      <4>2. PICK r \in 1 .. 4 : r = RunAt(bytes, i) /\ i + r \in (i + 1) .. (n + 1)
        BY <1>2, <4>1, RunRange
      <4>3. i + r \in 1 .. (n + 1) /\ i + r >= n + 1 - m
        BY <4>1, <4>2
      <4>4. u[i + r] \in V
        BY <1>5, <4>3
      <4>5. u[i] = <<CharAt(bytes, i)>> \o u[i + r]
        BY <1>1, <1>2, <4>1, <4>2, DecodesAt
      <4>6. CharAt(bytes, i) \in Bytes
        BY <1>2, <4>1, CharTyped
      <4>7. QED
        BY <1>3, <4>4, <4>5, <4>6 DEF String
    <3>3. QED
      BY <3>1, <3>2
  <2>2. QED
    BY <2>1
<1> HIDE DEF S
<1>6. n \in S
  BY <1>4, <1>5, InductionOnSets
<1>7. 1 \in 1 .. (n + 1) /\ 1 >= n + 1 - n
  OBVIOUS
<1>8. QED
  BY <1>1, <1>3, <1>6, <1>7 DEF S

Characters == {c \in Bytes : IsCharacter(c)}

LEMMA CharactersAreBytes == Seq(Characters) \subseteq String
  BY SeqMonotonic DEF Characters, String

(* Where a character stands, decoding finds it.                            *)
LEMMA CharacterFound ==
  ASSUME NEW w \in Bytes, NEW p \in Nat, NEW c \in Characters,
         p + Len(c) <= Len(w),
         \A j \in 1 .. Len(c) : w[p + j] = c[j]
  PROVE  RunAt(w, p + 1) = Len(c) /\ CharAt(w, p + 1) = c
<1>1. PICK m \in 1 .. 4 : m = Len(c) /\ m = CharLen(c[1]) /\ ~Continues(c[1])
  BY DEF Characters, IsCharacter
<1>2. PICK n \in Nat : n = Len(w)
  BY DEF Bytes
<1>3. p + 1 \in 1 .. n /\ p + m <= n
  BY <1>1, <1>2
<1>4. w[p + 1] = c[1]
  BY <1>1
<1>5. \A j \in 1 .. (m - 1) : Continues(w[(p + 1) + j])
  <2>1. ASSUME NEW j \in 1 .. (m - 1)
        PROVE  Continues(w[(p + 1) + j])
    <3>1. PICK k \in 2 .. m : k = j + 1 /\ p + k = (p + 1) + j
      OBVIOUS
    <3>2. Continues(c[k]) /\ w[p + k] = c[k]
      BY <1>1, <3>1 DEF Characters, IsCharacter
    <3>3. QED
      BY <3>1, <3>2
  <2>2. QED
    BY <2>1
<1>6. PICK r \in 1 .. m : r = RunAt(w, p + 1) /\ RunFits(w, p + 1, r)
  BY <1>1, <1>2, <1>3, <1>4, RunExists
<1>7. r = m
  <2>1. ASSUME r < m PROVE FALSE
    <3>1. r \in 1 .. (m - 1) /\ (p + 1) + r <= n /\ r # m
      BY <1>3, <1>6, <2>1
    <3>2. Continues(w[(p + 1) + r])
      BY <1>5, <3>1
    <3>3. QED
      BY <1>1, <1>2, <1>4, <1>6, <3>1, <3>2 DEF RunFits
  <2>2. QED
    BY <1>1, <1>6, <2>1
<1>8. SubSeq(w, p + 1, p + 1 + m - 1) = c
  <2>1. PICK a \in Nat : a = p + 1
    OBVIOUS
  <2>2. PICK b \in Nat : b = a + m - 1
    BY <1>1, <2>1
  <2>3. PICK s : s = SubSeq(w, a, b)
    OBVIOUS
  <2>4. \A i \in a .. b : w[i] \in Byte
    BY <1>2, <1>3, <2>1, <2>2 DEF Bytes
  <2>5. /\ s \in Seq(Byte) /\ Len(s) = IF a <= b THEN b - a + 1 ELSE 0
        /\ \A i \in 1 .. b - a + 1 : s[i] = w[a + i - 1]
    BY <2>3, <2>4, SubSeqProperties
  <2>6. Len(s) = m /\ \A i \in 1 .. m : s[i] = w[p + i]
    <3>1. b - a + 1 = m /\ a <= b /\ \A i \in 1 .. m : a + i - 1 = p + i
      BY <1>1, <2>1, <2>2
    <3>2. QED
      BY <2>5, <3>1
  <2>7. c \in Seq(Byte)
    BY DEF Characters, Bytes
  <2>8. s = c
    BY <1>1, <2>5, <2>6, <2>7, SeqEqual
  <2>9. QED
    BY <2>1, <2>2, <2>3, <2>8
<1>9. QED
  BY <1>1, <1>4, <1>6, <1>7, <1>8 DEF CharAt

(* Decoding undoes encoding.                                               *)
LEMMA DecodeFlatten ==
  ASSUME NEW cs \in Seq(Characters)
  PROVE  Decoded(FlattenSeq(cs)) = cs
<1>1. cs \in Seq(Bytes) /\ cs \in Seq(Seq(Byte))
  BY CharactersAreBytes DEF String, Bytes
<1>2. PICK w \in Bytes : w = FlattenSeq(cs)
  BY <1>1, FlattenTyped DEF Bytes
<1>3. PICK n \in Nat : n = Len(cs)
  OBVIOUS
<1>4. PICK L : L = [k \in 0 .. n |-> Len(FlattenSeq(SubSeq(cs, 1, k)))]
  OBVIOUS
<1>5. ASSUME NEW k \in 0 .. n
      PROVE  /\ SubSeq(cs, 1, k) \in Seq(Bytes) /\ Len(SubSeq(cs, 1, k)) = k
             /\ SubSeq(cs, k + 1, n) \in Seq(Bytes)
             /\ cs = SubSeq(cs, 1, k) \o SubSeq(cs, k + 1, n)
             /\ L[k] \in Nat
             /\ w = FlattenSeq(SubSeq(cs, 1, k)) \o FlattenSeq(SubSeq(cs, k + 1, n))
  <2>1. SubSeq(cs, 1, k) \in Seq(Bytes) /\ Len(SubSeq(cs, 1, k)) = k
    BY <1>1, <1>3
  <2>2. SubSeq(cs, k + 1, n) \in Seq(Bytes)
    BY <1>1, <1>3
  <2>3. cs = SubSeq(cs, 1, k) \o SubSeq(cs, k + 1, n)
    <3>1. 1 \in 1 .. Len(cs) + 1 /\ k \in (1 - 1) .. Len(cs) /\ n \in k .. Len(cs)
      BY <1>3
    <3>2. SubSeq(cs, 1, k) \o SubSeq(cs, k + 1, n) = SubSeq(cs, 1, n)
      BY <1>1, <3>1, ConcatAdjacentSubSeq
    <3>3. QED
      BY <1>1, <1>3, <3>2, SubSeqFull
  <2>4. FlattenSeq(SubSeq(cs, 1, k)) \in Seq(Byte)
    BY <2>1, FlattenTyped DEF Bytes
  <2>5. L[k] \in Nat
    BY <1>4, <2>4
  <2>6. QED
    BY <1>2, <2>1, <2>2, <2>3, <2>5, FlattenConcat DEF Bytes
<1>6. L[0] = 0 /\ L[n] = Len(w)
  <2>1. SubSeq(cs, 1, 0) = <<>> /\ SubSeq(cs, 1, n) = cs
    BY <1>1, <1>3
  <2>2. 0 \in 0 .. n /\ n \in 0 .. n
    OBVIOUS
  <2>3. L[0] = Len(FlattenSeq(<<>>)) /\ L[n] = Len(FlattenSeq(cs))
    BY <1>4, <2>1, <2>2
  <2>4. QED
    BY <1>2, <2>3, FlattenEmpty
<1>7. ASSUME NEW k \in 1 .. n
      PROVE  /\ L[k] = L[k - 1] + Len(cs[k])
             /\ L[k] <= Len(w)
             /\ \A j \in 1 .. Len(cs[k]) : w[L[k - 1] + j] = cs[k][j]
  <2>1. PICK c \in Seq(Byte) : c = cs[k]
    BY <1>1, <1>3 DEF Bytes
  <2>2. PICK a \in Seq(Bytes) : a = SubSeq(cs, 1, k - 1)
    <3>1. k - 1 \in 0 .. n
      OBVIOUS
    <3>2. QED
      BY <1>5, <3>1
  <2>3. SubSeq(cs, 1, k) = Append(a, c)
    <3>1. 1 \in 1 .. Len(cs) /\ k \in 1 .. Len(cs)
      BY <1>3
    <3>2. SubSeq(cs, 1, k) = a \o <<c>>
      BY <1>1, <2>1, <2>2, <3>1, SubSeqRecursiveSecond
    <3>3. QED
      BY <2>1, <2>2, <3>2, AppendIsConcat DEF Bytes
  <2>4. PICK fa \in Seq(Byte) : fa = FlattenSeq(a)
    BY <2>2, FlattenTyped DEF Bytes
  <2>5. FlattenSeq(SubSeq(cs, 1, k)) = fa \o c
    BY <2>1, <2>2, <2>3, <2>4, FlattenAppend DEF Bytes
  <2>6. L[k - 1] = Len(fa) /\ L[k] = Len(fa \o c)
    <3>1. k - 1 \in 0 .. n /\ k \in 0 .. n
      OBVIOUS
    <3>2. QED
      BY <1>4, <2>2, <2>4, <2>5, <3>1
  <2>7. PICK b \in Seq(Byte) : b = FlattenSeq(SubSeq(cs, k + 1, n))
    <3>1. SubSeq(cs, k + 1, n) \in Seq(Bytes)
      BY <1>1, <1>3
    <3>2. QED
      BY <3>1, FlattenTyped DEF Bytes
  <2>8. w = (fa \o c) \o b
    <3>1. k \in 0 .. n
      OBVIOUS
    <3>2. w = FlattenSeq(SubSeq(cs, 1, k)) \o FlattenSeq(SubSeq(cs, k + 1, n))
      BY <1>5, <3>1
    <3>3. QED
      BY <2>5, <2>7, <3>2
  <2>9. L[k] = Len(fa) + Len(c) /\ Len(w) = Len(fa) + Len(c) + Len(b)
    BY <2>6, <2>8
  <2>10. \A j \in 1 .. Len(c) : w[Len(fa) + j] = c[j]
    BY <2>8
  <2>11. L[k] <= Len(w)
    <3>1. Len(fa) \in Nat /\ Len(c) \in Nat /\ Len(b) \in Nat
      OBVIOUS
    <3>2. QED
      BY <2>9, <3>1
  <2>12. L[k - 1] = Len(fa)
    BY <2>6
  <2>13. QED
    BY <2>1, <2>9, <2>10, <2>11, <2>12
<1>8. PICK u : Decodes(u, w, 1) /\ Decoded(w) = u[1]
  BY DecodedFold
<1> DEFINE S == {m \in Nat : m <= n => u[L[n - m] + 1] = SubSeq(cs, n - m + 1, n)}
<1>9. 0 \in S
  <2>1. n - 0 = n /\ SubSeq(cs, n + 1, n) = <<>>
    BY <1>1, <1>3
  <2>2. u[L[n] + 1] = <<>>
    BY <1>6, <1>8, DecodesAt
  <2>3. QED
    BY <2>1, <2>2
<1>10. ASSUME NEW m \in Nat, m \in S
       PROVE  m + 1 \in S
  <2>1. ASSUME m + 1 <= n
        PROVE  u[L[n - (m + 1)] + 1] = SubSeq(cs, n - (m + 1) + 1, n)
    <3>1. PICK k \in 1 .. n : k = n - m /\ k - 1 = n - (m + 1)
      BY <2>1
    <3>2. u[L[k] + 1] = SubSeq(cs, k + 1, n)
      BY <1>10, <2>1, <3>1
    <3>3. PICK p \in Nat : p = L[k - 1]
      <4>1. k - 1 \in 0 .. n
        OBVIOUS
      <4>2. QED
        BY <1>5, <4>1
    <3>4. PICK c \in Characters : c = cs[k]
      BY <1>3
    <3>5. Len(c) \in Nat /\ Len(c) >= 1
      BY DEF Characters, IsCharacter, Bytes
    <3>6. p + Len(c) = L[k] /\ p + Len(c) <= Len(w) /\ \A j \in 1 .. Len(c) : w[p + j] = c[j]
      BY <1>7, <3>3, <3>4
    <3>7. RunAt(w, p + 1) = Len(c) /\ CharAt(w, p + 1) = c
      BY <3>6, CharacterFound
    <3>8. p + 1 \in 1 .. Len(w)
      BY <3>5, <3>6 DEF Bytes
    <3>9. u[p + 1] = <<c>> \o u[(p + 1) + Len(c)]
      BY <1>8, <3>7, <3>8, DecodesAt
    <3>10. (p + 1) + Len(c) = L[k] + 1
      BY <3>5, <3>6
    <3>11. SubSeq(cs, k, n) = <<cs[k]>> \o SubSeq(cs, k + 1, n)
      BY <1>3, SubSeqRecursiveFirst
    <3>12. u[p + 1] = SubSeq(cs, k, n)
      BY <3>2, <3>4, <3>9, <3>10, <3>11
    <3>13. n - (m + 1) + 1 = k
      BY <3>1
    <3>14. QED
      BY <3>1, <3>3, <3>12, <3>13
  <2>2. QED
    BY <2>1
<1> HIDE DEF S
<1>11. n \in S
  BY <1>9, <1>10, InductionOnSets
<1>12. u[L[0] + 1] = SubSeq(cs, 1, n)
  <2>1. n - n = 0 /\ n - n + 1 = 1
    OBVIOUS
  <2>2. QED
    BY <1>11, <2>1 DEF S
<1>13. QED
  BY <1>1, <1>2, <1>3, <1>6, <1>8, <1>12

(* The same said byte by byte: a lead byte is followed by exactly the      *)
(* continuation bytes it announces.                                        *)
WellCoded(w) ==
  /\ w \in Bytes
  /\ Len(w) > 0 => ~Continues(w[1])
  /\ \A i \in 1 .. Len(w) : ~Continues(w[i]) =>
       /\ i + CharLen(w[i]) - 1 <= Len(w)
       /\ \A j \in 1 .. (CharLen(w[i]) - 1) : Continues(w[i + j])
       /\ i + CharLen(w[i]) <= Len(w) => ~Continues(w[i + CharLen(w[i])])

(* Between two characters, or at an end.                                   *)
Cut(w, b) == b \in 0 .. Len(w) /\ (b < Len(w) => ~Continues(w[b + 1]))

LEMMA SliceTyped ==
  ASSUME NEW T, NEW w \in Seq(T), NEW a \in 0 .. Len(w), NEW b \in a .. Len(w)
  PROVE  /\ SubSeq(w, a + 1, b) \in Seq(T)
         /\ Len(SubSeq(w, a + 1, b)) = b - a
         /\ \A i \in 1 .. (b - a) : SubSeq(w, a + 1, b)[i] = w[a + i]
<1>1. PICK m \in Nat : m = a + 1
  OBVIOUS
<1>2. PICK s : s = SubSeq(w, m, b)
  OBVIOUS
<1>3. \A i \in m .. b : w[i] \in T
  BY <1>1
<1>4. /\ s \in Seq(T) /\ Len(s) = IF m <= b THEN b - m + 1 ELSE 0
      /\ \A i \in 1 .. b - m + 1 : s[i] = w[m + i - 1]
  BY <1>2, <1>3, SubSeqProperties
<1>5. b - m + 1 = b - a /\ \A i \in 1 .. (b - a) : m + i - 1 = a + i
  BY <1>1
<1>6. Len(s) = b - a
  BY <1>1, <1>4
<1>7. \A i \in 1 .. (b - a) : s[i] = w[a + i]
  BY <1>4, <1>5
<1>8. QED
  BY <1>1, <1>2, <1>4, <1>6, <1>7

LEMMA WellCodedSlice ==
  ASSUME NEW w, WellCoded(w), NEW a, NEW b, Cut(w, a), Cut(w, b), a <= b
  PROVE  WellCoded(SubSeq(w, a + 1, b))
<1>1. w \in Seq(Byte) /\ a \in 0 .. Len(w) /\ b \in a .. Len(w)
  BY DEF Cut, WellCoded, Bytes
<1>2. PICK n \in Nat : n = b - a
  BY <1>1
<1>3. PICK s : s = SubSeq(w, a + 1, b)
  OBVIOUS
<1>4. s \in Seq(Byte) /\ Len(s) = n /\ \A i \in 1 .. n : s[i] = w[a + i]
  BY <1>1, <1>2, <1>3, SliceTyped
<1>5. Len(s) > 0 => ~Continues(s[1])
  <2>1. ASSUME n > 0 PROVE ~Continues(s[1])
    <3>1. 1 \in 1 .. n /\ a < Len(w)
      BY <1>1, <1>2, <2>1
    <3>2. QED
      BY <1>4, <3>1 DEF Cut
  <2>2. QED
    BY <1>4, <2>1
<1>6. ASSUME NEW i \in 1 .. n, ~Continues(s[i])
      PROVE  /\ i + CharLen(s[i]) - 1 <= n
             /\ \A j \in 1 .. (CharLen(s[i]) - 1) : Continues(s[i + j])
             /\ i + CharLen(s[i]) <= n => ~Continues(s[i + CharLen(s[i])])
  <2>1. PICK k \in 1 .. Len(w) : k = a + i /\ k <= b
    BY <1>1, <1>2
  <2>2. s[i] = w[k] /\ w[k] \in Byte
    BY <1>1, <1>4, <2>1
  <2>3. PICK m \in 1 .. 4 : m = CharLen(w[k])
    BY <2>2, CharLenRange
  <2>4. /\ k + m - 1 <= Len(w)
        /\ \A j \in 1 .. (m - 1) : Continues(w[k + j])
        /\ k + m <= Len(w) => ~Continues(w[k + m])
    BY <1>6, <2>2, <2>3 DEF WellCoded
  <2>5. k + m - 1 <= b
    <3>1. ASSUME b < k + m - 1 PROVE FALSE
      <4>1. PICK j \in 1 .. (m - 1) : k + j = b + 1
        <5>1. b + 1 - k \in 1 .. (m - 1) /\ k + (b + 1 - k) = b + 1
          BY <1>1, <2>1, <2>3, <3>1
        <5>2. QED
          BY <5>1
      <4>2. Continues(w[b + 1])
        BY <2>4, <4>1
      <4>3. b < Len(w)
        BY <1>1, <2>1, <2>4, <3>1
      <4>4. QED
        BY <4>2, <4>3 DEF Cut
    <3>2. QED
      BY <1>1, <2>1, <2>3, <3>1
  <2>6. i + m - 1 <= n
    BY <1>1, <1>2, <2>1, <2>3, <2>5
  <2>7. ASSUME NEW j \in 1 .. (m - 1)
        PROVE  Continues(s[i + j])
    <3>1. i + j \in 1 .. n /\ a + (i + j) = k + j
      BY <1>1, <1>2, <2>1, <2>3, <2>6
    <3>2. QED
      BY <1>4, <2>4, <3>1
  <2>8. ASSUME i + m <= n
        PROVE  ~Continues(s[i + m])
    <3>1. i + m \in 1 .. n /\ a + (i + m) = k + m /\ k + m <= Len(w)
      BY <1>1, <1>2, <2>1, <2>3, <2>8
    <3>2. QED
      BY <1>4, <2>4, <3>1
  <2>9. QED
    BY <2>2, <2>3, <2>6, <2>7, <2>8
<1>7. QED
  BY <1>3, <1>4, <1>5, <1>6 DEF WellCoded, Bytes

LEMMA WellCodedConcat ==
  ASSUME NEW v, WellCoded(v), NEW w, WellCoded(w)
  PROVE  WellCoded(v \o w) /\ Cut(v \o w, Len(v))
<1>1. v \in Seq(Byte) /\ w \in Seq(Byte)
  BY DEF WellCoded, Bytes
<1>2. PICK a \in Nat : a = Len(v)
  BY <1>1
<1>3. PICK b \in Nat : b = Len(w)
  BY <1>1
<1>4. PICK s : s = v \o w
  OBVIOUS
<1>5. /\ s \in Seq(Byte) /\ Len(s) = a + b
      /\ \A i \in 1 .. a : s[i] = v[i]
      /\ \A i \in 1 .. b : s[a + i] = w[i]
  BY <1>1, <1>2, <1>3, <1>4
<1>6. Cut(s, a)
  <2>1. ASSUME a < a + b PROVE ~Continues(s[a + 1])
    <3>1. 1 \in 1 .. b /\ b > 0
      BY <2>1
    <3>2. QED
      BY <1>3, <1>5, <3>1 DEF WellCoded
  <2>2. QED
    BY <1>5, <2>1 DEF Cut
<1>7. Len(s) > 0 => ~Continues(s[1])
  <2>1. CASE a > 0
    <3>1. 1 \in 1 .. a
      BY <2>1
    <3>2. QED
      BY <1>2, <1>5, <2>1, <3>1 DEF WellCoded
  <2>2. CASE a = 0
    <3>1. a + 1 = 1 /\ (Len(s) > 0 => a < Len(s))
      BY <1>5, <2>2
    <3>2. QED
      BY <1>6, <3>1 DEF Cut
  <2>3. QED
    BY <2>1, <2>2
<1>8. ASSUME NEW i \in 1 .. (a + b), ~Continues(s[i])
      PROVE  /\ i + CharLen(s[i]) - 1 <= a + b
             /\ \A j \in 1 .. (CharLen(s[i]) - 1) : Continues(s[i + j])
             /\ i + CharLen(s[i]) <= a + b => ~Continues(s[i + CharLen(s[i])])
  <2>1. PICK m \in 1 .. 4 : m = CharLen(s[i])
    BY <1>5, CharLenRange
  <2>2. CASE i <= a
    <3>1. i \in 1 .. a /\ s[i] = v[i]
      BY <1>5, <2>2
    <3>2. /\ i + m - 1 <= a
          /\ \A j \in 1 .. (m - 1) : Continues(v[i + j])
          /\ i + m <= a => ~Continues(v[i + m])
      BY <1>2, <1>8, <2>1, <3>1 DEF WellCoded
    <3>3. ASSUME NEW j \in 1 .. (m - 1)
          PROVE  Continues(s[i + j])
      <4>1. i + j \in 1 .. a
        BY <2>1, <3>2
      <4>2. QED
        BY <1>5, <3>2, <4>1
    <3>4. ASSUME i + m <= a + b
          PROVE  ~Continues(s[i + m])
      <4>1. CASE i + m <= a
        <5>1. i + m \in 1 .. a
          BY <2>1, <4>1
        <5>2. QED
          BY <1>5, <3>2, <4>1, <5>1
      <4>2. CASE i + m > a
        <5>1. i + m = a + 1 /\ a < a + b
          BY <3>2, <3>4, <4>2
        <5>2. QED
          BY <1>5, <1>6, <5>1 DEF Cut
      <4>3. QED
        BY <4>1, <4>2
    <3>5. i + m - 1 <= a + b
      BY <3>2
    <3>6. QED
      BY <2>1, <3>3, <3>4, <3>5
  <2>3. CASE i > a
    <3>1. PICK k \in 1 .. b : a + k = i
      <4>1. i - a \in 1 .. b /\ a + (i - a) = i
        BY <2>3
      <4>2. QED
        BY <4>1
    <3>2. s[i] = w[k]
      BY <1>5, <3>1
    <3>3. /\ k + m - 1 <= b
          /\ \A j \in 1 .. (m - 1) : Continues(w[k + j])
          /\ k + m <= b => ~Continues(w[k + m])
      BY <1>3, <1>8, <2>1, <3>2 DEF WellCoded
    <3>4. ASSUME NEW j \in 1 .. (m - 1)
          PROVE  Continues(s[i + j])
      <4>1. k + j \in 1 .. b /\ a + (k + j) = i + j
        BY <2>1, <3>1, <3>3
      <4>2. QED
        BY <1>5, <3>3, <4>1
    <3>5. ASSUME i + m <= a + b
          PROVE  ~Continues(s[i + m])
      <4>1. k + m \in 1 .. b /\ a + (k + m) = i + m
        BY <2>1, <3>1, <3>5
      <4>2. QED
        BY <1>5, <3>3, <4>1
    <3>6. i + m - 1 <= a + b
      BY <3>1, <3>3
    <3>7. QED
      BY <2>1, <3>4, <3>5, <3>6
  <2>4. QED
    BY <2>2, <2>3
<1>9. WellCoded(s)
  BY <1>5, <1>7, <1>8 DEF WellCoded, Bytes
<1>10. QED
  BY <1>2, <1>4, <1>6, <1>9

LEMMA WellCodedCharacter ==
  ASSUME NEW c \in Characters
  PROVE  WellCoded(c)
<1>1. PICK n \in 1 .. 4 : n = Len(c)
  BY DEF Characters, IsCharacter
<1>2. c \in Bytes /\ ~Continues(c[1]) /\ CharLen(c[1]) = n /\ \A j \in 2 .. n : Continues(c[j])
  BY <1>1 DEF Characters, IsCharacter
<1>3. ASSUME NEW i \in 1 .. n, ~Continues(c[i])
      PROVE  i = 1
  BY <1>2, <1>3
<1>4. 1 + n - 1 <= n /\ ~(1 + n <= n)
  BY <1>1
<1>5. \A j \in 1 .. (n - 1) : Continues(c[1 + j])
  <2>1. \A j \in 1 .. (n - 1) : 1 + j \in 2 .. n
    BY <1>1
  <2>2. QED
    BY <1>2, <2>1
<1>6. QED
  BY <1>1, <1>2, <1>3, <1>4, <1>5 DEF WellCoded

LEMMA WellCodedEmpty == WellCoded(<<>>)
  BY DEF WellCoded, Bytes

LEMMA WellCodedFlatten ==
  ASSUME NEW cs \in Seq(Characters)
  PROVE  WellCoded(FlattenSeq(cs))
<1> DEFINE S == {s \in Seq(Characters) : WellCoded(FlattenSeq(s))}
<1>1. <<>> \in S
  BY FlattenEmpty, WellCodedEmpty
<1>2. ASSUME NEW s \in Seq(Characters), NEW c \in Characters, s \in S
      PROVE  Append(s, c) \in S
  <2>1. s \in Seq(Seq(Byte)) /\ c \in Seq(Byte)
    BY CharactersAreBytes DEF String, Bytes, Characters
  <2>2. FlattenSeq(Append(s, c)) = FlattenSeq(s) \o c
    BY <2>1, FlattenAppend
  <2>3. Append(s, c) \in Seq(Characters)
    OBVIOUS
  <2>4. QED
    BY <1>2, <2>2, <2>3, WellCodedCharacter, WellCodedConcat
<1> HIDE DEF S
<1>3. cs \in S
  BY <1>1, <1>2, InductionOnSequences
<1>4. QED
  BY <1>3 DEF S

LEMMA WellCodedSplits ==
  ASSUME NEW w, WellCoded(w)
  PROVE  \E cs \in Seq(Characters) : w = FlattenSeq(cs)
<1> DEFINE S == {n \in Nat : \A v \in Bytes : Len(v) <= n /\ WellCoded(v) =>
                   \E cs \in Seq(Characters) : v = FlattenSeq(cs)}
<1>1. 0 \in S
  <2>1. \A v \in Bytes : Len(v) <= 0 => v = <<>>
    BY EmptySeq DEF Bytes
  <2>2. <<>> \in Seq(Characters)
    OBVIOUS
  <2>3. QED
    BY <2>1, <2>2, FlattenEmpty
<1>2. ASSUME NEW n \in Nat, n \in S
      PROVE  n + 1 \in S
  <2>1. ASSUME NEW v \in Bytes, Len(v) <= n + 1, WellCoded(v)
        PROVE  \E cs \in Seq(Characters) : v = FlattenSeq(cs)
    <3>1. CASE Len(v) <= n
      BY <1>2, <2>1, <3>1
    <3>2. CASE Len(v) = n + 1
      <4>1. PICK l \in Nat : l = Len(v) /\ l = n + 1
        BY <3>2
      <4>2. v \in Seq(Byte) /\ 1 \in 1 .. l /\ ~Continues(v[1])
        BY <2>1, <4>1 DEF WellCoded, Bytes
      <4>3. PICK m \in 1 .. 4 : m = CharLen(v[1])
        <5>1. v[1] \in Byte
          BY <4>1, <4>2, ElementOfSeq
        <5>2. QED
          BY <5>1, CharLenRange
      <4>4. /\ m <= l /\ \A j \in 1 .. (m - 1) : Continues(v[1 + j])
            /\ 1 + m <= l => ~Continues(v[1 + m])
        BY <2>1, <4>1, <4>2, <4>3 DEF WellCoded
      <4>5. Cut(v, 0) /\ Cut(v, m) /\ Cut(v, l)
        BY <4>1, <4>2, <4>3, <4>4 DEF Cut
      <4>6. PICK c : c = SubSeq(v, 0 + 1, m)
        OBVIOUS
      <4>7. c \in Seq(Byte) /\ Len(c) = m /\ \A i \in 1 .. m : c[i] = v[i]
        <5>1. 0 \in 0 .. Len(v) /\ m \in 0 .. Len(v) /\ m - 0 = m /\ \A i \in 1 .. m : 0 + i = i
          BY <4>1, <4>3, <4>4
        <5>2. QED
          BY <4>2, <4>6, <5>1, SliceTyped
      <4>8. c \in Characters
        <5>1. \A j \in 2 .. m : Continues(c[j])
          <6>1. ASSUME NEW j \in 2 .. m
                PROVE  Continues(c[j])
            <7>1. PICK k \in 1 .. (m - 1) : 1 + k = j
              <8>1. j - 1 \in 1 .. (m - 1) /\ 1 + (j - 1) = j
                OBVIOUS
              <8>2. QED
                BY <8>1
            <7>2. Continues(v[1 + k]) /\ j \in 1 .. m
              BY <4>4, <7>1
            <7>3. QED
              BY <4>7, <7>1, <7>2
          <6>2. QED
            BY <6>1
        <5>2. c[1] = v[1]
          BY <4>3, <4>7
        <5>3. QED
          BY <4>2, <4>3, <4>7, <5>1, <5>2 DEF Characters, IsCharacter, Bytes
      <4>9. PICK r : r = SubSeq(v, m + 1, l)
        OBVIOUS
      <4>10. r \in Seq(Byte) /\ Len(r) = l - m
        <5>1. m \in 0 .. Len(v) /\ l \in m .. Len(v)
          BY <4>1, <4>3, <4>4
        <5>2. QED
          BY <4>2, <4>9, <5>1, SliceTyped
      <4>11. WellCoded(r)
        BY <2>1, <4>4, <4>5, <4>9, WellCodedSlice
      <4>12. Len(r) <= n /\ r \in Bytes
        BY <4>1, <4>3, <4>4, <4>10 DEF Bytes
      <4>13. PICK cs \in Seq(Characters) : r = FlattenSeq(cs)
        BY <1>2, <4>11, <4>12
      <4>14. v = c \o r
        <5>1. 1 \in 1 .. Len(v) + 1 /\ m \in (1 - 1) .. Len(v) /\ l \in m .. Len(v)
          BY <4>1, <4>3, <4>4
        <5>2. SubSeq(v, 1, m) \o SubSeq(v, m + 1, l) = SubSeq(v, 1, l)
          BY <4>2, <5>1, ConcatAdjacentSubSeq
        <5>3. SubSeq(v, 1, l) = v
          BY <4>1, <4>2, SubSeqFull
        <5>4. 0 + 1 = 1
          OBVIOUS
        <5>5. QED
          BY <4>6, <4>9, <5>2, <5>3, <5>4
      <4>15. FlattenSeq(<<c>> \o cs) = c \o r
        <5>1. cs \in Seq(Seq(Byte)) /\ <<c>> \in Seq(Seq(Byte))
          BY <4>7, CharactersAreBytes DEF String, Bytes
        <5>2. FlattenSeq(<<c>> \o cs) = FlattenSeq(<<c>>) \o FlattenSeq(cs)
          BY <5>1, FlattenConcat
        <5>3. QED
          BY <4>7, <4>13, <5>2, FlattenOne
      <4>16. <<c>> \o cs \in Seq(Characters)
        BY <4>8
      <4>17. QED
        BY <4>14, <4>15, <4>16
    <3>3. QED
      BY <1>2, <2>1, <3>1, <3>2 DEF Bytes
  <2>2. QED
    BY <2>1
<1> HIDE DEF S
<1>3. w \in Bytes /\ Len(w) \in Nat
  BY DEF WellCoded, Bytes
<1>4. Len(w) \in S
  BY <1>1, <1>2, <1>3, InductionOnSets
<1>5. QED
  BY <1>3, <1>4 DEF S

(* Decoding well-formed bytes loses nothing.                               *)
LEMMA DecodeInverse ==
  ASSUME NEW w, WellCoded(w)
  PROVE  Decoded(w) \in Seq(Characters) /\ FlattenSeq(Decoded(w)) = w
<1>1. PICK cs \in Seq(Characters) : w = FlattenSeq(cs)
  BY WellCodedSplits
<1>2. Decoded(w) = cs
  BY <1>1, DecodeFlatten
<1>3. QED
  BY <1>1, <1>2

(* Bytes cut between two characters may be decoded in two pieces.          *)
LEMMA DecodeConcat ==
  ASSUME NEW v, WellCoded(v), NEW w, WellCoded(w)
  PROVE  Decoded(v \o w) = Decoded(v) \o Decoded(w)
<1>1. PICK cs \in Seq(Characters) : v = FlattenSeq(cs) /\ Decoded(v) = cs
  BY WellCodedSplits, DecodeFlatten
<1>2. PICK ds \in Seq(Characters) : w = FlattenSeq(ds) /\ Decoded(w) = ds
  BY WellCodedSplits, DecodeFlatten
<1>3. cs \in Seq(Seq(Byte)) /\ ds \in Seq(Seq(Byte))
  BY CharactersAreBytes DEF String, Bytes
<1>4. FlattenSeq(cs \o ds) = v \o w
  BY <1>1, <1>2, <1>3, FlattenConcat
<1>5. cs \o ds \in Seq(Characters)
  OBVIOUS
<1>6. Decoded(FlattenSeq(cs \o ds)) = cs \o ds
  BY <1>5, DecodeFlatten
<1>7. QED
  BY <1>1, <1>2, <1>4, <1>6

(* A newline is a character of its own.                                    *)
LEMMA NewlineAlone ==
  ASSUME NEW c \in Characters, NEW j \in 1 .. Len(c), c[j] = NL
  PROVE  c = <<NL>>
<1>1. PICK n \in 1 .. 4 : n = Len(c)
  BY DEF Characters, IsCharacter
<1>2. c \in Seq(Byte) /\ CharLen(c[1]) = n /\ \A i \in 2 .. n : Continues(c[i])
  BY <1>1 DEF Characters, IsCharacter, Bytes
<1>3. ~Continues(NL) /\ CharLen(NL) = 1
  BY DEF Continues, NL, CharLen
<1>4. j = 1
  BY <1>1, <1>2, <1>3
<1>5. n = 1
  BY <1>2, <1>3, <1>4
<1>6. NL \in Byte
  BY DEF NL, Byte
<1>7. <<NL>> \in Seq(Byte) /\ Len(<<NL>>) = 1 /\ <<NL>>[1] = NL
  BY <1>6
<1>8. Len(c) = 1 /\ c[1] = NL
  BY <1>1, <1>4, <1>5
<1>9. QED
  BY <1>2, <1>7, <1>8, SeqEqual

LEMMA DecodeNewline ==
  ASSUME NEW w, WellCoded(w), NEW n \in Nat, Len(w) = n + 1, w[n + 1] = NL
  PROVE  \E s \in Seq(Characters) : Decoded(w) = Append(s, <<NL>>)
<1>1. PICK cs \in Seq(Characters) : w = FlattenSeq(cs) /\ Decoded(w) = cs
  BY WellCodedSplits, DecodeFlatten
<1>2. cs # <<>>
  <2>1. FlattenSeq(<<>>) = <<>> /\ Len(<<>>) = 0
    BY FlattenEmpty
  <2>2. QED
    BY <1>1, <2>1
<1>3. PICK s \in Seq(Characters), c \in Characters : cs = Append(s, c)
  BY <1>2, SequenceEmptyOrAppend
<1>4. s \in Seq(Seq(Byte)) /\ c \in Seq(Byte)
  BY CharactersAreBytes DEF String, Bytes, Characters
<1>5. PICK f \in Seq(Byte) : f = FlattenSeq(s)
  BY <1>4, FlattenTyped
<1>6. w = f \o c
  BY <1>1, <1>3, <1>4, <1>5, FlattenAppend
<1>7. PICK m \in 1 .. 4 : m = Len(c)
  BY DEF Characters, IsCharacter
<1>8. n + 1 = Len(f) + m /\ w[Len(f) + m] = c[m]
  BY <1>4, <1>6, <1>7
<1>9. c = <<NL>>
  BY <1>7, <1>8, NewlineAlone
<1>10. QED
  BY <1>1, <1>3, <1>9

-----------------------------------------------------------------------------
(*                            Counting newlines                            *)

Newlines(bytes) == {i \in 1 .. Len(bytes) : bytes[i] = NL}
Breaks(string) == {i \in 1 .. Len(string) : string[i] = <<NL>>}

LEMMA CountOneMore ==
  ASSUME NEW n \in Nat, NEW S, S \subseteq 1 .. n, NEW m \in Nat, m > n,
         NEW Q \in BOOLEAN
  PROVE  /\ IsFiniteSet(S) /\ Cardinality(S) \in Nat
         /\ Cardinality(S \cup (IF Q THEN {m} ELSE {})) = Cardinality(S) + (IF Q THEN 1 ELSE 0)
<1>1. IsFiniteSet(S)
  <2>1. IsFiniteSet(1 .. n) /\ S \in SUBSET (1 .. n)
    BY FS_Interval
  <2>2. QED
    BY <2>1, FS_Subset
<1>2. Cardinality(S) \in Nat
  BY <1>1, FS_CardinalityType
<1>3. m \notin S
  OBVIOUS
<1>4. CASE Q
  BY <1>1, <1>2, <1>3, <1>4, FS_AddElement
<1>5. CASE ~Q
  <2>1. S \cup {} = S
    OBVIOUS
  <2>2. QED
    BY <1>1, <1>2, <1>5, <2>1
<1>6. QED
  BY <1>4, <1>5

LEMMA BreaksAppend ==
  ASSUME NEW T, NEW s \in Seq(T), NEW c \in T, NEW n \in Nat, n = Len(s),
         NEW q \in BOOLEAN, q <=> c = <<NL>>
  PROVE  Breaks(Append(s, c)) = Breaks(s) \cup (IF q THEN {n + 1} ELSE {})
<1>1. PICK t : t = Append(s, c)
  OBVIOUS
<1>2. Len(t) = n + 1 /\ t[n + 1] = c /\ \A i \in 1 .. n : t[i] = s[i]
  BY <1>1, AppendProperties
<1>3. ASSUME NEW i \in 1 .. (n + 1)
      PROVE  t[i] = <<NL>> <=> (i \in 1 .. n /\ s[i] = <<NL>>) \/ (i = n + 1 /\ q)
  <2>1. CASE i = n + 1
    <3>1. t[i] = c /\ i \notin 1 .. n
      BY <1>2, <2>1
    <3>2. QED
      BY <2>1, <3>1
  <2>2. CASE i # n + 1
    <3>1. i \in 1 .. n
      BY <2>2
    <3>2. QED
      BY <1>2, <2>2, <3>1
  <2>3. QED
    BY <2>1, <2>2
<1>4. QED
  BY <1>1, <1>2, <1>3 DEF Breaks

LEMMA DecodedBreaks ==
  ASSUME NEW w, WellCoded(w)
  PROVE  Cardinality(Breaks(Decoded(w))) = Cardinality(Newlines(w))
<1> DEFINE S == {s \in Seq(Characters) :
                   Cardinality(Breaks(s)) = Cardinality(Newlines(FlattenSeq(s)))}
<1>1. <<>> \in S
  <2>1. Breaks(<<>>) = {} /\ Newlines(<<>>) = {} /\ <<>> \in Seq(Characters)
    BY DEF Breaks, Newlines
  <2>2. QED
    BY <2>1, FlattenEmpty
<1>2. ASSUME NEW s \in Seq(Characters), NEW c \in Characters, s \in S
      PROVE  Append(s, c) \in S
  <2>1. s \in Seq(Seq(Byte)) /\ c \in Seq(Byte)
    BY CharactersAreBytes DEF String, Bytes, Characters
  <2>2. PICK f \in Seq(Byte) : f = FlattenSeq(s)
    BY <2>1, FlattenTyped
  <2>3. FlattenSeq(Append(s, c)) = f \o c
    BY <2>1, <2>2, FlattenAppend
  <2>4. PICK n \in Nat : n = Len(s)
    OBVIOUS
  <2>5. PICK k \in Nat : k = Len(f)
    OBVIOUS
  <2>0. PICK q \in BOOLEAN : q <=> c = <<NL>>
    OBVIOUS
  <2>6. Breaks(Append(s, c)) = Breaks(s) \cup (IF q THEN {n + 1} ELSE {})
    BY <2>0, <2>4, BreaksAppend
  <2>7. Newlines(f \o c) = Newlines(f) \cup (IF q THEN {k + 1} ELSE {})
    <3>1. PICK m \in 1 .. 4 : m = Len(c)
      BY DEF Characters, IsCharacter
    <3>2. PICK t : t = f \o c
      OBVIOUS
    <3>3. /\ Len(t) = k + m
          /\ \A i \in 1 .. k : t[i] = f[i]
          /\ \A j \in 1 .. m : t[k + j] = c[j]
      BY <2>1, <2>5, <3>1, <3>2
    <3>4. CASE c = <<NL>>
      <4>1. m = 1 /\ c[1] = NL
        BY <3>1, <3>4
      <4>2. t[k + 1] = NL /\ Len(t) = k + 1
        BY <3>3, <4>1
      <4>3. \A i \in 1 .. (k + 1) : i \in 1 .. k \/ i = k + 1
        OBVIOUS
      <4>4. QED
        BY <2>0, <2>5, <3>2, <3>3, <3>4, <4>2, <4>3 DEF Newlines
    <3>5. CASE c # <<NL>>
      <4>1. \A j \in 1 .. m : c[j] # NL
        BY <3>1, <3>5, NewlineAlone
      <4>2. \A i \in 1 .. (k + m) : i \in 1 .. k \/ \E j \in 1 .. m : i = k + j
        <5>1. ASSUME NEW i \in 1 .. (k + m), i \notin 1 .. k
              PROVE  \E j \in 1 .. m : i = k + j
          <6>1. i - k \in 1 .. m /\ i = k + (i - k)
            BY <5>1
          <6>2. QED
            BY <6>1
        <5>2. QED
          BY <5>1
      <4>3. \A i \in 1 .. (k + m) : t[i] = NL => i \in 1 .. k
        <5>1. ASSUME NEW i \in 1 .. (k + m), t[i] = NL, i \notin 1 .. k
              PROVE  FALSE
          <6>1. PICK j \in 1 .. m : i = k + j
            BY <4>2, <5>1
          <6>2. t[i] = c[j]
            BY <3>3, <6>1
          <6>3. QED
            BY <4>1, <5>1, <6>2
        <5>2. QED
          BY <5>1
      <4>4. Newlines(t) = Newlines(f)
        BY <2>5, <3>1, <3>3, <4>3 DEF Newlines
      <4>5. QED
        BY <2>0, <3>2, <3>5, <4>4
    <3>6. QED
      BY <3>4, <3>5
  <2>8. Breaks(s) \subseteq 1 .. n /\ Newlines(f) \subseteq 1 .. k
    BY <2>4, <2>5 DEF Breaks, Newlines
  <2>9. Cardinality(Breaks(Append(s, c))) = Cardinality(Breaks(s)) + (IF q THEN 1 ELSE 0)
    <3>1. PICK A : A = Breaks(s)
      OBVIOUS
    <3>2. A \subseteq 1 .. n /\ n + 1 \in Nat /\ n + 1 > n
      BY <2>8, <3>1
    <3>3. Cardinality(A \cup (IF q THEN {n + 1} ELSE {})) = Cardinality(A) + (IF q THEN 1 ELSE 0)
      BY <3>2, CountOneMore
    <3>4. QED
      BY <2>6, <3>1, <3>3
  <2>10. Cardinality(Newlines(f \o c)) = Cardinality(Newlines(f)) + (IF q THEN 1 ELSE 0)
    <3>1. PICK A : A = Newlines(f)
      OBVIOUS
    <3>2. A \subseteq 1 .. k /\ k + 1 \in Nat /\ k + 1 > k
      BY <2>8, <3>1
    <3>3. Cardinality(A \cup (IF q THEN {k + 1} ELSE {})) = Cardinality(A) + (IF q THEN 1 ELSE 0)
      BY <3>2, CountOneMore
    <3>4. QED
      BY <2>7, <3>1, <3>3
  <2>11. Append(s, c) \in Seq(Characters)
    OBVIOUS
  <2>12. QED
    BY <1>2, <2>2, <2>3, <2>9, <2>10, <2>11
<1> HIDE DEF S
<1>3. \A s \in Seq(Characters) : s \in S
  BY <1>1, <1>2, InductionOnSequences
<1>4. QED
  BY <1>3, DecodeInverse DEF S

-----------------------------------------------------------------------------
(*                           The last newline                              *)

LastNewline(w, h) ==
  /\ h \in 0 .. Len(w)
  /\ h > 0 => w[h] = NL
  /\ \A j \in 1 .. Len(w) : w[j] = NL => j <= h

LEMMA LastNewlineExists ==
  ASSUME NEW w \in Bytes
  PROVE  \E h : LastNewline(w, h)
<1>1. PICK n \in Nat : n = Len(w)
  BY DEF Bytes
<1> DEFINE S == {k \in Nat : k <= n /\ (k < n => w[n - k] = NL)}
<1>2. n \in S
  OBVIOUS
<1>3. PICK k \in S : \A y \in S : k <= y
  <2>1. S \subseteq Nat /\ S # {}
    BY <1>2
  <2> HIDE DEF S
  <2>2. QED
    BY <2>1, LeastNumber
<1>4. LastNewline(w, n - k)
  <2>1. n - k \in 0 .. n
    OBVIOUS
  <2>2. n - k > 0 => w[n - k] = NL
    OBVIOUS
  <2>3. ASSUME NEW j \in 1 .. n, w[j] = NL
        PROVE  j <= n - k
    <3>1. PICK y \in Nat : y = n - j /\ n - y = j
      OBVIOUS
    <3>2. y \in S
      BY <2>3, <3>1
    <3>3. k <= y
      BY <1>3, <3>2
    <3>4. QED
      BY <3>1, <3>3
  <2>4. QED
    BY <1>1, <2>1, <2>2, <2>3 DEF LastNewline
<1>5. QED
  BY <1>4

(* HeadEnd finds it.                                                       *)
LEMMA HeadEndIs ==
  ASSUME NEW w \in Bytes, NEW h
  PROVE  LastNewline(w, h) <=> h = HeadEnd(w)
<1>1. PICK n \in Nat : n = Len(w)
  BY DEF Bytes
<1>2. ASSUME NEW k, LastNewline(w, k)
      PROVE  k = HeadEnd(w)
  <2>1. k \in 0 .. n
    BY <1>1, <1>2 DEF LastNewline
  <2>2. {i \in 1 .. n : \E j \in i .. n : w[j] = NL} = 1 .. k
    <3>1. ASSUME NEW i \in 1 .. n, NEW j \in i .. n, w[j] = NL
          PROVE  i \in 1 .. k
      <4>1. j \in 1 .. n
        OBVIOUS
      <4>2. j <= k
        BY <1>1, <1>2, <3>1, <4>1 DEF LastNewline
      <4>3. QED
        BY <2>1, <4>2
    <3>2. ASSUME NEW i \in 1 .. k
          PROVE  i \in 1 .. n /\ \E j \in i .. n : w[j] = NL
      <4>1. k \in i .. n /\ k > 0 /\ i \in 1 .. n
        BY <2>1
      <4>2. w[k] = NL
        BY <1>2, <4>1 DEF LastNewline
      <4>3. QED
        BY <4>1, <4>2
    <3>3. QED
      BY <3>1, <3>2
  <2>3. Cardinality(1 .. k) = k
    BY <2>1, FS_Interval
  <2>4. QED
    BY <1>1, <2>2, <2>3 DEF HeadEnd
<1>3. QED
  BY <1>2, LastNewlineExists

-----------------------------------------------------------------------------
(*                          Splitting into lines                           *)

Pieces(T) == {p \in Seq(Seq(T)) : Len(p) > 0}

LEMMA PutCharTyped ==
  ASSUME NEW T, NEW p \in Pieces(T), NEW c \in T
  PROVE  /\ PutChar(p, c) \in Pieces(T)
         /\ Len(PutChar(p, c)) = Len(p) + (IF c = <<NL>> THEN 1 ELSE 0)
<1>1. PICK V : V = Seq(T)
  OBVIOUS
<1>2. p \in Seq(V) /\ Len(p) > 0 /\ <<>> \in V
  BY <1>1 DEF Pieces
<1>3. CASE c = <<NL>>
  BY <1>1, <1>2, <1>3, AppendProperties DEF PutChar, Pieces
<1>4. CASE c # <<NL>>
  <2>1. Len(p) \in 1 .. Len(p) /\ p[Len(p)] \in V
    BY <1>2
  <2>2. Append(p[Len(p)], c) \in V
    BY <1>1, <2>1
  <2>3. PutChar(p, c) = [p EXCEPT ![Len(p)] = Append(p[Len(p)], c)]
    BY <1>4 DEF PutChar
  <2>4. PutChar(p, c) \in Seq(V) /\ Len(PutChar(p, c)) = Len(p)
    BY <1>2, <2>1, <2>2, <2>3, ExceptSeq
  <2>5. QED
    BY <1>1, <1>2, <1>4, <2>4 DEF Pieces
<1>5. QED
  BY <1>3, <1>4

(* A character goes to the last piece, whatever stands before it.          *)
LEMMA PutCharConcat ==
  ASSUME NEW T, NEW a \in Seq(Seq(T)), NEW p \in Pieces(T), NEW c \in T
  PROVE  PutChar(a \o p, c) = a \o PutChar(p, c)
<1>1. PICK V : V = Seq(T)
  OBVIOUS
<1>2. a \in Seq(V) /\ p \in Seq(V) /\ Len(p) > 0 /\ <<>> \in V
  BY <1>1 DEF Pieces
<1>3. CASE c = <<NL>>
  <2>1. PICK e \in V : e = <<>>
    BY <1>2
  <2>2. Append(a \o p, e) = a \o Append(p, e)
    <3>1. <<e>> \in Seq(V) /\ a \o p \in Seq(V)
      BY <1>2
    <3>2. Append(a \o p, e) = (a \o p) \o <<e>> /\ Append(p, e) = p \o <<e>>
      BY <1>2, <3>1, AppendIsConcat
    <3>3. QED
      BY <1>2, <3>1, <3>2, ConcatAssociative
  <2>3. QED
    BY <1>3, <2>1, <2>2 DEF PutChar
<1>4. CASE c # <<NL>>
  <2>1. PICK m \in Nat : m = Len(a)
    BY <1>2
  <2>2. PICK n \in Nat : n = Len(p) /\ n > 0
    BY <1>2
  <2>3. n \in 1 .. n /\ p[n] \in V
    BY <1>2, <2>2
  <2>4. PICK x \in V : x = Append(p[n], c)
    BY <1>1, <2>3, AppendProperties
  <2>5. PICK q : q = [p EXCEPT ![n] = x]
    OBVIOUS
  <2>6. q \in Seq(V) /\ Len(q) = n /\ \A j \in 1 .. n : q[j] = IF j = n THEN x ELSE p[j]
    BY <1>2, <2>2, <2>3, <2>5, ExceptSeq
  <2>7. PICK r : r = a \o p
    OBVIOUS
  <2>8. /\ r \in Seq(V) /\ Len(r) = m + n
        /\ \A i \in 1 .. m + n : r[i] = IF i <= m THEN a[i] ELSE p[i - m]
    BY <1>2, <2>1, <2>2, <2>7, ConcatProperties
  <2>9. r[m + n] = p[n] /\ m + n \in 1 .. (m + n)
    BY <2>2, <2>8
  <2>10. PICK t : t = [r EXCEPT ![m + n] = x]
    OBVIOUS
  <2>11. /\ t \in Seq(V) /\ Len(t) = m + n
         /\ \A i \in 1 .. m + n : t[i] = IF i = m + n THEN x ELSE r[i]
    BY <2>8, <2>9, <2>10, ExceptSeq
  <2>12. PICK z : z = a \o q
    OBVIOUS
  <2>13. /\ z \in Seq(V) /\ Len(z) = m + n
         /\ \A i \in 1 .. m + n : z[i] = IF i <= m THEN a[i] ELSE q[i - m]
    BY <1>2, <2>1, <2>6, <2>12, ConcatProperties
  <2>14. \A i \in 1 .. m + n : t[i] = z[i]
    <3>1. ASSUME NEW i \in 1 .. m + n
          PROVE  t[i] = z[i]
      <4>1. CASE i <= m
        BY <2>2, <2>8, <2>11, <2>13, <4>1
      <4>2. CASE i > m
        <5>1. PICK j \in 1 .. n : j = i - m /\ (j = n <=> i = m + n)
          BY <4>2
        <5>2. r[i] = p[j] /\ z[i] = q[j]
          BY <2>8, <2>13, <4>2, <5>1
        <5>3. QED
          BY <2>6, <2>11, <5>1, <5>2
      <4>3. QED
        BY <4>1, <4>2
    <3>2. QED
      BY <3>1
  <2>15. t = z
    BY <2>11, <2>13, <2>14, SeqEqual
  <2>16. PutChar(r, c) = [r EXCEPT ![m + n] = x]
    BY <1>4, <2>4, <2>8, <2>9 DEF PutChar
  <2>17. PutChar(p, c) = q
    BY <1>4, <2>2, <2>4, <2>5 DEF PutChar
  <2>18. QED
    BY <2>7, <2>10, <2>12, <2>15, <2>16, <2>17
<1>5. QED
  BY <1>3, <1>4

SplitSteps(V, s) ==
  [k \in Nat |-> [v \in V |-> IF k \in 1 .. Len(s) THEN PutChar(v, s[k]) ELSE v]]

LEMMA NoPiecesYet ==
  ASSUME NEW T
  PROVE  << <<>> >> \in Pieces(T) /\ Len(<< <<>> >>) = 1
  BY DEF Pieces

LEMMA SplitFold ==
  ASSUME NEW T, NEW s \in Seq(T)
  PROVE  \E u : /\ Stepwise(u, Pieces(T), << <<>> >>, SplitSteps(Pieces(T), s), Len(s))
                /\ Split(s) = u[Len(s)]
<1>1. PICK V : V = Pieces(T)
  OBVIOUS
<1>2. PICK n \in Nat : n = Len(s)
  OBVIOUS
<1>3. PICK step : step = SplitSteps(V, s)
  OBVIOUS
<1>4. PICK base \in V : base = << <<>> >>
  BY <1>1, NoPiecesYet
<1>5. \A k \in 1 .. n : s[k] \in T /\ \A v \in V : PutChar(v, s[k]) \in V
  BY <1>1, <1>2, PutCharTyped
<1>6. Steps(step, V)
  BY <1>2, <1>3, <1>5 DEF Steps, SplitSteps
<1>7. PICK u : Stepwise(u, V, base, step, n)
  BY <1>6, StepwiseExists
<1>8. \A k \in 1 .. n : u[k] = PutChar(u[k - 1], s[k])
  <2> SUFFICES ASSUME NEW k \in 1 .. n
               PROVE  u[k] = PutChar(u[k - 1], s[k])
    OBVIOUS
  <2>1. k \in Nat /\ u[k - 1] \in V /\ u[k] = step[k][u[k - 1]]
    BY <1>7 DEF Stepwise
  <2>2. QED
    BY <1>2, <1>3, <2>1 DEF SplitSteps
<1> DEFINE Eq(f) == f = [i \in 0 .. n |-> IF i = 0 THEN base ELSE PutChar(f[i - 1], s[i])]
<1>9. Eq(u)
  <2>1. u = [i \in 0 .. n |-> u[i]] /\ u[0] = base
    BY <1>7 DEF Stepwise
  <2>2. \A i \in 0 .. n : i # 0 => i \in 1 .. n
    OBVIOUS
  <2>3. QED
    BY <1>8, <2>1, <2>2
<1>10. PICK f : f = CHOOSE g : Eq(g)
  OBVIOUS
<1>11. Eq(f)
  BY <1>9, <1>10
<1>12. Split(s) = f[n]
  BY <1>2, <1>4, <1>10 DEF Split
<1> DEFINE S == {k \in Nat : k <= n => f[k] = u[k]}
<1>13. 0 \in S
  <2>1. 0 \in 0 .. n
    OBVIOUS
  <2>2. QED
    BY <1>9, <1>11, <2>1
<1>14. ASSUME NEW k \in Nat, k \in S
       PROVE  k + 1 \in S
  <2>1. ASSUME k + 1 <= n
        PROVE  f[k + 1] = u[k + 1]
    <3>1. PICK j \in 1 .. n : j = k + 1 /\ j - 1 = k
      BY <2>1
    <3>2. f[k] = u[k]
      BY <1>14, <2>1
    <3>3. f[j] = PutChar(f[j - 1], s[j])
      <4>1. j \in 0 .. n /\ j # 0
        OBVIOUS
      <4>2. QED
        BY <1>11, <4>1
    <3>4. QED
      BY <1>8, <3>1, <3>2, <3>3
  <2>2. QED
    BY <2>1
<1> HIDE DEF S
<1>15. f[n] = u[n]
  <2>1. n \in S
    BY <1>13, <1>14, InductionOnSets
  <2>2. QED
    BY <2>1 DEF S
<1>16. QED
  BY <1>1, <1>2, <1>3, <1>4, <1>7, <1>12, <1>15

LEMMA SplitTyped ==
  ASSUME NEW T, NEW s \in Seq(T)
  PROVE  Split(s) \in Pieces(T)
<1>1. PICK u : /\ Stepwise(u, Pieces(T), << <<>> >>, SplitSteps(Pieces(T), s), Len(s))
               /\ Split(s) = u[Len(s)]
  BY SplitFold
<1>2. Len(s) \in 0 .. Len(s)
  OBVIOUS
<1>3. QED
  BY <1>1, <1>2 DEF Stepwise

LEMMA SplitEmpty == Split(<<>>) = << <<>> >>
<1>1. <<>> \in Seq({}) /\ Len(<<>>) = 0
  OBVIOUS
<1>2. PICK u : /\ Stepwise(u, Pieces({}), << <<>> >>, SplitSteps(Pieces({}), <<>>), 0)
               /\ Split(<<>>) = u[0]
  BY <1>1, SplitFold
<1>3. QED
  BY <1>2 DEF Stepwise

LEMMA SplitAppend ==
  ASSUME NEW T, NEW s \in Seq(T), NEW c \in T
  PROVE  Split(Append(s, c)) = PutChar(Split(s), c)
<1>1. PICK t \in Seq(T) : t = Append(s, c)
  BY AppendProperties
<1>2. PICK V : V = Pieces(T)
  OBVIOUS
<1>3. PICK n \in Nat : n = Len(s)
  OBVIOUS
<1>4. Len(t) = n + 1 /\ t[n + 1] = c /\ \A k \in 1 .. n : t[k] = s[k]
  BY <1>1, <1>3, AppendProperties
<1>5. PICK base : base = << <<>> >>
  OBVIOUS
<1>6. PICK u : Stepwise(u, V, base, SplitSteps(V, s), n) /\ Split(s) = u[n]
  BY <1>2, <1>3, <1>5, SplitFold
<1>7. PICK w : Stepwise(w, V, base, SplitSteps(V, t), n + 1) /\ Split(t) = w[n + 1]
  BY <1>2, <1>4, <1>5, SplitFold
<1>8. \A k \in 1 .. n : \A v \in V : SplitSteps(V, s)[k][v] = SplitSteps(V, t)[k][v]
  <2>1. \A k \in 1 .. n : k \in 1 .. (n + 1) /\ k \in Nat
    OBVIOUS
  <2>2. QED
    BY <1>3, <1>4, <2>1 DEF SplitSteps
<1>9. n <= n + 1 /\ n + 1 \in Nat
  OBVIOUS
<1>10. u[n] = w[n]
  BY <1>6, <1>7, <1>8, <1>9, StepwiseAgree
<1>11. w[n + 1] = PutChar(w[n], c)
  <2>1. n + 1 \in 1 .. (n + 1) /\ (n + 1) - 1 = n /\ n \in 0 .. (n + 1) /\ n + 1 \in Nat
    OBVIOUS
  <2>2. w[n] \in V /\ w[n + 1] = SplitSteps(V, t)[n + 1][w[n]]
    BY <1>7, <2>1 DEF Stepwise
  <2>3. QED
    BY <1>4, <2>1, <2>2 DEF SplitSteps
<1>12. QED
  BY <1>1, <1>6, <1>7, <1>10, <1>11

(* After a newline a new piece begins: what stands before it is split on   *)
(* its own.                                                                *)
AtLineStart(s) == s = <<>> \/ \E t \in String : s = Append(t, <<NL>>)

LEMMA SplitAtLineStart ==
  ASSUME NEW s \in String, AtLineStart(s)
  PROVE  \E ls \in Seq(String) : Split(s) = Append(ls, <<>>)
<1>1. CASE s = <<>>
  <2>1. <<>> \in Seq(String) /\ Append(<<>>, <<>>) = << <<>> >>
    OBVIOUS
  <2>2. QED
    BY <1>1, <2>1, SplitEmpty
<1>2. CASE \E t \in String : s = Append(t, <<NL>>)
  <2>1. PICK t \in String : s = Append(t, <<NL>>)
    BY <1>2
  <2>2. <<NL>> \in Bytes
    BY DEF Bytes, Byte, NL
  <2>3. Split(s) = PutChar(Split(t), <<NL>>)
    BY <2>1, <2>2, SplitAppend DEF String
  <2>4. Split(t) \in Seq(String)
    BY SplitTyped DEF String, Pieces
  <2>5. QED
    BY <2>3, <2>4 DEF PutChar
<1>3. QED
  BY <1>1, <1>2 DEF AtLineStart

LEMMA SplitConcat ==
  ASSUME NEW s \in String, NEW ls \in Seq(String), Split(s) = Append(ls, <<>>)
  PROVE  \A t \in String : Split(s \o t) = ls \o Split(t)
<1> DEFINE S == {t \in Seq(Bytes) : Split(s \o t) = ls \o Split(t)}
<1>1. <<>> \in S
  <2>1. s \o <<>> = s /\ <<>> \in Seq(Bytes)
    BY DEF String
  <2>2. ls \o << <<>> >> = Append(ls, <<>>)
    OBVIOUS
  <2>3. QED
    BY <2>1, <2>2, SplitEmpty
<1>2. ASSUME NEW t \in Seq(Bytes), NEW c \in Bytes, t \in S
      PROVE  Append(t, c) \in S
  <2>1. s \o Append(t, c) = Append(s \o t, c) /\ s \o t \in Seq(Bytes) /\ Append(t, c) \in Seq(Bytes)
    BY DEF String
  <2>2. Split(Append(s \o t, c)) = PutChar(Split(s \o t), c)
    BY <2>1, SplitAppend
  <2>3. Split(Append(t, c)) = PutChar(Split(t), c)
    BY SplitAppend
  <2>4. Split(t) \in Pieces(Bytes) /\ ls \in Seq(Seq(Bytes))
    BY SplitTyped DEF String
  <2>5. PutChar(ls \o Split(t), c) = ls \o PutChar(Split(t), c)
    BY <2>4, PutCharConcat
  <2>6. QED
    BY <1>2, <2>1, <2>2, <2>3, <2>5
<1> HIDE DEF S
<1>3. \A t \in Seq(Bytes) : t \in S
  BY <1>1, <1>2, InductionOnSequences
<1>4. QED
  BY <1>3 DEF S, String

(* One piece for each newline, and one more.                               *)
LEMMA SplitCounts ==
  ASSUME NEW s \in String
  PROVE  Len(Split(s)) = Cardinality(Breaks(s)) + 1
<1> DEFINE S == {t \in Seq(Bytes) : Len(Split(t)) = Cardinality(Breaks(t)) + 1}
<1>1. <<>> \in S
  <2>1. PICK z \in Seq(Bytes) : z = <<>>
    BY EmptySeq, Zenon
  <2>2. Breaks(z) = {}
    BY <2>1 DEF Breaks
  <2>3. Cardinality(Breaks(z)) = 0
    BY <2>2, FS_EmptySet
  <2>4. PICK p : p = Split(z) /\ Len(p) = 1
    BY <2>1, SplitEmpty, NoPiecesYet
  <2>5. Len(p) = Cardinality(Breaks(z)) + 1
    BY <2>3, <2>4
  <2>6. z \in S
    BY <2>4, <2>5
  <2>7. QED
    BY <2>1, <2>6, Zenon
<1>2. ASSUME NEW t \in Seq(Bytes), NEW c \in Bytes, t \in S
      PROVE  Append(t, c) \in S
  <2>1. PICK q \in BOOLEAN : q <=> c = <<NL>>
    OBVIOUS
  <2>2. PICK n \in Nat : n = Len(t)
    OBVIOUS
  <2>3. Breaks(Append(t, c)) = Breaks(t) \cup (IF q THEN {n + 1} ELSE {})
    BY <2>1, <2>2, BreaksAppend
  <2>4. PICK A : A = Breaks(t)
    OBVIOUS
  <2>5. A \subseteq 1 .. n /\ n + 1 \in Nat /\ n + 1 > n
    BY <2>2, <2>4 DEF Breaks
  <2>6. /\ Cardinality(A) \in Nat
        /\ Cardinality(A \cup (IF q THEN {n + 1} ELSE {})) = Cardinality(A) + (IF q THEN 1 ELSE 0)
    BY <2>5, CountOneMore
  <2>7. Split(Append(t, c)) = PutChar(Split(t), c) /\ Split(t) \in Pieces(Bytes)
    BY SplitAppend, SplitTyped
  <2>8. Len(PutChar(Split(t), c)) = Len(Split(t)) + (IF q THEN 1 ELSE 0)
    BY <2>1, <2>7, PutCharTyped
  <2>9. Append(t, c) \in Seq(Bytes)
    OBVIOUS
  <2>10. Len(Split(t)) = Cardinality(A) + 1
    BY <1>2, <2>4
  <2>11. Len(Split(Append(t, c))) = Cardinality(A \cup (IF q THEN {n + 1} ELSE {})) + 1
    BY <2>6, <2>7, <2>8, <2>10
  <2>12. QED
    BY <2>3, <2>4, <2>9, <2>11
<1> HIDE DEF S
<1>3. \A t \in Seq(Bytes) : t \in S
  BY <1>1, <1>2, InductionOnSequences
<1>4. QED
  BY <1>3 DEF S, String

-----------------------------------------------------------------------------
(*                                Parsing                                  *)

Lines ==
  {l \in [text : {"blank", "json", "garbled"}, seq : Nat, body : String] :
     l.text = "json" => l.seq >= 1}

Issues == [type : {"corrupt-line", "seq-duplicate", "seq-gap"}, line : Nat, seq : Nat]

Parses == [events : Seq(Lines), issues : Seq(Issues), expected : Nat, lines : Nat]

LEMMA LineTyped ==
  ASSUME NEW s \in String
  PROVE  LineOf(s) \in Lines
<1>0. <<>> \in String
  BY DEF String
<1>1. CASE s = <<>>
  BY <1>0, <1>1 DEF LineOf, Lines
<1>2. CASE s # <<>> /\ ~WellFormed(s)
  BY <1>0, <1>2 DEF LineOf, Lines
<1>3. CASE s # <<>> /\ WellFormed(s)
  <2>1. PICK n \in Nat : n = Len(s) /\ n >= 2
    BY <1>3 DEF WellFormed, String
  <2>2. PICK d \in 49 .. 57 : s[1] = <<d>>
    BY <1>3 DEF WellFormed, Digits
  <2>3. s[1][1] - 48 \in Nat /\ s[1][1] - 48 >= 1
    BY <2>2
  <2>4. PICK b : b = SubSeq(s, 2, n - 1)
    OBVIOUS
  <2>5. \A i \in 2 .. (n - 1) : s[i] \in Bytes
    BY <2>1 DEF String
  <2>6. b \in Seq(Bytes)
    <3>1. 2 \in Int /\ n - 1 \in Int
      OBVIOUS
    <3>2. QED
      BY <2>4, <2>5, <3>1, SubSeqProperties
  <2>7. LineOf(s) = [text |-> "json", seq |-> s[1][1] - 48, body |-> b]
    BY <1>3, <2>1, <2>4 DEF LineOf
  <2>8. QED
    BY <2>3, <2>6, <2>7 DEF Lines, String
<1>4. QED
  BY <1>1, <1>2, <1>3

LEMMA LinesTyped ==
  ASSUME NEW p \in Seq(String)
  PROVE  /\ LinesOf(p) \in Seq(Lines) /\ Len(LinesOf(p)) = Len(p)
         /\ \A i \in 1 .. Len(p) : LinesOf(p)[i] = LineOf(p[i])
<1>1. PICK n \in Nat : n = Len(p)
  OBVIOUS
<1>2. PICK f : f = [i \in 1 .. n |-> LineOf(p[i])]
  OBVIOUS
<1>3. \A i \in 1 .. n : f[i] = LineOf(p[i]) /\ f[i] \in Lines
  BY <1>1, <1>2, LineTyped
<1>4. f \in [1 .. n -> Lines]
  BY <1>2, <1>3
<1>5. f \in Seq(Lines) /\ Len(f) = n
  BY <1>4
<1>6. QED
  BY <1>1, <1>2, <1>3, <1>5 DEF LinesOf

LEMMA LinesConcat ==
  ASSUME NEW a \in Seq(String), NEW b \in Seq(String)
  PROVE  LinesOf(a \o b) = LinesOf(a) \o LinesOf(b)
<1>1. PICK m \in Nat : m = Len(a)
  OBVIOUS
<1>2. PICK n \in Nat : n = Len(b)
  OBVIOUS
<1>3. PICK c \in Seq(String) : c = a \o b
  BY ConcatProperties
<1>4. Len(c) = m + n /\ \A i \in 1 .. m + n : c[i] = IF i <= m THEN a[i] ELSE b[i - m]
  BY <1>1, <1>2, <1>3, ConcatProperties
<1>5. PICK la \in Seq(Lines) : la = LinesOf(a) /\ Len(la) = m /\ \A i \in 1 .. m : la[i] = LineOf(a[i])
  BY <1>1, LinesTyped
<1>6. PICK lb \in Seq(Lines) : lb = LinesOf(b) /\ Len(lb) = n /\ \A i \in 1 .. n : lb[i] = LineOf(b[i])
  BY <1>2, LinesTyped
<1>7. PICK lc \in Seq(Lines) : /\ lc = LinesOf(c) /\ Len(lc) = m + n
                               /\ \A i \in 1 .. m + n : lc[i] = LineOf(c[i])
  BY <1>4, LinesTyped
<1>8. PICK z : z = la \o lb
  OBVIOUS
<1>9. /\ z \in Seq(Lines) /\ Len(z) = m + n
      /\ \A i \in 1 .. m + n : z[i] = IF i <= m THEN la[i] ELSE lb[i - m]
  <2>1. Len(la \o lb) = Len(la) + Len(lb) /\ la \o lb \in Seq(Lines)
    BY ConcatProperties
  <2>2. \A i \in 1 .. Len(la) + Len(lb) :
          (la \o lb)[i] = IF i <= Len(la) THEN la[i] ELSE lb[i - Len(la)]
    BY ConcatProperties
  <2>3. QED
    BY <1>5, <1>6, <1>8, <2>1, <2>2
<1>10. \A i \in 1 .. m + n : lc[i] = z[i]
  <2>1. ASSUME NEW i \in 1 .. m + n
        PROVE  lc[i] = z[i]
    <3>1. CASE i <= m
      BY <1>4, <1>5, <1>7, <1>9, <3>1
    <3>2. CASE i > m
      <4>1. i - m \in 1 .. n /\ ~(i <= m)
        BY <3>2
      <4>2. QED
        BY <1>4, <1>6, <1>7, <1>9, <4>1
    <3>3. QED
      BY <3>1, <3>2
  <2>2. QED
    BY <2>1
<1>11. lc = z
  BY <1>7, <1>9, <1>10, SeqEqual
<1>12. QED
  BY <1>3, <1>5, <1>6, <1>7, <1>8, <1>11

Blank == [text |-> "blank", seq |-> 0, body |-> <<>>]

LEMMA BlankIsALine == Blank \in Lines
  BY DEF Blank, Lines, String

LEMMA LinesOfOpenEnd ==
  ASSUME NEW a \in Seq(String)
  PROVE  LinesOf(Append(a, <<>>)) = Append(LinesOf(a), Blank)
<1>1. PICK e \in String : e = <<>>
  BY EmptySeq, Zenon DEF String
<1>2. PICK b \in Seq(String) : b = <<e>> /\ Len(b) = 1 /\ b[1] = e
  <2>1. PICK V : V = String
    OBVIOUS
  <2>2. <<e>> \in Seq(V)
    BY <2>1
  <2>3. QED
    BY <2>1, <2>2
<1>3. Append(a, e) = a \o b
  BY <1>2, AppendIsConcat
<1>4. PICK lb \in Seq(Lines) : lb = LinesOf(b) /\ Len(lb) = 1 /\ lb[1] = LineOf(e)
  <2>1. Len(b) = 1 /\ b[1] = e /\ 1 \in 1 .. 1
    BY <1>2
  <2>2. QED
    BY <2>1, LinesTyped
<1>5. LineOf(e) = Blank
  BY <1>1 DEF LineOf, Blank
<1>6. lb = <<Blank>>
  <2>1. <<Blank>> \in Seq(Lines)
    BY BlankIsALine
  <2>2. Len(<<Blank>>) = 1 /\ <<Blank>>[1] = Blank
    OBVIOUS
  <2>3. QED
    BY <1>4, <1>5, <2>1, <2>2, SeqEqual
<1>7. LinesOf(a) \in Seq(Lines)
  BY LinesTyped
<1>8. LinesOf(a \o b) = LinesOf(a) \o <<Blank>>
  BY <1>4, <1>6, LinesConcat
<1>9. Append(LinesOf(a), Blank) = LinesOf(a) \o <<Blank>>
  BY <1>7, BlankIsALine, AppendIsConcat
<1>10. QED
  BY <1>1, <1>3, <1>8, <1>9

-----------------------------------------------------------------------------

(* What one line does to a parse.                                          *)
LEMMA ParseLineIs ==
  ASSUME NEW acc \in Parses, NEW line \in Lines, NEW p, p = ParseLine(acc, line)
  PROVE  /\ p \in Parses /\ p.lines = acc.lines + 1
         /\ line.text = "blank" =>
              p.events = acc.events /\ p.issues = acc.issues /\ p.expected = acc.expected
         /\ line.text = "garbled" =>
              /\ p.events = acc.events /\ p.expected = acc.expected
              /\ p.issues # <<>>
         /\ line.text = "json" /\ line.seq = acc.expected =>
              /\ p.events = Append(acc.events, line) /\ p.issues = acc.issues
              /\ p.expected = line.seq + 1
         /\ line.text = "json" /\ line.seq < acc.expected =>
              /\ p.events = acc.events /\ p.expected = acc.expected
              /\ p.issues # <<>>
         /\ line.text = "json" /\ line.seq > acc.expected =>
              /\ p.events = Append(acc.events, line) /\ p.expected = line.seq + 1
              /\ p.issues # <<>>
<1>1. PICK ev \in Seq(Lines) : ev = acc.events
  BY DEF Parses
<1>2. PICK is \in Seq(Issues) : is = acc.issues
  BY DEF Parses
<1>3. PICK ex \in Nat : ex = acc.expected
  BY DEF Parses
<1>4. PICK no \in Nat : no = acc.lines + 1
  BY DEF Parses
<1>5. PICK q \in Nat : q = line.seq
  BY DEF Lines
<1>6. acc = [events |-> ev, issues |-> is, expected |-> ex, lines |-> acc.lines]
  BY <1>1, <1>2, <1>3 DEF Parses
<1>7. line.text \in {"blank", "json", "garbled"}
  BY DEF Lines
<1>16. PICK c : c = [acc EXCEPT !.lines = no]
  OBVIOUS
<1>17. c = [events |-> ev, issues |-> is, expected |-> ex, lines |-> no]
  BY <1>6, <1>16
<1>18. ASSUME NEW x
       PROVE  [c EXCEPT !.issues = x] = [events |-> ev, issues |-> x, expected |-> ex, lines |-> no]
  BY <1>17
<1>8. ASSUME NEW type \in {"corrupt-line", "seq-duplicate", "seq-gap"}
      PROVE  /\ Append(is, Issue(type, no, q)) \in Seq(Issues)
             /\ Append(is, Issue(type, no, q)) # <<>>
  <2>1. Issue(type, no, q) \in Issues
    BY DEF Issue, Issues
  <2>2. QED
    BY <2>1, AppendProperties
<1>9. Append(ev, line) \in Seq(Lines)
  OBVIOUS
<1>10. CASE line.text = "blank"
  <2>1. p = [events |-> ev, issues |-> is, expected |-> ex, lines |-> no]
    BY <1>4, <1>6, <1>10 DEF ParseLine
  <2>2. QED
    BY <1>1, <1>2, <1>3, <1>4, <1>10, <2>1 DEF Parses
<1>11. CASE line.text = "garbled"
  <2>1. PICK is2 : is2 = Append(is, Issue("corrupt-line", no, q))
    OBVIOUS
  <2>2. p = [events |-> ev, issues |-> is2, expected |-> ex, lines |-> no]
    <3>1. p = [c EXCEPT !.issues = Append(c.issues, Issue("corrupt-line", no, q))]
      BY <1>4, <1>5, <1>11, <1>16 DEF ParseLine
    <3>2. QED
      BY <1>17, <1>18, <2>1, <3>1
  <2>3. is2 \in Seq(Issues) /\ is2 # <<>>
    BY <1>8, <2>1
  <2>4. QED
    BY <1>1, <1>3, <1>4, <1>11, <2>2, <2>3 DEF Parses
<1>12. CASE line.text = "json" /\ q = ex
  <2>1. p = [events |-> Append(ev, line), issues |-> is, expected |-> q + 1, lines |-> no]
    <3>1. p = [c EXCEPT !.events = Append(c.events, line), !.expected = q + 1]
      BY <1>3, <1>4, <1>5, <1>12, <1>16 DEF ParseLine
    <3>2. QED
      BY <1>17, <3>1
  <2>2. QED
    BY <1>1, <1>2, <1>3, <1>4, <1>5, <1>9, <1>12, <2>1 DEF Parses
<1>13. CASE line.text = "json" /\ q < ex
  <2>1. PICK is2 : is2 = Append(is, Issue("seq-duplicate", no, q))
    OBVIOUS
  <2>2. p = [events |-> ev, issues |-> is2, expected |-> ex, lines |-> no]
    <3>1. p = [c EXCEPT !.issues = Append(c.issues, Issue("seq-duplicate", no, q))]
      BY <1>3, <1>4, <1>5, <1>13, <1>16 DEF ParseLine
    <3>2. QED
      BY <1>17, <1>18, <2>1, <3>1
  <2>3. is2 \in Seq(Issues) /\ is2 # <<>>
    BY <1>8, <2>1
  <2>4. QED
    BY <1>1, <1>3, <1>4, <1>5, <1>13, <2>2, <2>3 DEF Parses
<1>14. CASE line.text = "json" /\ q > ex
  <2>1. PICK is2 : is2 = Append(is, Issue("seq-gap", no, q))
    OBVIOUS
  <2>2. p = [events |-> Append(ev, line), issues |-> is2, expected |-> q + 1, lines |-> no]
    <3>1. PICK r : r = [c EXCEPT !.issues = Append(c.issues, Issue("seq-gap", no, q))]
      OBVIOUS
    <3>2. p = [r EXCEPT !.events = Append(r.events, line), !.expected = q + 1]
      BY <1>3, <1>4, <1>5, <1>14, <1>16, <3>1 DEF ParseLine
    <3>3. r = [events |-> ev, issues |-> is2, expected |-> ex, lines |-> no]
      BY <1>17, <1>18, <2>1, <3>1
    <3>4. QED
      BY <3>2, <3>3
  <2>3. is2 \in Seq(Issues) /\ is2 # <<>>
    BY <1>8, <2>1
  <2>4. QED
    BY <1>1, <1>3, <1>4, <1>5, <1>9, <1>14, <2>2, <2>3 DEF Parses
<1>15. QED
  BY <1>7, <1>10, <1>11, <1>12, <1>13, <1>14

ParseSteps(V, ls) ==
  [k \in Nat |-> [v \in V |-> IF k \in 1 .. Len(ls) THEN ParseLine(v, ls[k]) ELSE v]]

LEMMA ParsedFold ==
  ASSUME NEW ls \in Seq(Lines), NEW from \in Parses
  PROVE  \E u : /\ Stepwise(u, Parses, from, ParseSteps(Parses, ls), Len(ls))
                /\ Parsed(ls, from) = u[Len(ls)]
<1>1. PICK V : V = Parses
  OBVIOUS
<1>2. PICK n \in Nat : n = Len(ls)
  OBVIOUS
<1>3. PICK step : step = ParseSteps(V, ls)
  OBVIOUS
<1>4. from \in V
  BY <1>1
<1>5. \A k \in 1 .. n : ls[k] \in Lines /\ \A v \in V : ParseLine(v, ls[k]) \in V
  BY <1>1, <1>2, ParseLineIs
<1>6. Steps(step, V)
  BY <1>2, <1>3, <1>5 DEF Steps, ParseSteps
<1>7. PICK u : Stepwise(u, V, from, step, n)
  BY <1>4, <1>6, StepwiseExists
<1>8. \A k \in 1 .. n : u[k] = ParseLine(u[k - 1], ls[k])
  <2> SUFFICES ASSUME NEW k \in 1 .. n
               PROVE  u[k] = ParseLine(u[k - 1], ls[k])
    OBVIOUS
  <2>1. k \in Nat /\ u[k - 1] \in V /\ u[k] = step[k][u[k - 1]]
    BY <1>7 DEF Stepwise
  <2>2. QED
    BY <1>2, <1>3, <2>1 DEF ParseSteps
<1> DEFINE Eq(f) == f = [i \in 0 .. n |-> IF i = 0 THEN from ELSE ParseLine(f[i - 1], ls[i])]
<1>9. Eq(u)
  <2>1. u = [i \in 0 .. n |-> u[i]] /\ u[0] = from
    BY <1>7 DEF Stepwise
  <2>2. \A i \in 0 .. n : i # 0 => i \in 1 .. n
    OBVIOUS
  <2>3. QED
    BY <1>8, <2>1, <2>2
<1>10. PICK f : f = CHOOSE g : Eq(g)
  OBVIOUS
<1>11. Eq(f)
  BY <1>9, <1>10
<1>12. Parsed(ls, from) = f[n]
  BY <1>2, <1>10 DEF Parsed
<1> DEFINE S == {k \in Nat : k <= n => f[k] = u[k]}
<1>13. 0 \in S
  <2>1. 0 \in 0 .. n
    OBVIOUS
  <2>2. QED
    BY <1>9, <1>11, <2>1
<1>14. ASSUME NEW k \in Nat, k \in S
       PROVE  k + 1 \in S
  <2>1. ASSUME k + 1 <= n
        PROVE  f[k + 1] = u[k + 1]
    <3>1. PICK j \in 1 .. n : j = k + 1 /\ j - 1 = k
      BY <2>1
    <3>2. f[k] = u[k]
      BY <1>14, <2>1
    <3>3. f[j] = ParseLine(f[j - 1], ls[j])
      <4>1. j \in 0 .. n /\ j # 0
        OBVIOUS
      <4>2. QED
        BY <1>11, <4>1
    <3>4. QED
      BY <1>8, <3>1, <3>2, <3>3
  <2>2. QED
    BY <2>1
<1> HIDE DEF S
<1>15. f[n] = u[n]
  <2>1. n \in S
    BY <1>13, <1>14, InductionOnSets
  <2>2. QED
    BY <2>1 DEF S
<1>16. QED
  BY <1>1, <1>2, <1>3, <1>7, <1>12, <1>15

LEMMA ParsedTyped ==
  ASSUME NEW ls \in Seq(Lines), NEW from \in Parses
  PROVE  Parsed(ls, from) \in Parses
<1>1. PICK u : /\ Stepwise(u, Parses, from, ParseSteps(Parses, ls), Len(ls))
               /\ Parsed(ls, from) = u[Len(ls)]
  BY ParsedFold
<1>2. Len(ls) \in 0 .. Len(ls)
  OBVIOUS
<1>3. QED
  BY <1>1, <1>2 DEF Stepwise

LEMMA ParsedEmpty ==
  ASSUME NEW from \in Parses
  PROVE  Parsed(<<>>, from) = from
<1>1. <<>> \in Seq(Lines) /\ Len(<<>>) = 0
  OBVIOUS
<1>2. PICK u : /\ Stepwise(u, Parses, from, ParseSteps(Parses, <<>>), 0)
               /\ Parsed(<<>>, from) = u[0]
  BY <1>1, ParsedFold
<1>3. QED
  BY <1>2 DEF Stepwise

LEMMA ParsedAppend ==
  ASSUME NEW ls \in Seq(Lines), NEW from \in Parses, NEW l \in Lines
  PROVE  Parsed(Append(ls, l), from) = ParseLine(Parsed(ls, from), l)
<1>1. PICK t \in Seq(Lines) : t = Append(ls, l)
  BY AppendProperties
<1>2. PICK V : V = Parses
  OBVIOUS
<1>3. PICK n \in Nat : n = Len(ls)
  OBVIOUS
<1>4. Len(t) = n + 1 /\ t[n + 1] = l /\ \A k \in 1 .. n : t[k] = ls[k]
  BY <1>1, <1>3, AppendProperties
<1>5. PICK u : Stepwise(u, V, from, ParseSteps(V, ls), n) /\ Parsed(ls, from) = u[n]
  BY <1>2, <1>3, ParsedFold
<1>6. PICK w : Stepwise(w, V, from, ParseSteps(V, t), n + 1) /\ Parsed(t, from) = w[n + 1]
  BY <1>2, <1>4, ParsedFold
<1>7. \A k \in 1 .. n : \A v \in V : ParseSteps(V, ls)[k][v] = ParseSteps(V, t)[k][v]
  <2>1. \A k \in 1 .. n : k \in 1 .. (n + 1) /\ k \in Nat
    OBVIOUS
  <2>2. QED
    BY <1>3, <1>4, <2>1 DEF ParseSteps
<1>8. n <= n + 1 /\ n + 1 \in Nat
  OBVIOUS
<1>9. u[n] = w[n]
  BY <1>5, <1>6, <1>7, <1>8, StepwiseAgree
<1>10. w[n + 1] = ParseLine(w[n], l)
  <2>1. n + 1 \in 1 .. (n + 1) /\ (n + 1) - 1 = n /\ n \in 0 .. (n + 1) /\ n + 1 \in Nat
    OBVIOUS
  <2>2. w[n] \in V /\ w[n + 1] = ParseSteps(V, t)[n + 1][w[n]]
    BY <1>6, <2>1 DEF Stepwise
  <2>3. QED
    BY <1>4, <2>1, <2>2 DEF ParseSteps
<1>11. QED
  BY <1>1, <1>5, <1>6, <1>9, <1>10

(* A parse may be stopped and continued.                                   *)
LEMMA ParsedConcat ==
  ASSUME NEW a \in Seq(Lines), NEW from \in Parses
  PROVE  \A b \in Seq(Lines) : Parsed(a \o b, from) = Parsed(b, Parsed(a, from))
<1>0. PICK mid \in Parses : mid = Parsed(a, from)
  BY ParsedTyped
<1>1. <<>> \in Seq(Lines) /\ a \o <<>> = a
  OBVIOUS
<1>2. Parsed(a \o <<>>, from) = Parsed(<<>>, mid)
  BY <1>0, <1>1, ParsedEmpty
<1> DEFINE S == {b \in Seq(Lines) : Parsed(a \o b, from) = Parsed(b, mid)}
<1>3. <<>> \in S
  BY <1>1, <1>2, Zenon
<1>4. ASSUME NEW b \in Seq(Lines), NEW l \in Lines, b \in S
      PROVE  Append(b, l) \in S
  <2>1. a \o Append(b, l) = Append(a \o b, l) /\ a \o b \in Seq(Lines) /\ Append(b, l) \in Seq(Lines)
    OBVIOUS
  <2>2. Parsed(Append(a \o b, l), from) = ParseLine(Parsed(a \o b, from), l)
    BY <2>1, ParsedAppend
  <2>3. Parsed(Append(b, l), mid) = ParseLine(Parsed(b, mid), l)
    BY ParsedAppend
  <2>4. QED
    BY <1>4, <2>1, <2>2, <2>3
<1> HIDE DEF S
<1>5. \A b \in Seq(Lines) : b \in S
  BY <1>3, <1>4, InductionOnSequences
<1>6. QED
  BY <1>0, <1>5 DEF S

LEMMA ParsedLines ==
  ASSUME NEW ls \in Seq(Lines), NEW from \in Parses
  PROVE  Parsed(ls, from).lines = from.lines + Len(ls)
<1>0. from.lines \in Nat
  BY DEF Parses
<1> DEFINE S == {b \in Seq(Lines) : Parsed(b, from).lines = from.lines + Len(b)}
<1>1. <<>> \in S
  <2>1. PICK z \in Seq(Lines) : z = <<>> /\ Len(z) = 0
    BY EmptySeq, Zenon
  <2>2. Parsed(z, from) = from
    BY <2>1, ParsedEmpty, Zenon
  <2>3. z \in S
    BY <1>0, <2>1, <2>2
  <2>4. QED
    BY <2>1, <2>3, Zenon
<1>2. ASSUME NEW b \in Seq(Lines), NEW l \in Lines, b \in S
      PROVE  Append(b, l) \in S
  <2>1. PICK p \in Parses : p = Parsed(b, from)
    BY ParsedTyped
  <2>2. Parsed(Append(b, l), from) = ParseLine(p, l)
    BY <2>1, ParsedAppend
  <2>3. ParseLine(p, l).lines = p.lines + 1
    BY ParseLineIs
  <2>4. Append(b, l) \in Seq(Lines) /\ Len(Append(b, l)) = Len(b) + 1
    OBVIOUS
  <2>5. QED
    BY <1>0, <1>2, <2>1, <2>2, <2>3, <2>4
<1> HIDE DEF S
<1>3. \A b \in Seq(Lines) : b \in S
  BY <1>1, <1>2, InductionOnSequences
<1>4. QED
  BY <1>3 DEF S

LEMMA StartTyped == Start \in Parses
  BY DEF Start, Parses

-----------------------------------------------------------------------------
(*                   What the loop keeps, in closed form                   *)

Taken(kept, line) == IF line.text = "blank" THEN kept ELSE Append(kept, line)

LEMMA TakenTyped ==
  ASSUME NEW v \in Seq(Lines), NEW l \in Lines
  PROVE  Taken(v, l) \in Seq(Lines)
  BY AppendProperties DEF Taken

SkipSteps(V, ls) ==
  [k \in Nat |-> [v \in V |-> IF k \in 1 .. Len(ls) THEN Taken(v, ls[k]) ELSE v]]

LEMMA NonBlankFold ==
  ASSUME NEW ls \in Seq(Lines)
  PROVE  \E u : /\ Stepwise(u, Seq(Lines), <<>>, SkipSteps(Seq(Lines), ls), Len(ls))
                /\ NonBlank(ls) = u[Len(ls)]
<1>1. PICK V : V = Seq(Lines)
  OBVIOUS
<1>2. PICK n \in Nat : n = Len(ls)
  OBVIOUS
<1>3. PICK step : step = SkipSteps(V, ls)
  OBVIOUS
<1>4. PICK from \in V : from = <<>>
  BY <1>1, EmptySeq, Zenon
<1>5. \A k \in 1 .. n : ls[k] \in Lines /\ \A v \in V : Taken(v, ls[k]) \in V
  BY <1>1, <1>2, TakenTyped
<1>6. Steps(step, V)
  BY <1>2, <1>3, <1>5 DEF Steps, SkipSteps
<1>7. PICK u : Stepwise(u, V, from, step, n)
  BY <1>4, <1>6, StepwiseExists
<1>8. \A k \in 1 .. n : u[k] = Taken(u[k - 1], ls[k])
  <2> SUFFICES ASSUME NEW k \in 1 .. n
               PROVE  u[k] = Taken(u[k - 1], ls[k])
    OBVIOUS
  <2>1. k \in Nat /\ u[k - 1] \in V /\ u[k] = step[k][u[k - 1]]
    BY <1>7 DEF Stepwise
  <2>2. QED
    BY <1>2, <1>3, <2>1 DEF SkipSteps
<1> DEFINE Eq(f) == f = [i \in 0 .. n |-> IF i = 0 THEN from ELSE Taken(f[i - 1], ls[i])]
<1>9. Eq(u)
  <2>1. u = [i \in 0 .. n |-> u[i]] /\ u[0] = from
    BY <1>7 DEF Stepwise
  <2>2. \A i \in 0 .. n : i # 0 => i \in 1 .. n
    OBVIOUS
  <2>3. QED
    BY <1>8, <2>1, <2>2
<1>10. PICK f : f = CHOOSE g : Eq(g)
  OBVIOUS
<1>11. Eq(f)
  BY <1>9, <1>10
<1>12. NonBlank(ls) = f[n]
  BY <1>2, <1>4, <1>10 DEF NonBlank, Taken
<1> DEFINE S == {k \in Nat : k <= n => f[k] = u[k]}
<1>13. 0 \in S
  <2>1. 0 \in 0 .. n
    OBVIOUS
  <2>2. QED
    BY <1>9, <1>11, <2>1
<1>14. ASSUME NEW k \in Nat, k \in S
       PROVE  k + 1 \in S
  <2>1. ASSUME k + 1 <= n
        PROVE  f[k + 1] = u[k + 1]
    <3>1. PICK j \in 1 .. n : j = k + 1 /\ j - 1 = k
      BY <2>1
    <3>2. f[k] = u[k]
      BY <1>14, <2>1
    <3>3. f[j] = Taken(f[j - 1], ls[j])
      <4>1. j \in 0 .. n /\ j # 0
        OBVIOUS
      <4>2. QED
        BY <1>11, <4>1
    <3>4. QED
      BY <1>8, <3>1, <3>2, <3>3
  <2>2. QED
    BY <2>1
<1> HIDE DEF S
<1>15. f[n] = u[n]
  <2>1. n \in S
    BY <1>13, <1>14, InductionOnSets
  <2>2. QED
    BY <2>1 DEF S
<1>16. QED
  BY <1>1, <1>2, <1>3, <1>4, <1>7, <1>12, <1>15

LEMMA NonBlankTyped ==
  ASSUME NEW ls \in Seq(Lines)
  PROVE  NonBlank(ls) \in Seq(Lines)
<1>1. PICK u : /\ Stepwise(u, Seq(Lines), <<>>, SkipSteps(Seq(Lines), ls), Len(ls))
               /\ NonBlank(ls) = u[Len(ls)]
  BY NonBlankFold
<1>2. Len(ls) \in 0 .. Len(ls)
  OBVIOUS
<1>3. QED
  BY <1>1, <1>2 DEF Stepwise

LEMMA NonBlankAppend ==
  ASSUME NEW ls \in Seq(Lines), NEW l \in Lines
  PROVE  NonBlank(Append(ls, l)) = Taken(NonBlank(ls), l)
<1>1. PICK t \in Seq(Lines) : t = Append(ls, l)
  BY AppendProperties
<1>2. PICK V : V = Seq(Lines)
  OBVIOUS
<1>3. PICK n \in Nat : n = Len(ls)
  OBVIOUS
<1>4. Len(t) = n + 1 /\ t[n + 1] = l /\ \A k \in 1 .. n : t[k] = ls[k]
  BY <1>1, <1>3, AppendProperties
<1>0. PICK from : from = <<>>
  OBVIOUS
<1>5. PICK u : Stepwise(u, V, from, SkipSteps(V, ls), n) /\ NonBlank(ls) = u[n]
  BY <1>0, <1>2, <1>3, NonBlankFold
<1>6. PICK w : Stepwise(w, V, from, SkipSteps(V, t), n + 1) /\ NonBlank(t) = w[n + 1]
  BY <1>0, <1>2, <1>4, NonBlankFold
<1>7. \A k \in 1 .. n : \A v \in V : SkipSteps(V, ls)[k][v] = SkipSteps(V, t)[k][v]
  <2>1. \A k \in 1 .. n : k \in 1 .. (n + 1) /\ k \in Nat
    OBVIOUS
  <2>2. QED
    BY <1>3, <1>4, <2>1 DEF SkipSteps
<1>8. n <= n + 1 /\ n + 1 \in Nat
  OBVIOUS
<1>9. u[n] = w[n]
  BY <1>5, <1>6, <1>7, <1>8, StepwiseAgree
<1>10. w[n + 1] = Taken(w[n], l)
  <2>1. n + 1 \in 1 .. (n + 1) /\ (n + 1) - 1 = n /\ n \in 0 .. (n + 1) /\ n + 1 \in Nat
    OBVIOUS
  <2>2. w[n] \in V /\ w[n + 1] = SkipSteps(V, t)[n + 1][w[n]]
    BY <1>6, <2>1 DEF Stepwise
  <2>3. QED
    BY <1>4, <2>1, <2>2 DEF SkipSteps
<1>11. QED
  BY <1>1, <1>5, <1>6, <1>9, <1>10

LEMMA NonBlankEmpty == NonBlank(<<>>) = <<>>
<1>1. <<>> \in Seq(Lines) /\ Len(<<>>) = 0
  OBVIOUS
<1>2. PICK u : Stepwise(u, Seq(Lines), <<>>, SkipSteps(Seq(Lines), <<>>), 0) /\ NonBlank(<<>>) = u[0]
  BY <1>1, NonBlankFold
<1>3. QED
  BY <1>2 DEF Stepwise

(* What the parse p of the lines that are not blank says of them.          *)
Rises(lines, p) ==
  /\ Len(p.events) = Cardinality(KeptLines(lines))
  /\ \A i \in KeptLines(lines) :
       p.events[Cardinality({j \in KeptLines(lines) : j <= i})] = lines[i]
  /\ \/ KeptLines(lines) = {} /\ p.expected = 1
     \/ \E i \in 1 .. Len(lines) : LastKept(lines, i) /\ p.expected = lines[i].seq + 1
  /\ \A i \in 1 .. Len(lines) : lines[i].text = "json" => lines[i].seq < p.expected
  /\ p.issues = <<>> <=> Contiguous(lines)
  /\ Contiguous(lines) => p.expected = Len(lines) + 1

LEMMA RisesEmpty ==
  ASSUME NEW z, z = <<>>
  PROVE  Rises(z, Start)
<1>1. Len(z) = 0 /\ 1 .. 0 = {}
  OBVIOUS
<1>2. KeptLines(z) = {}
  BY <1>1 DEF KeptLines
<1>3. Cardinality(KeptLines(z)) = 0
  BY <1>2, FS_EmptySet
<1>4. Start.events = <<>> /\ Start.issues = <<>> /\ Start.expected = 1 /\ Len(Start.events) = 0
  BY DEF Start
<1>5. Contiguous(z)
  BY <1>1 DEF Contiguous
<1>6. QED
  BY <1>1, <1>2, <1>3, <1>4, <1>5 DEF Rises

LEMMA KeptIsFinite ==
  ASSUME NEW lines \in Seq(Lines)
  PROVE  /\ KeptLines(lines) \subseteq 1 .. Len(lines)
         /\ IsFiniteSet(KeptLines(lines)) /\ Cardinality(KeptLines(lines)) \in Nat
         /\ \A i \in KeptLines(lines) :
              Cardinality({j \in KeptLines(lines) : j <= i}) \in 1 .. Cardinality(KeptLines(lines))
<1>1. PICK n \in Nat : n = Len(lines)
  OBVIOUS
<1>2. PICK K : K = KeptLines(lines)
  OBVIOUS
<1>3. K \subseteq 1 .. n
  BY <1>1, <1>2 DEF KeptLines
<1>4. IsFiniteSet(K) /\ Cardinality(K) \in Nat
  <2>1. n \in Nat /\ n + 1 \in Nat /\ n + 1 > n
    OBVIOUS
  <2>2. QED
    BY <1>3, <2>1, CountOneMore
<1>5. ASSUME NEW i \in K
      PROVE  Cardinality({j \in K : j <= i}) \in 1 .. Cardinality(K)
  <2>1. PICK A \in SUBSET K : A = {j \in K : j <= i}
    OBVIOUS
  <2>2. IsFiniteSet(A) /\ Cardinality(A) <= Cardinality(K)
    BY <1>4, FS_Subset
  <2>3. i \in A
    BY <1>3, <2>1
  <2>4. Cardinality(A) \in Nat /\ Cardinality(A) # 0
    BY <2>2, <2>3, FS_CardinalityType, FS_EmptySet
  <2>5. QED
    BY <1>4, <2>1, <2>2, <2>4
<1>6. QED
  BY <1>1, <1>2, <1>3, <1>4, <1>5

LEMMA RisesAppend ==
  ASSUME NEW lines \in Seq(Lines), NEW p \in Parses, Rises(lines, p),
         NEW l \in Lines, l.text # "blank"
  PROVE  Rises(Append(lines, l), ParseLine(p, l))
<1>1. PICK n \in Nat : n = Len(lines)
  OBVIOUS
<1>2. PICK t \in Seq(Lines) : t = Append(lines, l)
  BY AppendProperties
<1>3. Len(t) = n + 1 /\ t[n + 1] = l /\ \A i \in 1 .. n : t[i] = lines[i]
  BY <1>1, <1>2, AppendProperties
<1>4. PICK q \in Parses : q = ParseLine(p, l)
  BY ParseLineIs
<1>5. PICK K : K = KeptLines(lines)
  OBVIOUS
<1>6. /\ K \subseteq 1 .. n /\ IsFiniteSet(K) /\ Cardinality(K) \in Nat
      /\ \A i \in K : Cardinality({j \in K : j <= i}) \in 1 .. Cardinality(K)
  BY <1>1, <1>5, KeptIsFinite
<1>7. p.expected \in Nat /\ p.events \in Seq(Lines) /\ l.seq \in Nat
  BY DEF Parses, Lines
<1>8. PICK ex \in Nat : ex = p.expected
  BY <1>7
<1>9. l.text \in {"json", "garbled"} /\ (l.text = "json" => l.seq >= 1)
  BY DEF Lines
<1>10. \A i \in 1 .. n : Kept(t, i) <=> Kept(lines, i)
  <2>1. ASSUME NEW i \in 1 .. n
        PROVE  Kept(t, i) <=> Kept(lines, i)
    <3>1. i \in Nat /\ i - 1 <= n /\ \A j \in 1 .. (i - 1) : j \in 1 .. n
      OBVIOUS
    <3>2. QED
      BY <1>3, <3>1 DEF Kept
  <2>2. QED
    BY <2>1
<1>11. Kept(t, n + 1) <=> (l.text = "json" /\ l.seq >= ex)
  <2>1. \A j \in 1 .. n : lines[j].seq \in Nat
    BY <1>1 DEF Lines
  <2>2. (n + 1) - 1 = n
    OBVIOUS
  <2>3. Kept(t, n + 1) <=> (l.text = "json" /\ \A j \in 1 .. n : lines[j].text = "json" => lines[j].seq < l.seq)
    BY <1>3, <2>2 DEF Kept
  <2>4. l.seq >= ex => \A j \in 1 .. n : lines[j].text = "json" => lines[j].seq < l.seq
    BY <1>1, <1>7, <1>8, <2>1 DEF Rises
  <2>5. ASSUME l.text = "json", l.seq < ex
        PROVE  \E j \in 1 .. n : lines[j].text = "json" /\ ~(lines[j].seq < l.seq)
    <3>1. ex # 1
      BY <1>7, <1>9, <2>5
    <3>2. PICK j \in 1 .. n : LastKept(lines, j) /\ ex = lines[j].seq + 1
      BY <1>1, <1>8, <3>1 DEF Rises
    <3>3. lines[j].text = "json"
      BY <3>2 DEF LastKept, KeptLines, Kept
    <3>4. ~(lines[j].seq < l.seq)
      BY <1>7, <2>1, <2>5, <3>2
    <3>5. QED
      BY <3>3, <3>4
  <2>6. QED
    BY <1>7, <2>3, <2>4, <2>5
<1>12. PICK kept \in BOOLEAN : kept <=> (l.text = "json" /\ l.seq >= ex)
  OBVIOUS
<1>13. KeptLines(t) = K \cup (IF kept THEN {n + 1} ELSE {})
  <2>1. \A i \in 1 .. (n + 1) : i \in 1 .. n \/ i = n + 1
    OBVIOUS
  <2>2. n + 1 \in 1 .. (n + 1) /\ n + 1 \notin 1 .. n /\ \A i \in 1 .. n : i \in 1 .. (n + 1)
    OBVIOUS
  <2>3. KeptLines(t) = {i \in 1 .. (n + 1) : Kept(t, i)} /\ K = {i \in 1 .. n : Kept(lines, i)}
    BY <1>1, <1>3, <1>5 DEF KeptLines
  <2>4. QED
    BY <1>10, <1>11, <1>12, <2>1, <2>2, <2>3
<1>14. PICK K2 : K2 = KeptLines(t)
  OBVIOUS
<1>15. Cardinality(K2) = Cardinality(K) + (IF kept THEN 1 ELSE 0)
  <2>1. n + 1 \in Nat /\ n + 1 > n
    OBVIOUS
  <2>2. Cardinality(K \cup (IF kept THEN {n + 1} ELSE {})) = Cardinality(K) + (IF kept THEN 1 ELSE 0)
    BY <1>6, <2>1, CountOneMore
  <2>3. QED
    BY <1>13, <1>14, <2>2
<1>16. IF kept THEN q.events = Append(p.events, l) /\ q.expected = l.seq + 1
       ELSE q.events = p.events /\ q.expected = ex
  <2>1. CASE l.text = "garbled"
    BY <1>4, <1>8, <1>12, <2>1, ParseLineIs
  <2>2. CASE l.text = "json" /\ l.seq = ex
    <3>1. q.events = Append(p.events, l) /\ q.expected = l.seq + 1
      BY <1>4, <1>8, <2>2, ParseLineIs
    <3>2. kept
      BY <1>7, <1>12, <2>2
    <3>3. QED
      BY <3>1, <3>2
  <2>3. CASE l.text = "json" /\ l.seq < ex
    BY <1>4, <1>7, <1>8, <1>12, <2>3, ParseLineIs
  <2>4. CASE l.text = "json" /\ l.seq > ex
    <3>1. q.events = Append(p.events, l) /\ q.expected = l.seq + 1
      BY <1>4, <1>8, <2>4, ParseLineIs
    <3>2. kept
      BY <1>7, <1>12, <2>4
    <3>3. QED
      BY <3>1, <3>2
  <2>5. QED
    BY <1>7, <1>9, <2>1, <2>2, <2>3, <2>4
<1>17. Len(p.events) = Cardinality(K)
  BY <1>5 DEF Rises
<1>18. Len(q.events) = Cardinality(K2)
  BY <1>6, <1>7, <1>15, <1>16, <1>17, AppendProperties
<1>19. ASSUME NEW i \in K2
       PROVE  q.events[Cardinality({j \in K2 : j <= i})] = t[i]
  <2>1. CASE i \in K
    <3>1. {j \in K2 : j <= i} = {j \in K : j <= i}
      <4>1. i <= n /\ ~(n + 1 <= i)
        BY <1>6, <2>1
      <4>2. QED
        BY <1>13, <1>14, <4>1
    <3>2. PICK c \in 1 .. Cardinality(K) : c = Cardinality({j \in K : j <= i})
      BY <1>6, <2>1
    <3>3. p.events[c] = lines[i]
      BY <1>5, <2>1, <3>2 DEF Rises
    <3>4. q.events[c] = p.events[c]
      BY <1>7, <1>16, <1>17, <3>2, AppendProperties
    <3>5. t[i] = lines[i]
      BY <1>3, <1>6, <2>1
    <3>6. QED
      BY <3>1, <3>2, <3>3, <3>4, <3>5
  <2>2. CASE i \notin K
    <3>1. kept /\ i = n + 1
      BY <1>13, <1>14, <2>2
    <3>2. {j \in K2 : j <= i} = K2
      <4>1. \A j \in K2 : j <= i
        BY <1>6, <1>13, <1>14, <3>1
      <4>2. QED
        BY <4>1
    <3>3. Cardinality(K2) = Len(p.events) + 1
      BY <1>15, <1>17, <3>1
    <3>4. q.events[Len(p.events) + 1] = l
      BY <1>7, <1>16, <3>1, AppendProperties
    <3>5. QED
      BY <1>3, <3>1, <3>2, <3>3, <3>4
  <2>3. QED
    BY <2>1, <2>2
<1>20. \/ K2 = {} /\ q.expected = 1
       \/ \E i \in 1 .. (n + 1) : LastKept(t, i) /\ q.expected = t[i].seq + 1
  <2>1. CASE kept
    <3>1. n + 1 \in K2 /\ \A j \in K2 : j <= n + 1
      <4>1. K2 = K \cup {n + 1}
        BY <1>13, <1>14, <2>1
      <4>2. \A j \in 1 .. n : j <= n + 1
        OBVIOUS
      <4>3. QED
        BY <1>6, <4>1, <4>2
    <3>2. LastKept(t, n + 1)
      BY <1>14, <3>1 DEF LastKept
    <3>3. n + 1 \in 1 .. (n + 1)
      OBVIOUS
    <3>4. QED
      BY <1>3, <1>16, <2>1, <3>2, <3>3
  <2>2. CASE ~kept
    <3>1. K2 = K
      BY <1>13, <1>14, <2>2
    <3>2. CASE K = {} /\ ex = 1
      BY <1>16, <2>2, <3>1, <3>2
    <3>3. CASE \E i \in 1 .. n : LastKept(lines, i) /\ ex = lines[i].seq + 1
      <4>1. PICK i \in 1 .. n : LastKept(lines, i) /\ ex = lines[i].seq + 1
        BY <3>3
      <4>2. LastKept(t, i)
        BY <1>5, <1>14, <3>1, <4>1 DEF LastKept
      <4>3. i \in 1 .. (n + 1) /\ t[i] = lines[i]
        BY <1>3
      <4>4. QED
        BY <1>16, <2>2, <4>1, <4>2, <4>3
    <3>4. QED
      BY <1>1, <1>5, <1>8, <3>2, <3>3 DEF Rises
  <2>3. QED
    BY <2>1, <2>2
<1>21. ASSUME NEW i \in 1 .. (n + 1), t[i].text = "json"
       PROVE  t[i].seq < q.expected
  <2>1. CASE i = n + 1
    <3>1. t[i] = l
      BY <1>3, <2>1
    <3>2. kept => l.seq < q.expected
      BY <1>7, <1>16
    <3>3. ~kept => l.seq < q.expected
      BY <1>7, <1>12, <1>16, <1>21, <3>1
    <3>4. QED
      BY <3>1, <3>2, <3>3
  <2>2. CASE i # n + 1
    <3>1. i \in 1 .. n /\ t[i] = lines[i]
      BY <1>3, <2>2
    <3>2. lines[i].seq < ex /\ lines[i].seq \in Nat
      BY <1>1, <1>8, <1>21, <3>1 DEF Rises, Lines
    <3>3. ex <= q.expected
      BY <1>7, <1>12, <1>16
    <3>4. q.expected \in Nat
      BY DEF Parses
    <3>5. QED
      BY <3>1, <3>2, <3>3, <3>4
  <2>3. QED
    BY <2>1, <2>2
<1>22. Contiguous(t) <=> Contiguous(lines) /\ l.text = "json" /\ l.seq = n + 1
  <2>1. \A i \in 1 .. (n + 1) : i \in 1 .. n \/ i = n + 1
    OBVIOUS
  <2>2. n + 1 \in 1 .. (n + 1) /\ \A i \in 1 .. n : i \in 1 .. (n + 1)
    OBVIOUS
  <2>3. QED
    BY <1>1, <1>3, <2>1, <2>2 DEF Contiguous
<1>23. /\ p.issues = <<>> <=> Contiguous(lines)
       /\ Contiguous(lines) => ex = n + 1
  BY <1>1, <1>8 DEF Rises
<1>24. q.issues = <<>> <=> Contiguous(t)
  <2>1. CASE l.text = "garbled"
    BY <1>4, <1>22, <2>1, ParseLineIs
  <2>2. CASE l.text = "json" /\ l.seq = ex
    <3>1. q.issues = p.issues
      BY <1>4, <1>8, <2>2, ParseLineIs
    <3>2. QED
      BY <1>22, <1>23, <2>2, <3>1
  <2>3. CASE l.text = "json" /\ l.seq < ex
    <3>1. q.issues # <<>>
      BY <1>4, <1>8, <2>3, ParseLineIs
    <3>2. l.seq # ex
      BY <1>7, <2>3
    <3>3. QED
      BY <1>22, <1>23, <3>1, <3>2
  <2>4. CASE l.text = "json" /\ l.seq > ex
    <3>1. q.issues # <<>>
      BY <1>4, <1>8, <2>4, ParseLineIs
    <3>2. l.seq # ex
      BY <1>7, <2>4
    <3>3. QED
      BY <1>22, <1>23, <3>1, <3>2
  <2>5. QED
    BY <1>7, <1>9, <2>1, <2>2, <2>3, <2>4
<1>25. Contiguous(t) => q.expected = (n + 1) + 1
  BY <1>12, <1>16, <1>22, <1>23
<1>26. Rises(t, q)
  BY <1>3, <1>14, <1>18, <1>19, <1>20, <1>21, <1>24, <1>25 DEF Rises
<1>27. QED
  BY <1>2, <1>4, <1>26

LEMMA LoopRises ==
  ASSUME NEW ls \in Seq(Lines)
  PROVE  Rises(NonBlank(ls), Parsed(ls, Start))
<1> DEFINE S == {b \in Seq(Lines) : Rises(NonBlank(b), Parsed(b, Start))}
<1>1. <<>> \in S
  <2>1. PICK z \in Seq(Lines) : z = <<>>
    BY EmptySeq, Zenon
  <2>2. NonBlank(z) = <<>> /\ Parsed(z, Start) = Start
    BY <2>1, NonBlankEmpty, ParsedEmpty, StartTyped, Zenon
  <2>3. z \in S
    BY <2>2, RisesEmpty
  <2>4. QED
    BY <2>1, <2>3, Zenon
<1>2. ASSUME NEW b \in Seq(Lines), NEW l \in Lines, b \in S
      PROVE  Append(b, l) \in S
  <2>1. PICK p \in Parses : p = Parsed(b, Start)
    BY ParsedTyped, StartTyped
  <2>2. PICK k \in Seq(Lines) : k = NonBlank(b)
    BY NonBlankTyped
  <2>3. Rises(k, p)
    BY <1>2, <2>1, <2>2
  <2>4. Parsed(Append(b, l), Start) = ParseLine(p, l) /\ NonBlank(Append(b, l)) = Taken(k, l)
    BY <2>1, <2>2, ParsedAppend, NonBlankAppend, StartTyped
  <2>5. Append(b, l) \in Seq(Lines)
    OBVIOUS
  <2>6. CASE l.text = "blank"
    <3>1. PICK q : q = ParseLine(p, l)
      OBVIOUS
    <3>2. q.events = p.events /\ q.issues = p.issues /\ q.expected = p.expected
      BY <2>6, <3>1, ParseLineIs
    <3>3. Rises(k, q)
      BY <2>3, <3>2 DEF Rises
    <3>4. QED
      BY <2>4, <2>5, <2>6, <3>1, <3>3 DEF Taken
  <2>7. CASE l.text # "blank"
    <3>1. Rises(Append(k, l), ParseLine(p, l))
      BY <2>3, <2>7, RisesAppend
    <3>2. QED
      BY <2>4, <2>5, <2>7, <3>1 DEF Taken
  <2>8. QED
    BY <2>6, <2>7
<1> HIDE DEF S
<1>3. \A b \in Seq(Lines) : b \in S
  BY <1>1, <1>2, InductionOnSequences
<1>4. QED
  BY <1>3 DEF S

LEMMA LastSeqIs ==
  ASSUME NEW lines \in Seq(Lines), NEW p \in Parses, Rises(lines, p)
  PROVE  p.expected = LastSeq(lines) + 1
<1>1. PICK n \in Nat : n = Len(lines)
  OBVIOUS
<1>2. CASE \E i \in 1 .. n : LastKept(lines, i)
  <2>1. PICK i \in 1 .. n : LastKept(lines, i) /\ p.expected = lines[i].seq + 1
    BY <1>1, <1>2 DEF Rises, LastKept
  <2>2. PICK c \in 1 .. n : c = (CHOOSE j \in 1 .. n : LastKept(lines, j)) /\ LastKept(lines, c)
    BY <2>1
  <2>3. c = i
    BY <2>1, <2>2 DEF LastKept
  <2>4. LastSeq(lines) = lines[c].seq
    BY <1>1, <1>2, <2>2 DEF LastSeq
  <2>5. QED
    BY <2>1, <2>3, <2>4
<1>3. CASE ~\E i \in 1 .. n : LastKept(lines, i)
  <2>1. p.expected = 1
    BY <1>1, <1>3 DEF Rises
  <2>2. LastSeq(lines) = 0
    BY <1>1, <1>3 DEF LastSeq
  <2>3. QED
    BY <2>1, <2>2
<1>4. QED
  BY <1>2, <1>3

-----------------------------------------------------------------------------
(*                         What extend() leaves unread                     *)

LEMMA TailRange ==
  ASSUME NEW bytes \in Bytes
  PROVE  IncompleteTail(bytes) \in 0 .. 3
<1>1. PICK n \in Nat : n = Len(bytes)
  BY DEF Bytes
<1>2. PICK stops : stops = {back \in 1 .. n : back <= 4 /\ ~Continues(bytes[n - back + 1])}
  OBVIOUS
<1>3. PICK back : back = CHOOSE b \in stops : \A c \in stops : b <= c
  OBVIOUS
<1>4. PICK need : need = CharLen(bytes[n - back + 1])
  OBVIOUS
<1>5. IncompleteTail(bytes) =
        IF stops = {} \/ bytes[n - back + 1] < 128 \/ back >= need THEN 0 ELSE need - back
  BY <1>1, <1>2, <1>3, <1>4 DEF IncompleteTail
<1>6. CASE stops = {}
  BY <1>5, <1>6
<1>7. CASE stops # {}
  <2>1. stops \subseteq Nat
    BY <1>2
  <2>2. \E b \in stops : \A c \in stops : b <= c
    BY <1>7, <2>1, LeastNumber
  <2>3. back \in stops
    BY <1>3, <2>2
  <2>4. back \in 1 .. 4 /\ n - back + 1 \in 1 .. n
    BY <1>2, <2>3
  <2>5. bytes[n - back + 1] \in Byte
    BY <1>1, <2>4 DEF Bytes
  <2>6. need \in 1 .. 4
    BY <1>4, <2>5, CharLenRange
  <2>7. QED
    BY <1>5, <2>4, <2>6
<1>8. QED
  BY <1>6, <1>7

LEMMA SubarrayIs ==
  ASSUME NEW bytes \in Bytes, NEW k \in 0 .. 3
  PROVE  /\ \E m \in 0 .. Len(bytes) : Subarray(bytes, Len(bytes) - k) = SubSeq(bytes, 1, m)
         /\ k <= Len(bytes) => Subarray(bytes, Len(bytes) - k) = SubSeq(bytes, 1, Len(bytes) - k)
<1>1. PICK n \in Nat : n = Len(bytes)
  BY DEF Bytes
<1>2. CASE k <= n
  <2>1. n - k \in 0 .. n /\ ~(n - k < 0)
    BY <1>2
  <2>2. Subarray(bytes, n - k) = SubSeq(bytes, 1, n - k)
    BY <1>1, <2>1 DEF Subarray
  <2>3. QED
    BY <1>1, <2>1, <2>2
<1>3. CASE k > n
  <2>0. n + (n - k) \in Int
    OBVIOUS
  <2>1. PICK e \in Int : e = n + (n - k)
    BY <2>0
  <2>2. n - k < 0 /\ e <= n
    BY <1>3, <2>1
  <2>3. Subarray(bytes, n - k) = SubSeq(bytes, 1, e)
    BY <1>1, <2>1, <2>2 DEF Subarray
  <2>4. CASE e >= 0
    <3>1. e \in 0 .. n
      BY <2>2, <2>4
    <3>2. QED
      BY <1>1, <1>3, <2>3, <3>1
  <2>5. CASE e < 0
    <3>1. SubSeq(bytes, 1, e) = <<>> /\ SubSeq(bytes, 1, 0) = <<>>
      BY <2>5, SubSeqEmpty
    <3>2. PICK m \in 0 .. n : m = 0
      OBVIOUS
    <3>3. Subarray(bytes, n - k) = SubSeq(bytes, 1, m)
      BY <2>3, <3>1, <3>2
    <3>4. QED
      BY <1>1, <1>3, <3>3
  <2>6. QED
    BY <2>4, <2>5
<1>4. QED
  BY <1>1, <1>2, <1>3

(* The parts extend() makes of a chunk.                                    *)
HeadOf(chunk) == SubSeq(chunk, 1, HeadEnd(chunk))
RestOf(chunk) == SubSeq(chunk, HeadEnd(chunk) + 1, Len(chunk))
KeepOf(chunk) == Subarray(RestOf(chunk), Len(RestOf(chunk)) - IncompleteTail(RestOf(chunk)))

LEMMA PartsOfChunk ==
  ASSUME NEW chunk \in Bytes
  PROVE  /\ HeadEnd(chunk) \in 0 .. Len(chunk) /\ Len(chunk) \in Nat
         /\ HeadOf(chunk) \in Bytes /\ Len(HeadOf(chunk)) = HeadEnd(chunk)
         /\ RestOf(chunk) \in Bytes /\ Len(RestOf(chunk)) = Len(chunk) - HeadEnd(chunk)
         /\ KeepOf(chunk) \in Bytes
         /\ Len(KeepOf(chunk)) \in 0 .. (Len(chunk) - HeadEnd(chunk))
         /\ KeepOf(chunk) = SubSeq(RestOf(chunk), 1, Len(KeepOf(chunk)))
<1>1. PICK n \in Nat : n = Len(chunk)
  BY DEF Bytes
<1>2. PICK h \in 0 .. n : h = HeadEnd(chunk)
  BY <1>1, HeadEndIs DEF LastNewline
<1>3. chunk \in Seq(Byte) /\ 0 \in 0 .. n /\ 0 + 1 = 1 /\ h - 0 = h
  BY <1>2 DEF Bytes
<1>4. PICK hd : hd = SubSeq(chunk, 0 + 1, h)
  OBVIOUS
<1>5. hd \in Seq(Byte) /\ Len(hd) = h
  BY <1>1, <1>2, <1>3, <1>4, SliceTyped
<1>6. HeadOf(chunk) = hd
  BY <1>2, <1>3, <1>4 DEF HeadOf
<1>7. PICK r : r = RestOf(chunk)
  OBVIOUS
<1>8. r \in Seq(Byte) /\ Len(r) = n - h
  <2>1. r = SubSeq(chunk, h + 1, n) /\ n \in h .. n
    BY <1>1, <1>2, <1>7 DEF RestOf
  <2>2. QED
    BY <1>1, <1>2, <1>3, <2>1, SliceTyped
<1>9. PICK k \in 0 .. 3 : k = IncompleteTail(r)
  BY <1>8, TailRange DEF Bytes
<1>10. PICK l \in Nat : l = n - h /\ l = Len(r)
  BY <1>2, <1>8
<1>11. PICK m \in 0 .. l : KeepOf(chunk) = SubSeq(r, 1, m)
  BY <1>7, <1>8, <1>9, <1>10, SubarrayIs DEF KeepOf, Bytes
<1>12. PICK kp : kp = SubSeq(r, 0 + 1, m)
  OBVIOUS
<1>13. kp \in Seq(Byte) /\ Len(kp) = m
  <2>1. 0 \in 0 .. l /\ m \in 0 .. l /\ m - 0 = m
    BY <1>10
  <2>2. QED
    BY <1>8, <1>10, <1>12, <2>1, SliceTyped
<1>14. KeepOf(chunk) = kp
  BY <1>3, <1>11, <1>12
<1>15. QED
  BY <1>1, <1>2, <1>5, <1>6, <1>7, <1>8, <1>10, <1>11, <1>13, <1>14 DEF Bytes

Entries == [byteSize : Nat, parsed : Parses, partial : String, cached : BOOLEAN]

LinesIn(string) == Front(Split(string))

LEMMA LinesInTyped ==
  ASSUME NEW s \in String
  PROVE  LinesIn(s) \in Seq(String)
<1>1. PICK p \in Seq(String) : p = Split(s) /\ Len(p) > 0
  BY SplitTyped DEF String, Pieces
<1>2. PICK n \in Nat : n = Len(p) - 1
  BY <1>1
<1>3. SubSeq(p, 1, n) \in Seq(String)
  <2>1. \A i \in 1 .. n : p[i] \in String
    BY <1>1, <1>2
  <2>2. QED
    BY <2>1, SubSeqProperties
<1>4. QED
  BY <1>1, <1>2, <1>3 DEF LinesIn, Front

(* What extend() makes of an entry, part by part.                          *)
LEMMA ExtendedIs ==
  ASSUME NEW cached \in Entries, NEW chunk \in Bytes, NEW new, new = Extended(cached, chunk)
  PROVE  /\ new \in Entries /\ new.cached
         /\ new.byteSize = cached.byteSize + HeadEnd(chunk) + Len(KeepOf(chunk))
         /\ HeadEnd(chunk) > 0 =>
              /\ new.parsed = Parsed(LinesOf(LinesIn(cached.partial \o Decoded(HeadOf(chunk)))),
                                     cached.parsed)
              /\ new.partial = Decoded(KeepOf(chunk))
         /\ HeadEnd(chunk) = 0 =>
              new.parsed = cached.parsed /\ new.partial = cached.partial \o Decoded(KeepOf(chunk))
<1>1. PICK h \in Nat : h = HeadEnd(chunk)
  BY PartsOfChunk
<1>2. PICK k \in Nat : k = Len(KeepOf(chunk))
  BY PartsOfChunk
<1>3. PICK dk \in String : dk = Decoded(KeepOf(chunk))
  BY PartsOfChunk, DecodedTyped
<1>4. PICK dh \in String : dh = Decoded(HeadOf(chunk))
  BY PartsOfChunk, DecodedTyped
<1>5. PICK part \in String : part = cached.partial
  BY DEF Entries
<1>6. PICK parsed \in Parses : parsed = cached.parsed
  BY DEF Entries
<1>7. PICK size \in Nat : size = cached.byteSize
  BY DEF Entries
<1>8. PICK ls \in Seq(Lines) : ls = LinesOf(LinesIn(part \o dh))
  <2>1. part \o dh \in String
    BY DEF String
  <2>2. QED
    BY <2>1, LinesInTyped, LinesTyped
<1>9. new = Entry(size + (h + k),
                  Parsed(LinesOf(IF h > 0 THEN LinesIn(part \o dh) ELSE <<>>), parsed),
                  (IF h > 0 THEN <<>> ELSE part) \o dk)
  BY <1>1, <1>2, <1>3, <1>4, <1>5, <1>6, <1>7
     DEF Extended, Consumed, KeepOf, RestOf, HeadOf, LinesIn
<1>10. size + (h + k) \in Nat /\ size + (h + k) = size + h + k
  OBVIOUS
<1>11. CASE h > 0
  <2>1. <<>> \o dk = dk
    BY DEF String
  <2>2. new = [byteSize |-> size + (h + k), parsed |-> Parsed(ls, parsed),
               partial |-> dk, cached |-> TRUE]
    BY <1>8, <1>9, <1>11, <2>1 DEF Entry
  <2>3. Parsed(ls, parsed) \in Parses
    BY ParsedTyped
  <2>4. new \in Entries
    BY <1>10, <2>2, <2>3 DEF Entries
  <2>5. QED
    BY <1>1, <1>2, <1>3, <1>4, <1>5, <1>6, <1>7, <1>8, <1>10, <1>11, <2>2, <2>4
<1>12. CASE h = 0
  <2>1. LinesOf(<<>>) = <<>>
    <3>1. PICK z \in Seq(String) : z = <<>> /\ Len(z) = 0
      BY EmptySeq, Zenon
    <3>2. LinesOf(z) \in Seq(Lines) /\ Len(LinesOf(z)) = 0
      BY <3>1, LinesTyped
    <3>3. PICK y \in Seq(Lines) : y = LinesOf(z)
      BY <3>2
    <3>4. y = <<>>
      BY <3>2, <3>3, EmptySeq
    <3>5. QED
      BY <3>1, <3>3, <3>4, Zenon
  <2>2. Parsed(<<>>, parsed) = parsed
    BY ParsedEmpty
  <2>3. part \o dk \in String
    BY DEF String
  <2>4. ~(h > 0)
    BY <1>12
  <2>5. new = [byteSize |-> size + (h + k), parsed |-> parsed,
               partial |-> part \o dk, cached |-> TRUE]
    BY <1>9, <2>1, <2>2, <2>4 DEF Entry
  <2>6. new \in Entries
    BY <1>10, <2>3, <2>5 DEF Entries
  <2>7. QED
    BY <1>1, <1>2, <1>3, <1>5, <1>6, <1>7, <1>10, <1>12, <2>5, <2>6
<1>13. QED
  BY <1>11, <1>12

-----------------------------------------------------------------------------
(*                            Pieces of a file                             *)

(* The bytes after the a-th, up to the b-th.                               *)
Slice(w, a, b) == SubSeq(w, a + 1, b)

LEMMA SliceFromStart ==
  ASSUME NEW w, NEW b
  PROVE  SubSeq(w, 1, b) = Slice(w, 0, b)
<1>1. 0 + 1 = 1
  OBVIOUS
<1>2. QED
  BY <1>1, Zenon DEF Slice

LEMMA SliceTypedToo ==
  ASSUME NEW T, NEW w \in Seq(T), NEW a \in 0 .. Len(w), NEW b \in a .. Len(w)
  PROVE  /\ Slice(w, a, b) \in Seq(T)
         /\ Len(Slice(w, a, b)) = b - a
         /\ \A i \in 1 .. (b - a) : Slice(w, a, b)[i] = w[a + i]
  BY SliceTyped DEF Slice

(* A slice is known by its elements.                                       *)
LEMMA SliceIs ==
  ASSUME NEW T, NEW w \in Seq(T), NEW a \in 0 .. Len(w), NEW b \in a .. Len(w),
         NEW s \in Seq(T), Len(s) = b - a, \A i \in 1 .. (b - a) : s[i] = w[a + i]
  PROVE  s = Slice(w, a, b)
<1>1. PICK t \in Seq(T) : t = Slice(w, a, b) /\ Len(t) = b - a
                          /\ \A i \in 1 .. (b - a) : t[i] = w[a + i]
  BY SliceTypedToo
<1>2. Len(s) = Len(t) /\ \A i \in 1 .. Len(s) : s[i] = t[i]
  BY <1>1
<1>3. s = t
  BY <1>2, SeqEqual
<1>4. QED
  BY <1>1, <1>3

LEMMA SliceWhole ==
  ASSUME NEW T, NEW w \in Seq(T)
  PROVE  Slice(w, 0, Len(w)) = w
<1>1. PICK n \in Nat : n = Len(w)
  OBVIOUS
<1>2. 0 \in 0 .. n /\ n \in 0 .. n /\ n = n - 0 /\ \A i \in 1 .. (n - 0) : w[i] = w[0 + i]
  OBVIOUS
<1>3. w = Slice(w, 0, n)
  BY <1>1, <1>2, SliceIs
<1>4. QED
  BY <1>1, <1>3

LEMMA SliceOfSlice ==
  ASSUME NEW T, NEW w \in Seq(T), NEW a \in 0 .. Len(w), NEW b \in a .. Len(w),
         NEW c \in 0 .. (b - a), NEW d \in c .. (b - a)
  PROVE  Slice(Slice(w, a, b), c, d) = Slice(w, a + c, a + d)
<1>1. PICK s \in Seq(T) : s = Slice(w, a, b) /\ Len(s) = b - a
                          /\ \A i \in 1 .. (b - a) : s[i] = w[a + i]
  BY SliceTypedToo
<1>2. c \in 0 .. Len(s) /\ d \in c .. Len(s)
  BY <1>1
<1>3. PICK t \in Seq(T) : t = Slice(s, c, d) /\ Len(t) = d - c
                          /\ \A i \in 1 .. (d - c) : t[i] = s[c + i]
  BY <1>2, SliceTypedToo
<1>4. PICK e \in Nat, f \in Nat : e = a + c /\ f = a + d
  OBVIOUS
<1>5. e \in 0 .. Len(w) /\ f \in e .. Len(w) /\ f - e = d - c
  BY <1>4
<1>6. ASSUME NEW i \in 1 .. (d - c)
      PROVE  t[i] = w[e + i]
  <2>1. c + i \in 1 .. (b - a) /\ a + (c + i) = e + i
    BY <1>4
  <2>2. QED
    BY <1>1, <1>3, <2>1
<1>7. t = Slice(w, e, f)
  <2>1. t \in Seq(T) /\ Len(t) = f - e /\ \A i \in 1 .. (f - e) : t[i] = w[e + i]
    BY <1>3, <1>5, <1>6
  <2>2. QED
    BY <1>5, <2>1, SliceIs
<1>8. QED
  BY <1>1, <1>3, <1>4, <1>7

LEMMA SliceJoin ==
  ASSUME NEW T, NEW w \in Seq(T), NEW a \in 0 .. Len(w), NEW b \in a .. Len(w),
         NEW c \in b .. Len(w)
  PROVE  Slice(w, a, b) \o Slice(w, b, c) = Slice(w, a, c)
<1>1. PICK m \in Nat : m = a + 1
  OBVIOUS
<1>2. m \in 1 .. Len(w) + 1 /\ b \in m - 1 .. Len(w)
  BY <1>1
<1>3. SubSeq(w, m, b) \o SubSeq(w, b + 1, c) = SubSeq(w, m, c)
  BY <1>2, ConcatAdjacentSubSeq
<1>4. QED
  BY <1>1, <1>3 DEF Slice

(* What is written behind a slice does not change it.                      *)
LEMMA SliceOfPrefix ==
  ASSUME NEW T, NEW v \in Seq(T), NEW x \in Seq(T), NEW a \in 0 .. Len(v), NEW b \in a .. Len(v)
  PROVE  Slice(v \o x, a, b) = Slice(v, a, b)
<1>0. PICK n \in Nat : n = Len(v)
  OBVIOUS
<1>01. PICK w : w = v \o x
  OBVIOUS
<1>1. /\ w \in Seq(T) /\ w = v \o x /\ Len(w) = n + Len(x)
      /\ \A i \in 1 .. n : w[i] = v[i]
  BY <1>0, <1>01
<1>2. PICK s \in Seq(T) : s = Slice(v, a, b) /\ Len(s) = b - a
                          /\ \A i \in 1 .. (b - a) : s[i] = v[a + i]
  BY SliceTypedToo
<1>3. a \in 0 .. Len(w) /\ b \in a .. Len(w)
  <2>1. n \in Nat /\ Len(x) \in Nat /\ a \in 0 .. n /\ b \in a .. n
    BY <1>0
  <2>2. QED
    BY <1>1, <2>1
<1>4. ASSUME NEW i \in 1 .. (b - a)
      PROVE  s[i] = w[a + i]
  <2>1. a + i \in 1 .. n
    BY <1>0
  <2>2. QED
    BY <1>1, <1>2, <2>1
<1>5. s = Slice(w, a, b)
  <2>1. w \in Seq(T) /\ s \in Seq(T) /\ Len(s) = b - a
    BY <1>1, <1>2
  <2>2. QED
    BY <1>3, <1>4, <2>1, SliceIs
<1>6. QED
  BY <1>1, <1>2, <1>5

LEMMA SliceOfSuffix ==
  ASSUME NEW T, NEW v \in Seq(T), NEW x \in Seq(T)
  PROVE  Slice(v \o x, Len(v), Len(v) + Len(x)) = x
<1>2. PICK n \in Nat, m \in Nat : n = Len(v) /\ m = Len(x)
  OBVIOUS
<1>01. PICK w : w = v \o x
  OBVIOUS
<1>1. /\ w \in Seq(T) /\ w = v \o x /\ Len(w) = n + m
      /\ \A i \in 1 .. m : w[n + i] = x[i]
  BY <1>2, <1>01
<1>3. n \in 0 .. Len(w) /\ n + m \in n .. Len(w) /\ (n + m) - n = m
  BY <1>1, <1>2
<1>31. PICK k \in Nat : k = n + m
  OBVIOUS
<1>4. x = Slice(w, n, k)
  <2>1. n \in 0 .. Len(w) /\ k \in n .. Len(w) /\ k - n = m
    BY <1>3, <1>31
  <2>2. Len(x) = k - n /\ \A i \in 1 .. (k - n) : x[i] = w[n + i]
    BY <1>1, <1>2, <2>1
  <2>3. QED
    BY <1>1, <2>1, <2>2, SliceIs
<1>5. QED
  BY <1>1, <1>2, <1>31, <1>4

-----------------------------------------------------------------------------
(*                    Where extend() ends what it keeps                    *)

(* Behind a cut stands the lead byte of the last character begun, and      *)
(* nothing but its continuation bytes after it.                            *)
LEMMA LeadFound ==
  ASSUME NEW w, WellCoded(w), NEW a, Cut(w, a), NEW n \in Nat, a < n, n <= Len(w)
  PROVE  \E p \in (a + 1) .. n :
           /\ ~Continues(w[p]) /\ CharLen(w[p]) \in 1 .. 4
           /\ \A j \in (p + 1) .. n : Continues(w[j])
           /\ n <= p + CharLen(w[p]) - 1
<1>1. w \in Seq(Byte) /\ a \in Nat /\ a < Len(w)
  BY DEF WellCoded, Bytes, Cut
<1> DEFINE T == {d \in Nat : d < n - a /\ ~Continues(w[n - d])}
<1>2. T # {}
  <2>1. PICK d \in Nat : d = n - a - 1
    BY <1>1
  <2>2. n - d = a + 1 /\ d < n - a
    BY <1>1, <2>1
  <2>3. ~Continues(w[n - d])
    BY <1>1, <2>2 DEF Cut
  <2>4. QED
    BY <2>2, <2>3
<1>3. PICK d \in T : \A c \in T : d <= c
  <2>1. T \subseteq Nat
    OBVIOUS
  <2> HIDE DEF T
  <2>2. QED
    BY <1>2, <2>1, LeastNumber
<1>4. PICK p \in (a + 1) .. n : p = n - d
  BY <1>1, <1>3
<1>5. p \in 1 .. Len(w) /\ ~Continues(w[p])
  BY <1>1, <1>3, <1>4
<1>6. PICK m \in 1 .. 4 : m = CharLen(w[p])
  <2>1. w[p] \in Byte
    BY <1>1, <1>5
  <2>2. QED
    BY <2>1, CharLenRange
<1>7. ASSUME NEW j \in (p + 1) .. n
      PROVE  Continues(w[j])
  <2>1. PICK c \in Nat : c = n - j
    BY <1>4
  <2>2. c < d /\ c < n - a /\ n - c = j
    BY <1>1, <1>3, <1>4, <2>1
  <2>3. c \notin T
    BY <1>3, <2>2
  <2>4. QED
    BY <2>2, <2>3
<1>8. n <= p + m - 1
  <2>1. SUFFICES ASSUME p + m <= n
                 PROVE  FALSE
    BY <1>4, <1>6
  <2>2. p + m \in (p + 1) .. n /\ p + m <= Len(w)
    BY <1>1, <1>4, <1>6, <2>1
  <2>3. ~Continues(w[p + m])
    BY <1>5, <1>6, <2>2 DEF WellCoded
  <2>4. QED
    BY <1>7, <2>2, <2>3
<1>9. QED
  BY <1>4, <1>5, <1>6, <1>7, <1>8

(* So extend() stops between two characters, unless the file was stat'ed   *)
(* inside a character of three or four bytes, of which IncompleteTail      *)
(* leaves the wrong number unread.                                         *)
LEMMA KeptBetweenCharacters ==
  ASSUME NEW w, WellCoded(w), NEW a, Cut(w, a), NEW n \in a .. Len(w),
         ~InsideWide(Slice(w, 0, n))
  PROVE  LET k == IncompleteTail(Slice(w, a, n)) IN k \in 0 .. (n - a) /\ Cut(w, n - k)
<1>1. w \in Seq(Byte) /\ a \in 0 .. Len(w) /\ a \in Nat /\ n \in Nat /\ n <= Len(w)
  BY DEF WellCoded, Bytes, Cut
<1>2. PICK l \in Nat : l = n - a
  BY <1>1
<1>3. PICK t : t = Slice(w, a, n)
  OBVIOUS
<1>4. Len(t) = l /\ \A i \in 1 .. l : t[i] = w[a + i]
  BY <1>1, <1>2, <1>3, SliceTypedToo
<1>5. PICK stops : stops = {b \in 1 .. l : b <= 4 /\ ~Continues(t[l - b + 1])}
  OBVIOUS
<1>6. PICK back : back = CHOOSE b \in stops : \A c \in stops : b <= c
  OBVIOUS
<1>7. IncompleteTail(t) =
        IF stops = {} \/ t[l - back + 1] < 128 \/ back >= CharLen(t[l - back + 1])
        THEN 0 ELSE CharLen(t[l - back + 1]) - back
  BY <1>4, <1>5, <1>6 DEF IncompleteTail
<1>8. SUFFICES ASSUME NEW k, k = IncompleteTail(t)
               PROVE  k \in 0 .. l /\ Cut(w, n - k)
  BY <1>2, <1>3
<1>9. CASE l = 0
  <2>1. stops = {} /\ n - 0 = a
    BY <1>1, <1>2, <1>5, <1>9
  <2>2. QED
    BY <1>7, <1>8, <1>9, <2>1
<1>10. CASE l > 0
  <2>1. a < n
    BY <1>1, <1>2, <1>10
  <2>2. PICK p \in (a + 1) .. n :
          /\ ~Continues(w[p]) /\ CharLen(w[p]) \in 1 .. 4
          /\ \A j \in (p + 1) .. n : Continues(w[j])
          /\ n <= p + CharLen(w[p]) - 1
    BY <1>1, <2>1, LeadFound
  <2>3. PICK need \in 1 .. 4 : need = CharLen(w[p])
    BY <2>2
  <2>4. PICK m \in Nat : m = n - p + 1
    BY <1>1, <2>2
  <2>5. m \in 1 .. l /\ m <= need /\ n - m + 1 = p /\ p \in 1 .. Len(w)
    BY <1>1, <1>2, <2>2, <2>3, <2>4
  <2>6. ASSUME NEW b \in 1 .. l
        PROVE  t[l - b + 1] = w[n - b + 1]
    <3>1. PICK i \in 1 .. l : i = l - b + 1
      OBVIOUS
    <3>2. a + i = n - b + 1
      BY <1>1, <1>2, <3>1
    <3>3. QED
      BY <1>4, <3>1, <3>2
  <2>7. t[l - m + 1] = w[p]
    BY <2>5, <2>6
  <2>8. m \in stops
    BY <1>5, <2>2, <2>3, <2>5, <2>7
  <2>9. ASSUME NEW b \in stops
        PROVE  m <= b
    <3>1. SUFFICES ASSUME b < m
                   PROVE  FALSE
      BY <1>5, <2>5
    <3>2. b \in 1 .. l /\ ~Continues(t[l - b + 1])
      BY <1>5
    <3>3. n - b + 1 \in (p + 1) .. n
      BY <1>1, <2>2, <2>4, <3>1, <3>2
    <3>4. QED
      BY <2>2, <2>6, <3>2, <3>3
  <2>10. \A b \in stops : b \in Nat
    BY <1>5
  <2>11. back \in stops /\ \A c \in stops : back <= c
    BY <1>6, <2>8, <2>9
  <2>12. back = m
    BY <2>8, <2>9, <2>10, <2>11
  <2>13. w[p] \in Byte /\ (w[p] < 128 => need = 1)
    <3>1. PICK b \in Byte : b = w[p]
      BY <1>1, <2>5
    <3>2. b < 128 => CharLen(b) = 1
      BY DEF CharLen, Byte
    <3>3. QED
      BY <2>3, <3>1, <3>2
  <2>14. CASE m = need
    <3>1. k = 0
      BY <1>7, <1>8, <2>3, <2>7, <2>12, <2>14
    <3>2. n + 1 <= Len(w) => ~Continues(w[n + 1])
      <4>1. p + need = n + 1
        BY <1>1, <2>2, <2>4, <2>14
      <4>2. p + need <= Len(w) => ~Continues(w[p + need])
        BY <2>2, <2>3, <2>5 DEF WellCoded
      <4>3. QED
        BY <4>1, <4>2
    <3>3. Cut(w, n)
      BY <1>1, <3>2 DEF Cut
    <3>4. QED
      BY <1>1, <3>1, <3>3
  <2>15. CASE m < need
    <3>1. need = 2 /\ m = 1
      <4>1. SUFFICES ASSUME need > 2
                     PROVE  FALSE
        BY <2>3, <2>5, <2>15
      <4>2. PICK u : u = Slice(w, 0, n)
        OBVIOUS
      <4>3. Len(u) = n /\ \A i \in 1 .. n : u[i] = w[i]
        <5>1. 0 \in 0 .. Len(w) /\ n \in 0 .. Len(w) /\ n - 0 = n
          BY <1>1
        <5>2. Len(u) = n /\ \A i \in 1 .. n : u[i] = w[0 + i]
          BY <1>1, <4>2, <5>1, SliceTypedToo
        <5>3. \A i \in 1 .. n : 0 + i = i
          OBVIOUS
        <5>4. QED
          BY <5>2, <5>3
      <4>4. p \in 1 .. n /\ n - p + 1 < need /\ \A j \in (p + 1) .. n : j \in 1 .. n
        BY <1>1, <2>2, <2>4, <2>15
      <4>5. /\ CharLen(u[p]) > 2 /\ Len(u) - p + 1 < CharLen(u[p])
            /\ \A j \in (p + 1) .. Len(u) : Continues(u[j])
        BY <2>2, <2>3, <4>1, <4>3, <4>4
      <4>6. InsideWide(u)
        BY <4>3, <4>4, <4>5 DEF InsideWide
      <4>7. QED
        BY <4>2, <4>6
    <3>2. k = 1
      <4>1. ~(stops = {} \/ w[p] < 128 \/ m >= need)
        BY <2>8, <2>13, <3>1
      <4>2. k = need - m
        BY <1>7, <1>8, <2>3, <2>7, <2>12, <4>1
      <4>3. QED
        BY <3>1, <4>2
    <3>3. p = n /\ n - 1 \in 0 .. Len(w) /\ n - 1 + 1 = n
      BY <1>1, <2>2, <2>4, <2>5, <3>1
    <3>4. Cut(w, n - 1)
      BY <2>2, <3>3 DEF Cut
    <3>5. QED
      BY <1>10, <3>2, <3>4
  <2>16. QED
    BY <2>3, <2>5, <2>14, <2>15
<1>11. QED
  BY <1>2, <1>9, <1>10

-----------------------------------------------------------------------------
(*                        What an entry stands for                         *)

LEMMA DecodeEmpty ==
  ASSUME NEW z, z = <<>>
  PROVE  Decoded(z) = <<>>
<1>1. PICK cs \in Seq(Characters) : cs = <<>>
  BY EmptySeq
<1>2. FlattenSeq(cs) = z
  BY <1>1, FlattenEmpty, Zenon
<1>3. Decoded(FlattenSeq(cs)) = cs
  BY DecodeFlatten
<1>4. QED
  BY <1>1, <1>2, <1>3, Zenon

LEMMA SliceNothing ==
  ASSUME NEW T, NEW w \in Seq(T), NEW k \in 0 .. Len(w), NEW z, z = <<>>
  PROVE  Slice(w, k, k) = z
<1>1. PICK y : y = Slice(w, k, k)
  OBVIOUS
<1>2. y \in Seq(T) /\ Len(y) = k - k
  <2>1. k \in k .. Len(w)
    OBVIOUS
  <2>2. QED
    BY <1>1, <2>1, SliceTypedToo
<1>3. Len(y) = 0
  BY <1>2
<1>4. y = <<>>
  BY <1>2, <1>3, EmptySeq
<1>5. QED
  BY <1>1, <1>4

LEMMA FrontOfAppend ==
  ASSUME NEW T, NEW s \in Seq(T), NEW x \in T
  PROVE  Front(Append(s, x)) = s
<1>1. PICK n \in Nat : n = Len(s)
  OBVIOUS
<1>2. PICK t : t = Append(s, x)
  OBVIOUS
<1>3. /\ t \in Seq(T) /\ Len(t) = n + 1 /\ \A i \in 1 .. n : t[i] = s[i]
  BY <1>1, <1>2, AppendProperties
<1>4. Front(t) = SubSeq(t, 1, n)
  <2>1. n + 1 - 1 = n
    OBVIOUS
  <2>2. QED
    BY <1>3, <2>1 DEF Front
<1>5. SubSeq(t, 1, n) = Slice(t, 0, n)
  BY SliceFromStart
<1>6. s = Slice(t, 0, n)
  <2>1. 0 \in 0 .. Len(t) /\ n \in 0 .. Len(t) /\ Len(s) = n - 0
    BY <1>1, <1>3
  <2>2. \A i \in 1 .. (n - 0) : s[i] = t[0 + i]
    BY <1>3
  <2>3. QED
    BY <1>3, <2>1, <2>2, SliceIs
<1>7. QED
  BY <1>2, <1>4, <1>5, <1>6

LEMMA StringsAssociate ==
  ASSUME NEW a \in String, NEW b \in String, NEW c \in String
  PROVE  (a \o b) \o c = a \o (b \o c)
<1>1. PICK V : V = Bytes
  OBVIOUS
<1>2. a \in Seq(V) /\ b \in Seq(V) /\ c \in Seq(V)
  BY <1>1 DEF String
<1>3. QED
  BY <1>2, ConcatAssociative

LEMMA ConcatOfAppend ==
  ASSUME NEW T, NEW a \in Seq(T), NEW b \in Seq(T), NEW x \in T
  PROVE  a \o Append(b, x) = Append(a \o b, x)
<1>01. PICK e : e = <<x>>
  OBVIOUS
<1>1. e \in Seq(T) /\ e = <<x>>
  BY <1>01
<1>2. Append(b, x) = b \o e
  BY <1>1, AppendIsConcat
<1>3. a \o b \in Seq(T)
  BY ConcatProperties
<1>4. Append(a \o b, x) = (a \o b) \o e
  BY <1>1, <1>3, AppendIsConcat
<1>5. QED
  BY <1>2, <1>4, ConcatAssociative

(* A newline ends a character.                                             *)
LEMMA CutBehindNewline ==
  ASSUME NEW w, WellCoded(w), NEW h \in 1 .. Len(w), w[h] = NL
  PROVE  Cut(w, h)
<1>1. w \in Seq(Byte) /\ w[h] = 10
  BY DEF WellCoded, Bytes, NL
<1>2. CharLen(w[h]) = 1 /\ ~Continues(w[h])
  BY <1>1 DEF CharLen, Continues
<1>3. h + 1 <= Len(w) => ~Continues(w[h + 1])
  BY <1>1, <1>2 DEF WellCoded
<1>4. QED
  BY <1>1, <1>3 DEF Cut

LEMMA CutAtNewline ==
  ASSUME NEW w, WellCoded(w), NEW h, LastNewline(w, h)
  PROVE  Cut(w, h)
<1>1. w \in Seq(Byte) /\ h \in 0 .. Len(w)
  BY DEF WellCoded, Bytes, LastNewline
<1>2. CASE h = 0
  BY <1>1, <1>2 DEF Cut, WellCoded
<1>3. CASE h > 0
  <2>1. h \in 1 .. Len(w) /\ w[h] = NL
    BY <1>1, <1>3 DEF LastNewline
  <2>2. QED
    BY <2>1, CutBehindNewline
<1>4. QED
  BY <1>1, <1>2, <1>3

LEMMA LastNewlineStays ==
  ASSUME NEW o \in Bytes, NEW y \in Bytes, NEW h, LastNewline(o, h),
         \A j \in 1 .. Len(y) : y[j] # NL
  PROVE  LastNewline(o \o y, h)
<1>1. PICK n \in Nat, m \in Nat : n = Len(o) /\ m = Len(y)
  BY DEF Bytes
<1>2. o \in Seq(Byte) /\ y \in Seq(Byte) /\ h \in 0 .. n
  BY <1>1 DEF Bytes, LastNewline
<1>3. PICK w : w = o \o y
  OBVIOUS
<1>4. /\ w \in Seq(Byte) /\ Len(w) = n + m
      /\ \A i \in 1 .. n : w[i] = o[i]
      /\ \A i \in 1 .. m : w[n + i] = y[i]
  BY <1>1, <1>2, <1>3
<1>5. h \in 0 .. Len(w)
  BY <1>2, <1>4
<1>6. h > 0 => w[h] = NL
  BY <1>2, <1>4 DEF LastNewline
<1>7. ASSUME NEW j \in 1 .. Len(w), w[j] = NL
      PROVE  j <= h
  <2>1. CASE j <= n
    <3>1. j \in 1 .. n /\ o[j] = NL
      BY <1>4, <1>7, <2>1
    <3>2. QED
      BY <1>1, <3>1 DEF LastNewline
  <2>2. CASE j > n
    <3>1. j - n \in 1 .. m /\ j = n + (j - n)
      BY <1>4, <2>2
    <3>2. PICK i \in 1 .. m : j = n + i
      BY <3>1
    <3>3. y[i] = NL
      BY <1>4, <1>7, <3>2
    <3>4. QED
      BY <1>1, <3>3
  <2>3. QED
    BY <1>4, <2>1, <2>2
<1>8. QED
  BY <1>3, <1>5, <1>6, <1>7 DEF LastNewline

(* The complete lines of the bytes o are parsed, and the rest is kept.     *)
Holds(parsed, partial, o) ==
  /\ WellCoded(o)
  /\ \E h \in Nat, ls \in Seq(String) :
       /\ LastNewline(o, h)
       /\ Split(Decoded(Slice(o, 0, h))) = Append(ls, <<>>)
       /\ parsed = Parsed(LinesOf(ls), Start)
       /\ partial = Decoded(Slice(o, h, Len(o)))

(* The part before the last newline and the part after it.                 *)
LEMMA TwoParts ==
  ASSUME NEW o, WellCoded(o), NEW h \in Nat, LastNewline(o, h)
  PROVE  /\ h \in 0 .. Len(o) /\ Len(o) \in Nat /\ o \in Seq(Byte)
         /\ WellCoded(Slice(o, 0, h)) /\ WellCoded(Slice(o, h, Len(o)))
         /\ o = Slice(o, 0, h) \o Slice(o, h, Len(o))
         /\ Decoded(o) = Decoded(Slice(o, 0, h)) \o Decoded(Slice(o, h, Len(o)))
<1>1. PICK n \in Nat : n = Len(o) /\ h \in 0 .. n /\ o \in Seq(Byte)
  BY DEF WellCoded, Bytes, LastNewline
<1>2. Cut(o, 0) /\ Cut(o, h) /\ Cut(o, n)
  BY <1>1, CutAtNewline DEF Cut, WellCoded
<1>3. WellCoded(Slice(o, 0, h))
  BY <1>1, <1>2, WellCodedSlice DEF Slice
<1>4. WellCoded(Slice(o, h, n))
  BY <1>1, <1>2, WellCodedSlice DEF Slice
<1>5. Slice(o, 0, h) \o Slice(o, h, n) = o
  <2>1. 0 \in 0 .. n /\ h \in 0 .. n /\ n \in h .. n
    BY <1>1
  <2>2. Slice(o, 0, h) \o Slice(o, h, n) = Slice(o, 0, n)
    BY <1>1, <2>1, SliceJoin
  <2>3. QED
    BY <1>1, <2>2, SliceWhole
<1>6. Decoded(Slice(o, 0, h) \o Slice(o, h, n)) = Decoded(Slice(o, 0, h)) \o Decoded(Slice(o, h, n))
  BY <1>3, <1>4, DecodeConcat
<1>7. QED
  BY <1>1, <1>3, <1>4, <1>5, <1>6

(* Bytes without a newline lengthen the rest.                              *)
LEMMA HoldsMore ==
  ASSUME NEW parsed, NEW partial, NEW o, Holds(parsed, partial, o),
         NEW y, WellCoded(y), \A j \in 1 .. Len(y) : y[j] # NL
  PROVE  Holds(parsed, partial \o Decoded(y), o \o y)
<1>1. WellCoded(o)
  BY DEF Holds
<1>2. PICK h \in Nat, ls \in Seq(String) :
        /\ LastNewline(o, h)
        /\ Split(Decoded(Slice(o, 0, h))) = Append(ls, <<>>)
        /\ parsed = Parsed(LinesOf(ls), Start)
        /\ partial = Decoded(Slice(o, h, Len(o)))
  BY DEF Holds
<1>3. PICK n \in Nat, m \in Nat : n = Len(o) /\ m = Len(y)
  BY <1>1 DEF WellCoded, Bytes
<1>4. o \in Seq(Byte) /\ y \in Seq(Byte) /\ h \in 0 .. n
  BY <1>1, <1>2, <1>3 DEF WellCoded, Bytes, LastNewline
<1>5. PICK w : w = o \o y
  OBVIOUS
<1>6. /\ w \in Seq(Byte) /\ Len(w) = n + m
      /\ \A i \in 1 .. n : w[i] = o[i]
      /\ \A i \in 1 .. m : w[n + i] = y[i]
  BY <1>3, <1>4, <1>5
<1>7. WellCoded(w)
  BY <1>1, <1>5, WellCodedConcat
<1>8. LastNewline(w, h)
  BY <1>2, <1>4, <1>5, LastNewlineStays DEF Bytes
<1>9. Slice(w, 0, h) = Slice(o, 0, h) /\ Slice(w, h, n) = Slice(o, h, n)
  <2>1. 0 \in 0 .. Len(o) /\ h \in 0 .. Len(o) /\ n \in h .. Len(o)
    BY <1>3, <1>4
  <2>2. QED
    BY <1>4, <1>5, <2>1, SliceOfPrefix
<1>10. Slice(w, h, n + m) = Slice(o, h, n) \o y
  <2>1. PICK k \in Nat : k = n + m
    OBVIOUS
  <2>2. h \in 0 .. Len(w) /\ n \in h .. Len(w) /\ k \in n .. Len(w)
    BY <1>4, <1>6, <2>1
  <2>3. Slice(w, h, n) \o Slice(w, n, k) = Slice(w, h, k)
    BY <1>6, <2>2, SliceJoin
  <2>4. Slice(w, n, k) = y
    BY <1>3, <1>4, <1>5, <2>1, SliceOfSuffix
  <2>5. QED
    BY <1>9, <2>1, <2>3, <2>4
<1>11. WellCoded(Slice(o, h, n))
  BY <1>1, <1>2, <1>3, TwoParts
<1>12. Decoded(Slice(w, h, n + m)) = partial \o Decoded(y)
  BY <1>2, <1>3, <1>10, <1>11, DecodeConcat
<1>13. QED
  BY <1>2, <1>5, <1>6, <1>7, <1>8, <1>9, <1>12 DEF Holds

(* Bytes that end in a newline make complete lines of the rest.            *)
LEMMA HoldsLines ==
  ASSUME NEW parsed, NEW partial, NEW o, Holds(parsed, partial, o),
         NEW x, WellCoded(x), NEW m \in Nat, Len(x) = m + 1, x[m + 1] = NL,
         NEW z, z = <<>>
  PROVE  Holds(Parsed(LinesOf(LinesIn(partial \o Decoded(x))), parsed), z, o \o x)
<1>1. WellCoded(o)
  BY DEF Holds
<1>2. PICK h \in Nat, ls \in Seq(String) :
        /\ LastNewline(o, h)
        /\ Split(Decoded(Slice(o, 0, h))) = Append(ls, <<>>)
        /\ parsed = Parsed(LinesOf(ls), Start)
        /\ partial = Decoded(Slice(o, h, Len(o)))
  BY DEF Holds
<1>3. PICK n \in Nat : n = Len(o)
  BY <1>1 DEF WellCoded, Bytes
<1>4. PICK u : u = Slice(o, 0, h)
  OBVIOUS
<1>5. PICK v : v = Slice(o, h, n)
  OBVIOUS
<1>6. WellCoded(u) /\ WellCoded(v) /\ o = u \o v
  BY <1>1, <1>2, <1>3, <1>4, <1>5, TwoParts
<1>7. PICK du \in String, dv \in String, dx \in String :
        du = Decoded(u) /\ dv = Decoded(v) /\ dx = Decoded(x)
  BY <1>6, DecodedTyped DEF WellCoded
<1>8. PICK s : s = dv \o dx
  OBVIOUS
<1>9. s = Decoded(v \o x)
  BY <1>6, <1>7, <1>8, DecodeConcat
<1>10. s \in String /\ AtLineStart(s)
  <2>1. s \in String
    BY <1>7, <1>8 DEF String
  <2>2. PICK k \in Nat : k = Len(v) + m
    BY <1>6 DEF WellCoded, Bytes
  <2>3. PICK l \in Nat : l = Len(v)
    BY <1>6 DEF WellCoded, Bytes
  <2>4. PICK vx : vx = v \o x
    OBVIOUS
  <2>5. v \in Seq(Byte) /\ x \in Seq(Byte)
    BY <1>6 DEF WellCoded, Bytes
  <2>6. Len(vx) = k + 1 /\ \A i \in 1 .. (m + 1) : vx[l + i] = x[i]
    BY <2>2, <2>3, <2>4, <2>5
  <2>7. vx[k + 1] = NL
    <3>1. k + 1 = l + (m + 1) /\ m + 1 \in 1 .. (m + 1)
      BY <2>2, <2>3
    <3>2. PICK i \in 1 .. (m + 1) : i = m + 1
      BY <3>1
    <3>3. QED
      BY <2>6, <3>1, <3>2
  <2>8. WellCoded(vx)
    BY <1>6, <2>4, WellCodedConcat
  <2>9. \E t \in Seq(Characters) : Decoded(vx) = Append(t, <<NL>>)
    BY <2>6, <2>7, <2>8, DecodeNewline
  <2>10. QED
    BY <1>9, <2>1, <2>4, <2>9, CharactersAreBytes DEF AtLineStart
<1>11. PICK ls2 \in Seq(String) : Split(s) = Append(ls2, <<>>)
  BY <1>10, SplitAtLineStart
<1>12. PICK e \in String : e = <<>>
  BY EmptySeq DEF String
<1>13. LinesIn(s) = ls2
  <2>1. Front(Append(ls2, e)) = ls2
    BY FrontOfAppend
  <2>2. QED
    BY <1>11, <1>12, <2>1, Zenon DEF LinesIn
<1>14. ls \o ls2 \in Seq(String)
  BY ConcatProperties
<1>15. PICK all \in Seq(String) : all = ls \o ls2
  BY <1>14
<1>16. Parsed(LinesOf(ls2), parsed) = Parsed(LinesOf(all), Start)
  <2>1. LinesOf(ls) \in Seq(Lines) /\ LinesOf(ls2) \in Seq(Lines)
    BY LinesTyped
  <2>2. LinesOf(all) = LinesOf(ls) \o LinesOf(ls2)
    BY <1>15, LinesConcat
  <2>3. QED
    BY <1>2, <2>1, <2>2, ParsedConcat, StartTyped
<1>17. PICK w : w = o \o x
  OBVIOUS
<1>18. WellCoded(w)
  BY <1>1, <1>17, WellCodedConcat
<1>19. Decoded(w) = du \o s
  <2>1. Decoded(o) = du \o dv
    BY <1>6, <1>7, DecodeConcat
  <2>2. Decoded(w) = (du \o dv) \o dx
    BY <1>1, <1>7, <1>17, <2>1, DecodeConcat
  <2>3. (du \o dv) \o dx = du \o (dv \o dx)
    BY StringsAssociate
  <2>4. QED
    BY <1>8, <2>2, <2>3
<1>20. Split(Decoded(w)) = Append(all, <<>>)
  <2>1. Split(du) = Append(ls, <<>>)
    BY <1>2, <1>4, <1>7
  <2>2. Split(du \o s) = ls \o Split(s)
    BY <1>7, <1>10, <2>1, SplitConcat
  <2>3. ls \o Append(ls2, e) = Append(all, e)
    BY <1>15, ConcatOfAppend
  <2>4. QED
    BY <1>11, <1>12, <1>19, <2>2, <2>3, Zenon
<1>21. PICK k \in Nat : k = Len(w)
  BY <1>18 DEF WellCoded, Bytes
<1>22. LastNewline(w, k)
  <2>1. o \in Seq(Byte) /\ x \in Seq(Byte)
    BY <1>1 DEF WellCoded, Bytes
  <2>11. PICK l \in Nat : l = m + 1 /\ l = Len(x)
    OBVIOUS
  <2>2. Len(w) = n + l /\ \A i \in 1 .. l : w[n + i] = x[i]
    <3>1. /\ Len(o \o x) = Len(o) + Len(x)
          /\ \A i \in 1 .. Len(o) + Len(x) :
               (o \o x)[i] = IF i <= Len(o) THEN o[i] ELSE x[i - Len(o)]
      BY <2>1, ConcatProperties
    <3>2. /\ Len(w) = n + l
          /\ \A i \in 1 .. n + l : w[i] = IF i <= n THEN o[i] ELSE x[i - n]
      BY <1>3, <1>17, <2>11, <3>1
    <3>3. \A i \in 1 .. l : n + i \in 1 .. n + l /\ ~(n + i <= n) /\ n + i - n = i
      OBVIOUS
    <3>4. QED
      BY <3>2, <3>3
  <2>3. PICK i \in 1 .. l : i = l /\ i = m + 1
    BY <2>11
  <2>4. w[k] = NL
    BY <1>21, <2>2, <2>3
  <2>5. QED
    BY <1>21, <2>4 DEF LastNewline
<1>23. Slice(w, 0, k) = w
  BY <1>18, <1>21, SliceWhole DEF WellCoded, Bytes
<1>24. Decoded(Slice(w, k, Len(w))) = z
  <2>1. w \in Seq(Byte) /\ k \in 0 .. Len(w)
    BY <1>18, <1>21 DEF WellCoded, Bytes
  <2>2. Slice(w, k, k) = z
    BY <2>1, SliceNothing
  <2>3. QED
    BY <1>21, <2>2, DecodeEmpty
<1>25. Holds(Parsed(LinesOf(ls2), parsed), z, w)
  BY <1>16, <1>18, <1>20, <1>21, <1>22, <1>23, <1>24 DEF Holds
<1>26. QED
  <2>1. partial \o Decoded(x) = s
    BY <1>2, <1>3, <1>5, <1>7, <1>8
  <2>2. QED
    BY <1>13, <1>17, <1>25, <2>1

-----------------------------------------------------------------------------
(*                        What a read may answer                           *)

(* The report is that of the bytes c, with or without an incomplete line.  *)
Agrees(parsed, c) ==
  \E direct \in {Report(c), Report(Complete(c))} :
    /\ parsed.events = direct.events
    /\ parsed.issues = direct.issues
    /\ parsed.expected = direct.expected

LEMMA CompleteIs ==
  ASSUME NEW w \in Bytes, NEW h, LastNewline(w, h)
  PROVE  Complete(w) = Slice(w, 0, h)
<1>1. h = HeadEnd(w)
  BY HeadEndIs
<1>2. QED
  BY <1>1, SliceFromStart DEF Complete

(* The piece after the last newline is empty and changes no report.        *)
LEMMA OpenEndIsNothing ==
  ASSUME NEW ls \in Seq(String), NEW parsed, parsed = Parsed(LinesOf(ls), Start),
         NEW r, r = Parsed(LinesOf(Append(ls, <<>>)), Start)
  PROVE  /\ parsed \in Parses /\ r \in Parses
         /\ r.lines = parsed.lines + 1
         /\ r.events = parsed.events /\ r.issues = parsed.issues
         /\ r.expected = parsed.expected
<1>1. LinesOf(ls) \in Seq(Lines)
  BY LinesTyped
<1>2. parsed \in Parses
  BY <1>1, ParsedTyped, StartTyped
<1>3. Blank \in Lines
  BY BlankIsALine
<1>4. r = ParseLine(parsed, Blank)
  BY <1>1, <1>3, LinesOfOpenEnd, ParsedAppend, StartTyped
<1>5. Blank.text = "blank"
  BY DEF Blank
<1>6. QED
  BY <1>2, <1>3, <1>4, <1>5, ParseLineIs

LEMMA HoldsAgrees ==
  ASSUME NEW parsed, NEW partial, NEW o, Holds(parsed, partial, o),
         NEW y \in Bytes, \A j \in 1 .. Len(y) : y[j] # NL
  PROVE  Agrees(parsed, o \o y)
<1>1. o \in Bytes /\ WellCoded(o)
  BY DEF Holds, WellCoded
<1>2. PICK h \in Nat, ls \in Seq(String) :
        /\ LastNewline(o, h)
        /\ Split(Decoded(Slice(o, 0, h))) = Append(ls, <<>>)
        /\ parsed = Parsed(LinesOf(ls), Start)
  BY DEF Holds
<1>3. PICK c : c = o \o y
  OBVIOUS
<1>4. c \in Bytes /\ o \in Seq(Byte) /\ y \in Seq(Byte)
  BY <1>1, <1>3 DEF Bytes
<1>5. LastNewline(c, h)
  BY <1>1, <1>2, <1>3, LastNewlineStays
<1>6. Slice(c, 0, h) = Slice(o, 0, h)
  <2>1. 0 \in 0 .. Len(o) /\ h \in 0 .. Len(o)
    BY <1>2, <1>4 DEF LastNewline
  <2>2. QED
    BY <1>3, <1>4, <2>1, SliceOfPrefix
<1>7. Report(Complete(c)) = Parsed(LinesOf(Append(ls, <<>>)), Start)
  BY <1>2, <1>4, <1>5, <1>6, CompleteIs DEF Report
<1>8. QED
  BY <1>2, <1>3, <1>7, OpenEndIsNothing DEF Agrees

(* What an entry owns, as EntryOwns says it.                               *)
LEMMA HoldsOwns ==
  ASSUME NEW parsed, NEW partial, NEW o, Holds(parsed, partial, o)
  PROVE  /\ FlattenSeq(partial) = SubSeq(o, Len(Complete(o)) + 1, Len(o))
         /\ parsed.lines = Cardinality({i \in 1 .. Len(o) : o[i] = NL})
<1>1. o \in Bytes /\ WellCoded(o)
  BY DEF Holds, WellCoded
<1>2. PICK h \in Nat, ls \in Seq(String) :
        /\ LastNewline(o, h)
        /\ Split(Decoded(Slice(o, 0, h))) = Append(ls, <<>>)
        /\ parsed = Parsed(LinesOf(ls), Start)
        /\ partial = Decoded(Slice(o, h, Len(o)))
  BY DEF Holds
<1>3. PICK u : u = Slice(o, 0, h)
  OBVIOUS
<1>4. /\ h \in 0 .. Len(o) /\ Len(o) \in Nat /\ o \in Seq(Byte)
      /\ WellCoded(u) /\ WellCoded(Slice(o, h, Len(o)))
  BY <1>1, <1>2, <1>3, TwoParts
<1>5. Len(u) = h /\ \A i \in 1 .. h : u[i] = o[i]
  <2>1. 0 \in 0 .. Len(o) /\ h \in 0 .. Len(o)
    BY <1>4
  <2>2. Len(u) = h - 0 /\ \A i \in 1 .. (h - 0) : u[i] = o[0 + i]
    BY <1>3, <1>4, <2>1, SliceTypedToo
  <2>3. h - 0 = h /\ \A i \in 1 .. h : 0 + i = i
    OBVIOUS
  <2>4. QED
    BY <2>2, <2>3
<1>6. Len(Complete(o)) = h
  BY <1>1, <1>2, <1>3, <1>5, CompleteIs
<1>7. FlattenSeq(partial) = Slice(o, h, Len(o))
  BY <1>2, <1>4, DecodeInverse
<1>8. parsed.lines = Len(ls)
  <2>1. LinesOf(ls) \in Seq(Lines) /\ Len(LinesOf(ls)) = Len(ls)
    BY LinesTyped
  <2>2. parsed.lines = Start.lines + Len(ls)
    BY <1>2, <2>1, ParsedLines, StartTyped
  <2>3. Start.lines = 0 /\ Len(ls) \in Nat
    BY DEF Start
  <2>4. QED
    BY <2>2, <2>3
<1>9. Len(ls) = Cardinality(Newlines(u))
  <2>1. Decoded(u) \in String
    BY <1>4, DecodedTyped DEF WellCoded
  <2>2. PICK k \in Nat : k = Len(ls)
    OBVIOUS
  <2>3. PICK e \in String : e = <<>>
    BY EmptySeq DEF String
  <2>4. Len(Append(ls, e)) = k + 1
    BY <2>2, AppendProperties
  <2>5. Len(Split(Decoded(u))) = k + 1
    BY <1>2, <1>3, <2>3, <2>4, Zenon
  <2>6. Len(Split(Decoded(u))) = Cardinality(Breaks(Decoded(u))) + 1
    BY <2>1, SplitCounts
  <2>7. Cardinality(Breaks(Decoded(u))) = Cardinality(Newlines(u))
    BY <1>4, DecodedBreaks
  <2>8. Cardinality(Newlines(u)) \in Nat
    <3>1. Newlines(u) \subseteq 1 .. h
      BY <1>5 DEF Newlines
    <3>2. IsFiniteSet(1 .. h)
      BY FS_Interval
    <3>3. IsFiniteSet(Newlines(u))
      BY <3>1, <3>2, FS_Subset
    <3>4. QED
      BY <3>3, FS_CardinalityType
  <2>9. QED
    BY <2>2, <2>5, <2>6, <2>7, <2>8
<1>10. Newlines(u) = {i \in 1 .. Len(o) : o[i] = NL}
  <2>1. ASSUME NEW i
        PROVE  (i \in 1 .. h /\ u[i] = NL) <=> (i \in 1 .. Len(o) /\ o[i] = NL)
    <3>1. i \in 1 .. Len(o) /\ o[i] = NL => i \in 1 .. h
      BY <1>2, <1>4 DEF LastNewline
    <3>2. i \in 1 .. h => i \in 1 .. Len(o)
      BY <1>4
    <3>3. QED
      BY <1>5, <3>1, <3>2
  <2>2. QED
    BY <1>5, <2>1 DEF Newlines
<1>11. QED
  BY <1>6, <1>7, <1>8, <1>9, <1>10 DEF Slice

-----------------------------------------------------------------------------
(*                   What full() and extend() store                        *)

LEMMA SeededHolds ==
  ASSUME NEW w, WellCoded(w), EndsInLine(w), NEW new, new = Seeded(w)
  PROVE  /\ new \in Entries /\ new.cached /\ new.byteSize = Len(w)
         /\ Holds(new.parsed, new.partial, w)
         /\ Agrees(new.parsed, w)
<1>1. PICK k \in Nat : k = Len(w) /\ w \in Seq(Byte)
  BY DEF WellCoded, Bytes
<1>2. LastNewline(w, k)
  BY <1>1 DEF LastNewline, EndsInLine
<1>3. PICK s \in String : s = Decoded(w)
  BY DecodedTyped DEF WellCoded
<1>4. AtLineStart(s)
  <2>1. CASE k = 0
    <3>1. w = <<>>
      BY <1>1, <2>1, EmptySeq
    <3>2. QED
      BY <1>3, <3>1, DecodeEmpty DEF AtLineStart
  <2>2. CASE k > 0
    <3>1. PICK m \in Nat : m + 1 = k
      <4>1. k - 1 \in Nat /\ k - 1 + 1 = k
        BY <2>2
      <4>2. QED
        BY <4>1
    <3>2. w[m + 1] = NL
      BY <1>1, <2>2, <3>1 DEF EndsInLine
    <3>3. \E t \in Seq(Characters) : Decoded(w) = Append(t, <<NL>>)
      BY <1>1, <3>1, <3>2, DecodeNewline
    <3>4. QED
      BY <1>3, <3>3, CharactersAreBytes DEF AtLineStart
  <2>3. QED
    BY <1>1, <2>1, <2>2
<1>5. PICK ls \in Seq(String) : Split(s) = Append(ls, <<>>)
  BY <1>4, SplitAtLineStart
<1>6. PICK parsed : parsed = Parsed(LinesOf(ls), Start)
  OBVIOUS
<1>7. PICK r : r = Parsed(LinesOf(Append(ls, <<>>)), Start)
  OBVIOUS
<1>8. /\ parsed \in Parses /\ r \in Parses
      /\ r.lines = parsed.lines + 1
      /\ r.events = parsed.events /\ r.issues = parsed.issues
      /\ r.expected = parsed.expected
  BY <1>6, <1>7, OpenEndIsNothing
<1>9. [r EXCEPT !.lines = @ - 1] = parsed
  <2>1. r.lines - 1 = parsed.lines
    BY <1>8 DEF Parses
  <2>2. QED
    BY <1>8, <2>1 DEF Parses
<1>10. Len(FlattenSeq(s)) = k
  BY <1>1, <1>3, DecodeInverse
<1>11. new = Entry(k, parsed, <<>>)
  BY <1>3, <1>5, <1>7, <1>9, <1>10 DEF Seeded
<1>12. PICK z \in String : z = <<>>
  BY EmptySeq DEF String
<1>13. new = [byteSize |-> k, parsed |-> parsed, partial |-> z, cached |-> TRUE]
  BY <1>11, <1>12, Zenon DEF Entry
<1>14. new \in Entries
  BY <1>8, <1>13 DEF Entries
<1>15. Slice(w, 0, k) = w
  BY <1>1, SliceWhole
<1>16. Decoded(Slice(w, k, Len(w))) = z
  <2>1. Slice(w, k, k) = z
    BY <1>1, <1>12, SliceNothing
  <2>2. QED
    BY <1>1, <1>12, <2>1, DecodeEmpty
<1>17. Holds(parsed, z, w)
  BY <1>2, <1>3, <1>5, <1>6, <1>15, <1>16 DEF Holds
<1>18. Agrees(parsed, w)
  <2>1. Report(w) = r
    BY <1>3, <1>5, <1>7 DEF Report
  <2>2. QED
    BY <1>8, <2>1 DEF Agrees
<1>19. QED
  BY <1>1, <1>13, <1>14, <1>17, <1>18

(* The parts of a chunk of the file w.                                     *)
LEMMA ChunkParts ==
  ASSUME NEW w, WellCoded(w), NEW b, Cut(w, b), NEW n \in b .. Len(w),
         NEW chunk, chunk = Slice(w, b, n)
  PROVE  \E a \in b .. n :
           /\ chunk \in Bytes /\ HeadEnd(chunk) = a - b /\ Cut(w, a)
           /\ HeadOf(chunk) = Slice(w, b, a) /\ RestOf(chunk) = Slice(w, a, n)
           /\ a > b => w[a] = NL
           /\ \A j \in (a + 1) .. n : w[j] # NL
<1>1. w \in Seq(Byte) /\ b \in 0 .. Len(w) /\ b \in Nat /\ n \in Nat /\ n <= Len(w)
  BY DEF WellCoded, Bytes, Cut
<1>2. PICK l \in Nat : l = n - b
  BY <1>1
<1>3. chunk \in Seq(Byte) /\ Len(chunk) = l /\ \A i \in 1 .. l : chunk[i] = w[b + i]
  BY <1>1, <1>2, SliceTypedToo
<1>4. PICK h \in Nat : h = HeadEnd(chunk) /\ LastNewline(chunk, h)
  <2>1. \E h : LastNewline(chunk, h)
    BY <1>3, LastNewlineExists DEF Bytes
  <2>2. PICK h : LastNewline(chunk, h)
    BY <2>1
  <2>3. h \in Nat
    BY <1>3, <2>2 DEF LastNewline
  <2>4. h = HeadEnd(chunk)
    BY <1>3, <2>2, HeadEndIs DEF Bytes
  <2>5. QED
    BY <2>2, <2>3, <2>4
<1>5. h <= l
  BY <1>3, <1>4 DEF LastNewline
<1>6. PICK a \in Nat : a = b + h
  BY <1>1
<1>7. a \in b .. n /\ a - b = h /\ b + 0 = b /\ b + l = n
  BY <1>1, <1>2, <1>5, <1>6
<1>8. a > b => w[a] = NL
  <2>1. SUFFICES ASSUME a > b
                 PROVE  w[a] = NL
    OBVIOUS
  <2>2. h \in 1 .. l /\ h > 0
    BY <1>1, <1>5, <1>6, <2>1
  <2>3. chunk[h] = NL
    BY <1>4, <2>2 DEF LastNewline
  <2>4. QED
    BY <1>3, <1>6, <2>2, <2>3
<1>9. \A j \in (a + 1) .. n : w[j] # NL
  <2>1. SUFFICES ASSUME NEW j \in (a + 1) .. n, w[j] = NL
                 PROVE  FALSE
    OBVIOUS
  <2>2. j - b \in 1 .. l /\ b + (j - b) = j /\ j - b > h
    BY <1>1, <1>2, <1>6
  <2>3. PICK i \in 1 .. l : b + i = j /\ i > h
    BY <2>2
  <2>4. chunk[i] = NL
    BY <1>3, <2>1, <2>3
  <2>5. QED
    BY <1>3, <1>4, <2>3, <2>4 DEF LastNewline
<1>10. Cut(w, a)
  <2>1. CASE h = 0
    BY <1>1, <1>6, <2>1
  <2>2. CASE h > 0
    <3>1. a \in 1 .. Len(w) /\ a > b
      BY <1>1, <1>6, <1>7, <2>2
    <3>2. QED
      BY <1>8, <3>1, CutBehindNewline
  <2>3. QED
    BY <2>1, <2>2
<1>11. HeadOf(chunk) = Slice(w, b, a)
  <2>1. 0 \in 0 .. (n - b) /\ h \in 0 .. (n - b)
    BY <1>2, <1>5
  <2>2. Slice(Slice(w, b, n), 0, h) = Slice(w, b + 0, b + h)
    BY <1>1, <2>1, SliceOfSlice
  <2>3. QED
    BY <1>4, <1>6, <1>7, <2>2, SliceFromStart DEF HeadOf
<1>12. RestOf(chunk) = Slice(w, a, n)
  <2>1. h \in 0 .. (n - b) /\ l \in h .. (n - b)
    BY <1>2, <1>5
  <2>2. Slice(Slice(w, b, n), h, l) = Slice(w, b + h, b + l)
    BY <1>1, <2>1, SliceOfSlice
  <2>3. RestOf(chunk) = Slice(chunk, h, l)
    BY <1>3, <1>4 DEF RestOf, Slice
  <2>4. QED
    BY <1>6, <1>7, <2>2, <2>3
<1>13. QED
  BY <1>3, <1>4, <1>7, <1>8, <1>9, <1>10, <1>11, <1>12 DEF Bytes

(* extend() keeps the lines it completes and what it can decode of the     *)
(* rest, wherever else the file was stat'ed.                               *)
LEMMA ExtendHolds ==
  ASSUME NEW w, WellCoded(w),
         NEW cached \in Entries, NEW b, b = cached.byteSize, Cut(w, b),
         Holds(cached.parsed, cached.partial, Slice(w, 0, b)),
         NEW n \in b .. Len(w), ~InsideWide(Slice(w, 0, n)),
         NEW new, new = Extended(cached, Slice(w, b, n))
  PROVE  /\ Cut(w, new.byteSize)
         /\ Holds(new.parsed, new.partial, Slice(w, 0, new.byteSize))
         /\ Agrees(new.parsed, Slice(w, 0, n))
<1>1. w \in Seq(Byte) /\ b \in 0 .. Len(w) /\ b \in Nat /\ n \in Nat /\ n <= Len(w)
  BY DEF WellCoded, Bytes, Cut
<1>2. PICK chunk : chunk = Slice(w, b, n)
  OBVIOUS
<1>3. PICK a \in b .. n :
        /\ chunk \in Bytes /\ HeadEnd(chunk) = a - b /\ Cut(w, a)
        /\ HeadOf(chunk) = Slice(w, b, a) /\ RestOf(chunk) = Slice(w, a, n)
        /\ a > b => w[a] = NL
        /\ \A j \in (a + 1) .. n : w[j] # NL
  BY <1>2, ChunkParts
<1>4. a \in 0 .. Len(w) /\ a \in Nat /\ n \in a .. Len(w) /\ a \in b .. Len(w)
  BY <1>1, <1>3
<1>5. PICK k : k = IncompleteTail(Slice(w, a, n))
  OBVIOUS
<1>6. k \in 0 .. (n - a) /\ Cut(w, n - k)
  BY <1>3, <1>4, <1>5, KeptBetweenCharacters
<1>7. PICK e \in Nat : e = n - k
  BY <1>1, <1>4, <1>6
<1>8. e \in a .. n /\ e \in 0 .. Len(w) /\ e \in a .. Len(w) /\ n \in e .. Len(w) /\ Cut(w, e)
  BY <1>1, <1>4, <1>6, <1>7
<1>9. KeepOf(chunk) = Slice(w, a, e)
  <2>1. PICK t : t = Slice(w, a, n)
    OBVIOUS
  <2>2. t \in Seq(Byte) /\ Len(t) = n - a
    BY <1>1, <1>4, <2>1, SliceTypedToo
  <2>3. k \in 0 .. 3
    BY <1>5, <2>1, <2>2, TailRange DEF Bytes
  <2>4. PICK l \in Nat : l = n - a
    BY <1>1, <1>4
  <2>5. PICK d \in Nat : d = l - k
    BY <1>6, <2>4
  <2>6. k <= Len(t) /\ Len(t) - k = d
    BY <1>6, <2>2, <2>4, <2>5
  <2>7. KeepOf(chunk) = SubSeq(t, 1, d)
    <3>1. KeepOf(chunk) = Subarray(t, Len(t) - k)
      BY <1>3, <1>5, <2>1 DEF KeepOf
    <3>2. Subarray(t, Len(t) - k) = SubSeq(t, 1, Len(t) - k)
      BY <2>2, <2>3, <2>6, SubarrayIs DEF Bytes
    <3>3. QED
      BY <2>6, <3>1, <3>2
  <2>8. 0 \in 0 .. (n - a) /\ d \in 0 .. (n - a) /\ a + 0 = a /\ a + d = e
    BY <1>1, <1>6, <1>7, <1>4, <2>4, <2>5
  <2>9. Slice(Slice(w, a, n), 0, d) = Slice(w, a + 0, a + d)
    BY <1>1, <1>4, <2>8, SliceOfSlice
  <2>10. QED
    BY <2>1, <2>7, <2>8, <2>9, SliceFromStart
<1>10. PICK x : x = Slice(w, b, a)
  OBVIOUS
<1>11. PICK y : y = Slice(w, a, e)
  OBVIOUS
<1>12. /\ WellCoded(x) /\ x \in Seq(Byte) /\ Len(x) = a - b
       /\ \A i \in 1 .. (a - b) : x[i] = w[b + i]
  <2>1. WellCoded(x)
    BY <1>3, <1>4, <1>10, WellCodedSlice DEF Slice
  <2>2. x \in Seq(Byte) /\ Len(x) = a - b /\ \A i \in 1 .. (a - b) : x[i] = w[b + i]
    <3>1. w \in Seq(Byte) /\ b \in 0 .. Len(w) /\ a \in b .. Len(w)
      BY <1>1, <1>4
    <3>2. PICK p, q : p = b /\ q = a
      OBVIOUS
    <3>3. w \in Seq(Byte) /\ p \in 0 .. Len(w) /\ q \in p .. Len(w)
      BY <3>1, <3>2
    <3>4. /\ Slice(w, p, q) \in Seq(Byte) /\ Len(Slice(w, p, q)) = q - p
          /\ \A i \in 1 .. (q - p) : Slice(w, p, q)[i] = w[p + i]
      BY <3>3, SliceTypedToo
    <3>5. QED
      BY <1>10, <3>2, <3>4
  <2>3. QED
    BY <2>1, <2>2
<1>13. /\ WellCoded(y) /\ y \in Seq(Byte) /\ Len(y) = e - a
       /\ \A i \in 1 .. (e - a) : y[i] = w[a + i]
  <2>1. WellCoded(y)
    <3>1. Cut(w, a) /\ Cut(w, e) /\ a <= e
      BY <1>3, <1>4, <1>8
    <3>2. QED
      BY <1>11, <3>1, WellCodedSlice DEF Slice
  <2>2. QED
    BY <1>1, <1>4, <1>8, <1>11, <2>1, SliceTypedToo
<1>14. \A j \in 1 .. Len(y) : y[j] # NL
  <2>1. SUFFICES ASSUME NEW j \in 1 .. (e - a)
                 PROVE  y[j] # NL
    BY <1>13
  <2>2. a + j \in (a + 1) .. n
    BY <1>4, <1>8
  <2>3. QED
    BY <1>3, <1>13, <2>2
<1>15. PICK z \in Bytes : z = Slice(w, e, n) /\ \A j \in 1 .. Len(z) : z[j] # NL
  <2>1. PICK z : z = Slice(w, e, n)
    OBVIOUS
  <2>2. z \in Seq(Byte) /\ Len(z) = n - e /\ \A j \in 1 .. (n - e) : z[j] = w[e + j]
    BY <1>1, <1>8, <2>1, SliceTypedToo
  <2>3. ASSUME NEW j \in 1 .. (n - e)
        PROVE  z[j] # NL
    <3>1. e + j \in (a + 1) .. n
      BY <1>1, <1>4, <1>8
    <3>2. QED
      BY <1>3, <2>2, <3>1
  <2>4. QED
    BY <2>1, <2>2, <2>3 DEF Bytes
<1>16. PICK o : o = Slice(w, 0, b)
  OBVIOUS
<1>17. /\ o \o x = Slice(w, 0, a)
       /\ Slice(w, 0, a) \o y = Slice(w, 0, e)
       /\ Slice(w, 0, e) \o z = Slice(w, 0, n)
  <2>1. 0 \in 0 .. Len(w) /\ b \in 0 .. Len(w) /\ a \in 0 .. Len(w) /\ e \in 0 .. Len(w)
    BY <1>1, <1>4, <1>8
  <2>2. Slice(w, 0, b) \o Slice(w, b, a) = Slice(w, 0, a)
    BY <1>1, <1>4, <2>1, SliceJoin
  <2>3. Slice(w, 0, a) \o Slice(w, a, e) = Slice(w, 0, e)
    BY <1>1, <1>4, <1>8, <2>1, SliceJoin
  <2>4. Slice(w, 0, e) \o Slice(w, e, n) = Slice(w, 0, n)
    BY <1>1, <1>8, <2>1, SliceJoin
  <2>5. QED
    BY <1>10, <1>11, <1>15, <1>16, <2>2, <2>3, <2>4
<1>18. new.byteSize = e
  <2>1. new.byteSize = b + (a - b) + Len(KeepOf(chunk))
    BY <1>2, <1>3, ExtendedIs
  <2>2. Len(KeepOf(chunk)) = e - a
    BY <1>9, <1>11, <1>13
  <2>3. b + (a - b) + (e - a) = e
    BY <1>1, <1>4
  <2>4. QED
    BY <2>1, <2>2, <2>3
<1>19. Holds(new.parsed, new.partial, Slice(w, 0, e))
  <2>1. CASE a = b
    <3>1. new.parsed = cached.parsed /\ new.partial = cached.partial \o Decoded(y)
      <4>1. HeadEnd(chunk) = 0
        BY <1>1, <1>3, <2>1
      <4>2. QED
        <5>1. chunk \in Bytes /\ new = Extended(cached, chunk)
          BY <1>2, <1>3
        <5>2. new.parsed = cached.parsed /\ new.partial = cached.partial \o Decoded(KeepOf(chunk))
          BY <4>1, <5>1, ExtendedIs
        <5>3. QED
          BY <1>9, <1>11, <5>2
    <3>2. Holds(cached.parsed, cached.partial \o Decoded(y), o \o y)
      BY <1>13, <1>14, <1>16, HoldsMore
    <3>3. o \o y = Slice(w, 0, e)
      BY <1>16, <1>17, <2>1
    <3>4. QED
      BY <3>1, <3>2, <3>3
  <2>2. CASE a # b
    <3>1. PICK lines : lines = LinesOf(LinesIn(cached.partial \o Decoded(x)))
      OBVIOUS
    <3>2. a > b
      BY <1>1, <1>4, <2>2
    <3>3. HeadEnd(chunk) > 0
      BY <1>1, <1>3, <3>2
    <3>4. new.parsed = Parsed(lines, cached.parsed) /\ new.partial = Decoded(y)
      BY <1>2, <1>3, <1>9, <1>10, <1>11, <3>1, <3>3, ExtendedIs
    <3>5. PICK m \in Nat : m + 1 = a - b
      <4>1. a - b - 1 \in Nat /\ a - b - 1 + 1 = a - b
        BY <1>1, <1>4, <3>2
      <4>2. QED
        BY <4>1
    <3>6. Len(x) = m + 1 /\ x[m + 1] = NL
      <4>1. m + 1 \in 1 .. (a - b) /\ b + (m + 1) = a
        BY <1>1, <1>4, <3>5
      <4>2. PICK i \in 1 .. (a - b) : i = m + 1 /\ b + i = a
        BY <4>1
      <4>3. QED
        BY <1>3, <1>12, <3>2, <3>5, <4>2
    <3>7. PICK q \in String : q = <<>>
      BY EmptySeq DEF String
    <3>8. Holds(new.parsed, q, o \o x)
      BY <1>12, <1>16, <3>1, <3>4, <3>6, <3>7, HoldsLines
    <3>9. Holds(new.parsed, q \o Decoded(y), (o \o x) \o y)
      BY <1>13, <1>14, <3>8, HoldsMore
    <3>10. q \o Decoded(y) = new.partial
      <4>1. PICK dy \in String : dy = Decoded(y)
        BY <1>13, DecodedTyped DEF Bytes
      <4>2. q \o dy = dy
        BY <3>7 DEF String
      <4>3. QED
        BY <3>4, <4>1, <4>2
    <3>11. QED
      BY <1>17, <3>9, <3>10
  <2>3. QED
    BY <2>1, <2>2
<1>20. Agrees(new.parsed, Slice(w, 0, n))
  BY <1>15, <1>17, <1>19, HoldsAgrees
<1>21. QED
  BY <1>8, <1>18, <1>19, <1>20

-----------------------------------------------------------------------------
(*                              The writer                                 *)

LEMMA OneByte ==
  ASSUME NEW b \in 0 .. 127
  PROVE  <<b>> \in Seq(Byte) /\ WellCoded(<<b>>)
<1>1. PICK c : c = <<b>>
  OBVIOUS
<1>2. c \in Seq(Byte) /\ Len(c) = 1 /\ c[1] = b
  BY <1>1 DEF Byte
<1>3. CharLen(b) = 1 /\ ~Continues(b)
  BY DEF CharLen, Continues
<1>4. Len(c) \in 1 .. 4 /\ ~(\E j \in 2 .. Len(c) : TRUE)
  BY <1>2
<1>5. c \in Characters
  BY <1>2, <1>3, <1>4 DEF Characters, IsCharacter, Bytes
<1>6. QED
  BY <1>1, <1>2, <1>5, WellCodedCharacter

(* A line is well-formed UTF-8.                                            *)
LEMMA EnvelopeIs ==
  ASSUME NEW n \in 1 .. MaxSeq, NEW text \in LineTexts
  PROVE  WellCoded(Envelope(n, text))
<1>1. PICK d \in 0 .. 127 : d = Digit(n)
  BY MaxSeqAssumption DEF Digit
<1>2. text \in Seq(Characters)
  <2>1. text \in Seq(Bytes) /\ \A i \in 1 .. Len(text) : IsCharacter(text[i])
    BY TextsAssumption DEF Bytes, Byte
  <2>2. \A i \in 1 .. Len(text) : text[i] \in Characters
    BY <2>1, ElementOfSeq DEF Characters
  <2>3. QED
    BY <2>1, <2>2
<1>3. PICK a : a = <<d>>
  OBVIOUS
<1>4. PICK t : t = FlattenSeq(text)
  OBVIOUS
<1>5. PICK z, y, x : z = <<Brace, NL>> /\ y = <<Brace>> /\ x = <<NL>>
  OBVIOUS
<1>6. z = y \o x
  BY <1>5 DEF Brace, NL
<1>7. WellCoded(a)
  BY <1>3, OneByte
<1>8. WellCoded(y) /\ WellCoded(x)
  <2>1. Brace \in 0 .. 127 /\ NL \in 0 .. 127
    BY DEF Brace, NL
  <2>2. QED
    BY <1>5, <2>1, OneByte
<1>9. WellCoded(z)
  BY <1>6, <1>8, WellCodedConcat
<1>10. WellCoded(t)
  BY <1>2, <1>4, WellCodedFlatten
<1>11. PICK at : at = a \o t
  OBVIOUS
<1>12. WellCoded(at)
  BY <1>7, <1>10, <1>11, WellCodedConcat
<1>13. Envelope(n, text) = at \o z
  BY <1>1, <1>3, <1>4, <1>5, <1>11 DEF Envelope
<1>14. QED
  BY <1>9, <1>12, <1>13, WellCodedConcat

-----------------------------------------------------------------------------
(*                        The file, step by step                           *)

(* The file and what is left of the line under way are well-formed         *)
(* together.                                                               *)
FileOK ==
  /\ file \in Bytes /\ writing \in Bytes /\ started \in 0 .. MaxLines
  /\ WellCoded(file \o writing)

(* f2 continues f, and no cut is lost.                                     *)
Grows(f, r, f2, r2) ==
  /\ \E x \in Bytes : f2 = f \o x
  /\ \A b \in 0 .. Len(f) : Cut(f \o r, b) => Cut(f2 \o r2, b)

LEMMA BytesAssociate ==
  ASSUME NEW a \in Bytes, NEW b \in Bytes, NEW c \in Bytes
  PROVE  (a \o b) \o c = a \o (b \o c)
  BY ConcatAssociative DEF Bytes

LEMMA NothingAdded ==
  ASSUME NEW f \in Bytes
  PROVE  \E x \in Bytes : f = f \o x
<1>1. PICK x \in Seq(Byte) : x = <<>>
  BY EmptySeq
<1>2. f \in Seq(Byte)
  BY DEF Bytes
<1>3. f \o x = f
  BY <1>1, <1>2, ConcatEmptySeq
<1>4. QED
  BY <1>3 DEF Bytes

LEMMA GrowsNot ==
  ASSUME NEW f \in Bytes, NEW r
  PROVE  Grows(f, r, f, r)
  BY NothingAdded DEF Grows

LEMMA FileInit ==
  ASSUME Init
  PROVE  FileOK
<1>1. file = <<>> /\ writing = <<>> /\ started = 0
  BY DEF Init
<1>2. PICK z : z = <<>>
  OBVIOUS
<1>3. z \in Seq(Byte) /\ z \o z = z
  BY <1>2, EmptySeq, ConcatEmptySeq
<1>4. WellCoded(z)
  BY <1>2, WellCodedEmpty
<1>5. 0 \in 0 .. MaxLines
  BY MaxLinesAssumption
<1>6. QED
  BY <1>1, <1>2, <1>3, <1>4, <1>5 DEF FileOK, Bytes

LEMMA FileStarts ==
  ASSUME FileOK, StartLine
  PROVE  FileOK' /\ Grows(file, writing, file', writing')
<1>1. /\ writing = <<>> /\ started < MaxLines /\ started' = started + 1 /\ file' = file
      /\ \E n \in 1 .. MaxSeq, text \in LineTexts : writing' = Envelope(n, text)
  BY DEF StartLine
<1>2. WellCoded(writing') /\ writing' \in Seq(Byte)
  BY <1>1, EnvelopeIs DEF WellCoded, Bytes
<1>3. file \in Seq(Byte) /\ file \o writing = file /\ WellCoded(file)
  <2>1. file \in Seq(Byte)
    BY DEF FileOK, Bytes
  <2>2. file \o <<>> = file
    BY <2>1, ConcatEmptySeq
  <2>3. QED
    BY <1>1, <2>1, <2>2 DEF FileOK
<1>4. started' \in 0 .. MaxLines
  BY <1>1, MaxLinesAssumption DEF FileOK
<1>5. PICK w : w = file \o writing'
  OBVIOUS
<1>6. WellCoded(w) /\ Cut(w, Len(file))
  BY <1>2, <1>3, <1>5, WellCodedConcat
<1>7. ASSUME NEW b \in 0 .. Len(file), Cut(file, b)
      PROVE  Cut(w, b)
  <2>1. PICK n \in Nat : n = Len(file)
    BY <1>3
  <2>2. CASE b = n
    BY <1>6, <2>1, <2>2
  <2>3. CASE b < n
    <3>1. w[b + 1] = file[b + 1] /\ b \in 0 .. Len(w)
      BY <1>2, <1>3, <1>5, <2>1, <2>3
    <3>2. ~Continues(file[b + 1])
      BY <1>7, <2>1, <2>3 DEF Cut
    <3>3. QED
      BY <3>1, <3>2 DEF Cut
  <2>4. QED
    BY <2>1, <2>2, <2>3
<1>8. Grows(file, writing, file', writing')
  BY <1>1, <1>3, <1>5, <1>7, NothingAdded DEF Grows, Bytes
<1>9. FileOK'
  BY <1>1, <1>2, <1>3, <1>4, <1>5, <1>6 DEF FileOK, Bytes
<1>10. QED
  BY <1>8, <1>9

LEMMA FileWrites ==
  ASSUME FileOK, WriteSome
  PROVE  FileOK' /\ Grows(file, writing, file', writing')
<1>1. started' = started
  BY DEF WriteSome
<1>2. PICK k \in 1 .. Len(writing) :
        file' = file \o SubSeq(writing, 1, k) /\ writing' = SubSeq(writing, k + 1, Len(writing))
  BY DEF WriteSome
<1>3. file \in Seq(Byte) /\ writing \in Seq(Byte)
  BY DEF FileOK, Bytes
<1>4. PICK n \in Nat : n = Len(writing) /\ k \in 1 .. n
  BY <1>3
<1>5. PICK x, y : x = Slice(writing, 0, k) /\ y = Slice(writing, k, n)
  OBVIOUS
<1>6. x \in Seq(Byte) /\ y \in Seq(Byte) /\ x \o y = writing
  <2>1. 0 \in 0 .. n /\ k \in 0 .. n /\ n \in k .. n
    BY <1>4
  <2>2. x \in Seq(Byte) /\ y \in Seq(Byte)
    BY <1>3, <1>4, <1>5, <2>1, SliceTypedToo
  <2>3. x \o y = Slice(writing, 0, n)
    BY <1>3, <1>4, <1>5, <2>1, SliceJoin
  <2>4. QED
    BY <1>3, <1>4, <2>2, <2>3, SliceWhole
<1>7. file' = file \o x /\ writing' = y
  BY <1>2, <1>4, <1>5, SliceFromStart DEF Slice
<1>8. (file \o x) \o y = file \o writing
  BY <1>3, <1>6, BytesAssociate DEF Bytes
<1>9. file' \in Seq(Byte)
  BY <1>3, <1>6, <1>7
<1>10. (file \o writing)' = file \o writing
  BY <1>7, <1>8
<1>11. FileOK'
  BY <1>1, <1>6, <1>7, <1>9, <1>10 DEF FileOK, Bytes
<1>12. Grows(file, writing, file', writing')
  BY <1>6, <1>7, <1>8 DEF Grows, Bytes
<1>13. QED
  BY <1>11, <1>12

(* A crash between two characters leaves well-formed bytes.                *)
LEMMA FileCrashes ==
  ASSUME Faults = {}, FileOK, CrashMidLine
  PROVE  FileOK' /\ Grows(file, writing, file', writing')
<1>1. /\ writing # <<>> /\ ~Continues(writing[1]) /\ writing' = <<>> /\ file' = file
      /\ started' = started
  BY DEF CrashMidLine
<1>2. file \in Seq(Byte) /\ writing \in Seq(Byte)
  BY DEF FileOK, Bytes
<1>3. PICK n \in Nat, m \in Nat : n = Len(file) /\ m = Len(writing) /\ m > 0
  <2>1. Len(writing) > 0
    BY <1>1, <1>2, EmptySeq
  <2>2. QED
    BY <1>2, <2>1
<1>4. PICK w : w = file \o writing
  OBVIOUS
<1>5. /\ w \in Seq(Byte) /\ Len(w) = n + m
      /\ \A i \in 1 .. n : w[i] = file[i]
      /\ \A i \in 1 .. m : w[n + i] = writing[i]
  BY <1>2, <1>3, <1>4
<1>6. Cut(w, n) /\ Cut(w, 0) /\ WellCoded(w)
  <2>1. WellCoded(w)
    BY <1>4 DEF FileOK
  <2>2. PICK i \in 1 .. m : i = 1
    BY <1>3
  <2>3. w[n + 1] = writing[1]
    BY <1>5, <2>2
  <2>4. Cut(w, n)
    BY <1>1, <1>5, <2>3 DEF Cut
  <2>5. Cut(w, 0)
    BY <1>5, <2>1 DEF Cut, WellCoded
  <2>6. QED
    BY <2>1, <2>4, <2>5
<1>7. Slice(w, 0, n) = file
  <2>1. 0 \in 0 .. n /\ n \in 0 .. n
    OBVIOUS
  <2>2. Slice(w, 0, n) = Slice(file, 0, n)
    BY <1>2, <1>3, <1>4, <2>1, SliceOfPrefix
  <2>3. QED
    BY <1>2, <1>3, <2>2, SliceWhole
<1>8. WellCoded(file)
  <2>1. WellCoded(Slice(w, 0, n))
    BY <1>6, WellCodedSlice DEF Slice
  <2>2. QED
    BY <1>7, <2>1
<1>9. file \o <<>> = file
  BY <1>2, ConcatEmptySeq
<1>10. ASSUME NEW b \in 0 .. Len(file), Cut(w, b)
       PROVE  Cut(file, b)
  <2>1. SUFFICES ASSUME b < n
                 PROVE  ~Continues(file[b + 1])
    BY <1>3 DEF Cut
  <2>2. w[b + 1] = file[b + 1] /\ b < Len(w)
    BY <1>3, <1>5, <2>1
  <2>3. QED
    BY <1>10, <2>2 DEF Cut
<1>11. Grows(file, writing, file', writing')
  BY <1>1, <1>2, <1>4, <1>9, <1>10, NothingAdded DEF Grows, Bytes
<1>12. FileOK'
  <2>1. <<>> \in Bytes
    BY EmptySeq DEF Bytes
  <2>2. QED
    BY <1>1, <1>8, <1>9, <2>1 DEF FileOK
<1>13. QED
  BY <1>11, <1>12

LEMMA FileStep ==
  ASSUME Faults = {}, FileOK, [Next]_vars
  PROVE  FileOK' /\ Grows(file, writing, file', writing')
<1>1. CASE StartLine
  BY <1>1, FileStarts
<1>2. CASE WriteSome
  BY <1>2, FileWrites
<1>3. CASE CrashMidLine
  BY <1>3, FileCrashes
<1>4. CASE UNCHANGED <<file, writing, started>>
  <2>1. FileOK'
    BY <1>4 DEF FileOK
  <2>2. Grows(file, writing, file', writing')
    BY <1>4, GrowsNot DEF FileOK
  <2>3. QED
    BY <2>1, <2>2
<1>5. QED
  BY <1>1, <1>2, <1>3, <1>4 DEF Next, Read, Fetch, Stat, Extend, Full, vars

-----------------------------------------------------------------------------
(*                      The cache and its readers                          *)

ReadStates ==
  [at : {"idle", "stat", "extend", "full"}, cached : Entries, size : Nat]

(* A read of a file of n bytes: it extends an entry only over new bytes.   *)
ReadOK(read, n) ==
  /\ read \in ReadStates
  /\ read.cached.byteSize <= n /\ read.size <= n
  /\ read.at = "extend" => read.cached.cached /\ read.cached.byteSize < read.size

(* No entry, no read and no report is ahead of the file.                   *)
CacheOK ==
  /\ entry \in Entries /\ entry.byteSize <= Len(file)
  /\ reads \in [Reader -> ReadStates]
  /\ \A r \in Reader : ReadOK(reads[r], Len(file))
  /\ report \in [parsed : Parses, covers : Nat] /\ report.covers <= Len(file)

LEMMA NoneIsAnEntry == None \in Entries /\ None.byteSize = 0 /\ ~None.cached
<1>1. PICK z \in String : z = <<>>
  BY EmptySeq DEF String
<1>2. None = [byteSize |-> 0, parsed |-> Start, partial |-> z, cached |-> FALSE]
  BY <1>1 DEF None
<1>3. QED
  BY <1>1, <1>2, StartTyped DEF Entries

LEMMA IdleReads ==
  ASSUME NEW n \in Nat
  PROVE  ReadOK(Idle, n)
<1>1. Idle \in ReadStates
  BY NoneIsAnEntry DEF Idle, ReadStates
<1>2. Idle.at = "idle" /\ Idle.cached = None /\ Idle.size = 0
  BY DEF Idle
<1>3. QED
  BY <1>1, <1>2, NoneIsAnEntry DEF ReadOK

LEMMA ReadStaysOK ==
  ASSUME NEW n \in Nat, NEW m \in Nat, n <= m, NEW read, ReadOK(read, n)
  PROVE  ReadOK(read, m)
<1>1. read.cached.byteSize \in Nat /\ read.size \in Nat
  BY DEF ReadOK, ReadStates, Entries
<1>2. QED
  BY <1>1 DEF ReadOK

LEMMA ExtendTyped ==
  ASSUME NEW f \in Bytes, NEW cached \in Entries, NEW n \in Nat,
         cached.byteSize < n, n <= Len(f),
         NEW new, new = Extended(cached, SubSeq(f, cached.byteSize + 1, n))
  PROVE  new \in Entries /\ new.cached /\ new.byteSize <= n
<1>1. PICK b \in Nat : b = cached.byteSize
  BY DEF Entries
<1>2. PICK chunk : chunk = SubSeq(f, b + 1, n)
  OBVIOUS
<1>3. f \in Seq(Byte) /\ b \in 0 .. Len(f) /\ n \in b .. Len(f)
  BY <1>1 DEF Bytes
<1>4. PICK l \in Nat : l = n - b
  BY <1>1
<1>5. chunk \in Seq(Byte) /\ Len(chunk) = l
  BY <1>2, <1>3, <1>4, SliceTyped
<1>6. PICK h \in 0 .. l : h = HeadEnd(chunk)
  BY <1>5, PartsOfChunk DEF Bytes
<1>7. PICK k \in Nat : k = Len(KeepOf(chunk)) /\ h + k <= l
  BY <1>5, <1>6, PartsOfChunk DEF Bytes
<1>8. new \in Entries /\ new.cached /\ new.byteSize = b + h + k
  BY <1>1, <1>2, <1>5, <1>6, <1>7, ExtendedIs DEF Bytes
<1>9. b + h + k <= n
  BY <1>4, <1>7
<1>10. QED
  BY <1>8, <1>9

(* Up to the end of its last line, a file is well-formed on its own.       *)
LEMMA WholeLines ==
  ASSUME NEW f \in Bytes, NEW r \in Bytes, WellCoded(f \o r), EndsInLine(f)
  PROVE  WellCoded(f) /\ Cut(f \o r, Len(f))
<1>1. f \in Seq(Byte) /\ r \in Seq(Byte)
  BY DEF Bytes
<1>2. PICK n \in Nat : n = Len(f)
  BY <1>1
<1>3. PICK w : w = f \o r
  OBVIOUS
<1>4. w \in Seq(Byte) /\ n <= Len(w) /\ \A i \in 1 .. n : w[i] = f[i]
  BY <1>1, <1>2, <1>3
<1>5. Cut(w, 0)
  BY <1>3, <1>4 DEF Cut, WellCoded
<1>6. Cut(w, n)
  <2>1. CASE n = 0
    BY <1>5, <2>1
  <2>2. CASE n > 0
    <3>1. n \in 1 .. Len(w) /\ w[n] = NL
      BY <1>2, <1>4, <2>2 DEF EndsInLine
    <3>2. QED
      BY <1>3, <3>1, CutBehindNewline
  <2>3. QED
    BY <2>1, <2>2
<1>7. Slice(w, 0, n) = f
  <2>1. 0 \in 0 .. n /\ n \in 0 .. n
    OBVIOUS
  <2>2. Slice(w, 0, n) = Slice(f, 0, n)
    BY <1>1, <1>2, <1>3, <2>1, SliceOfPrefix
  <2>3. QED
    BY <1>1, <1>2, <2>2, SliceWhole
<1>8. WellCoded(Slice(w, 0, n))
  <2>1. 0 <= n
    OBVIOUS
  <2>2. WellCoded(w) /\ Cut(w, 0) /\ Cut(w, n)
    BY <1>3, <1>5, <1>6
  <2>3. QED
    BY <2>1, <2>2, WellCodedSlice DEF Slice
<1>9. QED
  BY <1>2, <1>3, <1>6, <1>7, <1>8

LEMMA CacheInit ==
  ASSUME Init
  PROVE  CacheOK
<1>1. /\ file = <<>> /\ entry = None /\ reads = [r \in Reader |-> Idle]
      /\ report = [parsed |-> Start, covers |-> 0]
  BY DEF Init
<1>2. Len(file) = 0
  BY <1>1
<1>3. entry \in Entries /\ entry.byteSize <= Len(file)
  BY <1>1, <1>2, NoneIsAnEntry
<1>4. ReadOK(Idle, Len(file))
  BY <1>2, IdleReads
<1>5. reads \in [Reader -> ReadStates] /\ \A r \in Reader : ReadOK(reads[r], Len(file))
  BY <1>1, <1>4 DEF ReadOK
<1>6. QED
  BY <1>1, <1>2, <1>3, <1>5, StartTyped DEF CacheOK

LEMMA CacheWaits ==
  ASSUME FileOK, CacheOK, Grows(file, writing, file', writing'), UNCHANGED <<entry, reads, report>>
  PROVE  CacheOK'
<1>1. PICK x \in Bytes : file' = file \o x
  BY DEF Grows
<1>2. PICK n \in Nat, m \in Nat : n = Len(file) /\ m = Len(file') /\ n <= m
  BY <1>1 DEF FileOK, Bytes
<1>3. entry.byteSize \in Nat /\ report.covers \in Nat
  BY DEF CacheOK, Entries
<1>4. \A r \in Reader : ReadOK(reads[r], m)
  BY <1>2, ReadStaysOK DEF CacheOK
<1>5. QED
  BY <1>2, <1>3, <1>4 DEF CacheOK

(* A read moves to a state that is right.                                  *)
LEMMA ReadMoves ==
  ASSUME CacheOK, NEW r \in Reader, NEW read, ReadOK(read, Len(file)),
         reads' = [reads EXCEPT ![r] = read], file' = file
  PROVE  reads' \in [Reader -> ReadStates] /\ \A q \in Reader : ReadOK(reads'[q], Len(file'))
<1>1. read \in ReadStates
  BY DEF ReadOK
<1>2. reads' \in [Reader -> ReadStates]
  BY <1>1 DEF CacheOK
<1>3. ASSUME NEW q \in Reader
      PROVE  ReadOK(reads'[q], Len(file'))
  <2>1. reads'[q] = IF q = r THEN read ELSE reads[q]
    BY DEF CacheOK
  <2>2. QED
    BY <2>1 DEF CacheOK
<1>4. QED
  BY <1>2, <1>3

LEMMA CacheFetches ==
  ASSUME FileOK, CacheOK, NEW r \in Reader, Fetch(r)
  PROVE  CacheOK'
<1>1. PICK n \in Nat : n = Len(file)
  BY DEF FileOK, Bytes
<1>2. PICK read : read = [Idle EXCEPT !.at = "stat", !.cached = entry]
  OBVIOUS
<1>3. read \in ReadStates /\ read.at = "stat" /\ read.cached = entry /\ read.size = 0
  <2>1. Idle \in ReadStates /\ Idle.size = 0
    BY NoneIsAnEntry DEF Idle, ReadStates
  <2>2. entry \in Entries
    BY DEF CacheOK
  <2>3. QED
    BY <1>2, <2>1, <2>2 DEF ReadStates
<1>4. ReadOK(read, Len(file))
  BY <1>1, <1>3 DEF CacheOK, ReadOK
<1>5. reads' = [reads EXCEPT ![r] = read] /\ UNCHANGED <<file, entry, report>>
  BY <1>2 DEF Fetch
<1>6. reads' \in [Reader -> ReadStates] /\ \A q \in Reader : ReadOK(reads'[q], Len(file'))
  BY <1>4, <1>5, ReadMoves
<1>7. QED
  BY <1>5, <1>6 DEF CacheOK

LEMMA CacheAnswers ==
  ASSUME FileOK, CacheOK, NEW r \in Reader, NEW parsed \in Parses, NEW n \in 0 .. Len(file),
         Answer(r, parsed, n), file' = file, entry' \in Entries, entry'.byteSize <= Len(file)
  PROVE  CacheOK'
<1>1. Len(file) \in Nat
  BY DEF FileOK, Bytes
<1>2. ReadOK(Idle, Len(file))
  BY <1>1, IdleReads
<1>3. reads' \in [Reader -> ReadStates] /\ \A q \in Reader : ReadOK(reads'[q], Len(file'))
  BY <1>2, ReadMoves DEF Answer
<1>4. report' = [parsed |-> parsed, covers |-> n]
  BY DEF Answer
<1>5. QED
  BY <1>1, <1>3, <1>4 DEF CacheOK

LEMMA CacheStats ==
  ASSUME FileOK, CacheOK, NEW r \in Reader, Stat(r)
  PROVE  CacheOK'
<1>1. PICK n \in Nat : n = Len(file)
  BY DEF FileOK, Bytes
<1>2. PICK cached \in Entries : cached = reads[r].cached /\ cached.byteSize <= n
  BY <1>1 DEF CacheOK, ReadOK, ReadStates
<1>3. UNCHANGED <<file, entry>>
  BY DEF Stat
<1>4. CASE cached.cached /\ n = cached.byteSize /\ Answer(r, cached.parsed, n)
  <2>1. cached.parsed \in Parses
    BY DEF Entries
  <2>2. entry' \in Entries /\ entry'.byteSize <= Len(file)
    BY <1>3 DEF CacheOK
  <2>3. n \in 0 .. Len(file)
    BY <1>1
  <2>4. QED
    BY <1>3, <1>4, <2>1, <2>2, <2>3, CacheAnswers
<1>5. ASSUME NEW at \in {"extend", "full"},
             at = "extend" => cached.cached /\ n > cached.byteSize,
             reads' = [reads EXCEPT ![r] = [@ EXCEPT !.at = at, !.size = n]],
             UNCHANGED report
      PROVE  CacheOK'
  <2>1. PICK read : read = [reads[r] EXCEPT !.at = at, !.size = n]
    OBVIOUS
  <2>2. reads[r] \in ReadStates
    BY DEF CacheOK
  <2>3. read \in ReadStates /\ read.at = at /\ read.cached = cached /\ read.size = n
    <3>1. PICK x \in ReadStates : x = reads[r]
      BY <2>2
    <3>2. read = [x EXCEPT !.at = at, !.size = n]
      BY <2>1, <3>1
    <3>3. read \in ReadStates /\ read.at = at /\ read.cached = x.cached /\ read.size = n
      BY <3>2 DEF ReadStates
    <3>4. QED
      BY <1>2, <3>1, <3>3
  <2>4. cached.byteSize \in Nat
    BY DEF Entries
  <2>5. ReadOK(read, Len(file))
    BY <1>1, <1>2, <1>5, <2>3, <2>4 DEF ReadOK
  <2>6. reads' = [reads EXCEPT ![r] = read]
    BY <1>5, <2>1
  <2>7. reads' \in [Reader -> ReadStates] /\ \A q \in Reader : ReadOK(reads'[q], Len(file'))
    BY <1>3, <2>5, <2>6, ReadMoves
  <2>8. QED
    BY <1>3, <1>5, <2>7 DEF CacheOK
<1>6. \/ cached.cached /\ n = cached.byteSize /\ Answer(r, cached.parsed, n)
      \/ /\ cached.cached /\ n > cached.byteSize
         /\ reads' = [reads EXCEPT ![r] = [@ EXCEPT !.at = "extend", !.size = n]]
         /\ UNCHANGED report
      \/ /\ reads' = [reads EXCEPT ![r] = [@ EXCEPT !.at = "full", !.size = n]]
         /\ UNCHANGED report
  BY <1>1, <1>2 DEF Stat
<1>7. QED
  BY <1>4, <1>5, <1>6

LEMMA CacheExtends ==
  ASSUME FileOK, CacheOK, NEW r \in Reader, Extend(r)
  PROVE  CacheOK'
<1>1. PICK n \in Nat : n = Len(file)
  BY DEF FileOK, Bytes
<1>2. PICK cached \in Entries : cached = reads[r].cached
  BY DEF CacheOK, ReadOK, ReadStates
<1>3. PICK size \in Nat : size = reads[r].size
  BY DEF CacheOK, ReadOK, ReadStates
<1>4. cached.byteSize < size /\ size <= n
  BY <1>1, <1>2, <1>3 DEF CacheOK, ReadOK, Extend
<1>5. PICK new : new = Extended(cached, SubSeq(file, cached.byteSize + 1, size))
  OBVIOUS
<1>6. new \in Entries /\ new.cached /\ new.byteSize <= size
  BY <1>1, <1>4, <1>5, ExtendTyped DEF FileOK
<1>7. entry' = new /\ Answer(r, new.parsed, size) /\ file' = file
  BY <1>2, <1>3, <1>5 DEF Extend
<1>8. new.parsed \in Parses /\ new.byteSize <= n /\ size \in 0 .. n
  BY <1>4, <1>6 DEF Entries
<1>9. QED
  BY <1>1, <1>6, <1>7, <1>8, CacheAnswers

LEMMA CacheReadsAll ==
  ASSUME Faults = {}, FileOK, CacheOK, NEW r \in Reader, Full(r)
  PROVE  CacheOK'
<1>1. PICK n \in Nat : n = Len(file)
  BY DEF FileOK, Bytes
<1>2. PICK new : new = Seeded(file)
  OBVIOUS
<1>3. EndsInLine(file) /\ entry' = new /\ Answer(r, new.parsed, n) /\ file' = file
  BY <1>1, <1>2 DEF Full
<1>4. WellCoded(file)
  BY <1>3, WholeLines DEF FileOK
<1>5. new \in Entries /\ new.byteSize = n
  BY <1>1, <1>2, <1>3, <1>4, SeededHolds
<1>6. new.parsed \in Parses /\ n \in 0 .. Len(file) /\ new.byteSize <= Len(file)
  BY <1>1, <1>5 DEF Entries
<1>7. QED
  BY <1>3, <1>5, <1>6, CacheAnswers

LEMMA CacheStep ==
  ASSUME Faults = {}, FileOK, CacheOK, [Next]_vars
  PROVE  CacheOK'
<1>1. CASE UNCHANGED <<entry, reads, report>>
  BY <1>1, FileStep, CacheWaits
<1>2. ASSUME NEW r \in Reader, Read(r)
      PROVE  CacheOK'
  BY <1>2, CacheFetches, CacheStats, CacheExtends, CacheReadsAll DEF Read
<1>3. StartLine \/ WriteSome \/ CrashMidLine \/ UNCHANGED vars => UNCHANGED <<entry, reads, report>>
  BY DEF StartLine, WriteSome, CrashMidLine, vars
<1>4. QED
  BY <1>1, <1>2, <1>3 DEF Next

(* The types of the cache and its readers, whatever the texts: while every *)
(* crash falls between two characters and no cold read meets a torn line,  *)
(* no entry claims more bytes than the file has, so a read never takes a   *)
(* file that only grew for one that was replaced.                          *)
THEOREM TypeCorrect == ASSUME Faults = {} PROVE Spec => []TypeOK
<1>1. Init => FileOK /\ CacheOK
  BY FileInit, CacheInit
<1>2. FileOK /\ CacheOK /\ [Next]_vars => FileOK' /\ CacheOK'
  BY FileStep, CacheStep
<1>3. FileOK /\ CacheOK => TypeOK
  <2>1. SUFFICES ASSUME FileOK, CacheOK
                 PROVE  TypeOK
    OBVIOUS
  <2>2. PICK n \in Nat : n = Len(file)
    BY <2>1 DEF FileOK, Bytes
  <2>3. file \in Seq(0 .. 255) /\ writing \in Seq(0 .. 255) /\ started \in 0 .. MaxLines
    BY <2>1 DEF FileOK, Bytes, Byte
  <2>4. entry.byteSize \in 0 .. n /\ entry.cached \in BOOLEAN
    BY <2>1, <2>2 DEF CacheOK, Entries
  <2>5. report.covers \in 0 .. n
    BY <2>1, <2>2 DEF CacheOK
  <2>6. ASSUME NEW r \in Reader
        PROVE  reads[r].at \in {"idle", "stat", "extend", "full"} /\ reads[r].size \in 0 .. n
    BY <2>1, <2>2 DEF CacheOK, ReadOK, ReadStates
  <2>7. QED
    BY <2>2, <2>3, <2>4, <2>5, <2>6 DEF TypeOK
<1>4. QED
  BY <1>1, <1>2, <1>3, PTL DEF Spec

-----------------------------------------------------------------------------
(*                        What the cache answers                           *)

(* An entry stands for the bytes it owns, and ends between two characters. *)
Owns(en, f, r) ==
  en.cached =>
    /\ Cut(f \o r, en.byteSize)
    /\ Holds(en.parsed, en.partial, SubSeq(f, 1, en.byteSize))

(* A read about to extend its entry stat'ed the file where extend() can    *)
(* tell how much of the last character is missing.                         *)
Tellable(read, f) == read.at = "extend" => ~InsideWide(SubSeq(f, 1, read.size))

AnswersOK ==
  /\ \A r \in Reader : Tellable(reads[r], file)
  /\ Owns(entry, file, writing)
  /\ \A r \in Reader : Owns(reads[r].cached, file, writing)
  /\ Agrees(report.parsed, SubSeq(file, 1, report.covers))

LEMMA PrefixStays ==
  ASSUME NEW f \in Bytes, NEW x \in Bytes, NEW n \in 0 .. Len(f)
  PROVE  SubSeq(f \o x, 1, n) = SubSeq(f, 1, n)
<1>1. f \in Seq(Byte) /\ x \in Seq(Byte) /\ 0 \in 0 .. Len(f)
  BY DEF Bytes
<1>2. Slice(f \o x, 0, n) = Slice(f, 0, n)
  BY <1>1, SliceOfPrefix
<1>3. QED
  BY <1>2, SliceFromStart

LEMMA OwnsStays ==
  ASSUME NEW f \in Bytes, NEW r, NEW f2, NEW r2, Grows(f, r, f2, r2),
         NEW en \in Entries, en.byteSize <= Len(f), Owns(en, f, r)
  PROVE  Owns(en, f2, r2)
<1>1. PICK x \in Bytes : f2 = f \o x
  BY DEF Grows
<1>2. PICK b \in Nat : b = en.byteSize
  BY DEF Entries
<1>3. b \in 0 .. Len(f)
  BY <1>2 DEF Bytes
<1>4. SubSeq(f2, 1, b) = SubSeq(f, 1, b)
  BY <1>1, <1>3, PrefixStays
<1>5. Cut(f \o r, b) => Cut(f2 \o r2, b)
  BY <1>3 DEF Grows
<1>6. QED
  BY <1>2, <1>4, <1>5 DEF Owns

LEMMA NothingOwned ==
  ASSUME NEW f, NEW r
  PROVE  Owns(None, f, r)
  BY NoneIsAnEntry DEF Owns

LEMMA AnswersInit ==
  ASSUME Init
  PROVE  AnswersOK
<1>1. /\ file = <<>> /\ writing = <<>> /\ entry = None /\ reads = [r \in Reader |-> Idle]
      /\ report = [parsed |-> Start, covers |-> 0]
  BY DEF Init
<1>2. PICK z : z = <<>>
  OBVIOUS
<1>3. z \in Seq(Byte) /\ Len(z) = 0 /\ z \o z = z
  BY <1>2, EmptySeq, ConcatEmptySeq
<1>4. \A r \in Reader : Tellable(reads[r], file)
  BY <1>1 DEF Tellable, Idle
<1>5. \A r \in Reader : Owns(reads[r].cached, file, writing)
  BY <1>1, NothingOwned DEF Idle
<1>6. SubSeq(z, 1, 0) = z
  BY <1>2, SubSeqEmpty
<1>7. Agrees(Start, z)
  <2>1. PICK ls \in Seq(String) : ls = <<>>
    BY EmptySeq
  <2>2. PICK e \in String : e = <<>>
    BY EmptySeq DEF String
  <2>3. Append(ls, e) = <<e>>
    BY <2>1
  <2>4. Split(Decoded(z)) = Append(ls, <<>>)
    BY <1>2, <2>2, <2>3, DecodeEmpty, SplitEmpty, Zenon
  <2>5. Parsed(LinesOf(ls), Start) = Start
    <3>1. PICK y \in Seq(Lines) : y = LinesOf(ls) /\ Len(y) = 0
      BY <2>1, LinesTyped
    <3>2. y = <<>>
      BY <3>1, EmptySeq
    <3>3. QED
      BY <3>1, <3>2, ParsedEmpty, StartTyped, Zenon
  <2>6. Report(z) = Parsed(LinesOf(Append(ls, <<>>)), Start)
    BY <2>4 DEF Report
  <2>7. QED
    BY <2>5, <2>6, OpenEndIsNothing DEF Agrees
<1>8. report.parsed = Start /\ report.covers = 0
  BY <1>1
<1>9. QED
  BY <1>1, <1>2, <1>4, <1>5, <1>6, <1>7, <1>8, NothingOwned DEF AnswersOK

LEMMA AnswersWait ==
  ASSUME FileOK, CacheOK, AnswersOK, Grows(file, writing, file', writing'),
         UNCHANGED <<entry, reads, report>>
  PROVE  AnswersOK'
<1>1. PICK x \in Bytes : file' = file \o x
  BY DEF Grows
<1>2. file \in Bytes /\ report.covers \in 0 .. Len(file)
  BY DEF FileOK, CacheOK, Bytes
<1>3. SubSeq(file', 1, report.covers) = SubSeq(file, 1, report.covers)
  BY <1>1, <1>2, PrefixStays
<1>4. Owns(entry, file', writing')
  BY <1>2, OwnsStays DEF CacheOK, AnswersOK
<1>5. ASSUME NEW r \in Reader
      PROVE  Owns(reads[r].cached, file', writing')
  <2>1. reads[r].cached \in Entries /\ reads[r].cached.byteSize <= Len(file)
    BY DEF CacheOK, ReadOK, ReadStates
  <2>2. QED
    BY <1>2, <2>1, OwnsStays DEF AnswersOK
<1>6. ASSUME NEW r \in Reader
      PROVE  Tellable(reads[r], file')
  <2>1. PICK n \in 0 .. Len(file) : n = reads[r].size
    BY <1>2 DEF CacheOK, ReadOK, ReadStates, Bytes
  <2>2. SubSeq(file', 1, n) = SubSeq(file, 1, n)
    BY <1>1, <1>2, PrefixStays
  <2>3. QED
    BY <2>1, <2>2 DEF AnswersOK, Tellable
<1>7. QED
  BY <1>3, <1>4, <1>5, <1>6 DEF AnswersOK

LEMMA AnswersFetch ==
  ASSUME CacheOK, AnswersOK, NEW r \in Reader, Fetch(r)
  PROVE  AnswersOK'
<1>1. UNCHANGED <<file, writing, entry, report>>
  BY DEF Fetch
<1>2. ASSUME NEW q \in Reader
      PROVE  Owns(reads'[q].cached, file, writing) /\ Tellable(reads'[q], file)
  <2>1. CASE q = r
    <3>1. reads'[q] = [Idle EXCEPT !.at = "stat", !.cached = entry]
      BY <2>1 DEF Fetch, CacheOK
    <3>2. reads'[q].cached = entry /\ reads'[q].at = "stat"
      BY <3>1 DEF Idle
    <3>3. QED
      BY <3>2 DEF AnswersOK, Tellable
  <2>2. CASE q # r
    <3>1. reads'[q] = reads[q]
      BY <2>2 DEF Fetch, CacheOK
    <3>2. QED
      BY <3>1 DEF AnswersOK
  <2>3. QED
    BY <2>1, <2>2
<1>3. QED
  BY <1>1, <1>2 DEF AnswersOK

(* A read that answers owns nothing afterwards.                            *)
LEMMA AnswerIsSound ==
  ASSUME CacheOK, AnswersOK, NEW r \in Reader, NEW parsed, NEW n, Answer(r, parsed, n),
         UNCHANGED <<file, writing>>, Owns(entry', file, writing),
         Agrees(parsed, SubSeq(file, 1, n))
  PROVE  AnswersOK'
<1>1. ASSUME NEW q \in Reader
      PROVE  Owns(reads'[q].cached, file, writing) /\ Tellable(reads'[q], file)
  <2>1. reads'[q] = IF q = r THEN Idle ELSE reads[q]
    BY DEF Answer, CacheOK
  <2>2. Idle.cached = None /\ Idle.at = "idle"
    BY DEF Idle
  <2>3. QED
    BY <2>1, <2>2, NothingOwned DEF AnswersOK, Tellable
<1>2. report'.parsed = parsed /\ report'.covers = n
  BY DEF Answer
<1>3. QED
  BY <1>1, <1>2 DEF AnswersOK

LEMMA AnswersStat ==
  ASSUME Faults = {}, FileOK, CacheOK, AnswersOK, NEW r \in Reader, Stat(r)
  PROVE  AnswersOK'
<1>1. PICK n \in Nat : n = Len(file) /\ file \in Seq(Byte)
  BY DEF FileOK, Bytes
<1>2. PICK cached \in Entries : cached = reads[r].cached
  BY DEF CacheOK, ReadOK, ReadStates
<1>3. UNCHANGED <<file, writing, entry>>
  BY DEF Stat
<1>4. CASE cached.cached /\ n = cached.byteSize /\ Answer(r, cached.parsed, n)
  <2>1. Owns(cached, file, writing)
    BY <1>2 DEF AnswersOK
  <2>2. PICK o : o = SubSeq(file, 1, n)
    OBVIOUS
  <2>3. Holds(cached.parsed, cached.partial, o)
    BY <1>4, <2>1, <2>2 DEF Owns
  <2>4. o = file
    BY <1>1, <2>2, SliceFromStart, SliceWhole
  <2>5. PICK y \in Seq(Byte) : y = <<>> /\ Len(y) = 0
    BY EmptySeq
  <2>6. o \o y = o
    BY <1>1, <2>4, <2>5, ConcatEmptySeq
  <2>7. Agrees(cached.parsed, o)
    <3>1. y \in Bytes /\ \A j \in 1 .. Len(y) : y[j] # NL
      BY <2>5 DEF Bytes
    <3>2. Agrees(cached.parsed, o \o y)
      BY <2>3, <3>1, HoldsAgrees
    <3>3. QED
      BY <2>6, <3>2
  <2>8. Owns(entry', file, writing)
    BY <1>3 DEF AnswersOK
  <2>9. QED
    BY <1>3, <1>4, <2>2, <2>7, <2>8, AnswerIsSound
<1>5. ASSUME NEW at \in {"extend", "full"},
             at = "extend" => ~InsideWide(file),
             reads' = [reads EXCEPT ![r] = [@ EXCEPT !.at = at, !.size = n]],
             UNCHANGED report
      PROVE  AnswersOK'
  <2>1. ASSUME NEW q \in Reader
        PROVE  reads'[q].cached = reads[q].cached /\ Tellable(reads'[q], file)
    <3>1. PICK x \in ReadStates : x = reads[q]
      BY DEF CacheOK
    <3>2. reads'[q] = IF q = r THEN [x EXCEPT !.at = at, !.size = n] ELSE x
      BY <1>5, <3>1 DEF CacheOK
    <3>3. reads'[q].cached = x.cached
      BY <3>2 DEF ReadStates
    <3>4. CASE q = r
      <4>1. reads'[q].at = at /\ reads'[q].size = n
        BY <3>2, <3>4 DEF ReadStates
      <4>2. SubSeq(file, 1, n) = file
        BY <1>1, SliceFromStart, SliceWhole
      <4>3. QED
        BY <1>5, <3>1, <3>3, <4>1, <4>2 DEF Tellable
    <3>5. CASE q # r
      BY <3>1, <3>2, <3>3, <3>5 DEF AnswersOK
    <3>6. QED
      BY <3>4, <3>5
  <2>2. QED
    BY <1>3, <1>5, <2>1 DEF AnswersOK
<1>6. \/ cached.cached /\ n = cached.byteSize /\ Answer(r, cached.parsed, n)
      \/ /\ reads' = [reads EXCEPT ![r] = [@ EXCEPT !.at = "extend", !.size = n]]
         /\ UNCHANGED report /\ ~InsideWide(file)
      \/ /\ reads' = [reads EXCEPT ![r] = [@ EXCEPT !.at = "full", !.size = n]]
         /\ UNCHANGED report
  BY <1>1, <1>2 DEF Stat
<1>7. QED
  BY <1>4, <1>5, <1>6

LEMMA AnswersExtend ==
  ASSUME FileOK, CacheOK, AnswersOK, NEW r \in Reader, Extend(r)
  PROVE  AnswersOK'
<1>1. PICK n \in Nat : n = Len(file) /\ file \in Seq(Byte) /\ writing \in Seq(Byte)
  BY DEF FileOK, Bytes
<1>2. PICK cached \in Entries : cached = reads[r].cached
  BY DEF CacheOK, ReadOK, ReadStates
<1>3. PICK size \in Nat : size = reads[r].size
  BY DEF CacheOK, ReadOK, ReadStates
<1>4. PICK b \in Nat : b = cached.byteSize
  BY DEF Entries
<1>5. b < size /\ size <= n /\ cached.cached
  BY <1>1, <1>2, <1>3, <1>4 DEF CacheOK, ReadOK, Extend
<1>6. PICK w : w = file \o writing
  OBVIOUS
<1>7. w \in Seq(Byte) /\ n <= Len(w) /\ WellCoded(w)
  BY <1>1, <1>6 DEF FileOK
<1>8. PICK new : new = Extended(cached, SubSeq(file, b + 1, size))
  OBVIOUS
<1>9. new \in Entries /\ new.cached /\ new.byteSize <= size
  BY <1>1, <1>4, <1>5, <1>8, ExtendTyped DEF FileOK
<1>10. ASSUME NEW a \in 0 .. n, NEW c \in a .. n
       PROVE  Slice(w, a, c) = Slice(file, a, c)
  BY <1>1, <1>6, SliceOfPrefix
<1>11. Cut(w, b) /\ Holds(cached.parsed, cached.partial, Slice(w, 0, b))
  <2>1. Owns(cached, file, writing)
    BY <1>2 DEF AnswersOK
  <2>2. 0 \in 0 .. n /\ b \in 0 .. n
    BY <1>5
  <2>3. Slice(w, 0, b) = SubSeq(file, 1, b)
    BY <1>10, <2>2, SliceFromStart
  <2>4. QED
    BY <1>4, <1>5, <1>6, <2>1, <2>3 DEF Owns
<1>12. new = Extended(cached, Slice(w, b, size))
  <2>1. b \in 0 .. n /\ size \in b .. n
    BY <1>5
  <2>2. QED
    BY <1>8, <1>10, <2>1 DEF Slice
<1>13. /\ Cut(w, new.byteSize)
       /\ Holds(new.parsed, new.partial, Slice(w, 0, new.byteSize))
       /\ Agrees(new.parsed, Slice(w, 0, size))
  <2>1. size \in b .. Len(w)
    BY <1>5, <1>7
  <2>2. ~InsideWide(Slice(w, 0, size))
    <3>1. 0 \in 0 .. n /\ size \in 0 .. n
      BY <1>5
    <3>2. Slice(w, 0, size) = SubSeq(file, 1, size)
      BY <1>10, <3>1, SliceFromStart
    <3>3. reads[r].at = "extend"
      BY DEF Extend
    <3>4. QED
      BY <1>3, <3>2, <3>3 DEF AnswersOK, Tellable
  <2>3. QED
    BY <1>4, <1>7, <1>11, <1>12, <2>1, <2>2, ExtendHolds
<1>14. Owns(new, file, writing)
  <2>1. PICK e \in Nat : e = new.byteSize
    BY <1>9 DEF Entries
  <2>2. 0 \in 0 .. n /\ e \in 0 .. n
    BY <1>5, <1>9, <2>1
  <2>3. Slice(w, 0, e) = SubSeq(file, 1, e)
    BY <1>10, <2>2, SliceFromStart
  <2>4. QED
    BY <1>6, <1>13, <2>1, <2>3 DEF Owns
<1>15. Agrees(new.parsed, SubSeq(file, 1, size))
  <2>1. 0 \in 0 .. n /\ size \in 0 .. n
    BY <1>5
  <2>2. Slice(w, 0, size) = SubSeq(file, 1, size)
    BY <1>10, <2>1, SliceFromStart
  <2>3. QED
    BY <1>13, <2>2
<1>16. entry' = new /\ Answer(r, new.parsed, size) /\ UNCHANGED <<file, writing>>
  BY <1>2, <1>3, <1>4, <1>8 DEF Extend
<1>17. QED
  BY <1>14, <1>15, <1>16, AnswerIsSound

LEMMA AnswersFull ==
  ASSUME Faults = {}, FileOK, CacheOK, AnswersOK, NEW r \in Reader, Full(r)
  PROVE  AnswersOK'
<1>1. PICK n \in Nat : n = Len(file) /\ file \in Seq(Byte)
  BY DEF FileOK, Bytes
<1>2. PICK new : new = Seeded(file)
  OBVIOUS
<1>3. EndsInLine(file) /\ entry' = new /\ Answer(r, new.parsed, n) /\ UNCHANGED <<file, writing>>
  BY <1>1, <1>2 DEF Full
<1>4. WellCoded(file) /\ Cut(file \o writing, n)
  BY <1>1, <1>3, WholeLines DEF FileOK
<1>5. /\ new.byteSize = n
      /\ Holds(new.parsed, new.partial, file)
      /\ Agrees(new.parsed, file)
  BY <1>1, <1>2, <1>3, <1>4, SeededHolds
<1>6. SubSeq(file, 1, n) = file
  BY <1>1, SliceFromStart, SliceWhole
<1>7. Owns(new, file, writing)
  BY <1>4, <1>5, <1>6 DEF Owns
<1>8. QED
  BY <1>3, <1>5, <1>6, <1>7, AnswerIsSound

LEMMA AnswersStep ==
  ASSUME Faults = {}, FileOK, CacheOK, AnswersOK, [Next]_vars
  PROVE  AnswersOK'
<1>1. CASE UNCHANGED <<entry, reads, report>>
  <2>1. Grows(file, writing, file', writing')
    BY FileStep
  <2>2. QED
    BY <1>1, <2>1, AnswersWait
<1>2. ASSUME NEW r \in Reader, Read(r)
      PROVE  AnswersOK'
  BY <1>2, AnswersFetch, AnswersStat, AnswersExtend, AnswersFull DEF Read
<1>3. StartLine \/ WriteSome \/ CrashMidLine \/ UNCHANGED vars => UNCHANGED <<entry, reads, report>>
  BY DEF StartLine, WriteSome, CrashMidLine, vars
<1>4. QED
  BY <1>1, <1>2, <1>3 DEF Next

LEMMA LoopIsRising ==
  ASSUME file \in Bytes
  PROVE  LoopKeepsRising
<1>1. Split(Decoded(file)) \in Seq(String)
  BY DecodedTyped, SplitTyped DEF String, Pieces
<1>2. PICK ls \in Seq(Lines) : ls = LinesOf(Split(Decoded(file)))
  BY <1>1, LinesTyped
<1>3. PICK lines \in Seq(Lines) : lines = NonBlank(ls)
  BY NonBlankTyped
<1>4. PICK direct \in Parses : direct = Parsed(ls, Start)
  BY ParsedTyped, StartTyped
<1>5. Rises(lines, direct)
  BY <1>3, <1>4, LoopRises
<1>6. direct.expected = LastSeq(lines) + 1
  BY <1>5, LastSeqIs
<1>7. direct = Report(file)
  BY <1>2, <1>4 DEF Report
<1>8. QED
  BY <1>2, <1>3, <1>5, <1>6, <1>7 DEF LoopKeepsRising, Rises

(* parseSessionLogLines against its closed form, whatever bytes a file was *)
(* left with: the loop keeps exactly the readable lines whose seq exceeds  *)
(* every seq before them, goes on after the last of them, and has no issue *)
(* to report exactly when the log is 1..n.                                 *)
THEOREM LoopCorrect == Spec => []LoopKeepsRising
<1> DEFINE Typed == file \in Bytes /\ writing \in Bytes
<1>1. Init => Typed
  BY EmptySeq DEF Init, Bytes
<1>2. Typed /\ [Next]_vars => Typed'
  <2>1. SUFFICES ASSUME file \in Seq(Byte), writing \in Seq(Byte), [Next]_vars
                 PROVE  file' \in Seq(Byte) /\ writing' \in Seq(Byte)
    BY DEF Bytes
  <2>2. CASE StartLine
    BY <2>1, <2>2, EnvelopeIs DEF StartLine, WellCoded, Bytes
  <2>3. CASE WriteSome
    <3>1. PICK k \in 1 .. Len(writing) :
            file' = file \o SubSeq(writing, 1, k) /\ writing' = SubSeq(writing, k + 1, Len(writing))
      BY <2>3 DEF WriteSome
    <3>2. PICK n \in Nat : n = Len(writing)
      BY <2>1
    <3>3. 0 \in 0 .. n /\ k \in 0 .. n /\ n \in k .. n
      BY <3>2
    <3>4. Slice(writing, 0, k) \in Seq(Byte) /\ Slice(writing, k, n) \in Seq(Byte)
      BY <2>1, <3>2, <3>3, SliceTypedToo
    <3>5. QED
      BY <2>1, <3>1, <3>2, <3>4, SliceFromStart DEF Slice
  <2>4. CASE CrashMidLine
    BY <2>1, <2>4, EmptySeq DEF CrashMidLine
  <2>5. CASE UNCHANGED <<file, writing>>
    BY <2>1, <2>5
  <2>6. QED
    BY <2>1, <2>2, <2>3, <2>4, <2>5 DEF Next, Read, Fetch, Stat, Extend, Full, vars
<1>3. Typed => LoopKeepsRising
  BY LoopIsRising
<1>4. QED
  BY <1>1, <1>2, <1>3, PTL DEF Spec

(* The cache is right for any readers, any lines and any text, of          *)
(* characters of one to four bytes: whatever order reads overlap in,       *)
(* wherever a crash tears a line and wherever a stat falls in one, inside  *)
(* a character of two bytes too, an entry owns exactly what its byteSize   *)
(* says and a read answers what readSessionLog would.  Not so after a stat *)
(* inside a character of three or four bytes: that is a fault of its own,  *)
(* and NeverPoisoned shows what it leads to.                               *)
THEOREM CacheCorrect == ASSUME Faults = {} PROVE Spec => []CacheSound
<1>1. Init => FileOK /\ CacheOK /\ AnswersOK
  BY FileInit, CacheInit, AnswersInit
<1>2. FileOK /\ CacheOK /\ AnswersOK /\ [Next]_vars => FileOK' /\ CacheOK' /\ AnswersOK'
  BY FileStep, CacheStep, AnswersStep
<1>3. FileOK /\ CacheOK /\ AnswersOK => CacheSound
  <2>1. SUFFICES ASSUME FileOK, CacheOK, AnswersOK
                 PROVE  CacheSound
    OBVIOUS
  <2>2. EntryOwns
    <3>1. SUFFICES ASSUME entry.cached
                   PROVE  EntryOwns
      BY DEF EntryOwns
    <3>2. Holds(entry.parsed, entry.partial, SubSeq(file, 1, entry.byteSize))
      BY <2>1, <3>1 DEF AnswersOK, Owns
    <3>3. QED
      BY <3>2, HoldsOwns DEF EntryOwns
  <2>3. SameAsFullRead
    BY <2>1 DEF AnswersOK, Agrees, SameAsFullRead
  <2>4. LoopKeepsRising
    BY <2>1, LoopIsRising DEF FileOK
  <2>5. QED
    BY <2>2, <2>3, <2>4 DEF CacheSound
<1>4. QED
  BY <1>1, <1>2, <1>3, PTL DEF Spec
=============================================================================
