--------------------------- MODULE SequenceLemmas ---------------------------
(***************************************************************************)
(* Facts about numbers, loops and sequences the proofs rest on.  The       *)
(* library's theorems of induction take the formula to be proved as a      *)
(* parameter; here an induction is by its least counterexample, or over    *)
(* the set of the numbers it holds of (LeastNumber, EveryStep).  A loop is *)
(* the step Op, which whoever instantiates this module says: then what is  *)
(* said of any recursive function and any fold is said of that one.        *)
(***************************************************************************)
EXTENDS Integers, Sequences, SequencesExt, FiniteSetTheorems, WellFoundedInduction,
        SequenceTheorems, TLAPS

\* A step of a loop: of what is given throughout, of what was there before it,
\* and of its item or number.
CONSTANT Op(_, _, _)

\* A set of numbers has a least one: the initial segments are well-founded.
LEMMA LeastNumber ==
  ASSUME NEW S \in SUBSET Nat, S # {}
  PROVE  \E m \in S : \A n \in S : m <= n
<1> DEFINE R == StrictSubsetOrdering(Nat)
           F == {0..n : n \in S}
<1>1. IsWellFoundedOn(R, FiniteSubsetsOf(Nat))
  BY FS_StrictSubsetOrderingWellFounded
<1>2. \A n \in S : 0..n \in FiniteSubsetsOf(Nat)
  BY FS_Interval DEF FiniteSubsetsOf
<1>3. F \subseteq FiniteSubsetsOf(Nat) /\ F # {}
  BY <1>2
<1>4. PICK I \in F : \A J \in F : <<J, I>> \notin R
  <2> HIDE DEF R, F
  <2> QED BY <1>1, <1>3, WFMin
<1>5. PICK m \in S : I = 0..m
  OBVIOUS
<1>6. ASSUME NEW n \in S, ~ (m <= n) PROVE FALSE
  <2>1. m \in Nat /\ n \in Nat /\ n < m
    BY <1>6
  <2>2. 0..n \subseteq 0..m /\ m \in 0..m /\ m \notin 0..n
    BY <2>1
  <2>3. 0..n \in F /\ 0..n \in SUBSET Nat /\ I \in SUBSET Nat
    BY <1>5
  <2>4. <<0..n, I>> \in R
    BY <1>5, <2>2, <2>3 DEF StrictSubsetOrdering
  <2> QED BY <1>4, <2>3, <2>4
<1> QED BY <1>6

\* What holds of 0 and, with a number below n, of the next, holds as far as n.
LEMMA EveryStep ==
  ASSUME NEW n \in Nat, NEW S, 0 \in S, \A i \in 0..(n - 1) : i \in S => i + 1 \in S
  PROVE  \A i \in 0..n : i \in S
<1> DEFINE Bad == {i \in 0..n : i \notin S}
<1>1. SUFFICES ASSUME Bad # {} PROVE FALSE
  OBVIOUS
<1>2. PICK i \in Bad : \A k \in Bad : i <= k
  <2> Bad \in SUBSET Nat
    OBVIOUS
  <2> HIDE DEF Bad
  <2> QED BY <1>1, LeastNumber
<1>3. i \in 0..n /\ i \notin S /\ i # 0
  BY <1>2
<1>4. i - 1 \in 0..(n - 1) /\ i - 1 \in 0..n /\ ~(i <= i - 1) /\ (i - 1) + 1 = i
  BY <1>3
<1>5. i - 1 \in S
  BY <1>2, <1>4
<1> QED BY <1>3, <1>4, <1>5

-----------------------------------------------------------------------------
(* Loops.                                                                  *)

\* f[k] is what k steps from base make.
IsRun(f, given, base, n) ==
  f = [k \in 0..n |-> IF k = 0 THEN base ELSE Op(given, f[k - 1], k)]

\* There is a run of any length.
LEMMA RunExists ==
  ASSUME NEW given, NEW base, NEW n \in Nat
  PROVE  \E f : IsRun(f, given, base, n)
<1> DEFINE S == {m \in Nat : \E f : IsRun(f, given, base, m)}
<1>1. 0 \in S
  <2> DEFINE f == [k \in 0..0 |-> base]
             F == [k \in 0..0 |-> IF k = 0 THEN base ELSE Op(given, f[k - 1], k)]
  <2>1. f = F
    OBVIOUS
  <2>2. IsRun(f, given, base, 0)
    BY <2>1, Zenon DEF IsRun
  <2> QED BY <2>2
<1>2. ASSUME NEW m \in Nat, m \in S PROVE m + 1 \in S
  <2>1. PICK g : IsRun(g, given, base, m)
    BY <1>2
  <2> DEFINE f == [k \in 0..(m + 1) |-> IF k = m + 1 THEN Op(given, g[m], k) ELSE g[k]]
             F == [k \in 0..(m + 1) |-> IF k = 0 THEN base ELSE Op(given, f[k - 1], k)]
  <2>2. ASSUME NEW k \in 0..(m + 1) PROVE f[k] = F[k]
    <3>1. CASE k = m + 1
      <4>1. k # 0 /\ k - 1 = m /\ m \in 0..(m + 1) /\ m # m + 1
        BY <3>1
      <4> QED BY <3>1, <4>1
    <3>2. CASE k # m + 1
      <4>1. k \in 0..m /\ (k # 0 => k - 1 \in 0..(m + 1) /\ k - 1 # m + 1)
        BY <3>2
      <4>2. g[k] = IF k = 0 THEN base ELSE Op(given, g[k - 1], k)
        BY <2>1, <4>1, Zenon DEF IsRun
      <4> QED BY <3>2, <4>1, <4>2
    <3> QED BY <3>1, <3>2
  <2>3. f = F
    BY <2>2, Zenon
  <2>4. IsRun(f, given, base, m + 1)
    BY <2>3, Zenon DEF IsRun
  <2> QED BY <2>4
<1> HIDE DEF S
<1>3. \A i \in 0..n : i \in S
  BY <1>1, <1>2, EveryStep
<1> QED BY <1>3 DEF S

\* FoldLeft of the community modules, written out.
Folded(given, base, seq) ==
  LET iter[s \in SUBSET DOMAIN seq] ==
        IF s = {} THEN base
        ELSE LET x == CHOOSE x \in s : \A y \in s : x >= y IN Op(given, iter[s \ {x}], seq[x])
  IN iter[DOMAIN seq]

\* The fold over each set of the first n items.
IsFolding(iter, given, base, seq, n) ==
  iter = [s \in SUBSET (1..n) |->
    IF s = {} THEN base
    ELSE LET x == CHOOSE x \in s : \A y \in s : x >= y IN Op(given, iter[s \ {x}], seq[x])]

Folding(given, base, seq) == CHOOSE iter : IsFolding(iter, given, base, seq, Len(seq))

\* What the fold has made of the first i items.
Made(given, base, seq, i) == Folding(given, base, seq)[1..i]

\* There is such a fold of any length.
LEMMA FoldingExists ==
  ASSUME NEW given, NEW base, NEW seq, NEW len \in Nat
  PROVE  \E iter : IsFolding(iter, given, base, seq, len)
<1> DEFINE Top(s) == CHOOSE x \in s : \A y \in s : x >= y
           S == {n \in Nat : \E iter : IsFolding(iter, given, base, seq, n)}
<1>1. 0 \in S
  <2> DEFINE e == [s \in {{}} |-> base]
             E == [s \in SUBSET (1..0) |->
                     IF s = {} THEN base ELSE LET x == Top(s) IN Op(given, e[s \ {x}], seq[x])]
  <2>1. SUBSET (1..0) = {{}}
    OBVIOUS
  <2>2. e = E
    BY <2>1
  <2>3. IsFolding(e, given, base, seq, 0)
    BY <2>2 DEF IsFolding
  <2> QED BY <2>3
<1>2. ASSUME NEW m \in Nat, m \in S PROVE m + 1 \in S
  <2>1. PICK g : IsFolding(g, given, base, seq, m)
    BY <1>2
  <2> DEFINE n == m + 1
             h == [s \in SUBSET (1..n) |->
                     IF n \in s THEN Op(given, g[s \ {n}], seq[n]) ELSE g[s]]
             H == [s \in SUBSET (1..n) |->
                     IF s = {} THEN base ELSE LET x == Top(s) IN Op(given, h[s \ {x}], seq[x])]
  <2>2. ASSUME NEW s \in SUBSET (1..n) PROVE h[s] = H[s]
    <3>1. CASE n \in s
      <4>1. Top(s) = n
        <5>1. \A x \in s : (\A y \in s : x >= y) => x = n
          BY <3>1
        <5>2. \A y \in s : n >= y
          OBVIOUS
        <5> QED BY <3>1, <5>1, <5>2
      <4>2. h[s \ {n}] = g[s \ {n}]
        OBVIOUS
      <4>3. H[s] = Op(given, h[s \ {n}], seq[n])
        BY <3>1, <4>1
      <4>4. h[s] = Op(given, g[s \ {n}], seq[n])
        BY <3>1
      <4> QED BY <4>2, <4>3, <4>4
    <3>2. CASE n \notin s
      <4>1. s \in SUBSET (1..m)
        BY <3>2
      <4>2. h[s] = g[s]
        BY <3>2
      <4>3. g[s] = IF s = {} THEN base ELSE LET x == Top(s) IN Op(given, g[s \ {x}], seq[x])
        BY <2>1, <4>1, Zenon DEF IsFolding
      <4>4. n \notin s \ {Top(s)} /\ s \ {Top(s)} \in SUBSET (1..n)
        BY <3>2
      <4>5. h[s \ {Top(s)}] = g[s \ {Top(s)}]
        BY <4>4
      <4>6. H[s] = IF s = {} THEN base ELSE LET x == Top(s) IN Op(given, h[s \ {x}], seq[x])
        OBVIOUS
      <4> HIDE DEF h, H, Top
      <4> QED BY <4>2, <4>3, <4>5, <4>6
    <3> QED BY <3>1, <3>2
  <2>3. h = H
    BY <2>2, Zenon
  <2>4. IsFolding(h, given, base, seq, n)
    BY <2>3, Zenon DEF IsFolding
  <2> QED BY <2>4
<1> HIDE DEF S
<1>3. \A i \in 0..len : i \in S
  BY <1>1, <1>2, EveryStep
<1> QED BY <1>3 DEF S

Top(s) == CHOOSE x \in s : \A y \in s : x >= y

\* The fold there is is one.
LEMMA FoldingIs ==
  ASSUME NEW given, NEW base, NEW T, NEW seq \in Seq(T)
  PROVE  IsFolding(Folding(given, base, seq), given, base, seq, Len(seq))
<1>1. Len(seq) \in Nat
  OBVIOUS
<1> QED BY <1>1, FoldingExists DEF Folding

\* The fold over no item is its base, over a set of them a step with the last.
LEMMA FoldingOfNone ==
  ASSUME NEW given, NEW base, NEW T, NEW seq \in Seq(T)
  PROVE  Folding(given, base, seq)[{}] = base
<1> DEFINE g == Folding(given, base, seq)
<1>1. IsFolding(g, given, base, seq, Len(seq))
  BY FoldingIs
<1> HIDE DEF g
<1>2. \A s \in SUBSET (1..Len(seq)) :
        g[s] = IF s = {} THEN base ELSE Op(given, g[s \ {Top(s)}], seq[Top(s)])
  BY <1>1, Zenon DEF IsFolding, Top
<1>3. {} \in SUBSET (1..Len(seq))
  OBVIOUS
<1>4. g[{}] = base
  BY <1>2, <1>3, Zenon
<1> QED BY <1>4 DEF g

LEMMA FoldingOfSome ==
  ASSUME NEW given, NEW base, NEW T, NEW seq \in Seq(T),
         NEW s \in SUBSET (1..Len(seq)), s # {}
  PROVE  Folding(given, base, seq)[s] =
           Op(given, Folding(given, base, seq)[s \ {Top(s)}], seq[Top(s)])
<1> DEFINE g == Folding(given, base, seq)
<1>1. IsFolding(g, given, base, seq, Len(seq))
  BY FoldingIs
<1> HIDE DEF g
<1>2. \A u \in SUBSET (1..Len(seq)) :
        g[u] = IF u = {} THEN base ELSE Op(given, g[u \ {Top(u)}], seq[Top(u)])
  BY <1>1, Zenon DEF IsFolding, Top
<1>3. g[s] = Op(given, g[s \ {Top(s)}], seq[Top(s)])
  BY <1>2, Zenon
<1> QED BY <1>3 DEF g

\* A fold is its base and one step of Op for each item, in their order.
LEMMA FoldEnds ==
  ASSUME NEW given, NEW base, NEW T, NEW seq \in Seq(T)
  PROVE  Folded(given, base, seq) = Made(given, base, seq, Len(seq))
<1>1. DOMAIN seq = 1..Len(seq)
  OBVIOUS
<1> QED BY <1>1 DEF Folded, Made, Folding, IsFolding

LEMMA FoldStarts ==
  ASSUME NEW given, NEW base, NEW T, NEW seq \in Seq(T)
  PROVE  Made(given, base, seq, 0) = base
<1>1. 1..0 = {}
  OBVIOUS
<1>2. Folding(given, base, seq)[{}] = base
  BY FoldingOfNone
<1> QED BY <1>1, <1>2 DEF Made

LEMMA FoldSteps ==
  ASSUME NEW given, NEW base, NEW T, NEW seq \in Seq(T), NEW i \in 1..Len(seq)
  PROVE  Made(given, base, seq, i) = Op(given, Made(given, base, seq, i - 1), seq[i])
<1> DEFINE n == Len(seq)
           g == Folding(given, base, seq)
<1>1. n \in Nat /\ i \in Nat /\ i <= n /\ 1 <= i
  OBVIOUS
<1>2. 1..i \in SUBSET (1..n) /\ (1..i) \ {i} = 1..(i - 1) /\ 1..i # {}
  <2> HIDE DEF n
  <2> QED BY <1>1
<1>3. Top(1..i) = i
  <2>1. \A x \in 1..i : (\A y \in 1..i : x >= y) => x = i
    BY <1>1
  <2>2. i \in 1..i /\ \A y \in 1..i : i >= y
    BY <1>1
  <2> QED BY <2>1, <2>2 DEF Top
<1>4. g[1..i] = Op(given, g[(1..i) \ {Top(1..i)}], seq[Top(1..i)])
  <2> DEFINE s == 1..i
  <2>1. s \in SUBSET (1..Len(seq)) /\ s # {}
    BY <1>2
  <2> HIDE DEF s
  <2>2. g[s] = Op(given, g[s \ {Top(s)}], seq[Top(s)])
    BY <2>1, FoldingOfSome
  <2> QED BY <2>2 DEF s
<1> HIDE DEF g
<1>5. g[1..i] = Op(given, g[1..(i - 1)], seq[i])
  BY <1>2, <1>3, <1>4
<1> QED BY <1>5 DEF Made, g

Run(given, base, n) == CHOOSE f : IsRun(f, given, base, n)

\* A function by recursion from zero makes one step of Op for each number.
LEMMA RunStarts ==
  ASSUME NEW given, NEW base, NEW n \in Nat
  PROVE  Run(given, base, n)[0] = base
<1> DEFINE f == Run(given, base, n)
<1>1. IsRun(f, given, base, n)
  BY RunExists DEF Run
<1> HIDE DEF f
<1>2. \A k \in 0..n : f[k] = IF k = 0 THEN base ELSE Op(given, f[k - 1], k)
  BY <1>1, Zenon DEF IsRun
<1>3. f[0] = base
  BY <1>2
<1> QED BY <1>3 DEF f

LEMMA RunSteps ==
  ASSUME NEW given, NEW base, NEW n \in Nat, NEW k \in 1..n
  PROVE  Run(given, base, n)[k] = Op(given, Run(given, base, n)[k - 1], k)
<1> DEFINE f == Run(given, base, n)
<1>1. IsRun(f, given, base, n)
  BY RunExists DEF Run
<1> HIDE DEF f
<1>2. \A j \in 0..n : f[j] = IF j = 0 THEN base ELSE Op(given, f[j - 1], j)
  BY <1>1, Zenon DEF IsRun
<1>3. k \in 0..n /\ k # 0
  OBVIOUS
<1>4. f[k] = Op(given, f[k - 1], k)
  BY <1>2, <1>3, Zenon
<1> QED BY <1>4 DEF f

IsUpward(f, given) == f = [n \in Nat |-> Op(given, f, n)]

Upward(given) == CHOOSE f : IsUpward(f, given)

\* There is a function by recursion upwards, if at a number it looks only at
\* higher ones, as far as there are bytes.
LEMMA UpwardSteps ==
  ASSUME NEW given, NEW bound \in Nat,
         \A f, g : \A n \in Nat :
           (\A j \in Nat : n < j /\ j <= bound => f[j] = g[j]) => Op(given, f, n) = Op(given, g, n)
  PROVE  \A n \in Nat : Upward(given)[n] = Op(given, Upward(given), n)
<1> DEFINE Is(f, k) == f = [n \in Nat |-> IF n + k >= bound THEN Op(given, f, n) ELSE 0]
           S == {k \in Nat : \E f : Is(f, k)}
<1>1. 0 \in S
  <2> DEFINE f == [n \in Nat |-> IF n + 0 >= bound THEN Op(given, 0, n) ELSE 0]
             F == [n \in Nat |-> IF n + 0 >= bound THEN Op(given, f, n) ELSE 0]
  <2>1. ASSUME NEW n \in Nat PROVE f[n] = F[n]
    <3>1. CASE n + 0 >= bound
      <4>1. \A j \in Nat : ~(n < j /\ j <= bound)
        BY <3>1
      <4>2. Op(given, 0, n) = Op(given, f, n)
        <5> HIDE DEF f
        <5> QED BY <4>1
      <4> QED BY <3>1, <4>2
    <3>2. CASE ~(n + 0 >= bound)
      BY <3>2
    <3> QED BY <3>1, <3>2
  <2>2. f = F
    BY <2>1, Zenon
  <2>3. Is(f, 0)
    BY <2>2, Zenon
  <2> QED BY <2>3
<1>2. ASSUME NEW k \in Nat, k \in S PROVE k + 1 \in S
  <2>1. PICK g : Is(g, k)
    BY <1>2
  <2> DEFINE f == [n \in Nat |-> IF n + (k + 1) >= bound THEN Op(given, g, n) ELSE 0]
             F == [n \in Nat |-> IF n + (k + 1) >= bound THEN Op(given, f, n) ELSE 0]
  <2>2. ASSUME NEW j \in Nat, j + k >= bound PROVE f[j] = g[j]
    <3>1. j + (k + 1) >= bound
      BY <2>2
    <3>2. g[j] = Op(given, g, j)
      <4>1. g[j] = IF j + k >= bound THEN Op(given, g, j) ELSE 0
        BY <2>1, Zenon
      <4> QED BY <2>2, <4>1
    <3> QED BY <3>1, <3>2
  <2>3. ASSUME NEW n \in Nat PROVE f[n] = F[n]
    <3>1. CASE n + (k + 1) >= bound
      <4>1. \A j \in Nat : n < j /\ j <= bound => g[j] = f[j]
        <5>1. \A j \in Nat : n < j => j + k >= bound
          BY <3>1
        <5> HIDE DEF f
        <5> QED BY <2>2, <5>1
      <4>2. Op(given, g, n) = Op(given, f, n)
        <5> HIDE DEF f
        <5> QED BY <4>1
      <4> QED BY <3>1, <4>2
    <3>2. CASE ~(n + (k + 1) >= bound)
      BY <3>2
    <3> QED BY <3>1, <3>2
  <2>4. f = F
    BY <2>3, Zenon
  <2>5. \E h : Is(h, k + 1)
    BY <2>4, Zenon
  <2> HIDE DEF Is
  <2> QED BY <2>5
<1> HIDE DEF S
<1>3. bound \in S
  BY <1>1, <1>2, EveryStep
<1>4. PICK f : Is(f, bound)
  BY <1>3 DEF S
<1>5. f = [n \in Nat |-> Op(given, f, n)]
  <2> DEFINE F == [n \in Nat |-> Op(given, f, n)]
             G == [n \in Nat |-> IF n + bound >= bound THEN Op(given, f, n) ELSE 0]
  <2>1. \A n \in Nat : n + bound >= bound
    OBVIOUS
  <2>2. F = G
    BY <2>1
  <2> QED BY <1>4, <2>2, Zenon
<1>6. IsUpward(Upward(given), given)
  BY <1>5, Zenon DEF Upward, IsUpward
<1> HIDE DEF Is
<1> DEFINE u == Upward(given)
<1>7. u = [n \in Nat |-> Op(given, u, n)]
  BY <1>6 DEF IsUpward
<1> HIDE DEF u
<1>8. \A n \in Nat : u[n] = Op(given, u, n)
  BY <1>7, Zenon
<1> QED BY <1>8 DEF u

-----------------------------------------------------------------------------
(* FlattenSeq: from its definition to what it makes of one sequence more.  *)

IsJoining(f, seqs, n) ==
  f = [i \in 1..n |-> IF i = 1 THEN seqs[i] ELSE f[i - 1] \o seqs[i]]

Joining(seqs) == CHOOSE f : IsJoining(f, seqs, Len(seqs))

\* FlattenSeq is the last of the joinings.
LEMMA FlattenIsJoining ==
  ASSUME NEW seqs
  PROVE  FlattenSeq(seqs) = IF Len(seqs) = 0 THEN seqs ELSE Joining(seqs)[Len(seqs)]
  BY DEF FlattenSeq, Joining, IsJoining

\* There is such a joining of any length.
LEMMA JoiningExists ==
  ASSUME NEW seqs, NEW len \in Nat
  PROVE  \E f : IsJoining(f, seqs, len)
<1> DEFINE Bad == {n \in Nat : ~ \E f : IsJoining(f, seqs, n)}
<1>1. SUFFICES ASSUME Bad # {} PROVE FALSE
  OBVIOUS
<1>2. PICK n \in Bad : \A k \in Bad : n <= k
  <2> Bad \in SUBSET Nat
    OBVIOUS
  <2> HIDE DEF Bad
  <2> QED BY <1>1, LeastNumber
<1>3. n \in Nat
  BY <1>2
<1>4. CASE n = 0
  <2> DEFINE e == [i \in {} |-> 0]
             E == [i \in 1..n |-> IF i = 1 THEN seqs[i] ELSE e[i - 1] \o seqs[i]]
  <2>1. 1..n = {}
    BY <1>4
  <2>2. e = E
    BY <2>1
  <2>3. IsJoining(e, seqs, n)
    BY <2>2, Zenon DEF IsJoining
  <2> QED BY <1>2, <2>3
<1>5. CASE n # 0
  <2>0. n - 1 \in Nat /\ ~(n <= n - 1)
    BY <1>3, <1>5
  <2>1. n - 1 \notin Bad
    BY <1>2, <2>0
  <2>2. PICK g : IsJoining(g, seqs, n - 1)
    BY <2>0, <2>1
  <2> DEFINE h == [i \in 1..n |-> IF i = n THEN (IF i = 1 THEN seqs[i] ELSE g[i - 1] \o seqs[i]) ELSE g[i]]
             H == [i \in 1..n |-> IF i = 1 THEN seqs[i] ELSE h[i - 1] \o seqs[i]]
  <2>3. ASSUME NEW i \in 1..n PROVE h[i] = H[i]
    <3>1. i \in Int /\ 1 <= i /\ i <= n
      BY <1>3
    <3>2. i # 1 => i - 1 \in 1..n /\ i - 1 # n
      BY <1>3, <3>1
    <3>3. i # 1 => h[i - 1] = g[i - 1]
      BY <3>2
    <3>4. CASE i = n
      BY <3>3, <3>4
    <3>5. CASE i # n
      <4>1. i \in 1..(n - 1)
        BY <1>3, <3>1, <3>5
      <4>2. g[i] = IF i = 1 THEN seqs[i] ELSE g[i - 1] \o seqs[i]
        BY <2>2, <4>1, Zenon DEF IsJoining
      <4> QED BY <3>3, <3>5, <4>2
    <3> QED BY <3>4, <3>5
  <2>4. h = H
    BY <2>3, Zenon
  <2>5. IsJoining(h, seqs, n)
    BY <2>4, Zenon DEF IsJoining
  <2> QED BY <1>2, <2>5
<1> QED BY <1>4, <1>5

\* Each is the one before it and one sequence more.
LEMMA JoiningSteps ==
  ASSUME NEW T, NEW seqs \in Seq(Seq(T))
  PROVE  \A i \in 1..Len(seqs) :
           /\ Joining(seqs)[i] = IF i = 1 THEN seqs[i] ELSE Joining(seqs)[i - 1] \o seqs[i]
           /\ Joining(seqs)[i] \in Seq(T)
<1> DEFINE n == Len(seqs)
           f == Joining(seqs)
<1>1. n \in Nat
  OBVIOUS
<1>2. IsJoining(f, seqs, n)
  BY <1>1, JoiningExists DEF Joining
<1> HIDE DEF f
<1>3. \A i \in 1..n : f[i] = IF i = 1 THEN seqs[i] ELSE f[i - 1] \o seqs[i]
  BY <1>2, Zenon DEF IsJoining
<1>4. \A i \in 1..n : f[i] \in Seq(T)
  <2> DEFINE Bad == {i \in 1..n : f[i] \notin Seq(T)}
  <2>1. SUFFICES ASSUME Bad # {} PROVE FALSE
    OBVIOUS
  <2>2. PICK i \in Bad : \A k \in Bad : i <= k
    <3> Bad \in SUBSET Nat
      OBVIOUS
    <3> HIDE DEF Bad
    <3> QED BY <2>1, LeastNumber
  <2>3. i \in 1..n /\ seqs[i] \in Seq(T)
    BY <2>2
  <2>4. i # 1
    BY <1>3, <2>2, <2>3
  <2>5. i - 1 \in 1..n /\ ~(i <= i - 1)
    BY <1>1, <2>3, <2>4
  <2>6. f[i - 1] \in Seq(T)
    BY <2>2, <2>5
  <2>7. f[i - 1] \o seqs[i] \in Seq(T)
    BY <2>3, <2>6
  <2> QED BY <1>3, <2>2, <2>3, <2>4, <2>7
<1> QED BY <1>3, <1>4 DEF f

\* Two sequences of sequences that begin alike are joined alike as far as that.
LEMMA JoiningAgrees ==
  ASSUME NEW T, NEW a \in Seq(Seq(T)), NEW b \in Seq(Seq(T)), NEW n \in Nat,
         n <= Len(a), n <= Len(b), \A i \in 1..n : a[i] = b[i]
  PROVE  \A i \in 1..n : Joining(a)[i] = Joining(b)[i]
<1> DEFINE Bad == {i \in 1..n : Joining(a)[i] # Joining(b)[i]}
<1>1. SUFFICES ASSUME Bad # {} PROVE FALSE
  OBVIOUS
<1>2. PICK i \in Bad : \A k \in Bad : i <= k
  <2> Bad \in SUBSET Nat
    OBVIOUS
  <2> HIDE DEF Bad
  <2> QED BY <1>1, LeastNumber
<1>3. i \in 1..n /\ i \in 1..Len(a) /\ i \in 1..Len(b)
  BY <1>2
<1>4. /\ Joining(a)[i] = IF i = 1 THEN a[i] ELSE Joining(a)[i - 1] \o a[i]
      /\ Joining(b)[i] = IF i = 1 THEN b[i] ELSE Joining(b)[i - 1] \o b[i]
  BY <1>3, JoiningSteps
<1>5. i # 1
  BY <1>2, <1>3, <1>4
<1>6. i - 1 \in 1..n /\ ~(i <= i - 1)
  BY <1>3, <1>5
<1>7. Joining(a)[i - 1] = Joining(b)[i - 1]
  BY <1>2, <1>6
<1> QED BY <1>2, <1>3, <1>4, <1>5, <1>7

\* What is joined of none, of one sequence more at the end, and of what kind.
LEMMA FlattenAppend ==
  ASSUME NEW T, NEW seqs \in Seq(Seq(T)), NEW s \in Seq(T)
  PROVE  /\ FlattenSeq(<<>>) = <<>>
         /\ FlattenSeq(seqs) \in Seq(T)
         /\ FlattenSeq(Append(seqs, s)) = FlattenSeq(seqs) \o s
<1> DEFINE n == Len(seqs)
           more == Append(seqs, s)
<1>1. /\ n \in Nat /\ more \in Seq(Seq(T)) /\ Len(more) = n + 1
      /\ \A i \in 1..n : more[i] = seqs[i]
      /\ more[n + 1] = s
  BY AppendProperties
<1>2. FlattenSeq(<<>>) = <<>>
  BY FlattenIsJoining
<1>3. FlattenSeq(seqs) \in Seq(T)
  <2>1. CASE n = 0
    <3>1. seqs = <<>>
      BY <2>1
    <3>2. <<>> \in Seq(T)
      OBVIOUS
    <3>3. FlattenSeq(<<>>) \in Seq(T)
      BY <1>2, <3>2
    <3> QED BY <3>1, <3>3
  <2>2. CASE n # 0
    <3>1. n \in 1..n
      BY <1>1, <2>2
    <3>2. FlattenSeq(seqs) = Joining(seqs)[n]
      BY <2>2, FlattenIsJoining
    <3> QED BY <3>1, <3>2, JoiningSteps
  <2> QED BY <2>1, <2>2
<1> HIDE DEF more
<1>4. FlattenSeq(more) = FlattenSeq(seqs) \o s
  <2>1. FlattenSeq(more) = Joining(more)[n + 1] /\ n + 1 \in 1..Len(more)
    BY <1>1, FlattenIsJoining
  <2>2. Joining(more)[n + 1] = IF n + 1 = 1 THEN s ELSE Joining(more)[n] \o s
    <3>1. (n + 1) - 1 = n
      BY <1>1
    <3>2. Joining(more)[n + 1] =
            IF n + 1 = 1 THEN more[n + 1] ELSE Joining(more)[(n + 1) - 1] \o more[n + 1]
      BY <1>1, <2>1, JoiningSteps
    <3> HIDE DEF n
    <3> QED BY <1>1, <3>1, <3>2
  <2>3. CASE n = 0
    <3>1. seqs = <<>> /\ n + 1 = 1
      BY <2>3
    <3>2. <<>> \o s = s
      OBVIOUS
    <3> QED BY <1>2, <2>1, <2>2, <3>1, <3>2
  <2>4. CASE n # 0
    <3>1. n \in 1..n /\ n + 1 # 1 /\ n <= Len(more) /\ n <= n
      BY <1>1, <2>4
    <3>2. Joining(more)[n] = Joining(seqs)[n]
      BY <1>1, <3>1, JoiningAgrees
    <3>3. FlattenSeq(seqs) = Joining(seqs)[n]
      BY <2>4, FlattenIsJoining
    <3> QED BY <2>1, <2>2, <3>1, <3>2, <3>3
  <2> QED BY <2>3, <2>4
<1> QED BY <1>2, <1>3, <1>4 DEF more

\* What is joined of one sequence more at the beginning.
LEMMA FlattenCons ==
  ASSUME NEW T, NEW s \in Seq(T), NEW seqs \in Seq(Seq(T))
  PROVE  FlattenSeq(<<s>> \o seqs) = s \o FlattenSeq(seqs)
<1> DEFINE Holds(q) == FlattenSeq(<<s>> \o q) = s \o FlattenSeq(q)
           Bad == {n \in Nat : \E q \in Seq(Seq(T)) : Len(q) = n /\ ~Holds(q)}
<1>1. SUFFICES Bad = {}
  <2>1. Len(seqs) \in Nat
    OBVIOUS
  <2> QED BY <2>1
<1>2. SUFFICES ASSUME Bad # {} PROVE FALSE
  OBVIOUS
<1>3. PICK n \in Bad : \A k \in Bad : n <= k
  <2> Bad \in SUBSET Nat
    OBVIOUS
  <2> HIDE DEF Bad
  <2> QED BY <1>2, LeastNumber
<1>4. PICK q \in Seq(Seq(T)) : Len(q) = n /\ ~Holds(q)
  BY <1>3
<1>5. <<>> \in Seq(Seq(T)) /\ <<>> \in Seq(T) /\ <<s>> \in Seq(Seq(T))
  OBVIOUS
<1>6. CASE q = <<>>
  <2>1. <<s>> \o q = Append(<<>>, s) /\ <<>> \o s = s /\ s \o <<>> = s
    BY <1>6
  <2>2. FlattenSeq(q) = <<>> /\ FlattenSeq(Append(<<>>, s)) = <<>> \o s
    BY <1>5, <1>6, FlattenAppend
  <2> QED BY <1>4, <2>1, <2>2
<1>7. CASE q # <<>>
  <2>1. PICK f \in Seq(Seq(T)), l \in Seq(T) : q = Append(f, l) /\ Len(f) = Len(q) - 1
    <3>1. PICK f \in Seq(Seq(T)), l \in Seq(T) : q = Append(f, l)
      BY <1>7, SequenceEmptyOrAppend
    <3>2. Len(f) = Len(q) - 1
      BY <3>1, AppendProperties
    <3> QED BY <3>1, <3>2
  <2>2. Len(f) \in Nat /\ ~(n <= Len(f))
    BY <1>4, <2>1
  <2>3. Holds(f)
    BY <1>3, <2>2
  <2>4. <<s>> \o q = Append(<<s>> \o f, l) /\ <<s>> \o f \in Seq(Seq(T))
    <3>1. q = f \o <<l>> /\ <<l>> \in Seq(Seq(T))
      BY <2>1, AppendIsConcat
    <3>2. <<s>> \o f \in Seq(Seq(T))
      BY <1>5, ConcatProperties
    <3>3. (<<s>> \o f) \o <<l>> = <<s>> \o (f \o <<l>>)
      BY <1>5, <3>1, ConcatAssociative
    <3>4. Append(<<s>> \o f, l) = (<<s>> \o f) \o <<l>>
      BY <3>2, AppendIsConcat
    <3> QED BY <3>1, <3>2, <3>3, <3>4
  <2>5. FlattenSeq(<<s>> \o q) = FlattenSeq(<<s>> \o f) \o l
    BY <2>4, FlattenAppend
  <2>6. FlattenSeq(q) = FlattenSeq(f) \o l /\ FlattenSeq(f) \in Seq(T)
    BY <2>1, FlattenAppend
  <2>7. (s \o FlattenSeq(f)) \o l = s \o (FlattenSeq(f) \o l)
    <3> DEFINE j == FlattenSeq(f)
    <3>1. j \in Seq(T)
      BY <2>6
    <3> HIDE DEF j
    <3>2. (s \o j) \o l = s \o (j \o l)
      BY <3>1, ConcatAssociative, SMTT(30)
    <3> QED BY <3>2 DEF j
  <2> QED BY <1>4, <2>3, <2>5, <2>6, <2>7
<1> QED BY <1>6, <1>7

\* What is joined of some and then others.
LEMMA FlattenConcat ==
  ASSUME NEW T, NEW a \in Seq(Seq(T)), NEW seqs \in Seq(Seq(T))
  PROVE  FlattenSeq(a \o seqs) = FlattenSeq(a) \o FlattenSeq(seqs)
<1> DEFINE Holds(q) == FlattenSeq(a \o q) = FlattenSeq(a) \o FlattenSeq(q)
           Bad == {n \in Nat : \E q \in Seq(Seq(T)) : Len(q) = n /\ ~Holds(q)}
<1>1. SUFFICES Bad = {}
  <2>1. Len(seqs) \in Nat
    OBVIOUS
  <2> QED BY <2>1
<1>2. SUFFICES ASSUME Bad # {} PROVE FALSE
  OBVIOUS
<1>3. PICK n \in Bad : \A k \in Bad : n <= k
  <2> Bad \in SUBSET Nat
    OBVIOUS
  <2> HIDE DEF Bad
  <2> QED BY <1>2, LeastNumber
<1>4. PICK q \in Seq(Seq(T)) : Len(q) = n /\ ~Holds(q)
  BY <1>3
<1> DEFINE h == FlattenSeq(a)
<1>5. h \in Seq(T)
  <2>1. <<>> \in Seq(T)
    OBVIOUS
  <2> QED BY <2>1, FlattenAppend
<1>6. CASE q = <<>>
  <2>1. a \o q = a /\ h \o <<>> = h
    <3> HIDE DEF h
    <3> QED BY <1>5, <1>6, ConcatEmptySeq
  <2>2. FlattenSeq(q) = <<>>
    BY <1>5, <1>6, FlattenAppend
  <2> QED BY <1>4, <2>1, <2>2
<1>7. CASE q # <<>>
  <2>1. PICK f \in Seq(Seq(T)), l \in Seq(T) : q = Append(f, l) /\ Len(f) = Len(q) - 1
    <3>1. PICK f \in Seq(Seq(T)), l \in Seq(T) : q = Append(f, l)
      BY <1>7, SequenceEmptyOrAppend
    <3>2. Len(f) = Len(q) - 1
      BY <3>1, AppendProperties
    <3> QED BY <3>1, <3>2
  <2>2. Len(f) \in Nat /\ ~(n <= Len(f))
    BY <1>4, <2>1
  <2>3. Holds(f)
    BY <1>3, <2>2
  <2>4. a \o q = Append(a \o f, l) /\ a \o f \in Seq(Seq(T))
    <3>1. q = f \o <<l>> /\ <<l>> \in Seq(Seq(T))
      BY <2>1, AppendIsConcat
    <3>2. a \o f \in Seq(Seq(T))
      BY ConcatProperties
    <3>3. (a \o f) \o <<l>> = a \o (f \o <<l>>)
      BY <3>1, ConcatAssociative
    <3>4. Append(a \o f, l) = (a \o f) \o <<l>>
      BY <3>2, AppendIsConcat
    <3> QED BY <3>1, <3>2, <3>3, <3>4
  <2>5. FlattenSeq(a \o q) = FlattenSeq(a \o f) \o l
    BY <2>4, FlattenAppend
  <2>6. FlattenSeq(q) = FlattenSeq(f) \o l /\ FlattenSeq(f) \in Seq(T)
    BY <2>1, FlattenAppend
  <2>7. (h \o FlattenSeq(f)) \o l = h \o (FlattenSeq(f) \o l)
    <3> DEFINE j == FlattenSeq(f)
    <3>1. j \in Seq(T)
      BY <2>6
    <3> HIDE DEF j, h
    <3>2. (h \o j) \o l = h \o (j \o l)
      BY <1>5, <3>1, ConcatAssociative, SMTT(30)
    <3> QED BY <3>2 DEF j
  <2> QED BY <1>4, <2>3, <2>5, <2>6, <2>7
<1> QED BY <1>6, <1>7

\* What is joined of the first i, of the rest, and of one more.
LEMMA FlattenUpTo ==
  ASSUME NEW T, NEW seqs \in Seq(Seq(T)), NEW i \in 0..Len(seqs)
  PROVE  /\ FlattenSeq(SubSeq(seqs, 1, i)) \in Seq(T)
         /\ FlattenSeq(SubSeq(seqs, i + 1, Len(seqs))) \in Seq(T)
         /\ FlattenSeq(seqs) = FlattenSeq(SubSeq(seqs, 1, i))
                                 \o FlattenSeq(SubSeq(seqs, i + 1, Len(seqs)))
         /\ i < Len(seqs) =>
              FlattenSeq(SubSeq(seqs, 1, i + 1)) = FlattenSeq(SubSeq(seqs, 1, i)) \o seqs[i + 1]
<1> DEFINE a == SubSeq(seqs, 1, i)
           b == SubSeq(seqs, i + 1, Len(seqs))
           c == SubSeq(seqs, 1, i + 1)
<1>0. <<>> \in Seq(T) /\ Len(seqs) \in Nat
  OBVIOUS
<1>1. a \in Seq(Seq(T)) /\ b \in Seq(Seq(T))
  BY <1>0
<1>2. seqs = a \o b
  <2>1. a \o b = SubSeq(seqs, 1, Len(seqs))
    <3>1. 1 \in 1..(Len(seqs) + 1) /\ Len(seqs) \in i..Len(seqs) /\ 1 - 1 = 0
      BY <1>0
    <3> QED BY <3>1, ConcatAdjacentSubSeq
  <2> QED BY <2>1, SubSeqFull
<1>3. i < Len(seqs) => c = Append(a, seqs[i + 1])
  <2>1. ASSUME i < Len(seqs) PROVE c = Append(a, seqs[i + 1])
    <3>1. 1 \in 1..Len(seqs) /\ i + 1 \in 1..Len(seqs) /\ (i + 1) - 1 = i
      BY <1>0, <2>1
    <3>2. c = SubSeq(seqs, 1, (i + 1) - 1) \o <<seqs[i + 1]>>
      BY <3>1, SubSeqRecursiveSecond
    <3>3. seqs[i + 1] \in Seq(T)
      BY <3>1
    <3> HIDE DEF c
    <3>4. c = a \o <<seqs[i + 1]>>
      BY <3>1, <3>2
    <3> HIDE DEF a
    <3> QED BY <1>1, <3>3, <3>4, AppendIsConcat
  <2> QED BY <2>1
<1>4. i < Len(seqs) => seqs[i + 1] \in Seq(T)
  BY <1>0
<1> HIDE DEF a, b, c
<1>5. FlattenSeq(a) \in Seq(T) /\ FlattenSeq(b) \in Seq(T)
  BY <1>0, <1>1, FlattenAppend
<1>6. FlattenSeq(seqs) = FlattenSeq(a) \o FlattenSeq(b)
  BY <1>1, <1>2, FlattenConcat
<1>7. i < Len(seqs) => FlattenSeq(c) = FlattenSeq(a) \o seqs[i + 1]
  BY <1>1, <1>3, <1>4, FlattenAppend
<1> QED BY <1>5, <1>6, <1>7 DEF a, b, c

\* What is joined of none and of all.
LEMMA FlattenEnds ==
  ASSUME NEW T, NEW seqs \in Seq(Seq(T))
  PROVE  /\ FlattenSeq(SubSeq(seqs, 1, 0)) = <<>>
         /\ FlattenSeq(SubSeq(seqs, 1, Len(seqs))) = FlattenSeq(seqs)
         /\ FlattenSeq(seqs) \in Seq(T)
<1>1. SubSeq(seqs, 1, 0) = <<>> /\ <<>> \in Seq(T) /\ SubSeq(seqs, 1, Len(seqs)) = seqs
  BY SubSeqEmpty, SubSeqFull
<1> QED BY <1>1, FlattenAppend

\* Sequences of one length are joined to so many times that length.
LEMMA FlattenEven ==
  ASSUME NEW T, NEW seqs \in Seq(Seq(T)), NEW c \in Nat, \A i \in 1..Len(seqs) : Len(seqs[i]) = c
  PROVE  \A i \in 0..Len(seqs) : Len(FlattenSeq(SubSeq(seqs, 1, i))) = c * i
<1> DEFINE n == Len(seqs)
           P(i) == FlattenSeq(SubSeq(seqs, 1, i))
           S == {i \in 0..n : Len(P(i)) = c * i}
<1>0. n \in Nat
  OBVIOUS
<1>1. 0 \in S
  <2>1. P(0) = <<>>
    BY FlattenEnds
  <2>2. Len(<<>>) = 0 /\ c * 0 = 0
    OBVIOUS
  <2> QED BY <1>0, <2>1, <2>2
<1>2. ASSUME NEW i \in 0..(n - 1), i \in S PROVE i + 1 \in S
  <2>1. i \in 0..n /\ i + 1 \in 0..n /\ i + 1 \in 1..n /\ i < n
    BY <1>0
  <2> DEFINE p == P(i)
             q == seqs[i + 1]
  <2>2. p \in Seq(T) /\ P(i + 1) = p \o q
    BY <2>1, FlattenUpTo
  <2>3. q \in Seq(T) /\ Len(q) = c
    BY <2>1
  <2>4. Len(p) = c * i
    BY <1>2
  <2> HIDE DEF p, q
  <2>5. Len(p \o q) = Len(p) + Len(q)
    BY <2>2, <2>3, ConcatProperties
  <2>6. c * i + c = c * (i + 1)
    BY <2>1
  <2>7. Len(P(i + 1)) = c * (i + 1)
    <3> HIDE DEF P
    <3> QED BY <2>2, <2>3, <2>4, <2>5, <2>6
  <2> QED BY <2>1, <2>7
<1>3. \A i \in 0..n : i \in S
  <2> HIDE DEF S
  <2> QED BY <1>0, <1>1, <1>2, EveryStep
<1> QED BY <1>3

Paired(pairs, seqs) ==
  /\ Len(seqs) = 2 * Len(pairs)
  /\ \A i \in 1..Len(pairs) : pairs[i] = seqs[2 * i - 1] \o seqs[2 * i]

\* Sequences joined two by two, and then all of them, are all of them joined.
LEMMA FlattenPairs ==
  ASSUME NEW T, NEW seqs \in Seq(Seq(T)), NEW pairs \in Seq(Seq(T)), Paired(pairs, seqs)
  PROVE  FlattenSeq(pairs) = FlattenSeq(seqs)
<1> DEFINE n == Len(pairs)
           P(i) == FlattenSeq(SubSeq(pairs, 1, i))
           Q(i) == FlattenSeq(SubSeq(seqs, 1, i))
           S == {i \in 0..n : P(i) = Q(2 * i)}
<1>0. n \in Nat /\ Len(seqs) = 2 * n
  BY DEF Paired
<1>1. 0 \in S
  <2>1. P(0) = <<>> /\ Q(0) = <<>>
    BY FlattenEnds
  <2>2. 2 * 0 = 0
    OBVIOUS
  <2> HIDE DEF P, Q
  <2> QED BY <1>0, <2>1, <2>2
<1>2. ASSUME NEW i \in 0..(n - 1), i \in S PROVE i + 1 \in S
  <2>1. /\ i \in 0..Len(pairs) /\ i < Len(pairs) /\ i + 1 \in 0..n /\ i + 1 \in 1..n
        /\ 2 * i \in 0..Len(seqs) /\ 2 * i < Len(seqs)
        /\ 2 * i + 1 \in 0..Len(seqs) /\ 2 * i + 1 < Len(seqs)
        /\ 2 * i + 1 + 1 = 2 * (i + 1) /\ 2 * (i + 1) - 1 = 2 * i + 1
        /\ 2 * i + 1 \in 1..Len(seqs) /\ 2 * (i + 1) \in 1..Len(seqs)
    BY <1>0
  <2> DEFINE p == Q(2 * i)
             a == seqs[2 * i + 1]
             b == seqs[2 * (i + 1)]
  <2>2. P(i + 1) = P(i) \o pairs[i + 1]
    BY <2>1, FlattenUpTo
  <2>3. Q(2 * i + 1) = p \o a /\ p \in Seq(T)
    BY <2>1, FlattenUpTo
  <2>4. Q(2 * (i + 1)) = Q(2 * i + 1) \o b
    <3>1. Q((2 * i + 1) + 1) = Q(2 * i + 1) \o seqs[(2 * i + 1) + 1]
      BY <2>1, FlattenUpTo
    <3> HIDE DEF Q
    <3> QED BY <2>1, <3>1
  <2>5. pairs[i + 1] = a \o b
    BY <2>1 DEF Paired
  <2>6. a \in Seq(T) /\ b \in Seq(T)
    BY <2>1
  <2>7. P(i) = p
    BY <1>2
  <2> HIDE DEF P, Q, p, a, b
  <2>8. p \o (a \o b) = (p \o a) \o b
    <3>1. p \in Seq(T)
      BY <2>3
    <3>2. (p \o a) \o b = p \o (a \o b)
      BY <2>6, <3>1, ConcatAssociative, SMTT(30)
    <3> QED BY <3>2
  <2>9. P(i + 1) = Q(2 * (i + 1))
    BY <2>2, <2>3, <2>4, <2>5, <2>7, <2>8
  <2> QED BY <2>1, <2>9
<1>3. \A i \in 0..n : i \in S
  <2> HIDE DEF S
  <2> QED BY <1>0, <1>1, <1>2, EveryStep
<1>4. P(n) = Q(2 * n)
  BY <1>0, <1>3
<1>5. P(n) = FlattenSeq(pairs) /\ Q(2 * n) = FlattenSeq(seqs)
  <2>1. Q(Len(seqs)) = FlattenSeq(seqs)
    BY FlattenEnds
  <2> QED BY <1>0, <2>1, FlattenEnds
<1> QED BY <1>4, <1>5
=============================================================================
