--------------------------- MODULE FeedLoopProofs ---------------------------
(***************************************************************************)
(* What is proved about FeedLoop, for any symbols, budgets, client and     *)
(* bounds: the types and ranges, that a failure that may pass is always    *)
(* fetched again, that the round robin leaves no gap, and that recovery    *)
(* waits for the cooldown.                                                 *)
(***************************************************************************)
EXTENDS FeedLoop, WellFoundedInduction, NaturalsInduction, TLAPS

(* Least numbers, for the proofs by a least counterexample.                *)
LEMMA LeastNumber ==
  ASSUME NEW T, T \subseteq Nat, T # {}
  PROVE  \E n \in T : \A m \in T : n <= m
<1>1. IsWellFoundedOn(OpToRel(<, Nat), Nat)
  BY NatLessThanWellFounded
<1>2. PICK n \in T : \A m \in T : ~(<<m, n>> \in OpToRel(<, Nat))
  BY <1>1, WFMin
<1>3. \A m \in T : ~(m < n)
  BY <1>2 DEF OpToRel
<1> QED BY <1>3

-----------------------------------------------------------------------------
(* The elements kept of a sequence.                                        *)

KeptSoFar(f, seq, S, n) ==
  f = [m \in 0 .. n |->
         IF m = 0 THEN <<>>
         ELSE IF seq[m] \in S THEN Append(f[m - 1], seq[m]) ELSE f[m - 1]]

\* The recursion of Keeping has a solution up to every place.
LEMMA KeepingExists ==
  ASSUME NEW seq, NEW S, Len(seq) \in Nat
  PROVE  \E f : KeptSoFar(f, seq, S, Len(seq))
<1> DEFINE Open == {n \in 0 .. Len(seq) : ~ \E f : KeptSoFar(f, seq, S, n)}
<1> SUFFICES ASSUME Open # {} PROVE FALSE
  OBVIOUS
<1>1. PICK n \in Open : \A m \in Open : n <= m
  <2>1. Open \subseteq Nat
    OBVIOUS
  <2> HIDE DEF Open
  <2> QED BY <2>1, LeastNumber
<1>2. CASE n = 0
  <2>1. KeptSoFar([m \in 0 .. 0 |-> <<>>], seq, S, 0)
    BY DEF KeptSoFar
  <2> QED BY <1>2, <2>1
<1>3. CASE n # 0
  <2>1. n - 1 \in 0 .. Len(seq) /\ n - 1 \notin Open
    BY <1>1, <1>3
  <2>2. PICK f : KeptSoFar(f, seq, S, n - 1)
    BY <2>1
  <2> DEFINE last == IF seq[n] \in S THEN Append(f[n - 1], seq[n]) ELSE f[n - 1]
             g == [m \in 0 .. n |-> IF m = n THEN last ELSE f[m]]
  <2>3. \A m \in 0 .. n - 1 : g[m] = f[m]
    BY <1>3
  <2>4. \A m \in 0 .. n :
          g[m] = IF m = 0 THEN <<>>
                 ELSE IF seq[m] \in S THEN Append(g[m - 1], seq[m]) ELSE g[m - 1]
    <3> SUFFICES ASSUME NEW m \in 0 .. n
                 PROVE  g[m] = IF m = 0 THEN <<>>
                               ELSE IF seq[m] \in S THEN Append(g[m - 1], seq[m]) ELSE g[m - 1]
      OBVIOUS
    <3>1. CASE m = n
      BY <1>3, <2>3, <3>1
    <3>2. CASE m # n
      <4>1. m \in 0 .. n - 1 /\ (m # 0 => m - 1 \in 0 .. n - 1)
        BY <3>2
      <4>2. f[m] = IF m = 0 THEN <<>>
                   ELSE IF seq[m] \in S THEN Append(f[m - 1], seq[m]) ELSE f[m - 1]
        BY <2>2, <4>1 DEF KeptSoFar
      <4> QED BY <2>3, <4>1, <4>2
    <3> QED BY <3>1, <3>2
  <2>5. KeptSoFar(g, seq, S, n)
    BY <2>4 DEF KeptSoFar
  <2> QED BY <2>5
<1> QED BY <1>2, <1>3

LEMMA KeepingStep ==
  ASSUME NEW seq, NEW S, Len(seq) \in Nat, NEW n \in 0 .. Len(seq)
  PROVE  Keeping(seq, S)[n] =
           IF n = 0 THEN <<>>
           ELSE IF seq[n] \in S THEN Append(Keeping(seq, S)[n - 1], seq[n])
                ELSE Keeping(seq, S)[n - 1]
<1>1. PICK f : KeptSoFar(f, seq, S, Len(seq))
  BY KeepingExists
<1>2. KeptSoFar(Keeping(seq, S), seq, S, Len(seq))
  BY <1>1 DEF Keeping, KeptSoFar
<1> QED BY <1>2 DEF KeptSoFar

\* What is kept: exactly the wanted elements, none more often than before, and each at a place
\* no later than the one it had.
KeptWell(f, seq, S, A, n) ==
  /\ f[n] \in Seq(A) /\ Len(f[n]) <= n
  /\ \A x : x \in Elements(f[n]) <=> x \in S /\ \E i \in 1 .. n : seq[i] = x
  /\ IsInjective(seq) => IsInjective(f[n])
  /\ \A i \in 1 .. n : seq[i] \in S => \E q \in 1 .. Len(f[n]) : q <= i /\ f[n][q] = seq[i]

LEMMA KeepingWell ==
  ASSUME NEW A, NEW seq \in Seq(A), NEW S, NEW n \in 0 .. Len(seq)
  PROVE  KeptWell(Keeping(seq, S), seq, S, A, n)
<1> DEFINE f == Keeping(seq, S)
           Bad == {m \in 0 .. Len(seq) : ~KeptWell(f, seq, S, A, m)}
<1>0. Len(seq) \in Nat
  OBVIOUS
<1> SUFFICES ASSUME Bad # {} PROVE FALSE
  OBVIOUS
<1>1. PICK m \in Bad : \A k \in Bad : m <= k
  <2>1. Bad \subseteq Nat
    BY <1>0
  <2> HIDE DEF Bad
  <2> QED BY <2>1, LeastNumber
<1>2. f[m] = IF m = 0 THEN <<>>
             ELSE IF seq[m] \in S THEN Append(f[m - 1], seq[m]) ELSE f[m - 1]
  BY <1>0, KeepingStep
<1> HIDE DEF f
<1>3. CASE m = 0
  <2>1. f[m] = <<>>
    BY <1>2, <1>3
  <2>2. f[m] \in Seq(A) /\ Len(f[m]) = 0
    BY <2>1
  <2>3. Elements(f[m]) = {} /\ IsInjective(f[m])
    BY <2>2 DEF Elements, IsInjective
  <2>4. KeptWell(f, seq, S, A, m)
    BY <1>3, <2>2, <2>3 DEF KeptWell
  <2> QED BY <1>1, <2>4
<1>4. CASE m # 0
  <2>1. KeptWell(f, seq, S, A, m - 1) /\ m \in 1 .. Len(seq) /\ seq[m] \in A
    BY <1>1, <1>4
  <2>2. CASE seq[m] \notin S
    <3>1. f[m] = f[m - 1]
      BY <1>2, <1>4, <2>2
    <3>2. /\ f[m] \in Seq(A) /\ Len(f[m]) <= m
          /\ IsInjective(seq) => IsInjective(f[m])
      BY <2>1, <3>1 DEF KeptWell
    <3>3. \A x : x \in Elements(f[m]) <=> x \in S /\ \E i \in 1 .. m : seq[i] = x
      <4>1. \A x : x \in Elements(f[m]) <=> x \in S /\ \E i \in 1 .. m - 1 : seq[i] = x
        BY <2>1, <3>1 DEF KeptWell
      <4> QED BY <2>1, <2>2, <4>1
    <3>4. \A i \in 1 .. m : seq[i] \in S =>
            \E q \in 1 .. Len(f[m]) : q <= i /\ f[m][q] = seq[i]
      <4>1. \A i \in 1 .. m - 1 : seq[i] \in S =>
              \E q \in 1 .. Len(f[m]) : q <= i /\ f[m][q] = seq[i]
        BY <2>1, <3>1 DEF KeptWell
      <4> QED BY <2>1, <2>2, <4>1
    <3>5. KeptWell(f, seq, S, A, m)
      BY <3>2, <3>3, <3>4 DEF KeptWell
    <3> QED BY <1>1, <3>5
  <2>3. CASE seq[m] \in S
    <3> DEFINE before == f[m - 1]
    <3>1. f[m] = Append(before, seq[m]) /\ before \in Seq(A)
      BY <1>2, <1>4, <2>1, <2>3 DEF KeptWell
    <3> HIDE DEF before
    <3>2. /\ f[m] \in Seq(A) /\ Len(f[m]) = Len(before) + 1 /\ Len(before) \in Nat
          /\ f[m][Len(before) + 1] = seq[m]
          /\ \A q \in 1 .. Len(before) : f[m][q] = before[q]
      BY <2>1, <3>1
    <3>3. Len(before) <= m - 1
      BY <2>1 DEF KeptWell, before
    <3>4. \A x : x \in Elements(f[m]) <=> x \in S /\ \E i \in 1 .. m : seq[i] = x
      <4>1. \A x : x \in Elements(before) <=> x \in S /\ \E i \in 1 .. m - 1 : seq[i] = x
        BY <2>1 DEF KeptWell, before
      <4>2. \A x : x \in Elements(f[m]) <=> x \in Elements(before) \/ x = seq[m]
        BY <3>2 DEF Elements
      <4> QED BY <2>1, <2>3, <4>1, <4>2
    <3>5. IsInjective(seq) => IsInjective(f[m])
      <4> SUFFICES ASSUME IsInjective(seq) PROVE IsInjective(f[m])
        OBVIOUS
      <4>1. IsInjective(before)
        BY <2>1 DEF KeptWell, before
      <4>2. \A q \in 1 .. Len(before) : before[q] # seq[m]
        <5>1. \A x \in Elements(before) : \E i \in 1 .. m - 1 : seq[i] = x
          BY <2>1 DEF KeptWell, before
        <5>2. \A i \in 1 .. m - 1 : seq[i] # seq[m]
          BY <2>1 DEF IsInjective
        <5> QED BY <5>1, <5>2 DEF Elements
      <4> SUFFICES ASSUME NEW i \in 1 .. Len(f[m]), NEW j \in 1 .. Len(f[m]), f[m][i] = f[m][j]
                   PROVE  i = j
        BY DEF IsInjective
      <4>3. CASE i \in 1 .. Len(before) /\ j \in 1 .. Len(before)
        BY <3>2, <4>1, <4>3 DEF IsInjective
      <4>4. CASE i = Len(before) + 1 \/ j = Len(before) + 1
        BY <3>2, <4>2, <4>4
      <4> QED BY <3>2, <4>3, <4>4
    <3>6. \A i \in 1 .. m : seq[i] \in S =>
            \E q \in 1 .. Len(f[m]) : q <= i /\ f[m][q] = seq[i]
      <4> SUFFICES ASSUME NEW i \in 1 .. m, seq[i] \in S
                   PROVE  \E q \in 1 .. Len(f[m]) : q <= i /\ f[m][q] = seq[i]
        OBVIOUS
      <4>1. CASE i = m
        BY <3>2, <3>3, <4>1
      <4>2. CASE i # m
        <5>1. PICK q \in 1 .. Len(before) : q <= i /\ before[q] = seq[i]
          BY <2>1, <4>2 DEF KeptWell, before
        <5> QED BY <3>2, <5>1
      <4> QED BY <4>1, <4>2
    <3>7. Len(f[m]) <= m
      BY <3>2, <3>3
    <3>8. KeptWell(f, seq, S, A, m)
      BY <3>2, <3>4, <3>5, <3>6, <3>7 DEF KeptWell
    <3> QED BY <1>1, <3>8
  <2> QED BY <2>2, <2>3
<1> QED BY <1>3, <1>4

LEMMA KeepOnlyFacts ==
  ASSUME NEW A, NEW seq \in Seq(A), NEW S
  PROVE  /\ KeepOnly(seq, S) \in Seq(A) /\ Len(KeepOnly(seq, S)) <= Len(seq)
         /\ Elements(KeepOnly(seq, S)) = S \cap Elements(seq)
         /\ IsInjective(seq) => IsInjective(KeepOnly(seq, S))
         /\ \A i \in 1 .. Len(seq) : seq[i] \in S =>
              \E q \in 1 .. Len(KeepOnly(seq, S)) : q <= i /\ KeepOnly(seq, S)[q] = seq[i]
<1>1. KeptWell(Keeping(seq, S), seq, S, A, Len(seq))
  BY KeepingWell
<1>2. \A x : x \in Elements(KeepOnly(seq, S)) <=> x \in S \cap Elements(seq)
  BY <1>1 DEF KeptWell, KeepOnly, Elements
<1> QED BY <1>1, <1>2 DEF KeptWell, KeepOnly

-----------------------------------------------------------------------------
(* Planning.                                                               *)

LEMMA OnceAround ==
  ASSUME NEW n \in Nat \ {0}, NEW a \in Nat, a < 2 * n
  PROVE  a % n = IF a < n THEN a ELSE a - n
<1> DEFINE q == a \div n
           r == a % n
<1>1. q \in Int /\ r \in 0 .. n - 1
  OBVIOUS
<1>2. a = n * q + r
  OBVIOUS
<1> HIDE DEF q, r
<1>3. ~(q < 0) /\ ~(q >= 2)
  <2>1. q < 0 => n * q <= -n
    BY <1>1
  <2>2. q >= 2 => n * q >= 2 * n
    BY <1>1
  <2> QED BY <1>1, <1>2, <2>1, <2>2
<1>4. q = 0 \/ q = 1
  BY <1>1, <1>3
<1>5. n * q = IF q = 0 THEN 0 ELSE n
  BY <1>1, <1>4
<1>6. r = IF a < n THEN a ELSE a - n
  BY <1>1, <1>2, <1>4, <1>5
<1> QED BY <1>6 DEF r

\* What the planner is given: a list, a cursor into it, and a queue of its symbols.
Ready ==
  /\ tracked \in Seq(Symbols) /\ IsInjective(tracked) /\ tracked # <<>>
  /\ cursor \in 0 .. Len(tracked) - 1
  /\ steady_budget \in Nat /\ concurrency \in Nat
  /\ retry_symbols \in Seq(Symbols) /\ IsInjective(retry_symbols)
  /\ Elements(retry_symbols) \subseteq Elements(tracked)

Retried == [k \in 1 .. Len(RetriesTaken) |-> IndexOf(RetriesTaken[k])]
Others == Rotation(Elements(Retried))
Normal == Smaller(Len(Others), RefreshBudget - Len(Retried))

LEMMA TrackedIndex ==
  ASSUME Ready, NEW s \in Elements(tracked)
  PROVE  IndexOf(s) \in 0 .. Len(tracked) - 1 /\ SymbolAt(IndexOf(s)) = s
<1>1. PICK i \in 1 .. Len(tracked) : tracked[i] = s
  BY DEF Elements
<1>2. i - 1 \in 0 .. Len(tracked) - 1 /\ SymbolAt(i - 1) = s
  BY <1>1 DEF Ready, SymbolAt
<1> QED BY <1>2 DEF IndexOf

LEMMA RetriesTakenFacts ==
  ASSUME Ready
  PROVE  /\ RefreshBudget \in 0 .. Len(tracked) /\ Len(RetriesTaken) \in 0 .. RefreshBudget
         /\ Len(RetriesTaken) <= Len(retry_symbols)
         /\ RetriesTaken \in Seq(Symbols)
         /\ \A k \in 1 .. Len(RetriesTaken) : RetriesTaken[k] = retry_symbols[k]
<1>1. RefreshBudget \in 0 .. Len(tracked)
  BY BudgetAssumption DEF Ready, RefreshBudget, Smaller
<1> DEFINE m == Smaller(Len(retry_symbols), Smaller(MAX_RETRY_SYMBOLS_PER_CYCLE, RefreshBudget))
<1>2. m \in 0 .. Len(retry_symbols) /\ m <= RefreshBudget
  BY <1>1, BudgetAssumption DEF Ready, Smaller
<1>3. RetriesTaken = SubSeq(retry_symbols, 1, m)
  BY DEF RetriesTaken
<1> HIDE DEF m
<1> QED BY <1>1, <1>2, <1>3 DEF Ready

LEMMA RetriedFacts ==
  ASSUME Ready
  PROVE  /\ Retried \in Seq(0 .. Len(tracked) - 1) /\ IsInjective(Retried)
         /\ Len(Retried) = Len(RetriesTaken)
         /\ \A k \in 1 .. Len(RetriesTaken) : SymbolAt(Retried[k]) = RetriesTaken[k]
<1>1. \A k \in 1 .. Len(RetriesTaken) :
        /\ RetriesTaken[k] \in Elements(tracked)
        /\ Retried[k] \in 0 .. Len(tracked) - 1
        /\ SymbolAt(Retried[k]) = RetriesTaken[k]
  <2> TAKE k \in 1 .. Len(RetriesTaken)
  <2>1. RetriesTaken[k] = retry_symbols[k] /\ k \in 1 .. Len(retry_symbols)
    BY RetriesTakenFacts DEF Ready
  <2>2. RetriesTaken[k] \in Elements(tracked)
    BY <2>1 DEF Ready, Elements
  <2> QED BY <2>2, TrackedIndex DEF Retried
<1>2. Len(RetriesTaken) \in Nat
  BY RetriesTakenFacts
<1>3. Retried \in Seq(0 .. Len(tracked) - 1) /\ Len(Retried) = Len(RetriesTaken)
  BY <1>1, <1>2 DEF Retried
<1>4. ASSUME NEW i \in 1 .. Len(Retried), NEW j \in 1 .. Len(Retried), Retried[i] = Retried[j]
      PROVE  i = j
  <2>1. retry_symbols[i] = retry_symbols[j]
    BY <1>1, <1>3, <1>4, RetriesTakenFacts
  <2>2. i \in 1 .. Len(retry_symbols) /\ j \in 1 .. Len(retry_symbols)
    <3>1. Len(retry_symbols) \in Nat
      BY DEF Ready
    <3>2. Len(RetriesTaken) \in Nat /\ Len(RetriesTaken) <= Len(retry_symbols)
      BY RetriesTakenFacts
    <3> QED BY <1>3, <3>1, <3>2
  <2>3. IsInjective(retry_symbols)
    BY DEF Ready
  <2> QED BY <2>1, <2>2, <2>3 DEF IsInjective
<1> QED BY <1>1, <1>3, <1>4 DEF IsInjective

\* The round robin meets every index once.
Round == [k \in 1 .. Len(tracked) |-> (cursor + k - 1) % Len(tracked)]

LEMMA RoundFacts ==
  ASSUME Ready
  PROVE  /\ Round \in Seq(0 .. Len(tracked) - 1) /\ Len(Round) = Len(tracked)
         /\ IsInjective(Round)
<1>1. Len(tracked) \in Nat \ {0}
  BY DEF Ready
<1>2. \A k \in 1 .. Len(tracked) :
        /\ Round[k] = IF cursor + k - 1 < Len(tracked) THEN cursor + k - 1
                      ELSE cursor + k - 1 - Len(tracked)
        /\ Round[k] \in 0 .. Len(tracked) - 1
  <2> TAKE k \in 1 .. Len(tracked)
  <2>1. cursor + k - 1 \in Nat /\ cursor + k - 1 < 2 * Len(tracked)
    BY <1>1 DEF Ready
  <2>2. (cursor + k - 1) % Len(tracked)
          = IF cursor + k - 1 < Len(tracked) THEN cursor + k - 1
            ELSE (cursor + k - 1) - Len(tracked)
    BY <1>1, <2>1, OnceAround
  <2>3. Round[k] = (cursor + k - 1) % Len(tracked)
    BY DEF Round
  <2>4. k \in Nat /\ cursor \in Nat
    BY DEF Ready
  <2> QED BY <1>1, <2>1, <2>2, <2>3, <2>4
<1>3. Round \in Seq(0 .. Len(tracked) - 1) /\ Len(Round) = Len(tracked)
  BY <1>1, <1>2 DEF Round
<1>4. ASSUME NEW i \in 1 .. Len(Round), NEW j \in 1 .. Len(Round), Round[i] = Round[j]
      PROVE  i = j
  <2>1. cursor \in Nat /\ i \in 1 .. Len(tracked) /\ j \in 1 .. Len(tracked)
    BY <1>1, <1>3 DEF Ready
  <2>2. /\ Round[i] = IF cursor + i - 1 < Len(tracked) THEN cursor + i - 1
                       ELSE cursor + i - 1 - Len(tracked)
        /\ Round[j] = IF cursor + j - 1 < Len(tracked) THEN cursor + j - 1
                       ELSE cursor + j - 1 - Len(tracked)
    BY <1>2, <2>1
  <2>3. \A L \in Nat, c \in Nat : \A x, y \in 1 .. L :
          (IF c + x - 1 < L THEN c + x - 1 ELSE c + x - 1 - L)
            = (IF c + y - 1 < L THEN c + y - 1 ELSE c + y - 1 - L) => x = y
    OBVIOUS
  <2> QED BY <1>1, <1>4, <2>1, <2>2, <2>3
<1> QED BY <1>3, <1>4 DEF IsInjective

LEMMA OthersFacts ==
  ASSUME Ready
  PROVE  /\ Others \in Seq(0 .. Len(tracked) - 1) /\ IsInjective(Others)
         /\ Len(Others) <= Len(tracked)
         /\ Elements(Others) \cap Elements(Retried) = {}
         /\ \A k \in 1 .. Len(tracked) : Round[k] \notin Elements(Retried) =>
              \E q \in 1 .. Len(Others) : q <= k /\ Others[q] = Round[k]
<1>1. Others = KeepOnly(Round, (0 .. Len(tracked) - 1) \ Elements(Retried))
  BY DEF Others, Rotation, Round
<1>2. /\ Others \in Seq(0 .. Len(tracked) - 1) /\ Len(Others) <= Len(Round)
      /\ Elements(Others) = ((0 .. Len(tracked) - 1) \ Elements(Retried)) \cap Elements(Round)
      /\ IsInjective(Others)
      /\ \A k \in 1 .. Len(Round) : Round[k] \in (0 .. Len(tracked) - 1) \ Elements(Retried) =>
           \E q \in 1 .. Len(Others) : q <= k /\ Others[q] = Round[k]
  <2> DEFINE A == 0 .. Len(tracked) - 1
             S == A \ Elements(Retried)
  <2>1. Round \in Seq(A)
    BY RoundFacts
  <2> HIDE DEF A
  <2>2. /\ KeepOnly(Round, S) \in Seq(A) /\ Len(KeepOnly(Round, S)) <= Len(Round)
        /\ Elements(KeepOnly(Round, S)) = S \cap Elements(Round)
        /\ IsInjective(Round) => IsInjective(KeepOnly(Round, S))
        /\ \A i \in 1 .. Len(Round) : Round[i] \in S =>
             \E q \in 1 .. Len(KeepOnly(Round, S)) : q <= i /\ KeepOnly(Round, S)[q] = Round[i]
    BY <2>1, KeepOnlyFacts
  <2>3. IsInjective(Round)
    BY RoundFacts
  <2>4. Others = KeepOnly(Round, S)
    BY <1>1 DEF A
  <2> HIDE DEF S
  <2>5. /\ Others \in Seq(A) /\ Len(Others) <= Len(Round)
        /\ Elements(Others) = S \cap Elements(Round)
        /\ IsInjective(Others)
        /\ \A k \in 1 .. Len(Round) : Round[k] \in S =>
             \E q \in 1 .. Len(Others) : q <= k /\ Others[q] = Round[k]
    BY <2>2, <2>3, <2>4
  <2> QED BY <2>5 DEF A, S
<1>3. \A k \in 1 .. Len(tracked) : Round[k] \in 0 .. Len(tracked) - 1
  BY RoundFacts
<1> QED BY <1>2, <1>3, RoundFacts

LEMMA Beginning ==
  ASSUME NEW A, NEW seq \in Seq(A), NEW n \in 0 .. Len(seq)
  PROVE  /\ SubSeq(seq, 1, n) \in Seq(A) /\ Len(SubSeq(seq, 1, n)) = n
         /\ \A k \in 1 .. n : SubSeq(seq, 1, n)[k] = seq[k]
OBVIOUS

LEMMA Ending ==
  ASSUME NEW A, NEW seq \in Seq(A), NEW n \in 0 .. Len(seq)
  PROVE  LET rest == SubSeq(seq, n + 1, Len(seq)) IN
         /\ rest \in Seq(A) /\ Len(rest) = Len(seq) - n
         /\ \A k \in 1 .. Len(seq) - n : rest[k] = seq[n + k]
<1> DEFINE rest == SubSeq(seq, n + 1, Len(seq))
<1>1. Len(seq) \in Nat
  OBVIOUS
<1>2. rest \in Seq(A)
  BY <1>1
<1>3. Len(rest) = Len(seq) - n
  BY <1>1
<1>4. \A k \in 1 .. Len(seq) - n : rest[k] = seq[n + k]
  BY <1>1
<1> QED BY <1>2, <1>3, <1>4

LEMMA Joined ==
  ASSUME NEW A, NEW a \in Seq(A), NEW b \in Seq(A), IsInjective(a), IsInjective(b),
         Elements(a) \cap Elements(b) = {}
  PROVE  a \o b \in Seq(A) /\ IsInjective(a \o b) /\ Elements(a \o b) = Elements(a) \cup Elements(b)
<1> DEFINE c == a \o b
<1>1. /\ c \in Seq(A) /\ Len(c) = Len(a) + Len(b) /\ Len(a) \in Nat /\ Len(b) \in Nat
      /\ \A k \in 1 .. Len(a) : c[k] = a[k]
      /\ \A k \in 1 .. Len(b) : c[Len(a) + k] = b[k]
  OBVIOUS
<1> HIDE DEF c
<1>2. \A k \in 1 .. Len(c) : k \in 1 .. Len(a) \/ k - Len(a) \in 1 .. Len(b)
  BY <1>1
<1>3. \A k \in 1 .. Len(c) : k - Len(a) \in 1 .. Len(b) => c[k] = b[k - Len(a)]
  <2> SUFFICES ASSUME NEW k \in 1 .. Len(c), k - Len(a) \in 1 .. Len(b)
               PROVE  c[k] = b[k - Len(a)]
    OBVIOUS
  <2>1. c[Len(a) + (k - Len(a))] = b[k - Len(a)]
    BY <1>1
  <2>2. Len(a) + (k - Len(a)) = k
    BY <1>1
  <2> QED BY <2>1, <2>2
<1>4. ASSUME NEW i \in 1 .. Len(c), NEW j \in 1 .. Len(c), c[i] = c[j] PROVE i = j
  <2>1. CASE i \in 1 .. Len(a) /\ j \in 1 .. Len(a)
    BY <1>1, <1>4, <2>1 DEF IsInjective
  <2>2. CASE i - Len(a) \in 1 .. Len(b) /\ j - Len(a) \in 1 .. Len(b)
    <3>1. b[i - Len(a)] = b[j - Len(a)]
      BY <1>3, <1>4, <2>2
    <3>2. i - Len(a) = j - Len(a)
      BY <2>2, <3>1 DEF IsInjective
    <3> QED BY <1>1, <3>2
  <2>3. CASE i \in 1 .. Len(a) /\ j - Len(a) \in 1 .. Len(b)
    <3>1. a[i] = b[j - Len(a)]
      BY <1>1, <1>3, <1>4, <2>3
    <3> QED BY <2>3, <3>1 DEF Elements
  <2>4. CASE i - Len(a) \in 1 .. Len(b) /\ j \in 1 .. Len(a)
    <3>1. a[j] = b[i - Len(a)]
      BY <1>1, <1>3, <1>4, <2>4
    <3> QED BY <2>4, <3>1 DEF Elements
  <2> QED BY <1>2, <2>1, <2>2, <2>3, <2>4
<1>5. \A x : x \in Elements(c) <=> x \in Elements(a) \cup Elements(b)
  <2> TAKE x
  <2>1. ASSUME x \in Elements(c) PROVE x \in Elements(a) \cup Elements(b)
    <3>1. PICK k \in 1 .. Len(c) : c[k] = x
      BY <2>1 DEF Elements
    <3> QED BY <1>1, <1>2, <1>3, <3>1 DEF Elements
  <2>2. ASSUME x \in Elements(a) PROVE x \in Elements(c)
    <3>1. PICK k \in 1 .. Len(a) : a[k] = x
      BY <2>2 DEF Elements
    <3>2. k \in 1 .. Len(c)
      BY <1>1
    <3> QED BY <1>1, <3>1, <3>2 DEF Elements
  <2>3. ASSUME x \in Elements(b) PROVE x \in Elements(c)
    <3>1. PICK k \in 1 .. Len(b) : b[k] = x
      BY <2>3 DEF Elements
    <3>2. Len(a) + k \in 1 .. Len(c)
      BY <1>1
    <3> QED BY <1>1, <3>1, <3>2 DEF Elements
  <2> QED BY <2>1, <2>2, <2>3
<1> QED BY <1>1, <1>4, <1>5 DEF IsInjective, c

\* The window.
LEMMA WindowFacts ==
  ASSUME Ready
  PROVE  /\ Normal \in 0 .. Len(Others)
         /\ plan_feed_refresh.indexes \in Seq(0 .. Len(tracked) - 1)
         /\ IsInjective(plan_feed_refresh.indexes)
         /\ \A k \in 1 .. Len(Retried) :
              Retried[k] \in Elements(plan_feed_refresh.indexes)
         /\ \A k \in 1 .. Normal : Others[k] \in Elements(plan_feed_refresh.indexes)
<1> DEFINE others == SubSeq(Others, 1, Normal)
           window == Retried \o others
<1>1. /\ Retried \in Seq(0 .. Len(tracked) - 1) /\ IsInjective(Retried)
      /\ Others \in Seq(0 .. Len(tracked) - 1) /\ IsInjective(Others)
      /\ Elements(Others) \cap Elements(Retried) = {}
      /\ Len(Retried) \in Nat /\ Len(Others) \in Nat
  BY RetriedFacts, OthersFacts
<1>2. Normal \in 0 .. Len(Others)
  BY <1>1, RetriedFacts, RetriesTakenFacts DEF Normal, Smaller
<1>3. /\ others \in Seq(0 .. Len(tracked) - 1) /\ Len(others) = Normal
      /\ \A k \in 1 .. Normal : others[k] = Others[k]
  BY <1>1, <1>2, Beginning
<1> HIDE DEF others
<1>10. \A k \in 1 .. Normal : k \in 1 .. Len(Others)
  BY <1>1, <1>2
<1>4. IsInjective(others)
  BY <1>1, <1>3, <1>10 DEF IsInjective
<1>5. Elements(Retried) \cap Elements(others) = {}
  <2>1. \A k \in 1 .. Normal : others[k] \in Elements(Others)
    BY <1>3, <1>10 DEF Elements
  <2>2. \A x \in Elements(others) : x \in Elements(Others)
    BY <1>3, <2>1 DEF Elements
  <2> QED BY <1>1, <2>2
<1>6. /\ window \in Seq(0 .. Len(tracked) - 1) /\ IsInjective(window)
      /\ Elements(window) = Elements(Retried) \cup Elements(others)
  BY <1>1, <1>3, <1>4, <1>5, Joined
<1>7. plan_feed_refresh.indexes = window
  BY DEF plan_feed_refresh, Retried, Others, Normal, others
<1>8. \A k \in 1 .. Normal : Others[k] \in Elements(others)
  BY <1>2, <1>3 DEF Elements
<1>9. \A k \in 1 .. Len(Retried) : Retried[k] \in Elements(Retried)
  BY DEF Elements
<1> QED BY <1>2, <1>6, <1>7, <1>8, <1>9

\* From the old cursor up to the new one, every index is in the window.
LEMMA WindowReaches ==
  ASSUME Ready, plan_feed_refresh.normal > 0
  PROVE  \A k \in 0 .. (plan_feed_refresh.next_cursor + plan_feed_refresh.total - cursor - 1)
                         % plan_feed_refresh.total :
           (cursor + k) % plan_feed_refresh.total \in Elements(plan_feed_refresh.indexes)
<1> DEFINE L == Len(tracked)
<1>1. /\ L \in Nat \ {0} /\ cursor \in 0 .. L - 1
      /\ Normal \in 1 .. L
  BY WindowFacts, OthersFacts DEF Ready, plan_feed_refresh, Normal, Others, Retried
<1>2. /\ plan_feed_refresh.total = L
      /\ plan_feed_refresh.next_cursor = (cursor + Normal) % L
  <2>1. plan_feed_refresh.next_cursor = next_weighted_target_refresh_cursor(cursor, L, Normal)
    BY DEF plan_feed_refresh, Normal, Others, Retried
  <2> QED BY <1>1, <2>1
          DEF plan_feed_refresh, next_weighted_target_refresh_cursor, Smaller
<1> HIDE DEF L
<1>3. (cursor + Normal) % L = IF cursor + Normal < L THEN cursor + Normal
                              ELSE (cursor + Normal) - L
  <2>1. cursor + Normal \in Nat /\ cursor + Normal < 2 * L
    BY <1>1
  <2> QED BY <1>1, <2>1, OnceAround
<1>4. (plan_feed_refresh.next_cursor + L - cursor - 1) % L = Normal - 1
  <2> DEFINE a == plan_feed_refresh.next_cursor + L - cursor - 1
  <2>1. a = Normal + L - 1 \/ a = Normal - 1
    BY <1>1, <1>2, <1>3
  <2>2. a \in Nat /\ a < 2 * L
    BY <1>1, <2>1
  <2>3. a % L = IF a < L THEN a ELSE a - L
    BY <1>1, <2>2, OnceAround
  <2> HIDE DEF a
  <2>4. a % L = Normal - 1
    BY <1>1, <2>1, <2>3
  <2> QED BY <2>4 DEF a
<1> SUFFICES ASSUME NEW k \in 0 .. Normal - 1
             PROVE  (cursor + k) % L \in Elements(plan_feed_refresh.indexes)
  BY <1>2, <1>4
<1>5. k + 1 \in 1 .. L /\ Round[k + 1] = (cursor + k) % L
  <2>1. k + 1 \in 1 .. L /\ cursor + (k + 1) - 1 = cursor + k
    BY <1>1
  <2> QED BY <2>1 DEF Round, L
<1>6. CASE Round[k + 1] \in Elements(Retried)
  BY <1>5, <1>6, WindowFacts DEF Elements
<1>7. CASE Round[k + 1] \notin Elements(Retried)
  <2>1. PICK q \in 1 .. Len(Others) : q <= k + 1 /\ Others[q] = Round[k + 1]
    BY <1>5, <1>7, OthersFacts DEF L
  <2>2. q \in 1 .. Normal
    BY <1>1, <2>1
  <2> QED BY <1>5, <2>1, <2>2, WindowFacts
<1> QED BY <1>6, <1>7

\* The plan as a whole.
LEMMA PlanFacts ==
  ASSUME Ready
  PROVE  LET P == plan_feed_refresh IN
         /\ P \in [indexes : Seq(Nat), total : Nat, normal : Nat, concurrency : Nat,
                   next_cursor : Nat]
         /\ P.total = Len(tracked) /\ P # NoPlan
         /\ P.next_cursor \in 0 .. Len(tracked) - 1
         /\ Elements(P.indexes) \subseteq 0 .. Len(tracked) - 1
         /\ IsInjective(P.indexes)
         /\ \A k \in 1 .. Len(RetriesTaken) :
              \E i \in 1 .. Len(P.indexes) : SymbolAt(P.indexes[i]) = RetriesTaken[k]
<1> DEFINE P == plan_feed_refresh
<1>1. Len(tracked) \in Nat \ {0} /\ Normal \in Nat /\ P.indexes \in Seq(0 .. Len(tracked) - 1)
  <2>1. Len(Others) \in Nat
    BY OthersFacts
  <2> QED BY <2>1, WindowFacts DEF Ready
<1>2. P.next_cursor \in 0 .. Len(tracked) - 1
  <2>1. P.next_cursor = next_weighted_target_refresh_cursor(cursor, Len(tracked), Normal)
    BY DEF plan_feed_refresh, Normal, Others, Retried
  <2>2. cursor + Smaller(Normal, Len(tracked)) \in Nat
    BY <1>1 DEF Ready, Smaller
  <2>3. (cursor + Smaller(Normal, Len(tracked))) % Len(tracked) \in 0 .. Len(tracked) - 1
    BY <1>1, <2>2
  <2> QED BY <1>1, <2>1, <2>3 DEF next_weighted_target_refresh_cursor
<1>3. P.total = Len(tracked) /\ P.normal = Normal /\ P.concurrency \in Nat
  <2>1. Len(P.indexes) \in Nat
    BY <1>1
  <2>2. P.concurrency = Larger(Smaller(concurrency, Len(P.indexes)), 1)
    BY DEF plan_feed_refresh
  <2>3. P.total = Len(tracked) /\ P.normal = Normal
    BY DEF plan_feed_refresh, Normal, Others, Retried
  <2> QED BY <2>1, <2>2, <2>3 DEF Ready, Larger, Smaller
<1>4. P.indexes \in Seq(Nat) /\ Elements(P.indexes) \subseteq 0 .. Len(tracked) - 1
  <2>1. \A i \in 1 .. Len(P.indexes) : P.indexes[i] \in 0 .. Len(tracked) - 1
    BY <1>1
  <2>2. \A i \in 1 .. Len(P.indexes) : P.indexes[i] \in Nat
    BY <2>1
  <2> QED BY <1>1, <2>1, <2>2 DEF Elements
<1>5. P \in [indexes : Seq(Nat), total : Nat, normal : Nat, concurrency : Nat,
             next_cursor : Nat]
  <2>1. P = [indexes |-> P.indexes, total |-> P.total, normal |-> P.normal,
             concurrency |-> P.concurrency, next_cursor |-> P.next_cursor]
    BY DEF plan_feed_refresh
  <2>2. P.total \in Nat /\ P.next_cursor \in Nat
    BY <1>1, <1>2, <1>3
  <2> HIDE DEF P
  <2> QED BY <1>1, <1>3, <1>4, <2>1, <2>2
<1>6. P # NoPlan
  BY <1>1, <1>3 DEF NoPlan
<1>7. \A k \in 1 .. Len(RetriesTaken) :
        \E i \in 1 .. Len(P.indexes) : SymbolAt(P.indexes[i]) = RetriesTaken[k]
  <2> TAKE k \in 1 .. Len(RetriesTaken)
  <2>1. Retried[k] \in Elements(P.indexes) /\ SymbolAt(Retried[k]) = RetriesTaken[k]
    BY RetriedFacts, WindowFacts
  <2> QED BY <2>1 DEF Elements
<1>8. IsInjective(P.indexes)
  BY WindowFacts
<1> QED BY <1>2, <1>3, <1>4, <1>5, <1>6, <1>7, <1>8

-----------------------------------------------------------------------------
(* The inductive invariant.  The plan is of indexes of the list, which only*)
(* grows; what failed was in the window and came back; and the cooldown is *)
(* what is left of the quiet cycles asked for.                             *)

PlanInside ==
  IF plan = NoPlan THEN returned = {} /\ failed = <<>>
  ELSE /\ plan.total \in 1 .. Len(tracked) /\ plan.next_cursor \in 0 .. plan.total - 1
       /\ Elements(plan.indexes) \subseteq 0 .. plan.total - 1

FailedCameBack == \A s \in Elements(failed) : \E k \in returned : s = SymbolAt(plan.indexes[k])

CooldownIsLeft == cooldown = FEED_RECOVERY_COOLDOWN_CYCLES - quiet

IInv == /\ TypeOK /\ PlanInside /\ FailedCameBack /\ CooldownIsLeft
        /\ FailuresAreRetried /\ WindowLeavesNoGap

LEMMA InitIInv == Init => IInv
<1> SUFFICES ASSUME Init PROVE IInv
  OBVIOUS
<1> USE FeedAssumption, BudgetAssumption
<1>1. tracked \in Seq(Symbols) /\ IsInjective(tracked) /\ Len(tracked) \in Nat
  BY DEF Init
<1>2. /\ Elements(<<>>) = {} /\ IsInjective(<<>>)
  BY DEF Elements, IsInjective
<1>3. NoPlan \in [indexes : Seq(Nat), total : Nat, normal : Nat, concurrency : Nat,
                  next_cursor : Nat]
      /\ NoPlan.indexes = <<>> /\ NoPlan.normal = 0
  BY DEF NoPlan
<1>4. TypeOK
  <2>1. /\ tracked \in Seq(Symbols) /\ IsInjective(tracked)
        /\ unannounced \in BOOLEAN /\ client \in BOOLEAN /\ bootstrapped \in BOOLEAN
        /\ control \in Nat
    BY <1>1 DEF Init
  <2>5. cursor \in 0 .. Larger(Len(tracked) - 1, 0)
    <3>1. cursor = 0 /\ Len(tracked) - 1 \in Int
      BY <1>1 DEF Init
    <3> QED BY <3>1 DEF Larger
  <2>2. /\ steady_budget \in MIN_STEADY_FEED_REFRESH_BUDGET .. MAX_STEADY_FEED_REFRESH_BUDGET
        /\ concurrency \in MIN_FEED_FETCH_CONCURRENCY .. MAX_FEED_FETCH_CONCURRENCY
        /\ cooldown \in 0 .. FEED_RECOVERY_COOLDOWN_CYCLES
        /\ quiet \in 0 .. FEED_RECOVERY_COOLDOWN_CYCLES
    BY DEF Init
  <2>3. /\ retry_symbols \in Seq(Symbols)
        /\ plan \in [indexes : Seq(Nat), total : Nat, normal : Nat, concurrency : Nat,
                     next_cursor : Nat]
        /\ returned \in SUBSET (1 .. Len(plan.indexes))
        /\ failed \in Seq(Symbols) /\ throttled \in BOOLEAN
        /\ owed \in SUBSET Symbols /\ failures \in Nat
    <3>1. /\ plan = NoPlan /\ returned = {} /\ owed = {} /\ failures = 0
          /\ retry_symbols = <<>> /\ failed = <<>> /\ throttled = FALSE
      BY DEF Init
    <3>2. plan \in [indexes : Seq(Nat), total : Nat, normal : Nat, concurrency : Nat,
                   next_cursor : Nat]
      BY <1>3, <3>1
    <3>3. retry_symbols \in Seq(Symbols) /\ failed \in Seq(Symbols)
      BY <3>1
    <3> QED BY <3>1, <3>2, <3>3
  <2>4. /\ IsInjective(retry_symbols) /\ IsInjective(failed)
        /\ Elements(retry_symbols) \cup Elements(failed) \subseteq Elements(tracked)
    BY <1>2 DEF Init
  <2> QED BY <2>1, <2>2, <2>3, <2>4, <2>5 DEF TypeOK
<1>5. PlanInside /\ FailedCameBack /\ CooldownIsLeft /\ FailuresAreRetried /\ WindowLeavesNoGap
  BY <1>2, <1>3 DEF Init, PlanInside, FailedCameBack, CooldownIsLeft, FailuresAreRetried,
                    WindowLeavesNoGap
<1> QED BY <1>4, <1>5 DEF IInv

LEMMA ListGrows ==
  ASSUME IInv, NEW s \in Symbols, add_symbols(s)
  PROVE  /\ tracked' \in Seq(Symbols) /\ IsInjective(tracked') /\ Len(tracked') = Len(tracked) + 1
         /\ Len(tracked) \in Nat
         /\ Elements(tracked) \subseteq Elements(tracked')
         /\ \A i \in 0 .. Len(tracked) - 1 : SymbolAt(i)' = SymbolAt(i)
<1>1. /\ tracked' = Append(tracked, s) /\ s \notin Elements(tracked)
      /\ tracked \in Seq(Symbols) /\ IsInjective(tracked)
  BY DEF add_symbols, IInv, TypeOK
<1>2. /\ tracked' \in Seq(Symbols) /\ Len(tracked) \in Nat /\ Len(tracked') = Len(tracked) + 1
      /\ tracked'[Len(tracked) + 1] = s
      /\ \A i \in 1 .. Len(tracked) : tracked'[i] = tracked[i]
  BY <1>1
<1>3. \A i \in 1 .. Len(tracked) : tracked[i] # s
  BY <1>1 DEF Elements
<1>4. ASSUME NEW i \in 1 .. Len(tracked'), NEW j \in 1 .. Len(tracked'), tracked'[i] = tracked'[j]
      PROVE  i = j
  <2>1. CASE i \in 1 .. Len(tracked) /\ j \in 1 .. Len(tracked)
    BY <1>1, <1>2, <1>4, <2>1 DEF IsInjective
  <2>2. CASE i = Len(tracked) + 1 \/ j = Len(tracked) + 1
    BY <1>2, <1>3, <1>4, <2>2
  <2> QED BY <1>2, <2>1, <2>2
<1>5. Elements(tracked) \subseteq Elements(tracked')
  BY <1>2 DEF Elements
<1>6. \A i \in 0 .. Len(tracked) - 1 : i + 1 \in 1 .. Len(tracked)
  BY <1>2
<1> QED BY <1>2, <1>4, <1>5, <1>6 DEF IsInjective, SymbolAt

\* Indexes of a plan are places of the list.
LEMMA PlanIsOfTheList ==
  ASSUME IInv, NEW k \in 1 .. Len(plan.indexes)
  PROVE  /\ plan # NoPlan /\ plan.indexes[k] \in 0 .. Len(tracked) - 1
         /\ SymbolAt(plan.indexes[k]) \in Symbols
         /\ SymbolAt(plan.indexes[k]) \in Elements(tracked)
<1>1. plan # NoPlan
  BY DEF NoPlan
<1>2. plan.indexes[k] \in 0 .. Len(tracked) - 1
  <2>1. plan.indexes[k] \in 0 .. plan.total - 1 /\ plan.total \in 1 .. Len(tracked)
    BY <1>1 DEF IInv, PlanInside, Elements
  <2>2. Len(tracked) \in Nat
    BY DEF IInv, TypeOK
  <2> QED BY <2>1, <2>2
<1>3. plan.indexes[k] + 1 \in 1 .. Len(tracked) /\ tracked \in Seq(Symbols)
  <2>1. tracked \in Seq(Symbols) /\ Len(tracked) \in Nat
    BY DEF IInv, TypeOK
  <2> QED BY <1>2, <2>1
<1> QED BY <1>1, <1>2, <1>3 DEF SymbolAt, Elements

LEMMA PlanOnce ==
  ASSUME IInv, NEW j \in 1 .. Len(plan.indexes), NEW k \in 1 .. Len(plan.indexes),
         SymbolAt(plan.indexes[j]) = SymbolAt(plan.indexes[k])
  PROVE  j = k
<1>1. /\ plan.indexes[j] \in 0 .. Len(tracked) - 1 /\ plan.indexes[k] \in 0 .. Len(tracked) - 1
  BY PlanIsOfTheList
<1>2. /\ plan.indexes[j] + 1 \in 1 .. Len(tracked) /\ plan.indexes[k] + 1 \in 1 .. Len(tracked)
      /\ tracked[plan.indexes[j] + 1] = tracked[plan.indexes[k] + 1]
  <2>1. Len(tracked) \in Nat
    BY DEF IInv, TypeOK
  <2> QED BY <1>1, <2>1 DEF SymbolAt
<1>3. IsInjective(tracked) /\ IsInjective(plan.indexes)
  BY DEF IInv, TypeOK, WindowLeavesNoGap
<1>4. plan.indexes[j] + 1 = plan.indexes[k] + 1
  BY <1>2, <1>3 DEF IsInjective
<1>5. plan.indexes[j] = plan.indexes[k]
  BY <1>1, <1>4
<1> QED BY <1>3, <1>5 DEF IsInjective

\* Everything but the messages and the announcement is left alone.
LEMMA StepAside ==
  ASSUME IInv, control' \in Nat, unannounced' \in BOOLEAN, client' \in BOOLEAN,
         failures' \in Nat,
         UNCHANGED <<tracked, cursor, bootstrapped, aimdVars, retry_symbols, cycleVars, owed>>
  PROVE  IInv'
<1>1. TypeOK'
  BY DEF IInv, TypeOK, aimdVars, cycleVars
<1>2. PlanInside' /\ FailedCameBack' /\ CooldownIsLeft'
  BY DEF IInv, PlanInside, FailedCameBack, CooldownIsLeft, SymbolAt, aimdVars, cycleVars
<1>3. FailuresAreRetried' /\ WindowLeavesNoGap'
  BY DEF IInv, FailuresAreRetried, WindowLeavesNoGap, SymbolAt, aimdVars, cycleVars
<1> QED BY <1>1, <1>2, <1>3 DEF IInv

LEMMA AddSymbolsKeeps ==
  ASSUME IInv, NEW s \in Symbols, add_symbols(s)
  PROVE  IInv'
<1>1. UNCHANGED <<control, client, cursor, bootstrapped, retry_symbols, owed, failures,
                  steady_budget, concurrency, cooldown, quiet, plan, returned, failed, throttled>>
      /\ unannounced' = TRUE
  BY DEF add_symbols, aimdVars, cycleVars
<1>2. TypeOK'
  <2>1. cursor' \in 0 .. Larger(Len(tracked') - 1, 0)
    <3>1. cursor \in 0 .. Larger(Len(tracked) - 1, 0) /\ cursor' = cursor
      BY <1>1 DEF IInv, TypeOK
    <3>2. Len(tracked) \in Nat /\ Len(tracked') = Len(tracked) + 1
      BY ListGrows
    <3> QED BY <3>1, <3>2 DEF Larger
  <2> QED BY <1>1, <2>1, ListGrows DEF IInv, TypeOK
<1>3. PlanInside'
  BY <1>1, ListGrows DEF IInv, PlanInside
<1>4. \A k \in 1 .. Len(plan.indexes) : SymbolAt(plan.indexes[k])' = SymbolAt(plan.indexes[k])
  <2> TAKE k \in 1 .. Len(plan.indexes)
  <2>1. plan.indexes[k] \in 0 .. Len(tracked) - 1
    BY PlanIsOfTheList
  <2> QED BY <1>1, <2>1, ListGrows DEF SymbolAt
<1>5. returned \subseteq 1 .. Len(plan.indexes)
  BY DEF IInv, TypeOK
<1>6. FailedCameBack' /\ FailuresAreRetried'
  BY <1>1, <1>4, <1>5 DEF IInv, FailedCameBack, FailuresAreRetried
<1>7. CooldownIsLeft' /\ WindowLeavesNoGap'
  BY <1>1 DEF IInv, CooldownIsLeft, WindowLeavesNoGap
<1> QED BY <1>2, <1>3, <1>6, <1>7 DEF IInv

\* The queue splits into what the window takes and what stays.
LEMMA QueueSplits ==
  ASSUME Ready, NEW rest, rest = SubSeq(retry_symbols, Len(RetriesTaken) + 1, Len(retry_symbols))
  PROVE  /\ rest \in Seq(Symbols) /\ IsInjective(rest)
         /\ Elements(rest) \subseteq Elements(retry_symbols)
         /\ \A s \in Elements(retry_symbols) :
              s \in Elements(rest) \/ \E k \in 1 .. Len(RetriesTaken) : s = RetriesTaken[k]
<1> DEFINE n == Len(RetriesTaken)
           L == Len(retry_symbols)
<1>1. n \in 0 .. L /\ L \in Nat /\ \A k \in 1 .. n : RetriesTaken[k] = retry_symbols[k]
  BY RetriesTakenFacts DEF Ready
<1> HIDE DEF n
<1>2. retry_symbols \in Seq(Symbols) /\ rest = SubSeq(retry_symbols, n + 1, L)
  BY DEF Ready, n
<1>3. /\ rest \in Seq(Symbols) /\ Len(rest) = L - n
      /\ \A k \in 1 .. L - n : rest[k] = retry_symbols[n + k]
  BY <1>1, <1>2, Ending DEF L
<1> HIDE DEF L
<1>4. \A k \in 1 .. L - n : n + k \in 1 .. L
  BY <1>1
<1>5. IsInjective(rest)
  <2> SUFFICES ASSUME NEW i \in 1 .. Len(rest), NEW j \in 1 .. Len(rest), rest[i] = rest[j]
               PROVE  i = j
    BY DEF IsInjective
  <2>1. /\ n + i \in 1 .. L /\ n + j \in 1 .. L
        /\ retry_symbols[n + i] = retry_symbols[n + j]
    BY <1>3, <1>4
  <2>2. n + i = n + j
    BY <2>1 DEF Ready, IsInjective, L
  <2> QED BY <1>1, <2>2
<1>6. Elements(rest) \subseteq Elements(retry_symbols)
  BY <1>3, <1>4 DEF Elements, L
<1>7. ASSUME NEW s \in Elements(retry_symbols)
      PROVE  s \in Elements(rest) \/ \E k \in 1 .. n : s = RetriesTaken[k]
  <2>1. PICK i \in 1 .. L : retry_symbols[i] = s
    BY DEF Elements, L
  <2>2. CASE i <= n
    <3>1. i \in 1 .. n
      BY <1>1, <2>1, <2>2
    <3> QED BY <1>1, <2>1, <3>1
  <2>3. CASE i > n
    <3>1. i - n \in 1 .. L - n /\ n + (i - n) = i
      BY <1>1, <2>1, <2>3
    <3> QED BY <1>3, <2>1, <3>1 DEF Elements
  <2> QED BY <1>1, <2>1, <2>2, <2>3
<1> QED BY <1>3, <1>5, <1>6, <1>7 DEF n

LEMMA StartCycleKeeps ==
  ASSUME IInv, StartCycle
  PROVE  IInv'
<1> USE BudgetAssumption
<1>1. /\ plan = NoPlan /\ control' = control - 1 /\ control' \in Nat /\ client' = TRUE
      /\ returned = {} /\ failed = <<>>
      /\ returned' = {} /\ failed' = <<>> /\ throttled' = FALSE
      /\ UNCHANGED <<tracked, unannounced, cursor, bootstrapped, owed, failures,
                     steady_budget, concurrency, cooldown, quiet>>
  BY DEF StartCycle, Waiting, IInv, PlanInside, TypeOK, aimdVars
<1>2. CASE tracked = <<>>
  <2>1. UNCHANGED <<plan, retry_symbols>>
    BY <1>2 DEF StartCycle
  <2>2. TypeOK'
    BY <1>1, <2>1 DEF IInv, TypeOK
  <2>3. PlanInside' /\ FailedCameBack' /\ CooldownIsLeft'
    BY <1>1, <2>1 DEF IInv, PlanInside, FailedCameBack, CooldownIsLeft, SymbolAt
  <2>4. FailuresAreRetried' /\ WindowLeavesNoGap'
    BY <1>1, <2>1 DEF IInv, FailuresAreRetried, WindowLeavesNoGap, SymbolAt
  <2> QED BY <2>2, <2>3, <2>4 DEF IInv
<1>3. CASE tracked # <<>>
  <2>1. /\ plan' = plan_feed_refresh
        /\ retry_symbols' = SubSeq(retry_symbols, Len(RetriesTaken) + 1, Len(retry_symbols))
    BY <1>3 DEF StartCycle
  <2>2. Ready
    <3>1. Len(tracked) \in Nat \ {0}
      BY <1>3 DEF IInv, TypeOK
    <3>2. cursor \in 0 .. Len(tracked) - 1
      BY <3>1 DEF IInv, TypeOK, Larger
    <3>3. steady_budget \in Nat /\ concurrency \in Nat
      BY DEF IInv, TypeOK
    <3> QED BY <1>3, <3>2, <3>3 DEF IInv, TypeOK, Ready
  <2>3. /\ plan' \in [indexes : Seq(Nat), total : Nat, normal : Nat, concurrency : Nat,
                      next_cursor : Nat]
        /\ plan'.total = Len(tracked) /\ plan' # NoPlan
        /\ plan'.next_cursor \in 0 .. Len(tracked) - 1
        /\ Elements(plan'.indexes) \subseteq 0 .. Len(tracked) - 1
        /\ IsInjective(plan'.indexes)
        /\ \A k \in 1 .. Len(RetriesTaken) :
             \E i \in 1 .. Len(plan'.indexes) : SymbolAt(plan'.indexes[i]) = RetriesTaken[k]
    BY <2>1, <2>2, PlanFacts
  <2>4. /\ retry_symbols' \in Seq(Symbols) /\ IsInjective(retry_symbols')
        /\ Elements(retry_symbols') \subseteq Elements(retry_symbols)
        /\ \A s \in Elements(retry_symbols) :
             s \in Elements(retry_symbols') \/ \E k \in 1 .. Len(RetriesTaken) : s = RetriesTaken[k]
    BY <2>1, <2>2, QueueSplits
  <2>5. /\ <<>> \in Seq(Symbols) /\ Elements(<<>>) = {} /\ IsInjective(<<>>)
    BY DEF Elements, IsInjective
  <2>6. TypeOK'
    BY <1>1, <2>3, <2>4, <2>5 DEF IInv, TypeOK
  <2>7. PlanInside'
    <3>1. Len(tracked) \in 1 .. Len(tracked)
      BY <2>2 DEF Ready
    <3> QED BY <1>1, <2>3, <3>1 DEF PlanInside
  <2>8. FailedCameBack' /\ CooldownIsLeft'
    BY <1>1, <2>5 DEF IInv, FailedCameBack, CooldownIsLeft
  <2>9. FailuresAreRetried'
    <3> SUFFICES ASSUME NEW s \in owed
                 PROVE  \/ s \in Elements(retry_symbols')
                        \/ \E i \in 1 .. Len(plan'.indexes) : s = SymbolAt(plan'.indexes[i])
      BY <1>1 DEF FailuresAreRetried, SymbolAt
    <3>1. s \in Elements(retry_symbols)
      BY <1>1, <2>5 DEF IInv, FailuresAreRetried, NoPlan
    <3> QED BY <2>3, <2>4, <3>1
  <2>10. WindowLeavesNoGap'
    <3>1. plan'.normal > 0 =>
            \A k \in 0 .. (plan'.next_cursor + plan'.total - cursor - 1) % plan'.total :
              (cursor + k) % plan'.total \in Elements(plan'.indexes)
      BY <2>1, <2>2, WindowReaches
    <3> QED BY <1>1, <2>3, <3>1 DEF WindowLeavesNoGap
  <2> QED BY <2>6, <2>7, <2>8, <2>9, <2>10 DEF IInv
<1> QED BY <1>2, <1>3

LEMMA FetchReturnsKeeps ==
  ASSUME IInv, NEW position \in 1 .. Len(plan.indexes), NEW outcome \in Outcomes,
         FetchReturns(position, outcome)
  PROVE  IInv'
<1> DEFINE s == SymbolAt(plan.indexes[position])
<1>1. /\ position \notin returned /\ returned' = returned \cup {position}
      /\ failed' = IF is_retryable_feed_error(outcome) THEN Append(failed, s) ELSE failed
      /\ owed' = IF is_retryable_feed_error(outcome) THEN owed \cup {s} ELSE owed \ {s}
      /\ throttled' \in BOOLEAN /\ failures' \in Nat
      /\ UNCHANGED <<tracked, unannounced, control, client, cursor, bootstrapped,
                     retry_symbols, plan, steady_budget, concurrency, cooldown, quiet>>
  <2>1. throttled \in BOOLEAN /\ failures \in Nat
    BY DEF IInv, TypeOK
  <2>2. throttled' \in BOOLEAN
    BY DEF FetchReturns
  <2>3. failures' \in Nat
    BY <2>1 DEF FetchReturns
  <2> QED BY <2>2, <2>3 DEF FetchReturns, QueueRetry, aimdVars
<1>2. s \in Symbols /\ s \in Elements(tracked) /\ plan # NoPlan
  BY PlanIsOfTheList
<1>3. /\ returned \subseteq 1 .. Len(plan.indexes) /\ failed \in Seq(Symbols)
      /\ IsInjective(failed)
  BY DEF IInv, TypeOK
<1>4. s \notin Elements(failed)
  <2> SUFFICES ASSUME s \in Elements(failed) PROVE FALSE
    OBVIOUS
  <2>1. PICK k \in returned : s = SymbolAt(plan.indexes[k])
    BY DEF IInv, FailedCameBack
  <2>2. k = position
    BY <1>3, <2>1, PlanOnce
  <2> QED BY <1>1, <2>1, <2>2
<1> HIDE DEF s
<1>5. /\ failed' \in Seq(Symbols) /\ IsInjective(failed')
      /\ Elements(failed') = IF is_retryable_feed_error(outcome) THEN Elements(failed) \cup {s}
                             ELSE Elements(failed)
  <2>1. CASE is_retryable_feed_error(outcome)
    <3> DEFINE one == <<s>>
    <3>1. failed' = failed \o one
      BY <1>1, <1>2, <1>3, <2>1
    <3>2. one \in Seq(Symbols) /\ Len(one) = 1 /\ one[1] = s
      BY <1>2
    <3> HIDE DEF one
    <3>3. Elements(one) = {s} /\ IsInjective(one)
      BY <3>2 DEF Elements, IsInjective
    <3>4. Elements(failed) \cap Elements(one) = {}
      BY <1>4, <3>3
    <3>5. /\ failed \o one \in Seq(Symbols) /\ IsInjective(failed \o one)
          /\ Elements(failed \o one) = Elements(failed) \cup Elements(one)
      BY <1>3, <3>2, <3>3, <3>4, Joined
    <3> QED BY <2>1, <3>1, <3>3, <3>5
  <2> QED BY <1>1, <1>3, <2>1
<1>6. TypeOK'
  BY <1>1, <1>2, <1>5 DEF IInv, TypeOK
<1>7. PlanInside' /\ CooldownIsLeft' /\ WindowLeavesNoGap'
  BY <1>1, <1>2 DEF IInv, PlanInside, CooldownIsLeft, WindowLeavesNoGap
<1>8. FailedCameBack'
  <2> SUFFICES ASSUME NEW t \in Elements(failed')
               PROVE  \E k \in returned' : t = SymbolAt(plan.indexes[k])
    BY <1>1 DEF FailedCameBack, SymbolAt
  <2>1. CASE t \in Elements(failed)
    BY <1>1, <2>1 DEF IInv, FailedCameBack
  <2>2. CASE t = s
    BY <1>1, <2>2 DEF s
  <2> QED BY <1>5, <2>1, <2>2
<1>9. FailuresAreRetried'
  <2> SUFFICES ASSUME NEW t \in owed'
               PROVE  \/ t \in Elements(retry_symbols) \cup Elements(failed')
                      \/ \E k \in (1 .. Len(plan.indexes)) \ returned' :
                           t = SymbolAt(plan.indexes[k])
    BY <1>1 DEF FailuresAreRetried, SymbolAt
  <2>1. CASE t = s
    BY <1>1, <1>5, <2>1
  <2>2. CASE t # s
    <3>1. t \in owed
      BY <1>1, <2>2
    <3>2. CASE t \in Elements(retry_symbols) \cup Elements(failed)
      BY <1>5, <3>2
    <3>3. CASE \E k \in (1 .. Len(plan.indexes)) \ returned : t = SymbolAt(plan.indexes[k])
      BY <1>1, <2>2, <3>3 DEF s
    <3> QED BY <3>1, <3>2, <3>3 DEF IInv, FailuresAreRetried
  <2> QED BY <2>1, <2>2
<1> QED BY <1>6, <1>7, <1>8, <1>9 DEF IInv

LEMMA AdaptFacts ==
  ASSUME IInv, EndCycle
  PROVE  /\ steady_budget' \in MIN_STEADY_FEED_REFRESH_BUDGET .. MAX_STEADY_FEED_REFRESH_BUDGET
         /\ concurrency' \in MIN_FEED_FETCH_CONCURRENCY .. MAX_FEED_FETCH_CONCURRENCY
         /\ cooldown' \in 0 .. FEED_RECOVERY_COOLDOWN_CYCLES
         /\ quiet' \in 0 .. FEED_RECOVERY_COOLDOWN_CYCLES
         /\ CooldownIsLeft'
         /\ concurrency' > concurrency \/ steady_budget' > steady_budget =>
              quiet = FEED_RECOVERY_COOLDOWN_CYCLES
<1> USE BudgetAssumption
<1>1. /\ steady_budget \in MIN_STEADY_FEED_REFRESH_BUDGET .. MAX_STEADY_FEED_REFRESH_BUDGET
      /\ concurrency \in MIN_FEED_FETCH_CONCURRENCY .. MAX_FEED_FETCH_CONCURRENCY
      /\ cooldown \in 0 .. FEED_RECOVERY_COOLDOWN_CYCLES
      /\ quiet \in 0 .. FEED_RECOVERY_COOLDOWN_CYCLES
      /\ cooldown = FEED_RECOVERY_COOLDOWN_CYCLES - quiet
  BY DEF IInv, TypeOK, CooldownIsLeft
<1>2. CASE throttled
  <2>1. /\ concurrency' = Larger(concurrency - 1, MIN_FEED_FETCH_CONCURRENCY)
        /\ steady_budget' = Larger(steady_budget \div 2, MIN_STEADY_FEED_REFRESH_BUDGET)
        /\ cooldown' = FEED_RECOVERY_COOLDOWN_CYCLES /\ quiet' = 0
    BY <1>2 DEF EndCycle, Adapt
  <2>2. steady_budget \div 2 \in 0 .. steady_budget
    BY <1>1
  <2> QED BY <1>1, <2>1, <2>2 DEF Larger, CooldownIsLeft
<1>3. CASE ~throttled
  <2>1. /\ cooldown' = Larger(cooldown - 1, 0)
        /\ concurrency' = IF cooldown > 0 THEN concurrency
                          ELSE Smaller(concurrency + 1, MAX_FEED_FETCH_CONCURRENCY)
        /\ steady_budget' = IF cooldown > 0 THEN steady_budget
                            ELSE Smaller(steady_budget + STEADY_STEP,
                                         MAX_STEADY_FEED_REFRESH_BUDGET)
        /\ quiet' = Smaller(quiet + 1, FEED_RECOVERY_COOLDOWN_CYCLES)
    BY <1>3 DEF EndCycle, Adapt
  <2> QED BY <1>1, <2>1 DEF Larger, Smaller, CooldownIsLeft
<1> QED BY <1>2, <1>3

LEMMA RequeueFacts ==
  ASSUME IInv, Requeue
  PROVE  /\ retry_symbols' \in Seq(Symbols) /\ IsInjective(retry_symbols')
         /\ Elements(retry_symbols') = Elements(retry_symbols) \cup Elements(failed)
<1> DEFINE new == KeepOnly(failed, Symbols \ Elements(retry_symbols))
<1>1. /\ retry_symbols \in Seq(Symbols) /\ failed \in Seq(Symbols)
      /\ IsInjective(retry_symbols) /\ IsInjective(failed)
  BY DEF IInv, TypeOK
<1>2. /\ new \in Seq(Symbols) /\ IsInjective(new)
      /\ Elements(new) = (Symbols \ Elements(retry_symbols)) \cap Elements(failed)
  BY <1>1, KeepOnlyFacts
<1>3. retry_symbols' = retry_symbols \o new
  BY DEF Requeue
<1> HIDE DEF new
<1>4. /\ retry_symbols \o new \in Seq(Symbols) /\ IsInjective(retry_symbols \o new)
      /\ Elements(retry_symbols \o new) = Elements(retry_symbols) \cup Elements(new)
  BY <1>1, <1>2, Joined
<1>5. Elements(failed) \subseteq Symbols
  BY <1>1 DEF Elements
<1> QED BY <1>2, <1>3, <1>4, <1>5

LEMMA EndCycleKeeps ==
  ASSUME IInv, EndCycle
  PROVE  IInv'
<1>1. /\ plan # NoPlan /\ returned = 1 .. Len(plan.indexes)
      /\ cursor' = plan.next_cursor /\ bootstrapped' = TRUE /\ Requeue
      /\ control' = 0 /\ plan' = NoPlan /\ returned' = {} /\ failed' = <<>> /\ throttled' = FALSE
      /\ UNCHANGED <<tracked, unannounced, client, owed, failures>>
  BY DEF EndCycle
<1>2. /\ retry_symbols' \in Seq(Symbols) /\ IsInjective(retry_symbols')
      /\ Elements(retry_symbols') = Elements(retry_symbols) \cup Elements(failed)
  BY <1>1, RequeueFacts
<1>3. /\ <<>> \in Seq(Symbols) /\ Elements(<<>>) = {} /\ IsInjective(<<>>)
  BY DEF Elements, IsInjective
<1>4. NoPlan \in [indexes : Seq(Nat), total : Nat, normal : Nat, concurrency : Nat,
                  next_cursor : Nat]
      /\ NoPlan.indexes = <<>> /\ NoPlan.normal = 0
  BY DEF NoPlan
<1>5. cursor' \in 0 .. Larger(Len(tracked) - 1, 0)
  <2>1. plan.total \in 1 .. Len(tracked) /\ plan.next_cursor \in 0 .. plan.total - 1
    BY <1>1 DEF IInv, PlanInside
  <2>2. Len(tracked) \in Nat
    BY DEF IInv, TypeOK
  <2> QED BY <1>1, <2>1, <2>2 DEF Larger
<1>6. TypeOK'
  <2>1. /\ tracked' \in Seq(Symbols) /\ IsInjective(tracked')
        /\ unannounced' \in BOOLEAN /\ client' \in BOOLEAN /\ bootstrapped' \in BOOLEAN
        /\ control' \in Nat /\ cursor' \in 0 .. Larger(Len(tracked') - 1, 0)
    BY <1>1, <1>5 DEF IInv, TypeOK
  <2>2. /\ plan' \in [indexes : Seq(Nat), total : Nat, normal : Nat, concurrency : Nat,
                      next_cursor : Nat]
        /\ returned' \in SUBSET (1 .. Len(plan'.indexes))
        /\ failed' \in Seq(Symbols) /\ throttled' \in BOOLEAN
        /\ owed' \in SUBSET Symbols /\ failures' \in Nat
    BY <1>1, <1>3, <1>4 DEF IInv, TypeOK
  <2>3. /\ IsInjective(failed')
        /\ Elements(retry_symbols') \cup Elements(failed') \subseteq Elements(tracked')
    BY <1>1, <1>2, <1>3 DEF IInv, TypeOK
  <2> QED BY <1>2, <2>1, <2>2, <2>3, AdaptFacts DEF TypeOK
<1>7. PlanInside' /\ FailedCameBack' /\ WindowLeavesNoGap'
  BY <1>1, <1>3, <1>4 DEF PlanInside, FailedCameBack, WindowLeavesNoGap
<1>8. FailuresAreRetried'
  <2>1. owed \subseteq Elements(retry_symbols) \cup Elements(failed)
    BY <1>1 DEF IInv, FailuresAreRetried
  <2> QED BY <1>1, <1>2, <2>1 DEF FailuresAreRetried
<1> QED BY <1>6, <1>7, <1>8, AdaptFacts DEF IInv

LEMMA Step == IInv /\ [Next]_vars => IInv'
<1> SUFFICES ASSUME IInv, [Next]_vars PROVE IInv'
  OBVIOUS
<1>1. CASE feed_schedule_loop \/ RefreshNow \/ build_client_fails
  <2>1. /\ control \in Nat /\ unannounced \in BOOLEAN /\ client \in BOOLEAN /\ failures \in Nat
    BY DEF IInv, TypeOK
  <2>2. control' \in Nat /\ unannounced' \in BOOLEAN /\ client' \in BOOLEAN /\ failures' \in Nat
    <3>1. CASE feed_schedule_loop
      BY <2>1, <3>1 DEF feed_schedule_loop
    <3>2. CASE RefreshNow
      <4>1. control' \in Nat
        BY <2>1, <3>2 DEF RefreshNow
      <4>2. unannounced' = FALSE /\ client' = client /\ failures' = failures
        BY <3>2 DEF RefreshNow
      <4> QED BY <2>1, <4>1, <4>2
    <3>3. CASE build_client_fails
      <4>1. control' \in Nat /\ failures' \in Nat
        BY <2>1, <3>3 DEF build_client_fails, Waiting
      <4> QED BY <2>1, <3>3, <4>1 DEF build_client_fails
    <3> QED BY <1>1, <3>1, <3>2, <3>3
  <2>3. UNCHANGED <<tracked, cursor, bootstrapped, aimdVars, retry_symbols, cycleVars, owed>>
    BY <1>1 DEF feed_schedule_loop, RefreshNow, build_client_fails
  <2> QED BY <2>2, <2>3, StepAside
<1>2. CASE \E s \in Symbols : add_symbols(s)
  BY <1>2, AddSymbolsKeeps
<1>3. CASE StartCycle
  BY <1>3, StartCycleKeeps
<1>4. CASE \E position \in 1 .. Len(plan.indexes), outcome \in Outcomes :
             FetchReturns(position, outcome)
  BY <1>4, FetchReturnsKeeps
<1>5. CASE EndCycle
  BY <1>5, EndCycleKeeps
<1>6. CASE UNCHANGED vars
  <2>1. control' \in Nat /\ unannounced' \in BOOLEAN /\ client' \in BOOLEAN /\ failures' \in Nat
    BY <1>6 DEF vars, IInv, TypeOK
  <2> QED BY <1>6, <2>1, StepAside DEF vars
<1> QED BY <1>1, <1>2, <1>3, <1>4, <1>5, <1>6 DEF Next

(* Types and ranges, with the invariant the other theorems need.           *)
THEOREM Inductive == Spec => []IInv
BY InitIInv, Step, PTL DEF Spec

(* Every variable has its type and range: in particular the cursor is an   *)
(* index of the list and no symbol is queued twice.                        *)
THEOREM TypeCorrect == Spec => []TypeOK
<1>1. IInv => TypeOK
  BY DEF IInv
<1> QED BY <1>1, Inductive, PTL

(* A symbol whose last fetch failed in a way that may pass is queued, in   *)
(* the window, or about to be queued, whatever the budgets are.            *)
THEOREM Retries == Spec => []FailuresAreRetried
<1>1. IInv => FailuresAreRetried
  BY DEF IInv
<1> QED BY <1>1, Inductive, PTL

(* The round robin leaves no gap and fetches nothing twice in a window,    *)
(* for any budgets and any length of the list.                             *)
THEOREM NoGap == Spec => []WindowLeavesNoGap
<1>1. IInv => WindowLeavesNoGap
  BY DEF IInv
<1> QED BY <1>1, Inductive, PTL

(* The loop speeds up only after a whole cooldown without throttling.      *)
THEOREM SlowRecovery == Spec => RecoveryIsSlow
<1>1. IInv /\ [Next]_vars =>
        [concurrency' > concurrency \/ steady_budget' > steady_budget
           => quiet = FEED_RECOVERY_COOLDOWN_CYCLES]_vars
  <2> SUFFICES ASSUME IInv, [Next]_vars,
                      concurrency' > concurrency \/ steady_budget' > steady_budget
               PROVE  quiet = FEED_RECOVERY_COOLDOWN_CYCLES
    OBVIOUS
  <2>1. concurrency \in Int /\ steady_budget \in Int
    BY BudgetAssumption DEF IInv, TypeOK
  <2>2. ~(UNCHANGED <<concurrency, steady_budget>>)
    BY <2>1
  <2>3. EndCycle
    BY <2>2 DEF Next, vars, aimdVars, feed_schedule_loop, add_symbols, RefreshNow,
                build_client_fails, StartCycle, FetchReturns
  <2> QED BY <2>3, AdaptFacts
<1> QED BY <1>1, Inductive, PTL DEF Spec, RecoveryIsSlow
=============================================================================
