------------------------- MODULE TerminalStateProofs -------------------------
(***************************************************************************)
(* Invariants of TerminalState for every set of symbols and payloads and   *)
(* every capacity and, at the end, of SessionUniverse for every universe   *)
(* and every list given for one session.                                   *)
(***************************************************************************)
EXTENDS TerminalState, SessionUniverse, SequenceTheorems, FiniteSetTheorems,
        WellFoundedInduction, TLAPS

-----------------------------------------------------------------------------
(* What the operators return.                                              *)

\* The gap of two amounts of cents is a number.
LEMMA GapIsInt ==
  ASSUME NEW market \in Int, NEW fair \in Int
  PROVE  gap_bps(market, fair) \in Int
<1> DEFINE gap == TruncDiv((fair - market) * 10000, fair)
<1>1. CASE fair <= 0
  BY <1>1 DEF gap_bps, checked_gap_bps
<1>2. CASE fair > 0
  <2>1. (fair - market) * 10000 \in Int
    OBVIOUS
  <2>2. gap \in Int
    BY <1>2, <2>1 DEF TruncDiv
  <2>3. checked_gap_bps(market, fair) \in Int
    BY <1>2, <2>2, I32Assumption DEF checked_gap_bps, Clamp, Larger, Smaller
  <2> QED
    BY <2>3 DEF gap_bps
<1> QED
  BY <1>1, <1>2

\* Truncating the quotient of a discount does not change the side of a
\* positive threshold it is on.
LEMMA TruncationIsExact ==
  ASSUME NEW n \in Int, NEW d \in Nat \ {0}, NEW t \in Nat \ {0}
  PROVE  TruncDiv(n, d) \in Int /\ (TruncDiv(n, d) >= t <=> n >= t * d)
<1>1. t * d \in Int /\ t * d > 0
  OBVIOUS
<1>2. CASE n < 0
  <2> DEFINE m == (-n) \div d
  <2>1. -n \in Nat /\ m \in Int /\ -n >= d * m /\ -n < d * m + d
    BY <1>2
  <2>2. m >= 0
    <3>1. CASE m < 0
      <4>1. d * (m + 1) <= 0
        BY <2>1, <3>1
      <4> QED BY <2>1, <4>1
    <3> QED BY <2>1, <3>1
  <2>3. TruncDiv(n, d) = -m
    BY <1>2 DEF TruncDiv
  <2> HIDE DEF m
  <2> QED BY <1>1, <1>2, <2>1, <2>2, <2>3
<1>3. CASE n >= 0
  <2> DEFINE q == n \div d
  <2>1. q \in Int /\ n >= d * q /\ n < d * q + d
    BY <1>3
  <2>2. TruncDiv(n, d) = q
    BY <1>3 DEF TruncDiv
  <2> HIDE DEF q
  <2>3. ASSUME q >= t PROVE n >= t * d
    <3>1. d * q >= d * t
      BY <2>1, <2>3
    <3> QED BY <2>1, <3>1
  <2>4. ASSUME q < t PROVE n < t * d
    <3>1. q + 1 <= t
      BY <2>1, <2>4
    <3>2. d * (q + 1) <= d * t
      BY <2>1, <3>1
    <3> QED BY <1>3, <2>1, <3>2
  <2> QED BY <1>1, <1>3, <2>1, <2>2, <2>3, <2>4
<1> QED BY <1>2, <1>3

\* The gap of a price against a fair value is on the same side of a positive
\* threshold within 32 bits as the discount itself, for all amounts.
LEMMA GapExact ==
  ASSUME NEW market \in Int, NEW fair \in Nat \ {0}, NEW t \in 1 .. I32_MAX
  PROVE  GapIsExact(market, fair, t)
<1> DEFINE n == (fair - market) * 10000
           q == TruncDiv(n, fair)
<1>1. n \in Int /\ t \in Nat \ {0}
  BY I32Assumption
<1>2. q \in Int /\ (q >= t <=> n >= t * fair)
  <2> HIDE DEF n
  <2> QED BY <1>1, TruncationIsExact
<1>3. checked_gap_bps(market, fair) = Clamp(q, I32_MIN, I32_MAX)
  BY DEF checked_gap_bps
<1> HIDE DEF q, n
<1>4. Clamp(q, I32_MIN, I32_MAX) \in Int /\ (Clamp(q, I32_MIN, I32_MAX) >= t <=> q >= t)
  BY <1>1, <1>2, I32Assumption DEF Clamp, Larger, Smaller
<1>5. gap_bps(market, fair) = Clamp(q, I32_MIN, I32_MAX)
  BY <1>3, <1>4, PayloadAssumption DEF gap_bps
<1> QED BY <1>2, <1>4, <1>5 DEF GapIsExact, n

\* A ring keeps its type, and its length within the capacity.
LEMMA PushRingType ==
  ASSUME NEW S, NEW ring \in Seq(S), NEW e \in S, NEW capacity \in Nat
  PROVE  /\ PushRing(ring, e, capacity) \in Seq(S)
         /\ Len(ring) <= capacity => Len(PushRing(ring, e, capacity)) <= capacity
<1>1. CASE capacity = 0
  BY <1>1 DEF PushRing
<1>2. CASE capacity # 0 /\ Len(ring) = capacity
  <2>1. ring # <<>>
    BY <1>2, EmptySeq
  <2>2. Tail(ring) \in Seq(S) /\ Len(Tail(ring)) = Len(ring) - 1
    BY <2>1, HeadTailProperties
  <2>3. Append(Tail(ring), e) \in Seq(S) /\ Len(Append(Tail(ring), e)) = Len(Tail(ring)) + 1
    BY <2>2, AppendProperties
  <2> QED
    BY <1>2, <2>2, <2>3 DEF PushRing
<1>3. CASE capacity # 0 /\ Len(ring) # capacity
  <2>1. Append(ring, e) \in Seq(S) /\ Len(Append(ring, e)) = Len(ring) + 1
    BY AppendProperties
  <2>2. Len(ring) \in Nat
    BY LenProperties
  <2> QED
    BY <1>3, <2>1, <2>2 DEF PushRing
<1> QED
  BY <1>1, <1>2, <1>3

\* The row of a symbol with a snapshot.
LEMMA BuildDetailType ==
  ASSUME NEW state \in SymbolState, build_detail(state) # None
  PROVE  build_detail(state) \in Row
<1>1. state.snapshot # None
  BY DEF build_detail
<1>2. state.snapshot \in Snapshots
  BY <1>1 DEF SymbolState
<1>3. /\ state.snapshot.market_price_cents \in Int
      /\ state.snapshot.intrinsic_value_cents \in Int
  BY <1>2, PayloadAssumption DEF SnapshotPayload
<1> DEFINE gap == gap_bps(state.snapshot.market_price_cents,
                          state.snapshot.intrinsic_value_cents)
           q   == qualification_for(state.snapshot)
           es  == external_status_for(state.snapshot, state.external_signal)
<1>4. gap \in Int
  BY <1>3, GapIsInt
<1>5. q \in {"Qualified", "Unprofitable", "GapTooSmall"}
  BY DEF qualification_for
<1>6. confidence_for(q, es) \in {"Low", "Provisional", "High"}
  BY DEF confidence_for
<1>7. build_detail(state) = [gap |-> gap, qualification |-> q,
                             confidence |-> confidence_for(q, es)]
  BY <1>1 DEF build_detail
<1> QED
  BY <1>4, <1>5, <1>6, <1>7 DEF Row

\* Sanitizing a signal keeps its type.
LEMMA SanitizeType ==
  ASSUME NEW signal \in SignalPayload
  PROVE  sanitize_external_signal(signal) \in SignalPayload
<1> DEFINE w == clamped_weighted_fair_value(signal)
<1>1. /\ signal.low \in Int \cup {None} /\ signal.high \in Int \cup {None}
      /\ signal.weighted \in Int \cup {None} /\ signal.weighted_count \in Int \cup {None}
  BY DEF SignalPayload
<1>2. w \in Int \cup {None}
  BY <1>1 DEF clamped_weighted_fair_value, Clamp, Larger, Smaller
<1>3. sanitize_external_signal(signal) =
        [signal EXCEPT !.weighted = w,
                       !.weighted_count = IF w = None THEN None ELSE @]
  BY DEF sanitize_external_signal
<1> HIDE DEF w
<1> QED
  BY <1>1, <1>2, <1>3 DEF SignalPayload

-----------------------------------------------------------------------------
(* The count of updates.  Induction is by the least counterexample.        *)

\* A set of numbers that is not empty has a least one.
LEMMA LeastNumber ==
  ASSUME NEW T \in SUBSET Nat, T # {}
  PROVE  \E n \in T : \A m \in T : n <= m
<1> DEFINE R == {p \in Nat \X Nat : p[1] < p[2]}
<1>1. IsWellFoundedOn(R, Nat)
  BY NatLessThanWellFounded DEF OpToRel
<1>2. PICK n \in T : \A m \in T : ~(<<m, n>> \in R)
  BY <1>1, WFMin
<1>3. \A m \in T : m \in Nat /\ n \in Nat /\ ~(m < n)
  BY <1>2
<1> QED
  BY <1>3

\* And a set of sets one with the fewest elements.
LEMMA SmallestSet ==
  ASSUME NEW D, IsFiniteSet(D), NEW B \in SUBSET (SUBSET D), B # {}
  PROVE  \E S \in B : \A U \in B : Cardinality(S) <= Cardinality(U)
<1> DEFINE T == {Cardinality(S) : S \in B}
<1>1. T \in SUBSET Nat /\ T # {}
  BY FS_Subset, FS_CardinalityType
<1> HIDE DEF T
<1>2. PICK n \in T : \A m \in T : n <= m
  BY <1>1, LeastNumber
<1> QED
  BY <1>2 DEF T

\* Taking an element away makes a set smaller.
LEMMA SmallerSet ==
  ASSUME NEW D, IsFiniteSet(D), NEW S \in SUBSET D, NEW x \in S
  PROVE  /\ S \ {x} \in SUBSET D
         /\ ~(Cardinality(S) <= Cardinality(S \ {x}))
<1>1. IsFiniteSet(S) /\ Cardinality(S) \in Nat
  BY FS_Subset, FS_CardinalityType
<1>2. Cardinality(S \ {x}) = Cardinality(S) - 1
  BY <1>1, FS_RemoveElement
<1> QED
  BY <1>1, <1>2

\* One round of the definition of the total.
Picked(S) == CHOOSE s \in S : TRUE
TotalOf(records, total, S) ==
  IF S = {} THEN 0 ELSE records[Picked(S)].update_count + total[S \ {Picked(S)}]

\* total is the total of every set of the records.
IsTotal(records, total) ==
  /\ total \in [SUBSET DOMAIN records -> Nat]
  /\ \A S \in SUBSET DOMAIN records : total[S] = TotalOf(records, total, S)

Counting(records) ==
  /\ IsFiniteSet(DOMAIN records)
  /\ \A s \in DOMAIN records : records[s].update_count \in Nat

LEMMA PickedIn == ASSUME NEW S, S # {} PROVE Picked(S) \in S
  BY DEF Picked

\* Such a total exists.
LEMMA TotalExists ==
  ASSUME NEW records, Counting(records)
  PROVE  \E total : IsTotal(records, total)
<1> DEFINE D == DOMAIN records
           Good(n) == \E total \in [SUBSET D -> Nat] : \A S \in SUBSET D :
                        Cardinality(S) <= n => total[S] = TotalOf(records, total, S)
           Bad == {n \in Nat : ~Good(n)}
<1>1. \A S \in SUBSET D : IsFiniteSet(S) /\ Cardinality(S) \in Nat
  BY FS_Subset, FS_CardinalityType DEF Counting
<1>2. Good(0)
  <2> DEFINE total == [S \in SUBSET D |-> 0]
  <2>1. \A S \in SUBSET D : Cardinality(S) <= 0 => S = {}
    BY <1>1, FS_EmptySet
  <2>2. total \in [SUBSET D -> Nat] /\ \A S \in SUBSET D : S = {} => total[S] = 0
    OBVIOUS
  <2> HIDE DEF total, D
  <2> QED BY <2>1, <2>2 DEF TotalOf
<1>3. ASSUME NEW n \in Nat, Good(n) PROVE Good(n + 1)
  <2>1. PICK total \in [SUBSET D -> Nat] : \A S \in SUBSET D :
          Cardinality(S) <= n => total[S] = TotalOf(records, total, S)
    BY <1>3
  <2> DEFINE next == [S \in SUBSET D |-> TotalOf(records, total, S)]
  <2>2. ASSUME NEW S \in SUBSET D, S # {}
        PROVE  /\ records[Picked(S)].update_count \in Nat
               /\ S \ {Picked(S)} \in SUBSET D
               /\ Cardinality(S \ {Picked(S)}) = Cardinality(S) - 1
    BY <1>1, <2>2, PickedIn, FS_RemoveElement DEF Counting
  <2>3. ASSUME NEW S \in SUBSET D PROVE TotalOf(records, total, S) \in Nat
    <3>1. CASE S = {}
      BY <3>1 DEF TotalOf
    <3>2. CASE S # {}
      <4>1. /\ records[Picked(S)].update_count \in Nat
            /\ S \ {Picked(S)} \in SUBSET D
        BY <2>2, <3>2
      <4>2. total[S \ {Picked(S)}] \in Nat
        BY <2>1, <4>1
      <4> QED BY <3>2, <4>1, <4>2 DEF TotalOf
    <3> QED BY <3>1, <3>2
  <2>4. ASSUME NEW S \in SUBSET D, Cardinality(S) <= n + 1
        PROVE  next[S] = TotalOf(records, next, S)
    <3>1. CASE S = {}
      BY <3>1 DEF TotalOf
    <3>2. CASE S # {}
      <4>1. /\ S \ {Picked(S)} \in SUBSET D
            /\ Cardinality(S \ {Picked(S)}) <= n
        BY <1>1, <2>2, <2>4, <3>2
      <4>2. next[S \ {Picked(S)}] = total[S \ {Picked(S)}]
        BY <2>1, <4>1
      <4>3. next[S] = TotalOf(records, total, S)
        OBVIOUS
      <4> QED BY <3>2, <4>2, <4>3 DEF TotalOf
    <3> QED BY <3>1, <3>2
  <2>5. next \in [SUBSET D -> Nat]
    BY <2>3
  <2> HIDE DEF next, D
  <2> QED BY <2>4, <2>5
<1>4. Bad = {}
  <2> SUFFICES ASSUME Bad # {} PROVE FALSE
    OBVIOUS
  <2> HIDE DEF Good
  <2>1. PICK n \in Bad : \A m \in Bad : n <= m
    BY LeastNumber
  <2>2. n \in Nat /\ n # 0
    BY <1>2, <2>1
  <2>3. n - 1 \in Nat /\ n - 1 \notin Bad
    BY <2>1, <2>2
  <2> QED BY <1>3, <2>1, <2>2, <2>3
<1>5. Good(Cardinality(D))
  <2> HIDE DEF Good
  <2> QED BY <1>1, <1>4
<1>6. PICK total \in [SUBSET D -> Nat] : \A S \in SUBSET D :
        Cardinality(S) <= Cardinality(D) => total[S] = TotalOf(records, total, S)
  BY <1>5
<1>7. \A S \in SUBSET D : Cardinality(S) <= Cardinality(D)
  BY FS_Subset DEF Counting
<1> QED BY <1>6, <1>7 DEF IsTotal

\* The model's total is one.
LEMMA TotalIsTotal ==
  ASSUME NEW records, Counting(records)
  PROVE  \E total : IsTotal(records, total) /\ TotalUpdates(records) = total[DOMAIN records]
<1> DEFINE D == DOMAIN records
           Defined(t) == t = [S \in SUBSET D |->
             IF S = {} THEN 0
             ELSE LET s == CHOOSE s \in S : TRUE
                  IN  records[s].update_count + t[S \ {s}]]
           total == CHOOSE t : Defined(t)
<1>1. TotalUpdates(records) = total[D]
  BY DEF TotalUpdates
<1>2. PICK t : IsTotal(records, t)
  BY TotalExists
<1>3. t = [S \in SUBSET D |-> TotalOf(records, t, S)]
  BY <1>2 DEF IsTotal
<1>4. Defined(t)
  BY <1>3 DEF TotalOf, Picked
<1>5. Defined(total)
  <2> HIDE DEF Defined
  <2> QED BY <1>4
<1>6. total = [S \in SUBSET D |-> TotalOf(records, total, S)]
  BY <1>5 DEF TotalOf, Picked
<1>7. \A S \in SUBSET D : total[S] = TotalOf(records, total, S) /\ t[S] = TotalOf(records, t, S)
  BY <1>3, <1>6
<1>8. \A S \in SUBSET D : IsFiniteSet(S) /\ Cardinality(S) \in Nat
  BY FS_Subset, FS_CardinalityType DEF Counting
<1> DEFINE Bad == {S \in SUBSET D : total[S] # t[S]}
<1> HIDE DEF total
<1>9. Bad = {}
  <2> SUFFICES ASSUME Bad # {} PROVE FALSE
    OBVIOUS
  <2>1. PICK S \in Bad : \A U \in Bad : Cardinality(S) <= Cardinality(U)
    BY SmallestSet DEF Counting
  <2>2. S # {}
    BY <1>7, <2>1 DEF TotalOf
  <2>3. S \ {Picked(S)} \in SUBSET D /\ S \ {Picked(S)} \notin Bad
    BY <2>1, <2>2, PickedIn, SmallerSet DEF Counting
  <2> QED BY <1>7, <2>1, <2>2, <2>3 DEF TotalOf
<1> QED BY <1>1, <1>2, <1>9

\* A total adds any element of a set to that of the others.
LEMMA TotalAdds ==
  ASSUME NEW records, Counting(records), NEW total, IsTotal(records, total),
         NEW S \in SUBSET DOMAIN records, NEW x \in S
  PROVE  total[S] = records[x].update_count + total[S \ {x}]
<1> DEFINE D == DOMAIN records
           Bad == {U \in SUBSET D :
                     \E y \in U : total[U] # records[y].update_count + total[U \ {y}]}
<1>1. \A U \in SUBSET D : total[U] \in Nat /\ total[U] = TotalOf(records, total, U)
  BY DEF IsTotal
<1>2. \A y \in D : records[y].update_count \in Nat
  BY DEF Counting
<1>3. Bad = {}
  <2> SUFFICES ASSUME Bad # {} PROVE FALSE
    OBVIOUS
  <2>1. PICK U \in Bad : \A V \in Bad : Cardinality(U) <= Cardinality(V)
    BY SmallestSet DEF Counting
  <2>2. PICK y \in U : total[U] # records[y].update_count + total[U \ {y}]
    BY <2>1
  <2> DEFINE z == Picked(U)
             rest == (U \ {z}) \ {y}
  <2>3. z \in U /\ U \in SUBSET D /\ total[U] = records[z].update_count + total[U \ {z}]
    BY <1>1, <2>1, <2>2, PickedIn DEF TotalOf
  <2>4. y # z
    BY <2>2, <2>3
  <2> HIDE DEF z
  <2>5. U \ {z} \notin Bad /\ U \ {y} \notin Bad
    BY <2>1, <2>2, <2>3, SmallerSet DEF Counting
  <2>6. total[U \ {z}] = records[y].update_count + total[rest]
    BY <2>2, <2>3, <2>4, <2>5
  <2>7. (U \ {y}) \ {z} = rest
    OBVIOUS
  <2>8. total[U \ {y}] = records[z].update_count + total[rest]
    BY <2>2, <2>3, <2>4, <2>5, <2>7
  <2>9. /\ total[rest] \in Nat /\ records[y].update_count \in Nat
        /\ records[z].update_count \in Nat
    BY <1>1, <1>2, <2>2, <2>3
  <2> HIDE DEF rest
  <2> QED BY <2>2, <2>3, <2>6, <2>8, <2>9
<1> QED BY <1>3

\* Two totals agree on a set of records with the same counts.
LEMMA TotalsAgree ==
  ASSUME NEW r1, Counting(r1), NEW t1, IsTotal(r1, t1),
         NEW r2, Counting(r2), NEW t2, IsTotal(r2, t2),
         NEW S \in SUBSET (DOMAIN r1 \cap DOMAIN r2),
         \A x \in S : r1[x].update_count = r2[x].update_count
  PROVE  t1[S] = t2[S]
<1> DEFINE Bad == {U \in SUBSET S : t1[U] # t2[U]}
<1>1. IsFiniteSet(S)
  BY FS_Subset DEF Counting
<1>2. \A U \in SUBSET S : t1[U] = TotalOf(r1, t1, U) /\ t2[U] = TotalOf(r2, t2, U)
  BY DEF IsTotal
<1>3. Bad = {}
  <2> SUFFICES ASSUME Bad # {} PROVE FALSE
    OBVIOUS
  <2>1. PICK U \in Bad : \A V \in Bad : Cardinality(U) <= Cardinality(V)
    BY <1>1, SmallestSet
  <2>2. U # {}
    BY <1>2, <2>1 DEF TotalOf
  <2>3. U \ {Picked(U)} \in SUBSET S /\ U \ {Picked(U)} \notin Bad
    BY <1>1, <2>1, <2>2, PickedIn, SmallerSet
  <2>4. Picked(U) \in S
    BY <2>1, <2>2, PickedIn
  <2> QED BY <1>2, <2>1, <2>2, <2>3, <2>4 DEF TotalOf
<1> QED BY <1>3

\* One more update of one record is one more in all.
LEMMA TotalGrows ==
  ASSUME NEW r1, Counting(r1), NEW r2, Counting(r2), DOMAIN r1 = DOMAIN r2,
         NEW x \in DOMAIN r1,
         \A y \in DOMAIN r1 \ {x} : r2[y].update_count = r1[y].update_count,
         r2[x].update_count = r1[x].update_count + 1
  PROVE  TotalUpdates(r2) = TotalUpdates(r1) + 1
<1>1. PICK t1 : IsTotal(r1, t1) /\ TotalUpdates(r1) = t1[DOMAIN r1]
  BY TotalIsTotal
<1>2. PICK t2 : IsTotal(r2, t2) /\ TotalUpdates(r2) = t2[DOMAIN r1]
  BY TotalIsTotal
<1>3. t1[DOMAIN r1 \ {x}] = t2[DOMAIN r1 \ {x}]
  BY <1>1, <1>2, TotalsAgree
<1>4. /\ t1[DOMAIN r1] = r1[x].update_count + t1[DOMAIN r1 \ {x}]
      /\ t2[DOMAIN r1] = r2[x].update_count + t2[DOMAIN r1 \ {x}]
  BY <1>1, <1>2, TotalAdds
<1>5. t1[DOMAIN r1 \ {x}] \in Nat /\ r1[x].update_count \in Nat
  BY <1>1 DEF IsTotal, Counting
<1> QED BY <1>1, <1>2, <1>3, <1>4, <1>5

\* Records without updates do not count.
LEMMA TotalOfCounted ==
  ASSUME NEW r1, Counting(r1), NEW r2, Counting(r2), DOMAIN r2 \subseteq DOMAIN r1,
         \A x \in DOMAIN r2 : r1[x].update_count = r2[x].update_count,
         \A x \in DOMAIN r1 \ DOMAIN r2 : r1[x].update_count = 0
  PROVE  TotalUpdates(r1) = TotalUpdates(r2)
<1>1. PICK t1 : IsTotal(r1, t1) /\ TotalUpdates(r1) = t1[DOMAIN r1]
  BY TotalIsTotal
<1>2. PICK t2 : IsTotal(r2, t2) /\ TotalUpdates(r2) = t2[DOMAIN r2]
  BY TotalIsTotal
<1>3. t1[DOMAIN r2] = t2[DOMAIN r2]
  BY <1>1, <1>2, TotalsAgree
<1> DEFINE Bad == {U \in SUBSET DOMAIN r1 : DOMAIN r2 \subseteq U /\ t1[U] # t1[DOMAIN r2]}
<1>4. Bad = {}
  <2> SUFFICES ASSUME Bad # {} PROVE FALSE
    OBVIOUS
  <2>1. PICK U \in Bad : \A V \in Bad : Cardinality(U) <= Cardinality(V)
    BY SmallestSet DEF Counting
  <2>2. PICK x \in U : x \notin DOMAIN r2
    BY <2>1
  <2>3. t1[U] = r1[x].update_count + t1[U \ {x}]
    BY <1>1, <2>1, <2>2, TotalAdds
  <2>4. r1[x].update_count = 0 /\ t1[U \ {x}] \in Nat
    BY <1>1, <2>1, <2>2 DEF IsTotal
  <2>5. U \ {x} \in SUBSET DOMAIN r1 /\ U \ {x} \notin Bad /\ DOMAIN r2 \subseteq U \ {x}
    BY <2>1, <2>2, SmallerSet DEF Counting
  <2> QED BY <2>1, <2>3, <2>4, <2>5
<1> QED BY <1>1, <1>2, <1>3, <1>4

-----------------------------------------------------------------------------
(* Type correctness.                                                       *)

AlertEntry == [symbol : Symbols, sequence : Nat,
               kind : AlertKinds]

JournalEntry == [sequence : Nat, symbol : Symbols,
                 kind : {"Snapshot", "External", "Fundamentals", "FundamentalsCleared"},
                 payload : Snapshots \cup SignalPayload \cup Fundamentals \cup {None}]

\* The tape and alert rings after an operation on a symbol.
LEMMA RingsType ==
  ASSUME TypeOK, NEW s \in Symbols, NEW after \in SymbolState
  PROVE  /\ push_tape(s, after) =>
              /\ recent_tape' \in Seq([symbol : Symbols, row : Row])
              /\ Len(recent_tape') <= TAPE_CAPACITY
         /\ push_alerts(s, symbols[s], after) =>
              /\ recent_alerts' \in Seq(AlertEntry)
              /\ Len(recent_alerts') <= TAPE_CAPACITY
<1> DEFINE detail == build_detail(after)
           kind == AlertKind(symbols[s], after)
           alert == [symbol |-> s, kind |-> kind, sequence |-> after.last_sequence]
<1>1. ASSUME push_tape(s, after)
      PROVE  /\ recent_tape' \in Seq([symbol : Symbols, row : Row])
             /\ Len(recent_tape') <= TAPE_CAPACITY
  <2>1. CASE detail = None
    BY <1>1, <2>1 DEF push_tape, TypeOK
  <2>2. CASE detail # None
    <3>1. [symbol |-> s, row |-> detail] \in [symbol : Symbols, row : Row]
      BY <2>2, BuildDetailType
    <3>2. recent_tape' = PushRing(recent_tape, [symbol |-> s, row |-> detail], TAPE_CAPACITY)
      BY <1>1, <2>2 DEF push_tape
    <3> QED
      BY <3>1, <3>2, PushRingType, CapacityAssumption DEF TypeOK
  <2> QED
    BY <2>1, <2>2
<1>2. ASSUME push_alerts(s, symbols[s], after)
      PROVE  /\ recent_alerts' \in Seq(AlertEntry)
             /\ Len(recent_alerts') <= TAPE_CAPACITY
  <2>1. CASE kind = None
    BY <1>2, <2>1 DEF push_alerts, TypeOK, AlertEntry
  <2>2. CASE kind # None
    <3>1. alert \in AlertEntry
      BY <2>2 DEF AlertKind, AlertEntry, AlertKinds, SymbolState
    <3>2. recent_alerts' = PushRing(recent_alerts, alert, TAPE_CAPACITY)
      BY <1>2, <2>2 DEF push_alerts
    <3> QED
      BY <3>1, <3>2, PushRingType, CapacityAssumption DEF TypeOK, AlertEntry
  <2> QED
    BY <2>1, <2>2
<1> QED
  BY <1>1, <1>2

\* What Record writes, given a typed state and payload.
LEMMA RecordType ==
  ASSUME TypeOK, NEW s \in Symbols, NEW state \in SymbolState,
         NEW kind \in {"Snapshot", "External", "Fundamentals", "FundamentalsCleared"},
         NEW payload \in Snapshots \cup SignalPayload \cup Fundamentals \cup {None},
         Record(s, state, kind, payload)
  PROVE  /\ symbols' \in [Symbols -> SymbolState]
         /\ stored' \in [Symbols -> SymbolState]
         /\ sequence' \in Nat
         /\ journal' \in Seq(JournalEntry)
<1>1. [state EXCEPT !.last_sequence = sequence + 1, !.update_count = @ + 1] \in SymbolState
  <2>1. sequence + 1 \in Nat
    BY DEF TypeOK
  <2>2. state.update_count + 1 \in Nat
    BY DEF SymbolState
  <2> QED
    BY <2>1, <2>2 DEF SymbolState
<1>2. [sequence |-> sequence + 1, symbol |-> s, kind |-> kind, payload |-> payload]
        \in JournalEntry
  BY DEF JournalEntry, TypeOK
<1>3. journal \in Seq(JournalEntry)
  BY DEF TypeOK, JournalEntry
<1> QED
  BY <1>1, <1>2, <1>3, AppendProperties DEF Record, TypeOK

\* An operation that records and redraws preserves the type invariant.
LEMMA OperationType ==
  ASSUME TypeOK, NEW s \in Symbols, NEW state \in SymbolState,
         NEW kind \in {"Snapshot", "External", "Fundamentals", "FundamentalsCleared"},
         NEW payload \in Snapshots \cup SignalPayload \cup Fundamentals \cup {None},
         Record(s, state, kind, payload),
         \/ push_tape(s, symbols'[s]) /\ push_alerts(s, symbols[s], symbols'[s])
         \/ UNCHANGED <<recent_tape, recent_alerts>>
  PROVE  TypeOK'
<1>1. /\ symbols' \in [Symbols -> SymbolState] /\ stored' \in [Symbols -> SymbolState]
      /\ sequence' \in Nat /\ journal' \in Seq(JournalEntry)
  BY RecordType
<1>2. symbols'[s] \in SymbolState
  BY <1>1
<1>3. CASE push_tape(s, symbols'[s]) /\ push_alerts(s, symbols[s], symbols'[s])
  BY <1>1, <1>2, <1>3, RingsType DEF TypeOK, JournalEntry, AlertEntry
<1>4. CASE UNCHANGED <<recent_tape, recent_alerts>>
  BY <1>1, <1>4 DEF TypeOK, JournalEntry
<1> QED
  BY <1>3, <1>4

\* The type invariant holds in every behaviour, for all payloads and
\* capacities.
THEOREM TypeCorrect == Spec => []TypeOK
<1>1. Init => TypeOK
  <2> SUFFICES ASSUME Init PROVE TypeOK
    OBVIOUS
  <2>1. NoState \in SymbolState
    BY EmptySeq DEF NoState, SymbolState
  <2> QED
    BY <2>1, EmptySeq, CapacityAssumption DEF Init, TypeOK
<1>2. TypeOK /\ [Next]_vars => TypeOK'
  <2> SUFFICES ASSUME TypeOK, [Next]_vars PROVE TypeOK'
    OBVIOUS
  <2>1. ASSUME NEW s \in Symbols, NEW snapshot \in Snapshots, ingest_snapshot(s, snapshot)
        PROVE  TypeOK'
    <3> DEFINE point == [sequence |-> sequence + 1, price |-> snapshot.market_price_cents]
               history == PushRing(symbols[s].price_history, point, MAX_PRICE_HISTORY)
               state == [symbols[s] EXCEPT !.snapshot = snapshot, !.price_history = history]
    <3>1. point \in [sequence : Nat, price : Int]
      BY PayloadAssumption DEF TypeOK, SnapshotPayload
    <3>2. symbols[s] \in SymbolState
      BY DEF TypeOK
    <3>3. history \in Seq([sequence : Nat, price : Int])
      BY <3>1, <3>2, PushRingType, CapacityAssumption DEF SymbolState
    <3>4. state \in SymbolState
      BY <3>2, <3>3 DEF SymbolState
    <3>5. /\ Record(s, state, "Snapshot", snapshot)
          /\ push_tape(s, symbols'[s]) /\ push_alerts(s, symbols[s], symbols'[s])
      BY <2>1 DEF ingest_snapshot
    <3> QED
      BY <3>4, <3>5, OperationType
  <2>2. ASSUME NEW s \in Symbols, NEW signal \in Signals, ingest_external(s, signal)
        PROVE  TypeOK'
    <3> DEFINE sanitized == sanitize_external_signal(signal)
               state == [symbols[s] EXCEPT !.external_signal = sanitized]
    <3>1. sanitized \in SignalPayload
      BY SanitizeType, PayloadAssumption
    <3>2. state \in SymbolState
      BY <3>1 DEF TypeOK, SymbolState
    <3>3. /\ Record(s, state, "External", sanitized)
          /\ push_tape(s, symbols'[s]) /\ push_alerts(s, symbols[s], symbols'[s])
      BY <2>2 DEF ingest_external
    <3> QED
      BY <3>1, <3>2, <3>3, OperationType
  <2>3. ASSUME NEW s \in Symbols, NEW f \in Fundamentals, ingest_fundamentals(s, f)
        PROVE  TypeOK'
    <3> DEFINE state == [symbols[s] EXCEPT !.fundamentals = f]
    <3>1. state \in SymbolState
      BY DEF TypeOK, SymbolState
    <3> QED
      BY <2>3, <3>1, OperationType DEF ingest_fundamentals
  <2>4. ASSUME NEW s \in Symbols, clear_fundamentals(s)
        PROVE  TypeOK'
    <3> DEFINE state == [symbols[s] EXCEPT !.fundamentals = None]
    <3>1. state \in SymbolState
      BY DEF TypeOK, SymbolState
    <3> QED
      BY <2>4, <3>1, OperationType DEF clear_fundamentals
  <2>5. ASSUME NEW s \in StoredSymbols, persisted_symbol_state(s)
        PROVE  TypeOK'
    BY <2>5, PayloadAssumption DEF persisted_symbol_state, TypeOK
  <2>6. ASSUME NEW chosen \in SUBSET StoredSymbols, hydrate_from_persisted(chosen)
        PROVE  TypeOK'
    <3> DEFINE loaded == {s \in chosen : stored[s] # NoState}
    <3>1. NoState \in SymbolState
      BY EmptySeq DEF NoState, SymbolState
    <3>2. symbols' \in [Symbols -> SymbolState]
      BY <2>6, <3>1 DEF hydrate_from_persisted, TypeOK
    <3>3. sequence' \in {0} \cup {stored[s].last_sequence : s \in loaded}
      BY <2>6 DEF hydrate_from_persisted, ResumeNumbering
    <3>4. \A s \in loaded : stored[s].last_sequence \in Nat
      BY PayloadAssumption DEF TypeOK, SymbolState
    <3>5. sequence' \in Nat
      BY <3>3, <3>4
    <3>6. recent_tape' = <<>> /\ recent_alerts' = <<>> /\ journal' = <<>> /\ stored' = stored
      BY <2>6 DEF hydrate_from_persisted, ForgetSession
    <3> QED
      BY <3>2, <3>5, <3>6, EmptySeq, CapacityAssumption DEF TypeOK
  <2>7. CASE UNCHANGED vars
    BY <2>7 DEF TypeOK, vars
  <2> QED
    BY <2>1, <2>2, <2>3, <2>4, <2>5, <2>6, <2>7 DEF Next
<1> QED
  BY <1>1, <1>2, PTL DEF Spec

-----------------------------------------------------------------------------
(* Every step is one of three kinds: it journals an operation on one       *)
(* symbol, it starts a new session, or it leaves the session alone.        *)

Payload == Snapshots \cup SignalPayload \cup Fundamentals \cup {None}

Entry(s, kind, payload) ==
  [sequence |-> sequence + 1, symbol |-> s, kind |-> kind, payload |-> payload]

Journaled(s, kind, payload) ==
  /\ sequence' = sequence + 1
  /\ journal' = Append(journal, Entry(s, kind, payload))
  /\ \A t \in Symbols \ {s} : symbols'[t] = symbols[t]
  /\ symbols'[s] \in SymbolState
  /\ symbols'[s].last_sequence = sequence + 1
  /\ symbols'[s].snapshot = IF kind = "Snapshot" THEN payload ELSE symbols[s].snapshot
  /\ symbols'[s].external_signal =
       IF kind = "External" THEN payload ELSE symbols[s].external_signal
  /\ symbols'[s].fundamentals =
       IF kind \in {"Fundamentals", "FundamentalsCleared"} THEN payload
       ELSE symbols[s].fundamentals
  /\ symbols'[s].update_count = symbols[s].update_count + 1
  /\ total_events' = total_events + 1 /\ stored' = stored
  /\ kind = "Snapshot" => payload \in Snapshots /\ payload.intrinsic_value_cents > 0
  /\ IF kind \in {"Snapshot", "External"}
     THEN push_tape(s, symbols'[s]) /\ push_alerts(s, symbols[s], symbols'[s])
     ELSE UNCHANGED <<recent_tape, recent_alerts>>

NewSession == \E chosen \in SUBSET StoredSymbols : hydrate_from_persisted(chosen)

SameSession ==
  /\ UNCHANGED <<symbols, sequence, total_events, recent_tape, recent_alerts, journal>>
  /\ \A t \in Symbols : stored'[t] \in {stored[t], symbols[t]}

\* What Record does to the symbol it is given.
LEMMA RecordState ==
  ASSUME TypeOK, NEW s \in Symbols, NEW state \in SymbolState, NEW kind, NEW payload,
         Record(s, state, kind, payload)
  PROVE  /\ sequence' = sequence + 1
         /\ journal' = Append(journal, Entry(s, kind, payload))
         /\ \A t \in Symbols \ {s} : symbols'[t] = symbols[t]
         /\ symbols'[s] \in SymbolState
         /\ symbols'[s].last_sequence = sequence + 1
         /\ symbols'[s].snapshot = state.snapshot
         /\ symbols'[s].external_signal = state.external_signal
         /\ symbols'[s].fundamentals = state.fundamentals
         /\ symbols'[s].update_count = state.update_count + 1
         /\ total_events' = total_events + 1 /\ stored' = stored
<1> DEFINE recorded == [state EXCEPT !.last_sequence = sequence + 1, !.update_count = @ + 1]
<1>1. sequence + 1 \in Nat /\ state.update_count + 1 \in Nat
  BY DEF TypeOK, SymbolState
<1>2. /\ recorded \in SymbolState
      /\ recorded.last_sequence = sequence + 1 /\ recorded.snapshot = state.snapshot
      /\ recorded.external_signal = state.external_signal
      /\ recorded.fundamentals = state.fundamentals
      /\ recorded.update_count = state.update_count + 1
  BY <1>1 DEF SymbolState
<1>3. symbols' = [symbols EXCEPT ![s] = recorded]
  BY DEF Record
<1>4. symbols'[s] = recorded /\ \A t \in Symbols \ {s} : symbols'[t] = symbols[t]
  BY <1>3 DEF TypeOK
<1> QED
  BY <1>2, <1>4 DEF Record, Entry

LEMMA StepShape ==
  ASSUME TypeOK, [Next]_vars
  PROVE  \/ \E s \in Symbols, kind \in AllKinds, payload \in Payload :
              Journaled(s, kind, payload)
         \/ NewSession
         \/ SameSession
<1> DEFINE Goal == \/ \E s \in Symbols, kind \in AllKinds, payload \in Payload :
                         Journaled(s, kind, payload)
                   \/ NewSession
                   \/ SameSession
<1>1. ASSUME NEW s \in Symbols, NEW p \in Snapshots, ingest_snapshot(s, p)
      PROVE  Goal
  <2> DEFINE point == [sequence |-> sequence + 1, price |-> p.market_price_cents]
             history == PushRing(symbols[s].price_history, point, MAX_PRICE_HISTORY)
             state == [symbols[s] EXCEPT !.snapshot = p, !.price_history = history]
  <2>1. point \in [sequence : Nat, price : Int] /\ symbols[s] \in SymbolState
    BY PayloadAssumption DEF TypeOK, SnapshotPayload
  <2>2. history \in Seq([sequence : Nat, price : Int])
    BY <2>1, PushRingType, CapacityAssumption DEF SymbolState
  <2>3. /\ state \in SymbolState /\ state.snapshot = p
        /\ state.external_signal = symbols[s].external_signal
        /\ state.fundamentals = symbols[s].fundamentals
        /\ state.update_count = symbols[s].update_count
    BY <2>1, <2>2 DEF SymbolState
  <2>4. /\ Record(s, state, "Snapshot", p)
        /\ push_tape(s, symbols'[s]) /\ push_alerts(s, symbols[s], symbols'[s])
    BY <1>1 DEF ingest_snapshot
  <2>5. Journaled(s, "Snapshot", p)
    <3>0. p.intrinsic_value_cents > 0
      BY <1>1 DEF ingest_snapshot
    <3> HIDE DEF state
    <3>1. /\ sequence' = sequence + 1
          /\ journal' = Append(journal, Entry(s, "Snapshot", p))
          /\ \A t \in Symbols \ {s} : symbols'[t] = symbols[t]
          /\ symbols'[s] \in SymbolState
          /\ symbols'[s].last_sequence = sequence + 1
          /\ symbols'[s].snapshot = state.snapshot
          /\ symbols'[s].external_signal = state.external_signal
          /\ symbols'[s].fundamentals = state.fundamentals
          /\ symbols'[s].update_count = state.update_count + 1
          /\ total_events' = total_events + 1 /\ stored' = stored
      BY <2>3, <2>4, RecordState
    <3> QED
      BY <3>0, <3>1, <2>3, <2>4 DEF Journaled
  <2> QED
    BY <2>5 DEF Payload, AllKinds
<1>2. ASSUME NEW s \in Symbols, NEW p \in Signals, ingest_external(s, p)
      PROVE  Goal
  <2> DEFINE sanitized == sanitize_external_signal(p)
             state == [symbols[s] EXCEPT !.external_signal = sanitized]
  <2>1. sanitized \in SignalPayload /\ symbols[s] \in SymbolState
    BY SanitizeType, PayloadAssumption DEF TypeOK
  <2>2. /\ state \in SymbolState /\ state.snapshot = symbols[s].snapshot
        /\ state.external_signal = sanitized /\ state.fundamentals = symbols[s].fundamentals
        /\ state.update_count = symbols[s].update_count
    BY <2>1 DEF SymbolState
  <2>3. /\ Record(s, state, "External", sanitized)
        /\ push_tape(s, symbols'[s]) /\ push_alerts(s, symbols[s], symbols'[s])
    BY <1>2 DEF ingest_external
  <2>4. Journaled(s, "External", sanitized)
    <3> HIDE DEF state
    <3>1. /\ sequence' = sequence + 1
          /\ journal' = Append(journal, Entry(s, "External", sanitized))
          /\ \A t \in Symbols \ {s} : symbols'[t] = symbols[t]
          /\ symbols'[s] \in SymbolState
          /\ symbols'[s].last_sequence = sequence + 1
          /\ symbols'[s].snapshot = state.snapshot
          /\ symbols'[s].external_signal = state.external_signal
          /\ symbols'[s].fundamentals = state.fundamentals
          /\ symbols'[s].update_count = state.update_count + 1
          /\ total_events' = total_events + 1 /\ stored' = stored
      BY <2>2, <2>3, RecordState
    <3> QED
      BY <3>1, <2>2, <2>3 DEF Journaled
  <2> QED
    BY <2>1, <2>4 DEF Payload, AllKinds
<1>3. ASSUME NEW s \in Symbols, NEW f \in Fundamentals, ingest_fundamentals(s, f)
      PROVE  Goal
  <2> DEFINE state == [symbols[s] EXCEPT !.fundamentals = f]
  <2>1. /\ state \in SymbolState /\ state.snapshot = symbols[s].snapshot
        /\ state.external_signal = symbols[s].external_signal /\ state.fundamentals = f
        /\ state.update_count = symbols[s].update_count
    BY DEF TypeOK, SymbolState
  <2>2. Record(s, state, "Fundamentals", f) /\ UNCHANGED <<recent_tape, recent_alerts>>
    BY <1>3 DEF ingest_fundamentals
  <2>3. Journaled(s, "Fundamentals", f)
    <3> HIDE DEF state
    <3>1. /\ sequence' = sequence + 1
          /\ journal' = Append(journal, Entry(s, "Fundamentals", f))
          /\ \A t \in Symbols \ {s} : symbols'[t] = symbols[t]
          /\ symbols'[s] \in SymbolState
          /\ symbols'[s].last_sequence = sequence + 1
          /\ symbols'[s].snapshot = state.snapshot
          /\ symbols'[s].external_signal = state.external_signal
          /\ symbols'[s].fundamentals = state.fundamentals
          /\ symbols'[s].update_count = state.update_count + 1
          /\ total_events' = total_events + 1 /\ stored' = stored
      BY <2>1, <2>2, RecordState
    <3> QED
      BY <3>1, <2>1, <2>2 DEF Journaled
  <2> QED
    BY <2>3 DEF Payload, AllKinds
<1>4. ASSUME NEW s \in Symbols, clear_fundamentals(s)
      PROVE  Goal
  <2> DEFINE state == [symbols[s] EXCEPT !.fundamentals = None]
  <2>1. /\ state \in SymbolState /\ state.snapshot = symbols[s].snapshot
        /\ state.external_signal = symbols[s].external_signal /\ state.fundamentals = None
        /\ state.update_count = symbols[s].update_count
    BY DEF TypeOK, SymbolState
  <2>2. Record(s, state, "FundamentalsCleared", None)
          /\ UNCHANGED <<recent_tape, recent_alerts>>
    BY <1>4 DEF clear_fundamentals
  <2>3. Journaled(s, "FundamentalsCleared", None)
    <3> HIDE DEF state
    <3>1. /\ sequence' = sequence + 1
          /\ journal' = Append(journal, Entry(s, "FundamentalsCleared", None))
          /\ \A t \in Symbols \ {s} : symbols'[t] = symbols[t]
          /\ symbols'[s] \in SymbolState
          /\ symbols'[s].last_sequence = sequence + 1
          /\ symbols'[s].snapshot = state.snapshot
          /\ symbols'[s].external_signal = state.external_signal
          /\ symbols'[s].fundamentals = state.fundamentals
          /\ symbols'[s].update_count = state.update_count + 1
          /\ total_events' = total_events + 1 /\ stored' = stored
      BY <2>1, <2>2, RecordState
    <3> QED
      BY <3>1, <2>1, <2>2 DEF Journaled
  <2> QED
    BY <2>3 DEF Payload, AllKinds
<1>5. ASSUME NEW s \in StoredSymbols, persisted_symbol_state(s)
      PROVE  Goal
  BY <1>5 DEF persisted_symbol_state, SameSession, TypeOK
<1>6. ASSUME NEW chosen \in SUBSET StoredSymbols, hydrate_from_persisted(chosen)
      PROVE  Goal
  BY <1>6 DEF NewSession
<1>7. CASE UNCHANGED vars
  BY <1>7 DEF vars, SameSession
<1> QED
  BY <1>1, <1>2, <1>3, <1>4, <1>5, <1>6, <1>7 DEF Next

-----------------------------------------------------------------------------
(* The numbering of the journal.                                           *)

\* What the journal holds after one more entry.
LEMMA JournalGrows ==
  ASSUME TypeOK, NEW s \in Symbols, NEW kind \in AllKinds, NEW payload \in Payload,
         Journaled(s, kind, payload)
  PROVE  /\ Len(journal) \in Nat
         /\ Len(journal') = Len(journal) + 1
         /\ \A i \in 1 .. Len(journal) : journal'[i] = journal[i]
         /\ journal'[Len(journal) + 1] = Entry(s, kind, payload)
<1>1. journal \in Seq(JournalEntry) /\ sequence \in Nat
  BY DEF TypeOK, JournalEntry
<1>2. Entry(s, kind, payload) \in JournalEntry
  BY <1>1 DEF Entry, JournalEntry, AllKinds, Payload
<1> QED
  BY <1>1, <1>2, AppendProperties, LenProperties DEF Journaled

\* The journal is numbered without gap or repetition up to the session's
\* sequence, in every session.
THEOREM JournalContiguous == Spec => []JournalIsContiguous
<1>1. Init => JournalIsContiguous
  BY DEF Init, JournalIsContiguous
<1>2. TypeOK /\ JournalIsContiguous /\ [Next]_vars => JournalIsContiguous'
  <2> SUFFICES ASSUME TypeOK, JournalIsContiguous, [Next]_vars
               PROVE  JournalIsContiguous'
    OBVIOUS
  <2>1. ASSUME NEW s \in Symbols, NEW kind \in AllKinds, NEW payload \in Payload,
               Journaled(s, kind, payload)
        PROVE  JournalIsContiguous'
    <3>1. sequence \in Nat /\ sequence' = sequence + 1
      BY <2>1 DEF Journaled, TypeOK
    <3>2. Entry(s, kind, payload).sequence = sequence + 1
      BY DEF Entry
    <3>3. /\ Len(journal) \in Nat /\ Len(journal') = Len(journal) + 1
          /\ \A i \in 1 .. Len(journal) : journal'[i] = journal[i]
          /\ journal'[Len(journal) + 1] = Entry(s, kind, payload)
      BY <2>1, JournalGrows
    <3> SUFFICES ASSUME NEW i \in 1 .. Len(journal')
                 PROVE  journal'[i].sequence = sequence' - Len(journal') + i
      BY DEF JournalIsContiguous
    <3>4. CASE i \in 1 .. Len(journal)
      BY <3>1, <3>3, <3>4 DEF JournalIsContiguous
    <3>5. CASE i = Len(journal) + 1
      BY <3>1, <3>2, <3>3, <3>5
    <3> QED
      BY <3>3, <3>4, <3>5
  <2>2. CASE NewSession
    BY <2>2 DEF NewSession, hydrate_from_persisted, ForgetSession, JournalIsContiguous
  <2>3. CASE SameSession
    BY <2>3 DEF SameSession, JournalIsContiguous
  <2> QED
    BY <2>1, <2>2, <2>3, StepShape
<1> QED
  BY <1>1, <1>2, TypeCorrect, PTL DEF Spec

\* The session's sequence is the newest number of any symbol, in every
\* session, whichever records it was resumed from.
THEOREM SequenceNewest == Spec => []SequenceIsNewest
<1>1. Init => SequenceIsNewest
  BY DEF Init, SequenceIsNewest, NoState
<1>2. TypeOK /\ SequenceIsNewest /\ [Next]_vars => SequenceIsNewest'
  <2> SUFFICES ASSUME TypeOK, SequenceIsNewest, [Next]_vars
               PROVE  SequenceIsNewest'
    OBVIOUS
  <2>1. ASSUME NEW s \in Symbols, NEW kind \in AllKinds, NEW payload \in Payload,
               Journaled(s, kind, payload)
        PROVE  SequenceIsNewest'
    <3>1. /\ symbols'[s].last_sequence = sequence + 1
          /\ \A t \in Symbols \ {s} : symbols'[t] = symbols[t]
          /\ sequence' = sequence + 1 /\ sequence \in Nat
      BY <2>1 DEF Journaled, TypeOK
    <3>2. \A t \in Symbols : symbols[t].last_sequence \in Nat
      BY DEF TypeOK, SymbolState
    <3> QED
      BY <3>1, <3>2 DEF SequenceIsNewest
  <2>2. ASSUME NEW chosen \in SUBSET StoredSymbols, hydrate_from_persisted(chosen)
        PROVE  SequenceIsNewest'
    <3> DEFINE loaded == {s \in chosen : stored[s] # NoState}
    <3>1. /\ \A s \in Symbols : symbols'[s] = IF s \in loaded THEN stored[s] ELSE NoState
          /\ sequence' \in {0} \cup {stored[s].last_sequence : s \in loaded}
          /\ \A s \in loaded : stored[s].last_sequence <= sequence'
      BY <2>2 DEF hydrate_from_persisted, ResumeNumbering
    <3>2. loaded \subseteq Symbols
      BY PayloadAssumption
    <3>3. \A s \in loaded : stored[s].last_sequence \in Nat
      BY <3>2 DEF TypeOK, SymbolState
    <3>4. 0 <= sequence'
      BY <3>1, <3>3
    <3>5. \A s \in Symbols : symbols'[s].last_sequence <= sequence'
      BY <3>1, <3>4 DEF NoState
    <3>6. sequence' = 0 \/ \E s \in Symbols : symbols'[s].last_sequence = sequence'
      BY <3>1, <3>2
    <3> QED
      BY <3>5, <3>6 DEF SequenceIsNewest
  <2>3. CASE SameSession
    BY <2>3 DEF SameSession, SequenceIsNewest
  <2> QED
    BY <2>1, <2>2, <2>3, StepShape DEF NewSession
<1> QED
  BY <1>1, <1>2, TypeCorrect, PTL DEF Spec

\* The journal and the symbols agree on the numbering, in every session.
THEOREM NumberingWhole == Spec => []NumberingAgrees
<1>1. JournalIsContiguous /\ SequenceIsNewest => NumberingAgrees
  BY DEF NumberingAgrees
<1> QED
  BY <1>1, JournalContiguous, SequenceNewest, PTL

-----------------------------------------------------------------------------
(* The views of the event stream.                                          *)

\* Replaying the journal gives the live state, in every field of a symbol.
THEOREM JournalExplains == Spec => []JournalExplainsSymbols
<1>1. Init => JournalExplainsSymbols
  BY DEF Init, JournalExplainsSymbols
<1>2. TypeOK /\ JournalExplainsSymbols /\ [Next]_vars => JournalExplainsSymbols'
  <2> SUFFICES ASSUME TypeOK, JournalExplainsSymbols, [Next]_vars
               PROVE  JournalExplainsSymbols'
    OBVIOUS
  <2>1. ASSUME NEW s \in Symbols, NEW kind \in AllKinds, NEW payload \in Payload,
               Journaled(s, kind, payload)
        PROVE  JournalExplainsSymbols'
    <3> DEFINE n == Len(journal)
    <3>1. /\ n \in Nat /\ Len(journal') = n + 1
          /\ \A i \in 1 .. n : journal'[i] = journal[i]
          /\ journal'[n + 1] = Entry(s, kind, payload)
      BY <2>1, JournalGrows
    <3>2. /\ \A t \in Symbols \ {s} : symbols'[t] = symbols[t]
          /\ symbols'[s].last_sequence = sequence + 1
          /\ symbols'[s].snapshot = IF kind = "Snapshot" THEN payload ELSE symbols[s].snapshot
          /\ symbols'[s].external_signal =
               IF kind = "External" THEN payload ELSE symbols[s].external_signal
          /\ symbols'[s].fundamentals =
               IF kind \in {"Fundamentals", "FundamentalsCleared"} THEN payload
               ELSE symbols[s].fundamentals
      BY <2>1 DEF Journaled
    <3>3. \A i \in 1 .. n : journal[i].symbol \in Symbols
      <4>1. journal \in Seq(JournalEntry)
        BY DEF TypeOK, JournalEntry
      <4>2. \A i \in 1 .. n : journal[i] \in JournalEntry
        BY <4>1, ElementOfSeq
      <4> QED
        BY <4>2 DEF JournalEntry
    <3> HIDE DEF n
    <3> SUFFICES ASSUME NEW i \in 1 .. n + 1
                 PROVE  /\ IsLatest(i, {"Snapshot"})' =>
                             symbols'[journal'[i].symbol].snapshot = journal'[i].payload
                        /\ IsLatest(i, {"External"})' =>
                             symbols'[journal'[i].symbol].external_signal = journal'[i].payload
                        /\ IsLatest(i, {"Fundamentals", "FundamentalsCleared"})' =>
                             symbols'[journal'[i].symbol].fundamentals = journal'[i].payload
                        /\ IsLatest(i, AllKinds)' =>
                             symbols'[journal'[i].symbol].last_sequence = journal'[i].sequence
      BY <3>1 DEF JournalExplainsSymbols
    <3>4. CASE i = n + 1
      BY <3>1, <3>2, <3>4 DEF IsLatest, Entry
    <3>5. CASE i \in 1 .. n
      <4>1. ASSUME NEW kinds, IsLatest(i, kinds)'
            PROVE  IsLatest(i, kinds) /\ (kind \in kinds => journal[i].symbol # s)
        <5>1. \A j \in i + 1 .. n : j \in 1 .. n /\ j \in i + 1 .. n + 1
          BY <3>1, <3>5
        <5>2. n + 1 \in i + 1 .. n + 1
          BY <3>1, <3>5
        <5>3. /\ journal'[i].kind \in kinds
              /\ \A j \in i + 1 .. n + 1 :
                   journal'[j].kind \in kinds => journal'[j].symbol # journal'[i].symbol
          BY <3>1, <4>1 DEF IsLatest
        <5>4. \A j \in i + 1 .. n : journal[j].kind \in kinds => journal[j].symbol # journal[i].symbol
          BY <3>1, <3>5, <5>1, <5>3
        <5>5. journal[i].kind \in kinds
          BY <3>1, <3>5, <5>3
        <5>6. IsLatest(i, kinds)
          BY <5>4, <5>5 DEF IsLatest, n
        <5>7. kind \in kinds => journal[i].symbol # s
          BY <3>1, <3>5, <5>2, <5>3 DEF Entry
        <5> QED
          BY <5>6, <5>7
      <4> DEFINE t == journal[i].symbol
      <4>2. t \in Symbols /\ journal'[i] = journal[i]
        BY <3>1, <3>3, <3>5
      <4>3. /\ IsLatest(i, {"Snapshot"}) => symbols[t].snapshot = journal[i].payload
            /\ IsLatest(i, {"External"}) => symbols[t].external_signal = journal[i].payload
            /\ IsLatest(i, {"Fundamentals", "FundamentalsCleared"}) =>
                 symbols[t].fundamentals = journal[i].payload
            /\ IsLatest(i, AllKinds) => symbols[t].last_sequence = journal[i].sequence
        BY <3>5 DEF JournalExplainsSymbols, n
      <4> HIDE DEF t
      <4>4. ASSUME IsLatest(i, {"Snapshot"})'
            PROVE  symbols'[t].snapshot = journal[i].payload
        <5>1. IsLatest(i, {"Snapshot"}) /\ (kind = "Snapshot" => t # s)
          BY <4>1, <4>4 DEF t
        <5> QED
          BY <3>2, <4>2, <4>3, <5>1
      <4>5. ASSUME IsLatest(i, {"External"})'
            PROVE  symbols'[t].external_signal = journal[i].payload
        <5>1. IsLatest(i, {"External"}) /\ (kind = "External" => t # s)
          BY <4>1, <4>5 DEF t
        <5> QED
          BY <3>2, <4>2, <4>3, <5>1
      <4>6. ASSUME IsLatest(i, {"Fundamentals", "FundamentalsCleared"})'
            PROVE  symbols'[t].fundamentals = journal[i].payload
        <5>1. /\ IsLatest(i, {"Fundamentals", "FundamentalsCleared"})
              /\ kind \in {"Fundamentals", "FundamentalsCleared"} => t # s
          BY <4>1, <4>6 DEF t
        <5> QED
          BY <3>2, <4>2, <4>3, <5>1
      <4>7. ASSUME IsLatest(i, AllKinds)'
            PROVE  symbols'[t].last_sequence = journal[i].sequence
        <5>1. IsLatest(i, AllKinds) /\ t # s
          BY <4>1, <4>7 DEF t
        <5> QED
          BY <3>2, <4>2, <4>3, <5>1
      <4> QED
        BY <4>2, <4>4, <4>5, <4>6, <4>7 DEF t
    <3> QED
      BY <3>1, <3>4, <3>5
  <2>2. CASE NewSession
    BY <2>2 DEF NewSession, hydrate_from_persisted, ForgetSession, JournalExplainsSymbols
  <2>3. CASE SameSession
    BY <2>3 DEF SameSession, JournalExplainsSymbols, IsLatest
  <2> QED
    BY <2>1, <2>2, <2>3, StepShape
<1> QED
  BY <1>1, <1>2, TypeCorrect, PTL DEF Spec

-----------------------------------------------------------------------------
(* The rings.                                                              *)

\* A push drops at most the oldest entry and puts the new one last.
LEMMA PushRingShape ==
  ASSUME NEW S, NEW ring \in Seq(S), NEW e \in S, NEW capacity \in Nat \ {0},
         Len(ring) <= capacity, NEW new, new = PushRing(ring, e, capacity)
  PROVE  /\ Len(ring) \in Nat
         /\ \E d \in {0, 1} :
              /\ Len(new) = Len(ring) - d + 1 /\ Len(ring) - d \in Nat
              /\ \A i \in 1 .. Len(ring) - d : new[i] = ring[i + d]
              /\ new[Len(ring) - d + 1] = e
<1>0. Len(ring) \in Nat
  BY LenProperties
<1>1. CASE Len(ring) = capacity
  <2>1. ring # <<>>
    BY <1>1, EmptySeq
  <2>2. /\ Tail(ring) \in Seq(S) /\ Len(Tail(ring)) = Len(ring) - 1
        /\ \A i \in 1 .. Len(Tail(ring)) : Tail(ring)[i] = ring[i + 1]
    BY <2>1, HeadTailProperties
  <2>3. new = Append(Tail(ring), e)
    BY <1>1 DEF PushRing
  <2>4. /\ Len(new) = Len(ring) - 1 + 1 /\ Len(ring) - 1 \in Nat
        /\ \A i \in 1 .. Len(ring) - 1 : new[i] = ring[i + 1]
        /\ new[Len(ring) - 1 + 1] = e
    BY <1>0, <1>1, <2>2, <2>3, AppendProperties
  <2> QED BY <1>0, <2>4
<1>2. CASE Len(ring) # capacity
  <2>1. new = Append(ring, e)
    BY <1>2 DEF PushRing
  <2>2. /\ Len(new) = Len(ring) - 0 + 1 /\ Len(ring) - 0 \in Nat
        /\ \A i \in 1 .. Len(ring) - 0 : new[i] = ring[i + 0]
        /\ new[Len(ring) - 0 + 1] = e
    BY <1>0, <2>1, AppendProperties
  <2> QED BY <1>0, <2>2
<1> QED BY <1>1, <1>2

\* A row depends on the snapshot and the signal alone.
LEMMA SameDetail ==
  ASSUME NEW a, NEW b, a.snapshot = b.snapshot, a.external_signal = b.external_signal
  PROVE  /\ build_detail(a) = build_detail(b)
         /\ Qualified(a) = Qualified(b) /\ HighConfidence(a) = HighConfidence(b)
  BY DEF build_detail, Qualified, HighConfidence

-----------------------------------------------------------------------------
(* The tape.                                                               *)

\* A symbol on the tape has a row, and the newest on the tape is that row.
TapeInv ==
  \A i \in 1 .. Len(recent_tape) :
    LET s == recent_tape[i].symbol
    IN  /\ s \in Symbols /\ symbols[s].snapshot # None
        /\ (\A j \in i + 1 .. Len(recent_tape) : recent_tape[j].symbol # s)
             => recent_tape[i].row = build_detail(symbols[s])

LEMMA TapePush ==
  ASSUME TypeOK, TapeInv, NEW s \in Symbols, NEW kind \in AllKinds, NEW payload \in Payload,
         Journaled(s, kind, payload), push_tape(s, symbols'[s])
  PROVE  TapeInv'
<1>1. /\ \A t \in Symbols \ {s} : symbols'[t] = symbols[t]
      /\ symbols'[s] \in SymbolState
      /\ symbols'[s].snapshot # symbols[s].snapshot => symbols'[s].snapshot \in Snapshots
  BY DEF Journaled
<1>2. symbols[s].snapshot # None => symbols'[s].snapshot # None
  BY <1>1, PayloadAssumption
<1> DEFINE detail == build_detail(symbols'[s])
           entry == [symbol |-> s, row |-> detail]
<1>3. CASE detail = None
  <2>1. recent_tape' = recent_tape
    BY <1>3 DEF push_tape
  <2>2. symbols'[s].snapshot = None
    <3>1. ASSUME symbols'[s].snapshot # None PROVE FALSE
      <4> DEFINE p == symbols'[s].snapshot
                 row == [gap |-> gap_bps(p.market_price_cents, p.intrinsic_value_cents),
                         qualification |-> qualification_for(p),
                         confidence |-> confidence_for(qualification_for(p),
                           external_status_for(p, symbols'[s].external_signal))]
      <4>1. row = None
        BY <1>3, <3>1 DEF build_detail
      <4>2. p.market_price_cents \in Int /\ p.intrinsic_value_cents \in Int
        BY <1>1, <3>1, PayloadAssumption DEF SymbolState, SnapshotPayload
      <4>3. row \in Row
        BY <4>2, GapIsInt DEF Row, qualification_for, confidence_for
      <4> QED BY <4>1, <4>3, AbsentAssumption
    <3> QED BY <3>1
  <2> QED BY <1>1, <1>2, <2>1, <2>2 DEF TapeInv
<1>4. CASE TAPE_CAPACITY = 0
  <2>1. recent_tape' = recent_tape /\ Len(recent_tape) = 0
    BY <1>4, LenProperties DEF push_tape, PushRing, TypeOK
  <2> QED BY <2>1 DEF TapeInv
<1>5. CASE detail # None /\ TAPE_CAPACITY # 0
  <2>1. entry \in [symbol : Symbols, row : Row]
    BY <1>1, <1>5, BuildDetailType
  <2>2. /\ recent_tape \in Seq([symbol : Symbols, row : Row])
        /\ Len(recent_tape) <= TAPE_CAPACITY /\ TAPE_CAPACITY \in Nat \ {0}
        /\ recent_tape' = PushRing(recent_tape, entry, TAPE_CAPACITY)
    BY <1>5, CapacityAssumption DEF TypeOK, push_tape
  <2>3. symbols'[s].snapshot # None
    BY <1>5 DEF build_detail
  <2>4. /\ entry.symbol = s /\ entry.row = build_detail(symbols'[s])
    OBVIOUS
  <2> HIDE DEF entry
  <2>5. /\ Len(recent_tape) \in Nat
        /\ \E d \in {0, 1} :
             /\ Len(recent_tape') = Len(recent_tape) - d + 1 /\ Len(recent_tape) - d \in Nat
             /\ \A i \in 1 .. Len(recent_tape) - d : recent_tape'[i] = recent_tape[i + d]
             /\ recent_tape'[Len(recent_tape) - d + 1] = entry
    <3> DEFINE S == [symbol : Symbols, row : Row]
    <3>1. recent_tape \in Seq(S) /\ entry \in S
      BY <2>1, <2>2
    <3> HIDE DEF S
    <3>2. PICK new : new = PushRing(recent_tape, entry, TAPE_CAPACITY)
      OBVIOUS
    <3>3. recent_tape' = new /\ Len(recent_tape) <= TAPE_CAPACITY /\ TAPE_CAPACITY \in Nat \ {0}
      BY <2>2, <3>2
    <3> QED BY <3>1, <3>2, <3>3, PushRingShape
  <2>6. PICK d \in {0, 1} :
          /\ Len(recent_tape') = Len(recent_tape) - d + 1 /\ Len(recent_tape) - d \in Nat
          /\ \A i \in 1 .. Len(recent_tape) - d : recent_tape'[i] = recent_tape[i + d]
          /\ recent_tape'[Len(recent_tape) - d + 1] = entry
    BY <2>5
  <2> DEFINE n == Len(recent_tape) - d
  <2>7. n \in Nat /\ Len(recent_tape') = n + 1 /\ Len(recent_tape) = n + d
        /\ (\A i \in 1 .. n : recent_tape'[i] = recent_tape[i + d])
        /\ recent_tape'[n + 1] = entry
    BY <2>5, <2>6
  <2> HIDE DEF n
  <2> SUFFICES ASSUME NEW i \in 1 .. n + 1
               PROVE  LET t == recent_tape'[i].symbol
                      IN  /\ t \in Symbols /\ symbols'[t].snapshot # None
                          /\ (\A j \in i + 1 .. n + 1 : recent_tape'[j].symbol # t)
                               => recent_tape'[i].row = build_detail(symbols'[t])
    BY <2>7 DEF TapeInv
  <2>8. CASE i = n + 1
    BY <2>3, <2>4, <2>7, <2>8
  <2>9. CASE i \in 1 .. n
    <3> DEFINE t == recent_tape[i + d].symbol
    <3>0. d \in Nat
      OBVIOUS
    <3>1. recent_tape'[i] = recent_tape[i + d] /\ i + d \in 1 .. Len(recent_tape)
      BY <2>7, <2>9, <3>0
    <3>2. t \in Symbols /\ symbols[t].snapshot # None
      BY <3>1 DEF TapeInv
    <3>3. symbols'[t].snapshot # None
      BY <1>1, <1>2, <3>2
    <3>4. ASSUME \A j \in i + 1 .. n + 1 : recent_tape'[j].symbol # t
          PROVE  recent_tape[i + d].row = build_detail(symbols'[t])
      <4>1. t # s
        <5>1. n + 1 \in i + 1 .. n + 1
          BY <2>7, <2>9
        <5> QED BY <2>4, <2>7, <3>4, <5>1
      <4>2. ASSUME NEW j \in (i + d) + 1 .. Len(recent_tape)
            PROVE  recent_tape[j].symbol # t
        <5>1. j - d \in 1 .. n /\ j - d \in i + 1 .. n + 1 /\ (j - d) + d = j
          BY <2>7, <2>9
        <5>2. recent_tape'[j - d] = recent_tape[j]
          BY <2>7, <5>1
        <5> QED BY <3>4, <5>1, <5>2
      <4>3. recent_tape[i + d].row = build_detail(symbols[t])
        BY <3>1, <4>2 DEF TapeInv
      <4> QED BY <1>1, <3>2, <4>1, <4>3
    <3> QED BY <3>1, <3>2, <3>3, <3>4
  <2> QED BY <2>7, <2>8, <2>9
<1> QED BY <1>3, <1>4, <1>5

LEMMA TapeStep ==
  ASSUME TypeOK, TapeInv, [Next]_vars
  PROVE  TapeInv'
<1>1. ASSUME NEW s \in Symbols, NEW kind \in AllKinds, NEW payload \in Payload,
             Journaled(s, kind, payload)
      PROVE  TapeInv'
  <2>1. CASE kind \in {"Snapshot", "External"}
    BY <1>1, <2>1, TapePush DEF Journaled
  <2>2. CASE kind \notin {"Snapshot", "External"}
    <3>1. /\ UNCHANGED recent_tape
          /\ \A t \in Symbols \ {s} : symbols'[t] = symbols[t]
          /\ symbols'[s].snapshot = symbols[s].snapshot
          /\ symbols'[s].external_signal = symbols[s].external_signal
      BY <1>1, <2>2 DEF Journaled
    <3>2. \A t \in Symbols : /\ symbols'[t].snapshot = symbols[t].snapshot
                             /\ build_detail(symbols'[t]) = build_detail(symbols[t])
      BY <3>1, SameDetail
    <3> QED BY <3>1, <3>2 DEF TapeInv
  <2> QED BY <2>1, <2>2
<1>2. CASE NewSession
  BY <1>2 DEF NewSession, hydrate_from_persisted, ForgetSession, TapeInv
<1>3. CASE SameSession
  BY <1>3 DEF SameSession, TapeInv
<1> QED BY <1>1, <1>2, <1>3, StepShape

\* The newest row of a symbol on the tape is its row, in every session.
THEOREM TapeCurrent == Spec => []TapeShowsCurrentRow
<1>1. Init => TapeInv
  BY DEF Init, TapeInv
<1>2. TypeOK /\ TapeInv /\ [Next]_vars => TapeInv'
  BY TapeStep
<1>3. TapeInv => TapeShowsCurrentRow
  BY DEF TapeInv, TapeShowsCurrentRow
<1> QED BY <1>1, <1>2, <1>3, TypeCorrect, PTL DEF Spec

-----------------------------------------------------------------------------
(* The counts.                                                             *)

LEMMA CountStep ==
  ASSUME TypeOK, TypeOK', CountsAgree, [Next]_vars
  PROVE  CountsAgree'
<1>1. ASSUME NEW r, NEW S \in SUBSET Symbols, DOMAIN r = S, \A s \in S : r[s] \in SymbolState
      PROVE  Counting(r)
  BY <1>1, SymbolsAssumption, FS_Subset DEF Counting, SymbolState
<1>2. /\ DOMAIN symbols = Symbols /\ DOMAIN symbols' = Symbols
      /\ Counting(symbols) /\ Counting(symbols')
  BY <1>1 DEF TypeOK
<1>3. ASSUME NEW s \in Symbols, NEW kind \in AllKinds, NEW payload \in Payload,
             Journaled(s, kind, payload)
      PROVE  CountsAgree'
  <2>1. /\ \A t \in Symbols \ {s} : symbols'[t].update_count = symbols[t].update_count
        /\ symbols'[s].update_count = symbols[s].update_count + 1
        /\ total_events' = total_events + 1
    BY <1>3 DEF Journaled
  <2>2. TotalUpdates(symbols') = TotalUpdates(symbols) + 1
    BY <1>2, <2>1, TotalGrows
  <2> QED BY <2>1, <2>2 DEF CountsAgree
<1>4. ASSUME NEW chosen \in SUBSET StoredSymbols, hydrate_from_persisted(chosen)
      PROVE  CountsAgree'
  <2> DEFINE loaded == {s \in chosen : stored[s] # NoState}
             restored == [s \in loaded |-> stored[s]]
  <2>1. loaded \in SUBSET Symbols /\ DOMAIN restored = loaded
    BY PayloadAssumption
  <2>2. \A s \in loaded : restored[s] = stored[s] /\ stored[s] \in SymbolState
    BY <2>1 DEF TypeOK
  <2>3. total_events' = TotalUpdates(restored)
    BY <1>4 DEF hydrate_from_persisted, ResumeCounts
  <2>4. \A s \in Symbols : symbols'[s] = IF s \in loaded THEN stored[s] ELSE NoState
    BY <1>4 DEF hydrate_from_persisted
  <2> HIDE DEF loaded, restored
  <2>5. Counting(restored)
    BY <1>1, <2>1, <2>2
  <2>6. /\ \A s \in loaded : symbols'[s].update_count = restored[s].update_count
        /\ \A s \in Symbols \ loaded : symbols'[s].update_count = 0
    BY <2>1, <2>2, <2>4 DEF NoState
  <2>7. TotalUpdates(symbols') = TotalUpdates(restored)
    BY <1>2, <2>1, <2>5, <2>6, TotalOfCounted
  <2> QED BY <2>3, <2>7 DEF CountsAgree
<1>5. CASE SameSession
  BY <1>5 DEF SameSession, CountsAgree
<1> QED BY <1>3, <1>4, <1>5, StepShape DEF NewSession

\* The count of events is the sum of the symbols' updates, over all sessions
\* whose records were restored.
THEOREM CountsRight == Spec => []CountsAgree
<1>1. Init => CountsAgree
  <2> SUFFICES ASSUME Init PROVE CountsAgree
    OBVIOUS
  <2> DEFINE nobody == [s \in {} |-> NoState]
  <2>1. DOMAIN nobody = {} /\ Counting(nobody)
    BY FS_EmptySet DEF Counting
  <2> HIDE DEF nobody
  <2>2. /\ DOMAIN symbols = Symbols /\ Counting(symbols)
        /\ \A s \in Symbols : symbols[s].update_count = 0
    BY SymbolsAssumption DEF Init, NoState, Counting
  <2>3. TotalUpdates(symbols) = TotalUpdates(nobody)
    BY <2>1, <2>2, TotalOfCounted
  <2>4. PICK total : IsTotal(nobody, total) /\ TotalUpdates(nobody) = total[DOMAIN nobody]
    BY <2>1, TotalIsTotal
  <2>5. total[{}] = 0
    BY <2>1, <2>4 DEF IsTotal, TotalOf
  <2> QED BY <2>1, <2>3, <2>4, <2>5 DEF CountsAgree, Init
<1>2. TypeOK /\ TypeOK' /\ CountsAgree /\ [Next]_vars => CountsAgree'
  BY CountStep
<1> QED BY <1>1, <1>2, TypeCorrect, PTL DEF Spec

\* The screen agrees with the symbols, in every session.
THEOREM ScreenRight == Spec => []ScreenAgrees
<1>1. TapeShowsCurrentRow /\ CountsAgree => ScreenAgrees
  BY DEF ScreenAgrees
<1> QED BY <1>1, TapeCurrent, CountsRight, PTL

-----------------------------------------------------------------------------
(* The alerts.                                                             *)

\* No alert is numbered ahead of the session, and the ring tells its story.
AlertInv ==
  /\ \A i \in 1 .. Len(recent_alerts) : recent_alerts[i].sequence <= sequence
  /\ AlertsFollowQualification

LEMMA AlertPush ==
  ASSUME TypeOK, AlertInv, NEW s \in Symbols, NEW kind \in AllKinds, NEW payload \in Payload,
         Journaled(s, kind, payload), push_alerts(s, symbols[s], symbols'[s])
  PROVE  AlertInv'
<1> DEFINE raised == AlertKind(symbols[s], symbols'[s])
           alert == [symbol |-> s, kind |-> raised, sequence |-> sequence + 1]
<1>1. /\ \A t \in Symbols \ {s} : symbols'[t] = symbols[t]
      /\ symbols'[s].last_sequence = sequence + 1
      /\ sequence \in Nat /\ sequence' = sequence + 1
  BY DEF Journaled, TypeOK
<1>2. recent_alerts \in Seq(AlertEntry) /\ Len(recent_alerts) <= TAPE_CAPACITY
      /\ Len(recent_alerts) \in Nat
  BY LenProperties DEF TypeOK, AlertEntry
<1>3. \A i \in 1 .. Len(recent_alerts) :
        /\ recent_alerts[i].symbol \in Symbols /\ recent_alerts[i].sequence \in Nat
        /\ recent_alerts[i].sequence <= sequence
  <2>1. \A i \in 1 .. Len(recent_alerts) : recent_alerts[i] \in AlertEntry
    BY <1>2, ElementOfSeq
  <2> QED BY <2>1 DEF AlertInv, AlertEntry
<1>4. /\ raised = None => (Qualified(symbols[s]) <=> Qualified(symbols'[s]))
      /\ raised \in AlertKinds =>
           /\ raised # "ExitedQualified" <=> Qualified(symbols'[s])
           /\ raised = "EnteredQualified" <=> ~Qualified(symbols[s])
  <2>1. CASE Qualified(symbols[s]) /\ Qualified(symbols'[s])
    <3>1. raised \in {"ConfidenceUpgraded", None}
      BY <2>1 DEF AlertKind
    <3> HIDE DEF raised
    <3>2. raised # "EnteredQualified" /\ raised # "ExitedQualified"
      BY <3>1, AbsentAssumption DEF AlertKinds
    <3> QED BY <2>1, <3>2
  <2>2. CASE Qualified(symbols[s]) /\ ~Qualified(symbols'[s])
    <3>1. raised = "ExitedQualified"
      BY <2>2 DEF AlertKind
    <3> HIDE DEF raised
    <3>2. raised # "EnteredQualified" /\ raised # None
      BY <3>1, AbsentAssumption DEF AlertKinds
    <3> QED BY <2>2, <3>1, <3>2
  <2>3. CASE ~Qualified(symbols[s]) /\ Qualified(symbols'[s])
    <3>1. raised = "EnteredQualified"
      BY <2>3 DEF AlertKind
    <3> HIDE DEF raised
    <3>2. raised # "ExitedQualified" /\ raised # None
      BY <3>1, AbsentAssumption DEF AlertKinds
    <3> QED BY <2>3, <3>1, <3>2
  <2>4. CASE ~Qualified(symbols[s]) /\ ~Qualified(symbols'[s])
    <3>1. raised = None
      BY <2>4 DEF AlertKind
    <3> HIDE DEF raised
    <3>2. raised \notin AlertKinds
      BY <3>1, AbsentAssumption
    <3> QED BY <2>4, <3>1, <3>2
  <2> QED BY <2>1, <2>2, <2>3, <2>4
<1>5. raised = None \/ raised \in AlertKinds
  BY DEF AlertKind, AlertKinds
<1>6. raised = None => recent_alerts' = recent_alerts
  BY DEF push_alerts
<1>7. raised # None => recent_alerts' = PushRing(recent_alerts, alert, TAPE_CAPACITY)
  BY <1>1 DEF push_alerts
<1> HIDE DEF raised
<1>8. CASE raised = None
  <2>1. recent_alerts' = recent_alerts /\ sequence <= sequence'
    BY <1>1, <1>6, <1>8
  <2>2. \A i \in 1 .. Len(recent_alerts) : recent_alerts[i].sequence <= sequence'
    BY <1>1, <1>3
  <2>3. \A t \in Symbols : Qualified(symbols'[t]) <=> Qualified(symbols[t])
    BY <1>1, <1>4, <1>8
  <2>4. AlertsFollowQualification'
    BY <1>3, <2>1, <2>3 DEF AlertInv, AlertsFollowQualification, QuietBetween, Inside
  <2> QED BY <2>1, <2>2, <2>4 DEF AlertInv
<1>9. CASE TAPE_CAPACITY = 0
  <2>1. recent_alerts' = recent_alerts /\ Len(recent_alerts) = 0
    BY <1>2, <1>6, <1>7, <1>9 DEF PushRing
  <2> QED BY <2>1 DEF AlertInv, AlertsFollowQualification
<1>10. CASE raised # None /\ TAPE_CAPACITY # 0
  <2>1. /\ raised # "ExitedQualified" <=> Qualified(symbols'[s])
        /\ raised = "EnteredQualified" <=> ~Qualified(symbols[s])
    BY <1>4, <1>5, <1>10
  <2>2. /\ alert.symbol = s /\ alert.kind = raised /\ alert.sequence = sequence + 1
        /\ alert \in AlertEntry
    BY <1>1, <1>5, <1>10 DEF AlertEntry
  <2>3. recent_alerts' = PushRing(recent_alerts, alert, TAPE_CAPACITY)
    BY <1>7, <1>10
  <2> HIDE DEF alert
  <2>4. TAPE_CAPACITY \in Nat \ {0}
    BY <1>10, CapacityAssumption
  <2>5. PICK d \in {0, 1} :
          /\ Len(recent_alerts') = Len(recent_alerts) - d + 1 /\ Len(recent_alerts) - d \in Nat
          /\ \A i \in 1 .. Len(recent_alerts) - d : recent_alerts'[i] = recent_alerts[i + d]
          /\ recent_alerts'[Len(recent_alerts) - d + 1] = alert
    <3>1. PICK new : new = PushRing(recent_alerts, alert, TAPE_CAPACITY)
      OBVIOUS
    <3>2. recent_alerts' = new
      BY <2>3, <3>1
    <3> QED BY <1>2, <2>2, <2>4, <3>1, <3>2, PushRingShape
  <2>6. PICK n \in Nat :
        /\ Len(recent_alerts') = n + 1 /\ Len(recent_alerts) = n + d /\ d \in Nat
        /\ (\A i \in 1 .. n : recent_alerts'[i] = recent_alerts[i + d])
        /\ recent_alerts'[n + 1] = alert
    <3> DEFINE n == Len(recent_alerts) - d
    <3>1. n \in Nat /\ Len(recent_alerts') = n + 1 /\ Len(recent_alerts) = n + d /\ d \in Nat
          /\ (\A i \in 1 .. n : recent_alerts'[i] = recent_alerts[i + d])
          /\ recent_alerts'[n + 1] = alert
      BY <1>2, <2>5
    <3> HIDE DEF n
    <3> QED BY <3>1
  <2>7. \A i \in 1 .. n + 1 : recent_alerts'[i].sequence <= sequence'
    <3> SUFFICES ASSUME NEW i \in 1 .. n + 1 PROVE recent_alerts'[i].sequence <= sequence'
      OBVIOUS
    <3>1. CASE i = n + 1
      BY <1>1, <2>2, <2>6, <3>1
    <3>2. CASE i \in 1 .. n
      <4>1. i + d \in 1 .. Len(recent_alerts) /\ recent_alerts'[i] = recent_alerts[i + d]
        BY <2>6, <3>2
      <4> QED BY <1>1, <1>3, <4>1
    <3> QED BY <2>6, <3>1, <3>2
  \* What stands between two alerts stood between them before.
  <2>8. ASSUME NEW i \in 1 .. n, NEW j \in i + 1 .. n + 1, QuietBetween(i, j)'
        PROVE  QuietBetween(i + d, j + d)
    <3> SUFFICES ASSUME NEW k \in (i + d) + 1 .. (j + d) - 1
                 PROVE  recent_alerts[k].symbol # recent_alerts[i + d].symbol
      BY DEF QuietBetween
    <3>1. k - d \in 1 .. n /\ k - d \in i + 1 .. j - 1 /\ (k - d) + d = k
      BY <2>6
    <3>2. recent_alerts'[k - d] = recent_alerts[k] /\ recent_alerts'[i] = recent_alerts[i + d]
      BY <2>6, <3>1
    <3>3. recent_alerts'[k - d].symbol # recent_alerts'[i].symbol
      BY <2>8, <3>1 DEF QuietBetween
    <3> QED BY <3>2, <3>3
  <2>9. ASSUME NEW i \in 1 .. n
        PROVE  /\ i + d \in 1 .. Len(recent_alerts) /\ recent_alerts'[i] = recent_alerts[i + d]
               /\ recent_alerts[i + d].symbol \in Symbols
               /\ recent_alerts[i + d].sequence <= sequence
               /\ recent_alerts[i + d].sequence \in Nat
    <3>1. i + d \in 1 .. Len(recent_alerts) /\ recent_alerts'[i] = recent_alerts[i + d]
      BY <2>6
    <3> QED BY <1>3, <3>1
  <2>10. ASSUME NEW i \in 1 .. n, QuietBetween(i, n + 1)'
         PROVE  Inside(recent_alerts[i + d]) <=> Qualified(symbols[recent_alerts[i + d].symbol])
    <3>1. n + 1 \in i + 1 .. n + 1 /\ n + 1 + d = Len(recent_alerts) + 1
      BY <2>6
    <3>2. QuietBetween(i + d, Len(recent_alerts) + 1)
      BY <2>8, <2>10, <3>1
    <3> QED BY <2>9, <3>2 DEF AlertInv, AlertsFollowQualification
  <2>11. AlertsFollowQualification'
    <3> SUFFICES ASSUME NEW i \in 1 .. n + 1
                 PROVE  LET a == recent_alerts'[i]
                        IN  /\ QuietBetween(i, n + 2)' =>
                                 (Inside(a) <=> Qualified(symbols'[a.symbol]))
                            /\ \A j \in i + 1 .. n + 1 :
                                 LET b == recent_alerts'[j]
                                 IN  b.symbol = a.symbol /\ QuietBetween(i, j)' =>
                                       /\ a.sequence < b.sequence
                                       /\ b.kind = "EnteredQualified" <=> ~Inside(a)
      <4>1. n + 1 + 1 = n + 2
        BY <2>6
      <4> QED BY <2>6, <4>1 DEF AlertsFollowQualification, Inside
    <3>1. CASE i = n + 1
      <4>1. \A j \in i + 1 .. n + 1 : FALSE
        BY <2>6, <3>1
      <4> QED BY <2>1, <2>2, <2>6, <3>1, <4>1 DEF Inside
    <3>2. CASE i \in 1 .. n
      <4> DEFINE a == recent_alerts[i + d]
      <4>1. a = recent_alerts'[i] /\ a.symbol \in Symbols /\ i + d \in 1 .. Len(recent_alerts)
            /\ a.sequence <= sequence /\ a.sequence \in Nat
        BY <2>9, <3>2
      <4>2. ASSUME QuietBetween(i, n + 2)'
            PROVE  Inside(a) <=> Qualified(symbols'[a.symbol])
        <5>1. n + 1 \in i + 1 .. n + 2 - 1 /\ \A k \in i + 1 .. n + 1 - 1 : k \in i + 1 .. n + 2 - 1
          BY <2>6, <3>2
        <5>2. a.symbol # s /\ QuietBetween(i, n + 1)'
          BY <2>2, <2>6, <4>1, <4>2, <5>1 DEF QuietBetween
        <5>3. Inside(a) <=> Qualified(symbols[a.symbol])
          BY <2>10, <3>2, <5>2
        <5> QED BY <1>1, <4>1, <5>2, <5>3
      <4>3. ASSUME NEW j \in i + 1 .. n + 1, recent_alerts'[j].symbol = a.symbol,
                   QuietBetween(i, j)'
            PROVE  /\ a.sequence < recent_alerts'[j].sequence
                   /\ recent_alerts'[j].kind = "EnteredQualified" <=> ~Inside(a)
        <5>1. CASE j = n + 1
          <6>1. Inside(a) <=> Qualified(symbols[a.symbol])
            BY <2>10, <3>2, <4>3, <5>1
          <6>2. a.symbol = s /\ recent_alerts'[j] = alert
            BY <2>2, <2>6, <4>3, <5>1
          <6>3. alert.kind = "EnteredQualified" <=> ~Inside(a)
            BY <2>1, <2>2, <6>1, <6>2
          <6>4. a.sequence < alert.sequence
            BY <1>1, <2>2, <4>1
          <6> QED BY <6>2, <6>3, <6>4
        <5>2. CASE j \in 1 .. n
          <6>1. /\ j + d \in (i + d) + 1 .. Len(recent_alerts)
                /\ recent_alerts'[j] = recent_alerts[j + d]
            BY <2>6, <3>2, <4>3, <5>2
          <6>2. QuietBetween(i + d, j + d)
            BY <2>8, <3>2, <4>3
          <6> QED BY <4>1, <4>3, <6>1, <6>2 DEF AlertInv, AlertsFollowQualification
        <5> QED BY <2>6, <3>2, <4>3, <5>1, <5>2
      <4> HIDE DEF a
      <4> QED BY <4>1, <4>2, <4>3
    <3> QED BY <2>6, <3>1, <3>2
  <2> QED BY <2>6, <2>7, <2>11 DEF AlertInv
<1> QED BY <1>8, <1>9, <1>10

LEMMA AlertStep ==
  ASSUME TypeOK, AlertInv, [Next]_vars
  PROVE  AlertInv'
<1>0. /\ sequence \in Nat
      /\ \A i \in 1 .. Len(recent_alerts) :
           recent_alerts[i].symbol \in Symbols /\ recent_alerts[i].sequence \in Nat
  <2>1. recent_alerts \in Seq(AlertEntry) /\ sequence \in Nat
    BY DEF TypeOK, AlertEntry
  <2>2. \A i \in 1 .. Len(recent_alerts) : recent_alerts[i] \in AlertEntry
    BY <2>1, ElementOfSeq
  <2> QED BY <2>1, <2>2 DEF AlertEntry
<1>1. ASSUME NEW s \in Symbols, NEW kind \in AllKinds, NEW payload \in Payload,
             Journaled(s, kind, payload)
      PROVE  AlertInv'
  <2>1. CASE kind \in {"Snapshot", "External"}
    BY <1>1, <2>1, AlertPush DEF Journaled
  <2>2. CASE kind \notin {"Snapshot", "External"}
    <3>1. /\ UNCHANGED recent_alerts /\ sequence' = sequence + 1
          /\ \A t \in Symbols \ {s} : symbols'[t] = symbols[t]
          /\ symbols'[s].snapshot = symbols[s].snapshot
          /\ symbols'[s].external_signal = symbols[s].external_signal
      BY <1>1, <2>2 DEF Journaled
    <3>2. \A t \in Symbols : Qualified(symbols'[t]) = Qualified(symbols[t])
      BY <3>1, SameDetail
    <3>3. \A i \in 1 .. Len(recent_alerts) : recent_alerts[i].sequence <= sequence'
      BY <1>0, <3>1 DEF AlertInv
    <3>4. AlertsFollowQualification'
      BY <1>0, <3>1, <3>2 DEF AlertInv, AlertsFollowQualification, QuietBetween, Inside
    <3> QED BY <3>1, <3>3, <3>4 DEF AlertInv
  <2> QED BY <2>1, <2>2
<1>2. CASE NewSession
  BY <1>2 DEF NewSession, hydrate_from_persisted, ForgetSession, AlertInv,
              AlertsFollowQualification
<1>3. CASE SameSession
  BY <1>3 DEF SameSession, AlertInv, AlertsFollowQualification, QuietBetween
<1> QED BY <1>1, <1>2, <1>3, StepShape

\* What is left in the alert ring tells a consistent story of each symbol, in
\* every session, however many alerts were dropped.
THEOREM AlertsFollow == Spec => []AlertsFollowQualification
<1>1. Init => AlertInv
  BY DEF Init, AlertInv, AlertsFollowQualification
<1>2. TypeOK /\ AlertInv /\ [Next]_vars => AlertInv'
  BY AlertStep
<1>3. AlertInv => AlertsFollowQualification
  BY DEF AlertInv
<1> QED BY <1>1, <1>2, <1>3, TypeCorrect, PTL DEF Spec

-----------------------------------------------------------------------------
(* The verdict.                                                            *)

\* No state, live or stored, holds a snapshot without an intrinsic value.
Valued(state) == state.snapshot # None => state.snapshot.intrinsic_value_cents > 0

ValuedInv == \A s \in Symbols : Valued(symbols[s]) /\ Valued(stored[s])

\* The qualification test is exact for whatever snapshot a symbol has, in
\* every session and for all amounts.
THEOREM ThresholdExact == Spec => []ThresholdIsExact
<1>1. Init => ValuedInv
  BY DEF Init, ValuedInv, Valued, NoState
<1>2. TypeOK /\ ValuedInv /\ [Next]_vars => ValuedInv'
  <2> SUFFICES ASSUME TypeOK, ValuedInv, [Next]_vars PROVE ValuedInv'
    OBVIOUS
  <2>1. ASSUME NEW s \in Symbols, NEW kind \in AllKinds, NEW payload \in Payload,
               Journaled(s, kind, payload)
        PROVE  ValuedInv'
    BY <2>1 DEF Journaled, ValuedInv, Valued
  <2>2. CASE NewSession
    BY <2>2 DEF NewSession, hydrate_from_persisted, ValuedInv, Valued, NoState
  <2>3. CASE SameSession
    BY <2>3 DEF SameSession, ValuedInv
  <2> QED BY <2>1, <2>2, <2>3, StepShape
<1>3. TypeOK /\ ValuedInv => ThresholdIsExact
  <2> SUFFICES ASSUME TypeOK, ValuedInv, NEW s \in Symbols, symbols[s].snapshot # None
               PROVE  GapIsExact(symbols[s].snapshot.market_price_cents,
                                 symbols[s].snapshot.intrinsic_value_cents, MIN_GAP_BPS)
    BY DEF ThresholdIsExact
  <2> DEFINE p == symbols[s].snapshot
  <2>1. p \in SnapshotPayload
    BY PayloadAssumption DEF TypeOK, SymbolState
  <2>2. p.market_price_cents \in Int /\ p.intrinsic_value_cents \in Nat \ {0}
    BY <2>1 DEF SnapshotPayload, ValuedInv, Valued
  <2> QED BY <2>2, GapExact, ThresholdAssumption
<1> QED BY <1>1, <1>2, <1>3, TypeCorrect, PTL DEF Spec

-----------------------------------------------------------------------------
(* The sessions.  What follows is about SessionUniverse, the life of the   *)
(* list of tracked symbols, for every built-in list, every list given for  *)
(* one session and every bound.                                            *)

LEMMA SessionInitTyped == SessionInit => SessionTypeOK
<1>1. <<>> \in Seq(SUBSET Tickers)
  OBVIOUS
<1>2. {} \in SUBSET Tickers /\ 0 \in Nat
  OBVIOUS
<1> QED
  BY <1>1, <1>2, Zenon DEF SessionInit, SessionTypeOK

\* Every variable has its type (load_initial_state, run_terminal, the worker).
THEOREM SessionTyped == SessionSpec => []SessionTypeOK
<1>1. SessionInit => SessionTypeOK
  BY SessionInitTyped
<1>2. SessionTypeOK /\ [SessionNext]_sessionVars => SessionTypeOK'
  <2> SUFFICES ASSUME SessionTypeOK, [SessionNext]_sessionVars PROVE SessionTypeOK'
    OBVIOUS
  <2> USE DEF SessionTypeOK
  <2>1. ASSUME NEW explicit \in BOOLEAN, NEW list \in SUBSET Tickers,
               load_initial_state(explicit, list)
        PROVE  SessionTypeOK'
    <3>1. tracked' \in SUBSET Tickers
      BY <2>1, UniverseAssumption DEF load_initial_state, load_warm_start,
         reset_warm_start_state, WithoutDatabase, RestoredUniverse,
          had_previous_session
    <3>2. /\ tracked_table' \in SUBSET Tickers /\ persisting' \in BOOLEAN
          /\ marked' \in BOOLEAN /\ failures' \in Nat
      <4>1. CASE load_warm_start(explicit, list)
        BY <4>1, Zenon DEF load_warm_start
      <4>2. CASE reset_warm_start_state(explicit, list)
        <5>1. {} \in SUBSET Tickers /\ failures + 1 \in Nat
          OBVIOUS
        <5> QED
          BY <4>2, <5>1, Zenon DEF reset_warm_start_state
      <4>3. CASE WithoutDatabase(explicit, list)
        BY <4>3, Zenon DEF WithoutDatabase
      <4> QED
        BY <2>1, <4>1, <4>2, <4>3, Zenon DEF load_initial_state
    <3>3. /\ commands' \in Seq(SUBSET Tickers)
          /\ ~persisting' => commands' = <<>>
      <4>1. commands' = IF persisting' /\ ~symbols_explicit' THEN <<tracked'>> ELSE <<>>
        BY <2>1 DEF load_initial_state, SaveAtStart
      <4>2. <<tracked'>> \in Seq(SUBSET Tickers) /\ <<>> \in Seq(SUBSET Tickers)
        BY <3>1
      <4> QED
        BY <4>1, <4>2, Zenon
    <3> QED
      BY <2>1, <3>1, <3>2, <3>3 DEF load_initial_state
  <2>2. ASSUME NEW s \in Tickers, track_symbols_from_query({s})
        PROVE  SessionTypeOK'
    BY <2>2 DEF track_symbols_from_query, SendList
  <2>3. CASE replace_tracked_symbols
    <3>1. commands # <<>> /\ commands' = Tail(commands)
      BY <2>3 DEF replace_tracked_symbols
    <3>2. Head(commands) \in SUBSET Tickers /\ commands' \in Seq(SUBSET Tickers)
      BY <3>1, HeadTailProperties
    <3> QED
      BY <2>3, <3>1, <3>2 DEF replace_tracked_symbols
  <2>4. CASE shutdown
    BY <2>4 DEF shutdown
  <2>5. CASE Crash
    BY <2>5 DEF Crash
  <2>6. CASE UNCHANGED sessionVars
    BY <2>6 DEF sessionVars
  <2> QED
    BY <2>1, <2>2, <2>3, <2>4, <2>5, <2>6, UniverseAssumption DEF SessionNext
<1> QED
  BY <1>1, <1>2, PTL DEF SessionSpec

-----------------------------------------------------------------------------

PlainSession == phase = "running" /\ persisting /\ ~symbols_explicit

\* In a plain session what is saved, what is queued and what is tracked is one
\* growing chain of lists.
Growing ==
  PlainSession =>
    /\ tracked_table \subseteq tracked
    /\ \A i \in 1 .. Len(commands) :
         tracked_table \subseteq commands[i] /\ commands[i] \subseteq tracked
    /\ \A i, j \in 1 .. Len(commands) : i <= j => commands[i] \subseteq commands[j]

\* The last list queued is the one tracked; with an empty queue, the one saved.
LastIsTracked ==
  PlainSession =>
    /\ marked \/ failures > 0
    /\ commands # <<>> => commands[Len(commands)] = tracked
    /\ commands = <<>> /\ failures = 0 => tracked_table = tracked

SessionInv == SessionTypeOK /\ Growing /\ LastIsTracked

\* The chain of lists and the startup mark are kept by every step.
THEOREM SessionInductive == SessionSpec => []SessionInv
<1> USE DEF PlainSession
<1>1. SessionInit => SessionInv
  <2>1. SessionInit => SessionTypeOK
    BY SessionInitTyped
  <2>2. SessionInit => Growing /\ LastIsTracked
    BY DEF SessionInit, Growing, LastIsTracked
  <2> QED
    BY <2>1, <2>2 DEF SessionInv
<1>2. SessionInv /\ SessionTypeOK' /\ [SessionNext]_sessionVars => SessionInv'
  <2> SUFFICES ASSUME SessionInv, SessionTypeOK', [SessionNext]_sessionVars
               PROVE  Growing' /\ LastIsTracked'
    BY DEF SessionInv
  <2> USE DEF SessionInv
  <2>1. ASSUME NEW explicit \in BOOLEAN, NEW list \in SUBSET Tickers,
               load_initial_state(explicit, list)
        PROVE  Growing' /\ LastIsTracked'
    <3>1. /\ PlainSession' => tracked_table' \subseteq tracked'
          /\ PlainSession' => marked' \/ failures' > 0
      <4>1. CASE load_warm_start(explicit, list)
        <5>1. /\ tracked' = RestoredUniverse(explicit, list)
              /\ tracked_table' = tracked_table /\ marked' = TRUE
              /\ symbols_explicit' = explicit
          BY <2>1, <4>1 DEF load_initial_state, load_warm_start
        <5>2. CASE explicit
          BY <5>1, <5>2
        <5>3. CASE ~explicit /\ had_previous_session
          BY <5>1, <5>3 DEF RestoredUniverse
        <5>4. CASE ~explicit /\ ~had_previous_session
          BY <5>1, <5>4 DEF had_previous_session
        <5> QED
          BY <5>2, <5>3, <5>4
      <4>2. CASE reset_warm_start_state(explicit, list)
        BY <4>2 DEF reset_warm_start_state, SessionTypeOK
      <4>3. CASE WithoutDatabase(explicit, list)
        BY <4>3 DEF WithoutDatabase
      <4> QED
        BY <2>1, <4>1, <4>2, <4>3 DEF load_initial_state
    <3>2. PlainSession' => commands' = <<tracked'>>
      BY <2>1 DEF load_initial_state, SaveAtStart
    <3>3. PlainSession' => /\ Len(commands') = 1 /\ commands'[1] = tracked'
                           /\ commands' # <<>>
      BY <3>2
    <3>4. Growing'
      <4> SUFFICES ASSUME PlainSession' PROVE Growing'
        BY DEF Growing
      <4>1. \A i \in 1 .. Len(commands') : commands'[i] = tracked'
        <5>1. Len(commands') = 1 /\ commands'[1] = tracked'
          BY <3>3
        <5>2. \A i \in 1 .. 1 : i = 1
          OBVIOUS
        <5> QED
          BY <5>1, <5>2, Zenon
      <4> QED
        BY <3>1, <4>1 DEF Growing
    <3>5. LastIsTracked'
      BY <3>1, <3>3 DEF LastIsTracked
    <3> QED
      BY <3>1, <3>4, <3>5
  <2>2. ASSUME NEW s \in Tickers, track_symbols_from_query({s})
        PROVE  Growing' /\ LastIsTracked'
    <3>1. /\ tracked' = tracked \cup {s}
          /\ UNCHANGED <<phase, symbols_explicit, persisting, tracked_table,
                         marked, failures>>
      BY <2>2 DEF track_symbols_from_query
    <3>2. PlainSession' => commands' = Append(commands, tracked') /\ PlainSession
      BY <2>2, <3>1 DEF track_symbols_from_query, SendList
    <3>3. ASSUME PlainSession'
          PROVE  /\ Len(commands') = Len(commands) + 1
                 /\ commands'[Len(commands')] = tracked' /\ commands' # <<>>
                 /\ \A i \in 1 .. Len(commands) : commands'[i] = commands[i]
      BY <3>2, <3>3 DEF SessionTypeOK
    <3>4. Growing'
      <4> SUFFICES ASSUME PlainSession' PROVE Growing'
        BY DEF Growing
      <4>1. \A i \in 1 .. Len(commands') : i \in 1 .. Len(commands) \/ i = Len(commands')
        BY <3>3 DEF SessionTypeOK
      <4>2. Growing /\ PlainSession
        BY <3>2
      <4> QED
        BY <3>1, <3>3, <4>1, <4>2 DEF Growing, SessionTypeOK
    <3> QED
      BY <3>1, <3>2, <3>3, <3>4 DEF LastIsTracked
  <2>3. CASE replace_tracked_symbols
    <3>1. /\ commands # <<>> /\ commands' = Tail(commands)
          /\ UNCHANGED <<phase, symbols_explicit, persisting, tracked, marked>>
          /\ \/ tracked_table' = Head(commands) /\ failures' = failures
             \/ tracked_table' = tracked_table /\ failures' = failures + 1
      BY <2>3 DEF replace_tracked_symbols
    <3>2. /\ Len(commands') = Len(commands) - 1
          /\ \A i \in 1 .. Len(commands') : commands'[i] = commands[i + 1]
          /\ Head(commands) = commands[1] /\ Len(commands) \in Nat /\ Len(commands) > 0
      BY <3>1 DEF SessionTypeOK
    <3>3. phase = "running" /\ persisting
      BY <3>1 DEF SessionTypeOK
    <3>5. Growing'
      BY <3>1, <3>2 DEF Growing
    <3>6. LastIsTracked'
      <4> SUFFICES ASSUME PlainSession' PROVE LastIsTracked'
        BY DEF LastIsTracked
      <4>1. marked' \/ failures' > 0
        BY <3>1 DEF LastIsTracked, SessionTypeOK
      <4>2. commands' # <<>> => commands'[Len(commands')] = tracked'
        <5>1. commands[Len(commands)] = tracked
          BY <3>1 DEF LastIsTracked
        <5> QED BY <3>1, <3>2, <5>1
      <4>3. commands' = <<>> /\ failures' = 0 => tracked_table' = tracked'
        <5>1. commands[Len(commands)] = tracked /\ failures \in Nat
          BY <3>1 DEF LastIsTracked, SessionTypeOK
        <5>2. commands' = <<>> => Len(commands) = 1
          BY <3>2
        <5> QED BY <3>1, <3>2, <5>1, <5>2
      <4> QED BY <4>1, <4>2, <4>3 DEF LastIsTracked
    <3> QED
      BY <3>5, <3>6
  <2>4. CASE shutdown
    BY <2>4 DEF shutdown, Growing, LastIsTracked
  <2>5. CASE Crash
    BY <2>5 DEF Crash, Growing, LastIsTracked
  <2>6. CASE UNCHANGED sessionVars
    BY <2>6 DEF sessionVars, Growing, LastIsTracked
  <2> QED
    BY <2>1, <2>2, <2>3, <2>4, <2>5, <2>6, UniverseAssumption DEF SessionNext
<1> QED
  BY <1>1, <1>2, SessionTyped, PTL DEF SessionSpec

-----------------------------------------------------------------------------

\* Once its commands are executed and none failed, a plain session has saved
\* exactly what it tracks (replace_tracked_symbols, load_initial_state).
THEOREM SessionSettled == SessionSpec => []SettledUniverseIsSaved
<1>1. SessionInv => SettledUniverseIsSaved
  BY DEF SessionInv, LastIsTracked, PlainSession, SettledUniverseIsSaved,
     had_previous_session,
     SessionTypeOK
<1> QED
  BY <1>1, SessionInductive, PTL

\* A plain session never takes a symbol out of the saved tracked.
THEOREM SessionKeeps == SessionSpec => PlainSessionsKeepSymbols
<1>1. SessionInv /\ [SessionNext]_sessionVars =>
        [(phase = "running" /\ ~symbols_explicit) =>
           tracked_table \subseteq tracked_table']_sessionVars
  <2> SUFFICES ASSUME SessionInv, [SessionNext]_sessionVars, phase = "running", ~symbols_explicit
               PROVE  tracked_table \subseteq tracked_table'
    BY Zenon
  <2>1. CASE replace_tracked_symbols
    <3>1. /\ commands # <<>>
          /\ tracked_table' = Head(commands) \/ tracked_table' = tracked_table
      BY <2>1 DEF replace_tracked_symbols
    <3>2. Head(commands) = commands[1] /\ Len(commands) \in Nat /\ Len(commands) > 0
      BY <3>1 DEF SessionInv, SessionTypeOK
    <3>3. PlainSession
      BY <3>1 DEF PlainSession, SessionInv, SessionTypeOK
    <3>4. tracked_table \subseteq commands[1]
      BY <3>2, <3>3 DEF SessionInv, Growing
    <3> QED
      BY <3>1, <3>2, <3>4
  <2>2. CASE ~replace_tracked_symbols
    <3>1. tracked_table' = tracked_table
      BY <2>2 DEF SessionNext, sessionVars, load_initial_state,
         track_symbols_from_query, shutdown, Crash
    <3> QED
      BY <3>1
  <2> QED
    BY <2>1, <2>2
<1> QED
  BY <1>1, SessionInductive, PTL DEF SessionSpec, PlainSessionsKeepSymbols
=============================================================================
