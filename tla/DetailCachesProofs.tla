------------------------- MODULE DetailCachesProofs -------------------------
(***************************************************************************)
(* What is proved about DetailCaches, for any symbols, ranges, inputs and  *)
(* bounds: the types, that no entry waits for an answer that is not under  *)
(* way, that screen, summary and database agree, that a fresh chart stays, *)
(* and that an analysis is of its input.                                   *)
(***************************************************************************)
EXTENDS DetailCaches, FunctionTheorems, FiniteSetTheorems, SequenceTheorems,
        WellFoundedInduction, NaturalsInduction, TLAPS

LEMMA LeastNumber ==
  ASSUME NEW T, T \subseteq Nat, T # {}
  PROVE  \E n \in T : \A m \in T : n <= m
<1>1. IsWellFoundedOn(OpToRel(<, Nat), Nat)
  BY NatLessThanWellFounded
<1>2. PICK n \in T : \A m \in T : ~(<<m, n>> \in OpToRel(<, Nat))
  BY <1>1, WFMin
<1>3. \A m \in T : ~(m < n)
  BY <1>2 DEF OpToRel
<1> QED BY <1>3

\* Among one number more than there are ids one is free.
LEMMA FreeNumber ==
  ASSUME NEW ids, IsFiniteSet(ids)
  PROVE  LeastFree(ids) \in Nat \ {0} /\ LeastFree(ids) \notin ids
<1> DEFINE c == Cardinality(ids)
           Free == {n \in 1..(c + 1) : n \notin ids}
<1>1. c \in Nat
  BY FS_CardinalityType
<1>2. Free # {}
  <2> SUFFICES ASSUME 1..(c + 1) \subseteq ids PROVE FALSE
    OBVIOUS
  <2>1. Cardinality(1..(c + 1)) <= c
    BY FS_Subset
  <2>2. Cardinality(1..(c + 1)) = c + 1
    BY <1>1, FS_Interval
  <2> QED BY <1>1, <2>1, <2>2
<1>3. PICK n \in Free : \A m \in Free : n <= m
  <2>1. Free \subseteq Nat
    BY <1>1
  <2> HIDE DEF Free
  <2> QED BY <1>2, <2>1, LeastNumber
<1>4. n \in 1..(c + 1) /\ n \notin ids /\ \A m \in 1..(n - 1) : m \in ids
  BY <1>1, <1>3
<1>5. LeastFree(ids) \in 1..(c + 1) /\ LeastFree(ids) \notin ids
  BY <1>4 DEF LeastFree
<1> QED BY <1>1, <1>5

-----------------------------------------------------------------------------
(* The loops over symbols and ranges.                                      *)

ChartsSoFar(f, symbols, n) ==
  f = [i \in 0..n |-> IF i = 0 THEN Asking ELSE AskChart(f[i - 1], KeyOrder[i], symbols)]

LEMMA ChartLoopExists ==
  ASSUME NEW symbols, Len(KeyOrder) \in Nat
  PROVE  \E f : ChartsSoFar(f, symbols, Len(KeyOrder))
<1> DEFINE Open == {n \in 0..Len(KeyOrder) : ~ \E f : ChartsSoFar(f, symbols, n)}
<1> SUFFICES ASSUME Open # {} PROVE FALSE
  OBVIOUS
<1>1. PICK n \in Open : \A m \in Open : n <= m
  <2>1. Open \subseteq Nat
    OBVIOUS
  <2> HIDE DEF Open
  <2> QED BY <2>1, LeastNumber
<1>2. CASE n = 0
  <2>1. ChartsSoFar([i \in 0..0 |-> Asking], symbols, 0)
    BY DEF ChartsSoFar
  <2> QED BY <1>2, <2>1
<1>3. CASE n # 0
  <2>1. n - 1 \in 0..Len(KeyOrder) /\ n - 1 \notin Open
    BY <1>1, <1>3
  <2>2. PICK f : ChartsSoFar(f, symbols, n - 1)
    BY <2>1
  <2> DEFINE last == AskChart(f[n - 1], KeyOrder[n], symbols)
             g == [i \in 0..n |-> IF i = n THEN last ELSE f[i]]
  <2>3. \A i \in 0..(n - 1) : g[i] = f[i]
    BY <1>3
  <2>4. \A i \in 0..n : g[i] = IF i = 0 THEN Asking ELSE AskChart(g[i - 1], KeyOrder[i], symbols)
    <3> SUFFICES ASSUME NEW i \in 0..n
                 PROVE  g[i] = IF i = 0 THEN Asking ELSE AskChart(g[i - 1], KeyOrder[i], symbols)
      OBVIOUS
    <3>1. CASE i = n
      <4>1. n - 1 \in 0..(n - 1) /\ g[n - 1] = f[n - 1] /\ g[n] = last
        BY <1>3, <2>3
      <4> QED BY <1>3, <3>1, <4>1
    <3>2. CASE i # n
      <4>1. i \in 0..(n - 1) /\ (i # 0 => i - 1 \in 0..(n - 1))
        BY <3>2
      <4>2. f[i] = IF i = 0 THEN Asking ELSE AskChart(f[i - 1], KeyOrder[i], symbols)
        BY <2>2, <4>1 DEF ChartsSoFar
      <4>3. g[i] = f[i] /\ (i # 0 => g[i - 1] = f[i - 1])
        BY <2>3, <4>1
      <4> QED BY <4>2, <4>3
    <3> QED BY <3>1, <3>2
  <2>5. ChartsSoFar(g, symbols, n)
    BY <2>4 DEF ChartsSoFar
  <2> QED BY <2>5
<1> QED BY <1>2, <1>3

LEMMA ChartLoop ==
  ASSUME NEW symbols, Len(KeyOrder) \in Nat, NEW i \in 0..Len(KeyOrder)
  PROVE  ChartsAskedFor(symbols)[i] =
           IF i = 0 THEN Asking ELSE AskChart(ChartsAskedFor(symbols)[i - 1], KeyOrder[i], symbols)
<1>1. PICK f : ChartsSoFar(f, symbols, Len(KeyOrder))
  BY ChartLoopExists
<1>2. ChartsSoFar(ChartsAskedFor(symbols), symbols, Len(KeyOrder))
  BY <1>1 DEF ChartsAskedFor, ChartsSoFar
<1> QED BY <1>2 DEF ChartsSoFar

AnalysesSoFar(f, symbols, holding, n) ==
  f = [i \in 0..n |->
         IF i = 0 THEN AskingAnalyses ELSE AskAnalysis(f[i - 1], SymbolOrder[i], symbols, holding)]

LEMMA AnalysisLoopExists ==
  ASSUME NEW symbols, NEW holding, Len(SymbolOrder) \in Nat
  PROVE  \E f : AnalysesSoFar(f, symbols, holding, Len(SymbolOrder))
<1> DEFINE Open == {n \in 0..Len(SymbolOrder) : ~ \E f : AnalysesSoFar(f, symbols, holding, n)}
<1> SUFFICES ASSUME Open # {} PROVE FALSE
  OBVIOUS
<1>1. PICK n \in Open : \A m \in Open : n <= m
  <2>1. Open \subseteq Nat
    OBVIOUS
  <2> HIDE DEF Open
  <2> QED BY <2>1, LeastNumber
<1>2. CASE n = 0
  <2>1. AnalysesSoFar([i \in 0..0 |-> AskingAnalyses], symbols, holding, 0)
    BY DEF AnalysesSoFar
  <2> QED BY <1>2, <2>1
<1>3. CASE n # 0
  <2>1. n - 1 \in 0..Len(SymbolOrder) /\ n - 1 \notin Open
    BY <1>1, <1>3
  <2>2. PICK f : AnalysesSoFar(f, symbols, holding, n - 1)
    BY <2>1
  <2> DEFINE last == AskAnalysis(f[n - 1], SymbolOrder[n], symbols, holding)
             g == [i \in 0..n |-> IF i = n THEN last ELSE f[i]]
  <2>3. \A i \in 0..(n - 1) : g[i] = f[i]
    BY <1>3
  <2>4. \A i \in 0..n :
          g[i] = IF i = 0 THEN AskingAnalyses
                 ELSE AskAnalysis(g[i - 1], SymbolOrder[i], symbols, holding)
    <3> SUFFICES ASSUME NEW i \in 0..n
                 PROVE  g[i] = IF i = 0 THEN AskingAnalyses
                               ELSE AskAnalysis(g[i - 1], SymbolOrder[i], symbols, holding)
      OBVIOUS
    <3>1. CASE i = n
      <4>1. n - 1 \in 0..(n - 1) /\ g[n - 1] = f[n - 1] /\ g[n] = last
        BY <1>3, <2>3
      <4> QED BY <1>3, <3>1, <4>1
    <3>2. CASE i # n
      <4>1. i \in 0..(n - 1) /\ (i # 0 => i - 1 \in 0..(n - 1))
        BY <3>2
      <4>2. f[i] = IF i = 0 THEN AskingAnalyses
                   ELSE AskAnalysis(f[i - 1], SymbolOrder[i], symbols, holding)
        BY <2>2, <4>1 DEF AnalysesSoFar
      <4>3. g[i] = f[i] /\ (i # 0 => g[i - 1] = f[i - 1])
        BY <2>3, <4>1
      <4> QED BY <4>2, <4>3
    <3> QED BY <3>1, <3>2
  <2>5. AnalysesSoFar(g, symbols, holding, n)
    BY <2>4 DEF AnalysesSoFar
  <2> QED BY <2>5
<1> QED BY <1>2, <1>3

LEMMA AnalysisLoop ==
  ASSUME NEW symbols, NEW holding, Len(SymbolOrder) \in Nat, NEW i \in 0..Len(SymbolOrder)
  PROVE  AnalysesAskedFor(symbols, holding)[i] =
           IF i = 0 THEN AskingAnalyses
           ELSE AskAnalysis(AnalysesAskedFor(symbols, holding)[i - 1], SymbolOrder[i],
                            symbols, holding)
<1>1. PICK f : AnalysesSoFar(f, symbols, holding, Len(SymbolOrder))
  BY AnalysisLoopExists
<1>2. AnalysesSoFar(AnalysesAskedFor(symbols, holding), symbols, holding, Len(SymbolOrder))
  BY <1>1 DEF AnalysesAskedFor, AnalysesSoFar
<1> QED BY <1>2 DEF AnalysesSoFar

-----------------------------------------------------------------------------
(* Charts.  How requests under way, noted requests and entries fit         *)
(* together.  A detail request that is not awaited any more is one whose   *)
(* chart came in another way, and a background request was asked for       *)
(* before any detail request of its chart: with one thread and one queue   *)
(* it is answered first, so that it never meets a fresh chart.             *)

Request(key, id, kind) == [key |-> key, id |-> id, kind |-> kind]

Awaited(cache, background, q) ==
  \A i \in 1..Len(q) :
    /\ q[i].kind = "Background" => background[q[i].key] = q[i].id
    /\ q[i].kind = "Detail" =>
         \/ cache[q[i].key].state = "Loading" /\ cache[q[i].key].id = q[i].id
         \/ cache[q[i].key].state = "Ready"

InOrder(q) ==
  \A i, j \in 1..Len(q) : q[i].key = q[j].key =>
    /\ q[i].kind = q[j].kind => i = j
    /\ q[i].kind = "Detail" /\ q[j].kind = "Background" => j < i

UnderWay(cache, background, q) ==
  \A k \in Keys :
    /\ background[k] # 0 => \E i \in 1..Len(q) : q[i] = Request(k, background[k], "Background")
    /\ cache[k].state = "Loading" =>
         \E i \in 1..Len(q) : q[i] = Request(k, cache[k].id, "Detail")

NotForFresh(cache, background) ==
  \A k \in Keys : background[k] # 0 => cache[k].state # "Ready"

Placed(cache, background, q) ==
  /\ Awaited(cache, background, q) /\ InOrder(q)
  /\ UnderWay(cache, background, q) /\ NotForFresh(cache, background)

Tables(cache, background, q) ==
  /\ cache \in [Keys -> ChartCacheEntry] /\ background \in [Keys -> Nat]
  /\ q \in Seq(ChartRequest)

LEMMA RequestFields ==
  ASSUME NEW q \in Seq(ChartRequest), NEW i \in 1..Len(q)
  PROVE  /\ q[i] \in ChartRequest /\ q[i].key \in Keys /\ q[i].kind \in ChartRequestKind
         /\ q[i].id \in Nat /\ q[i].id # 0
<1>1. q[i] \in ChartRequest
  OBVIOUS
<1> QED BY <1>1 DEF ChartRequest

LEMMA Appended ==
  ASSUME NEW A, NEW q \in Seq(A), NEW r \in A
  PROVE  /\ Append(q, r) \in Seq(A) /\ Len(q) \in Nat /\ Len(Append(q, r)) = Len(q) + 1
         /\ Append(q, r)[Len(q) + 1] = r
         /\ \A i \in 1..Len(q) : Append(q, r)[i] = q[i]
         /\ \A i \in 1..Len(Append(q, r)) : i \in 1..Len(q) \/ i = Len(q) + 1
OBVIOUS

LEMMA TailFacts ==
  ASSUME NEW A, NEW q \in Seq(A), q # <<>>
  PROVE  /\ Tail(q) \in Seq(A) /\ Len(Tail(q)) \in Nat /\ 1 \in 1..Len(q) /\ Head(q) = q[1]
         /\ \A i \in 1..Len(Tail(q)) : i + 1 \in 1..Len(q) /\ Tail(q)[i] = q[i + 1]
         /\ \A i \in 1..Len(q) : i # 1 => i - 1 \in 1..Len(Tail(q)) /\ Tail(q)[i - 1] = q[i]
<1>1. /\ Tail(q) \in Seq(A) /\ Len(q) \in Nat \ {0} /\ Len(Tail(q)) = Len(q) - 1
      /\ Head(q) = q[1]
  OBVIOUS
<1>2. \A i \in 1..Len(Tail(q)) : i + 1 \in 1..Len(q) /\ Tail(q)[i] = q[i + 1]
  BY <1>1
<1> QED BY <1>1, <1>2

LEMMA TailInOrder ==
  ASSUME NEW q \in Seq(ChartRequest), q # <<>>, InOrder(q)
  PROVE  InOrder(Tail(q))
<1>1. \A i \in 1..Len(Tail(q)) : i \in Nat /\ i + 1 \in 1..Len(q) /\ Tail(q)[i] = q[i + 1]
  BY TailFacts
<1> SUFFICES ASSUME NEW i \in 1..Len(Tail(q)), NEW j \in 1..Len(Tail(q)),
                    Tail(q)[i].key = Tail(q)[j].key
             PROVE  /\ Tail(q)[i].kind = Tail(q)[j].kind => i = j
                    /\ Tail(q)[i].kind = "Detail" /\ Tail(q)[j].kind = "Background" => j < i
  BY DEF InOrder
<1>2. /\ q[i + 1].kind = q[j + 1].kind => i + 1 = j + 1
      /\ q[i + 1].kind = "Detail" /\ q[j + 1].kind = "Background" => j + 1 < i + 1
  BY <1>1 DEF InOrder
<1> QED BY <1>1, <1>2

\* A detail request is added.
LEMMA DetailPlaced ==
  ASSUME NEW cache, NEW background, NEW q, Tables(cache, background, q),
         Placed(cache, background, q),
         NEW key \in Keys, NEW id \in Nat \ {0},
         cache[key].state \notin {"Loading", "Ready"}
  PROVE  LET new == [cache EXCEPT ![key] = Loading(id, cache[key].candles)]
             queue == Append(q, Request(key, id, "Detail"))
         IN Tables(new, background, queue) /\ Placed(new, background, queue)
<1> DEFINE new == [cache EXCEPT ![key] = Loading(id, cache[key].candles)]
           r == Request(key, id, "Detail")
           queue == Append(q, r)
<1>1. r \in ChartRequest /\ r.key = key /\ r.id = id /\ r.kind = "Detail"
  BY DEF Request, ChartRequest, ChartRequestKind
<1>2. /\ new \in [Keys -> ChartCacheEntry] /\ new[key].state = "Loading" /\ new[key].id = id
      /\ \A k \in Keys \ {key} : new[k] = cache[k]
  BY DEF Tables, Loading, ChartCacheEntry
<1>3. q \in Seq(ChartRequest) /\ background \in [Keys -> Nat]
  BY DEF Tables
<1>4. \A i \in 1..Len(q) : q[i].key \in Keys
  BY <1>3, RequestFields
<1> HIDE DEF new, r
<1>5. /\ queue \in Seq(ChartRequest) /\ Len(q) \in Nat /\ Len(queue) = Len(q) + 1
      /\ queue[Len(q) + 1] = r
      /\ \A i \in 1..Len(q) : queue[i] = q[i]
      /\ \A i \in 1..Len(queue) : i \in 1..Len(q) \/ i = Len(q) + 1
  BY <1>1, <1>3, Appended
<1> HIDE DEF queue
<1>6. \A i \in 1..Len(q) : q[i].key = key => q[i].kind # "Detail"
  BY <1>4 DEF Placed, Awaited
<1>7. Awaited(new, background, queue)
  BY <1>1, <1>2, <1>4, <1>5, <1>6 DEF Placed, Awaited
<1>8. InOrder(queue)
  BY <1>1, <1>5, <1>6 DEF Placed, InOrder
<1>9. UnderWay(new, background, queue)
  <2> SUFFICES ASSUME NEW k \in Keys
               PROVE  /\ background[k] # 0 =>
                           \E i \in 1..Len(queue) :
                             queue[i] = Request(k, background[k], "Background")
                      /\ new[k].state = "Loading" =>
                           \E i \in 1..Len(queue) : queue[i] = Request(k, new[k].id, "Detail")
    BY DEF UnderWay
  <2>1. \A x : (\E i \in 1..Len(q) : q[i] = x) => \E i \in 1..Len(queue) : queue[i] = x
    BY <1>5
  <2>2. \E i \in 1..Len(queue) : queue[i] = r
    BY <1>5
  <2> QED BY <1>2, <2>1, <2>2 DEF Placed, UnderWay, r
<1>10. NotForFresh(new, background)
  BY <1>2 DEF Placed, NotForFresh
<1> QED BY <1>2, <1>3, <1>5, <1>7, <1>8, <1>9, <1>10 DEF Tables, Placed, new, queue, r

\* A background request is added.
LEMMA BackgroundPlaced ==
  ASSUME NEW cache, NEW background, NEW q, Tables(cache, background, q),
         Placed(cache, background, q),
         NEW key \in Keys, NEW id \in Nat \ {0}, background[key] = 0,
         cache[key].state \notin {"Loading", "Ready"}
  PROVE  LET new == [background EXCEPT ![key] = id]
             queue == Append(q, Request(key, id, "Background"))
         IN Tables(cache, new, queue) /\ Placed(cache, new, queue)
<1> DEFINE new == [background EXCEPT ![key] = id]
           r == Request(key, id, "Background")
           queue == Append(q, r)
<1>1. r \in ChartRequest /\ r.key = key /\ r.id = id /\ r.kind = "Background"
  BY DEF Request, ChartRequest, ChartRequestKind
<1>2. /\ new \in [Keys -> Nat] /\ new[key] = id
      /\ \A k \in Keys \ {key} : new[k] = background[k]
  BY DEF Tables
<1>3. q \in Seq(ChartRequest) /\ cache \in [Keys -> ChartCacheEntry]
  BY DEF Tables
<1>4. \A i \in 1..Len(q) : q[i].key \in Keys /\ q[i].id # 0 /\ q[i].kind \in ChartRequestKind
  BY <1>3, RequestFields
<1> HIDE DEF new, r
<1>5. /\ queue \in Seq(ChartRequest) /\ Len(q) \in Nat /\ Len(queue) = Len(q) + 1
      /\ queue[Len(q) + 1] = r
      /\ \A i \in 1..Len(q) : queue[i] = q[i]
      /\ \A i \in 1..Len(queue) : i \in 1..Len(q) \/ i = Len(q) + 1
  BY <1>1, <1>3, Appended
<1> HIDE DEF queue
<1>6. \A i \in 1..Len(q) : q[i].key # key
  <2> TAKE i \in 1..Len(q)
  <2>1. q[i].kind = "Detail" \/ q[i].kind = "Background"
    BY <1>4 DEF ChartRequestKind
  <2>2. q[i].kind = "Detail" => q[i].key # key
    BY DEF Placed, Awaited
  <2>3. q[i].kind = "Background" => q[i].key # key
    BY <1>4 DEF Placed, Awaited
  <2> QED BY <2>1, <2>2, <2>3
<1>7. Awaited(cache, new, queue)
  BY <1>1, <1>2, <1>4, <1>5, <1>6 DEF Placed, Awaited
<1>8. InOrder(queue)
  BY <1>1, <1>5, <1>6 DEF Placed, InOrder
<1>9. UnderWay(cache, new, queue)
  <2> SUFFICES ASSUME NEW k \in Keys
               PROVE  /\ new[k] # 0 =>
                           \E i \in 1..Len(queue) : queue[i] = Request(k, new[k], "Background")
                      /\ cache[k].state = "Loading" =>
                           \E i \in 1..Len(queue) : queue[i] = Request(k, cache[k].id, "Detail")
    BY DEF UnderWay
  <2>1. \A x : (\E i \in 1..Len(q) : q[i] = x) => \E i \in 1..Len(queue) : queue[i] = x
    BY <1>5
  <2>2. \E i \in 1..Len(queue) : queue[i] = r
    BY <1>5
  <2>3. ASSUME cache[k].state = "Loading"
        PROVE  \E i \in 1..Len(queue) : queue[i] = Request(k, cache[k].id, "Detail")
    <3>1. \E i \in 1..Len(q) : q[i] = Request(k, cache[k].id, "Detail")
      BY <2>3 DEF Placed, UnderWay
    <3> QED BY <2>1, <3>1
  <2>4. k = key => \E i \in 1..Len(queue) : queue[i] = Request(k, new[k], "Background")
    BY <1>2, <2>2 DEF r
  <2>5. ASSUME k # key, new[k] # 0
        PROVE  \E i \in 1..Len(queue) : queue[i] = Request(k, new[k], "Background")
    <3>1. new[k] = background[k]
      BY <1>2, <2>5
    <3>2. \E i \in 1..Len(q) : q[i] = Request(k, new[k], "Background")
      BY <2>5, <3>1 DEF Placed, UnderWay
    <3> QED BY <2>1, <3>2
  <2> QED BY <2>3, <2>4, <2>5
<1>10. NotForFresh(cache, new)
  BY <1>2 DEF Placed, NotForFresh
<1> QED BY <1>2, <1>3, <1>5, <1>7, <1>8, <1>9, <1>10 DEF Tables, Placed, new, queue, r

\* The awaited answer to a detail request, the oldest request, is applied.
LEMMA DetailSettled ==
  ASSUME NEW cache, NEW background, NEW q, Tables(cache, background, q),
         Placed(cache, background, q),
         q # <<>>, q[1].kind = "Detail", NEW key \in Keys, key = q[1].key,
         NEW entry \in ChartCacheEntry, entry.state \in {"Ready", "Failed"}
  PROVE  LET new == [cache EXCEPT ![key] = entry]
         IN Tables(new, background, Tail(q)) /\ Placed(new, background, Tail(q))
<1> DEFINE new == [cache EXCEPT ![key] = entry]
           queue == Tail(q)
<1>1. /\ new \in [Keys -> ChartCacheEntry] /\ new[key] = entry
      /\ \A k \in Keys \ {key} : new[k] = cache[k]
  BY DEF Tables
<1>2. q \in Seq(ChartRequest) /\ background \in [Keys -> Nat]
  BY DEF Tables
<1>3. \A i \in 1..Len(q) : q[i].key \in Keys /\ q[i].kind \in ChartRequestKind
  BY <1>2, RequestFields
<1> HIDE DEF new
<1>4. /\ queue \in Seq(ChartRequest) /\ Len(queue) \in Nat /\ 1 \in 1..Len(q)
      /\ \A i \in 1..Len(queue) : i + 1 \in 1..Len(q) /\ queue[i] = q[i + 1]
      /\ \A i \in 1..Len(q) : i # 1 => i - 1 \in 1..Len(queue) /\ queue[i - 1] = q[i]
  BY <1>2, TailFacts
<1> HIDE DEF queue
<1>5. \A i \in 1..Len(queue) : queue[i].key # key
  <2> SUFFICES ASSUME NEW i \in 1..Len(queue), queue[i].key = key PROVE FALSE
    OBVIOUS
  <2>1. i + 1 \in 1..Len(q) /\ q[i + 1].key = key
    BY <1>4
  <2>2. q[i + 1].kind = "Detail" \/ q[i + 1].kind = "Background"
    BY <1>3, <2>1 DEF ChartRequestKind
  <2>3. CASE q[i + 1].kind = "Detail"
    <3>1. i + 1 = 1
      BY <1>4, <2>1, <2>3 DEF Placed, InOrder
    <3> QED BY <3>1
  <2>4. CASE q[i + 1].kind = "Background"
    <3>1. i + 1 < 1
      BY <1>4, <2>1, <2>4 DEF Placed, InOrder
    <3> QED BY <3>1
  <2> QED BY <2>2, <2>3, <2>4
<1>6. Awaited(new, background, queue)
  <2> SUFFICES ASSUME NEW i \in 1..Len(queue)
               PROVE  /\ queue[i].kind = "Background" => background[queue[i].key] = queue[i].id
                      /\ queue[i].kind = "Detail" =>
                           \/ /\ new[queue[i].key].state = "Loading"
                              /\ new[queue[i].key].id = queue[i].id
                           \/ new[queue[i].key].state = "Ready"
    BY DEF Awaited
  <2>1. i + 1 \in 1..Len(q) /\ queue[i] = q[i + 1] /\ queue[i].key \in Keys \ {key}
    BY <1>3, <1>4, <1>5
  <2>2. new[queue[i].key] = cache[queue[i].key]
    BY <1>1, <2>1
  <2> QED BY <2>1, <2>2 DEF Placed, Awaited
<1>7. InOrder(queue)
  BY <1>2, <1>4, TailInOrder DEF Placed, queue
<1>8. \A x : (\E i \in 1..Len(q) : q[i] = x) /\ x.key # key => \E i \in 1..Len(queue) : queue[i] = x
  BY <1>4
<1>9. background[key] = 0
  <2> SUFFICES ASSUME background[key] # 0 PROVE FALSE
    OBVIOUS
  <2>1. PICK i \in 1..Len(q) : q[i] = Request(key, background[key], "Background")
    BY DEF Placed, UnderWay
  <2>2. q[i].key = key /\ q[i].kind = "Background"
    BY <2>1 DEF Request
  <2>3. i # 1
    BY <2>2
  <2>4. i - 1 \in 1..Len(queue) /\ queue[i - 1].key = key
    BY <1>4, <2>2, <2>3
  <2> QED BY <1>5, <2>4
<1>10. UnderWay(new, background, queue)
  <2> SUFFICES ASSUME NEW k \in Keys
               PROVE  /\ background[k] # 0 =>
                           \E i \in 1..Len(queue) :
                             queue[i] = Request(k, background[k], "Background")
                      /\ new[k].state = "Loading" =>
                           \E i \in 1..Len(queue) : queue[i] = Request(k, new[k].id, "Detail")
    BY DEF UnderWay
  <2>1. CASE k = key
    BY <1>1, <1>9, <2>1
  <2>2. CASE k # key
    <3>1. new[k] = cache[k]
      BY <1>1, <2>2
    <3>2. \A n, kind : Request(k, n, kind).key # key
      BY <2>2 DEF Request
    <3>3. ASSUME background[k] # 0
          PROVE  \E i \in 1..Len(queue) : queue[i] = Request(k, background[k], "Background")
      <4>1. \E i \in 1..Len(q) : q[i] = Request(k, background[k], "Background")
        BY <3>3 DEF Placed, UnderWay
      <4> QED BY <1>8, <3>2, <4>1
    <3>4. ASSUME new[k].state = "Loading"
          PROVE  \E i \in 1..Len(queue) : queue[i] = Request(k, new[k].id, "Detail")
      <4>1. \E i \in 1..Len(q) : q[i] = Request(k, new[k].id, "Detail")
        BY <3>1, <3>4 DEF Placed, UnderWay
      <4> QED BY <1>8, <3>2, <4>1
    <3> QED BY <3>3, <3>4
  <2> QED BY <2>1, <2>2
<1>11. NotForFresh(new, background)
  BY <1>1, <1>9 DEF Placed, NotForFresh
<1> QED BY <1>1, <1>2, <1>4, <1>6, <1>7, <1>10, <1>11 DEF Tables, Placed, new, queue

\* The answer to a detail request that is not awaited any more is dropped.
LEMMA DetailDropped ==
  ASSUME NEW cache, NEW background, NEW q, Tables(cache, background, q),
         Placed(cache, background, q), q # <<>>, q[1].kind = "Detail",
         ~(cache[q[1].key].state = "Loading" /\ cache[q[1].key].id = q[1].id)
  PROVE  Tables(cache, background, Tail(q)) /\ Placed(cache, background, Tail(q))
<1> DEFINE queue == Tail(q)
<1>1. q \in Seq(ChartRequest)
  BY DEF Tables
<1>2. /\ queue \in Seq(ChartRequest) /\ Len(queue) \in Nat /\ 1 \in 1..Len(q)
      /\ \A i \in 1..Len(queue) : i + 1 \in 1..Len(q) /\ queue[i] = q[i + 1]
      /\ \A i \in 1..Len(q) : i # 1 => i - 1 \in 1..Len(queue) /\ queue[i - 1] = q[i]
  BY <1>1, TailFacts
<1>3. InOrder(queue)
  BY <1>1, TailInOrder DEF Placed
<1> HIDE DEF queue
<1>4. Awaited(cache, background, queue)
  <2> SUFFICES ASSUME NEW i \in 1..Len(queue)
               PROVE  /\ queue[i].kind = "Background" => background[queue[i].key] = queue[i].id
                      /\ queue[i].kind = "Detail" =>
                           \/ /\ cache[queue[i].key].state = "Loading"
                              /\ cache[queue[i].key].id = queue[i].id
                           \/ cache[queue[i].key].state = "Ready"
    BY DEF Awaited
  <2>1. i + 1 \in 1..Len(q) /\ queue[i] = q[i + 1]
    BY <1>2
  <2> QED BY <2>1 DEF Placed, Awaited
<1>5. UnderWay(cache, background, queue)
  <2> SUFFICES ASSUME NEW k \in Keys
               PROVE  /\ background[k] # 0 =>
                           \E i \in 1..Len(queue) :
                             queue[i] = Request(k, background[k], "Background")
                      /\ cache[k].state = "Loading" =>
                           \E i \in 1..Len(queue) : queue[i] = Request(k, cache[k].id, "Detail")
    BY DEF UnderWay
  <2>1. ASSUME background[k] # 0
        PROVE  \E i \in 1..Len(queue) : queue[i] = Request(k, background[k], "Background")
    <3>1. PICK i \in 1..Len(q) : q[i] = Request(k, background[k], "Background")
      BY <2>1 DEF Placed, UnderWay
    <3>2. i # 1
      BY <3>1 DEF Request
    <3> QED BY <1>2, <3>1, <3>2
  <2>2. ASSUME cache[k].state = "Loading"
        PROVE  \E i \in 1..Len(queue) : queue[i] = Request(k, cache[k].id, "Detail")
    <3>1. PICK i \in 1..Len(q) : q[i] = Request(k, cache[k].id, "Detail")
      BY <2>2 DEF Placed, UnderWay
    <3>2. i # 1
      BY <2>2, <3>1 DEF Request
    <3> QED BY <1>2, <3>1, <3>2
  <2> QED BY <2>1, <2>2
<1> QED BY <1>2, <1>3, <1>4, <1>5 DEF Tables, Placed, queue

\* The answer to a background request is applied, be it an error or candles
\* that a detail screen shows too, or none.
BackgroundChange(cache, key, new) ==
  /\ new \in [Keys -> ChartCacheEntry]
  /\ \A k \in Keys \ {key} : new[k] = cache[k]
  /\ new[key] = cache[key] \/ new[key].state = "Ready"

LEMMA BackgroundSettled ==
  ASSUME NEW cache, NEW background, NEW q, Tables(cache, background, q),
         Placed(cache, background, q),
         q # <<>>, q[1].kind = "Background", NEW key \in Keys, key = q[1].key,
         NEW new, BackgroundChange(cache, key, new)
  PROVE  LET noted == [background EXCEPT ![key] = 0]
         IN Tables(new, noted, Tail(q)) /\ Placed(new, noted, Tail(q))
<1> DEFINE noted == [background EXCEPT ![key] = 0]
           queue == Tail(q)
<1>1. /\ noted \in [Keys -> Nat] /\ noted[key] = 0
      /\ \A k \in Keys \ {key} : noted[k] = background[k]
  BY DEF Tables
<1>2. q \in Seq(ChartRequest) /\ cache \in [Keys -> ChartCacheEntry]
  BY DEF Tables
<1> USE DEF BackgroundChange
<1>3. \A i \in 1..Len(q) : q[i].key \in Keys /\ q[i].kind \in ChartRequestKind
  BY <1>2, RequestFields
<1> HIDE DEF noted
<1>4. /\ queue \in Seq(ChartRequest) /\ Len(queue) \in Nat /\ 1 \in 1..Len(q)
      /\ \A i \in 1..Len(queue) : i \in Nat /\ i + 1 \in 1..Len(q) /\ queue[i] = q[i + 1]
      /\ \A i \in 1..Len(q) : i # 1 => i - 1 \in 1..Len(queue) /\ queue[i - 1] = q[i]
  BY <1>2, TailFacts
<1>5. InOrder(queue)
  BY <1>2, TailInOrder DEF Placed
<1> HIDE DEF queue
<1>6. \A i \in 1..Len(queue) : queue[i].key = key => queue[i].kind = "Detail"
  <2> SUFFICES ASSUME NEW i \in 1..Len(queue), queue[i].key = key, queue[i].kind # "Detail"
               PROVE  FALSE
    OBVIOUS
  <2>1. i + 1 \in 1..Len(q) /\ q[i + 1].key = key /\ q[i + 1].kind = "Background"
    BY <1>3, <1>4 DEF ChartRequestKind
  <2>2. i + 1 = 1
    BY <1>4, <2>1 DEF Placed, InOrder
  <2> QED BY <1>4, <2>2
<1>7. Awaited(new, noted, queue)
  <2> SUFFICES ASSUME NEW i \in 1..Len(queue)
               PROVE  /\ queue[i].kind = "Background" => noted[queue[i].key] = queue[i].id
                      /\ queue[i].kind = "Detail" =>
                           \/ /\ new[queue[i].key].state = "Loading"
                              /\ new[queue[i].key].id = queue[i].id
                           \/ new[queue[i].key].state = "Ready"
    BY DEF Awaited
  <2>1. i + 1 \in 1..Len(q) /\ queue[i] = q[i + 1] /\ queue[i].key \in Keys
    BY <1>3, <1>4
  <2>2. CASE queue[i].key = key
    <3>1. queue[i].kind = "Detail"
      BY <1>6, <2>2
    <3>2. \/ cache[key].state = "Loading" /\ cache[key].id = queue[i].id
          \/ cache[key].state = "Ready"
      BY <2>1, <2>2, <3>1 DEF Placed, Awaited
    <3> QED BY <2>2, <3>1, <3>2
  <2>3. CASE queue[i].key # key
    <3>1. new[queue[i].key] = cache[queue[i].key] /\ noted[queue[i].key] = background[queue[i].key]
      BY <1>1, <2>1, <2>3
    <3> QED BY <2>1, <3>1 DEF Placed, Awaited
  <2> QED BY <2>2, <2>3
<1>8. UnderWay(new, noted, queue)
  <2> SUFFICES ASSUME NEW k \in Keys
               PROVE  /\ noted[k] # 0 =>
                           \E i \in 1..Len(queue) : queue[i] = Request(k, noted[k], "Background")
                      /\ new[k].state = "Loading" =>
                           \E i \in 1..Len(queue) : queue[i] = Request(k, new[k].id, "Detail")
    BY DEF UnderWay
  <2>1. ASSUME noted[k] # 0
        PROVE  \E i \in 1..Len(queue) : queue[i] = Request(k, noted[k], "Background")
    <3>1. k # key /\ noted[k] = background[k]
      BY <1>1, <2>1
    <3>2. PICK i \in 1..Len(q) : q[i] = Request(k, background[k], "Background")
      BY <2>1, <3>1 DEF Placed, UnderWay
    <3>3. i # 1
      BY <3>1, <3>2 DEF Request
    <3> QED BY <1>4, <3>1, <3>2, <3>3
  <2>2. ASSUME new[k].state = "Loading"
        PROVE  \E i \in 1..Len(queue) : queue[i] = Request(k, new[k].id, "Detail")
    <3>1. new[k] = cache[k]
      BY <2>2
    <3>2. PICK i \in 1..Len(q) : q[i] = Request(k, cache[k].id, "Detail")
      BY <2>2, <3>1 DEF Placed, UnderWay
    <3>3. i # 1
      BY <3>2 DEF Request
    <3> QED BY <1>4, <3>1, <3>2, <3>3
  <2> QED BY <2>1, <2>2
<1>9. NotForFresh(new, noted)
  <2> SUFFICES ASSUME NEW k \in Keys, noted[k] # 0, new[k].state = "Ready" PROVE FALSE
    BY DEF NotForFresh
  <2>1. k # key /\ background[k] # 0 /\ cache[k].state = "Ready"
    BY <1>1
  <2> QED BY <2>1 DEF Placed, NotForFresh
<1> QED BY <1>1, <1>4, <1>5, <1>7, <1>8, <1>9 DEF Tables, Placed, noted, queue

-----------------------------------------------------------------------------
(* Numbers of requests.                                                    *)

LEMMA FiniteImage ==
  ASSUME NEW S, IsFiniteSet(S), NEW T, NEW f \in [S -> T], \A t \in T : \E s \in S : f[s] = t
  PROVE  IsFiniteSet(T)
BY Fun_IsSurj, FS_Surjection

LEMMA ElementsFinite ==
  ASSUME NEW A, NEW q \in Seq(A)
  PROVE  IsFiniteSet(Elements(q)) /\ Elements(q) \subseteq A
<1>1. Len(q) \in Nat /\ q \in [1..Len(q) -> Elements(q)]
  BY DEF Elements
<1>2. IsFiniteSet(1..Len(q))
  BY <1>1, FS_Interval
<1>3. \A x \in Elements(q) : \E i \in 1..Len(q) : q[i] = x
  BY DEF Elements
<1>4. IsFiniteSet(Elements(q))
  BY <1>1, <1>2, <1>3, FiniteImage
<1> QED BY <1>4 DEF Elements

LEMMA ChartNumber ==
  ASSUME chart_events \in Seq(ChartDataEvent), NEW asking, asking.control \in Seq(ChartRequest),
         NEW key, NEW kind
  PROVE  NextId(asking, key, kind) \in Nat \ {0}
<1> DEFINE all == Elements(asking.control) \cup Elements(chart_events)
           mine == {q \in all : q.key = key /\ q.kind = kind}
           ids == ChartIds(asking.control, key, kind)
           number == [r \in mine |-> r.id]
<1>1. IsFiniteSet(all)
  BY ElementsFinite, FS_Union
<1>2. IsFiniteSet(mine)
  BY <1>1, FS_Subset
<1>3. ids = {r.id : r \in mine}
  BY DEF ChartIds
<1>4. number \in [mine -> ids] /\ \A t \in ids : \E r \in mine : number[r] = t
  BY <1>3
<1>5. IsFiniteSet(ids)
  <2> HIDE DEF number, ids, mine
  <2> QED BY <1>2, <1>4, FiniteImage
<1> QED BY <1>5, FreeNumber DEF NextId

LEMMA AnalysisNumber ==
  ASSUME analysis_events \in Seq(AnalysisDataEvent), NEW control \in Seq(AnalysisRequest),
         NEW symbol
  PROVE  LET id == LeastFree(AnalysisIds(control, symbol))
         IN /\ id \in Nat \ {0}
            /\ \A r \in Elements(control) \cup Elements(analysis_events) :
                 r.symbol = symbol => r.id # id
<1> DEFINE all == Elements(control) \cup Elements(analysis_events)
           mine == {q \in all : q.symbol = symbol}
           ids == AnalysisIds(control, symbol)
           number == [r \in mine |-> r.id]
<1>1. IsFiniteSet(all)
  BY ElementsFinite, FS_Union
<1>2. IsFiniteSet(mine)
  BY <1>1, FS_Subset
<1>3. ids = {r.id : r \in mine}
  BY DEF AnalysisIds
<1>4. number \in [mine -> ids] /\ \A t \in ids : \E r \in mine : number[r] = t
  BY <1>3
<1>5. IsFiniteSet(ids)
  <2> HIDE DEF number, ids, mine
  <2> QED BY <1>2, <1>4, FiniteImage
<1>6. LeastFree(ids) \in Nat \ {0} /\ LeastFree(ids) \notin ids
  BY <1>5, FreeNumber
<1>7. \A r \in all : r.symbol = symbol => r.id \in ids
  BY <1>3
<1> QED BY <1>6, <1>7

-----------------------------------------------------------------------------
(* Asking for charts in a handler.                                         *)

LEMMA ConcatFacts ==
  ASSUME NEW A, NEW a \in Seq(A), NEW c \in Seq(A)
  PROVE  /\ a \o c \in Seq(A)
         /\ \A r \in A : a \o Append(c, r) = Append(a \o c, r) /\ Append(c, r) \in Seq(A)
         /\ c # <<>> => /\ Append(a, Head(c)) \o Tail(c) = a \o c
                        /\ Tail(c) \in Seq(A) /\ Head(c) \in A
         /\ a # <<>> => /\ Tail(a) \o c = Tail(a \o c) /\ a \o c # <<>> /\ (a \o c)[1] = a[1]
<1>1. a \o c \in Seq(A)
  OBVIOUS
<1>2. ASSUME NEW r \in A
      PROVE  a \o Append(c, r) = Append(a \o c, r) /\ Append(c, r) \in Seq(A)
  <2>1. Append(c, r) \in Seq(A) /\ Append(a \o c, r) \in Seq(A) /\ a \o Append(c, r) \in Seq(A)
    OBVIOUS
  <2>2. Len(a \o Append(c, r)) = Len(Append(a \o c, r))
    OBVIOUS
  <2>3. \A i \in 1..Len(a \o Append(c, r)) : (a \o Append(c, r))[i] = Append(a \o c, r)[i]
    OBVIOUS
  <2> QED BY <2>1, <2>2, <2>3, SeqEqual
<1>3. ASSUME c # <<>>
      PROVE  /\ Append(a, Head(c)) \o Tail(c) = a \o c
             /\ Tail(c) \in Seq(A) /\ Head(c) \in A
  <2>1. Tail(c) \in Seq(A) /\ Head(c) \in A /\ Append(a, Head(c)) \in Seq(A)
    BY <1>3
  <2>2. Append(a, Head(c)) \o Tail(c) \in Seq(A)
    BY <2>1
  <2>3. Len(Append(a, Head(c)) \o Tail(c)) = Len(a \o c)
    BY <1>3, <2>1
  <2>4. \A i \in 1..Len(a \o c) : (Append(a, Head(c)) \o Tail(c))[i] = (a \o c)[i]
    BY <1>3, <2>1
  <2> QED BY <1>1, <2>1, <2>2, <2>3, <2>4, SeqEqual
<1>4. ASSUME a # <<>>
      PROVE  Tail(a) \o c = Tail(a \o c) /\ a \o c # <<>> /\ (a \o c)[1] = a[1]
  <2>1. a \o c # <<>> /\ (a \o c)[1] = a[1] /\ Tail(a) \in Seq(A)
    BY <1>4
  <2>2. Tail(a) \o c \in Seq(A) /\ Tail(a \o c) \in Seq(A)
    BY <1>1, <2>1
  <2>3. Len(Tail(a) \o c) = Len(Tail(a \o c))
    BY <1>4, <2>1
  <2>4. \A i \in 1..Len(Tail(a) \o c) : (Tail(a) \o c)[i] = Tail(a \o c)[i]
    BY <1>4, <2>1
  <2> QED BY <2>1, <2>2, <2>3, <2>4, SeqEqual
<1> QED BY <1>1, <1>2, <1>3, <1>4

LEMMA KeyOrderFacts ==
  /\ Len(KeyOrder) \in Nat
  /\ \A i \in 1..Len(KeyOrder) : KeyOrder[i] \in Keys
<1> DEFINE m == Len(SymbolOrder)
           n == Len(RangeOrder)
<1>1. m \in Nat /\ n \in Nat
  BY OrderAssumption
<1>2. (\A i \in 1..m : SymbolOrder[i] \in Symbols) /\ (\A i \in 1..n : RangeOrder[i] \in Ranges)
  BY DEF Symbols, Ranges, Elements
<1>3. m * n \in Nat
  BY <1>1
<1>4. ASSUME NEW i \in 1..(m * n)
      PROVE  ((i - 1) \div n) + 1 \in 1..m /\ ((i - 1) % n) + 1 \in 1..n
  <2> DEFINE d == (i - 1) \div n
             e == (i - 1) % n
  <2>1. n > 0
    <3>1. n = 0 => m * n = 0
      BY <1>1
    <3> QED BY <1>1, <3>1
  <2>2. d \in Int /\ e \in 0..(n - 1) /\ i - 1 = n * d + e
    BY <1>1, <1>3, <2>1
  <2> HIDE DEF d, e
  <2>3. d >= 0
    <3>1. SUFFICES ASSUME d <= -1 PROVE FALSE
      BY <2>2
    <3>2. n * d <= -n
      BY <1>1, <2>1, <2>2, <3>1
    <3> QED BY <1>1, <1>3, <2>2, <3>2
  <2>4. d < m
    <3>1. SUFFICES ASSUME d >= m PROVE FALSE
      BY <1>1, <2>2
    <3>2. n * d >= n * m
      BY <1>1, <2>1, <2>2, <3>1
    <3>3. n * m = m * n
      BY <1>1
    <3> QED BY <1>1, <1>3, <2>2, <3>2, <3>3
  <2> QED BY <1>1, <2>2, <2>3, <2>4 DEF d, e
<1>5. KeyOrder = [i \in 1..(m * n) |->
                    <<SymbolOrder[((i - 1) \div n) + 1], RangeOrder[((i - 1) % n) + 1]>>]
  BY DEF KeyOrder
<1>6. \A i \in 1..(m * n) : KeyOrder[i] \in Keys
  <2> TAKE i \in 1..(m * n)
  <2>1. KeyOrder[i] = <<SymbolOrder[((i - 1) \div n) + 1], RangeOrder[((i - 1) % n) + 1]>>
    BY <1>5
  <2>2. SymbolOrder[((i - 1) \div n) + 1] \in Symbols /\ RangeOrder[((i - 1) % n) + 1] \in Ranges
    BY <1>2, <1>4
  <2> QED BY <2>1, <2>2 DEF Keys
<1>7. KeyOrder \in [1..(m * n) -> Keys]
  BY <1>5, <1>6
<1> HIDE DEF m, n
<1>8. KeyOrder \in Seq(Keys) /\ Len(KeyOrder) = m * n
  BY <1>3, <1>7
<1> QED BY <1>3, <1>6, <1>8

AskingGood(asking) ==
  /\ asking \in [cache : {chart_cache}, background : [Keys -> Nat],
                 control : Seq(ChartRequest), queued : Nat]
  /\ Tables(chart_cache, asking.background, AnsweredCharts \o asking.control)
  /\ Placed(chart_cache, asking.background, AnsweredCharts \o asking.control)

LEMMA QueueBackgroundKeeps ==
  ASSUME chart_events \in Seq(ChartDataEvent), AnsweredCharts \in Seq(ChartRequest),
         NEW asking, AskingGood(asking), NEW key \in Keys
  PROVE  AskingGood(QueueBackground(asking, key))
<1> DEFINE id == NextId(asking, key, "Background")
           r == [key |-> key, id |-> id, kind |-> "Background"]
<1>1. CASE BackgroundRefused(key, asking.cache[key], asking.background[key])
  BY <1>1 DEF QueueBackground
<1>2. CASE ~BackgroundRefused(key, asking.cache[key], asking.background[key])
  <2> DEFINE b == [asking.background EXCEPT ![key] = id]
             c == Append(asking.control, r)
  <2>1. /\ asking.cache = chart_cache /\ asking.background \in [Keys -> Nat]
        /\ asking.control \in Seq(ChartRequest) /\ asking.queued \in Nat
        /\ asking = [cache |-> asking.cache, background |-> asking.background,
                     control |-> asking.control, queued |-> asking.queued]
    BY DEF AskingGood
  <2>2. id \in Nat \ {0}
    BY <2>1, ChartNumber
  <2> HIDE DEF id
  <2>3. QueueBackground(asking, key) =
          [cache |-> chart_cache, background |-> b, control |-> c, queued |-> asking.queued + 1]
    BY <1>2, <2>1 DEF QueueBackground, id
  <2>4. asking.background[key] = 0 /\ chart_cache[key].state \notin {"Loading", "Ready"}
    BY <1>2, <2>1 DEF BackgroundRefused
  <2>5. LET q == Append(AnsweredCharts \o asking.control, Request(key, id, "Background"))
        IN Tables(chart_cache, b, q) /\ Placed(chart_cache, b, q)
    BY <2>2, <2>4, BackgroundPlaced DEF AskingGood
  <2>6. r \in ChartRequest /\ r = Request(key, id, "Background")
    BY <2>2 DEF ChartRequest, ChartRequestKind, Request
  <2> HIDE DEF r
  <2>7. /\ AnsweredCharts \o c = Append(AnsweredCharts \o asking.control, r)
        /\ c \in Seq(ChartRequest)
    BY <2>1, <2>6, ConcatFacts
  <2>8. b \in [Keys -> Nat]
    BY <2>1, <2>2
  <2> HIDE DEF b, c
  <2>9. Tables(chart_cache, b, AnsweredCharts \o c)
        /\ Placed(chart_cache, b, AnsweredCharts \o c)
    BY <2>5, <2>6, <2>7 DEF b
  <2> DEFINE new == [cache |-> chart_cache, background |-> b, control |-> c,
                     queued |-> asking.queued + 1]
  <2>10. /\ new \in [cache : {chart_cache}, background : [Keys -> Nat],
                     control : Seq(ChartRequest), queued : Nat]
         /\ new.background = b /\ new.control = c
    BY <2>1, <2>7, <2>8
  <2> HIDE DEF new
  <2>11. AskingGood(new)
    BY <2>9, <2>10 DEF AskingGood
  <2> QED BY <2>3, <2>11 DEF new
<1> QED BY <1>1, <1>2

LEMMA BackgroundChartsKeep ==
  ASSUME chart_events \in Seq(ChartDataEvent), AnsweredCharts \in Seq(ChartRequest),
         AskingGood(Asking), NEW symbols
  PROVE  AskingGood(queue_background_chart_requests(symbols))
<1> DEFINE after == ChartsAskedFor(symbols)
           Bad == {i \in 0..Len(KeyOrder) : ~AskingGood(after[i])}
<1>1. Len(KeyOrder) \in Nat /\ \A i \in 1..Len(KeyOrder) : KeyOrder[i] \in Keys
  BY KeyOrderFacts
<1>2. SUFFICES ASSUME Bad # {} PROVE FALSE
  BY <1>1 DEF queue_background_chart_requests
<1>3. PICK i \in Bad : \A j \in Bad : i <= j
  <2>1. Bad \subseteq Nat
    BY <1>1
  <2> HIDE DEF Bad
  <2> QED BY <1>2, <2>1, LeastNumber
<1>4. i \in 0..Len(KeyOrder) /\ ~AskingGood(after[i])
  BY <1>3
<1>5. i # 0
  <2>1. i = 0 => after[i] = Asking
    BY <1>1, <1>4, ChartLoop
  <2> QED BY <1>4, <2>1
<1>6. AskingGood(after[i - 1])
  <2>1. i - 1 \in 0..Len(KeyOrder) /\ i - 1 < i
    BY <1>1, <1>4, <1>5
  <2> QED BY <1>1, <1>3, <2>1
<1>7. after[i] = AskChart(after[i - 1], KeyOrder[i], symbols)
  BY <1>1, <1>4, <1>5, ChartLoop
<1>8. KeyOrder[i] \in Keys
  BY <1>1, <1>4, <1>5
<1> HIDE DEF after, Bad
<1>9. AskingGood(after[i])
  <2>1. AskingGood(QueueBackground(after[i - 1], KeyOrder[i]))
    BY <1>6, <1>8, QueueBackgroundKeeps
  <2> QED BY <1>6, <1>7, <2>1 DEF AskChart, WithinBudget
<1> QED BY <1>4, <1>9

-----------------------------------------------------------------------------
(* The invariant of the charts.                                            *)

ChartInv ==
  /\ chart_summary_cache \in [Keys -> Candles]
  /\ chart_control \in Seq(ChartRequest) /\ chart_events \in Seq(ChartDataEvent)
  /\ Tables(chart_cache, background_chart_requests, ChartRequests)
  /\ Placed(chart_cache, background_chart_requests, ChartRequests)
  /\ \A k \in Keys : chart_cache[k].candles \in {"none", chart_summary_cache[k]}

RequestOf(event) == [key |-> event.key, id |-> event.id, kind |-> event.kind]

LEMMA AnsweredFacts ==
  ASSUME NEW events \in Seq(ChartDataEvent)
  PROVE  LET answered == [i \in 1..Len(events) |-> RequestOf(events[i])]
         IN /\ answered \in Seq(ChartRequest) /\ Len(answered) = Len(events)
            /\ \A i \in 1..Len(events) :
                 /\ events[i] \in ChartDataEvent /\ events[i].key \in Keys
                 /\ events[i].kind \in ChartRequestKind /\ events[i].id \in Nat \ {0}
                 /\ answered[i].key = events[i].key /\ answered[i].id = events[i].id
                 /\ answered[i].kind = events[i].kind
<1> DEFINE answered == [i \in 1..Len(events) |-> RequestOf(events[i])]
<1>1. \A i \in 1..Len(events) : events[i] \in ChartDataEvent
  OBVIOUS
<1>2. \A i \in 1..Len(events) :
        /\ events[i].key \in Keys /\ events[i].kind \in ChartRequestKind
        /\ events[i].id \in Nat \ {0}
  BY <1>1 DEF ChartDataEvent
<1>3. \A i \in 1..Len(events) : RequestOf(events[i]) \in ChartRequest
  BY <1>2 DEF RequestOf, ChartRequest
<1>4. answered \in [1..Len(events) -> ChartRequest] /\ Len(events) \in Nat
  BY <1>3
<1>5. answered \in Seq(ChartRequest) /\ Len(answered) = Len(events)
  <2> HIDE DEF answered
  <2> QED BY <1>4
<1>6. \A i \in 1..Len(events) : /\ answered[i].key = events[i].key /\ answered[i].id = events[i].id
                               /\ answered[i].kind = events[i].kind
  BY DEF RequestOf
<1> QED BY <1>1, <1>2, <1>5, <1>6

LEMMA AnsweredIs == AnsweredCharts = [i \in 1..Len(chart_events) |-> RequestOf(chart_events[i])]
BY DEF AnsweredCharts, RequestOf

LEMMA AnsweredType ==
  ASSUME ChartInv
  PROVE  AnsweredCharts \in Seq(ChartRequest)
BY AnsweredFacts, AnsweredIs DEF ChartInv

LEMMA AskedKeeps ==
  ASSUME ChartInv, NEW asking, Asked(asking), asking.control \in Seq(ChartRequest),
         Tables(asking.cache, asking.background, AnsweredCharts \o asking.control),
         Placed(asking.cache, asking.background, AnsweredCharts \o asking.control),
         \A k \in Keys : asking.cache[k].candles = chart_cache[k].candles
  PROVE  ChartInv'
<1>1. /\ chart_cache' = asking.cache /\ background_chart_requests' = asking.background
      /\ chart_control' = asking.control /\ chart_summary_cache' = chart_summary_cache
      /\ chart_events' = chart_events
  BY DEF Asked
<1>2. AnsweredCharts' = AnsweredCharts
  BY <1>1 DEF AnsweredCharts
<1>3. ChartRequests' = AnsweredCharts \o asking.control
  BY <1>1, <1>2 DEF ChartRequests
<1>4. /\ Tables(chart_cache', background_chart_requests', ChartRequests')
      /\ Placed(chart_cache', background_chart_requests', ChartRequests')
  BY <1>1, <1>3
<1>5. \A k \in Keys : chart_cache'[k].candles \in {"none", chart_summary_cache'[k]}
  BY <1>1 DEF ChartInv
<1>6. /\ chart_summary_cache' \in [Keys -> Candles]
      /\ chart_control' \in Seq(ChartRequest) /\ chart_events' \in Seq(ChartDataEvent)
  BY <1>1 DEF ChartInv
<1> QED BY <1>4, <1>5, <1>6 DEF ChartInv, Tables, Placed, Awaited, UnderWay, NotForFresh

LEMMA AskingStarts ==
  ASSUME ChartInv
  PROVE  AskingGood(Asking)
<1>1. /\ background_chart_requests \in [Keys -> Nat] /\ chart_control \in Seq(ChartRequest)
  BY DEF ChartInv, Tables
<1>2. /\ Asking \in [cache : {chart_cache}, background : [Keys -> Nat],
                     control : Seq(ChartRequest), queued : Nat]
      /\ Asking.background = background_chart_requests /\ Asking.control = chart_control
  BY <1>1 DEF Asking
<1> QED BY <1>2 DEF AskingGood, ChartInv, ChartRequests

LEMMA BatchKeepsCharts ==
  ASSUME ChartInv, NEW symbols, Asked(queue_background_chart_requests(symbols))
  PROVE  ChartInv' /\ chart_cache' = chart_cache
<1> DEFINE asking == queue_background_chart_requests(symbols)
<1>1. AskingGood(asking)
  BY AskingStarts, AnsweredType, BackgroundChartsKeep DEF ChartInv
<1> HIDE DEF asking
<1>2. asking.cache = chart_cache /\ asking.control \in Seq(ChartRequest)
  BY <1>1 DEF AskingGood
<1>3. ChartInv'
  BY <1>1, <1>2, AskedKeeps DEF AskingGood, asking
<1> QED BY <1>2, <1>3 DEF Asked, asking

FreshStay ==
  \A k \in Keys : chart_cache[k].state = "Ready" => chart_cache'[k] = chart_cache[k]

\* The request for a chart is refused or leaves a Loading entry.
LEMMA OpeningKeepsCharts ==
  ASSUME ChartInv, NEW key \in Keys, Asked(QueueDetail(Asking, key))
  PROVE  ChartInv' /\ FreshStay
<1> DEFINE id == NextId(Asking, key, "Detail")
           r == Request(key, id, "Detail")
           c == [chart_cache EXCEPT ![key] = Loading(id, chart_cache[key].candles)]
           q == Append(chart_control, r)
<1>1. /\ Asking.cache = chart_cache /\ Asking.background = background_chart_requests
      /\ Asking.control = chart_control
  BY DEF Asking
<1>2. /\ chart_cache \in [Keys -> ChartCacheEntry] /\ chart_control \in Seq(ChartRequest)
      /\ chart_events \in Seq(ChartDataEvent) /\ AnsweredCharts \in Seq(ChartRequest)
  BY AnsweredType DEF ChartInv, Tables
<1>3. id \in Nat \ {0}
  BY <1>1, <1>2, ChartNumber
<1> HIDE DEF id
<1>4. CASE DetailRefused(chart_cache[key])
  <2>1. QueueDetail(Asking, key) = Asking
    BY <1>1, <1>4 DEF QueueDetail
  <2>2. ChartInv'
    BY <1>1, <1>2, <2>1, AskedKeeps DEF ChartInv, ChartRequests
  <2> QED BY <1>1, <2>1, <2>2 DEF Asked, FreshStay
<1>5. CASE ~DetailRefused(chart_cache[key])
  <2> DEFINE new == QueueDetail(Asking, key)
  <2>1. new = [cache |-> c, background |-> background_chart_requests, control |-> q, queued |-> 0]
    BY <1>1, <1>5 DEF QueueDetail, Asking, id, Request
  <2>2. new.cache = c /\ new.background = background_chart_requests /\ new.control = q
    BY <2>1
  <2>3. chart_cache[key].state \notin {"Loading", "Ready"}
    BY <1>5 DEF DetailRefused
  <2>4. LET queue == Append(ChartRequests, r)
        IN /\ Tables(c, background_chart_requests, queue)
           /\ Placed(c, background_chart_requests, queue)
    BY <1>3, <2>3, DetailPlaced DEF ChartInv
  <2>5. r \in ChartRequest
    BY <1>3 DEF Request, ChartRequest, ChartRequestKind
  <2> HIDE DEF r
  <2>6. Append(ChartRequests, r) = AnsweredCharts \o q /\ q \in Seq(ChartRequest)
    <3>1. \A x \in ChartRequest :
            /\ AnsweredCharts \o Append(chart_control, x) = Append(AnsweredCharts \o chart_control, x)
            /\ Append(chart_control, x) \in Seq(ChartRequest)
      BY <1>2, ConcatFacts
    <3> QED BY <2>5, <3>1 DEF ChartRequests
  <2>7. /\ \A k \in Keys : c[k].candles = chart_cache[k].candles
        /\ \A k \in Keys : k # key => c[k] = chart_cache[k]
    BY <1>2 DEF Loading
  <2> HIDE DEF new, c, q
  <2>8. Asked(new)
    BY DEF new
  <2>9. /\ Tables(new.cache, new.background, AnsweredCharts \o new.control)
        /\ Placed(new.cache, new.background, AnsweredCharts \o new.control)
    BY <2>2, <2>4, <2>6
  <2>10. ChartInv'
    BY <2>2, <2>6, <2>7, <2>8, <2>9, AskedKeeps
  <2>11. chart_cache' = c
    BY <2>2, <2>8 DEF Asked
  <2> QED BY <2>3, <2>7, <2>10, <2>11 DEF FreshStay
<1> QED BY <1>4, <1>5

LEMMA FetchingKeepsCharts ==
  ASSUME ChartInv, NEW ok \in BOOLEAN, ChartFetched(ok)
  PROVE  ChartInv' /\ chart_cache' = chart_cache
<1> DEFINE r == Head(chart_control)
           event == [key |-> r.key, id |-> r.id, kind |-> r.kind, ok |-> ok]
<1>1. /\ chart_control # <<>> /\ chart_events' = Append(chart_events, event)
      /\ chart_control' = Tail(chart_control)
      /\ UNCHANGED <<chart_cache, chart_summary_cache, background_chart_requests>>
  BY DEF ChartFetched
<1>2. /\ chart_control \in Seq(ChartRequest) /\ chart_events \in Seq(ChartDataEvent)
      /\ AnsweredCharts \in Seq(ChartRequest)
  BY AnsweredType DEF ChartInv
<1>3. r \in ChartRequest /\ Tail(chart_control) \in Seq(ChartRequest)
  BY <1>1, <1>2
<1> HIDE DEF r
<1>4. event \in ChartDataEvent /\ RequestOf(event) = r
  BY <1>3 DEF ChartDataEvent, ChartRequest, RequestOf
<1> HIDE DEF event
<1>5. AnsweredCharts' = Append(AnsweredCharts, r)
  <2>1. /\ chart_events' \in Seq(ChartDataEvent) /\ Len(chart_events') = Len(chart_events) + 1
        /\ \A i \in 1..Len(chart_events) : chart_events'[i] = chart_events[i]
        /\ chart_events'[Len(chart_events) + 1] = event
    BY <1>1, <1>2, <1>4
  <2>2. AnsweredCharts' = [i \in 1..Len(chart_events') |-> RequestOf(chart_events'[i])]
    BY DEF AnsweredCharts, RequestOf
  <2>3. /\ AnsweredCharts' \in Seq(ChartRequest) /\ Len(AnsweredCharts') = Len(chart_events) + 1
        /\ Len(AnsweredCharts) = Len(chart_events)
    BY <1>2, <2>1, <2>2, AnsweredFacts, AnsweredIs
  <2>4. \A i \in 1..Len(AnsweredCharts') : AnsweredCharts'[i] = Append(AnsweredCharts, r)[i]
    <3> SUFFICES ASSUME NEW i \in 1..Len(AnsweredCharts')
                 PROVE  AnsweredCharts'[i] = Append(AnsweredCharts, r)[i]
      OBVIOUS
    <3>1. CASE i \in 1..Len(chart_events)
      <4>1. AnsweredCharts'[i] = RequestOf(chart_events[i])
        BY <2>1, <2>2, <2>3, <3>1
      <4>2. AnsweredCharts[i] = RequestOf(chart_events[i])
        BY <3>1, AnsweredIs
      <4> QED BY <1>2, <1>3, <2>3, <3>1, <4>1, <4>2
    <3>2. CASE i = Len(chart_events) + 1
      <4>1. AnsweredCharts'[i] = RequestOf(event)
        BY <2>1, <2>2, <2>3, <3>2
      <4> QED BY <1>2, <1>3, <1>4, <2>3, <3>2, <4>1
    <3> QED BY <2>3, <3>1, <3>2
  <2>5. Append(AnsweredCharts, r) \in Seq(ChartRequest)
        /\ Len(Append(AnsweredCharts, r)) = Len(AnsweredCharts')
    BY <1>2, <1>3, <2>3
  <2> QED BY <2>3, <2>4, <2>5, SeqEqual
<1>6. ChartRequests' = ChartRequests
  BY <1>1, <1>2, <1>5, ConcatFacts DEF ChartRequests, r
<1>7. chart_control' \in Seq(ChartRequest) /\ chart_events' \in Seq(ChartDataEvent)
  BY <1>1, <1>2, <1>3, <1>4
<1> QED BY <1>1, <1>6, <1>7 DEF ChartInv, Tables, Placed, Awaited, UnderWay, NotForFresh

\* The answers: the oldest one is that to the oldest request.
LEMMA OldestAnswer ==
  ASSUME ChartInv, chart_events # <<>>, chart_events' = Tail(chart_events),
         chart_control' = chart_control
  PROVE  LET event == Head(chart_events)
         IN /\ event \in ChartDataEvent /\ event.key \in Keys /\ event.id \in Nat \ {0}
            /\ event.kind \in ChartRequestKind
            /\ ChartRequests # <<>>
            /\ ChartRequests[1].key = event.key /\ ChartRequests[1].id = event.id
            /\ ChartRequests[1].kind = event.kind
            /\ ChartRequests' = Tail(ChartRequests)
            /\ chart_events' \in Seq(ChartDataEvent)
<1>1. /\ chart_control \in Seq(ChartRequest) /\ chart_events \in Seq(ChartDataEvent)
      /\ AnsweredCharts \in Seq(ChartRequest)
  BY AnsweredType DEF ChartInv
<1>2. /\ 1 \in 1..Len(chart_events) /\ Head(chart_events) = chart_events[1]
      /\ Len(chart_events) \in Nat /\ chart_events' \in Seq(ChartDataEvent)
      /\ Len(chart_events') = Len(chart_events) - 1
      /\ \A i \in 1..Len(chart_events') : chart_events'[i] = chart_events[i + 1]
  BY <1>1
<1>3. LET event == Head(chart_events)
      IN /\ event \in ChartDataEvent /\ event.key \in Keys /\ event.id \in Nat \ {0}
         /\ event.kind \in ChartRequestKind
         /\ AnsweredCharts[1].key = event.key /\ AnsweredCharts[1].id = event.id
         /\ AnsweredCharts[1].kind = event.kind /\ Len(AnsweredCharts) = Len(chart_events)
  BY <1>1, <1>2, AnsweredFacts, AnsweredIs
<1>4. AnsweredCharts' = Tail(AnsweredCharts)
  <2>1. AnsweredCharts' = [i \in 1..Len(chart_events') |-> RequestOf(chart_events'[i])]
    BY DEF AnsweredCharts, RequestOf
  <2>2. AnsweredCharts' \in Seq(ChartRequest) /\ Len(AnsweredCharts') = Len(chart_events) - 1
    BY <1>2, <2>1, AnsweredFacts
  <2>3. /\ Tail(AnsweredCharts) \in Seq(ChartRequest)
        /\ Len(Tail(AnsweredCharts)) = Len(chart_events) - 1
        /\ \A i \in 1..(Len(chart_events) - 1) : Tail(AnsweredCharts)[i] = AnsweredCharts[i + 1]
    BY <1>1, <1>2, <1>3
  <2>4. ASSUME NEW i \in 1..(Len(chart_events) - 1)
        PROVE  AnsweredCharts'[i] = Tail(AnsweredCharts)[i]
    <3>1. AnsweredCharts'[i] = RequestOf(chart_events[i + 1])
      BY <1>2, <2>1, <2>4
    <3>2. i + 1 \in 1..Len(chart_events)
      BY <1>2, <2>4
    <3>3. AnsweredCharts[i + 1] = RequestOf(chart_events[i + 1])
      BY <3>2, AnsweredIs
    <3> QED BY <2>3, <3>1, <3>3
  <2> QED BY <2>2, <2>3, <2>4, SeqEqual
<1>5. AnsweredCharts # <<>>
  BY <1>1, <1>2, <1>3
<1>6. /\ ChartRequests' = Tail(ChartRequests) /\ ChartRequests # <<>>
      /\ ChartRequests[1] = AnsweredCharts[1]
  BY <1>1, <1>4, <1>5, ConcatFacts DEF ChartRequests
<1> QED BY <1>2, <1>3, <1>6

\* Good candles of a key replace the summary and the stored chart.
KeptWell ==
  /\ chart_summary_cache' \in [Keys -> Candles]
  /\ \A k \in Keys : chart_cache'[k].candles \in {"none", chart_summary_cache'[k]}

PlacedWell ==
  /\ Tables(chart_cache', background_chart_requests', ChartRequests')
  /\ Placed(chart_cache', background_chart_requests', ChartRequests')

LEMMA Keeping ==
  ASSUME chart_summary_cache \in [Keys -> Candles], NEW key \in Keys, NEW candles \in Fetched,
         \A k \in Keys : chart_cache[k].candles \in {"none", chart_summary_cache[k]},
         Keep(key, candles), \A k \in Keys \ {key} : chart_cache'[k] = chart_cache[k],
         chart_cache'[key].candles \in {"none", candles}
  PROVE  KeptWell
<1>1. candles \in Candles
  BY DEF Candles
<1>2. /\ chart_summary_cache' \in [Keys -> Candles]
      /\ chart_summary_cache'[key] = candles
      /\ \A k \in Keys \ {key} : chart_summary_cache'[k] = chart_summary_cache[k]
  BY <1>1 DEF Keep
<1> QED BY <1>1, <1>2 DEF KeptWell

LEMMA ApplyingKeepsCharts ==
  ASSUME ChartInv, apply_chart_data
  PROVE  ChartInv' /\ FreshStay
<1> DEFINE event == Head(chart_events)
           key == event.key
<1>1. /\ chart_events # <<>> /\ chart_events' = Tail(chart_events)
      /\ chart_control' = chart_control
      /\ event.kind = "Detail" => ApplyDetail(event)
      /\ event.kind # "Detail" => ApplyBackground(event)
  BY DEF apply_chart_data
<1>2. /\ event \in ChartDataEvent /\ key \in Keys /\ event.id \in Nat \ {0}
      /\ event.kind \in ChartRequestKind /\ ChartRequests # <<>>
      /\ ChartRequests[1].key = key /\ ChartRequests[1].id = event.id
      /\ ChartRequests[1].kind = event.kind
      /\ ChartRequests' = Tail(ChartRequests) /\ chart_events' \in Seq(ChartDataEvent)
  BY <1>1, OldestAnswer
<1> HIDE DEF event
<1>3. /\ chart_cache \in [Keys -> ChartCacheEntry]
      /\ background_chart_requests \in [Keys -> Nat]
      /\ chart_summary_cache \in [Keys -> Candles] /\ chart_control \in Seq(ChartRequest)
      /\ Tables(chart_cache, background_chart_requests, ChartRequests)
      /\ Placed(chart_cache, background_chart_requests, ChartRequests)
      /\ \A k \in Keys : chart_cache[k].candles \in {"none", chart_summary_cache[k]}
  BY DEF ChartInv, Tables
<1> SUFFICES KeptWell /\ PlacedWell /\ FreshStay
  BY <1>1, <1>2, <1>3
     DEF ChartInv, KeptWell, PlacedWell, FreshStay, Tables, Placed, Awaited, UnderWay, NotForFresh
<1>4. CASE event.kind = "Detail" /\ DetailIsAwaited(event)
  <2>1. chart_cache[key].state = "Loading" /\ background_chart_requests' = background_chart_requests
    BY <1>1, <1>4 DEF DetailIsAwaited, ApplyDetail
  <2>2. CASE event.ok
    <3>1. /\ chart_cache' = [chart_cache EXCEPT ![key] = Ready("Detail")]
          /\ Keep(key, "Detail")
      BY <1>1, <1>4, <2>2 DEF ApplyDetail
    <3>2. /\ Ready("Detail") \in ChartCacheEntry /\ Ready("Detail").state = "Ready"
          /\ Ready("Detail").candles = "Detail"
      BY DEF Ready, ChartCacheEntry, Candles, Fetched, ChartRequestKind
    <3>3. PlacedWell
      <4> HIDE DEF key
      <4> QED BY <1>2, <1>3, <1>4, <2>1, <3>1, <3>2, DetailSettled DEF PlacedWell
    <3> HIDE DEF key
    <3>4. /\ chart_cache'[key].candles = "Detail"
          /\ \A k \in Keys : k # key => chart_cache'[k] = chart_cache[k]
      BY <1>2, <1>3, <3>1, <3>2
    <3>5. KeptWell
      BY <1>2, <1>3, <3>1, <3>4, Keeping DEF Fetched, ChartRequestKind
    <3>6. FreshStay
      BY <2>1, <3>4 DEF FreshStay
    <3> QED BY <3>3, <3>5, <3>6
  <2>3. CASE ~event.ok
    <3>1. /\ chart_cache' = [chart_cache EXCEPT ![key] = Failed(chart_cache[key].candles)]
          /\ KeepNothing
      BY <1>1, <1>2, <1>3, <1>4, <2>3 DEF ApplyDetail
    <3> DEFINE failed == Failed(chart_cache[key].candles)
    <3>2. /\ failed \in ChartCacheEntry /\ failed.state = "Failed"
          /\ failed.candles = chart_cache[key].candles
      BY <1>2, <1>3 DEF Failed, ChartCacheEntry
    <3> HIDE DEF failed
    <3>3. PlacedWell
      BY <1>2, <1>3, <1>4, <2>1, <3>1, <3>2, DetailSettled DEF KeepNothing, PlacedWell, failed
    <3> HIDE DEF key
    <3>4. /\ chart_cache'[key].candles = chart_cache[key].candles
          /\ \A k \in Keys : k # key => chart_cache'[k] = chart_cache[k]
      BY <1>2, <1>3, <3>1, <3>2 DEF failed
    <3>5. KeptWell
      BY <1>3, <3>1, <3>4 DEF KeepNothing, KeptWell
    <3>6. FreshStay
      BY <2>1, <3>4 DEF FreshStay
    <3> QED BY <3>3, <3>5, <3>6
  <2> QED BY <2>2, <2>3
<1>5. CASE event.kind = "Detail" /\ ~DetailIsAwaited(event)
  <2>1. /\ UNCHANGED <<chart_cache, background_chart_requests>> /\ KeepNothing
    BY <1>1, <1>5 DEF ApplyDetail
  <2>2. /\ Tables(chart_cache, background_chart_requests, Tail(ChartRequests))
        /\ Placed(chart_cache, background_chart_requests, Tail(ChartRequests))
    BY <1>2, <1>3, <1>5, DetailDropped DEF DetailIsAwaited
  <2> HIDE DEF key
  <2> QED BY <1>2, <1>3, <2>1, <2>2 DEF KeepNothing, KeptWell, PlacedWell, FreshStay
<1>6. CASE event.kind = "Background"
  <2>1. 1 \in 1..Len(ChartRequests)
    BY <1>2, <1>3 DEF Tables
  <2>2. background_chart_requests[key] = event.id
    BY <1>2, <1>3, <1>6, <2>1 DEF Placed, Awaited
  <2>3. chart_cache[key].state # "Ready"
    BY <1>2, <1>3, <2>2 DEF Placed, NotForFresh
  <2>4. background_chart_requests' = [background_chart_requests EXCEPT ![key] = 0]
    BY <1>1, <1>6, <2>2 DEF ApplyBackground
  <2>5. CASE event.ok
    <3>1. /\ Keep(key, "Background")
          /\ chart_cache' = [chart_cache EXCEPT ![key] =
                               IF chart_cache[key] = Absent THEN Absent ELSE Ready("Background")]
      BY <1>1, <1>2, <1>3, <1>6, <2>2, <2>5 DEF ApplyBackground
    <3>2. /\ Ready("Background") \in ChartCacheEntry /\ Ready("Background").state = "Ready"
          /\ Ready("Background").candles = "Background"
          /\ Absent \in ChartCacheEntry /\ Absent.state = "Absent" /\ Absent.candles = "none"
      BY DEF Ready, Absent, ChartCacheEntry, Candles, Fetched, ChartRequestKind
    <3>3. /\ chart_cache' \in [Keys -> ChartCacheEntry]
          /\ \A k \in Keys \ {key} : chart_cache'[k] = chart_cache[k]
          /\ chart_cache'[key] = IF chart_cache[key] = Absent THEN Absent ELSE Ready("Background")
      BY <1>2, <1>3, <3>1, <3>2
    <3>4. PlacedWell
      <4>1. BackgroundChange(chart_cache, key, chart_cache')
        BY <3>2, <3>3 DEF BackgroundChange
      <4> QED BY <1>2, <1>3, <1>6, <2>4, <4>1, BackgroundSettled DEF PlacedWell
    <3>5. chart_cache'[key].candles \in {"none", "Background"}
      BY <3>2, <3>3
    <3>6. KeptWell
      BY <1>2, <1>3, <3>1, <3>3, <3>5, Keeping DEF Fetched, ChartRequestKind
    <3>7. FreshStay
      BY <2>3, <3>3 DEF FreshStay
    <3> QED BY <3>4, <3>6, <3>7
  <2>6. CASE ~event.ok
    <3>1. KeepNothing /\ chart_cache' = chart_cache
      BY <1>1, <1>6, <2>2, <2>6 DEF ApplyBackground
    <3>2. PlacedWell
      <4>1. BackgroundChange(chart_cache, key, chart_cache')
        BY <1>3, <3>1 DEF BackgroundChange
      <4> QED BY <1>2, <1>3, <1>6, <2>4, <4>1, BackgroundSettled DEF PlacedWell
    <3> HIDE DEF key
    <3> QED BY <1>3, <3>1, <3>2 DEF KeepNothing, KeptWell, FreshStay
  <2> QED BY <2>5, <2>6
<1> QED BY <1>2, <1>4, <1>5, <1>6 DEF ChartRequestKind

-----------------------------------------------------------------------------
(* The database.  A refused batch is the only thing that comes between a   *)
(* chart in memory and the table: the last batch of the chart, executed or *)
(* still queued, carries the candles of the summary.                       *)

Stored(queue, table, lost, summary) ==
  \A k \in Keys :
    /\ \A i \in 1..Len(queue) :
         queue[i].key = k /\ (\A j \in (i + 1)..Len(queue) : queue[j].key # k) =>
           queue[i].candles = summary[k]
    /\ (\A i \in 1..Len(queue) : queue[i].key # k) /\ k \notin lost => table[k] = summary[k]

StoredInv ==
  /\ persistence_handle \in BOOLEAN /\ captures \in Seq(RawCapture)
  /\ raw_latest \in [Keys -> Candles] /\ refused \subseteq Keys
  /\ persistence_handle => Stored(captures, raw_latest, refused, chart_summary_cache)

LEMMA StoredUntouched ==
  StoredInv /\ UNCHANGED stored_vars /\ chart_summary_cache' = chart_summary_cache => StoredInv'
BY DEF StoredInv, stored_vars, Stored

LEMMA KeepingStores ==
  ASSUME NEW queue \in Seq(RawCapture), NEW table, NEW lost, NEW summary \in [Keys -> Candles],
         Stored(queue, table, lost, summary), NEW key \in Keys, NEW candles \in Fetched
  PROVE  Stored(Append(queue, [key |-> key, candles |-> candles]), table, lost,
                [summary EXCEPT ![key] = candles])
<1> DEFINE r == [key |-> key, candles |-> candles]
           all == Append(queue, r)
           new == [summary EXCEPT ![key] = candles]
<1>1. r \in RawCapture /\ r.key = key /\ r.candles = candles
  BY DEF RawCapture
<1>2. new[key] = candles /\ \A k \in Keys : k # key => new[k] = summary[k]
  OBVIOUS
<1> HIDE DEF r, new
<1>3. /\ Len(queue) \in Nat /\ Len(all) = Len(queue) + 1 /\ all[Len(queue) + 1] = r
      /\ \A i \in 1..Len(queue) : all[i] = queue[i]
      /\ \A i \in 1..Len(all) : i \in 1..Len(queue) \/ i = Len(queue) + 1
  BY <1>1, Appended
<1> HIDE DEF all
<1>4. ASSUME NEW k \in Keys, NEW i \in 1..Len(all), all[i].key = k,
             \A j \in (i + 1)..Len(all) : all[j].key # k
      PROVE  all[i].candles = new[k]
  <2>1. CASE k = key
    <3>1. i = Len(queue) + 1
      BY <1>1, <1>3, <1>4, <2>1
    <3> QED BY <1>1, <1>2, <1>3, <2>1, <3>1
  <2>2. CASE k # key
    <3>1. i \in 1..Len(queue) /\ queue[i].key = k
      BY <1>1, <1>3, <1>4, <2>2
    <3>2. \A j \in (i + 1)..Len(queue) : queue[j].key # k
      <4> TAKE j \in (i + 1)..Len(queue)
      <4>1. j \in 1..Len(queue) /\ j \in (i + 1)..Len(all)
        BY <1>3, <3>1
      <4> QED BY <1>3, <1>4, <4>1
    <3>3. queue[i].candles = summary[k]
      BY <3>1, <3>2 DEF Stored
    <3> QED BY <1>2, <1>3, <2>2, <3>1, <3>3
  <2> QED BY <2>1, <2>2
<1>5. ASSUME NEW k \in Keys, \A i \in 1..Len(all) : all[i].key # k, k \notin lost
      PROVE  table[k] = new[k]
  <2>1. k # key
    BY <1>1, <1>3, <1>5
  <2>2. \A i \in 1..Len(queue) : queue[i].key # k
    BY <1>3, <1>5
  <2> QED BY <1>2, <1>5, <2>1, <2>2 DEF Stored
<1>6. Stored(all, table, lost, new)
  BY <1>4, <1>5 DEF Stored
<1> QED BY <1>6 DEF all, r, new

LEMMA ApplyingKeepsStored ==
  ASSUME ChartInv, StoredInv, apply_chart_data
  PROVE  StoredInv'
<1>1. /\ persistence_handle' = persistence_handle /\ raw_latest' = raw_latest
      /\ refused' = refused /\ chart_summary_cache \in [Keys -> Candles]
  BY DEF apply_chart_data, ChartInv
<1>2. Head(chart_events).key \in Keys
  BY OldestAnswer DEF apply_chart_data
<1>3. KeepNothing \/ \E candles \in Fetched : Keep(Head(chart_events).key, candles)
  BY DEF apply_chart_data, ApplyDetail, ApplyBackground, Fetched, ChartRequestKind
<1>4. CASE KeepNothing
  BY <1>1, <1>4, StoredUntouched DEF KeepNothing, stored_vars
<1>5. CASE \E candles \in Fetched : Keep(Head(chart_events).key, candles)
  <2>1. PICK key \in Keys, candles \in Fetched : Keep(key, candles)
    BY <1>2, <1>5
  <2>2. [key |-> key, candles |-> candles] \in RawCapture
    BY DEF RawCapture
  <2>3. captures' \in Seq(RawCapture)
    BY <2>1, <2>2 DEF Keep, Captured, StoredInv
  <2>4. ASSUME persistence_handle
        PROVE  Stored(captures', raw_latest, refused, chart_summary_cache')
    <3>1. /\ captures' = Append(captures, [key |-> key, candles |-> candles])
          /\ chart_summary_cache' = [chart_summary_cache EXCEPT ![key] = candles]
      BY <2>1, <2>4 DEF Keep, Captured
    <3> QED BY <1>1, <2>4, <3>1, KeepingStores DEF StoredInv
  <2> QED BY <1>1, <2>3, <2>4 DEF StoredInv
<1> QED BY <1>3, <1>4, <1>5

LEMMA BatchKeepsStored ==
  ASSUME StoredInv, NEW ok \in BOOLEAN, persist_batch(ok)
  PROVE  StoredInv'
<1> DEFINE capture == Head(captures)
<1>1. captures \in Seq(RawCapture) /\ captures # <<>> /\ captures' = Tail(captures)
  BY DEF StoredInv, persist_batch
<1>2. /\ captures' \in Seq(RawCapture) /\ 1 \in 1..Len(captures) /\ capture = captures[1]
      /\ \A i \in 1..Len(captures') :
           i \in Nat /\ i + 1 \in 1..Len(captures) /\ captures'[i] = captures[i + 1]
      /\ \A i \in 1..Len(captures) :
           i # 1 => i - 1 \in 1..Len(captures') /\ captures'[i - 1] = captures[i]
  BY <1>1, TailFacts
<1>3. capture \in RawCapture /\ capture.key \in Keys /\ capture.candles \in Candles
  <2>1. capture \in RawCapture
    <3>1. captures \in Seq(RawCapture) /\ 1 \in 1..Len(captures) /\ capture = captures[1]
      BY <1>1, <1>2
    <3> QED BY <3>1
  <2> HIDE DEF capture
  <2> QED BY <2>1 DEF RawCapture, Candles
<1> HIDE DEF capture
<1>4. /\ persistence_handle' = persistence_handle
      /\ chart_summary_cache' = chart_summary_cache
  BY DEF persist_batch, chart_vars
<1>5. /\ raw_latest' \in [Keys -> Candles] /\ refused' \subseteq Keys
      /\ capture.key \in refused' \/ raw_latest'[capture.key] = capture.candles
      /\ \A k \in Keys : k # capture.key =>
           raw_latest'[k] = raw_latest[k] /\ (k \in refused' <=> k \in refused)
  BY <1>3 DEF StoredInv, persist_batch, capture
<1>6. ASSUME persistence_handle, NEW k \in Keys, NEW i \in 1..Len(captures'),
             captures'[i].key = k, \A j \in (i + 1)..Len(captures') : captures'[j].key # k
      PROVE  captures'[i].candles = chart_summary_cache[k]
  <2>1. i \in Nat /\ i + 1 \in 1..Len(captures) /\ captures[i + 1].key = k
    BY <1>2, <1>6
  <2>2. \A j \in ((i + 1) + 1)..Len(captures) : captures[j].key # k
    <3> TAKE j \in ((i + 1) + 1)..Len(captures)
    <3>1. j \in 1..Len(captures) /\ j # 1
      BY <2>1
    <3>2. j - 1 \in 1..Len(captures') /\ captures'[j - 1] = captures[j]
      BY <1>2, <3>1
    <3>3. j - 1 \in (i + 1)..Len(captures')
      BY <2>1, <3>2
    <3> QED BY <1>6, <3>2, <3>3
  <2>3. captures[i + 1].candles = chart_summary_cache[k]
    BY <1>6, <2>1, <2>2 DEF StoredInv, Stored
  <2> QED BY <1>2, <1>6, <2>3
<1>7. ASSUME persistence_handle, NEW k \in Keys,
             \A i \in 1..Len(captures') : captures'[i].key # k, k \notin refused'
      PROVE  raw_latest'[k] = chart_summary_cache[k]
  <2>1. \A i \in 1..Len(captures) : i # 1 => captures[i].key # k
    BY <1>2, <1>7
  <2>2. CASE k = capture.key
    <3>1. captures[1].key = k /\ \A j \in (1 + 1)..Len(captures) : captures[j].key # k
      BY <1>2, <2>1, <2>2
    <3>2. captures[1].candles = chart_summary_cache[k]
      BY <1>2, <1>7, <3>1 DEF StoredInv, Stored
    <3> QED BY <1>2, <1>5, <1>7, <2>2, <3>2
  <2>3. CASE k # capture.key
    <3>1. \A i \in 1..Len(captures) : captures[i].key # k
      BY <1>2, <2>1, <2>3
    <3> QED BY <1>5, <1>7, <2>3, <3>1 DEF StoredInv, Stored
  <2> QED BY <2>2, <2>3
<1>8. persistence_handle => Stored(captures', raw_latest', refused', chart_summary_cache)
  BY <1>6, <1>7 DEF Stored
<1> QED BY <1>2, <1>4, <1>5, <1>8 DEF StoredInv

-----------------------------------------------------------------------------
(* The analyses.  A Loading entry has its request under way, and whatever  *)
(* is under way with the number of that request carries its input, so that *)
(* the answer which is taken is of the input that the entry names.         *)

Flight(control) == Elements(control) \cup Elements(analysis_events)

AnalysisGood(cache, flight) ==
  /\ cache \in [Symbols -> AnalysisCacheEntry]
  /\ \A s \in Symbols : cache[s].state = "Loading" =>
       \E r \in flight : r.symbol = s /\ r.id = cache[s].id
  /\ \A r \in flight :
       cache[r.symbol].state = "Loading" /\ cache[r.symbol].id = r.id =>
         r.input = cache[r.symbol].input
  /\ \A s \in Symbols : cache[s].state = "Ready" => cache[s].analysis = cache[s].input

AnalysisInv ==
  /\ analysis_control \in Seq(AnalysisRequest) /\ analysis_events \in Seq(AnalysisDataEvent)
  /\ fundamentals \in [Symbols -> Inputs \cup {NoInput}]
  /\ AnalysisGood(analysis_cache, Flight(analysis_control))
  /\ \A s \in Symbols : analysis_cache[s].state # "Absent" =>
       analysis_cache[s].input = fundamentals[s]

LEMMA ElementsFacts ==
  ASSUME NEW A, NEW q \in Seq(A)
  PROVE  /\ \A x \in A : Elements(Append(q, x)) = Elements(q) \cup {x}
         /\ q # <<>> => /\ Head(q) \in A /\ Head(q) \in Elements(q) /\ Tail(q) \in Seq(A)
                        /\ Elements(q) = Elements(Tail(q)) \cup {Head(q)}
<1>1. ASSUME NEW x \in A
      PROVE  Elements(Append(q, x)) = Elements(q) \cup {x}
  <2>1. /\ Len(q) \in Nat /\ Len(Append(q, x)) = Len(q) + 1
        /\ Append(q, x)[Len(q) + 1] = x
        /\ \A i \in 1..Len(q) : Append(q, x)[i] = q[i]
    OBVIOUS
  <2>2. 1..(Len(q) + 1) = (1..Len(q)) \cup {Len(q) + 1}
    BY <2>1
  <2> QED BY <2>1, <2>2 DEF Elements
<1>2. ASSUME q # <<>>
      PROVE  /\ Head(q) \in A /\ Head(q) \in Elements(q) /\ Tail(q) \in Seq(A)
             /\ Elements(q) = Elements(Tail(q)) \cup {Head(q)}
  <2>1. /\ Tail(q) \in Seq(A) /\ 1 \in 1..Len(q) /\ Head(q) = q[1] /\ q[1] \in A
        /\ \A i \in 1..Len(Tail(q)) : i + 1 \in 1..Len(q) /\ Tail(q)[i] = q[i + 1]
        /\ \A i \in 1..Len(q) : i # 1 => i - 1 \in 1..Len(Tail(q)) /\ Tail(q)[i - 1] = q[i]
    BY <1>2, TailFacts
  <2> DEFINE rest == Tail(q)
  <2> HIDE DEF rest
  <2>2. ASSUME NEW i \in 1..Len(q)
        PROVE  q[i] \in Elements(rest) \cup {q[1]}
    <3>1. CASE i = 1
      BY <3>1
    <3>2. CASE i # 1
      <4>1. i - 1 \in 1..Len(rest) /\ rest[i - 1] = q[i]
        BY <2>1, <3>2 DEF rest
      <4>2. rest[i - 1] \in Elements(rest)
        BY <4>1 DEF Elements
      <4> QED BY <4>1, <4>2
    <3> QED BY <3>1, <3>2
  <2>3. ASSUME NEW i \in 1..Len(rest)
        PROVE  rest[i] \in Elements(q)
    <3>1. i + 1 \in 1..Len(q) /\ rest[i] = q[i + 1]
      BY <2>1 DEF rest
    <3> QED BY <3>1 DEF Elements
  <2>4. q[1] \in Elements(q)
    BY <2>1 DEF Elements
  <2>5. Elements(q) \subseteq Elements(rest) \cup {q[1]}
    BY <2>2 DEF Elements
  <2>6. Elements(rest) \subseteq Elements(q)
    BY <2>3 DEF Elements
  <2>7. Elements(q) = Elements(rest) \cup {q[1]}
    BY <2>4, <2>5, <2>6
  <2> QED BY <2>1, <2>4, <2>7 DEF rest
<1> QED BY <1>1, <1>2

LEMMA FlightSymbols ==
  ASSUME analysis_events \in Seq(AnalysisDataEvent), NEW control \in Seq(AnalysisRequest)
  PROVE  \A r \in Flight(control) : r.symbol \in Symbols /\ r.id \in Nat \ {0} /\ r.input \in Inputs
<1>1. \A r \in Flight(control) : r \in AnalysisRequest \/ r \in AnalysisDataEvent
  BY ElementsFinite DEF Flight
<1> QED BY <1>1 DEF AnalysisRequest, AnalysisDataEvent

LEMMA QueueAnalysisKeeps ==
  ASSUME analysis_events \in Seq(AnalysisDataEvent), NEW asking,
         asking.control \in Seq(AnalysisRequest),
         AnalysisGood(asking.cache, Flight(asking.control)),
         NEW symbol \in Symbols, NEW input \in Inputs \cup {NoInput}
  PROVE  LET new == QueueAnalysis(asking, symbol, input)
         IN /\ new.control \in Seq(AnalysisRequest)
            /\ AnalysisGood(new.cache, Flight(new.control))
            /\ \A s \in Symbols \ {symbol} : new.cache[s] = asking.cache[s]
            /\ \/ new.cache[symbol].input = input
               \/ input = NoInput /\ new.cache[symbol] = asking.cache[symbol]
<1> DEFINE new == QueueAnalysis(asking, symbol, input)
           id == LeastFree(AnalysisIds(asking.control, symbol))
           r == [symbol |-> symbol, id |-> id, input |-> input]
           entry == [state |-> "Loading", id |-> id, input |-> input, analysis |-> NoInput]
           cache == [asking.cache EXCEPT ![symbol] = entry]
           control == Append(asking.control, r)
<1>1. CASE ~WantsAnalysis(asking.cache[symbol], input)
  <2>1. new = asking
    BY <1>1 DEF QueueAnalysis
  <2>2. asking.cache[symbol].input = input \/ input = NoInput
    BY <1>1 DEF WantsAnalysis
  <2> QED BY <2>1, <2>2
<1>2. CASE WantsAnalysis(asking.cache[symbol], input)
  <2>1. /\ id \in Nat \ {0}
        /\ \A x \in Flight(asking.control) : x.symbol = symbol => x.id # id
    BY AnalysisNumber DEF Flight
  <2> HIDE DEF id
  <2>2. new = [cache |-> cache, control |-> control]
    BY <1>2 DEF QueueAnalysis, id
  <2>3. new.cache = cache /\ new.control = control
    BY <2>2
  <2>4. input \in Inputs
    BY <1>2 DEF WantsAnalysis
  <2>5. r \in AnalysisRequest /\ r.symbol = symbol /\ r.id = id /\ r.input = input
    BY <2>1, <2>4 DEF AnalysisRequest
  <2>6. /\ entry \in AnalysisCacheEntry /\ entry.state = "Loading" /\ entry.id = id
        /\ entry.input = input
    BY <2>1 DEF AnalysisCacheEntry
  <2> HIDE DEF r, entry, new
  <2>7. /\ control \in Seq(AnalysisRequest)
        /\ Flight(control) = Flight(asking.control) \cup {r}
    BY <2>5, ElementsFacts DEF Flight
  <2>8. /\ cache \in [Symbols -> AnalysisCacheEntry] /\ cache[symbol] = entry
        /\ \A s \in Symbols \ {symbol} : cache[s] = asking.cache[s]
    BY <2>6 DEF AnalysisGood
  <2> HIDE DEF cache, control
  <2>9. \A x \in Flight(asking.control) : x.symbol \in Symbols
    BY FlightSymbols
  <2>10. ASSUME NEW s \in Symbols, cache[s].state = "Loading"
         PROVE  \E x \in Flight(control) : x.symbol = s /\ x.id = cache[s].id
    BY <2>5, <2>6, <2>7, <2>8, <2>10 DEF AnalysisGood
  <2>11. ASSUME NEW x \in Flight(control), cache[x.symbol].state = "Loading",
                cache[x.symbol].id = x.id
         PROVE  x.input = cache[x.symbol].input
    <3>1. CASE x = r
      BY <2>5, <2>6, <2>8, <3>1
    <3>2. CASE x \in Flight(asking.control)
      <4>1. x.symbol # symbol
        BY <2>1, <2>6, <2>8, <2>11, <3>2
      <4>2. cache[x.symbol] = asking.cache[x.symbol]
        BY <2>8, <2>9, <3>2, <4>1
      <4> QED BY <2>11, <3>2, <4>2 DEF AnalysisGood
    <3> QED BY <2>7, <3>1, <3>2
  <2>12. \A s \in Symbols : cache[s].state = "Ready" => cache[s].analysis = cache[s].input
    BY <2>6, <2>8 DEF AnalysisGood
  <2>13. AnalysisGood(cache, Flight(control))
    BY <2>8, <2>10, <2>11, <2>12 DEF AnalysisGood
  <2> QED BY <2>3, <2>6, <2>7, <2>8, <2>13 DEF new
<1> QED BY <1>1, <1>2

HoldingFits(symbols, holding) ==
  /\ holding \in [Symbols -> Inputs \cup {NoInput}]
  /\ \A s \in Symbols : holding[s] = fundamentals[s] \/ (s \in symbols /\ holding[s] # NoInput)

AskedUpTo(asking, n, symbols, holding) ==
  /\ asking.control \in Seq(AnalysisRequest)
  /\ AnalysisGood(asking.cache, Flight(asking.control))
  /\ \A s \in Symbols : asking.cache[s].state # "Absent" =>
       asking.cache[s].input \in {fundamentals[s], holding[s]}
  /\ \A j \in 1..n : LET s == SymbolOrder[j]
                     IN s \in symbols /\ asking.cache[s].state # "Absent" =>
                          asking.cache[s].input = holding[s]

LEMMA AskAnalysisKeeps ==
  ASSUME analysis_events \in Seq(AnalysisDataEvent), NEW symbols, NEW holding,
         HoldingFits(symbols, holding), NEW asking, NEW n \in 1..Len(SymbolOrder),
         AskedUpTo(asking, n - 1, symbols, holding)
  PROVE  AskedUpTo(AskAnalysis(asking, SymbolOrder[n], symbols, holding), n, symbols, holding)
<1> DEFINE symbol == SymbolOrder[n]
           new == AskAnalysis(asking, symbol, symbols, holding)
<1>1. Len(SymbolOrder) \in Nat /\ \A j \in 1..n : SymbolOrder[j] \in Symbols
  BY OrderAssumption DEF Symbols, Elements
<1>2. \A j \in 1..n : j = n \/ j \in 1..(n - 1)
  BY <1>1
<1>3. symbol \in Symbols
  BY <1>1
<1>4. CASE symbol \notin symbols
  <2>1. new = asking
    BY <1>4 DEF AskAnalysis
  <2> HIDE DEF new
  <2> QED BY <1>2, <1>4, <2>1 DEF AskedUpTo, new
<1>5. CASE symbol \in symbols
  <2>1. new = QueueAnalysis(asking, symbol, holding[symbol])
    BY <1>5 DEF AskAnalysis
  <2> HIDE DEF new
  <2>2. holding[symbol] \in Inputs \cup {NoInput}
    BY <1>3 DEF HoldingFits
  <2> HIDE DEF symbol
  <2>3. /\ new.control \in Seq(AnalysisRequest)
        /\ AnalysisGood(new.cache, Flight(new.control))
        /\ \A s \in Symbols \ {symbol} : new.cache[s] = asking.cache[s]
        /\ \/ new.cache[symbol].input = holding[symbol]
           \/ holding[symbol] = NoInput /\ new.cache[symbol] = asking.cache[symbol]
    BY <1>3, <2>1, <2>2, QueueAnalysisKeeps DEF AskedUpTo
  <2>4. new.cache[symbol].state # "Absent" => new.cache[symbol].input = holding[symbol]
    BY <1>3, <2>3 DEF AskedUpTo, HoldingFits
  <2>5. \A s \in Symbols : new.cache[s].state # "Absent" =>
          new.cache[s].input \in {fundamentals[s], holding[s]}
    BY <2>3, <2>4 DEF AskedUpTo
  <2>6. ASSUME NEW j \in 1..n, SymbolOrder[j] \in symbols,
               new.cache[SymbolOrder[j]].state # "Absent"
        PROVE  new.cache[SymbolOrder[j]].input = holding[SymbolOrder[j]]
    <3>1. CASE SymbolOrder[j] = symbol
      BY <2>4, <2>6, <3>1
    <3>2. CASE SymbolOrder[j] # symbol
      <4>1. j \in 1..(n - 1) /\ SymbolOrder[j] \in Symbols
        BY <1>1, <1>2, <3>2 DEF symbol
      <4>2. new.cache[SymbolOrder[j]] = asking.cache[SymbolOrder[j]]
        BY <2>3, <3>2, <4>1
      <4> QED BY <2>6, <4>1, <4>2 DEF AskedUpTo
    <3> QED BY <3>1, <3>2
  <2> QED BY <2>3, <2>5, <2>6 DEF AskedUpTo, new, symbol
<1> QED BY <1>4, <1>5

LEMMA AnalysesAsked ==
  ASSUME AnalysisInv, NEW symbols, NEW holding, HoldingFits(symbols, holding),
         fundamentals' = holding, queue_analysis_requests(symbols, holding)
  PROVE  AnalysisInv'
<1> DEFINE after == AnalysesAskedFor(symbols, holding)
           Bad == {i \in 0..Len(SymbolOrder) : ~AskedUpTo(after[i], i, symbols, holding)}
           last == after[Len(SymbolOrder)]
<1>1. Len(SymbolOrder) \in Nat
  BY OrderAssumption
<1>2. after[0] = AskingAnalyses
  BY <1>1, AnalysisLoop
<1>3. \A i \in 1..Len(SymbolOrder) :
        after[i] = AskAnalysis(after[i - 1], SymbolOrder[i], symbols, holding)
  BY <1>1, AnalysisLoop
<1> HIDE DEF after
<1>4. Bad = {}
  <2> SUFFICES ASSUME Bad # {} PROVE FALSE
    OBVIOUS
  <2>1. PICK i \in Bad : \A j \in Bad : i <= j
    <3>1. Bad \subseteq Nat
      BY <1>1
    <3> HIDE DEF Bad
    <3> QED BY <3>1, LeastNumber
  <2>2. i \in 0..Len(SymbolOrder) /\ ~AskedUpTo(after[i], i, symbols, holding)
    BY <2>1
  <2>3. CASE i = 0
    <3>1. AskedUpTo(AskingAnalyses, 0, symbols, holding)
      <4>1. /\ AskingAnalyses.cache = analysis_cache
            /\ AskingAnalyses.control = analysis_control
        BY DEF AskingAnalyses
      <4>2. /\ analysis_control \in Seq(AnalysisRequest)
            /\ AnalysisGood(analysis_cache, Flight(analysis_control))
            /\ \A s \in Symbols : analysis_cache[s].state # "Absent" =>
                 analysis_cache[s].input \in {fundamentals[s], holding[s]}
        BY DEF AnalysisInv
      <4> QED BY <4>1, <4>2 DEF AskedUpTo
    <3> QED BY <1>2, <2>2, <2>3, <3>1
  <2>4. CASE i # 0
    <3>1. i \in 1..Len(SymbolOrder) /\ i - 1 \in 0..Len(SymbolOrder) /\ i - 1 < i
      BY <1>1, <2>2, <2>4
    <3>2. AskedUpTo(after[i - 1], i - 1, symbols, holding)
      BY <2>1, <2>2, <3>1
    <3>3. AskedUpTo(after[i], i, symbols, holding)
      BY <1>3, <3>1, <3>2, AskAnalysisKeeps DEF AnalysisInv
    <3> QED BY <2>2, <3>3
  <2> QED BY <2>3, <2>4
<1>5. AskedUpTo(last, Len(SymbolOrder), symbols, holding)
  BY <1>1, <1>4
<1>6. /\ analysis_cache' = last.cache /\ analysis_control' = last.control
      /\ analysis_events' = analysis_events
  BY DEF queue_analysis_requests, after
<1> HIDE DEF last
<1>7. Flight(analysis_control)' = Flight(last.control)
  BY <1>6 DEF Flight
<1>8. ASSUME NEW s \in Symbols, last.cache[s].state # "Absent"
      PROVE  last.cache[s].input = holding[s]
  <2>1. CASE s \in symbols
    <3>1. PICK j \in 1..Len(SymbolOrder) : SymbolOrder[j] = s
      BY DEF Symbols, Elements
    <3> QED BY <1>5, <1>8, <2>1, <3>1 DEF AskedUpTo
  <2>2. CASE s \notin symbols
    BY <1>5, <1>8, <2>2 DEF AskedUpTo, HoldingFits
  <2> QED BY <2>1, <2>2
<1>9. AnalysisGood(analysis_cache', Flight(analysis_control)')
  BY <1>5, <1>6, <1>7 DEF AskedUpTo
<1>10. /\ analysis_control' \in Seq(AnalysisRequest) /\ analysis_events' \in Seq(AnalysisDataEvent)
       /\ fundamentals' \in [Symbols -> Inputs \cup {NoInput}]
  BY <1>5, <1>6 DEF AskedUpTo, AnalysisInv, HoldingFits
<1> QED BY <1>6, <1>8, <1>9, <1>10 DEF AnalysisInv, AnalysisGood

LEMMA FetchingKeepsAnalyses ==
  ASSUME AnalysisInv, NEW ok \in BOOLEAN, AnalysisFetched(ok)
  PROVE  AnalysisInv'
<1> DEFINE r == Head(analysis_control)
           event == [symbol |-> r.symbol, id |-> r.id, input |-> r.input, ok |-> ok]
           rest == Elements(Tail(analysis_control)) \cup Elements(analysis_events)
<1>1. /\ analysis_control # <<>> /\ analysis_events' = Append(analysis_events, event)
      /\ analysis_control' = Tail(analysis_control)
      /\ UNCHANGED <<analysis_cache, fundamentals>>
  BY DEF AnalysisFetched
<1>2. analysis_control \in Seq(AnalysisRequest) /\ analysis_events \in Seq(AnalysisDataEvent)
  BY DEF AnalysisInv
<1>3. /\ r \in AnalysisRequest /\ Tail(analysis_control) \in Seq(AnalysisRequest)
      /\ Elements(analysis_control) = Elements(Tail(analysis_control)) \cup {r}
  BY <1>1, <1>2, ElementsFacts
<1> HIDE DEF r
<1>4. /\ event \in AnalysisDataEvent
      /\ event.symbol = r.symbol /\ event.id = r.id /\ event.input = r.input
  BY <1>3 DEF AnalysisRequest, AnalysisDataEvent
<1> HIDE DEF event
<1>5. /\ Elements(analysis_events') = Elements(analysis_events) \cup {event}
      /\ analysis_events' \in Seq(AnalysisDataEvent)
  BY <1>1, <1>2, <1>4, ElementsFacts
<1>6. Flight(analysis_control) = rest \cup {r} /\ Flight(analysis_control)' = rest \cup {event}
  BY <1>1, <1>3, <1>5 DEF Flight
<1> HIDE DEF rest
<1>7. AnalysisGood(analysis_cache, rest \cup {event})
  <2>1. AnalysisGood(analysis_cache, rest \cup {r})
    BY <1>6 DEF AnalysisInv
  <2>2. ASSUME NEW s \in Symbols, analysis_cache[s].state = "Loading"
        PROVE  \E x \in rest \cup {event} : x.symbol = s /\ x.id = analysis_cache[s].id
    <3>1. PICK x \in rest \cup {r} : x.symbol = s /\ x.id = analysis_cache[s].id
      BY <2>1, <2>2 DEF AnalysisGood
    <3> QED BY <1>4, <3>1
  <2>3. ASSUME NEW x \in rest \cup {event}, analysis_cache[x.symbol].state = "Loading",
               analysis_cache[x.symbol].id = x.id
        PROVE  x.input = analysis_cache[x.symbol].input
    <3>1. CASE x \in rest
      BY <2>1, <2>3, <3>1 DEF AnalysisGood
    <3>2. CASE x = event
      BY <1>4, <2>1, <2>3, <3>2 DEF AnalysisGood
    <3> QED BY <3>1, <3>2
  <2> QED BY <2>1, <2>2, <2>3 DEF AnalysisGood
<1>8. AnalysisGood(analysis_cache', Flight(analysis_control)')
  BY <1>1, <1>6, <1>7
<1> QED BY <1>1, <1>3, <1>5, <1>8 DEF AnalysisInv, AnalysisGood

LEMMA ApplyingKeepsAnalyses ==
  ASSUME AnalysisInv, apply_analysis_data
  PROVE  AnalysisInv'
<1> DEFINE event == Head(analysis_events)
           symbol == event.symbol
           rest == Elements(analysis_control) \cup Elements(Tail(analysis_events))
<1>1. /\ analysis_events # <<>> /\ analysis_events' = Tail(analysis_events)
      /\ UNCHANGED <<analysis_control, fundamentals>>
      /\ AnalysisIsAwaited(event) => analysis_cache' =
           [analysis_cache EXCEPT ![symbol] = Analysed(analysis_cache[symbol], event)]
      /\ ~AnalysisIsAwaited(event) => analysis_cache' = analysis_cache
  <2>1. analysis_cache \in [Symbols -> AnalysisCacheEntry]
    BY DEF AnalysisInv, AnalysisGood
  <2> QED BY <2>1 DEF apply_analysis_data
<1>2. /\ analysis_control \in Seq(AnalysisRequest) /\ analysis_events \in Seq(AnalysisDataEvent)
      /\ AnalysisGood(analysis_cache, Flight(analysis_control))
      /\ analysis_cache \in [Symbols -> AnalysisCacheEntry]
  BY DEF AnalysisInv, AnalysisGood
<1>3. /\ event \in AnalysisDataEvent /\ Tail(analysis_events) \in Seq(AnalysisDataEvent)
      /\ Elements(analysis_events) = Elements(Tail(analysis_events)) \cup {event}
  BY <1>1, <1>2, ElementsFacts
<1> HIDE DEF event
<1>4. /\ symbol \in Symbols /\ event.id \in Nat \ {0} /\ event.input \in Inputs
      /\ event.symbol = symbol
  BY <1>3 DEF AnalysisDataEvent
<1> HIDE DEF symbol
<1>5. Flight(analysis_control) = rest \cup {event} /\ Flight(analysis_control)' = rest
  BY <1>1, <1>3 DEF Flight
<1>6. \A x \in rest : x.symbol \in Symbols
  BY <1>2, <1>5, FlightSymbols
<1> HIDE DEF rest
<1>7. AnalysisGood(analysis_cache', rest)
  <2>1. CASE ~AnalysisIsAwaited(event)
    <3>1. ASSUME NEW s \in Symbols, analysis_cache[s].state = "Loading"
          PROVE  \E x \in rest : x.symbol = s /\ x.id = analysis_cache[s].id
      <4>1. PICK x \in rest \cup {event} : x.symbol = s /\ x.id = analysis_cache[s].id
        BY <1>2, <1>5, <3>1 DEF AnalysisGood
      <4>2. x # event
        BY <2>1, <3>1, <4>1 DEF AnalysisIsAwaited
      <4> QED BY <4>1, <4>2
    <3>2. AnalysisGood(analysis_cache, rest)
      BY <1>2, <1>5, <3>1 DEF AnalysisGood
    <3> QED BY <1>1, <2>1, <3>2
  <2>2. CASE AnalysisIsAwaited(event)
    <3> DEFINE entry == Analysed(analysis_cache[symbol], event)
    <3>1. /\ analysis_cache[symbol].state = "Loading" /\ analysis_cache[symbol].id = event.id
          /\ analysis_cache[symbol] \in AnalysisCacheEntry
      BY <1>2, <1>4, <2>2 DEF AnalysisIsAwaited
    <3>2. event.input = analysis_cache[symbol].input
      BY <1>2, <1>4, <1>5, <3>1 DEF AnalysisGood
    <3>3. /\ entry \in AnalysisCacheEntry /\ entry.state \in {"Ready", "Failed"}
          /\ entry.input = analysis_cache[symbol].input
          /\ entry.state = "Ready" => entry.analysis = event.input
      BY <1>4, <3>1 DEF Analysed, AnalysisCacheEntry
    <3> HIDE DEF entry
    <3>4. /\ analysis_cache' \in [Symbols -> AnalysisCacheEntry] /\ analysis_cache'[symbol] = entry
          /\ \A s \in Symbols \ {symbol} : analysis_cache'[s] = analysis_cache[s]
      BY <1>1, <1>2, <1>4, <2>2, <3>3 DEF entry
    <3>5. ASSUME NEW s \in Symbols, analysis_cache'[s].state = "Loading"
          PROVE  \E x \in rest : x.symbol = s /\ x.id = analysis_cache'[s].id
      <4>1. s # symbol
        BY <3>3, <3>4, <3>5
      <4>2. analysis_cache'[s] = analysis_cache[s]
        BY <3>4, <4>1
      <4>3. PICK x \in rest \cup {event} : x.symbol = s /\ x.id = analysis_cache[s].id
        BY <1>2, <1>5, <3>5, <4>2 DEF AnalysisGood
      <4> QED BY <1>4, <4>1, <4>2, <4>3
    <3>6. ASSUME NEW x \in rest, analysis_cache'[x.symbol].state = "Loading",
                 analysis_cache'[x.symbol].id = x.id
          PROVE  x.input = analysis_cache'[x.symbol].input
      <4>1. x.symbol \in Symbols \ {symbol}
        BY <1>6, <3>3, <3>4, <3>6
      <4>2. analysis_cache'[x.symbol] = analysis_cache[x.symbol]
        BY <3>4, <4>1
      <4> QED BY <1>2, <1>5, <3>6, <4>2 DEF AnalysisGood
    <3>7. ASSUME NEW s \in Symbols, analysis_cache'[s].state = "Ready"
          PROVE  analysis_cache'[s].analysis = analysis_cache'[s].input
      BY <1>2, <3>2, <3>3, <3>4, <3>7 DEF AnalysisGood
    <3> QED BY <3>4, <3>5, <3>6, <3>7 DEF AnalysisGood
  <2> QED BY <2>1, <2>2
<1>8. ASSUME NEW s \in Symbols, analysis_cache'[s].state # "Absent"
      PROVE  analysis_cache'[s].input = fundamentals'[s]
  <2>1. CASE ~AnalysisIsAwaited(event)
    BY <1>1, <1>8, <2>1 DEF AnalysisInv
  <2>2. CASE AnalysisIsAwaited(event)
    <3>1. analysis_cache[symbol].state # "Absent" /\ analysis_cache[symbol] \in AnalysisCacheEntry
      BY <1>2, <1>4, <2>2 DEF AnalysisIsAwaited
    <3>2. Analysed(analysis_cache[symbol], event).input = analysis_cache[symbol].input
      BY <3>1 DEF Analysed, AnalysisCacheEntry
    <3>3. analysis_cache'[s] = IF s = symbol THEN Analysed(analysis_cache[symbol], event)
                               ELSE analysis_cache[s]
      BY <1>1, <1>2, <1>4, <2>2
    <3> QED BY <1>1, <1>8, <3>1, <3>2, <3>3 DEF AnalysisInv
  <2> QED BY <2>1, <2>2
<1>9. AnalysisGood(analysis_cache', Flight(analysis_control)')
  BY <1>5, <1>7
<1> QED BY <1>1, <1>2, <1>3, <1>8, <1>9 DEF AnalysisInv, AnalysisGood

-----------------------------------------------------------------------------
(* The invariant of both caches.                                           *)

IInv == ChartInv /\ StoredInv /\ AnalysisInv /\ failures \in 0..MAX_FAILURES

LEMMA InitIInv == Init => IInv
<1> SUFFICES ASSUME Init PROVE IInv
  OBVIOUS
<1>1. /\ chart_cache = [k \in Keys |-> Absent] /\ chart_summary_cache = [k \in Keys |-> "none"]
      /\ background_chart_requests = [k \in Keys |-> 0]
      /\ chart_control = <<>> /\ chart_events = <<>>
      /\ persistence_handle \in BOOLEAN /\ captures = <<>>
      /\ raw_latest = [k \in Keys |-> "none"] /\ refused = {}
      /\ fundamentals \in [Symbols -> Inputs \cup {NoInput}]
      /\ analysis_cache = [s \in Symbols |-> NoAnalysis]
      /\ analysis_control = <<>> /\ analysis_events = <<>> /\ failures = 0
  BY DEF Init
<1>2. /\ Absent \in ChartCacheEntry /\ Absent.state = "Absent" /\ Absent.candles = "none"
      /\ "none" \in Candles
  BY DEF Absent, ChartCacheEntry, Candles
<1>3. chart_cache \in [Keys -> ChartCacheEntry] /\ \A k \in Keys : chart_cache[k] = Absent
  BY <1>1, <1>2
<1>4. AnsweredCharts = <<>> /\ ChartRequests = <<>>
  BY <1>1 DEF AnsweredCharts, ChartRequests
<1>5. Tables(chart_cache, background_chart_requests, ChartRequests)
  BY <1>1, <1>3, <1>4 DEF Tables
<1>6. Placed(chart_cache, background_chart_requests, ChartRequests)
  BY <1>1, <1>2, <1>3, <1>4 DEF Placed, Awaited, InOrder, UnderWay, NotForFresh
<1>7. chart_summary_cache \in [Keys -> Candles] /\ raw_latest \in [Keys -> Candles]
  BY <1>1, <1>2
<1>8. StoredInv
  BY <1>1, <1>7 DEF StoredInv, Stored
<1>9. ChartInv
  BY <1>1, <1>2, <1>3, <1>5, <1>6, <1>7 DEF ChartInv
<1>10. NoAnalysis \in AnalysisCacheEntry /\ NoAnalysis.state = "Absent"
  BY DEF NoAnalysis, AnalysisCacheEntry
<1>11. /\ analysis_cache \in [Symbols -> AnalysisCacheEntry]
       /\ \A s \in Symbols : analysis_cache[s].state = "Absent"
  BY <1>1, <1>10
<1>12. Flight(analysis_control) = {}
  BY <1>1 DEF Flight, Elements
<1>13. AnalysisInv
  BY <1>1, <1>11, <1>12 DEF AnalysisInv, AnalysisGood
<1> QED BY <1>1, <1>8, <1>9, <1>13, BoundsAssumption DEF IInv

LEMMA ChartsUntouched == ChartInv /\ UNCHANGED chart_vars => ChartInv'
<1> SUFFICES ASSUME ChartInv, UNCHANGED chart_vars PROVE ChartInv'
  OBVIOUS
<1>1. /\ chart_cache' = chart_cache /\ chart_summary_cache' = chart_summary_cache
      /\ background_chart_requests' = background_chart_requests
      /\ chart_control' = chart_control /\ chart_events' = chart_events
  BY DEF chart_vars
<1>2. ChartRequests' = ChartRequests
  BY <1>1 DEF ChartRequests, AnsweredCharts
<1> QED BY <1>1, <1>2 DEF ChartInv, Tables, Placed, Awaited, UnderWay, NotForFresh

LEMMA AnalysesUntouched ==
  AnalysisInv /\ UNCHANGED analysis_vars /\ UNCHANGED fundamentals => AnalysisInv'
BY DEF analysis_vars, AnalysisInv, AnalysisGood, Flight

\* Every step keeps the invariant and leaves fresh charts alone.
LEMMA Step == IInv /\ [Next]_vars => IInv' /\ FreshStay
<1> SUFFICES ASSUME IInv, [Next]_vars PROVE IInv' /\ FreshStay
  OBVIOUS
<1>1. ChartInv /\ StoredInv /\ AnalysisInv /\ failures \in 0..MAX_FAILURES
  BY DEF IInv
<1>2. ASSUME NEW symbols \in SUBSET Symbols, FeedBatch(symbols)
      PROVE  IInv' /\ FreshStay
  <2>1. ChartInv' /\ chart_cache' = chart_cache
    BY <1>1, <1>2, BatchKeepsCharts DEF FeedBatch
  <2>2. PICK holding \in [Symbols -> Inputs \cup {NoInput}] :
          /\ \A s \in Symbols : holding[s] = fundamentals[s] \/ (s \in symbols /\ holding[s] # NoInput)
          /\ fundamentals' = holding
          /\ queue_analysis_requests(symbols, holding)
    BY <1>2 DEF FeedBatch
  <2>3. AnalysisInv'
    <3>1. HoldingFits(symbols, holding)
      BY <2>2 DEF HoldingFits
    <3> QED BY <1>1, <2>2, <3>1, AnalysesAsked
  <2>4. failures' = failures /\ UNCHANGED <<stored_vars, chart_summary_cache>>
    BY <1>2 DEF FeedBatch, Asked
  <2> QED BY <1>1, <2>1, <2>3, <2>4, StoredUntouched DEF IInv, FreshStay
<1>3. ASSUME NEW key \in Keys, OpenDetail(key)
      PROVE  IInv' /\ FreshStay
  <2>1. ChartInv' /\ FreshStay
    BY <1>1, <1>3, OpeningKeepsCharts DEF OpenDetail
  <2>2. /\ fundamentals' = fundamentals /\ failures' = failures
        /\ queue_analysis_requests({key[1]}, fundamentals)
        /\ UNCHANGED <<stored_vars, chart_summary_cache>>
    BY <1>3 DEF OpenDetail, Asked
  <2>3. HoldingFits({key[1]}, fundamentals)
    <3>1. fundamentals \in [Symbols -> Inputs \cup {NoInput}]
      BY <1>1 DEF AnalysisInv
    <3>2. ASSUME NEW symbols, NEW holding, holding = fundamentals
          PROVE  HoldingFits(symbols, holding)
      BY <3>1, <3>2 DEF HoldingFits
    <3> QED BY <3>2
  <2>4. AnalysisInv'
    BY <1>1, <2>2, <2>3, AnalysesAsked
  <2> QED BY <1>1, <2>1, <2>2, <2>4, StoredUntouched DEF IInv
<1>4. ASSUME NEW key \in Keys, OpenRange(key)
      PROVE  IInv' /\ FreshStay
  <2>1. ChartInv' /\ FreshStay
    BY <1>1, <1>4, OpeningKeepsCharts DEF OpenRange
  <2>2. UNCHANGED <<analysis_vars, fundamentals, failures, stored_vars, chart_summary_cache>>
    BY <1>4 DEF OpenRange, Asked
  <2>3. AnalysisInv'
    BY <1>1, <2>2, AnalysesUntouched
  <2> QED BY <1>1, <2>1, <2>2, <2>3, StoredUntouched DEF IInv
<1>5. ASSUME NEW ok \in BOOLEAN, ChartFetched(ok)
      PROVE  IInv' /\ FreshStay
  <2>1. ChartInv' /\ chart_cache' = chart_cache
    BY <1>1, <1>5, FetchingKeepsCharts
  <2>2. UNCHANGED <<analysis_vars, fundamentals, stored_vars, chart_summary_cache>>
    BY <1>5 DEF ChartFetched
  <2>3. AnalysisInv'
    BY <1>1, <2>2, AnalysesUntouched
  <2>4. failures' \in 0..MAX_FAILURES
    BY <1>1, <1>5, BoundsAssumption DEF ChartFetched
  <2> QED BY <1>1, <2>1, <2>2, <2>3, <2>4, StoredUntouched DEF IInv, FreshStay
<1>6. ASSUME NEW ok \in BOOLEAN, AnalysisFetched(ok)
      PROVE  IInv' /\ FreshStay
  <2>1. /\ UNCHANGED <<chart_vars, failures, stored_vars>>
        /\ chart_cache' = chart_cache /\ chart_summary_cache' = chart_summary_cache
    BY <1>6 DEF AnalysisFetched, chart_vars
  <2>2. AnalysisInv'
    BY <1>1, <1>6, FetchingKeepsAnalyses
  <2> QED BY <1>1, <2>1, <2>2, ChartsUntouched, StoredUntouched DEF IInv, FreshStay
<1>7. CASE apply_chart_data
  <2>1. ChartInv' /\ FreshStay
    BY <1>1, <1>7, ApplyingKeepsCharts
  <2>2. UNCHANGED <<analysis_vars, fundamentals, failures>>
    BY <1>7 DEF apply_chart_data
  <2>3. StoredInv'
    BY <1>1, <1>7, ApplyingKeepsStored
  <2> QED BY <1>1, <2>1, <2>2, <2>3, AnalysesUntouched DEF IInv
<1>8. CASE apply_analysis_data
  <2>1. /\ UNCHANGED <<chart_vars, failures, stored_vars>>
        /\ chart_cache' = chart_cache /\ chart_summary_cache' = chart_summary_cache
    BY <1>8 DEF apply_analysis_data, chart_vars
  <2>2. AnalysisInv'
    BY <1>1, <1>8, ApplyingKeepsAnalyses
  <2> QED BY <1>1, <2>1, <2>2, ChartsUntouched, StoredUntouched DEF IInv, FreshStay
<1>9. ASSUME NEW ok \in BOOLEAN, persist_batch(ok)
      PROVE  IInv' /\ FreshStay
  <2>1. /\ UNCHANGED chart_vars /\ UNCHANGED analysis_vars /\ UNCHANGED fundamentals
        /\ failures' = failures /\ chart_cache' = chart_cache
    BY <1>9 DEF persist_batch, chart_vars
  <2>2. StoredInv'
    BY <1>1, <1>9, BatchKeepsStored
  <2> QED BY <1>1, <2>1, <2>2, ChartsUntouched, AnalysesUntouched DEF IInv, FreshStay
<1>10. CASE UNCHANGED vars
  <2>1. /\ UNCHANGED chart_vars /\ UNCHANGED analysis_vars /\ UNCHANGED fundamentals
        /\ UNCHANGED stored_vars /\ chart_summary_cache' = chart_summary_cache
        /\ failures' = failures /\ chart_cache' = chart_cache
    BY <1>10 DEF vars, chart_vars
  <2> QED BY <1>1, <2>1, ChartsUntouched, StoredUntouched, AnalysesUntouched
          DEF IInv, FreshStay
<1> QED BY <1>2, <1>3, <1>4, <1>5, <1>6, <1>7, <1>8, <1>9, <1>10 DEF Next

(* Requests, noted requests and entries fit together in every state.       *)
THEOREM Inductive == Spec => []IInv
<1>1. IInv /\ [Next]_vars => IInv'
  BY Step
<1> QED BY <1>1, InitIInv, PTL DEF Spec

(* Every variable has its type.                                            *)
THEOREM TypeCorrect == Spec => []TypeOK
<1>1. IInv => TypeOK
  BY DEF IInv, ChartInv, StoredInv, AnalysisInv, AnalysisGood, Tables, TypeOK
<1> QED BY <1>1, Inductive, PTL

(* Whatever waits is waited for, and no chart is asked for twice in the    *)
(* same way: no entry shows "loading" for ever because its answer was lost *)
(* or taken for another's.                                                 *)
THEOREM WhatWaitsIsUnderWay == Spec => []RequestsAreUnderWay
<1>1. IInv => RequestsAreUnderWay
  <2> SUFFICES ASSUME IInv PROVE RequestsAreUnderWay
    OBVIOUS
  <2>1. /\ UnderWay(chart_cache, background_chart_requests, ChartRequests)
        /\ InOrder(ChartRequests) /\ AnalysisGood(analysis_cache, Flight(analysis_control))
    BY DEF IInv, ChartInv, AnalysisInv, Placed
  <2>2. ASSUME NEW k \in Keys
        PROVE  /\ chart_cache[k].state = "Loading" =>
                    [key |-> k, id |-> chart_cache[k].id, kind |-> "Detail"]
                      \in Elements(ChartRequests)
               /\ background_chart_requests[k] # 0 =>
                    [key |-> k, id |-> background_chart_requests[k], kind |-> "Background"]
                      \in Elements(ChartRequests)
    BY <2>1 DEF UnderWay, Request, Elements
  <2>3. ASSUME NEW i \in 1..Len(ChartRequests), NEW j \in 1..Len(ChartRequests),
               ChartRequests[i].key = ChartRequests[j].key,
               ChartRequests[i].kind = ChartRequests[j].kind
        PROVE  i = j
    BY <2>1, <2>3 DEF InOrder
  <2>4. ASSUME NEW s \in Symbols, analysis_cache[s].state = "Loading"
        PROVE  [symbol |-> s, id |-> analysis_cache[s].id] \in AnalysisRequests
    BY <2>1, <2>4 DEF AnalysisGood, Flight, AnalysisRequests
  <2> QED BY <2>2, <2>3, <2>4 DEF RequestsAreUnderWay
<1> QED BY <1>1, Inductive, PTL

(* Screen and summary hold one fetch, whichever of a detail and a          *)
(* background request was answered first or failed, and the database will  *)
(* hold it too, unless it refused the chart's latest batch.                *)
THEOREM OneChart == Spec => []ChartsAgree
<1>1. IInv => ChartsAgree
  BY DEF IInv, ChartInv, StoredInv, Stored, ChartsAgree, LastCapture
<1> QED BY <1>1, Inductive, PTL

(* No answer for an older input is stored under a newer one.               *)
THEOREM AnalysisFits == Spec => []AnalysisIsOfItsInput
<1>1. IInv => AnalysisIsOfItsInput
  BY DEF IInv, AnalysisInv, AnalysisGood, AnalysisIsOfItsInput
<1> QED BY <1>1, Inductive, PTL

(* No late answer and no request changes a chart fetched in this session.  *)
THEOREM FreshChartsAreKept == Spec => FreshChartsStay
<1>1. IInv /\ [Next]_vars =>
        [\A k \in Keys :
           chart_cache[k].state = "Ready" => chart_cache'[k] = chart_cache[k]]_vars
  BY Step DEF FreshStay
<1> QED BY <1>1, Inductive, PTL DEF Spec, FreshChartsStay
=============================================================================
