---------------------------- MODULE DetailCaches ----------------------------
(***************************************************************************)
(* The chart and analysis caches of the workstation (AppState in           *)
(* app_core.rs), the two worker threads that fill them (runtime.rs) and    *)
(* the main loop's handlers that ask for data and apply the answers.       *)
(*                                                                         *)
(* A chart of a symbol and a range is asked for in two ways: because its   *)
(* detail screen is open, which leaves a Loading entry in the cache, and   *)
(* in the background after the symbol was updated, which is noted apart.   *)
(* Both kinds go through one channel to one thread.  An analysis is asked  *)
(* for once for each input, the figures that a valuation depends on.       *)
(*                                                                         *)
(* Good candles are handed to the worker of the database, if the session   *)
(* has one, in a batch of their own.  The worker may refuse it; the main   *)
(* loop then raises an issue and does not send the chart again.  It waits  *)
(* for the answer, but no longer than ten seconds, after which the batch   *)
(* is still queued: that it goes on with any number of them queued is what *)
(* is left of the wait here.                                               *)
(*                                                                         *)
(* A session starts with empty caches, for load_warm_start restores no     *)
(* charts (persistence.rs:339); stale_chart_cache, which it would fill, is *)
(* always empty and left out.                                              *)
(*                                                                         *)
(* Candles are known by where they came from.  A request's number is the   *)
(* code's running counter, of which only one thing matters: it differs     *)
(* from those of the other requests of its kind for the same entry that    *)
(* are under way; NextId takes the least such number.                      *)
(***************************************************************************)
EXTENDS Integers, Sequences, FiniteSets

CONSTANTS
  SymbolOrder,   \* the tracked symbols, in the order of their names
  RangeOrder,    \* the chart ranges, in the order of chart_ranges
  Inputs,        \* the values of AnalysisInputKey without the symbol
  NoInput,       \* a symbol whose fundamentals are not known yet
  BACKGROUND_CHART_REQUEST_BUDGET_PER_CYCLE,
  MAX_FAILURES,  \* bound: failed chart fetches
  MAX_QUEUED     \* bound: analyses under way when an input changes

Elements(seq) == {seq[i] : i \in 1..Len(seq)}
Symbols == Elements(SymbolOrder)
Ranges == Elements(RangeOrder)
Keys == Symbols \X Ranges

ASSUME OrderAssumption ==
  SymbolOrder \in Seq(Symbols) /\ RangeOrder \in Seq(Ranges)
ASSUME BudgetAssumption == BACKGROUND_CHART_REQUEST_BUDGET_PER_CYCLE \in Nat \ {0}
ASSUME BoundsAssumption == MAX_FAILURES \in Nat /\ MAX_QUEUED \in Nat \ {0}
ASSUME InputAssumption == NoInput \notin Inputs

ChartRequestKind == {"Detail", "Background"}
Fetched == ChartRequestKind
Candles == {"none"} \cup Fetched
ChartRequest == [key : Keys, id : Nat \ {0}, kind : ChartRequestKind]
ChartDataEvent == [key : Keys, id : Nat \ {0}, kind : ChartRequestKind, ok : BOOLEAN]
RawCapture == [key : Keys, candles : Fetched]

(* `candles' of a Ready entry, `previous' of a Loading or Failed one.      *)
ChartCacheEntry == [state : {"Absent", "Loading", "Ready", "Failed"}, id : Nat, candles : Candles]
Absent == [state |-> "Absent", id |-> 0, candles |-> "none"]
Loading(id, previous) == [state |-> "Loading", id |-> id, candles |-> previous]
Ready(candles) == [state |-> "Ready", id |-> 0, candles |-> candles]
Failed(previous) == [state |-> "Failed", id |-> 0, candles |-> previous]

AnalysisCacheEntry == [state : {"Absent", "Loading", "Ready", "Failed"}, id : Nat,
                       input : Inputs \cup {NoInput}, analysis : Inputs \cup {NoInput}]
NoAnalysis == [state |-> "Absent", id |-> 0, input |-> NoInput, analysis |-> NoInput]
AnalysisRequest == [symbol : Symbols, id : Nat \ {0}, input : Inputs]
AnalysisDataEvent ==
  [symbol : Symbols, id : Nat \ {0}, input : Inputs, ok : BOOLEAN]

VARIABLES
  chart_cache,                \* Keys -> ChartCacheEntry
  chart_summary_cache,        \* Keys -> Candles, what the summary was computed from
  background_chart_requests,  \* Keys -> the id of the request, 0 for none
  chart_control,              \* channel to chart_loop
  chart_events,               \* ChartData events that the main loop has still to handle
  persistence_handle,         \* whether the session has a database
  captures,                   \* the captures in batches that the worker has not executed
  raw_latest,                 \* Keys -> Candles, what the database holds of this session
  refused,                    \* history: the charts whose latest batch was refused
  fundamentals,               \* Symbols -> what the screener holds for it
  analysis_cache,             \* Symbols -> AnalysisCacheEntry
  analysis_control,           \* channel to analysis_loop
  analysis_events,            \* AnalysisData events still to be handled
  failures                    \* failed chart fetches so far, for the bound

chart_vars == <<chart_cache, chart_summary_cache, background_chart_requests,
                chart_control, chart_events>>
stored_vars == <<persistence_handle, captures, raw_latest, refused>>
analysis_vars == <<analysis_cache, analysis_control, analysis_events>>
vars == <<chart_vars, stored_vars, fundamentals, analysis_vars, failures>>

-----------------------------------------------------------------------------
(* Asking for charts.  The functions below work on the three fields that   *)
(* queue_chart_request changes, for the main loop calls it several times   *)
(* in one handler.                                                         *)

Asking == [cache |-> chart_cache, background |-> background_chart_requests,
           control |-> chart_control, queued |-> 0]

ChartIds(control, key, kind) ==
  {r.id : r \in {q \in Elements(control) \cup Elements(chart_events) :
                   q.key = key /\ q.kind = kind}}

LeastFree(ids) == CHOOSE n \in 1..(Cardinality(ids) + 1) :
                    n \notin ids /\ \A m \in 1..(n - 1) : m \in ids
NextId(asking, key, kind) == LeastFree(ChartIds(asking.control, key, kind))

DetailRefused(entry) == entry.state \in {"Loading", "Ready"}

\* Mutant: a background request under way is forgotten.
RefusedByCacheOnly(key, entry, pending) ==
  entry.state \in {"Loading", "Ready"} \/ chart_summary_cache[key] # "none"

BackgroundRefused(key, entry, pending) ==
  \/ pending # 0
  \/ entry.state \in {"Loading", "Ready"}
  \/ chart_summary_cache[key] # "none"

QueueDetail(asking, key) ==
  LET entry == asking.cache[key]
      id == NextId(asking, key, "Detail")
  IN IF DetailRefused(entry) THEN asking
     ELSE [asking EXCEPT
             !.cache[key] = Loading(id, entry.candles),
             !.control = Append(@, [key |-> key, id |-> id, kind |-> "Detail"])]

QueueBackground(asking, key) ==
  LET id == NextId(asking, key, "Background")
  IN IF BackgroundRefused(key, asking.cache[key], asking.background[key]) THEN asking
     ELSE [asking EXCEPT
             !.background[key] = id,
             !.control = Append(@, [key |-> key, id |-> id, kind |-> "Background"]),
             !.queued = @ + 1]

\* Mutant: the budget is spent on refused requests too.
BudgetOfTries(asking, key) ==
  IF asking.queued >= BACKGROUND_CHART_REQUEST_BUDGET_PER_CYCLE THEN asking
  ELSE [QueueBackground(asking, key) EXCEPT !.queued = asking.queued + 1]

WithinBudget(asking, key) ==
  IF asking.queued >= BACKGROUND_CHART_REQUEST_BUDGET_PER_CYCLE THEN asking
  ELSE QueueBackground(asking, key)

(* The loops over the updated symbols and, in each, over the ranges.       *)
KeyOrder ==
  LET n == Len(RangeOrder)
  IN [i \in 1..(Len(SymbolOrder) * n) |->
        <<SymbolOrder[((i - 1) \div n) + 1], RangeOrder[((i - 1) % n) + 1]>>]

AskChart(asking, key, symbols) ==
  IF key[1] \in symbols THEN WithinBudget(asking, key) ELSE asking

ChartsAskedFor(symbols) ==
  LET after[i \in 0..Len(KeyOrder)] ==
        IF i = 0 THEN Asking ELSE AskChart(after[i - 1], KeyOrder[i], symbols)
  IN after
queue_background_chart_requests(symbols) == ChartsAskedFor(symbols)[Len(KeyOrder)]

Asked(asking) ==
  /\ chart_cache' = asking.cache
  /\ background_chart_requests' = asking.background
  /\ chart_control' = asking.control
  /\ UNCHANGED <<chart_summary_cache, chart_events, stored_vars>>

-----------------------------------------------------------------------------
(* Asking for analyses.                                                    *)

AskingAnalyses == [cache |-> analysis_cache, control |-> analysis_control]

AnalysisIds(control, symbol) ==
  {r.id : r \in {q \in Elements(control) \cup Elements(analysis_events) :
                   q.symbol = symbol}}

(* queue_analysis_request changes nothing when the cache has an entry, be  *)
(* it a failure, of the same input.                                        *)
WantsAnalysis(entry, input) == input # NoInput /\ entry.input # input

QueueAnalysis(asking, symbol, input) ==
  LET id == LeastFree(AnalysisIds(asking.control, symbol))
  IN IF ~WantsAnalysis(asking.cache[symbol], input) THEN asking
     ELSE [cache |-> [asking.cache EXCEPT ![symbol] =
                        [state |-> "Loading", id |-> id, input |-> input,
                         analysis |-> NoInput]],
           control |-> Append(asking.control,
                              [symbol |-> symbol, id |-> id, input |-> input])]

(* The requests for a set of symbols whose fundamentals are now `holding', *)
(* in the order of the symbols.                                            *)
AskAnalysis(asking, symbol, symbols, holding) ==
  IF symbol \in symbols THEN QueueAnalysis(asking, symbol, holding[symbol]) ELSE asking

AnalysesAskedFor(symbols, holding) ==
  LET after[i \in 0..Len(SymbolOrder)] ==
        IF i = 0 THEN AskingAnalyses
        ELSE AskAnalysis(after[i - 1], SymbolOrder[i], symbols, holding)
  IN after

queue_analysis_requests(symbols, holding) ==
  LET asked == AnalysesAskedFor(symbols, holding)[Len(SymbolOrder)]
  IN /\ analysis_cache' = asked.cache
     /\ analysis_control' = asked.control
     /\ UNCHANGED analysis_events

-----------------------------------------------------------------------------
(* The start: no chart is in memory, whatever earlier sessions stored, and *)
(* the screener may already hold fundamentals.                             *)
Init ==
  /\ chart_cache = [k \in Keys |-> Absent]
  /\ chart_summary_cache = [k \in Keys |-> "none"]
  /\ background_chart_requests = [k \in Keys |-> 0]
  /\ chart_control = <<>> /\ chart_events = <<>>
  /\ persistence_handle \in BOOLEAN /\ captures = <<>>
  /\ raw_latest = [k \in Keys |-> "none"] /\ refused = {}
  /\ fundamentals \in [Symbols -> Inputs \cup {NoInput}]
  /\ analysis_cache = [s \in Symbols |-> NoAnalysis]
  /\ analysis_control = <<>> /\ analysis_events = <<>>
  /\ failures = 0

(* A feed batch, and the first round at the start of the main loop: the    *)
(* screener takes the new fundamentals, then charts and analyses of the    *)
(* updated symbols are asked for.  The handler ends by asking once more    *)
(* for the analysis of the symbol on the detail screen, whose input has    *)
(* not changed since it was asked for last (AnalysisIsOfItsInput).         *)
FeedBatch(symbols) ==
  /\ \E holding \in [Symbols -> Inputs \cup {NoInput}] :
       /\ \A s \in Symbols :
            \/ holding[s] = fundamentals[s]
            \/ /\ s \in symbols /\ holding[s] # NoInput
               /\ Len(analysis_control) + Len(analysis_events) < MAX_QUEUED
       /\ fundamentals' = holding
       /\ queue_analysis_requests(symbols, holding)
  /\ Asked(queue_background_chart_requests(symbols))
  /\ UNCHANGED failures

(* Enter, j and k show a symbol, 1 to 6, [ and ] a range of the same one.  *)
OpenDetail(key) ==
  /\ Asked(QueueDetail(Asking, key))
  /\ queue_analysis_requests({key[1]}, fundamentals)
  /\ UNCHANGED <<fundamentals, failures>>

OpenRange(key) ==
  /\ Asked(QueueDetail(Asking, key))
  /\ UNCHANGED <<analysis_vars, fundamentals, failures>>

-----------------------------------------------------------------------------
(* The worker threads: they take the oldest request, fetch, and publish    *)
(* the answer, a failure to build the client being one more failed fetch.  *)
ChartFetched(ok) ==
  /\ chart_control # <<>>
  /\ ~ok => failures < MAX_FAILURES
  /\ failures' = IF ok THEN failures ELSE failures + 1
  /\ LET request == Head(chart_control)
     IN chart_events' = Append(chart_events,
          [key |-> request.key, id |-> request.id, kind |-> request.kind, ok |-> ok])
  /\ chart_control' = Tail(chart_control)
  /\ UNCHANGED <<chart_cache, chart_summary_cache, background_chart_requests,
                 stored_vars, fundamentals, analysis_vars>>

AnalysisFetched(ok) ==
  /\ analysis_control # <<>>
  /\ LET request == Head(analysis_control)
     IN analysis_events' = Append(analysis_events,
          [symbol |-> request.symbol, id |-> request.id, input |-> request.input, ok |-> ok])
  /\ analysis_control' = Tail(analysis_control)
  /\ UNCHANGED <<analysis_cache, chart_vars, stored_vars, fundamentals, failures>>

(* The worker of the database executes the oldest batch; the latest chart  *)
(* of a symbol and range replaces the one before.  A batch is refused when *)
(* its transaction fails, the database does not open or the worker is gone.*)
persist_batch(ok) ==
  /\ captures # <<>>
  /\ captures' = Tail(captures)
  /\ LET capture == Head(captures)
     IN IF ok
        THEN /\ raw_latest' = [raw_latest EXCEPT ![capture.key] = capture.candles]
             /\ refused' = refused \ {capture.key}
        ELSE refused' = refused \cup {capture.key} /\ UNCHANGED raw_latest
  /\ UNCHANGED <<persistence_handle, chart_vars, fundamentals, analysis_vars, failures>>

-----------------------------------------------------------------------------
(* Applying the answers.                                                   *)

(* What both kinds do with good candles: they are summarized, and the main *)
(* loop hands them to the worker of the database.                          *)
Captured(key, candles) ==
  IF persistence_handle THEN Append(captures, [key |-> key, candles |-> candles]) ELSE captures

\* Mutant: a chart that no detail screen shows is not stored.
KeepShown(key, candles) ==
  /\ chart_summary_cache' = [chart_summary_cache EXCEPT ![key] = candles]
  /\ captures' = IF chart_cache[key] = Absent THEN captures ELSE Captured(key, candles)

Keep(key, candles) ==
  /\ chart_summary_cache' = [chart_summary_cache EXCEPT ![key] = candles]
  /\ captures' = Captured(key, candles)

KeepNothing == UNCHANGED <<chart_summary_cache, captures>>

\* Mutant: any answer of a known chart is applied.
EntryExists(event) == chart_cache[event.key] # Absent

DetailIsAwaited(event) ==
  /\ chart_cache[event.key].state = "Loading"
  /\ chart_cache[event.key].id = event.id

ApplyDetail(event) ==
  /\ UNCHANGED background_chart_requests
  /\ IF ~DetailIsAwaited(event) THEN KeepNothing /\ UNCHANGED chart_cache
     ELSE IF event.ok
     THEN /\ Keep(event.key, "Detail")
          /\ chart_cache' = [chart_cache EXCEPT ![event.key] = Ready("Detail")]
     ELSE /\ KeepNothing
          /\ chart_cache' = [chart_cache EXCEPT ![event.key] = Failed(@.candles)]

ApplyBackground(event) ==
  IF background_chart_requests[event.key] # event.id
  THEN KeepNothing /\ UNCHANGED <<chart_cache, background_chart_requests>>
  ELSE /\ background_chart_requests' = [background_chart_requests EXCEPT ![event.key] = 0]
       /\ IF event.ok
          THEN /\ Keep(event.key, "Background")
               /\ chart_cache' = [chart_cache EXCEPT ![event.key] =
                                    IF @ = Absent THEN @ ELSE Ready("Background")]
          ELSE KeepNothing /\ UNCHANGED chart_cache

apply_chart_data ==
  /\ chart_events # <<>>
  /\ LET event == Head(chart_events)
     IN IF event.kind = "Detail" THEN ApplyDetail(event) ELSE ApplyBackground(event)
  /\ chart_events' = Tail(chart_events)
  /\ UNCHANGED <<chart_control, persistence_handle, raw_latest, refused, fundamentals,
                 analysis_vars, failures>>

\* Mutant: the answer to an older request is taken for that of the newest.
SomeAnalysisIsAwaited(event) == analysis_cache[event.symbol].state = "Loading"

AnalysisIsAwaited(event) ==
  /\ analysis_cache[event.symbol].state = "Loading"
  /\ analysis_cache[event.symbol].id = event.id

(* The analysis is computed here, from the fundamentals that the request   *)
(* carried, and stored under the input of the entry; an answer without the *)
(* figures it takes fails like an error.                                   *)
Analysed(entry, event) ==
  IF event.ok
  THEN [entry EXCEPT !.state = "Ready", !.id = 0, !.analysis = event.input]
  ELSE [entry EXCEPT !.state = "Failed", !.id = 0]

apply_analysis_data ==
  /\ analysis_events # <<>>
  /\ LET event == Head(analysis_events)
     IN analysis_cache' = IF AnalysisIsAwaited(event)
          THEN [analysis_cache EXCEPT ![event.symbol] = Analysed(@, event)]
          ELSE analysis_cache
  /\ analysis_events' = Tail(analysis_events)
  /\ UNCHANGED <<analysis_control, chart_vars, stored_vars, fundamentals, failures>>

Next ==
  \/ \E symbols \in SUBSET Symbols \ {{}} : FeedBatch(symbols)
  \/ \E key \in Keys : OpenDetail(key) \/ OpenRange(key)
  \/ \E ok \in BOOLEAN : ChartFetched(ok)
  \/ \E ok \in BOOLEAN : AnalysisFetched(ok)
  \/ \E ok \in BOOLEAN : persist_batch(ok)
  \/ apply_chart_data
  \/ apply_analysis_data

(* The feed loop fetches every tracked symbol again and again and hands    *)
(* the main loop a batch for it; a fetch returns, since the HTTP client    *)
(* has timeouts; the main loop handles the events in its channel.  Nothing *)
(* checked here needs the like of the analyses.                            *)
Fairness ==
  /\ \A s \in Symbols : WF_vars(FeedBatch({s}))
  /\ WF_vars(\E ok \in BOOLEAN : ChartFetched(ok))
  /\ WF_vars(apply_chart_data)

Spec == Init /\ [][Next]_vars /\ Fairness

-----------------------------------------------------------------------------
(* Types, with the fact that a request under way is the only one of its    *)
(* kind for its key.                                                       *)
TypeOK ==
  /\ chart_cache \in [Keys -> ChartCacheEntry]
  /\ chart_summary_cache \in [Keys -> Candles]
  /\ background_chart_requests \in [Keys -> Nat]
  /\ chart_control \in Seq(ChartRequest)
  /\ chart_events \in Seq(ChartDataEvent)
  /\ persistence_handle \in BOOLEAN
  /\ captures \in Seq(RawCapture)
  /\ raw_latest \in [Keys -> Candles]
  /\ refused \subseteq Keys
  /\ fundamentals \in [Symbols -> Inputs \cup {NoInput}]
  /\ analysis_cache \in [Symbols -> AnalysisCacheEntry]
  /\ analysis_control \in Seq(AnalysisRequest)
  /\ analysis_events \in Seq(AnalysisDataEvent)
  /\ failures \in 0..MAX_FAILURES

(* The requests that an answer is still to be applied for, oldest first.   *)
AnsweredCharts ==
  [i \in 1..Len(chart_events) |->
     [key |-> chart_events[i].key, id |-> chart_events[i].id, kind |-> chart_events[i].kind]]
ChartRequests == AnsweredCharts \o chart_control
AnalysisRequests == {[symbol |-> r.symbol, id |-> r.id] :
                       r \in Elements(analysis_control) \cup Elements(analysis_events)}

(* Every entry that waits is waited for: a Loading chart, a noted          *)
(* background request and a Loading analysis have a request or an answer   *)
(* under way that will settle them, and no chart is asked for twice at a   *)
(* time in the same way (queue_chart_request and queue_analysis_request,   *)
(* app_core.rs:1312 and 1476).  Were an answer lost or mistaken for        *)
(* another's, the entry would refuse every later request and show          *)
(* "loading" for ever.                                                     *)
RequestsAreUnderWay ==
  /\ \A k \in Keys :
       /\ chart_cache[k].state = "Loading" =>
            [key |-> k, id |-> chart_cache[k].id, kind |-> "Detail"] \in Elements(ChartRequests)
       /\ background_chart_requests[k] # 0 =>
            [key |-> k, id |-> background_chart_requests[k], kind |-> "Background"]
              \in Elements(ChartRequests)
  /\ \A i, j \in 1..Len(ChartRequests) :
       /\ ChartRequests[i].key = ChartRequests[j].key
       /\ ChartRequests[i].kind = ChartRequests[j].kind
       => i = j
  /\ \A s \in Symbols : analysis_cache[s].state = "Loading" =>
       [symbol |-> s, id |-> analysis_cache[s].id] \in AnalysisRequests

(* The last chart of a symbol and range that is still to be stored.        *)
LastCapture(i, key) ==
  captures[i].key = key /\ \A j \in (i + 1)..Len(captures) : captures[j].key # key

(* The candles on the detail screen and their summary in the tables are    *)
(* those of one fetch, whichever of two requests was answered first or     *)
(* failed; and in a session with a database these are the candles that it  *)
(* will hold when it has executed what is queued, and holds when nothing   *)
(* is, unless it refused them (apply_chart_data, app_core.rs:1525;         *)
(* reconcile_capture_persistence, runtime.rs:1252; persist_batch).         *)
ChartsAgree ==
  /\ \A k \in Keys : chart_cache[k].candles \in {"none", chart_summary_cache[k]}
  /\ persistence_handle => \A k \in Keys :
       /\ \A i \in 1..Len(captures) :
            LastCapture(i, k) => captures[i].candles = chart_summary_cache[k]
       /\ (\A i \in 1..Len(captures) : captures[i].key # k) /\ k \notin refused =>
            raw_latest[k] = chart_summary_cache[k]

(* An analysis is shown under the input it was computed from, and the      *)
(* entry of a symbol that was asked for belongs to the newest fundamentals *)
(* that a handler has seen, although answers for older inputs still arrive *)
(* (queue_analysis_request, apply_analysis_data, app_core.rs:1476, 1619).  *)
AnalysisIsOfItsInput ==
  \A s \in Symbols :
    /\ analysis_cache[s].state = "Ready" => analysis_cache[s].analysis = analysis_cache[s].input
    /\ analysis_cache[s].state # "Absent" => analysis_cache[s].input = fundamentals[s]

(* A chart fetched in this session stays as it is: no late answer, of      *)
(* either kind, replaces it or turns it into a failure, and no request     *)
(* puts it back to Loading (app_core.rs:1333, 1543, 1583).                 *)
FreshChartsStay ==
  [][\A k \in Keys :
       chart_cache[k].state = "Ready" => chart_cache'[k] = chart_cache[k]]_vars

(* Provided that fetches stop failing, every chart of every tracked symbol *)
(* is fetched in time, those behind the budget of one batch too, and no    *)
(* detail screen goes on showing a chart as loading                        *)
(* (queue_background_chart_requests, app_core.rs:1409).                    *)
EveryChartArrives ==
  <>[](\A k \in Keys :
         chart_summary_cache[k] \in Fetched /\ chart_cache[k].state # "Loading")
=============================================================================
