---------------------------- MODULE WindowsFeed ----------------------------
(***************************************************************************)
(* The feed of the Windows back end (commands.rs): adopting a universe     *)
(* profile, the refresh coordinator of each generation with its two        *)
(* refresh workers, the load of one symbol on demand and the hourly        *)
(* snapshot of the rows into the history.                                  *)
(*                                                                         *)
(* Adopting a profile bumps feed_generation and spawns new workers; the    *)
(* old ones are not stopped but notice, at their next check, that their    *)
(* generation is not the active one.  A datum is the generation of the     *)
(* worker that wrote it, or Absent.  A check and the write it guards are   *)
(* one step: both happen under the lock of what is written, and the        *)
(* profile switch takes that lock, after the bump, to reset it.            *)
(*                                                                         *)
(* Left out: what a chart brings besides a price, the valuations (see      *)
(* DemandValuation), and last_error.                                       *)
(***************************************************************************)
EXTENDS Integers, FiniteSets

CONSTANTS
  Profiles,          \* profile names
  Members,           \* [Profiles -> sets of symbols]: resolve_profile_membership
  DefaultProfile,    \* active_profile at start
  ProfileLocked,     \* is_profile_locked: launched for one profile
  PriceOnly,         \* crypto and ETF symbols: no fundamentals expected
  REFRESH_CONCURRENCY,
  Instances,         \* model bound: [workers, opened, snapshots, refreshes, retries]: the
                     \* refresh workers, the symbols whose detail is opened, whether the run
                     \* lasts until a snapshot, or a full refresh, and the retry rounds
  MAX_RETRY_ROUNDS,
  MAX_GENERATION,    \* model bound: profile adoptions
  None               \* no profile, no symbol

Symbols == UNION {Members[p] : p \in Profiles}
Generations == 1..MAX_GENERATION
Workers == 1..REFRESH_CONCURRENCY
NotYet == -1         \* u64::MAX in initial_pass_completed_generation
Absent == -1         \* no datum

ASSUME FeedAssumption ==
  /\ Members \in [Profiles -> SUBSET Symbols] /\ IsFiniteSet(Symbols)
  /\ DefaultProfile \in Profiles /\ ProfileLocked \in BOOLEAN
  /\ PriceOnly \subseteq Symbols
  /\ \A i \in Instances : /\ i.workers \in Workers /\ i.opened \subseteq Symbols
                           /\ i.snapshots \in BOOLEAN /\ i.refreshes \in BOOLEAN
                           /\ i.retries \in 0..MAX_RETRY_ROUNDS
  /\ None \notin Profiles /\ None \notin Symbols
  /\ REFRESH_CONCURRENCY \in Nat \ {0}
  /\ MAX_RETRY_ROUNDS \in Nat
  /\ MAX_GENERATION \in Nat \ {0}

VARIABLES
  instance,          \* one of Instances, fixed
  feed_generation,
  initial_pass_completed_generation,
  active_profile,
  active_symbols,
  feed_status,       \* [running, symbols_loaded, profile_name]
  screener,          \* [Symbols -> [price, fundamentals]]
  history,           \* the snapshot table: the generations its rows are of
  apply,             \* who holds profile_apply_gate: [step, profile]
  coordinator,       \* [Generations -> [step, round, pending]]
  batch,             \* [Generations -> symbols the cursor has not reached]
  failed,            \* [Generations -> symbols to retry]
  worker,            \* [Generations -> [Workers -> [step, symbol, visible, n]]]
  enrolled,          \* [Generations -> `completed`: symbols sent to enrichment]
  loaded,            \* [Generations -> `loaded`]
  sent,              \* [Generations -> [Symbols -> how often it was sent]]
  snapshotter,       \* [Generations -> [step, rows]]
  loader             \* ensure_symbol_loaded: [step, symbol, generation]

profileVars == <<active_profile, active_symbols>>
workerVars  == <<worker, batch, failed, enrolled, loaded, sent>>
vars == <<instance, feed_generation, initial_pass_completed_generation, profileVars, feed_status,
          screener, history, apply, coordinator, workerVars, snapshotter, loader>>

NoRow   == [price |-> Absent, fundamentals |-> Absent]
NoWork  == [step |-> "ended", symbol |-> None, visible |-> FALSE, n |-> 0]
NoApply == [step |-> "idle", profile |-> None]

Init ==
  /\ instance \in Instances
  /\ feed_generation = 0
  /\ initial_pass_completed_generation = NotYet
  /\ active_profile = DefaultProfile
  /\ active_symbols = Members[DefaultProfile]
  /\ feed_status = [running |-> FALSE, symbols_loaded |-> 0,
                    profile_name |-> DefaultProfile]
  /\ screener = [s \in Symbols |-> NoRow]
  /\ history = {}
  /\ apply = NoApply
  /\ coordinator = [g \in Generations |-> [step |-> "none", round |-> 0, pending |-> {}]]
  /\ batch = [g \in Generations |-> {}]
  /\ failed = [g \in Generations |-> {}]
  /\ worker = [g \in Generations |-> [w \in Workers |-> NoWork]]
  /\ enrolled = [g \in Generations |-> {}]
  /\ loaded = [g \in Generations |-> 0]
  /\ sent = [g \in Generations |-> [s \in Symbols |-> 0]]
  /\ snapshotter = [g \in Generations |-> [step |-> "none", rows |-> {}]]
  /\ loader = [step |-> "idle", symbol |-> None, generation |-> 0]

generation_is_current(g) == feed_generation = g

-----------------------------------------------------------------------------
(* Adopting a profile, under profile_apply_gate.                            *)

AlreadyAdopted(p) ==
  feed_status.running /\ active_profile = p /\ active_symbols = Members[p]

\* set_universe_profile, and start_feed with the active profile: the bump, unless the
\* profile is locked or nothing would change.
BeginApply(p) ==
  /\ apply.step = "idle"
  /\ ProfileLocked => p = active_profile
  /\ ~AlreadyAdopted(p)
  /\ feed_generation < MAX_GENERATION
  /\ feed_generation' = feed_generation + 1
  /\ apply' = [step |-> "bumped", profile |-> p]
  /\ UNCHANGED <<initial_pass_completed_generation, profileVars, feed_status, screener,
                 history, coordinator, workerVars, snapshotter, loader>>

reset_initial_pass_completion ==
  /\ apply.step = "bumped"
  /\ initial_pass_completed_generation' = NotYet
  /\ apply' = [apply EXCEPT !.step = "reset"]
  /\ UNCHANGED <<feed_generation, profileVars, feed_status, screener, history,
                 coordinator, workerVars, snapshotter, loader>>

clear_universe ==
  /\ apply.step = "reset"
  /\ screener' = [s \in Symbols |-> NoRow]
  /\ apply' = [apply EXCEPT !.step = "cleared"]
  /\ UNCHANGED <<feed_generation, initial_pass_completed_generation, profileVars,
                 feed_status, history, coordinator, workerVars, snapshotter, loader>>

SetActiveProfile ==
  /\ apply.step = "cleared"
  /\ active_profile' = apply.profile
  /\ active_symbols' = Members[apply.profile]
  /\ apply' = [apply EXCEPT !.step = "named"]
  /\ UNCHANGED <<feed_generation, initial_pass_completed_generation, feed_status, screener,
                 history, coordinator, workerVars, snapshotter, loader>>

ResetFeedStatus ==
  /\ apply.step = "named"
  /\ feed_status' = [running |-> TRUE, symbols_loaded |-> 0,
                     profile_name |-> apply.profile]
  /\ apply' = [apply EXCEPT !.step = "spawning"]
  /\ UNCHANGED <<feed_generation, initial_pass_completed_generation, profileVars, screener,
                 history, coordinator, workerVars, snapshotter, loader>>

\* Mutant: a feed without a coordinator still says that it runs.
SpawnFailsSilently ==
  /\ apply.step = "spawning"
  /\ apply' = NoApply
  /\ UNCHANGED <<feed_generation, initial_pass_completed_generation, profileVars, feed_status,
                 screener, history, coordinator, workerVars, snapshotter, loader>>

\* No client or no coordinator thread: the feed is reported as not running.
SpawnFails ==
  /\ apply.step = "spawning"
  /\ feed_status' = [feed_status EXCEPT !.running = FALSE]
  /\ apply' = NoApply
  /\ UNCHANGED <<feed_generation, initial_pass_completed_generation, profileVars, screener,
                 history, coordinator, workerVars, snapshotter, loader>>

SpawnCoordinator ==
  /\ apply.step = "spawning"
  /\ coordinator' = [coordinator EXCEPT ![feed_generation] =
                       [step |-> "round", round |-> 0, pending |-> active_symbols]]
  /\ apply' = [apply EXCEPT !.step = "spawned"]
  /\ UNCHANGED <<feed_generation, initial_pass_completed_generation, profileVars, feed_status,
                 screener, history, workerVars, snapshotter, loader>>

\* An EDGAR or snapshot thread that does not start is an error of the call, and no more.
SpawnOthers ==
  /\ apply.step = "spawned"
  /\ \/ /\ instance.snapshots
        /\ snapshotter' = [snapshotter EXCEPT ![feed_generation].step = "waiting"]
     \/ UNCHANGED snapshotter
  /\ apply' = NoApply
  /\ UNCHANGED <<feed_generation, initial_pass_completed_generation, profileVars, feed_status,
                 screener, history, coordinator, workerVars, loader>>

apply_universe_profile_serial_with ==
  \/ \E p \in Profiles : BeginApply(p)
  \/ reset_initial_pass_completion \/ clear_universe \/ SetActiveProfile \/ ResetFeedStatus
  \/ SpawnFails \/ SpawnCoordinator \/ SpawnOthers

-----------------------------------------------------------------------------
(* The refresh coordinator of generation g: the rounds of the initial pass, *)
(* the mark, then a full refresh every fifteen minutes.                     *)

RoundsOver(g) ==
  coordinator[g].pending = {} \/ coordinator[g].round > instance.retries

Ended == [step |-> "ended", round |-> 0, pending |-> {}]

AllEnded(g) == \A w \in Workers : worker[g][w].step = "ended"

StartWorkers(g, symbols, step) ==
  /\ batch' = [batch EXCEPT ![g] = symbols]
  /\ failed' = [failed EXCEPT ![g] = {}]
  /\ worker' = [worker EXCEPT ![g] = 
       [w \in Workers |-> IF w <= instance.workers THEN [NoWork EXCEPT !.step = "ready"]
                          ELSE NoWork]]
  /\ coordinator' = [coordinator EXCEPT ![g].step = step]

StartRound(g) ==
  /\ coordinator[g].step = "round" /\ ~RoundsOver(g)
  /\ generation_is_current(g)
  /\ StartWorkers(g, coordinator[g].pending, "joining")
  /\ UNCHANGED <<feed_generation, initial_pass_completed_generation, profileVars, feed_status,
                 screener, history, apply, enrolled, loaded, sent, snapshotter, loader>>

EndRound(g) ==
  /\ coordinator[g].step = "joining" /\ AllEnded(g)
  /\ generation_is_current(g)
  /\ coordinator' = [coordinator EXCEPT ![g] =
       [step |-> "round", round |-> coordinator[g].round + 1, pending |-> failed[g]]]
  /\ UNCHANGED <<feed_generation, initial_pass_completed_generation, profileVars, feed_status,
                 screener, history, apply, workerVars, snapshotter, loader>>

EndPass(g) ==
  /\ coordinator[g].step = "round" /\ RoundsOver(g)
  /\ generation_is_current(g)
  /\ coordinator' = [coordinator EXCEPT ![g].step = "marking"]
  /\ UNCHANGED <<feed_generation, initial_pass_completed_generation, profileVars, feed_status,
                 screener, history, apply, workerVars, snapshotter, loader>>

\* mark_initial_pass_complete_if_current: the check, and then the store.
CheckMark(g) ==
  /\ coordinator[g].step = "marking"
  /\ generation_is_current(g)
  /\ coordinator' = [coordinator EXCEPT ![g].step = "storing"]
  /\ UNCHANGED <<feed_generation, initial_pass_completed_generation, profileVars, feed_status,
                 screener, history, apply, workerVars, snapshotter, loader>>

StoreMark(g) ==
  /\ coordinator[g].step = "storing"
  /\ initial_pass_completed_generation' = g
  /\ coordinator' = [coordinator EXCEPT ![g].step = "resting"]
  /\ UNCHANGED <<feed_generation, profileVars, feed_status, screener, history, apply,
                 workerVars, snapshotter, loader>>

StartFullRefresh(g) ==
  /\ instance.refreshes
  /\ coordinator[g].step = "resting"
  /\ generation_is_current(g)
  /\ StartWorkers(g, active_symbols, "refreshing")
  /\ UNCHANGED <<feed_generation, initial_pass_completed_generation, profileVars, feed_status,
                 screener, history, apply, enrolled, loaded, sent, snapshotter, loader>>

EndFullRefresh(g) ==
  /\ coordinator[g].step = "refreshing" /\ AllEnded(g)
  /\ coordinator' = [coordinator EXCEPT ![g].step = "resting"]
  /\ UNCHANGED <<feed_generation, initial_pass_completed_generation, profileVars, feed_status,
                 screener, history, apply, workerVars, snapshotter, loader>>

\* The thread returns, and what it shared with its workers goes with it.
StopCoordinator(g) ==
  /\ \/ coordinator[g].step \in {"round", "marking", "resting"}
     \/ coordinator[g].step = "joining" /\ AllEnded(g)
  /\ ~generation_is_current(g)
  /\ coordinator' = [coordinator EXCEPT ![g] = Ended]
  /\ batch' = [batch EXCEPT ![g] = {}]
  /\ failed' = [failed EXCEPT ![g] = {}]
  /\ enrolled' = [enrolled EXCEPT ![g] = {}]
  /\ loaded' = [loaded EXCEPT ![g] = 0]
  /\ sent' = [sent EXCEPT ![g] = [s \in Symbols |-> 0]]
  /\ UNCHANGED <<feed_generation, initial_pass_completed_generation, profileVars, feed_status,
                 screener, history, apply, worker, snapshotter, loader>>

Coordinator(g) ==
  \/ StartRound(g) \/ EndRound(g) \/ EndPass(g) \/ CheckMark(g) \/ StoreMark(g)
  \/ StartFullRefresh(g) \/ EndFullRefresh(g) \/ StopCoordinator(g)

-----------------------------------------------------------------------------
(* A refresh worker.  The order within a batch is not kept.                 *)

At(g, w, step) == worker[g][w].step = step

Goto(g, w, step) == worker' = [worker EXCEPT ![g][w].step = step]

\* Mutant: what a cooldown leaves in the batch is not asked for again.
DropBatch(g, w) ==
  /\ At(g, w, "ready") /\ coordinator[g].step = "joining"
  /\ generation_is_current(g)
  /\ batch' = [batch EXCEPT ![g] = {}]
  /\ Goto(g, w, "ended")
  /\ UNCHANGED <<feed_generation, initial_pass_completed_generation, profileVars, feed_status,
                 screener, history, apply, coordinator, failed, enrolled, loaded, sent,
                 snapshotter, loader>>

\* The cooldown of the session sends what is left of the batch to the next round; the
\* full refresh does not look at it.
DrainBatch(g, w) ==
  /\ At(g, w, "ready") /\ coordinator[g].step = "joining"
  /\ generation_is_current(g)
  /\ failed' = [failed EXCEPT ![g] = @ \cup batch[g]]
  /\ batch' = [batch EXCEPT ![g] = {}]
  /\ Goto(g, w, "ended")
  /\ UNCHANGED <<feed_generation, initial_pass_completed_generation, profileVars, feed_status,
                 screener, history, apply, coordinator, enrolled, loaded, sent, snapshotter,
                 loader>>

\* ingest_fetch_result: nothing is stored without a price.
Ingested(s, g, priced, funded) ==
  IF ~priced THEN screener
  ELSE [screener EXCEPT ![s].price = g, ![s].fundamentals = IF funded THEN g ELSE @]

BatchDone(g, w) ==
  /\ At(g, w, "ready") /\ batch[g] = {}
  /\ generation_is_current(g)
  /\ Goto(g, w, "ended")
  /\ UNCHANGED <<feed_generation, initial_pass_completed_generation, profileVars, feed_status,
                 screener, history, apply, coordinator, batch, failed, enrolled, loaded, sent,
                 snapshotter, loader>>

\* The next symbol, fetch_symbol and apply_refresh_quote_if_current.
RefreshQuote(g, w) ==
  /\ At(g, w, "ready")
  /\ generation_is_current(g)
  /\ \E s \in batch[g], priced, funded \in BOOLEAN :
       /\ batch' = [batch EXCEPT ![g] = @ \ {s}]
       /\ screener' = Ingested(s, g, priced, funded)
       /\ worker' = [worker EXCEPT ![g][w] =
            [NoWork EXCEPT !.step = "charting", !.symbol = s, !.visible = priced]]
  /\ UNCHANGED <<feed_generation, initial_pass_completed_generation, profileVars, feed_status,
                 history, apply, coordinator, failed, enrolled, loaded, sent, snapshotter,
                 loader>>

\* apply_refresh_chart_if_current: the chart's close stands in for a missing price.
Charted(s, g) ==
  LET row == screener[s] IN
  IF row.price # Absent THEN screener
  ELSE [screener EXCEPT ![s] =
          [price |-> g, fundamentals |-> IF s \in PriceOnly THEN g ELSE row.fundamentals]]

RefreshChart(g, w) ==
  LET s == worker[g][w].symbol
      Visible(v) == worker' = [worker EXCEPT ![g][w].visible = FALSE,
                                 ![g][w].step = IF v THEN "queueing" ELSE "judging"]
  IN
  /\ At(g, w, "charting")
  /\ generation_is_current(g)
  /\ \/ screener' = Charted(s, g) /\ Visible(TRUE)
     \/ UNCHANGED screener /\ Visible(worker[g][w].visible)
  /\ UNCHANGED <<feed_generation, initial_pass_completed_generation, profileVars, feed_status,
                 history, apply, coordinator, batch, failed, enrolled, loaded, sent,
                 snapshotter, loader>>

\* Mutant: a symbol enrolled before is counted and sent again.
EnrollAgain(g, w) ==
  /\ At(g, w, "queueing")
  /\ generation_is_current(g)
  /\ enrolled' = [enrolled EXCEPT ![g] = @ \cup {worker[g][w].symbol}]
  /\ loaded' = [loaded EXCEPT ![g] = @ + 1]
  /\ worker' = [worker EXCEPT ![g][w].step = "announcing", ![g][w].n = loaded'[g]]
  /\ UNCHANGED <<feed_generation, initial_pass_completed_generation, profileVars, feed_status,
                 screener, history, apply, coordinator, batch, failed, sent, snapshotter,
                 loader>>

\* queue_visible_symbol_for_enrichment: the claim and the count ...
Enroll(g, w) ==
  LET s == worker[g][w].symbol IN
  /\ At(g, w, "queueing")
  /\ generation_is_current(g)
  /\ IF s \in enrolled[g]
     THEN /\ Goto(g, w, "judging")
          /\ UNCHANGED <<enrolled, loaded>>
     ELSE /\ enrolled' = [enrolled EXCEPT ![g] = @ \cup {s}]
          /\ loaded' = [loaded EXCEPT ![g] = @ + 1]
          /\ worker' = [worker EXCEPT ![g][w].step = "announcing", ![g][w].n = loaded'[g]]
  /\ UNCHANGED <<feed_generation, initial_pass_completed_generation, profileVars, feed_status,
                 screener, history, apply, coordinator, batch, failed, sent, snapshotter,
                 loader>>

\* ... and then the status and the send.
MaxLoaded(g, n) ==
  LET shown == IF n > Cardinality(active_symbols) THEN Cardinality(active_symbols) ELSE n
  IN  IF feed_status.symbols_loaded > shown THEN feed_status.symbols_loaded ELSE shown

Announce(g, w) ==
  /\ At(g, w, "announcing")
  /\ generation_is_current(g)
  /\ feed_status' = [feed_status EXCEPT !.symbols_loaded = MaxLoaded(g, worker[g][w].n)]
  /\ sent' = [sent EXCEPT ![g][worker[g][w].symbol] = @ + 1]
  /\ worker' = [worker EXCEPT ![g][w].step = "judging", ![g][w].n = 0]
  /\ UNCHANGED <<feed_generation, initial_pass_completed_generation, profileVars, screener,
                 history, apply, coordinator, batch, failed, enrolled, loaded, snapshotter,
                 loader>>

symbol_state_enrichment_complete(s) ==
  /\ screener[s].price # Absent
  /\ s \in PriceOnly \/ screener[s].fundamentals # Absent

\* needs_enrichment_retry, where an enriched outcome has left a complete row; the full
\* refresh asks nothing.
Judge(g, w) ==
  LET s == worker[g][w].symbol
      retry == /\ coordinator[g].step = "joining"
               /\ ~symbol_state_enrichment_complete(s)
  IN
  /\ At(g, w, "judging")
  /\ failed' = IF retry THEN [failed EXCEPT ![g] = @ \cup {s}] ELSE failed
  /\ worker' = [worker EXCEPT ![g][w] = [NoWork EXCEPT !.step = "ready"]]
  /\ UNCHANGED <<feed_generation, initial_pass_completed_generation, profileVars, feed_status,
                 screener, history, apply, coordinator, batch, enrolled, loaded, sent,
                 snapshotter, loader>>

StopWorker(g, w) ==
  /\ worker[g][w].step \in {"ready", "charting", "queueing", "announcing"}
  /\ ~generation_is_current(g)
  /\ worker' = [worker EXCEPT ![g][w] = NoWork]
  /\ UNCHANGED <<feed_generation, initial_pass_completed_generation, profileVars, feed_status,
                 screener, history, apply, coordinator, batch, failed, enrolled, loaded, sent,
                 snapshotter, loader>>

RefreshWorker(g, w) ==
  \/ DrainBatch(g, w) \/ BatchDone(g, w) \/ RefreshQuote(g, w) \/ RefreshChart(g, w)
  \/ Enroll(g, w) \/ Announce(g, w) \/ Judge(g, w) \/ StopWorker(g, w)

-----------------------------------------------------------------------------
(* The snapshot worker of generation g: a check, the rows, then the insert  *)
(* under profile_apply_gate with a second check.                            *)

CheckSnapshot(g) ==
  /\ snapshotter[g].step = "waiting"
  /\ snapshotter' = [snapshotter EXCEPT ![g].step =
                       IF generation_is_current(g) THEN "reading" ELSE "ended"]
  /\ UNCHANGED <<feed_generation, initial_pass_completed_generation, profileVars, feed_status,
                 screener, history, apply, coordinator, workerVars, loader>>

PricedRows == {screener[s].price : s \in Symbols} \ {Absent}

ReadRows(g) ==
  /\ snapshotter[g].step = "reading"
  /\ snapshotter' = [snapshotter EXCEPT ![g] =
       [step |-> IF PricedRows = {} THEN "waiting" ELSE "inserting", rows |-> PricedRows]]
  /\ UNCHANGED <<feed_generation, initial_pass_completed_generation, profileVars, feed_status,
                 screener, history, apply, coordinator, workerVars, loader>>

\* Mutant: the insert trusts the check made before the rows were read.
with_profile_apply_gate(g) == apply.step = "idle"

with_current_profile_generation(g) == apply.step = "idle" /\ generation_is_current(g)

InsertSnapshots(g) ==
  /\ snapshotter[g].step = "inserting"
  /\ with_current_profile_generation(g)
  /\ history' = history \cup snapshotter[g].rows
  /\ snapshotter' = [snapshotter EXCEPT ![g] = [step |-> "waiting", rows |-> {}]]
  /\ UNCHANGED <<feed_generation, initial_pass_completed_generation, profileVars, feed_status,
                 screener, apply, coordinator, workerVars, loader>>

StopSnapshots(g) ==
  /\ snapshotter[g].step = "inserting"
  /\ apply.step = "idle" /\ ~generation_is_current(g)
  /\ snapshotter' = [snapshotter EXCEPT ![g] = [step |-> "ended", rows |-> {}]]
  /\ UNCHANGED <<feed_generation, initial_pass_completed_generation, profileVars, feed_status,
                 screener, history, apply, coordinator, workerVars, loader>>

SnapshotWorker(g) ==
  CheckSnapshot(g) \/ ReadRows(g) \/ InsertSnapshots(g) \/ StopSnapshots(g)

-----------------------------------------------------------------------------
(* refresh_symbol, and ensure_symbol_loaded up to its charts: the symbol    *)
(* may be outside the profile.                                              *)

NoLoad == [step |-> "idle", symbol |-> None, generation |-> 0]

BeginLoad ==
  /\ loader.step = "idle"
  /\ \E s \in instance.opened :
       loader' = [step |-> "quote", symbol |-> s, generation |-> feed_generation]
  /\ UNCHANGED <<feed_generation, initial_pass_completed_generation, profileVars, feed_status,
                 screener, history, apply, coordinator, workerVars, snapshotter>>

\* Mutant: a load that outlives its profile is stored.
LoadQuoteUnchecked ==
  /\ loader.step = "quote"
  /\ \E priced, funded \in BOOLEAN :
       screener' = Ingested(loader.symbol, loader.generation, priced, funded)
  /\ loader' = NoLoad
  /\ UNCHANGED <<feed_generation, initial_pass_completed_generation, profileVars, feed_status,
                 history, apply, coordinator, workerVars, snapshotter>>

LoadQuote ==
  /\ loader.step = "quote"
  /\ IF generation_is_current(loader.generation)
     THEN \E priced, funded \in BOOLEAN :
            screener' = Ingested(loader.symbol, loader.generation, priced, funded)
     ELSE UNCHANGED screener
  /\ loader' = NoLoad
  /\ UNCHANGED <<feed_generation, initial_pass_completed_generation, profileVars, feed_status,
                 history, apply, coordinator, workerVars, snapshotter>>

-----------------------------------------------------------------------------
Next ==
  /\ UNCHANGED instance
  /\ \/ apply_universe_profile_serial_with
     \/ \E g \in Generations : \/ Coordinator(g)
                               \/ \E w \in Workers : RefreshWorker(g, w)
                               \/ SnapshotWorker(g)
     \/ BeginLoad \/ LoadQuote

Spec == Init /\ [][Next]_vars

-----------------------------------------------------------------------------
(* Properties.                                                              *)

Datum == Generations \cup {0, Absent}
TypeOK ==
  /\ instance \in Instances
  /\ feed_generation \in 0..MAX_GENERATION
  /\ initial_pass_completed_generation \in Generations \cup {NotYet}
  /\ active_profile \in Profiles /\ active_symbols \subseteq Symbols
  /\ feed_status \in [running : BOOLEAN, symbols_loaded : Nat, profile_name : Profiles]
  /\ screener \in [Symbols -> [price : Datum, fundamentals : Datum]]
  /\ history \subseteq Datum
  /\ apply \in [step : {"idle", "bumped", "reset", "cleared", "named", "spawning", "spawned"},
                profile : Profiles \cup {None}]
  /\ coordinator \in [Generations -> [step : {"none", "round", "joining", "marking", "storing",
                                              "resting", "refreshing", "ended"},
                                      round : 0..MAX_RETRY_ROUNDS + 1,
                                      pending : SUBSET Symbols]]
  /\ batch \in [Generations -> SUBSET Symbols]
  /\ failed \in [Generations -> SUBSET Symbols]
  /\ worker \in [Generations -> [Workers ->
       [step : {"ended", "ready", "charting", "queueing", "announcing", "judging"},
        symbol : Symbols \cup {None}, visible : BOOLEAN, n : Nat]]]
  /\ enrolled \in [Generations -> SUBSET Symbols]
  /\ loaded \in [Generations -> Nat]
  /\ sent \in [Generations -> [Symbols -> Nat]]
  /\ snapshotter \in [Generations ->
       [step : {"none", "waiting", "reading", "inserting", "ended"},
        rows : SUBSET Datum]]
  /\ loader \in [step : {"idle", "quote"}, symbol : Symbols \cup {None},
                 generation : 0..MAX_GENERATION]

\* Once the universe is cleared, everything the screener holds was written by the active
\* generation: no worker or load of an earlier profile can put a row back, although none
\* of them is stopped.
NoStaleData ==
  apply.step \notin {"bumped", "reset"} =>
    \A s \in Symbols : \A part \in {"price", "fundamentals"} :
      screener[s][part] \in {feed_generation, Absent}

\* Between two adoptions the status speaks of the active profile, and a feed it reports as
\* running has a coordinator of the active generation.
StatusIsOfTheProfile ==
  /\ apply.step \in {"idle", "spawning", "spawned"} /\ feed_generation # 0 =>
       /\ feed_status.profile_name = active_profile
       /\ active_symbols = Members[active_profile]
  /\ feed_status.running /\ apply.step = "idle" =>
       coordinator[feed_generation].step \notin {"none", "ended"}

\* A generation whose initial pass is marked complete has been asked for every symbol: each
\* has its columns or is among those the last round could not complete.
MarkedPassIsComplete ==
  initial_pass_completed_generation = feed_generation =>
    LET c == coordinator[feed_generation] IN
    /\ c.step \in {"resting", "refreshing"}
    /\ \A s \in active_symbols : symbol_state_enrichment_complete(s) \/ s \in c.pending

\* Two workers, several rounds and the refresh of every fifteen minutes see the same symbol
\* visible; it goes to an enrichment worker once, and the status counts the symbols that did
\* whenever no worker is between its count and its announcement.
EnrolledOnce ==
  /\ \A g \in Generations : \A s \in Symbols :
       /\ sent[g][s] <= 1
       /\ sent[g][s] = 1 => s \in enrolled[g]
       /\ s \in enrolled[g] /\ generation_is_current(g) =>
            \/ sent[g][s] = 1
            \/ \E w \in Workers : At(g, w, "announcing") /\ worker[g][w].symbol = s
  /\ \/ apply.step \notin {"idle", "spawning", "spawned"}
     \/ \E w \in Workers : feed_generation # 0 /\ At(feed_generation, w, "announcing")
     \/ feed_status.symbols_loaded =
          (IF feed_generation = 0 THEN 0 ELSE Cardinality(enrolled[feed_generation]))

\* The rows put into the history are rows of the active profile, and none is put in while
\* a profile is being adopted.
HistoryIsOfTheProfile ==
  [][history' # history =>
       /\ apply.step = "idle"
       /\ history' \ history = {feed_generation}]_vars
=============================================================================
