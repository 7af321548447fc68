# Discount Screener: formal models of its stateful parts

This directory holds TLA+ models of the terminal workstation in
`src/apps/desktop` and of the Windows application in `src/apps/windows` (its
Rust back end and the shared choices of its React front end), the TLC configurations that check them on small
instances, and TLAPS proofs of the properties that matter most. `PROJECT.json`
lists the runs, maps every definition to the lines it models, and records the
hazards of the code and the disagreements between code and documents that the
runs show.

## 1. The system

The repository holds several programs around one idea: rank stocks by the gap
between market price and fair value. The desktop workstation is the original
one, a Rust program of one main thread and several helper threads. The Windows
application has a Rust back end (Tauri commands, worker threads, a screener
shared under a lock, a SQLite database) and a React front end.

| Component | State | Operations | Talks to |
|---|---|---|---|
| Screener core (`lib.rs`) | per-symbol state, sequence, journal, tape and alert rings, watchlist, counts | `ingest_*`, `clear_fundamentals`, `hydrate_from_persisted`, row builders | called by the main loop |
| Main loop (`runtime.rs`) | application state, `last_persisted_sequence`, issue center, pause buffer | one handler for each `AppEvent` | receives events of all threads; waits for the persistence worker |
| Persistence worker (`persistence.rs`) | SQLite connection, queue of commands | `PersistBatch`, `ReplaceWatchlist`, `ReplaceTrackedSymbols`, `ReplaceIssues`, `MarkCleanShutdown`, `Flush`, `LoadHistory`, `Shutdown` | acknowledgements and status events |
| Session universe (`startup.rs`, `persistence.rs`) | tracked symbols in memory and in the database | start of a session, adding symbols, reset of an unreadable database | feed loop, worker |
| Feed loop (`startup.rs`) | cursor, retry queue, budgets, cooldown | plan a window, fetch it on several threads, adapt | scheduler ticks and `RefreshNow`; feed batches to the main loop |
| Chart and analysis caches (`app_core.rs`, `runtime.rs`) | entries Absent, Loading, Ready or Failed; summaries, stale marks, request ids | ask in the background or for the detail screen, apply an answer | one fetching thread each; the database |
| Issue center (`app_core.rs`) | active and resolved issues | raise, resolve, export, hydrate | feed status, persistence status |
| Windows feed (`commands.rs`) | feed generation, active profile, status, completion mark, the screener's rows, the snapshot history | adopt a profile; refresh rounds on two workers; load one symbol; hourly snapshot | all share the screener's lock and `profile_apply_gate` |
| Windows valuation on demand (`commands.rs`, `engine.rs`) | outputs per symbol, claims in flight | detail command, worker, QA audit, EDGAR's maintenance | the feed's fundamentals and quotes |
| Windows evidence ledger (`analyst_method_service.rs`, `db.rs`) | identity rows, observations, revision edges, runs, the current projection, invalidations, attempts | seed an identity, import, supersede, refuse, read the publication | concurrent importers on one database |
| Windows front end (`App.tsx`, `opportunityRefresh.ts`) | scoring model, universe and regime scoring as shown, saved and requested; flags and generations of what is being switched; the rows | restore, switch a choice, poll | commands of the back end, whose replies come later |
| Rendering, input, market data clients, profiles, valuation models | view state, HTTP clients, floating-point models | | |

Beside them stand an Android application (Kotlin), a Flutter application
(Dart), contract fixtures, research notebooks and scripts.

What makes these parts hard:

* **Waiting with a timeout.** The main loop gives a batch ten seconds. A late
  batch is still executed, and its content is sent again.
* **Five hand-kept views of one event stream.** Symbol states, tape, alerts,
  journal and counts must agree, over restarts too.
* **Restarts.** A session numbers its events from whatever was stored last,
  which may be older than what another batch of the dead session held.
* **A window that moves over a growing list**, with retries ahead of it and
  ticks that are dropped.
* **A universe saved asynchronously**, by sessions that may or may not own it.
* **Two kinds of request for one cache entry**, whose answers overtake each
  other.
* **Workers that are never stopped.** Adopting a profile bumps a number; the
  threads of the old profile notice at their next check, and until then run.
* **Long computations without a lock**, which publish only if nothing they read
  has changed, and whose failures must not hide somebody else's success.
* **Async functions of one page** that wait for the same back end and meet at
  every await, each with a flag or a generation of its own.
* **Authority read in one transaction and used in another**, by importers that
  contend for the same current run.

## 2. The modules

| Module | Models | Lines of thought |
|---|---|---|
| `GapMath` | `checked_gap_bps`, `gap_bps`, `clamped_weighted_fair_value`, `sanitize_external_signal` | pure operators; division truncates toward zero and the result is clamped, as in the code |
| `TerminalState` | the screener core | one action for each `ingest_*`, `clear_fundamentals`, persisting a record and hydrating |
| `Persistence` | main loop, channel, worker and database of the write path | an accepted event is a number; a row is known by the newest events in it |
| `WarmStart` | what the database promises | abstract specification: rows shown and rows saved |
| `SessionUniverse` | the tracked symbols over sessions | plain and one-off sessions, saves, crashes |
| `FeedLoop` | scheduler, planner, fetching threads, adaptation | one action for a tick, a cycle's start, each returned fetch and a cycle's end |
| `DetailCaches` | chart and analysis requests, their threads and answers | candles and figures are known by where they came from |
| `WindowsFeed` | adoption of a profile against the workers of all generations | a datum is the generation of the worker that wrote it |
| `DemandValuation` | one symbol's valuation against everything that changes its inputs or outputs | a valuation carries the fundamentals it was computed of |
| `EvidenceLedger` | imports, superseding, refusals, revision lineage | a digest is what it digests: equal commands, equal digests |
| `AppRefresh` | the React application's choices, their restoration and its polls | rows are what they were computed from |
| `MC*` | finite constants for TLC | |
| `*Proofs` | theorems of the module they extend; `TerminalStateProofs` holds those of `SessionUniverse` too | |

`TerminalState` extends `GapMath`. `Persistence` instantiates `WarmStart` with
the refinement mapping described below. The others are separate: they meet
where one component only hands another a value (a feed batch, a list of
symbols, new fundamentals), and that value is enumerated. `DemandValuation`
takes the adoption of a profile from `WindowsFeed` as two actions, the bump of
the generation and the clearing of the universe. `AppRefresh` takes a command of
the back end as one action, which is what the page sees of it.

### How state and actions correspond to the code

**TerminalState.** `symbols` is the map of `SymbolState`, with `NoState` for an
absent entry; `recent_tape`, `recent_alerts`, `journal`, `sequence` and
`total_events` are the fields of the same names; `stored` holds the record that
`persisted_symbol_state_for` gave for a symbol at some time. Every `ingest_*`
is one action that updates state, history, tape, alerts and journal together,
as the function does. A hydration takes the stored records of any subset of
the symbols. Payloads are records of the fields a decision reads; names and
text are left out.

**Persistence.** `phase` says what `run_terminal` is doing: handling events,
waiting for a batch, waiting for the flush, joining, or down. `commands` is the
channel to the worker, `ack` the channel of the current wait, `events` the
worker's status events. `FeedBatch` is the whole handler: apply, build
revisions, send, and on success or failure raise or resolve the issue and queue
the issue table. `BatchAcked` and `BatchTimedOut` are the two ends of the wait;
the worker's transaction is one action that succeeds or fails as a whole, since
SQLite's commit is. `Crash` may come between any two steps.

Left out here: the pause buffer (its release is one larger batch, and batches of
several events are included), running without a database, the table
`symbol_revision` with its export, and the wait for a history load.

**SessionUniverse.** `tracked` is `LiveSymbolState` as a set, `tracked_table` the
table, `marked` stands for any of the marks in `meta`. `load_initial_state` is
the whole start: load, or reset after a failed load, or no database, followed
by `run_terminal`'s save, which only plain sessions make.

**FeedLoop.** `plan` is the `FeedRefreshPlan` in flight, `returned` the positions
whose fetch has come back, `failed` the retryable failures so far. Thread *w* of
*n* fetches positions *w*, *w+n*, ... in order, and the threads mix freely.
`EndCycle` is everything between two waits: cursor, retry queue, adaptation and
the drain of the channel. `owed` and `quiet` are history variables that only the
properties read. Left out: status counts, progress messages, and the end of the
loop when the main thread has closed its channel.

The outcomes of a fetch are those of the `LiveFeedClient` trait. The client of
today, `MarketDataClient`, reports HTTP failures as diagnostics of a good answer
(`market_data.rs:304`), so that throttling is never seen by the loop and its
backoff and retries never start. The model shows what the loop does for any
client that reports errors.

**DetailCaches.** The caches are functions of a symbol and a range (charts) or
of a symbol (analyses), with the entry `Absent` for a missing key. The two
control channels and the two kinds of answers waiting for the main loop are
sequences. `FeedBatch` is what the main loop's handler does with the updated
symbols: store their fundamentals, ask for charts in the order of symbols and
ranges until the budget is spent, and ask for their analyses. `OpenDetail` and
`OpenRange` are the keys that show a symbol or another range. `ChartFetched` and
`AnalysisFetched` are the two threads, `apply_chart_data` and
`apply_analysis_data` the handlers of their answers. Good candles are summarized
and, in a session with a database, sent to its worker in a batch of their own
(`captures`); `persist_batch` executes the oldest batch or refuses it. The main
loop waits ten seconds for the answer and then goes on with the batch still
queued, so that any number of batches may be queued here; whatever the answer, it
raises or resolves an issue and does not send the chart again. `raw_latest` is
what the database holds of this session's charts; those of earlier sessions count
as none, for no start restores them: `load_warm_start` returns no charts
(`persistence.rs:339`). So the caches start empty, and `stale_chart_cache`, which
a restored chart would mark, is always empty and left out. `refused` is a history
variable: the charts whose latest batch was refused. Request ids are the least number not in use for
the same entry and kind: the code's counter never repeats, and nothing but
equality with an entry's id is ever asked. Left out: a closed channel, the
replay's offset, the price series captured beside candles, and changes of market
capitalisation that `AnalysisInputKey` does not look at.

**WindowsFeed.** `apply` is the thread that holds `profile_apply_gate` and how
far it has come: bump, reset of the mark, clearing, naming, status, spawning.
Each generation has its own `coordinator`, `worker`s, `batch`, `failed`,
`enrolled` and `snapshotter`, which live on when the next is adopted. A check of
the generation and the write it guards are one action only where the code does
both under the lock of what is written; `CheckMark` and `StoreMark`, and the
snapshot's check, rows and insert, are separate. `Instances` says which of these
actors a behaviour has; it is a bound of the model.

**DemandValuation.** `out` holds the analysis, the operating envelope and the
recorded error of each symbol; `detail` is `get_symbol_detail` at one of its
steps, `worker` the demand workers and the thread of the audit, `edgar` the
periodic EDGAR worker. The engine's functions (`ensure_model_routed_valuation`,
`ingest_dcf_analysis`, `ingest_operating_valuation`, `ingest_fundamentals`) are
operators on one symbol's output, since each runs under the lock. `Capture`
takes the inputs and the revision of the outputs that a failure and a
publication compare. What a valuation model answers, and what a provider
answers, is a choice; which model may answer, and of which fundamentals, is not.

**EvidenceLedger.** The variables are the tables. `BeginImport` reads the
authority, `commit_analyst_method_lifecycle` is the whole commit transaction,
with its tests in the code's order (`Verdict`), and `refuse_superseding_revision`
is the transaction that records a refusal. Between them other importers act, the
process may die, and a transaction may fail for reasons of its own. `Shown` is
what `load_analyst_method_publication` would return for a ticker: it looks the
ticker up among the aliases of all securities, without regard to case (`Upper`),
and shows a run only if there is exactly one.

**AppRefresh.** Each async function of `App.tsx` is a record that says at which
await it stands and what it has read before (`select`, `change`, `boot`,
`toggle`, `restore`), and a set of polls; an action is what runs between two
awaits, the issue of the next command included. A command takes effect in the
back end where it is issued: the commands are synchronous and run one after the
other. Small replies arrive in the order of their calls; the replies with the
rows, which are large, arrive in any order. A failed call has no effect, but for
`set_universe_profile`, which may have adopted the profile before it failed.
`savedUniverse` and `savedRegime` are the page's storage. React state and the
ref beside it are one variable, since both are assigned together. Left out: the
counts of symbols, the double effects of development builds, a second regime
toggle before the first has ended, and the alias `test` of a profile's name.

## 3. The runs

| Run | Instance | Shows |
|---|---|---|
| `terminal` | two symbols, three events a session, rings of 2, one symbol's records stored and restored at any time | the journal, tape, alerts, numbering, counts and rows agree, within a session and over restarts; the truncated gap decides each threshold as the exact ratio does |
| `persistence` | two symbols, three events, two sessions, two timeouts, one failure, fair waits | what counts as persisted is stored, late batches do no harm, a clean stop saves all and ends, a watchlist left alone is stored, the database implements `WarmStart` |
| `feed_loop` | up to three symbols, two threads, three failures | the round robin has no gap, no failure is forgotten, recovery is slow, every symbol is fetched |
| `feed_targets` | the program's own constants, ten symbols | *violation:* the last two symbols never get their weighted target |
| `session_universe` | four symbols, three sessions, two failures | plain sessions never lose a symbol and save what they track |
| `detail_caches` | one symbol, two ranges, budget 1, two inputs, one failed fetch, any number of refused batches | no entry waits for ever, screen and summary show one fetch, which the database holds once it has executed what it does not refuse, answers to old requests do no harm, every chart arrives |
| `windows_feed` | two profiles, two adoptions, four sets of actors | nothing of the old universe reaches the new one; status, counts and the completion mark are true |
| `demand_valuation` | one open symbol, two versions of its fundamentals, four sets of actors | what is shown fits the present fundamentals, a late failure takes nothing away, claims have workers, a symbol asked for is answered |
| `demand_networks` | the same | *violation:* a payment network whose texts say financial is valued as one |
| `app_refresh` | two models, three profiles, four starts, two clicks and one failed call or three clicks | late replies bring no old rows back, page and back end agree after every switch, the page comes to show the rows of what it names |
| `evidence_ledger` | two importers, twelve imports of two securities, the second also seeded under the first one's ticker in another spelling, one failed transaction or crash | the current run never changes silently, a run is retired once, the stored lineage is whole, a publication stays until something accounts for its end |
| `ledger_refusal` | one importer, five imports | *violation:* a superseding import whose authority was established fails without invalidating what it meant to replace |

### Bounds, and why they are enough

* *Rings and histories of capacity 2* with three events overflow in
  every way a longer ring can: one entry drops, several drop, the dropped one
  belongs to another symbol.
* *The prices of the terminal's snapshots* lie on both sides of the threshold; for
  all other amounts, clamps and thresholds `ThresholdExact` is proved.
* *Three events, two timeouts, one failure* in `Persistence` give a batch whose
  answer is late while two more batches are sent, a late batch that fails, and
  a crash with both in the queue. Two sessions give numbers used twice.
* *The feed's budgets* are scaled down with their order kept: retries can fill
  the smallest window, the largest window is smaller than the full list, the
  list grows during a cycle, and the cooldown is longer than one cycle. The
  violation run takes the program's own numbers.
* *Three sessions* are a first one, one that finds what it left, and one that
  finds what a one-off session in between left.
* *Two ranges and a background budget of one* make a chart wait behind another;
  two inputs and two queued analyses let an answer to the older input arrive
  after the newer one was asked for; one failure is enough to leave a Failed
  entry while the other kind of request is still under way. The budget of the
  program is six, and a batch usually holds more charts than that.
* *Two generations* are one that is being replaced and its successor; a third
  meets the second as the second meets the first. One retry round separates
  failures that are retried from those that remain. The four `Instances` pair
  the actors that share state: two workers in the initial pass; a worker with a
  load of a symbol outside the profile; with the full refresh; with snapshots.
* *Two versions of the fundamentals*, missing, incomplete and complete, are what
  a worker may find changed under it; the second version may change the class.
  The `Instances` bring in EDGAR, quotes and time; a payment network; the audit;
  another profile. Two demand workers are one of each of two generations.
* *The four starts* of the page are a first one, one with everything saved and
  one failure, the same without a failure and with one click more, and a launch
  that is locked to a profile. Two clicks are a switch and the one that meets it
  at any of its awaits; the third meets both. The boot effect comes on top, and a
  click may come before it. One failure is enough for a rollback or for a refused
  profile; a second one may make the page forget what the back end has, which
  is what `untold` records.
* *Twelve imports* are chosen for the tests of the commit: publication, replay,
  a superseding import and its inadmissible twin under one run id, kept
  evidence, a research replay on a live revision, a revision cycle, an orphan
  revision, and the other security's evidence.
* `MAX_SEQUENCE`, `MAX_EVENTS`, `MAX_STARTS`, `MAX_INPUTS`, `MAX_TIMEOUTS`,
  `MAX_FAILURES`, `MAX_TICKS`, `MAX_QUEUED`, `MAX_VERSION`, `MAX_QUOTES`,
  `MAX_GENERATION`, `Instances`, `Starts` and `StoredSymbols` bound the state space only;
  no bound of them is in the code, and the theorems hold for all their values.
  (`MAX_RETRY_ROUNDS` is the code's; 1 instead of its value is a bound.)
* Deadlock is checked except where a behaviour ends because a bound is spent:
  `Persistence`, `SessionUniverse`, `WindowsFeed` and `DemandValuation`.

### Fairness

`Persistence` assumes that a wait ends (its timeout fires), that the main loop
handles the events in its channel, that the worker opens the database or fails,
and that a transaction commits or fails. Nothing assumes input, provider
events, or that any write succeeds. `FeedLoop` assumes that the scheduler
sleeps and ticks for ever, that the feed thread takes what is in its channel,
and that each fetch returns, because the HTTP client has timeouts; which
outcome it returns is free. Failures are bounded by `MAX_FAILURES`, and that
matters: under endless throttling the retries alone can fill the window, nothing
is selected normally, the cursor goes back to 0 (`startup.rs:939`), and the
symbols behind starve. `EverySymbolIsRefreshed` therefore speaks of runs in
which failures end.

`DetailCaches` assumes a feed batch for each symbol again and again, which is
what `EverySymbolIsRefreshed` says of the feed loop, that a chart fetch returns,
and that the main loop handles the answers. A session that its user leaves
paused is outside this: its batches are held back, and the charts wait. Nothing
is assumed of the database. Here too failures must end: a chart
that failed in the background is asked for again by the next batch, ahead of the
charts behind it, and spends the budget each time.

`DemandValuation` assumes that the adoption of a profile goes on, that a demand
worker goes on (its fetches have timeouts), and that the detail command is
called again while a symbol is open, as the front end does. Nothing assumes that
a valuation succeeds: a recorded failure is an answer.

`AppRefresh` assumes that replies arrive, effects run and the timer ticks.
Nobody has to click, and no call has to succeed; the budget of failures ends.

## 4. What the violation runs found

1. `EveryTargetIsRefreshed`: the cursor moves by the window while only eight
   symbols of it get their weighted target (`startup.rs:715`, `startup.rs:455`).
   With nine symbols or more and a window as long as the list, those from the
   ninth on never do. The test for this property uses 100 symbols and a window
   of 32, where it holds.
2. `TrustedRefusalInvalidates`: some rejections of a superseding import whose
   authority was established are errors and not semantic refusals, and then
   nothing is invalidated: the run that was to be replaced stays current.
3. `NetworksAreOperating`: the computation on demand classifies by the texts
   alone (`classify_business`), while the engine knows the payment networks
   (`classify_business_for`): a network whose industry text says financial is
   routed as a financial by the one and as an operating company by the other.

The exact quotes and lines are under "findings" in `PROJECT.json`.

The models also reach states that no document rules out, and that a maintainer
may want to know of:

* The startup mark is made before any list is saved (`persistence.rs:330`): a
  first session that dies early, or a first session with `--symbols`, makes the
  next plain start restore an empty list and not the built-in one.
* A regime toggle begun during a switch of the model holds the switch's own
  generation, and may publish rows of a model that was then rolled back
  (`App.tsx:272`). They stand until the next poll. `PublishedRowsFit` therefore
  leaves the toggle out; `RowsSettle` includes it.
* A model clicked while a failed switch is rolled back is dropped: the request is
  kept in the ref, and nothing reads it any more (`App.tsx:334`).
* A choice of universe made before the page knows that its launch is locked
  fails, and what the back end runs is then saved in place of the user's own
  preference (`App.tsx:375`), which the boot effect takes care to keep
  (`App.tsx:413`).
* A chart whose batch the database refused is not sent again in the session, and
  the next batch that succeeds resolves the issue (`runtime.rs:1259`): the
  database then holds an older chart than the screen, or none, and no issue says
  so. `ChartsAgree` therefore leaves out the charts in `refused`.
* Seeding another security under a ticker that is in use, in whatever spelling,
  makes the lookup of that ticker ambiguous: the run shown for it disappears,
  and stays current (`db.rs:1607`). `ShownUntilSuperseded` names this case.
* `FailuresAreRetried` and `RecoveryIsSlow` speak of what the feed loop does if
  its client reports failures that may pass, or throttling. The client of today
  reports neither.

## 5. The proofs

The theorems hold for every value of the constants that satisfies the named
assumptions of the module; TLC evaluates these assumptions in every run. Where
type correctness is proved for all constants and tells no more than types, the
runs do not repeat it; `feed_loop` does, for the range of its cursor.

**`TerminalStateProofs`.** `TypeCorrect`: types and the capacities of both
rings; it rests on `PushRing` never exceeding its capacity, zero included.
`JournalContiguous` and `SequenceNewest` are inductive together with the type
invariant, and `NumberingWhole` joins them. `JournalExplains` needs
`JournalContiguous`: an appended entry is the latest of its kind for its symbol
and no other entry's field changes.

`ScreenRight` and `AlertsFollow` treat every step as one of three shapes
(`StepShape`): an event of one symbol is journaled, with its row pushed to the
tape and at most one alert to the ring; a new session starts with empty rings;
or the session stays as it is. The rings lose entries at their old end only, which
takes away no symbol's newest entry. `TapeInv` adds that a symbol on the tape
has a snapshot, which no event takes away. `AlertInv` adds that no alert is
numbered ahead of the session, so that a new one is newer than all of them.
That the running count is a sum (`CountsRight`) needs the sum
over a finite set to grow with one summand: an induction over the set's size,
proved by a least counterexample. `ThresholdExact` is arithmetic: a quotient
truncated towards zero reaches a positive integer exactly when the exact ratio
does, and neither clamp can move it across a threshold between them.
Assumptions: finitely many symbols, a threshold from 1 to the ceiling of the
clamp (the code passes 2000: `runtime.rs:266`, `startup.rs:10`), and an absent
value that is neither a row nor a kind of alert.

**`PersistenceProofs`.** `AckedIsCaptured` is not inductive, for the success of
a wait says nothing unless the answer belongs to the batch sent last. The
inductive invariant `IInv` adds: `Numbered` (journal entries lie up to the
sequence; during a wait for a batch, up to what it covers), `OneWait` (only the
last command of the queue is waited for, and an answer in the channel means the
queue is empty), `AwaitedSaves` (that command contains every unsaved event and
every row with unsaved events; a good answer means that all of it is in the
tables), and `StaleRowsAreUnsaved` (a queued row which is not the one shown
belongs to a symbol with unsaved events). The last one carries
`CaughtUpIsStored` over late batches: whatever old row a late batch may put
back, its symbol is still to be saved. The proof has a step for each action and
under it one for each conjunct the action disturbs.

`CleanStop` follows the queue of a session without failures to its end
(`StopInv`): the farewell is the last command, the worker stays, and every cell
of the database, a row, the watchlist or the mark, *ends* at the shown value
once what is queued for it is executed in order (`Ends`); with nothing queued it
is there already. `VersionsOrdered` says that the versions of a row only grow
from the database through the queue to the screen. From it follows
`WarmStartKept`: a handled event is an `Update` of `WarmStart`, an executed
batch a `Save`, a start a `Restart` or a `Reset`, and every other step leaves the
mapped variables alone.

The tracked symbols over sessions (`SessionUniverse`) have their theorems at the
end of **`TerminalStateProofs`**, which extends both modules; for this the
definitions that both need have names of their own (`SessionSpec`). `Growing`
says that in a plain session the saved list, the queued lists and the tracked one
are a growing chain; `LastIsTracked` that the last queued one is what is tracked.
`SessionSettled` and the action property `SessionKeeps` follow from them.

**`EvidenceLedgerProofs`.** Type correctness carries the uniqueness of run ids
and observation ids. `ProjectionIsAccountedFor` and `RetiredOnce` need that a
projected run is a committed run of its security, that an invalidation names a
committed run which is not current, and that what a superseding importer carries
projects: then a commit or a refusal retires exactly the run that is current at
that moment, whatever was current when the importer read its authority.
`LineageIsWhole` is inductive once every edge is known to be stored with an
observation, whose security no later row can change. `ShownUntilSuperseded` rests
on it: all ancestors of a shown run are stored, each with one predecessor, so a
commit can add neither an ancestor (`AncestorsKept`) nor a cycle, and the edges
among a shown run's revisions stay its own unless the same security adds one.

**`WindowsFeedProofs`.** Type correctness includes what the types leave open:
a worker at work has a symbol, and a round that runs was allowed. `NoStale` is
inductive because every write of a row checks the generation in the step that
writes. `HistoryOfTheProfile` needs that rows read for a snapshot are all of the
generation that read them, which follows from `NoStaleData` at the read and from
the second check at the insert. `StatusOfTheProfile` needs what each step of the
adoption has prepared for the next. `MarkedPassIsComplete` needs that nobody
works for a generation before its coordinator is spawned (`NothingYet`) and
that a round drops no symbol (`CoverInv`): each is complete, or still in the
batch, or failed, or in the hands of a worker, a worker ends only when the batch
is empty, and what is complete stays so until the universe is cleared.
`EnrolledOnce` needs that workers exist only while the coordinator waits for them
(`Quiet`), that a claimed symbol not yet sent is in the hands of one announcing
worker (`ClaimedOnce`), that the counter equals the number of claims (`Counted`),
and that the greatest count is shown or still to be announced (`ShownInv`).

**`DemandValuationProofs`.** `ValuationFits` alone is not inductive: a worker
carries an analysis it found over several steps, and publishes it with an
envelope. The invariant adds that what each job holds fits the fundamentals it
captured, and that cash flows exist only of fundamentals with known shares, so
that a worker which goes on to fetch shares has nothing old to carry over. `InflightHasWorker`
counts; what is carried from step to step is said without counting (`ClaimInv`):
a busy worker holds a claim, no two the same one, a request about to spawn a
worker holds one that no worker has, and every claim is somebody's.

`LateFailuresSpare` is an action property over all jobs (`FailureKeepsValues`).
A failure is written only while the outputs are those the job read, so that a
job which read no value finds none. The rest of the proof is about what routing
an output again may do to it (`EnsureSound`): residual income is only ever of
known shares and drivers, so that it can be computed again, and a selected
envelope is of an operating company, which the routing leaves alone (`SoundInv`).

**`FeedLoopProofs`.** The planner keeps the indexes that are not retried, and a
lemma on the recursive `KeepOnly` says what that gives: exactly the wanted
elements, none twice, each at a place no later than it had. The last part is
what `WindowLeavesNoGap` rests on: of the first *n* indexes of the rotation
each is a retry or among the first *n* kept. `FailuresAreRetried` needs that
failed symbols were in the window and came back, which also makes the retry
queue a set; `RecoveryIsSlow` that the cooldown is what remains of the quiet
cycles asked for. The induction over the sequence is a proof by a least
counterexample from `WFMin`, since an induction theorem cannot be instantiated.

**`DetailCachesProofs`.** The queue of requests is read as one sequence, those
answered and waiting for the main loop before those still to be fetched: a fetch
leaves it as it is, an answer takes its head. The invariant `Placed` says of it
that a background request is the one noted for its chart (`Awaited`), that a
detail request comes after the background request of the same chart (`InOrder`),
and that no background request is noted for a chart that is fresh
(`NotForFresh`). The last two carry each other: a background answer that found a
detail chart fresh would replace it, and the order excludes that. On the way of
a chart to the database, `StoredInv` is the database half of `ChartsAgree`: a
batch that is handed over becomes the last of its chart and holds what the
summary was just computed from, and executing or refusing the oldest one
concerns only the chart it holds. The loops over symbols and ranges keep the
invariant by a least counterexample, and the numbers of requests are fresh by
counting (`FreeNumber`). For the analyses it is enough that whatever is under
way with the number of a Loading entry carries its input.

**`AppRefreshProofs`.** None of the three properties is inductive, for each is
about what calls under way will have done. Small answers come in the order of
their calls, and the proof reads the queue of answers through three questions:
whether a task has a call under way, whether it succeeded, and which of two was
issued first. Lemmas say how each way of changing the queue answers them
(`Appended`, `TailLeft`, `Replaced`), and no step of the proof looks at the
sequence again. The invariant is then: each task has the call under way that its
place in its function expects, and no second one (`QueueInv`); a good call of a
switch or a rollback that is under way has told the back end the model the page is
about to show, and the restoration's comes before any switch's (`ModelInv`); of the toggle's
and the restoration's calls the one issued last decides (`RegimeInv`); while the boot
effect runs, its generation is the current one and the page is switching
(`GenerationInv`). For rows, a poll of the present generation holds rows of the
present model and universe (`PollInv`), and a switch or a toggle that was begun
while the boot effect was about to adopt a profile hears from the back end after
the adoption, and so asks for its rows after it (`RowsInv`). The last one rests
on the order of the answers.

### Only model-checked

* Liveness: `ShutdownCompletes`, `WatchlistSettles`, `EverySymbolIsRefreshed`,
  `AskedIsAnswered`, `EveryChartArrives`, `RowsSettle`; fairness and ENABLED are
  beyond TLAPS.

## 6. Not modelled

* Rendering and layout, the parsing and HTTP of the providers' clients, static
  profiles and the command line: no protocol between actors. `FeedLoop` and
  `WindowsFeed` model what they rely on, that a fetch answers or fails.
* The keys of the terminal but those that track, watch or open a symbol; the
  pause buffer (its release is a batch, its loss at quit a listed hazard).
* The valuation models, score series and charts' indicators: floating point,
  out of TLC's reach. `DemandValuation` keeps which model may answer, of what.
* The database's migrations and its quarantine of legacy rows, which run before
  anything else does; the tables of price history.
* In the Windows back end, the charts of the enrichment workers, the resolution
  of a profile's members, `last_error`, and the bulk warm-up of valuations.
* The issue center beyond the persistence issue: it is raised and resolved by
  one thread, and only shown.
* In `WindowsFeed`, a refresh worker whose thread cannot be made
  (`commands.rs:4485`, `4576`): a release build ends the process there
  (`panic = "abort"`); a development build would lose the coordinator and go on
  reporting a feed that runs.
* In `AppRefresh`, the second `startFeed` of a locked launch whose first one
  failed (`App.tsx:415`, then `428`); no property depends on it.
* In the front end, `CandleRequestCache`, the views and their effects on
  nothing but the screen, and the market-context warm-up.
* Android, Flutter, contracts, the lab and the scripts: see
  the notes of the components in `PROJECT.json`.

## 7. Plan

1. `CandleRequestCache` of the Windows front end, with answers that settle after
   their entry was evicted.
2. The charts of the enrichment workers, beside `WindowsFeed`.
3. The pause buffer and the feed's issues in `Persistence`.
4. `SessionUniverse` composed with the stored rows: a symbol that is tracked
   again.
