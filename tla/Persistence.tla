----------------------------- MODULE Persistence -----------------------------
(***************************************************************************)
(* The write path of the workstation: the main loop (workstation/          *)
(* runtime.rs) applies feed batches, sends the unsaved part of the journal *)
(* to the SQLite worker thread (persistence.rs) and waits for its answer,  *)
(* at most ten seconds; the worker executes a FIFO of commands, one        *)
(* transaction each, and reports the ones nobody waits for as events.      *)
(* Writes fail, answers come late, the process dies between any two steps. *)
(*                                                                         *)
(* An accepted event is identified by its number in `clock`, over all      *)
(* sessions; the row of a symbol is known by the newest events in it.      *)
(* External signals and fundamentals are both the `other` part of a row.   *)
(* The ordered journal, its numbering and the row's contents are           *)
(* TerminalState's subject: here the journal is the set of its entries.    *)
(***************************************************************************)
EXTENDS Integers, Sequences, FiniteSets

CONSTANTS
  Symbols,        \* ticker symbols
  Batches,        \* feed batches: sequences of [symbol, kind]
  MAX_EVENTS,     \* model bound: accepted events, over all sessions
  MAX_STARTS,     \* model bound: sessions
  MAX_INPUTS,     \* model bound: feed batches, chart results and watchlist keys
  MAX_TIMEOUTS,   \* model bound: waits that time out
  MAX_FAILURES    \* model bound: failed writes, loads and workers

FeedEvent == [symbol : Symbols, kind : {"Snapshot", "Other"}]

ASSUME BatchAssumption == Batches \subseteq Seq(FeedEvent)

ASSUME BoundAssumption ==
  MAX_EVENTS \in Nat /\ MAX_STARTS \in Nat /\ MAX_INPUTS \in Nat
    /\ MAX_TIMEOUTS \in Nat /\ MAX_FAILURES \in Nat

VARIABLES
  \* the main thread
  phase,          \* what run_terminal is doing
  live,           \* symbol -> its row in TerminalState
  sequence,       \* latest_sequence of TerminalState
  journal,        \* entries of TerminalState's journal
  last_persisted, \* last_persisted_sequence
  awaited,        \* the batch being waited for: the number it covers up to
  watchlist,      \* the watched symbols
  issue,          \* the SQLITE_PERSISTENCE entry of the issue center
  \* between the threads
  commands,       \* queue of PersistenceCommands
  ack,            \* the answer in the channel the main thread waits on
  events,         \* the worker's AppEvents not yet handled
  worker,         \* the persistence thread
  \* the database
  raw_capture,    \* event number -> rows holding it
  symbol_latest,  \* symbol -> its latest revision
  watchlist_table,
  issue_state,
  clean_shutdown, \* last_clean_shutdown_at: clock when the mark was made
  \* numbering of events, and what has been spent of the bounds
  clock, starts, inputs, timeouts, failures

mainVars  == <<phase, live, sequence, journal, last_persisted, awaited, watchlist, issue>>
linkVars  == <<commands, ack, events, worker>>
diskVars  == <<raw_capture, symbol_latest, watchlist_table, issue_state, clean_shutdown>>
countVars == <<clock, starts, inputs, timeouts, failures>>
vars      == <<mainVars, linkVars, diskVars, countVars>>

Ids      == 1 .. MAX_EVENTS
NoRow    == [snapshot |-> 0, other |-> 0, last_sequence |-> 0]
NoBatch  == 0       \* `awaited` of a chart capture, which covers no event
EmptyRaw == [i \in Ids |-> 0]
NoRows   == [s \in Symbols |-> NoRow]

\* The newest event a row contains.
Version(row) == IF row.snapshot > row.other THEN row.snapshot ELSE row.other

-----------------------------------------------------------------------------
(* Pieces of the main thread.                                              *)

raise == "Active"
resolve == IF issue = "Active" THEN "Resolved" ELSE issue

\* mpsc::Sender::send: what is sent to a thread that is gone is lost.
Queue(cmds) == IF worker = "gone" THEN commands ELSE commands \o cmds

\* Mutant: sends the watchlist as it was before the key.
StaleWatchlist(symbols) == [op |-> "ReplaceWatchlist", symbols |-> watchlist]

ReplaceWatchlist(symbols) == [op |-> "ReplaceWatchlist", symbols |-> symbols]
ReplaceIssues(state) == [op |-> "ReplaceIssues", issue |-> state]

\* A revision for each of the symbols that has a snapshot; NoRow is none.
build_symbol_revisions(rows, symbols) ==
  [s \in Symbols |-> IF s \in symbols /\ rows[s].snapshot # 0 THEN rows[s] ELSE NoRow]

PersistBatch(captures, revisions) ==
  [op |-> "PersistBatch", captures |-> captures, revisions |-> revisions,
   waiting |-> TRUE]

\* Mutant: a batch goes ahead of the commands already queued.
SendBatchFirst(batch, upto) ==
  /\ commands' = <<batch>> \o commands
  /\ phase' = "awaiting_batch"
  /\ awaited' = upto
  /\ UNCHANGED issue

\* persist_batch up to the wait, or its failure to reach the worker.
SendBatch(batch, upto) ==
  IF worker = "gone"
  THEN /\ issue' = raise
       /\ UNCHANGED <<phase, commands, awaited>>
  ELSE /\ commands' = Append(commands, batch)
       /\ phase' = "awaiting_batch"
       /\ awaited' = upto
       /\ UNCHANGED issue

\* The newest event of a kind that a batch holds for a symbol, as its number.
Newest(batch, s, kinds, base, old) ==
  LET mine == {i \in DOMAIN batch : batch[i].symbol = s /\ batch[i].kind \in kinds}
  IN  IF mine = {} THEN old
      ELSE base + (CHOOSE i \in mine : \A j \in mine : j <= i)

apply_feed_events(batch) ==
  /\ clock' = clock + Len(batch)
  /\ sequence' = sequence + Len(batch)
  /\ live' = [s \in Symbols |->
       [snapshot |-> Newest(batch, s, {"Snapshot"}, clock, live[s].snapshot),
        other    |-> Newest(batch, s, {"Other"}, clock, live[s].other),
        last_sequence |-> Newest(batch, s, {"Snapshot", "Other"}, sequence,
                                 live[s].last_sequence)]]
  /\ journal' = journal \cup
       {[sequence |-> sequence + i, symbol |-> batch[i].symbol, id |-> clock + i] :
          i \in DOMAIN batch}

\* Mutant: sends the rows as they were before the batch.
ReconcileBefore ==
  LET delta == {e \in journal' : e.sequence > last_persisted}
  IN  \E upto \in {e.sequence : e \in delta} :
        /\ \A e \in delta : e.sequence <= upto
        /\ SendBatch(PersistBatch({e.id : e \in delta},
                       build_symbol_revisions(live, {e.symbol : e \in delta})), upto)

\* Everything journaled since the last batch the worker confirmed, with the
\* rows of its symbols as they are now.
reconcile_sqlite_persistence ==
  LET delta    == {e \in journal' : e.sequence > last_persisted}
      captures == {e.id : e \in delta}
      touched  == {e.symbol : e \in delta}
  IN  IF delta = {}
      THEN /\ issue' = resolve
           /\ commands' = Queue(<<ReplaceIssues(issue')>>)
           /\ UNCHANGED <<phase, awaited>>
      ELSE \E upto \in {e.sequence : e \in delta} :
             /\ \A e \in delta : e.sequence <= upto
             /\ SendBatch(PersistBatch(captures, build_symbol_revisions(live', touched)),
                          upto)

-----------------------------------------------------------------------------
(* The main thread: one action per application event it handles, and the   *)
(* steps of a wait.  A paused screen only makes batches larger: the events *)
(* queued meanwhile are applied as one batch.                              *)

FeedBatch(batch) ==
  /\ phase = "running"
  /\ inputs < MAX_INPUTS /\ clock + Len(batch) <= MAX_EVENTS
  /\ inputs' = inputs + 1
  /\ apply_feed_events(batch)
  /\ reconcile_sqlite_persistence
  /\ UNCHANGED <<last_persisted, watchlist, ack, events, worker,
                 starts, timeouts, failures>> /\ UNCHANGED diskVars

\* A chart result is saved with the row of its symbol as it is now, which may
\* be ahead of what the feed batches have saved.
ChartData(s) ==
  /\ phase = "running"
  /\ inputs < MAX_INPUTS
  /\ inputs' = inputs + 1
  /\ SendBatch(PersistBatch({}, build_symbol_revisions(live, {s})), NoBatch)
  /\ UNCHANGED <<live, sequence, journal, last_persisted, watchlist, ack, events, worker,
                 clock, starts, timeouts, failures>> /\ UNCHANGED diskVars

\* Key 'w'.
toggle_watchlist(s) ==
  /\ phase = "running"
  /\ inputs < MAX_INPUTS
  /\ inputs' = inputs + 1
  /\ watchlist' = IF s \in watchlist THEN watchlist \ {s} ELSE watchlist \cup {s}
  /\ commands' = Queue(<<ReplaceWatchlist(watchlist')>>)
  /\ UNCHANGED <<phase, live, sequence, journal, last_persisted, awaited, issue,
                 ack, events, worker, clock, starts, timeouts, failures>> /\ UNCHANGED diskVars

\* The worker's answer arrived in time.
BatchAcked ==
  /\ phase = "awaiting_batch"
  /\ ack # "None"
  /\ last_persisted' = IF ack = "Ok" /\ awaited # NoBatch THEN awaited ELSE last_persisted
  /\ issue' = IF ack = "Ok" THEN resolve ELSE raise
  /\ commands' = Queue(<<ReplaceIssues(issue')>>)
  /\ ack' = "None"
  /\ awaited' = NoBatch
  /\ phase' = "running"
  /\ UNCHANGED <<live, sequence, journal, watchlist, events, worker>>
  /\ UNCHANGED diskVars /\ UNCHANGED countVars

\* Mutant: one answer channel for all batches.
SharedChannel(cmds) == cmds

\* Nobody waits for the command any more: its answer will be dropped.
Abandoned(cmds) ==
  [i \in DOMAIN cmds |->
     IF cmds[i].op \in {"PersistBatch", "Flush"} THEN [cmds[i] EXCEPT !.waiting = FALSE]
     ELSE cmds[i]]

\* Ten seconds passed, or the worker went away without answering.
BatchTimedOut ==
  /\ phase = "awaiting_batch"
  /\ ack = "None"
  /\ IF worker = "gone" THEN UNCHANGED timeouts
     ELSE timeouts < MAX_TIMEOUTS /\ timeouts' = timeouts + 1
  /\ issue' = raise
  /\ commands' = IF worker = "gone" THEN commands
                 ELSE Abandoned(commands) \o <<ReplaceIssues(issue')>>
  /\ awaited' = NoBatch
  /\ phase' = "running"
  /\ UNCHANGED <<live, sequence, journal, last_persisted, watchlist, ack, events, worker,
                 clock, starts, inputs, failures>> /\ UNCHANGED diskVars

\* PersistenceHandle::shutdown up to its wait.
BeginShutdown ==
  /\ commands' = Queue(<<[op |-> "MarkCleanShutdown", timestamp |-> clock],
                         [op |-> "Flush", waiting |-> TRUE]>>)
  /\ phase' = "awaiting_flush"

\* Keys q and Ctrl-C, a termination signal, another thread's fatal error.
Quit ==
  /\ phase = "running"
  /\ BeginShutdown
  /\ UNCHANGED <<live, sequence, journal, last_persisted, awaited, watchlist, issue,
                 ack, events, worker>> /\ UNCHANGED diskVars /\ UNCHANGED countVars

apply_persistence_status ==
  /\ phase = "running"
  /\ events # <<>>
  /\ events' = Tail(events)
  /\ \/ /\ Head(events) \in {"Ok", "Err"}
        /\ issue' = IF Head(events) = "Ok" THEN resolve ELSE raise
        /\ UNCHANGED <<phase, commands>>
     \/ /\ Head(events) = "Fatal"
        /\ BeginShutdown
        /\ UNCHANGED issue
  /\ UNCHANGED <<live, sequence, journal, last_persisted, awaited, watchlist, ack, worker>>
  /\ UNCHANGED diskVars /\ UNCHANGED countVars

\* Mutant: shutdown() joins without telling the worker to stop.
NoFarewell == <<>>

Farewell == <<[op |-> "Shutdown"]>>

\* Flush answered, or two seconds passed, or the worker is gone: the worker
\* is told to stop and joined, however long that takes.
FlushDone ==
  /\ phase = "awaiting_flush"
  /\ \/ ack # "None" /\ UNCHANGED timeouts
     \/ ack = "None" /\ worker = "gone" /\ UNCHANGED timeouts
     \/ /\ ack = "None" /\ worker # "gone"
        /\ timeouts < MAX_TIMEOUTS
        /\ timeouts' = timeouts + 1
  /\ commands' = IF worker = "gone" THEN commands
                 ELSE Abandoned(commands) \o Farewell
  /\ ack' = "None"
  /\ phase' = "joining"
  /\ UNCHANGED <<live, sequence, journal, last_persisted, awaited, watchlist, issue,
                 events, worker, clock, starts, inputs, failures>> /\ UNCHANGED diskVars

\* Mutant: the process ends without joining the worker.
NotJoined ==
  /\ phase = "joining"
  /\ phase' = "stopped"
  /\ UNCHANGED <<live, sequence, journal, last_persisted, awaited, watchlist, issue>>
  /\ UNCHANGED linkVars /\ UNCHANGED diskVars /\ UNCHANGED countVars

Joined ==
  /\ phase = "joining"
  /\ worker = "gone"
  /\ phase' = "stopped"
  /\ UNCHANGED <<live, sequence, journal, last_persisted, awaited, watchlist, issue>>
  /\ UNCHANGED linkVars /\ UNCHANGED diskVars /\ UNCHANGED countVars

\* The process dies: killed, or by an error of the terminal, which leaves
\* run_terminal without shutdown().  What was not committed is lost.
Crash ==
  /\ phase \notin {"stopped", "down"}
  /\ phase' = "down"
  /\ commands' = <<>> /\ ack' = "None" /\ events' = <<>> /\ worker' = "gone"
  /\ awaited' = NoBatch
  /\ UNCHANGED <<live, sequence, journal, last_persisted, watchlist, issue>>
  /\ UNCHANGED diskVars /\ UNCHANGED countVars

-----------------------------------------------------------------------------
(* The worker thread.                                                      *)

\* open_connection and run_migrations succeeded.
worker_opens ==
  /\ worker = "opening"
  /\ worker' = "running"
  /\ UNCHANGED <<commands, ack, events>>
  /\ UNCHANGED mainVars /\ UNCHANGED diskVars /\ UNCHANGED countVars

\* It could not open the database, or panicked: the queue goes with it.
worker_fails ==
  /\ worker \in {"opening", "running"}
  /\ failures < MAX_FAILURES
  /\ failures' = failures + 1
  /\ worker' = "gone"
  /\ commands' = <<>>
  /\ events' = Append(events, "Fatal")
  /\ UNCHANGED ack
  /\ UNCHANGED mainVars /\ UNCHANGED diskVars /\ UNCHANGED <<clock, starts, inputs, timeouts>>

Answer(cmd, result) == ack' = IF cmd.waiting THEN result ELSE ack

\* One transaction: every row of the batch.
persist_batch(cmd) ==
  /\ raw_capture' = [i \in Ids |-> raw_capture[i] + (IF i \in cmd.captures THEN 1 ELSE 0)]
  /\ symbol_latest' = [s \in Symbols |-> IF cmd.revisions[s] # NoRow THEN cmd.revisions[s]
                                         ELSE symbol_latest[s]]

\* The next command, executed.
worker_loop ==
  /\ worker = "running"
  /\ commands # <<>>
  /\ LET cmd == Head(commands)
     IN  \/ /\ cmd.op = "PersistBatch"
            /\ persist_batch(cmd)
            /\ Answer(cmd, "Ok")
            /\ commands' = Tail(commands)
            /\ UNCHANGED <<events, worker, watchlist_table, issue_state, clean_shutdown>>
         \/ /\ cmd.op = "ReplaceWatchlist"
            /\ watchlist_table' = cmd.symbols
            /\ events' = Append(events, "Ok")
            /\ commands' = Tail(commands)
            /\ UNCHANGED <<ack, worker, raw_capture, symbol_latest, issue_state, clean_shutdown>>
         \/ /\ cmd.op = "ReplaceIssues"
            /\ issue_state' = cmd.issue
            /\ events' = Append(events, "Ok")
            /\ commands' = Tail(commands)
            /\ UNCHANGED <<ack, worker, raw_capture, symbol_latest, watchlist_table,
                           clean_shutdown>>
         \/ /\ cmd.op = "MarkCleanShutdown"
            /\ clean_shutdown' = cmd.timestamp
            /\ events' = Append(events, "Ok")
            /\ commands' = Tail(commands)
            /\ UNCHANGED <<ack, worker, raw_capture, symbol_latest, watchlist_table, issue_state>>
         \/ /\ cmd.op = "Flush"
            /\ Answer(cmd, "Ok")
            /\ commands' = Tail(commands)
            /\ UNCHANGED <<events, worker>> /\ UNCHANGED diskVars
         \/ /\ cmd.op = "Shutdown"
            /\ worker' = "gone"
            /\ commands' = <<>>
            /\ UNCHANGED <<ack, events>> /\ UNCHANGED diskVars
  /\ UNCHANGED mainVars /\ UNCHANGED countVars

\* The next command's transaction is rolled back.
write_fails ==
  /\ worker = "running"
  /\ commands # <<>>
  /\ failures < MAX_FAILURES
  /\ failures' = failures + 1
  /\ commands' = Tail(commands)
  /\ LET cmd == Head(commands)
     IN  \/ /\ cmd.op = "PersistBatch"
            /\ Answer(cmd, "Err")
            /\ UNCHANGED events
         \/ /\ cmd.op \in {"ReplaceWatchlist", "ReplaceIssues", "MarkCleanShutdown"}
            /\ events' = Append(events, "Err")
            /\ UNCHANGED ack
  /\ UNCHANGED worker
  /\ UNCHANGED mainVars /\ UNCHANGED diskVars /\ UNCHANGED <<clock, starts, inputs, timeouts>>

-----------------------------------------------------------------------------
(* A new process: load_initial_state, then run_terminal up to its loop.    *)

\* run_terminal's first commands rewrite what it just read.
SpawnWorker(watched, state) ==
  /\ phase' = "running"
  /\ worker' = "opening"
  /\ commands' = <<ReplaceWatchlist(watched), ReplaceIssues(state)>>
  /\ ack' = "None" /\ events' = <<>> /\ awaited' = NoBatch
  /\ watchlist' = watched
  /\ issue' = state
  /\ last_persisted' = sequence'
  /\ journal' = {}

\* The stored rows of the tracked symbols come back, whatever was tracked
\* when they were stored.  Symbols may also be tracked later, without theirs.
load_warm_start(tracked) ==
  LET loaded == {s \in tracked : symbol_latest[s] # NoRow}
  IN  /\ phase \in {"stopped", "down"}
      /\ starts < MAX_STARTS
      /\ starts' = starts + 1
      /\ live' = [s \in Symbols |-> IF s \in loaded THEN symbol_latest[s] ELSE NoRow]
      /\ sequence' \in {0} \cup {symbol_latest[s].last_sequence : s \in loaded}
      /\ \A s \in loaded : symbol_latest[s].last_sequence <= sequence'
      /\ SpawnWorker(watchlist_table, issue_state)
      /\ UNCHANGED <<clock, inputs, timeouts, failures>> /\ UNCHANGED diskVars

\* The database cannot be read: it is emptied, the clean-shutdown mark aside.
reset_warm_start_state ==
  /\ phase \in {"stopped", "down"}
  /\ starts < MAX_STARTS /\ failures < MAX_FAILURES
  /\ starts' = starts + 1 /\ failures' = failures + 1
  /\ raw_capture' = EmptyRaw /\ symbol_latest' = NoRows
  /\ watchlist_table' = {} /\ issue_state' = "None"
  /\ live' = NoRows
  /\ sequence' = 0
  /\ SpawnWorker({}, "None")
  /\ UNCHANGED <<clean_shutdown, clock, inputs, timeouts>>

-----------------------------------------------------------------------------

Init ==
  /\ phase = "down" /\ live = NoRows /\ sequence = 0 /\ journal = {}
  /\ last_persisted = 0 /\ awaited = NoBatch /\ watchlist = {} /\ issue = "None"
  /\ commands = <<>> /\ ack = "None" /\ events = <<>> /\ worker = "gone"
  /\ raw_capture = EmptyRaw /\ symbol_latest = NoRows
  /\ watchlist_table = {} /\ issue_state = "None" /\ clean_shutdown = 0
  /\ clock = 0 /\ starts = 0 /\ inputs = 0 /\ timeouts = 0 /\ failures = 0

Next ==
  \/ \E batch \in Batches : FeedBatch(batch)
  \/ \E s \in Symbols : ChartData(s)
  \/ \E s \in Symbols : toggle_watchlist(s)
  \/ BatchAcked \/ BatchTimedOut \/ apply_persistence_status
  \/ Quit \/ FlushDone \/ Joined \/ Crash
  \/ worker_opens \/ worker_fails \/ worker_loop \/ write_fails
  \/ \E tracked \in SUBSET Symbols : load_warm_start(tracked)
  \/ reset_warm_start_state

Spec == Init /\ [][Next]_vars

\* Waits end (recv_timeout, join of a thread that ends), the loop takes the
\* worker's events, and SQLite calls return, well or badly: no user input,
\* provider event or failure is ever promised.
Fairness ==
  /\ WF_vars(BatchAcked \/ BatchTimedOut)
  /\ WF_vars(apply_persistence_status)
  /\ WF_vars(FlushDone \/ Joined)
  /\ WF_vars(worker_opens)
  /\ WF_vars(worker_loop)

FairSpec == Spec /\ Fairness
-----------------------------------------------------------------------------

Row == [snapshot : 0 .. MAX_EVENTS, other : 0 .. MAX_EVENTS, last_sequence : Nat]

Command ==
  [op : {"PersistBatch"}, captures : SUBSET Ids,
   revisions : [Symbols -> Row], waiting : BOOLEAN]
  \cup [op : {"ReplaceWatchlist"}, symbols : SUBSET Symbols]
  \cup [op : {"ReplaceIssues"}, issue : {"None", "Active", "Resolved"}]
  \cup [op : {"MarkCleanShutdown"}, timestamp : 0 .. MAX_EVENTS]
  \cup [op : {"Flush"}, waiting : BOOLEAN]
  \cup [op : {"Shutdown"}]

\* Every variable has its type.
TypeOK ==
  /\ phase \in {"running", "awaiting_batch", "awaiting_flush", "joining", "stopped", "down"}
  /\ live \in [Symbols -> Row]
  /\ sequence \in Nat
  /\ journal \in SUBSET [sequence : Nat, symbol : Symbols, id : Ids]
  /\ last_persisted \in Nat
  /\ awaited \in Nat
  /\ watchlist \in SUBSET Symbols
  /\ issue \in {"None", "Active", "Resolved"}
  /\ commands \in Seq(Command)
  /\ ack \in {"None", "Ok", "Err"}
  /\ events \in Seq({"Ok", "Err", "Fatal"})
  /\ worker \in {"opening", "running", "gone"}
  /\ raw_capture \in [Ids -> Nat]
  /\ symbol_latest \in [Symbols -> Row]
  /\ watchlist_table \in SUBSET Symbols
  /\ issue_state \in {"None", "Active", "Resolved"}
  /\ clean_shutdown \in 0 .. MAX_EVENTS
  /\ clock \in 0 .. MAX_EVENTS
  /\ starts \in Nat /\ inputs \in Nat /\ timeouts \in Nat /\ failures \in Nat

\* What the main loop counts as persisted is in the database, whatever was
\* lost, late or refused in between, and also after the process died.
AckedIsCaptured ==
  \A e \in journal : e.sequence <= last_persisted => raw_capture[e.id] > 0

\* A symbol none of whose events is waiting to be persisted is stored exactly
\* as the screen shows it: no late batch ever puts an older row back.
CaughtUpIsStored ==
  \A s \in Symbols :
    (/\ live[s].snapshot # 0
     /\ \A e \in journal : e.symbol = s => e.sequence <= last_persisted)
      => symbol_latest[s] = live[s]

\* With no failed write, a session that ends by shutdown() has saved all its
\* events, rows and watchlist, however many waits it gave up: the last
\* commands are behind every other in the queue, and the worker is joined.
CleanStopLosesNothing ==
  (phase = "stopped" /\ failures = 0) =>
    /\ \A e \in journal : raw_capture[e.id] > 0
    /\ \A s \in Symbols : live[s].snapshot # 0 => symbol_latest[s] = live[s]
    /\ watchlist_table = watchlist
    /\ clean_shutdown = clock

\* The database keeps WarmStart's promise.
RowVersion(row) == IF row.snapshot = 0 THEN 0 ELSE Version(row)

WS == INSTANCE WarmStart WITH shown <- [s \in Symbols |-> RowVersion(live[s])],
                              saved <- [s \in Symbols |-> RowVersion(symbol_latest[s])]

WarmStartSpec == WS!wsSpec

\* Quitting ends the process: no wait of shutdown() is for ever, whatever the
\* worker was doing or however it ended.
ShutdownCompletes ==
  phase \in {"awaiting_flush", "joining"} ~> phase \in {"stopped", "down"}

\* A watchlist the user leaves alone reaches the database, unless a write
\* fails or the process dies.
WatchlistSettles ==
  \A w \in SUBSET Symbols :
    watchlist = w ~> \/ watchlist_table = w \/ watchlist # w
                     \/ failures > 0 \/ phase = "down"
=============================================================================
