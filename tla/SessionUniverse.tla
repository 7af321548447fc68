-------------------------- MODULE SessionUniverse --------------------------
(***************************************************************************)
(* The life of the tracked universe over sessions: which symbols a session *)
(* starts with (load_initial_state), what the user adds, and what the      *)
(* worker saves for the next one.  A session is plain (`cargo run`) or     *)
(* one-off (`--symbols`, `--profile`); either may run without a database   *)
(* (`--no-persist`, or one that neither loads nor resets).  Processes die  *)
(* with commands still queued.  The order of the list, which is saved with *)
(* it, is left out.                                                        *)
(***************************************************************************)
EXTENDS Integers, Sequences

CONSTANTS
  Tickers,       \* ticker symbols a list may name
  Default,       \* default_live_symbols, the built-in universe
  OneOffs,       \* symbol lists given on the command line
  MAX_STARTS,    \* model bound: sessions
  MAX_FAILURES   \* model bound: failed writes and loads

ASSUME UniverseAssumption ==
  /\ Default \in (SUBSET Tickers) \ {{}}
  /\ OneOffs \subseteq (SUBSET Tickers) \ {{}}
  /\ MAX_STARTS \in Nat /\ MAX_FAILURES \in Nat

VARIABLES
  phase,            \* "down" or "running"
  symbols_explicit, \* the session is one-off
  persisting,       \* the session has a persistence handle
  tracked,          \* LiveSymbolState
  commands,         \* ReplaceTrackedSymbols commands the worker has not executed
  tracked_table,    \* the table tracked_symbol
  marked,           \* the table meta has a mark of a session: its startup, its
                    \* clean shutdown or its last write
  starts, failures

sessionVars == <<phase, symbols_explicit, persisting, tracked, commands, tracked_table,
                 marked, starts, failures>>

-----------------------------------------------------------------------------

had_previous_session == marked \/ tracked_table # {}

\* Mutant: what was saved is not restored.
BuiltInUniverse(explicit, list) == IF explicit THEN list ELSE Default

\* A one-off session tracks its own list.  A plain one restores the saved list,
\* empty or not, as soon as any session has started on this database, and
\* takes the built-in list only on a database no session has seen.
RestoredUniverse(explicit, list) ==
  CASE explicit                          -> list
    [] ~explicit /\ had_previous_session -> tracked_table
    [] OTHER                             -> Default

\* load_warm_start marks the startup before it reads the tables.
load_warm_start(explicit, list) ==
  /\ persisting' = TRUE
  /\ tracked' = RestoredUniverse(explicit, list)
  /\ marked' = TRUE
  /\ UNCHANGED <<tracked_table, failures>>

\* The database does not load, and is emptied but for the marks of startups and
\* clean shutdowns; this startup's was made unless that is what failed.  (A
\* database marked by its last write only, which loses that mark here, is left out.)
reset_warm_start_state(explicit, list) ==
  /\ failures < MAX_FAILURES /\ failures' = failures + 1
  /\ persisting' = TRUE
  /\ tracked' = IF explicit THEN list ELSE Default
  /\ tracked_table' = {}
  /\ marked' \in {marked, TRUE}

\* No database is wanted, or it neither loads nor resets.
WithoutDatabase(explicit, list) ==
  /\ persisting' = FALSE
  /\ tracked' = IF explicit THEN list ELSE Default
  /\ marked' \in {marked, TRUE}
  /\ UNCHANGED <<tracked_table, failures>>

\* run_terminal: only a plain session saves the list it starts with.
SaveAtStart ==
  commands' = IF persisting' /\ ~symbols_explicit' THEN <<tracked'>> ELSE <<>>

load_initial_state(explicit, list) ==
  /\ phase = "down"
  /\ starts < MAX_STARTS /\ starts' = starts + 1
  /\ phase' = "running"
  /\ symbols_explicit' = explicit
  /\ \/ load_warm_start(explicit, list)
     \/ reset_warm_start_state(explicit, list)
     \/ WithoutDatabase(explicit, list)
  /\ SaveAtStart

\* Mutant: sends the list as it was before.
SendOldList(added) == Append(commands, tracked)

SendList(added) == Append(commands, tracked \cup added)

\* The user adds symbols; any session saves the whole list then.
track_symbols_from_query(added) ==
  /\ phase = "running"
  /\ added \cap tracked = {}
  /\ tracked' = tracked \cup added
  /\ commands' = IF persisting THEN SendList(added) ELSE commands
  /\ UNCHANGED <<phase, symbols_explicit, persisting, tracked_table, marked,
                 starts, failures>>

\* The worker replaces the table in one transaction, or the transaction fails.
replace_tracked_symbols ==
  /\ commands # <<>>
  /\ commands' = Tail(commands)
  /\ \/ tracked_table' = Head(commands) /\ UNCHANGED failures
     \/ /\ failures < MAX_FAILURES /\ failures' = failures + 1
        /\ UNCHANGED tracked_table
  /\ UNCHANGED <<phase, symbols_explicit, persisting, tracked, marked, starts>>

\* shutdown(): the worker has executed everything before it is joined.
shutdown ==
  /\ phase = "running" /\ commands = <<>>
  /\ phase' = "down"
  /\ marked' \in {marked, marked \/ persisting}
  /\ UNCHANGED <<symbols_explicit, persisting, tracked, commands, tracked_table,
                 starts, failures>>

\* The process dies, or its worker did: what is queued is lost.
Crash ==
  /\ phase = "running"
  /\ phase' = "down"
  /\ commands' = <<>>
  /\ marked' \in {marked, marked \/ persisting}
  /\ UNCHANGED <<symbols_explicit, persisting, tracked, tracked_table, starts, failures>>

-----------------------------------------------------------------------------

SessionInit ==
  /\ phase = "down" /\ symbols_explicit = FALSE /\ persisting = FALSE
  /\ tracked = {} /\ commands = <<>>
  /\ tracked_table = {} /\ marked = FALSE
  /\ starts = 0 /\ failures = 0

SessionNext ==
  \/ load_initial_state(FALSE, {})
  \/ \E list \in OneOffs : load_initial_state(TRUE, list)
  \/ \E s \in Tickers : track_symbols_from_query({s})
  \/ replace_tracked_symbols
  \/ shutdown
  \/ Crash

SessionSpec == SessionInit /\ [][SessionNext]_sessionVars

-----------------------------------------------------------------------------

\* Every variable has its type, and a queue belongs to a running session.
SessionTypeOK ==
  /\ phase \in {"down", "running"}
  /\ symbols_explicit \in BOOLEAN /\ persisting \in BOOLEAN
  /\ marked \in BOOLEAN
  /\ tracked \in SUBSET Tickers /\ tracked_table \in SUBSET Tickers
  /\ commands \in Seq(SUBSET Tickers)
  /\ (phase = "down" \/ ~persisting) => commands = <<>>
  /\ starts \in Nat /\ failures \in Nat

\* Once a plain session's commands are executed, and none has failed, the next
\* plain session would start with exactly the symbols now tracked.
SettledUniverseIsSaved ==
  (/\ phase = "running" /\ persisting /\ ~symbols_explicit
   /\ commands = <<>> /\ failures = 0)
    => tracked_table = tracked /\ had_previous_session

\* A plain session never takes a symbol out of the saved universe, whichever of
\* its writes fail and whatever the sessions before it did.
PlainSessionsKeepSymbols ==
  [][(phase = "running" /\ ~symbols_explicit) => tracked_table \subseteq tracked_table']_sessionVars
=============================================================================
