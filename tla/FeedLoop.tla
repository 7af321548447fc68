------------------------------ MODULE FeedLoop ------------------------------
(***************************************************************************)
(* The feed thread (workstation/startup.rs): every tick or request it      *)
(* plans a window of the tracked symbols - retries first, then round robin *)
(* from a cursor - fetches it on a few threads, and adapts the window and  *)
(* the concurrency to the provider's throttling.  Meanwhile the scheduler  *)
(* ticks and the main thread adds symbols.                                 *)
(*                                                                         *)
(* A fetch returns one of Outcomes, what a LiveFeedClient may answer; the  *)
(* data it delivers is TerminalState's subject.                            *)
(***************************************************************************)
EXTENDS Integers, Sequences, FiniteSets

CONSTANTS
  Symbols,            \* ticker symbols
  Universes,          \* the lists of symbols a session may start with
  Outcomes,           \* answers of the client: some of AllOutcomes
  INITIAL_FEED_REFRESH_BUDGET,
  MIN_STEADY_FEED_REFRESH_BUDGET, START_STEADY_FEED_REFRESH_BUDGET,
  MAX_STEADY_FEED_REFRESH_BUDGET,
  STEADY_STEP,        \* the 8 by which the steady budget recovers
  MIN_FEED_FETCH_CONCURRENCY, START_FEED_FETCH_CONCURRENCY, MAX_FEED_FETCH_CONCURRENCY,
  MAX_RETRY_SYMBOLS_PER_CYCLE,
  FEED_RECOVERY_COOLDOWN_CYCLES,
  WEIGHTED_TARGET_REFRESH_BUDGET_PER_CYCLE,
  MAX_TICKS,          \* model bound: ticks of the scheduler waiting in the channel
  MAX_FAILURES        \* model bound: failed fetches and failed client builds

AllOutcomes == {"Provider", "Throttled", "Transient", "Hard"}

Elements(seq) == {seq[i] : i \in 1 .. Len(seq)}
IsInjective(seq) == \A i, j \in 1 .. Len(seq) : seq[i] = seq[j] => i = j

\* The elements of seq that are in S, in their order (a loop's `continue`), up to each place.
Keeping(seq, S) ==
  LET kept[n \in 0 .. Len(seq)] ==
        IF n = 0 THEN <<>>
        ELSE IF seq[n] \in S THEN Append(kept[n - 1], seq[n]) ELSE kept[n - 1]
  IN  kept
KeepOnly(seq, S) == Keeping(seq, S)[Len(seq)]

ASSUME FeedAssumption ==
  /\ \A list \in Universes : list \in Seq(Symbols) /\ IsInjective(list)
  /\ Outcomes \subseteq AllOutcomes
  /\ MAX_TICKS \in Nat /\ MAX_FAILURES \in Nat

ASSUME BudgetAssumption ==
  /\ INITIAL_FEED_REFRESH_BUDGET \in Nat \ {0}
  /\ MIN_STEADY_FEED_REFRESH_BUDGET \in Nat \ {0}
  /\ MAX_STEADY_FEED_REFRESH_BUDGET \in Nat
  /\ START_STEADY_FEED_REFRESH_BUDGET
       \in MIN_STEADY_FEED_REFRESH_BUDGET .. MAX_STEADY_FEED_REFRESH_BUDGET
  /\ STEADY_STEP \in Nat
  /\ MIN_FEED_FETCH_CONCURRENCY \in Nat \ {0}
  /\ MAX_FEED_FETCH_CONCURRENCY \in Nat
  /\ START_FEED_FETCH_CONCURRENCY
       \in MIN_FEED_FETCH_CONCURRENCY .. MAX_FEED_FETCH_CONCURRENCY
  /\ MAX_RETRY_SYMBOLS_PER_CYCLE \in Nat
  /\ FEED_RECOVERY_COOLDOWN_CYCLES \in Nat
  /\ WEIGHTED_TARGET_REFRESH_BUDGET_PER_CYCLE \in Nat

VARIABLES
  tracked,          \* LiveSymbolState: symbols in the order they were added
  unannounced,      \* the main thread added symbols and has not yet sent RefreshNow
  control,          \* RefreshNow messages in the channel
  client,           \* the client has been built
  cursor,           \* symbol_refresh_cursor
  bootstrapped,     \* refresh_cycle > 0
  steady_budget,    \* steady_refresh_budget
  concurrency,      \* fetch_concurrency
  cooldown,         \* recovery_cooldown_cycles
  retry_symbols,    \* symbols to fetch again, oldest first
  plan,             \* the window being fetched, or NoPlan
  returned,         \* positions of the plan whose fetch has returned
  failed,           \* retryable failures of this cycle, as they came
  throttled,        \* this cycle has seen a throttle error
  owed,             \* history: symbols whose last fetch failed retryably
  quiet,            \* history: cycles without throttling since the last, capped
  failures          \* spent of MAX_FAILURES

aimdVars  == <<steady_budget, concurrency, cooldown, quiet>>
cycleVars == <<plan, returned, failed, throttled>>
vars == <<tracked, unannounced, control, client, cursor, bootstrapped, aimdVars,
          retry_symbols, cycleVars, owed, failures>>

NoPlan == [indexes |-> <<>>, total |-> 0, normal |-> 0, concurrency |-> 0,
           next_cursor |-> 0]

Smaller(a, b) == IF a <= b THEN a ELSE b
Larger(a, b)  == IF a <= b THEN b ELSE a

\* Symbols are known to a plan by their index, from 0, in the tracked list.
SymbolAt(index) == tracked[index + 1]
Planned == {SymbolAt(i) : i \in Elements(plan.indexes)}

-----------------------------------------------------------------------------
(* Planning.                                                               *)

is_retryable_feed_error(outcome) == outcome \in {"Throttled", "Transient"}
is_provider_throttle_error(outcome) == outcome = "Throttled"

\* Mutant: the cursor passes one symbol too many.
CursorPastWindow(from, count, selected) ==
  IF count = 0 \/ selected = 0 THEN 0 ELSE (from + Smaller(selected + 1, count)) % count

\* Mutant: the cursor is not brought back into the list.
CursorUnwrapped(from, count, selected) ==
  IF count = 0 \/ selected = 0 THEN 0 ELSE from + Smaller(selected, count)

\* Mutant: max for min, which brings the cursor back to where it was.
CursorFullCircle(from, count, selected) ==
  IF count = 0 \/ selected = 0 THEN 0 ELSE (from + Larger(selected, count)) % count

\* The cursor advances by what was selected normally; with nothing selected
\* it goes back to 0.
next_weighted_target_refresh_cursor(from, count, selected) ==
  IF count = 0 \/ selected = 0 THEN 0 ELSE (from + Smaller(selected, count)) % count

should_refresh_weighted_target(index, from, count, budget) ==
  /\ count # 0 /\ budget # 0
  /\ (index + count - (from % count)) % count < Smaller(budget, count)

RefreshBudget ==
  Smaller(IF bootstrapped THEN steady_budget ELSE INITIAL_FEED_REFRESH_BUDGET, Len(tracked))

\* The queue holds tracked symbols, each once, so the code's
\* two `continue`s, for strangers and for duplicates, never skip any.
RetriesTaken ==
  SubSeq(retry_symbols, 1,
         Smaller(Len(retry_symbols), Smaller(MAX_RETRY_SYMBOLS_PER_CYCLE, RefreshBudget)))

IndexOf(s) == CHOOSE i \in 0 .. Len(tracked) - 1 : SymbolAt(i) = s

\* The other indexes in the order the round robin meets them.
Rotation(retried) ==
  LET round == [k \in 1 .. Len(tracked) |-> (cursor + k - 1) % Len(tracked)]
  IN  KeepOnly(round, (0 .. Len(tracked) - 1) \ retried)

plan_feed_refresh ==
  LET retried  == [k \in 1 .. Len(RetriesTaken) |-> IndexOf(RetriesTaken[k])]
      others   == Rotation(Elements(retried))
      normal   == Smaller(Len(others), RefreshBudget - Len(retried))
      selected == retried \o SubSeq(others, 1, normal)
  IN  [indexes     |-> selected,
       total       |-> Len(tracked),
       normal      |-> normal,
       concurrency |-> Larger(Smaller(concurrency, Len(selected)), 1),
       next_cursor |-> next_weighted_target_refresh_cursor(cursor, Len(tracked), normal)]

-----------------------------------------------------------------------------
(* The scheduler and the main thread.                                      *)

feed_schedule_loop ==
  /\ control < MAX_TICKS
  /\ control' = control + 1
  /\ UNCHANGED <<tracked, unannounced, client, cursor, bootstrapped, retry_symbols,
                 owed, failures>> /\ UNCHANGED aimdVars /\ UNCHANGED cycleVars

\* track_symbols_from_query: the list grows under its lock, then RefreshNow is sent.
add_symbols(s) ==
  /\ ~unannounced
  /\ s \notin Elements(tracked)
  /\ tracked' = Append(tracked, s)
  /\ unannounced' = TRUE
  /\ UNCHANGED <<control, client, cursor, bootstrapped, retry_symbols, owed, failures>>
  /\ UNCHANGED aimdVars /\ UNCHANGED cycleVars

RefreshNow ==
  /\ unannounced
  /\ unannounced' = FALSE
  /\ control' = control + 1
  /\ UNCHANGED <<tracked, client, cursor, bootstrapped, retry_symbols, owed, failures>>
  /\ UNCHANGED aimdVars /\ UNCHANGED cycleVars

-----------------------------------------------------------------------------
(* The feed thread.                                                        *)

Waiting == plan = NoPlan /\ control > 0

\* The client could not be built: reported, and tried again at the next tick.
build_client_fails ==
  /\ Waiting /\ ~client
  /\ failures < MAX_FAILURES
  /\ failures' = failures + 1
  /\ control' = control - 1
  /\ UNCHANGED <<tracked, unannounced, client, cursor, bootstrapped, retry_symbols, owed>>
  /\ UNCHANGED aimdVars /\ UNCHANGED cycleVars

\* A cycle begins, or has nothing to fetch and ends without draining the channel.
StartCycle ==
  /\ Waiting
  /\ control' = control - 1
  /\ client' = TRUE
  /\ IF tracked = <<>>
     THEN UNCHANGED <<plan, retry_symbols>>
     ELSE /\ plan' = plan_feed_refresh
          /\ retry_symbols' = SubSeq(retry_symbols, Len(RetriesTaken) + 1, Len(retry_symbols))
  /\ returned' = {} /\ failed' = <<>> /\ throttled' = FALSE
  /\ UNCHANGED <<tracked, unannounced, cursor, bootstrapped, owed, failures>>
  /\ UNCHANGED aimdVars

\* Mutant: only throttled symbols are fetched again.
RetryThrottled(s, outcome) ==
  failed' = IF is_provider_throttle_error(outcome) THEN Append(failed, s) ELSE failed

QueueRetry(s, outcome) ==
  failed' = IF is_retryable_feed_error(outcome) THEN Append(failed, s) ELSE failed

\* Thread w of n fetches the positions w, w + n, w + 2n, ... in that order;
\* the threads' results mix.
FetchReturns(position, outcome) ==
  /\ position \in 1 .. Len(plan.indexes) /\ position \notin returned
  /\ \A earlier \in 1 .. position - 1 :
       (position - earlier) % plan.concurrency = 0 => earlier \in returned
  /\ IF outcome = "Provider" THEN UNCHANGED failures
     ELSE failures < MAX_FAILURES /\ failures' = failures + 1
  /\ LET s == SymbolAt(plan.indexes[position])
     IN  /\ QueueRetry(s, outcome)
         /\ owed' = IF is_retryable_feed_error(outcome) THEN owed \cup {s} ELSE owed \ {s}
  /\ throttled' = (throttled \/ is_provider_throttle_error(outcome))
  /\ returned' = returned \cup {position}
  /\ UNCHANGED <<tracked, unannounced, control, client, cursor, bootstrapped,
                 retry_symbols, plan>> /\ UNCHANGED aimdVars

\* Mutant: throttling during the cooldown does not restart it.
AdaptOnce ==
  IF throttled
  THEN /\ concurrency' = Larger(concurrency - 1, MIN_FEED_FETCH_CONCURRENCY)
       /\ steady_budget' = Larger(steady_budget \div 2, MIN_STEADY_FEED_REFRESH_BUDGET)
       /\ cooldown' = IF cooldown > 0 THEN cooldown - 1 ELSE FEED_RECOVERY_COOLDOWN_CYCLES
  ELSE /\ cooldown' = Larger(cooldown - 1, 0)
       /\ concurrency' = IF cooldown > 0 THEN concurrency
                         ELSE Smaller(concurrency + 1, MAX_FEED_FETCH_CONCURRENCY)
       /\ steady_budget' = IF cooldown > 0 THEN steady_budget
                           ELSE Smaller(steady_budget + STEADY_STEP,
                                        MAX_STEADY_FEED_REFRESH_BUDGET)

\* Fast back off, slow recovery.
Adapt ==
  IF throttled
  THEN /\ concurrency' = Larger(concurrency - 1, MIN_FEED_FETCH_CONCURRENCY)
       /\ steady_budget' = Larger(steady_budget \div 2, MIN_STEADY_FEED_REFRESH_BUDGET)
       /\ cooldown' = FEED_RECOVERY_COOLDOWN_CYCLES
  ELSE /\ cooldown' = Larger(cooldown - 1, 0)
       /\ concurrency' = IF cooldown > 0 THEN concurrency
                         ELSE Smaller(concurrency + 1, MAX_FEED_FETCH_CONCURRENCY)
       /\ steady_budget' = IF cooldown > 0 THEN steady_budget
                           ELSE Smaller(steady_budget + STEADY_STEP,
                                        MAX_STEADY_FEED_REFRESH_BUDGET)

Requeue ==
  retry_symbols' = retry_symbols \o KeepOnly(failed, Symbols \ Elements(retry_symbols))

\* All results are in; the ticks that came meanwhile are dropped.
EndCycle ==
  /\ plan # NoPlan /\ returned = 1 .. Len(plan.indexes)
  /\ cursor' = plan.next_cursor
  /\ bootstrapped' = TRUE
  /\ Requeue
  /\ Adapt
  /\ quiet' = IF throttled THEN 0 ELSE Smaller(quiet + 1, FEED_RECOVERY_COOLDOWN_CYCLES)
  /\ control' = 0
  /\ plan' = NoPlan /\ returned' = {} /\ failed' = <<>> /\ throttled' = FALSE
  /\ UNCHANGED <<tracked, unannounced, client, owed, failures>>

-----------------------------------------------------------------------------

Init ==
  /\ tracked \in Universes /\ unannounced = FALSE
  /\ control = 1 /\ client = FALSE
  /\ cursor = 0 /\ bootstrapped = FALSE
  /\ steady_budget = START_STEADY_FEED_REFRESH_BUDGET
  /\ concurrency = START_FEED_FETCH_CONCURRENCY
  /\ cooldown = 0 /\ quiet = FEED_RECOVERY_COOLDOWN_CYCLES
  /\ retry_symbols = <<>>
  /\ plan = NoPlan /\ returned = {} /\ failed = <<>> /\ throttled = FALSE
  /\ owed = {} /\ failures = 0

Next ==
  \/ feed_schedule_loop
  \/ \E s \in Symbols : add_symbols(s)
  \/ RefreshNow
  \/ build_client_fails \/ StartCycle
  \/ \E position \in 1 .. Len(plan.indexes), outcome \in Outcomes :
       FetchReturns(position, outcome)
  \/ EndCycle

Spec == Init /\ [][Next]_vars

\* The scheduler sleeps and ticks for ever, the feed thread takes what is in
\* its channel and every fetch returns (the HTTP client has timeouts).  What
\* it returns, and that a client cannot be built, is nobody's promise.
FairSpec ==
  /\ Spec
  /\ WF_vars(feed_schedule_loop)
  /\ WF_vars(StartCycle)
  /\ WF_vars(\E position \in 1 .. Len(plan.indexes), outcome \in Outcomes :
               FetchReturns(position, outcome))
  /\ WF_vars(EndCycle)

-----------------------------------------------------------------------------

\* Every variable has its type and range: in particular the cursor is an
\* index of the list, also after symbols were added during a cycle, and the
\* retry queue and the failures about to join it hold tracked symbols, each
\* once, however often they failed.
TypeOK ==
  /\ tracked \in Seq(Symbols) /\ IsInjective(tracked)
  /\ unannounced \in BOOLEAN /\ client \in BOOLEAN /\ bootstrapped \in BOOLEAN
  /\ control \in Nat
  /\ cursor \in 0 .. Larger(Len(tracked) - 1, 0)
  /\ steady_budget \in MIN_STEADY_FEED_REFRESH_BUDGET .. MAX_STEADY_FEED_REFRESH_BUDGET
  /\ concurrency \in MIN_FEED_FETCH_CONCURRENCY .. MAX_FEED_FETCH_CONCURRENCY
  /\ cooldown \in 0 .. FEED_RECOVERY_COOLDOWN_CYCLES
  /\ retry_symbols \in Seq(Symbols)
  /\ plan \in [indexes : Seq(Nat), total : Nat, normal : Nat, concurrency : Nat,
              next_cursor : Nat]
  /\ returned \in SUBSET (1 .. Len(plan.indexes))
  /\ failed \in Seq(Symbols) /\ throttled \in BOOLEAN
  /\ owed \in SUBSET Symbols
  /\ quiet \in 0 .. FEED_RECOVERY_COOLDOWN_CYCLES
  /\ failures \in Nat
  /\ IsInjective(retry_symbols) /\ IsInjective(failed)
  /\ Elements(retry_symbols) \cup Elements(failed) \subseteq Elements(tracked)

\* A symbol whose last fetch failed in a way that may pass is always still to
\* be fetched again: queued, in the window, or among the failures to queue.
FailuresAreRetried ==
  owed \subseteq Elements(retry_symbols) \cup Elements(failed)
    \cup {SymbolAt(plan.indexes[k]) : k \in (1 .. Len(plan.indexes)) \ returned}

\* A window fetches no symbol twice, and the round robin has no gaps: from
\* the old cursor up to the new one every symbol is in the window, whatever
\* retries stood in between, unless retries alone filled the window.
WindowLeavesNoGap ==
  /\ IsInjective(plan.indexes)
  /\ plan.normal > 0 =>
       \A k \in 0 .. (plan.next_cursor + plan.total - cursor - 1) % plan.total :
         (cursor + k) % plan.total \in Elements(plan.indexes)

\* After a throttled cycle the loop speeds up only when as many cycles as the
\* cooldown asks for have passed without throttling, however the throttled
\* and the quiet cycles alternate.
RecoveryIsSlow ==
  [][(concurrency' > concurrency \/ steady_budget' > steady_budget)
       => quiet = FEED_RECOVERY_COOLDOWN_CYCLES]_vars

\* Every tracked symbol is fetched again and again, however it came to be
\* tracked (a new symbol's own RefreshNow may be dropped as a stale tick), as
\* long as failures do not go on for ever.
EverySymbolIsRefreshed ==
  \A s \in Symbols : s \in Elements(tracked) ~> s \in Planned

\* The symbols of the window whose weighted analyst target is recomputed.
PlannedWithTarget ==
  {SymbolAt(i) : i \in {j \in Elements(plan.indexes) :
     should_refresh_weighted_target(j, cursor, plan.total,
       Smaller(Len(plan.indexes), WEIGHTED_TARGET_REFRESH_BUDGET_PER_CYCLE))}}

\* "weighted_target_refresh_covers_every_symbol_across_windows": every tracked
\* symbol gets its weighted target recomputed at some time.
EveryTargetIsRefreshed ==
  \A s \in Symbols : s \in Elements(tracked) ~> s \in PlannedWithTarget
=============================================================================
