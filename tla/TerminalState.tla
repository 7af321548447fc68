---------------------------- MODULE TerminalState ----------------------------
(***************************************************************************)
(* The screener core (apps/desktop/src/lib.rs): per-symbol state built     *)
(* from provider events, the journal of accepted events, the tape and      *)
(* alert rings the screen shows, and hydration from persisted records.     *)
(* The core is single-threaded; what makes it hard is that five views of   *)
(* the same event stream are maintained by hand and must stay consistent.  *)
(***************************************************************************)
EXTENDS GapMath, Sequences, FiniteSets

CONSTANTS
  Symbols,            \* ticker symbols
  StoredSymbols,      \* model bound: the symbols persisted and restored
  Snapshots,          \* MarketSnapshot payloads the provider may send
  Signals,            \* ExternalValuationSignal payloads it may send
  Fundamentals,       \* FundamentalSnapshot payloads with at least one value
  MIN_GAP_BPS,        \* min_gap_bps, the qualification threshold
  MAX_AGE_SECONDS,    \* external_signal_max_age_seconds
  TAPE_CAPACITY,      \* tape_capacity, of the tape and of the alert ring
  MAX_PRICE_HISTORY,  \* MAX_PRICE_HISTORY_PER_SYMBOL
  MAX_SEQUENCE        \* model bound on the number of events of a session

SnapshotPayload == [profitable : BOOLEAN, market_price_cents : Int,
                    intrinsic_value_cents : Int]

SignalPayload == [fair_value_cents : Int, age_seconds : Int,
                  low : Int \cup {None}, high : Int \cup {None},
                  weighted : Int \cup {None}, weighted_count : Int \cup {None}]

ASSUME PayloadAssumption ==
  /\ StoredSymbols \subseteq Symbols
  /\ Snapshots \subseteq SnapshotPayload
  /\ Signals \subseteq SignalPayload
  /\ None \notin Snapshots \cup Signals \cup Fundamentals \cup Int

\* The map of symbols is finite.
ASSUME SymbolsAssumption == IsFiniteSet(Symbols)

\* Every session is created with a threshold of 2000.
ASSUME ThresholdAssumption == MIN_GAP_BPS \in 1 .. I32_MAX

ASSUME CapacityAssumption ==
  /\ TAPE_CAPACITY \in Nat
  /\ MAX_PRICE_HISTORY \in Nat \ {0}
  /\ MAX_SEQUENCE \in Nat

VARIABLES
  symbols,        \* symbol -> SymbolState; an absent entry is NoState
  sequence,       \* number of the last event
  total_events,   \* events counted over all sessions
  recent_tape,    \* ring of candidate rows, newest last
  recent_alerts,  \* ring of alerts, newest last
  journal,        \* events accepted since the last hydration
  stored          \* symbol_latest: the record persisted for each symbol

vars == <<symbols, sequence, total_events, recent_tape,
          recent_alerts, journal, stored>>

NoState == [snapshot |-> None, external_signal |-> None, fundamentals |-> None,
            last_sequence |-> 0, update_count |-> 0, price_history |-> <<>>]

-----------------------------------------------------------------------------
(* The derived row of a symbol (build_detail).                             *)

qualification_for(snapshot) ==
  CASE ~snapshot.profitable -> "Unprofitable"
    [] snapshot.profitable
         /\ gap_bps(snapshot.market_price_cents, snapshot.intrinsic_value_cents)
              >= MIN_GAP_BPS -> "Qualified"
    [] OTHER -> "GapTooSmall"

\* The signal's symbol is the key it is stored under, so the code's
\* mismatch branch (Divergent) is never taken here.
external_status_for(snapshot, signal) ==
  CASE signal = None -> "Missing"
    [] signal # None /\ signal.age_seconds > MAX_AGE_SECONDS -> "Stale"
    [] signal # None /\ signal.age_seconds <= MAX_AGE_SECONDS
         /\ gap_bps(snapshot.market_price_cents, signal.fair_value_cents)
              >= MIN_GAP_BPS -> "Supportive"
    [] OTHER -> "Divergent"

confidence_for(qualification, status) ==
  CASE qualification # "Qualified" -> "Low"
    [] qualification = "Qualified" /\ status = "Missing" -> "Provisional"
    [] qualification = "Qualified" /\ status = "Supportive" -> "High"
    [] OTHER -> "Low"

\* None for a symbol without a snapshot, whatever else is known of it.
build_detail(state) ==
  IF state.snapshot = None THEN None
  ELSE LET q  == qualification_for(state.snapshot)
           es == external_status_for(state.snapshot, state.external_signal)
       IN  [gap |-> gap_bps(state.snapshot.market_price_cents,
                            state.snapshot.intrinsic_value_cents),
            qualification |-> q, confidence |-> confidence_for(q, es)]

Qualified(state) == /\ state.snapshot # None
                    /\ qualification_for(state.snapshot) = "Qualified"

HighConfidence(state) == /\ Qualified(state)
                         /\ external_status_for(state.snapshot, state.external_signal)
                              = "Supportive"

-----------------------------------------------------------------------------
(* Rings: VecDeques that drop the oldest entry once at capacity.           *)

PushRing(ring, entry, capacity) ==
  IF capacity = 0 THEN ring
  ELSE Append(IF Len(ring) = capacity THEN Tail(ring) ELSE ring, entry)

push_tape(s, state) ==
  LET detail == build_detail(state)
  IN  recent_tape' = IF detail = None THEN recent_tape
                     ELSE PushRing(recent_tape, [symbol |-> s, row |-> detail],
                                   TAPE_CAPACITY)

\* Mutant: alerts on every qualified update, not on the transition.
AlertOnUpdate(before, after) ==
  CASE Qualified(after) -> "EnteredQualified"
    [] Qualified(before) /\ ~Qualified(after) -> "ExitedQualified"
    [] OTHER -> None

\* The alert the change from `before` to `after` of one symbol raises.
AlertKind(before, after) ==
  CASE ~Qualified(before) /\ Qualified(after) -> "EnteredQualified"
    [] Qualified(before) /\ ~Qualified(after) -> "ExitedQualified"
    [] Qualified(before) /\ Qualified(after)
         /\ ~HighConfidence(before) /\ HighConfidence(after) -> "ConfidenceUpgraded"
    [] OTHER -> None

push_alerts(s, before, after) ==
  LET kind == AlertKind(before, after)
  IN  recent_alerts' =
        IF kind = None THEN recent_alerts
        ELSE PushRing(recent_alerts,
                      [symbol |-> s, kind |-> kind, sequence |-> after.last_sequence],
                      TAPE_CAPACITY)

-----------------------------------------------------------------------------
(* The four journaled operations.                                          *)

\* What every accepted event does besides its own field: it takes the next
\* sequence number, counts, and is journaled under that number.
Record(s, state, kind, payload) ==
  /\ sequence < MAX_SEQUENCE
  /\ sequence' = sequence + 1
  /\ total_events' = total_events + 1
  /\ symbols' = [symbols EXCEPT ![s] = [state EXCEPT !.last_sequence = sequence + 1,
                                                     !.update_count = @ + 1]]
  /\ journal' = Append(journal, [sequence |-> sequence + 1, symbol |-> s,
                                 kind |-> kind, payload |-> payload])
  /\ UNCHANGED stored

ingest_snapshot(s, snapshot) ==
  LET point == [sequence |-> sequence + 1, price |-> snapshot.market_price_cents]
  IN  /\ snapshot.market_price_cents > 0
      /\ snapshot.intrinsic_value_cents > 0
      /\ Record(s, [symbols[s] EXCEPT
                      !.snapshot = snapshot,
                      !.price_history = PushRing(@, point, MAX_PRICE_HISTORY)],
                "Snapshot", snapshot)
      /\ push_tape(s, symbols'[s])
      /\ push_alerts(s, symbols[s], symbols'[s])

\* Mutant: journals the signal as it came, not as it was stored.
IngestExternalRaw(s, signal) ==
  /\ signal.fair_value_cents > 0
  /\ Record(s, [symbols[s] EXCEPT !.external_signal = sanitize_external_signal(signal)],
            "External", signal)
  /\ push_tape(s, symbols'[s])
  /\ push_alerts(s, symbols[s], symbols'[s])

\* Mutant: shows a new signal only with the next snapshot.
IngestExternalOffTape(s, signal) ==
  LET sanitized == sanitize_external_signal(signal)
  IN  /\ signal.fair_value_cents > 0
      /\ Record(s, [symbols[s] EXCEPT !.external_signal = sanitized],
                "External", sanitized)
      /\ push_alerts(s, symbols[s], symbols'[s])
      /\ UNCHANGED recent_tape

ingest_external(s, signal) ==
  LET sanitized == sanitize_external_signal(signal)
  IN  /\ signal.fair_value_cents > 0
      /\ Record(s, [symbols[s] EXCEPT !.external_signal = sanitized],
                "External", sanitized)
      /\ push_tape(s, symbols'[s])
      /\ push_alerts(s, symbols[s], symbols'[s])

ingest_fundamentals(s, fundamentals) ==
  /\ Record(s, [symbols[s] EXCEPT !.fundamentals = fundamentals],
            "Fundamentals", fundamentals)
  /\ UNCHANGED <<recent_tape, recent_alerts>>

clear_fundamentals(s) ==
  /\ symbols[s].fundamentals # None
  /\ Record(s, [symbols[s] EXCEPT !.fundamentals = None], "FundamentalsCleared", None)
  /\ UNCHANGED <<recent_tape, recent_alerts>>

-----------------------------------------------------------------------------
(* Persistence as the core sees it: records leave one symbol at a time and *)
(* come back, possibly older than the live state, for the tracked symbols. *)

\* build_symbol_revision returns nothing for a symbol without a snapshot.
persisted_symbol_state(s) ==
  /\ symbols[s].snapshot # None
  /\ stored[s] # symbols[s]
  /\ stored' = [stored EXCEPT ![s] = symbols[s]]
  /\ UNCHANGED <<symbols, sequence, total_events, recent_tape, recent_alerts, journal>>

TotalUpdates(records) ==
  LET total[S \in SUBSET DOMAIN records] ==
        IF S = {} THEN 0
        ELSE LET s == CHOOSE s \in S : TRUE
             IN  records[s].update_count + total[S \ {s}]
  IN  total[DOMAIN records]

\* Mutant: numbering restarts at zero.
RestartNumbering(loaded) == sequence' = 0

\* Numbering resumes at the largest number restored, which may be smaller
\* than the last session reached.
ResumeNumbering(loaded) ==
  /\ sequence' \in {0} \cup {stored[s].last_sequence : s \in loaded}
  /\ \A s \in loaded : stored[s].last_sequence <= sequence'

ResumeCounts(loaded) == total_events' = TotalUpdates([s \in loaded |-> stored[s]])

ForgetSession == recent_tape' = <<>> /\ recent_alerts' = <<>> /\ journal' = <<>>

\* A new session that tracks `tracked` and restores what is stored of it.
\* (The take(MAX_PRICE_HISTORY) of the code never cuts: stored histories are
\* copies of rings of that capacity.)
hydrate_from_persisted(tracked) ==
  LET loaded == {s \in tracked : stored[s] # NoState}
  IN  /\ symbols' = [s \in Symbols |-> IF s \in loaded THEN stored[s] ELSE NoState]
      /\ ResumeNumbering(loaded)
      /\ ResumeCounts(loaded)
      /\ ForgetSession
      /\ UNCHANGED stored

-----------------------------------------------------------------------------

Init ==
  /\ symbols = [s \in Symbols |-> NoState]
  /\ sequence = 0
  /\ total_events = 0
  /\ recent_tape = <<>>
  /\ recent_alerts = <<>>
  /\ journal = <<>>
  /\ stored = [s \in Symbols |-> NoState]

Next ==
  \/ \E s \in Symbols, p \in Snapshots : ingest_snapshot(s, p)
  \/ \E s \in Symbols, p \in Signals : ingest_external(s, p)
  \/ \E s \in Symbols, p \in Fundamentals : ingest_fundamentals(s, p)
  \/ \E s \in Symbols : clear_fundamentals(s)
  \/ \E s \in StoredSymbols : persisted_symbol_state(s)
  \/ \E tracked \in SUBSET StoredSymbols : hydrate_from_persisted(tracked)

Spec == Init /\ [][Next]_vars
-----------------------------------------------------------------------------

Row == [gap : Int,
        qualification : {"Qualified", "Unprofitable", "GapTooSmall"},
        confidence : {"Low", "Provisional", "High"}]

AlertKinds == {"EnteredQualified", "ExitedQualified", "ConfidenceUpgraded"}

\* What is absent is neither a row nor the kind of an alert.
ASSUME AbsentAssumption == None \notin Row /\ None \notin AlertKinds

SymbolState ==
  [snapshot : Snapshots \cup {None},
   external_signal : SignalPayload \cup {None},
   fundamentals : Fundamentals \cup {None},
   last_sequence : Nat, update_count : Nat,
   price_history : Seq([sequence : Nat, price : Int])]

\* Every variable has its type, and every ring respects its capacity.
\* (total_events is a sum: CountsAgree says what it is.)
TypeOK ==
  /\ symbols \in [Symbols -> SymbolState]
  /\ stored \in [Symbols -> SymbolState]
  /\ sequence \in Nat
  /\ recent_tape \in Seq([symbol : Symbols, row : Row])
  /\ Len(recent_tape) <= TAPE_CAPACITY
  /\ recent_alerts \in Seq([symbol : Symbols, sequence : Nat,
                kind : AlertKinds])
  /\ Len(recent_alerts) <= TAPE_CAPACITY
  /\ journal \in Seq([sequence : Nat, symbol : Symbols,
                kind : {"Snapshot", "External", "Fundamentals", "FundamentalsCleared"},
                payload : Snapshots \cup SignalPayload \cup Fundamentals \cup {None}])

\* The journal numbers its events without gap or repetition and ends at the
\* session's sequence, also after a hydration restarted the numbering: that
\* is what makes journal_since(n) the exact list of events not yet persisted.
JournalIsContiguous ==
  \A i \in 1 .. Len(journal) : journal[i].sequence = sequence - Len(journal) + i

\* The session's sequence is the newest last_sequence of any symbol, so the
\* number a hydration resumes from is the one the restored symbols imply.
SequenceIsNewest ==
  /\ \A s \in Symbols : symbols[s].last_sequence <= sequence
  /\ sequence = 0 \/ \E s \in Symbols : symbols[s].last_sequence = sequence

\* The numbering is whole: what is journaled is numbered up to the session's sequence, which
\* is the newest number of a symbol, in every session.
NumberingAgrees == JournalIsContiguous /\ SequenceIsNewest

\* total_events counts every update of every symbol once, over all sessions
\* whose records were restored (the status line shows it).
CountsAgree == total_events = TotalUpdates(symbols)

AllKinds == {"Snapshot", "External", "Fundamentals", "FundamentalsCleared"}

\* Entry i is the symbol's last of the given kinds.
IsLatest(i, kinds) ==
  /\ journal[i].kind \in kinds
  /\ \A j \in i + 1 .. Len(journal) :
       journal[j].kind \in kinds => journal[j].symbol # journal[i].symbol

\* The state of each symbol is what its latest journal entries say: replaying
\* the journal over the hydrated base gives the live state, in every field.
JournalExplainsSymbols ==
  \A i \in 1 .. Len(journal) :
    LET entry == journal[i]
        state == symbols[entry.symbol]
    IN  /\ IsLatest(i, {"Snapshot"}) => state.snapshot = entry.payload
        /\ IsLatest(i, {"External"}) => state.external_signal = entry.payload
        /\ IsLatest(i, {"Fundamentals", "FundamentalsCleared"}) =>
             state.fundamentals = entry.payload
        /\ IsLatest(i, AllKinds) => state.last_sequence = entry.sequence

\* The newest tape row of a symbol shows its current gap, qualification and
\* confidence: no operation changes a row without pushing it to the tape.
TapeShowsCurrentRow ==
  \A i \in 1 .. Len(recent_tape) :
    LET s == recent_tape[i].symbol
    IN  (\A j \in i + 1 .. Len(recent_tape) : recent_tape[j].symbol # s)
          => recent_tape[i].row = build_detail(symbols[s])

\* The screen agrees with the symbols: the newest tape rows and the count of updates.
ScreenAgrees == TapeShowsCurrentRow /\ CountsAgree

\* The qualification test is exact for whatever snapshot a symbol has: although the division
\* truncates and the result is clamped, the gap reaches the threshold exactly when the
\* discount itself does.
ThresholdIsExact ==
  \A s \in Symbols :
    LET p == symbols[s].snapshot
    IN  p # None =>
          GapIsExact(p.market_price_cents, p.intrinsic_value_cents, MIN_GAP_BPS)

\* No alert of i's symbol stands between alert i and position j.
QuietBetween(i, j) ==
  \A k \in i + 1 .. j - 1 : recent_alerts[k].symbol # recent_alerts[i].symbol

Inside(alert) == alert.kind # "ExitedQualified"

\* What is left in the alert ring tells a consistent story of each symbol:
\* entering and exiting alternate, a confidence upgrade happens only while
\* qualified, and the last word agrees with the symbol's qualification now.
AlertsFollowQualification ==
  \A i \in 1 .. Len(recent_alerts) :
    LET a == recent_alerts[i]
    IN  /\ QuietBetween(i, Len(recent_alerts) + 1) =>
             (Inside(a) <=> Qualified(symbols[a.symbol]))
        /\ \A j \in i + 1 .. Len(recent_alerts) :
             LET b == recent_alerts[j]
             IN  (b.symbol = a.symbol /\ QuietBetween(i, j)) =>
                   /\ a.sequence < b.sequence
                   /\ b.kind = "EnteredQualified" <=> ~Inside(a)

=============================================================================
