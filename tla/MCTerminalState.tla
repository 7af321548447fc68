--------------------------- MODULE MCTerminalState ---------------------------
(* Finite payloads for TerminalState: with a threshold of 2000 bps a price  *)
(* of 100 is qualified against 130 (2307 bps) and just not against 124       *)
(* (1935), and one of 10 against 100 is clamped (9000 to MaxBps).           *)
EXTENDS TerminalState

MinBps == -20000
MaxBps == 8000

Snapshot(profitable, market, fair) ==
  [profitable |-> profitable, market_price_cents |-> market, intrinsic_value_cents |-> fair]

MCSnapshots == {Snapshot(TRUE, 100, 130), Snapshot(TRUE, 100, 124), Snapshot(FALSE, 10, 100),
                Snapshot(TRUE, 0, 130)}

Signal(fair, age) ==
  [fair_value_cents |-> fair, age_seconds |-> age, low |-> 140, high |-> 120,
   weighted |-> 150, weighted_count |-> 4]

MCSignals == {Signal(130, 0), Signal(130, 31), Signal(0, 0)}
=============================================================================
