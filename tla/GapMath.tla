------------------------------- MODULE GapMath -------------------------------
(***************************************************************************)
(* The fixed-point arithmetic of the screener core (apps/desktop/src/      *)
(* lib.rs): the discount of a price against a fair value in basis points,  *)
(* and the clamping of an analyst-weighted target.  Amounts are cents.     *)
(***************************************************************************)
EXTENDS Integers

CONSTANTS I32_MIN,  \* i32::MIN, the floor of the clamp
          I32_MAX,  \* i32::MAX, the ceiling of the clamp
          None      \* an absent Option

ASSUME I32Assumption == I32_MIN \in Int /\ I32_MAX \in Int /\ I32_MIN <= 0 /\ 0 <= I32_MAX

Smaller(a, b) == IF a <= b THEN a ELSE b
Larger(a, b)  == IF a <= b THEN b ELSE a

Clamp(x, lo, hi) == Larger(lo, Smaller(x, hi))

\* Rust's `/` on integers truncates toward zero; TLA+'s \div rounds down.
TruncDiv(a, b) == IF a >= 0 THEN a \div b ELSE -((-a) \div b)

-----------------------------------------------------------------------------

\* Mutant: scales by the price instead of the fair value.
GapOverMarket(market, fair) ==
  IF fair <= 0 THEN None
  ELSE Clamp(TruncDiv((fair - market) * 10000, market), I32_MIN, I32_MAX)

checked_gap_bps(market, fair) ==
  IF fair <= 0 THEN None
  ELSE Clamp(TruncDiv((fair - market) * 10000, fair), I32_MIN, I32_MAX)

gap_bps(market, fair) ==
  IF checked_gap_bps(market, fair) = None THEN 0 ELSE checked_gap_bps(market, fair)

\* The gap reaches the threshold t exactly when the discount, not yet divided, does.
GapIsExact(market, fair, t) ==
  gap_bps(market, fair) >= t <=> (fair - market) * 10000 >= t * fair

-----------------------------------------------------------------------------
(* A signal carries an optional weighted target and an optional range.     *)

clamped_weighted_fair_value(signal) ==
  LET ranged  == signal.low # None /\ signal.high # None
      clamped == IF ranged
                 THEN Clamp(signal.weighted, Smaller(signal.low, signal.high),
                                             Larger(signal.low, signal.high))
                 ELSE signal.weighted
  IN  IF signal.weighted = None \/ clamped <= 0 THEN None ELSE clamped

sanitize_external_signal(signal) ==
  LET weighted == clamped_weighted_fair_value(signal)
  IN  [signal EXCEPT !.weighted = weighted,
                     !.weighted_count = IF weighted = None THEN None ELSE @]

=============================================================================
