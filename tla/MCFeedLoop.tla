----------------------------- MODULE MCFeedLoop -----------------------------
(* Finite lists for FeedLoop.  The small list scales the program's budgets  *)
(* down and keeps their order: retries can fill the smallest window, and    *)
(* the largest is smaller than the list.  The list of ten symbols goes with *)
(* the program's own numbers.                                               *)
EXTENDS FeedLoop

SmallUniverses == {<<>>, <<"AAPL", "MSFT">>}
SmallSymbols == {"AAPL", "MSFT", "NVDA"}

TenSymbols == {<<"S00", "S01", "S02", "S03", "S04", "S05", "S06", "S07", "S08", "S09">>}
TenSymbolSet == UNION {Elements(list) : list \in TenSymbols}
=============================================================================
