------------------------- MODULE MCSessionUniverse -------------------------
(* A built-in universe of two symbols, two one-off lists, one of them in    *)
(* part built-in, and one symbol only the user adds.                        *)
EXTENDS SessionUniverse

MCTickers == {"AAPL", "MSFT", "NVDA", "AMD"}
MCDefault == {"AAPL", "MSFT"}
MCOneOffs == {{"NVDA"}, {"AAPL", "NVDA"}}
=============================================================================
