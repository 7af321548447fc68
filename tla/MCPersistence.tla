---------------------------- MODULE MCPersistence ----------------------------
(* Finite batches for Persistence: none, one event, and two events of one   *)
(* or of two symbols.                                                       *)
EXTENDS Persistence, TLC

CONSTANTS a, b

Event(s, k) == [symbol |-> s, kind |-> k]

MCBatches == {<<>>, <<Event(a, "Snapshot")>>, <<Event(a, "Other")>>,
              <<Event(a, "Snapshot"), Event(b, "Snapshot")>>}

=============================================================================
