--------------------------- MODULE MCWindowsFeed ---------------------------
(* One symbol in both profiles, one, a crypto asset, in the first only.     *)
EXTENDS WindowsFeed

CONSTANTS s1, s2, large, small
MCMembers == [p \in {large, small} |-> IF p = large THEN {s1, s2} ELSE {s1}]

\* Two workers race through the initial pass; one worker meets the loads of a symbol, the
\* full refresh, or the snapshots.
MCInstances ==
  {[workers |-> 2, opened |-> {}, snapshots |-> FALSE, refreshes |-> FALSE, retries |-> 1],
   [workers |-> 1, opened |-> {s2}, snapshots |-> FALSE, refreshes |-> FALSE, retries |-> 1],
   [workers |-> 1, opened |-> {}, snapshots |-> FALSE, refreshes |-> TRUE, retries |-> 1],
   [workers |-> 1, opened |-> {}, snapshots |-> TRUE, refreshes |-> FALSE, retries |-> 0]}
=============================================================================
