---------------------------- MODULE MCAppRefresh ----------------------------
(* A small instance of AppRefresh for TLC. *)
EXTENDS AppRefresh

CONSTANTS v2, v3, sp500, qa, dow

Start(saved, page, regime, model, universe, locked, c, f) ==
  [saved |-> saved, page |-> page, regime |-> regime, model |-> model,
   universe |-> universe, locked |-> locked, clicks |-> c, failures |-> f]

\* A first start, a start with everything saved, and a launch for one profile.
MCStarts == {Start(None, None, TRUE, v3, sp500, FALSE, 2, 1),
             Start(v2, dow, FALSE, v3, sp500, FALSE, 2, 1),
             Start(v2, dow, FALSE, v3, sp500, FALSE, 3, 0),
             Start(v3, dow, TRUE, v3, qa, TRUE, 2, 1)}
=============================================================================
