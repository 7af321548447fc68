------------------------- MODULE MCDemandValuation -------------------------
(* A bank or an industrial company, and a payment network.                 *)
EXTENDS DemandValuation

CONSTANTS acme, V, d1, d2, auditor

Fund(class, shares, drivers, version) ==
  [class |-> class, shares |-> shares, drivers |-> drivers, version |-> version]

\* What is missing at first may be found by the worker; a second version may change the class.
MCReported ==
  {Fund("missing", TRUE, TRUE, 1), Fund("operating", FALSE, FALSE, 1),
   Fund("financial", FALSE, FALSE, 1), Fund("financial", TRUE, TRUE, 1),
   Fund("operating", TRUE, TRUE, 2), Fund("financial", TRUE, TRUE, 2)}

MCInstances ==
  {[open |-> {acme}, with |-> {"edgar", "quotes", "time"}, reported |-> MCReported],
   [open |-> {V}, with |-> {"edgar", "quotes"}, reported |-> MCReported],
   [open |-> {acme}, with |-> {"audit", "time"},
    reported |-> {Fund("operating", FALSE, FALSE, 1), Fund("financial", TRUE, TRUE, 2)}],
   [open |-> {acme}, with |-> {"profile"},
    reported |-> {Fund("operating", TRUE, TRUE, 1), Fund("financial", FALSE, FALSE, 1)}]}
=============================================================================
