--------------------------- MODULE MCAccounting ----------------------------
(***************************************************************************)
(* Small instances of Accounting: two requests, one Run, and prices chosen *)
(* so that one reservation fits a budget and the two together do not.      *)
(***************************************************************************)
EXTENDS Accounting

CONSTANTS r1, r2, u1

AllOnRun  == [r \in Requests |-> u1]
FirstOnRun == [r \in Requests |-> IF r = r1 THEN u1 ELSE NoRun]

\* The first request's attempts cost 2, the second's 1.
Priced == [a \in Attempts |-> IF a[1] = r1 THEN 2 ELSE 1]
\* An attempt with nothing to price still reserves one micro-dollar.
PricedOrFree == [a \in Attempts |-> IF a[1] = r1 THEN 2 ELSE 0]

RunBudget2 == [u \in Runs |-> 2]
RunBudget3 == [u \in Runs |-> 3]
=============================================================================
