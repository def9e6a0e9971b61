---------------------------- MODULE MCPricePins -----------------------------
(***************************************************************************)
(* Two attempts on one deployment with a version in effect and a later one *)
(* an operator may create and cancel.                                      *)
(***************************************************************************)
EXTENDS PricePins, TLC

CONSTANTS a1, a2

Symmetric == Permutations(Attempts)
=============================================================================
