----------------------------- MODULE MCIntercept -----------------------------
(***************************************************************************)
(* The instance of Intercept for TLC.                                      *)
(***************************************************************************)
EXTENDS Intercept, TLC

CONSTANTS d1, d2

Symmetric == Permutations(Items)
=============================================================================
