---------------------------- MODULE MCTokenBucket ----------------------------
(***************************************************************************)
(* The instance of TokenBucket for TLC.                                    *)
(***************************************************************************)
EXTENDS TokenBucket, TLC

CONSTANTS t1, t2

Symmetric == Permutations(Transfers)
=============================================================================
