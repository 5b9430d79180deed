------------------------------ MODULE MCUiSync ------------------------------
(***************************************************************************)
(* Instances of UiSync for TLC.                                            *)
(***************************************************************************)
EXTENDS UiSync, TLC

CONSTANTS j1, j2, c1, c2, consumer, v1, v2
=============================================================================
