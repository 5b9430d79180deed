------------------------------ MODULE MCDaemon ------------------------------
(***************************************************************************)
(* Instances of Daemon for TLC.                                            *)
(***************************************************************************)
EXTENDS Daemon, TLC

CONSTANTS j1, j2, j3, c1, c2

Symmetric == Permutations(Jobs) \cup Permutations(Clients)
=============================================================================
