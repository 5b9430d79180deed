------------------------------ MODULE MCEngine ------------------------------
(***************************************************************************)
(* Instances of Engine for TLC, and the division of small files.           *)
(***************************************************************************)
EXTENDS Engine, TLC

ASSUME SmallFilesAssumption ==
    \A size \in 1 .. 60, max \in 1 .. 12 :
        LET n == CalculateSegments(size, max)
        IN  n \in 1 .. max /\ Partitions(SplitRanges(size, n), size, n)
=============================================================================
