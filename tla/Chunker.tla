------------------------------- MODULE Chunker -------------------------------
(***************************************************************************)
(* How a file is divided into ranges (engine/src/chunker.rs).              *)
(***************************************************************************)
EXTENDS Integers

CONSTANT MinChunk  \* MIN_CHUNK_SIZE

ASSUME MinChunkAssumption == MinChunk \in Nat \ {0}

DivCeil(a, b) == (a + b - 1) \div b

(* u64::clamp, which panics unless low <= high.                            *)
Clamp(n, low, high) == IF n < low THEN low ELSE IF n > high THEN high ELSE n

(* Mutant: every file gets the maximum.                                    *)
CalculateSegmentsMax(size, max_segments) == max_segments

(* At most max_segments, a u8: the cast of the result keeps its value.     *)
CalculateSegments(size, max_segments) ==
    IF size = 0 THEN 1 ELSE Clamp(DivCeil(size, MinChunk), 1, max_segments)

(* Mutant: the last range is as long as the others.                        *)
SplitRangesEven(size, n) ==
    LET chunk == size \div n
    IN  [i \in 1 .. n |-> <<(i - 1) * chunk, i * chunk - 1>>]

(* n inclusive ranges of equal length; the last one takes the remainder.   *)
SplitRanges(size, n) ==
    LET chunk == size \div n
    IN  [i \in 1 .. n |->
            <<(i - 1) * chunk, IF i = n THEN size - 1 ELSE i * chunk - 1>>]

(* The ranges are not empty, follow one another and cover 0 .. size - 1.   *)
Partitions(ranges, size, n) ==
    /\ ranges[1][1] = 0
    /\ ranges[n][2] = size - 1
    /\ \A i \in 1 .. n : ranges[i][1] <= ranges[i][2]
    /\ \A i \in 1 .. n - 1 : ranges[i + 1][1] = ranges[i][2] + 1
=============================================================================
