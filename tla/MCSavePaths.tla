----------------------------- MODULE MCSavePaths -----------------------------
(***************************************************************************)
(* The instance of SavePaths for TLC.                                      *)
(***************************************************************************)
EXTENDS SavePaths, TLC

CONSTANTS j1, j2, directory, category

(* "x" of a known type with a path that is not accepted, and "x.part" with *)
(* the folder of the category.                                             *)
Samples ==
    {[pick |-> "unsafe", typed |-> TRUE, part |-> 0],
     [pick |-> category, typed |-> FALSE, part |-> 1]}

(* "x", in the folder of the category.                                     *)
PersonsNames == {[dir |-> category, copy |-> 0, part |-> 0]}

Symmetric == Permutations(Jobs)
=============================================================================
