----------------------------- MODULE MCScheduler -----------------------------
(***************************************************************************)
(* Instances of Scheduler for TLC. The copies of jobs carry no plan here:  *)
(* the scheduler never looks at it.                                        *)
(***************************************************************************)
EXTENDS Scheduler, TLC

CONSTANTS j1, j2, j3

Symmetric == Permutations(Jobs)

Window == INSTANCE ScheduleWindow

(* is_within against its reference, for a day of 24 hours.                 *)
ASSUME WindowsAgree ==
    \A win \in Window!Windows(0 .. 23, {"Sat", "Mon"}), time \in 0 .. 23 :
        Window!is_within(time, "Sat", win) <=>
            (win.days = {} \/ "Sat" \in win.days) /\ Window!InArc(time, win, 24)
=============================================================================
