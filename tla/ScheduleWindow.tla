-------------------------- MODULE ScheduleWindow --------------------------
(***************************************************************************)
(* is_within of config/settings.rs: may downloads start at this time of    *)
(* day? A time is a natural below the length of the day. No code gives the *)
(* scheduler a window yet, so SchedulerTask leaves it out.                 *)
(***************************************************************************)
EXTENDS Integers, TLAPS

Windows(Times, Weekdays) ==
    [start : Times, end : Times, days : SUBSET Weekdays]

is_within(time, weekday, win) ==
    /\ win.days = {} \/ weekday \in win.days
    /\ IF win.start <= win.end THEN win.start <= time /\ time < win.end
                               ELSE win.start <= time \/ time < win.end

(* How long the clock takes from a to b, past midnight if need be.         *)
Until(a, b, day) == (b - a) % day

(* The reference: seen from its start, the time comes before the end.      *)
InArc(time, win, day) ==
    Until(win.start, time, day) < Until(win.start, win.end, day)

(* The remainder of a difference of two times of day.                      *)
LEMMA UntilIs ==
    ASSUME NEW day \in Nat \ {0}, NEW a \in 0 .. day - 1, NEW b \in 0 .. day - 1
    PROVE  Until(a, b, day) = IF a <= b THEN b - a ELSE b - a + day
BY SMT DEF Until

(* is_within is the stretch of the clock's circle from start up to end,    *)
(* whether or not midnight is inside ("handles overnight windows"), on the *)
(* days it allows.                                                         *)
THEOREM WindowIsArc ==
    ASSUME NEW day \in Nat \ {0}, NEW Weekdays,
           NEW win \in Windows(0 .. day - 1, Weekdays),
           NEW time \in 0 .. day - 1, NEW weekday \in Weekdays
    PROVE  is_within(time, weekday, win) <=>
               (win.days = {} \/ weekday \in win.days) /\ InArc(time, win, day)
<1>1. win.start \in 0 .. day - 1 /\ win.end \in 0 .. day - 1
  BY DEF Windows
<1>2. Until(win.start, time, day) =
          IF win.start <= time THEN time - win.start ELSE time - win.start + day
  BY <1>1, UntilIs
<1>3. Until(win.start, win.end, day) =
          IF win.start <= win.end THEN win.end - win.start ELSE win.end - win.start + day
  BY <1>1, UntilIs
<1> QED
  BY <1>1, <1>2, <1>3 DEF is_within, InArc

(* A window opens once a day, at its start: the minute before is outside.  *)
THEOREM OpensAtStart ==
    ASSUME NEW day \in Nat \ {0}, NEW Weekdays,
           NEW win \in Windows(0 .. day - 1, Weekdays), win.days = {},
           NEW time \in 0 .. day - 1, NEW weekday \in Weekdays,
           is_within(time, weekday, win),
           ~ is_within((time - 1) % day, weekday, win)
    PROVE  time = win.start
<1>1. win.start \in 0 .. day - 1 /\ win.end \in 0 .. day - 1
  BY DEF Windows
<1>2. (time - 1) % day = IF time = 0 THEN day - 1 ELSE time - 1
  BY SMT
<1> QED
  BY <1>1, <1>2 DEF is_within
=============================================================================
