----------------------------- MODULE QuotaClock -----------------------------
(***************************************************************************)
(* The wall clock and what hangs on it: the window in which files may be   *)
(* started, and the quota period.                                          *)
(*                                                                         *)
(* A moment is a date and a minute of the day, as time.Date and AddDate    *)
(* have it; seconds, and days of another length, are left out.  Dates are  *)
(* counted; only which of two is later matters.                            *)
(***************************************************************************)
EXTENDS Integers

CONSTANT DayLength  (* minutes of a day *)

ASSUME ClockAssumption == DayLength \in Nat \ {0}

Moment == [date: Int, minute: 0..(DayLength - 1)]
Never == [date |-> -1, minute |-> 0]

\* What minutesOfDay makes of a field; an empty one is Unset.
Unset == -1
Fields == Unset..(DayLength - 1)
Schedules == [enabled: BOOLEAN, start: Fields, end: Fields]

----------------------------------------------------------------------------
(* Moments.                                                                *)
Before(s, t) == s.date < t.date \/ (s.date = t.date /\ s.minute < t.minute)
AtMost(s, t) == ~ Before(t, s)

\* time.Date with the date of t; AddDate.
On(t, minute) == [date |-> t.date, minute |-> minute]
Days(t, n) == [t EXCEPT !.date = @ + n]

\* A minute later.
Later(t) == IF t.minute + 1 < DayLength THEN [t EXCEPT !.minute = @ + 1]
            ELSE [date |-> t.date + 1, minute |-> 0]

----------------------------------------------------------------------------
(* The schedule.                                                           *)
Unbounded(s) == s.start < 0 \/ s.end < 0 \/ s.start = s.end

\* Mutant: the union of the two ranges forgets that the window wraps.
OpenUnwrapped(s, t) ==
  /\ s.enabled
  /\ Unbounded(s) \/ (t.minute >= s.start /\ t.minute < s.end)
\* Schedule.Open
Open(s, t) ==
  /\ s.enabled
  /\ \/ Unbounded(s)
     \/ s.start < s.end /\ t.minute >= s.start /\ t.minute < s.end
     \/ s.start >= s.end /\ (t.minute >= s.start \/ t.minute < s.end)

\* Schedule.NextOpen; Never stands for the zero time.
NextOpen(s, t) ==
  IF ~s.enabled \/ Open(s, t) \/ s.start < 0 THEN Never
  ELSE LET candidate == On(t, s.start) IN
    IF Before(t, candidate) THEN candidate ELSE Days(candidate, 1)

----------------------------------------------------------------------------
(* The quota period.                                                       *)
ResetMinute(reset) == IF reset < 0 THEN 0 ELSE reset

\* Quota.PeriodStart
PeriodStart(reset, t) == LET start == On(t, ResetMinute(reset)) IN
  IF Before(t, start) THEN Days(start, -1) ELSE start

\* Quota.Day
Day(reset, t) == PeriodStart(reset, t).date

\* Quota.NextReset
NextReset(reset, t) == LET candidate == On(t, ResetMinute(reset)) IN
  IF Before(t, candidate) THEN candidate ELSE Days(candidate, 1)
=============================================================================
