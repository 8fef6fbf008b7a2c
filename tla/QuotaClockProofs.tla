-------------------------- MODULE QuotaClockProofs --------------------------
(***************************************************************************)
(* What QuotaClock computes, for days of any length, any window and reset. *)
(* They are facts about the operators: there is no state.                  *)
(***************************************************************************)
EXTENDS QuotaClock, TLAPS

LEMMA FieldsTyped == \A f \in Fields : f \in Int /\ f < DayLength /\ f >= -1
  BY ClockAssumption DEF Fields, Unset

LEMMA ResetTyped ==
  ASSUME NEW reset \in Fields
  PROVE  /\ ResetMinute(reset) \in Int
         /\ 0 <= ResetMinute(reset) /\ ResetMinute(reset) < DayLength
         /\ ResetMinute(reset) \in 0..(DayLength - 1)
         /\ DayLength \in Int
  <1>1. reset \in Int /\ reset < DayLength BY FieldsTyped
  <1>2. DayLength \in Int /\ 0 < DayLength BY ClockAssumption
  <1>3. CASE reset < 0 BY <1>2, <1>3 DEF ResetMinute
  <1>4. CASE ~ (reset < 0) BY <1>1, <1>2, <1>4 DEF ResetMinute
  <1> QED BY <1>1, <1>3, <1>4

\* A moment is its date and its minute.
LEMMA Moments ==
  ASSUME NEW t \in Moment
  PROVE  /\ t.date \in Int /\ t.minute \in Int /\ 0 <= t.minute /\ t.minute < DayLength
         /\ \A minute : On(t, minute) = [date |-> t.date, minute |-> minute]
         /\ \A n \in Int : Days(t, n) = [date |-> t.date + n, minute |-> t.minute]
  BY ClockAssumption DEF Moment, On, Days

\* The three functions of the period, as date and minute.
LEMMA Starts ==
  ASSUME NEW reset \in Fields, NEW t \in Moment
  PROVE  PeriodStart(reset, t) =
           [date   |-> IF t.minute < ResetMinute(reset) THEN t.date - 1 ELSE t.date,
            minute |-> ResetMinute(reset)]
  <1> DEFINE m == ResetMinute(reset)
  <1>1. m \in Int /\ 0 <= m /\ m < DayLength /\ m \in 0..(DayLength - 1) /\ DayLength \in Int
    BY ResetTyped
  <1> HIDE DEF m
  <1>2. On(t, m) = [date |-> t.date, minute |-> m] /\ On(t, m) \in Moment
    BY <1>1, Moments DEF Moment
  <1>3. Days(On(t, m), -1) = [date |-> t.date - 1, minute |-> m]
    BY <1>2, Moments
  <1>4. Before(t, On(t, m)) <=> t.minute < m BY <1>1, <1>2, Moments DEF Before
  <1>5. PeriodStart(reset, t) = IF Before(t, On(t, m)) THEN Days(On(t, m), -1) ELSE On(t, m)
    BY DEF PeriodStart, m
  <1>6. PeriodStart(reset, t) =
          [date |-> IF t.minute < m THEN t.date - 1 ELSE t.date, minute |-> m]
    BY <1>2, <1>3, <1>4, <1>5
  <1> QED BY <1>6 DEF m

LEMMA Resets ==
  ASSUME NEW reset \in Fields, NEW t \in Moment
  PROVE  NextReset(reset, t) =
           [date   |-> IF t.minute < ResetMinute(reset) THEN t.date ELSE t.date + 1,
            minute |-> ResetMinute(reset)]
  <1> DEFINE m == ResetMinute(reset)
  <1>1. m \in Int /\ 0 <= m /\ m < DayLength /\ m \in 0..(DayLength - 1) /\ DayLength \in Int
    BY ResetTyped
  <1> HIDE DEF m
  <1>2. On(t, m) = [date |-> t.date, minute |-> m] /\ On(t, m) \in Moment
    BY <1>1, Moments DEF Moment
  <1>3. Days(On(t, m), 1) = [date |-> t.date + 1, minute |-> m]
    BY <1>2, Moments
  <1>4. Before(t, On(t, m)) <=> t.minute < m BY <1>1, <1>2, Moments DEF Before
  <1>5. NextReset(reset, t) = IF Before(t, On(t, m)) THEN On(t, m) ELSE Days(On(t, m), 1)
    BY DEF NextReset, m
  <1>6. NextReset(reset, t) =
          [date |-> IF t.minute < m THEN t.date ELSE t.date + 1, minute |-> m]
    BY <1>2, <1>3, <1>4, <1>5
  <1> QED BY <1>6 DEF m

LEMMA DayNames ==
  ASSUME NEW reset \in Fields, NEW t \in Moment
  PROVE  /\ Day(reset, t) = IF t.minute < ResetMinute(reset) THEN t.date - 1 ELSE t.date
         /\ Day(reset, t) \in Int
  BY Starts, Moments DEF Day

\* A period's name is that of the moments from its start to the next reset.
LEMMA NamesOwn ==
  ASSUME NEW reset \in Fields, NEW s \in Moment, NEW t \in Moment
  PROVE  Day(reset, t) = Day(reset, s) <=>
           AtMost(PeriodStart(reset, s), t) /\ Before(t, NextReset(reset, s))
  <1> DEFINE m == ResetMinute(reset)
  <1>1. m \in Int /\ 0 <= m /\ m < DayLength /\ DayLength \in Int BY ResetTyped
  <1>2. PeriodStart(reset, s) =
          [date |-> IF s.minute < m THEN s.date - 1 ELSE s.date, minute |-> m] BY Starts
  <1>3. NextReset(reset, s) =
          [date |-> IF s.minute < m THEN s.date ELSE s.date + 1, minute |-> m] BY Resets
  <1>4. /\ Day(reset, t) = IF t.minute < m THEN t.date - 1 ELSE t.date
        /\ Day(reset, s) = IF s.minute < m THEN s.date - 1 ELSE s.date
    BY DayNames
  <1> HIDE DEF m
  <1>5. /\ s.date \in Int /\ s.minute \in Int /\ t.date \in Int /\ t.minute \in Int BY Moments
  <1>6. /\ PeriodStart(reset, s).date = Day(reset, s) /\ PeriodStart(reset, s).minute = m
        /\ NextReset(reset, s).date = Day(reset, s) + 1 /\ NextReset(reset, s).minute = m
    BY <1>2, <1>3, <1>4, <1>5
  <1>7. Day(reset, s) \in Int BY DayNames
  <1>8. AtMost(PeriodStart(reset, s), t) <=>
          ~ (t.date < Day(reset, s) \/ (t.date = Day(reset, s) /\ t.minute < m))
    BY <1>6 DEF AtMost, Before
  <1>9. Before(t, NextReset(reset, s)) <=>
          \/ t.date < Day(reset, s) + 1
          \/ t.date = Day(reset, s) + 1 /\ t.minute < m
    BY <1>6 DEF Before
  <1>10. Day(reset, t) = Day(reset, s) <=>
           /\ ~ (t.date < Day(reset, s) \/ (t.date = Day(reset, s) /\ t.minute < m))
           /\ \/ t.date < Day(reset, s) + 1
              \/ t.date = Day(reset, s) + 1 /\ t.minute < m
    BY <1>4, <1>5, <1>7
  <1> QED BY <1>8, <1>9, <1>10

\* The minutes follow one another, and no moment lies between two of them.
LEMMA LaterIsNext ==
  ASSUME NEW t \in Moment
  PROVE  /\ Later(t) \in Moment /\ Before(t, Later(t))
         /\ \A u \in Moment : Before(t, u) => AtMost(Later(t), u)
  <1>1. DayLength \in Int /\ 0 < DayLength BY ClockAssumption
  <1>2. t.date \in Int /\ t.minute \in Int /\ 0 <= t.minute /\ t.minute < DayLength
    BY Moments
  <1>3. CASE t.minute + 1 < DayLength
    <2>1. Later(t) = [date |-> t.date, minute |-> t.minute + 1]
      BY <1>3 DEF Later, Moment
    <2> QED BY <1>1, <1>2, <1>3, <2>1, Moments DEF Moment, Before, AtMost
  <1>4. CASE ~ (t.minute + 1 < DayLength)
    <2>1. Later(t) = [date |-> t.date + 1, minute |-> 0] BY <1>4 DEF Later
    <2> QED BY <1>1, <1>2, <1>4, <2>1, Moments DEF Moment, Before, AtMost
  <1> QED BY <1>3, <1>4

----------------------------------------------------------------------------
(* The window.                                                             *)
LEMMA ClosedUntil ==
  ASSUME NEW s \in Schedules, NEW t \in Moment, s.enabled, ~Open(s, t)
  PROVE  LET next == NextOpen(s, t) IN
         /\ Before(t, next) /\ AtMost(next, Days(t, 1)) /\ Open(s, next)
         /\ next.date \in Int
         /\ \A u \in Moment : AtMost(t, u) /\ Before(u, next) => ~Open(s, u)
  <1>1. /\ s.start \in Int /\ s.end \in Int /\ s.start < DayLength /\ s.end < DayLength
        /\ DayLength \in Int
    BY FieldsTyped, ClockAssumption DEF Schedules
  <1>2. 0 <= s.start /\ 0 <= s.end /\ s.start # s.end
    BY <1>1 DEF Open, Unbounded
  <1>3. /\ s.start < s.end => t.minute < s.start \/ s.end <= t.minute
        /\ s.end < s.start => t.minute < s.start /\ s.end <= t.minute
    BY <1>1, <1>2, Moments DEF Open
  <1>4. /\ On(t, s.start) = [date |-> t.date, minute |-> s.start]
        /\ On(t, s.start) \in Moment
    BY <1>1, <1>2, Moments DEF Moment
  <1>5. Days(On(t, s.start), 1) = [date |-> t.date + 1, minute |-> s.start]
    BY <1>4, Moments
  <1>6. Before(t, On(t, s.start)) <=> t.minute < s.start
    BY <1>1, <1>4, Moments DEF Before
  <1>7. NextOpen(s, t) =
          [date |-> IF t.minute < s.start THEN t.date ELSE t.date + 1, minute |-> s.start]
    BY <1>1, <1>2, <1>4, <1>5, <1>6 DEF NextOpen
  <1> DEFINE next == NextOpen(s, t)
  <1>8. /\ next.date = IF t.minute < s.start THEN t.date ELSE t.date + 1
        /\ next.minute = s.start
    BY <1>7
  <1>9. Days(t, 1) = [date |-> t.date + 1, minute |-> t.minute] BY Moments
  <1> HIDE DEF next
  <1>10. t.date \in Int /\ t.minute \in Int BY Moments
  <1>11. Before(t, next) BY <1>1, <1>8, <1>10 DEF Before
  <1>12. AtMost(next, Days(t, 1)) BY <1>1, <1>8, <1>9, <1>10 DEF AtMost, Before
  <1>13. Open(s, next) BY <1>1, <1>2, <1>8 DEF Open
  <1>14. ASSUME NEW u \in Moment, AtMost(t, u), Before(u, next)  PROVE ~Open(s, u)
    <2>1. u.date \in Int /\ u.minute \in Int BY Moments
    <2>2. /\ t.date < u.date \/ (t.date = u.date /\ t.minute <= u.minute)
          /\ u.date < next.date \/ (u.date = next.date /\ u.minute < s.start)
      BY <1>8, <1>10, <1>14, <2>1 DEF AtMost, Before
    <2>3. /\ s.start < s.end => u.minute < s.start \/ s.end <= u.minute
          /\ s.end < s.start => u.minute < s.start /\ s.end <= u.minute
      BY <1>1, <1>2, <1>3, <1>8, <1>10, <2>1, <2>2
    <2> QED BY <1>1, <1>2, <2>1, <2>3 DEF Open, Unbounded
  <1>15. next.date \in Int BY <1>8, <1>10
  <1> QED BY <1>11, <1>12, <1>13, <1>14, <1>15 DEF next

----------------------------------------------------------------------------
(* The period.                                                             *)
LEMMA PeriodAt ==
  ASSUME NEW reset \in Fields, NEW t \in Moment
  PROVE  /\ AtMost(PeriodStart(reset, t), t) /\ Before(t, NextReset(reset, t))
         /\ NextReset(reset, t) = Days(PeriodStart(reset, t), 1)
         /\ PeriodStart(reset, t) \in Moment
  <1>1. AtMost(PeriodStart(reset, t), t) /\ Before(t, NextReset(reset, t)) BY NamesOwn
  <1>2. PeriodStart(reset, t) \in Moment
    BY Starts, ResetTyped, Moments DEF Moment
  <1>3. /\ PeriodStart(reset, t).date \in Int
        /\ PeriodStart(reset, t).date + 1 =
             IF t.minute < ResetMinute(reset) THEN t.date ELSE t.date + 1
        /\ PeriodStart(reset, t).minute = ResetMinute(reset)
    BY Starts, Moments
  <1>4. NextReset(reset, t) = Days(PeriodStart(reset, t), 1)
    BY <1>2, <1>3, Moments, Resets
  <1> QED BY <1>1, <1>2, <1>4

\* A period is one day from one ResetAt to the next, and its name is its own: the
\* counter is zeroed for another name and for no other reason (Quota.PeriodStart,
\* NextReset, Day).
THEOREM PeriodIsADay ==
  ASSUME NEW reset \in Fields, NEW s \in Moment
  PROVE  /\ AtMost(PeriodStart(reset, s), s) /\ Before(s, NextReset(reset, s))
         /\ NextReset(reset, s) = Days(PeriodStart(reset, s), 1)
         /\ \A t \in Moment : Day(reset, t) = Day(reset, s) <=>
              AtMost(PeriodStart(reset, s), t) /\ Before(t, NextReset(reset, s))
  <1>1. ASSUME NEW t \in Moment
        PROVE  Day(reset, t) = Day(reset, s) <=>
                 AtMost(PeriodStart(reset, s), t) /\ Before(t, NextReset(reset, s))
    BY NamesOwn
  <1> QED BY <1>1, PeriodAt

\* The counter turns over with the minute of ResetAt and at no other, once a day
\* (rollQuota, Quota.Day).
THEOREM TurnsAtReset ==
  ASSUME NEW reset \in Fields, NEW t \in Moment
  PROVE  Day(reset, Later(t)) # Day(reset, t) <=> Later(t) = NextReset(reset, t)
  <1> DEFINE next == NextReset(reset, t)
  <1>1. Later(t) \in Moment /\ Before(t, Later(t)) BY LaterIsNext
  <1>2. next \in Moment BY Resets, ResetTyped, Moments DEF Moment
  <1>3. Before(t, next) BY PeriodAt
  <1>4. AtMost(Later(t), next) BY <1>2, <1>3, LaterIsNext
  <1>5. AtMost(PeriodStart(reset, t), t) /\ PeriodStart(reset, t) \in Moment BY PeriodAt
  <1>6. Day(reset, Later(t)) = Day(reset, t) <=>
          AtMost(PeriodStart(reset, t), Later(t)) /\ Before(Later(t), next)
    BY <1>1, NamesOwn
  <1> HIDE DEF next
  <1>7. AtMost(PeriodStart(reset, t), Later(t))
    BY <1>1, <1>5, Moments DEF AtMost, Before
  <1>8. AtMost(Later(t), next) => (~Before(Later(t), next) <=> Later(t) = next)
    <2>1. /\ Later(t) = [date |-> Later(t).date, minute |-> Later(t).minute]
          /\ next = [date |-> next.date, minute |-> next.minute]
      BY <1>1, <1>2 DEF Moment
    <2> QED BY <1>1, <1>2, <2>1, Moments DEF AtMost, Before
  <1> QED BY <1>4, <1>6, <1>7, <1>8 DEF next
=============================================================================
