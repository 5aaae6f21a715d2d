------------------------------- MODULE NextRun -------------------------------
(***************************************************************************)
(* calculate_next_run of src/src/scheduler/service.py: when a schedule     *)
(* runs next.  A day is its number, Monday being 0 modulo 7; an instant is *)
(* a day and a time of day, in the one time zone of all schedules.         *)
(***************************************************************************)
EXTENDS Integers

CONSTANTS DayLength,   \* how finely the time of day is told
          LastMonth,   \* months are numbered from 0
          MonthStart   \* the first day of each month

ASSUME CalendarAssumption ==
  /\ DayLength \in Nat
  /\ LastMonth \in Nat
  /\ MonthStart \in [0 .. LastMonth -> Nat]
  /\ \A m, n \in 0 .. LastMonth : m < n => MonthStart[n] >= MonthStart[m] + 28

Time == 0 .. DayLength - 1

\* The days of the calendar.
Day == 0 .. MonthStart[LastMonth]

Instant == [day : Day, time : Time]

\* A date every month has (_validate_schedule of the configuration).
DayOfMonth == 1 .. 28

Plan == [interval : {"daily"}, time : Time]
          \cup [interval : {"weekly"}, time : Time, weekday : 0 .. 6]
          \cup [interval : {"monthly"}, time : Time, day : DayOfMonth]

\* a is earlier than b.
Earlier(a, b) == a.day < b.day \/ (a.day = b.day /\ a.time < b.time)

InMonth(day, m) == MonthStart[m] <= day /\ day < MonthStart[m + 1]

-----------------------------------------------------------------------------

OnDay(plan, day) == [day |-> day, time |-> plan.time]

\* The candidate of this day, week or month, unless it is not after now.
UnlessPast(candidate, now, step) ==
  IF Earlier(now, candidate) THEN candidate ELSE [candidate EXCEPT !.day = @ + step]

NextDaily(plan, now) == UnlessPast(OnDay(plan, now.day), now, 1)

DaysAhead(plan, now) == (plan.weekday - (now.day % 7)) % 7

NextWeekly(plan, now) ==
  UnlessPast(OnDay(plan, now.day + DaysAhead(plan, now)), now, 7)

\* The same date of the next month: the candidate's day is replaced.
NextMonthly(plan, now, m) ==
  UnlessPast(OnDay(plan, MonthStart[m] + plan.day - 1), now,
             MonthStart[m + 1] - MonthStart[m])

\* m is the month of now.
NextRun(plan, now, m) ==
  CASE plan.interval = "daily" -> NextDaily(plan, now)
    [] plan.interval = "weekly" -> NextWeekly(plan, now)
    [] plan.interval = "monthly" -> NextMonthly(plan, now, m)

-----------------------------------------------------------------------------
(* What is promised *)

\* The instants at which a plan runs.
Due(plan, i) ==
  /\ i.time = plan.time
  /\ plan.interval = "weekly" => i.day % 7 = plan.weekday
  /\ plan.interval = "monthly" =>
        \E m \in 0 .. LastMonth : i.day = MonthStart[m] + plan.day - 1

\* i is the first instant after now at which the plan runs.
FirstDue(plan, now, i) ==
  /\ Due(plan, i)
  /\ Earlier(now, i)
  /\ \A j \in Instant : Due(plan, j) /\ Earlier(now, j) => ~Earlier(j, i)

\* What the status of a schedule tells as its next run is the first instant after
\* now at which the schedule runs, at every moment of the calendar.
NextRunTrue ==
  \A plan \in Plan, now \in Instant, m \in 0 .. LastMonth - 1 :
    InMonth(now.day, m) => FirstDue(plan, now, NextRun(plan, now, m))
=============================================================================
