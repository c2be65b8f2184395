--------------------------- MODULE MCTaskSchedule -----------------------------
(***************************************************************************)
(* An instance of TaskSchedule for TLC, checked along with ScheduledTasks:  *)
(* days of four hours and hours of two minutes, around a leap year.         *)
(***************************************************************************)
EXTENDS ScheduledTasks, TaskSchedule

At(d, hour, minute) == ((d * 4 + hour) * 2 + minute) * 2

Every == <<>>
Just(n) == <<[from |-> n, to |-> n, step |-> 1]>>
Cron(minute, hour, dayOfMonth, month, dayOfWeek) ==
  [kind |-> "cron",
   cron |-> [minute |-> minute, hour |-> hour, dayOfMonth |-> dayOfMonth, month |-> month,
             dayOfWeek |-> dayOfWeek]]

\* Yearly on the first day, in the hour the clocks are changed, on the last Sunday or the
\* 28th of a month, on weekends (with Sunday as 7), and on days that are rare.
CronTasks ==
  { Cron(Just(0), Just(0), Just(1), Just(1), Every),
    Cron(Just(1), Just(1), Every, Every, Every),
    Cron(Every, Just(3), Just(28), Every, Just(0)),
    Cron(<<[from |-> 0, to |-> 1, step |-> 2]>>, Just(2), Every, Every, <<[from |-> 6, to |-> 7, step |-> 1]>>),
    Cron(Just(0), Just(1), Just(29), Just(2), Every) }
\* A rule that ends, and one of another zone.
RuleTasks ==
  { [kind |-> "rrule", rule |-> [dtstart |-> "UTC", occurrences |-> {At(10, 0, 0), At(20, 0, 0)}]],
    [kind |-> "rrule", rule |-> [dtstart |-> Never, occurrences |-> {At(5, 1, 1), At(365, 0, 0)}]] }

UTC == [name |-> "UTC", changes |-> <<[from |-> 0, ahead |-> 0]>>]
\* Ahead by an hour in winter and by two in summer (the days of the changes of 2027).
Berlin == [name |-> "Berlin",
           changes |-> <<[from |-> 0, ahead |-> 4], [from |-> At(86, 1, 0), ahead |-> 8],
                         [from |-> At(303, 1, 0), ahead |-> 4]>>]

\* The changes of the clocks, the ends of months and years, and within a minute.
MCInstants ==
  {0, 1, At(58, 0, 1) + 1, At(85, 3, 1), At(86, 0, 1), At(302, 3, 0), At(303, 0, 1), At(303, 1, 0),
   At(365, 0, 0), At(424, 1, 0)}

MCSchedules == CronTasks \cup RuleTasks
MCZones == {UTC, Berlin}

\* Every time a task that is there is scheduled for is the first one after the last that its
\* schedule names (NextRunIsFirst, for the schedules, zones and instants above).
NextRunIsFirstDue == live # {} => NextRunIsFirst
================================================================================
