------------------------------ MODULE TaskSchedule ------------------------------
(***************************************************************************)
(* When a scheduled task runs next: one-off times, cron expressions and      *)
(* recurrence rules (scheduled-task-schedule.ts), as pure operators.         *)
(*                                                                          *)
(* An instant is a number of ticks of UTC since the first day of FirstYear.  *)
(* Hours and minutes are as many as the constants say, the calendar is the   *)
(* Gregorian one.  A time zone has a name and the sequence of its changes:   *)
(* from which instant on its clocks are how many ticks ahead of UTC.  A      *)
(* recurrence rule is what the rrule library makes of its text: the zone its *)
(* DTSTART names, if it has one, and the set of its occurrences.             *)
(***************************************************************************)
EXTENDS Integers, Sequences, FiniteSets

CONSTANTS
  TicksPerMinute, MinutesPerHour, HoursPerDay,
  FirstYear, LastYear, FirstWeekday,   \* of the calendar; Sunday is weekday 0
  Schedules, Zones, Instants,          \* what the properties range over
  Never                                \* null, or an error that is thrown

ASSUME ScheduleAssumption ==
  /\ TicksPerMinute \in Nat \ {0} /\ MinutesPerHour \in Nat \ {0} /\ HoursPerDay \in Nat \ {0}
  /\ FirstYear \in Nat /\ LastYear \in Nat /\ FirstWeekday \in 0..6
  /\ Instants \subseteq Nat /\ Never \notin Int

\* A recurrence rule is a record of its zone and its times.
ASSUME RulesAssumption ==
  \A s \in Schedules :
    /\ s.kind \in {"once", "cron", "rrule"}
    /\ s.kind = "rrule" =>
         /\ {"kind", "rule"} \subseteq DOMAIN s
         /\ {"dtstart", "occurrences"} \subseteq DOMAIN s.rule
         /\ s.rule.occurrences \subseteq Int

Minute == TicksPerMinute
Day == HoursPerDay * MinutesPerHour * Minute

--------------------------------------------------------------------------------
\* The calendar.

IsLeap(y) == y % 4 = 0 /\ (y % 100 # 0 \/ y % 400 = 0)
DaysBeforeYear(y) ==
  365 * (y - FirstYear) + Cardinality({x \in FirstYear..(y - 1) : IsLeap(x)})
Shorter == [m \in 1..13 |-> {x \in {4, 6, 9, 11} : x < m}]
DaysBeforeMonth(y, m) ==
  31 * (m - 1) - Cardinality(Shorter[m]) - (IF m <= 2 THEN 0 ELSE IF IsLeap(y) THEN 2 ELSE 3)

\* The date of a day of the calendar, counted from 0.
DateOf(d) ==
  LET y == CHOOSE y \in FirstYear..LastYear : DaysBeforeYear(y) <= d /\ d < DaysBeforeYear(y + 1)
      n == d - DaysBeforeYear(y)
      m == CHOOSE m \in 1..12 : DaysBeforeMonth(y, m) <= n /\ n < DaysBeforeMonth(y, m + 1)
  IN [month |-> m, dayOfMonth |-> n - DaysBeforeMonth(y, m) + 1,
      dayOfWeek |-> (FirstWeekday + d) % 7]
Calendar == [d \in 0..(DaysBeforeYear(LastYear + 1) - 1) |-> DateOf(d)]

\* Intl.DateTimeFormat.
Ahead(zone, t) ==
  LET in(i) == zone.changes[i].from <= t
  IN zone.changes[CHOOSE i \in 1..Len(zone.changes) :
                    in(i) /\ (i = Len(zone.changes) \/ ~in(i + 1))].ahead

\* getTimeZoneDateParts.
DateParts(t, zone) ==
  LET local == t + Ahead(zone, t)
      date == Calendar[local \div Day]
      minutes == (local % Day) \div Minute
  IN [minute |-> minutes % MinutesPerHour, hour |-> minutes \div MinutesPerHour,
      dayOfMonth |-> date.dayOfMonth, month |-> date.month, dayOfWeek |-> date.dayOfWeek]

--------------------------------------------------------------------------------
\* Cron expressions.  A field is "*" (the empty sequence) or the sequence of its segments,
\* [from, to, step]: a value, a range, or the full range of the field, and its step.

Options == [minute |-> [min |-> 0, max |-> MinutesPerHour - 1],
            hour |-> [min |-> 0, max |-> HoursPerDay - 1],
            dayOfMonth |-> [min |-> 1, max |-> 31],
            month |-> [min |-> 1, max |-> 12],
            dayOfWeek |-> [min |-> 0, max |-> 7]]
FieldNames == DOMAIN Options

\* parseCronField: whether every segment is accepted.
ValidField(field, options) ==
  \A i \in 1..Len(field) :
    /\ field[i].step > 0
    /\ options.min <= field[i].from /\ field[i].from <= field[i].to /\ field[i].to <= options.max

\* addCronSegmentValues, addRangeValues and normalizeCronValue; only weekdays have a 7
\* that stands for 0.
ValuesOf(name, segment) ==
  {IF name = "dayOfWeek" /\ v = 7 THEN 0 ELSE v :
     v \in {x \in segment.from..segment.to : (x - segment.from) % segment.step = 0}}

AllowsAll(field) == field = <<>>
MatchesField(name, field, value) ==
  AllowsAll(field) \/ \E i \in 1..Len(field) : value \in ValuesOf(name, field[i])

ValidCron(cron) == \A name \in FieldNames : ValidField(cron[name], Options[name])

\* matchesCron: when days are restricted both by month and by week, one is enough.
MatchesCron(cron, parts) ==
  LET in(name) == MatchesField(name, cron[name], parts[name]) IN
  /\ in("minute") /\ in("hour") /\ in("month")
  /\ IF AllowsAll(cron.dayOfMonth) \/ AllowsAll(cron.dayOfWeek)
     THEN in("dayOfMonth") /\ in("dayOfWeek")
     ELSE in("dayOfMonth") \/ in("dayOfWeek")

AlignToMinute(t) == (t \div Minute) * Minute

\* Mutant of SearchMinutes: a common year.
CommonYear == 365 * HoursPerDay * MinutesPerHour

\* maxCronSearchMinutes.
SearchMinutes == 366 * HoursPerDay * MinutesPerHour

\* The minute after that of from.
StartOfSearch(from) == AlignToMinute(from) + Minute

\* computeNextCronOccurrence: minute after minute.
NextCronOccurrence(cron, zone, from) ==
  LET start == StartOfSearch(from)
      matching(i) == MatchesCron(cron, DateParts(start + i * Minute, zone))
  IN IF \E i \in 0..(SearchMinutes - 1) : matching(i)
     THEN start + Minute * (CHOOSE i \in 0..(SearchMinutes - 1) :
                              matching(i) /\ \A j \in 0..(i - 1) : ~matching(j))
     ELSE Never

--------------------------------------------------------------------------------
\* Recurrence rules.

\* normalizeRRuleExpression, when a task is created or edited: a rule without DTSTART
\* gets one in the zone of the task, so that the library keeps to its clocks.
NormalizeRRule(rule, zone) ==
  IF rule.dtstart = Never THEN [rule EXCEPT !.dtstart = zone.name] ELSE rule

\* parseRRuleExpression.
ValidRRule(rule, zone) == rule.dtstart \in {Never, zone.name}

\* computeNextRRuleOccurrence: rule.after(from, false), or an error when there is none.
NextRRuleOccurrence(rule, from) ==
  LET later == {t \in rule.occurrences : t > from}
  IN IF later = {} THEN Never ELSE CHOOSE t \in later : \A u \in later : t <= u

--------------------------------------------------------------------------------
\* Schedules.

\* validateScheduleInput.
ValidSchedule(s, zone) ==
  CASE s.kind = "once" -> TRUE
    [] s.kind = "cron" -> ValidCron(s.cron)
    [] s.kind = "rrule" -> ValidRRule(s.rule, zone)

\* The schedule as createTask and updateTask store it.
Stored(s, zone) ==
  IF s.kind = "rrule" THEN [s EXCEPT !.rule = NormalizeRRule(@, zone)] ELSE s

NextOccurrence(s, zone, from) ==
  IF s.kind = "cron" THEN NextCronOccurrence(s.cron, zone, from)
                     ELSE NextRRuleOccurrence(s.rule, from)

\* computeInitialNextRunAt: a time that has passed is accepted for a one-off task.
InitialNextRunAt(s, zone, from) ==
  IF ~ValidSchedule(s, zone) THEN Never
  ELSE IF s.kind = "once" THEN s.at ELSE NextOccurrence(s, zone, from)

\* computeNextRunAfterOccurrence; Never when it throws.
NextRunAfterOccurrence(s, zone, from) ==
  IF s.kind = "once" THEN [enabled |-> FALSE, nextRunAt |-> Never]
  ELSE IF ~ValidSchedule(s, zone) \/ NextOccurrence(s, zone, from) = Never THEN Never
  ELSE [enabled |-> TRUE, nextRunAt |-> NextOccurrence(s, zone, from)]

--------------------------------------------------------------------------------
\* Properties.

\* Whether the clocks and the calendar of the zone call for a run at t.
DueAt(s, zone, t) ==
  CASE s.kind = "once" -> t = s.at
    [] s.kind = "cron" -> t % Minute = 0 /\ MatchesCron(s.cron, DateParts(t, zone))
    [] s.kind = "rrule" -> t \in s.rule.occurrences

\* The same time of UTC a year later, which is a day later when a 29 February comes between.
YearAfter(t) ==
  LET leapDay(d) == Calendar[d].month = 2 /\ Calendar[d].dayOfMonth = 29
  IN t + (IF \E d \in (t \div Day + 1)..(t \div Day + 365) : leapDay(d) THEN 366 ELSE 365) * Day

\* A recurring task runs at every time its schedule names and at no other: the next run is
\* the first such time after the given one, strictly, through changes of the clocks and leap
\* years, for a new task and after an occurrence; and computing it fails only when there is
\* none for a year of UTC.  (A year of the zone may be an hour longer than the search.)
NextRunIsFirst ==
  \A x \in Schedules, zone \in Zones, from \in Instants :
    LET s == Stored(x, zone)
        first == InitialNextRunAt(s, zone, from)
        nothingDue(a, b) == \A t \in a..b : ~DueAt(s, zone, t)
    IN x.kind # "once" /\ ValidSchedule(s, zone) =>
         /\ NextRunAfterOccurrence(s, zone, from) =
              IF first = Never THEN Never ELSE [enabled |-> TRUE, nextRunAt |-> first]
         /\ IF first = Never
            THEN nothingDue(from + 1, YearAfter(from))
            ELSE first > from /\ DueAt(s, zone, first) /\ nothingDue(from + 1, first - 1)
================================================================================
