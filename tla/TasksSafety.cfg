CONSTANTS
  Tick = tick
  None = None
  Tasks = {k1}
  Callers = {c1, c2}
  TopicTasks = {k1}
  Kinds = {"once", "forever", "finite"}
  LastSlot = 1
  Edits = {"text", "disable", "reschedule", "unbind", "delete"}
  DueBatch = 1
  RecoveryBatch = 1
  MaxTime = 1
  MaxTopics = 2
  MaxEdits = 1
  MaxCrashes = 1
  TicksPerMinute = 2
  MinutesPerHour = 2
  HoursPerDay = 4
  FirstYear = 2027
  LastYear = 2031
  FirstWeekday = 5
  Schedules <- MCSchedules
  Zones <- MCZones
  Instants <- MCInstants
  Never = Never

SPECIFICATION Spec
INVARIANTS HistoryMatchesRuns NextRunIsFirstDue
PROPERTIES TerminalIsFinal TopicIsKept
CHECK_DEADLOCK FALSE
