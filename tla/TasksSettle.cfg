CONSTANTS
  Tick = tick
  None = None
  Tasks = {k1, k2}
  Callers = {}
  TopicTasks = {k1}
  Kinds = {"forever"}
  LastSlot = 1
  Edits = {"text", "disable", "reschedule", "unbind", "delete"}
  DueBatch = 2
  RecoveryBatch = 1
  MaxTime = 1
  MaxTopics = 2
  MaxEdits = 2
  MaxCrashes = 1

SPECIFICATION FairSpec
INVARIANTS FailuresExplained TickRejectsOnlyFor
PROPERTIES NoOccurrenceSkipped EveryOccurrenceSettles EveryDueTaskIsClaimed
CHECK_DEADLOCK FALSE
