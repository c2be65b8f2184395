CONSTANTS
  Tick = tick
  None = None
  Tasks = {k1}
  Callers = {}
  TopicTasks = {k1}
  Kinds = {"finite"}
  LastSlot = 1
  Edits = {}
  DueBatch = 1
  RecoveryBatch = 1
  MaxTime = 1
  MaxTopics = 1
  MaxEdits = 0
  MaxCrashes = 0

SPECIFICATION FairSpec
PROPERTY EveryOccurrenceSettles
CHECK_DEADLOCK FALSE
