CONSTANTS
  None = None
  Rejected = Rejected
  MaxRuns = 3
  MaxRefusals = 0
  MaxEarlyEnds = 0
  WithSteer = TRUE
  WithDispose = FALSE
  ReadsTakeTime = FALSE

SPECIFICATION Spec
INVARIANT AnswersOwnMessage
CHECK_DEADLOCK FALSE
