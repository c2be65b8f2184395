CONSTANTS
  None = None
  Rejected = Rejected
  MaxRuns = 2
  MaxRefusals = 1
  MaxEarlyEnds = 0
  WithSteer = FALSE
  WithDispose = FALSE
  ReadsTakeTime = FALSE

SPECIFICATION FairSpec
PROPERTY EverySubmissionSettles
CHECK_DEADLOCK FALSE
