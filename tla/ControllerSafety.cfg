CONSTANTS
  None = None
  Rejected = Rejected
  MaxRuns = 4
  MaxRefusals = 1
  MaxEarlyEnds = 2
  WithSteer = TRUE
  WithDispose = TRUE
  ReadsTakeTime = TRUE

SPECIFICATION FairSpec
INVARIANTS BusyMeansInFlight AnswersInOrder
PROPERTY SettlesUnlessRefused
CHECK_DEADLOCK FALSE
