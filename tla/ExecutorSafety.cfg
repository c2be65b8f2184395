CONSTANTS
  None = None
  Executions = {e1, e2}
  Readers = {s1}
  Resets = {r1, r2}
  MaxSessions = 3
  MaxFiles = 3
  MaxTimeouts = 1
  MaxRestarts = 1
  MaxFilesPerCall = 3
  MaxCaption = 1
  PhotoMax = 1
  DocumentMax = 2
  GroupMax = 2
  RetryAttempts = 2
  Requests <- MCRequests
  Networks <- MCNetworks

SPECIFICATION FairSpec
INVARIANTS ReportsWhatWasSent OneSession ResetForgets RowFollowsSession
PROPERTY EveryExecutionSettles
CHECK_DEADLOCK FALSE
