CONSTANTS
  t1 = t1
  t2 = t2
  r1 = r1
  r2 = r2
  None = None
  Threads = {t1, t2}
  TextRuns = {r1}
  TaskRuns = {r2}
  ThreadOf <- TwoThreads
  MaxDeliveries = 2
  MaxCancels = 1
  NL = NL
  MessageLimits = {2, 3, 5}
  InlineChars = 3
  InlineLines = 2
  Answers <- MCAnswers
  Texts <- MCTexts

SPECIFICATION FairSpec
INVARIANTS AnswersArriveWhole SilencedOnlyByItsThread OneDeliveryPerRun LeftoversAreLate
PROPERTIES StopReturns
CHECK_DEADLOCK FALSE
