CONSTANTS
  None = None
  Chats = {c1}
  Clients = {h1}
  Providers = {p1, p2}
  MaxAttempts = 2
  Ttl = 0
  MaxStarts = 2
  MaxAsks = 2
  MaxNow = 1

SPECIFICATION FairSpec
INVARIANTS ShownPromptIsCurrent NoPromptDangles
PROPERTIES AttemptsMoveOn CancelEndsLogin
CHECK_DEADLOCK FALSE
