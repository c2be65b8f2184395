CONSTANTS
  t1 = t1
  t2 = t2
  hello = hello
  bye = bye
  k1 = k1
  Threads = {t1, t2}
  Payloads = {hello, bye}
  Keys = {k1}
  NoKey = NoKey
  NoMessage = NoMessage
  Rejected = Rejected
  Messages <- KeyReuse
  MaxRuns = 2
  RecoveryLimit = 1
  MaxStops = 2
  MaxFaults = 1

SPECIFICATION FairSpec
INVARIANTS NoOverlap AnnouncedIsPersisted RepliesConsistent QuietWhenClosed
PROPERTIES ImplementsLedger ThreadOrder EveryRunSettles
