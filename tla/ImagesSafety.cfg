CONSTANTS
  NoRun = NoRun
  s1 = s1
  s2 = s2
  a1 = a1
  Updates = 3
  Scopes = {s1, s2}
  Sendings <- MCSendings
  Apis = {a1}
  ApiImages = 1
  MaxInputImageCount = 2
  Ttl = 2
  MaxNow = 2
  MaxFaults = 1

SPECIFICATION Spec
INVARIANTS AttachOrder
PROPERTIES LeavesDeliveredOrExpired PromptHasClaimedImages
