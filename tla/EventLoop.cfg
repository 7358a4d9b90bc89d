CONSTANTS
  Acts = {a1, a2}
  CacheSize = 1
  OdMax = 3
  OdMin = 1
  OdDown = 3
  OdUp = 1
  MaxSeen = 4
  Levels = {"device", "fog"}
  MsgKinds = {"ASY", "SYN", "GO"}
  NumThreads = 1
  MaxMsgs = 4
SPECIFICATION FairSpec
INVARIANTS TokensAreCovered NothingSwallowed NoEarlyRepeat
PROPERTY AllHandled
CHECK_DEADLOCK FALSE
