CONSTANTS
  NumThreads = 1
  Callers = {c1, c2}
  Kinds = {"sync", "async", "lexec"}
  Heights = {1, 3}
  ReplyKinds = {"ACK", "RES"}
  MaxActs = 2
  MaxReplies = 2
SPECIFICATION FairSpec
PROPERTY SyncCallReturns
CHECK_DEADLOCK FALSE
