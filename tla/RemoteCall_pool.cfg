CONSTANTS
  NumThreads = 2
  Callers = {c1, c2}
  Kinds = {"sync", "async", "missing", "lexec", "remote"}
  Heights = {2}
  ReplyKinds = {"ACK", "NAK"}
  MaxActs = 3
  MaxReplies = 1
SYMMETRY CallersAreAlike
SPECIFICATION Spec
INVARIANTS TimersFollowThreads NoForgottenSyncCaller PoolIsWholeAgain
PROPERTIES ImplementsThreadPool
CHECK_DEADLOCK FALSE
