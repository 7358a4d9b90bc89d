SPECIFICATION FairSpec
CONSTANTS
  Subs = {s1, s2}
  Wild = {s2}
  Retries = 1
  QoS = 1
  MaxVersion = 2
  MaxErrors = 1
  MaxDrops = 2
INVARIANTS
  SubscriptionsInv
PROPERTIES
  ToldInTheEnd
CHECK_DEADLOCK FALSE
