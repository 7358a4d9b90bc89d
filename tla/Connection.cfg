SPECIFICATION ConnFairSpec
CONSTANTS
  Levels = {1}
  NumHosts = 2
  Height = 2
  MaxPending = 0
  MaxQueue = 0
  MaxChanges = 2
  MaxFaults = 1
INVARIANTS
  ConnectionInv
PROPERTIES
  NotGivenUpForAnother
  StartsInTheEnd
  FogInTheEnd
CHECK_DEADLOCK FALSE
