SPECIFICATION LocalSpec
CONSTANTS
  Nodes = {n1, n2}
  Adders = {n1}
  Watchers = {n2}
  Interval = 1
  MaxDelay = 1
  StartDelay = 0
  Mortal = {n1}
  MaxAdded = 1
  MaxCrashes = 2
  NULL = NULL
INVARIANTS
  LocalRegistryInv
PROPERTIES
  OwnEntryOnly
  NoFalseAlarm
  LastWordIsOffline
  RemovalIsNoticed
CHECK_DEADLOCK FALSE
