SPECIFICATION FairSpec
CONSTANTS
  Clients = {c1, c2, c3}
  Periodic = {c3}
  MaxTicks = 2
  MaxQueue = 3
  MaxEvents = 4
  NULL = NULL
INVARIANTS
  NoOverrun
  NothingOutOfSight
PROPERTIES
  TableIsAService
  WokenOnceQuiet
