SPECIFICATION FairSpec
CONSTANTS
  Casters = {"c1", "c2"}
  Logger = "logger"
  Values = {1}
  Half = 2
  MaxItems = 1
  Heard = {"c1"}
  MaxMsgs = 2
  MaxPuts = 1
  MaxFaults = 1
INVARIANTS
  DataServiceInv
  NothingMislaid
PROPERTIES
  LoggedInTheEnd
  ServedInTheEnd
CHECK_DEADLOCK FALSE
