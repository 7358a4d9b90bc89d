SPECIFICATION PubFairSpec
CONSTANTS
  Attrs = {"x"}
  Retries = 1
  MaxTime = 4
  MaxErrors = 2
  MaxDrops = 2
INVARIANTS
  PublicationsInv
PROPERTIES
  OnlineInTheEnd
CHECK_DEADLOCK FALSE
