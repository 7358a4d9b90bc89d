SPECIFICATION Spec
CONSTANTS
  Own = {"o1", "o2"}
  Remote = {"r1", "r2"}
  Slots = {1, 2, 3}
  NoId = "none"
  NoSlot = 0
  MaxTime = 3
INVARIANTS
  ResultIsSent
  ExitsOnlyWhenFull
PROPERTIES
  FoundForASecond
CHECK_DEADLOCK FALSE
