SPECIFICATION Spec
CONSTANTS
  EliminateDuplicates = TRUE
  MaxTime = 3
  MaxFaults = 2
INVARIANTS
  RegistrarInv
  OnAirIsWanted
  
PROPERTIES
  NoStepBack
CHECK_DEADLOCK FALSE
