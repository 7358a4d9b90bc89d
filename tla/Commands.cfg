SPECIFICATION Spec
CONSTANTS
  Half = 2
  MaxSafe = 5
  Texts = {text}
  Wholes <- MCWholes
  Fractions = {fraction}
  Specials = {special}
  Kinds = {"async", "sync", "own"}
  MaxArgs = 1
  MaxAttempts = 3
  MaxFaults = 2
INVARIANTS
  SafeIfSentOnce
  FreedWhenOver
  EchoIsExact
CHECK_DEADLOCK FALSE
