CONSTANTS
  q1 = q1
  Requests = {q1}
  Keep = 2
  MaxVersion = 2
  MaxClock = 1
  MaxUser = 1
  MaxCrashes = 0
  Torn = Torn
  Partial = Partial
  None = None
SYMMETRY Interchangeable
SPECIFICATION Spec
PROPERTY RestoreIsQuiet
CHECK_DEADLOCK FALSE
