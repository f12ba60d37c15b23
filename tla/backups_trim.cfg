CONSTANTS
  q1 = q1
  Requests = {q1}
  Keep = 2
  MaxVersion = 3
  MaxClock = 2
  MaxUser = 1
  MaxCrashes = 0
  Torn = Torn
  Partial = Partial
  None = None
SYMMETRY Interchangeable
SPECIFICATION Spec
PROPERTY InstallHasWayBack
CHECK_DEADLOCK FALSE
