CONSTANTS
  q1 = q1
  q2 = q2
  Requests = {q1, q2}
  Keep = 1
  MaxVersion = 2
  MaxClock = 1
  MaxUser = 1
  MaxCrashes = 1
  Torn = Torn
  Partial = Partial
  None = None
SYMMETRY Interchangeable
SPECIFICATION Spec
INVARIANT TypeOK
PROPERTY WipedIsKept
PROPERTY UserBackupsStay
PROPERTY WayBackWithRoom
CHECK_DEADLOCK FALSE
