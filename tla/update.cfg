CONSTANTS
  linux = linux
  w1 = w1
  w2 = w2
  Platforms = {linux}
  Mine = linux
  Windows = {w1, w2}
  MaxVersion = 2
  NoBuild = TRUE
  Hole = Hole
  None = None
SYMMETRY Interchangeable
SPECIFICATION Spec
INVARIANT TypeOK
INVARIANT ExeWhole
PROPERTY RestartsVerified
PROPERTY ImplementsUpdate
CHECK_DEADLOCK FALSE
