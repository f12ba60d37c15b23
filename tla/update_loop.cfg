CONSTANTS
  linux = linux
  macos = macos
  w1 = w1
  Platforms = {linux, macos}
  Mine = linux
  Windows = {w1}
  MaxVersion = 2
  NoBuild = FALSE
  Hole = Hole
  None = None
SPECIFICATION Spec
PROPERTY EachRestartIsNewer
CHECK_DEADLOCK FALSE
