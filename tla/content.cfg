CONSTANTS
  e1 = e1
  e2 = e2
  e3 = e3
  n1 = n1
  n2 = n2
  a = a
  b = b
  v = v
  r1 = r1
  r2 = r2
  Entries = {e1, e2, e3}
  Mods = {n1, n2}
  Parallel = 2
  Plugins = {a, b}
  Builds = {v}
  Requests = {r1, r2}
  MayCrash = TRUE
  Torn = Torn
  None = None
SYMMETRY Interchangeable
SPECIFICATION Spec
INVARIANT TypeOK
INVARIANT HalvesAreStreamed
INVARIANT UpdateKeepsOne
INVARIANT BootsWithThePack
CHECK_DEADLOCK FALSE
