CONSTANTS
  s1 = s1
  q1 = q1
  q2 = q2
  c1 = c1
  c2 = c2
  c3 = c3
  c4 = c4
  m1 = m1
  m2 = m2
  p1 = p1
  p2 = p2
  p3 = p3
  p4 = p4
  None = None
  Servers = {s1}
  Requests = {q1, q2}
  Ids = {c1, c2, c3, c4}
  Configs = {m1, m2}
  Ports <- MCPorts
  RconPorts <- MCRconPorts
  CreateInputs <- TwoFamilies
  MayCrash = TRUE
SYMMETRY Interchangeable
SPECIFICATION Spec
INVARIANT TypeOK
INVARIANT WorldKept
INVARIANT NoOrphansAtRest
PROPERTY RebuildMends
PROPERTY ImplementsRegistry
CHECK_DEADLOCK FALSE
