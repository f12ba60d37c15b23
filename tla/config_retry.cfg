CONSTANTS
  s1 = s1
  q1 = q1
  c1 = c1
  c2 = c2
  m1 = m1
  m2 = m2
  p1 = p1
  p2 = p2
  p3 = p3
  p4 = p4
  None = None
  Servers = {s1}
  Requests = {q1}
  Ids = {c1, c2}
  Configs = {m1, m2}
  Ports <- MCPorts
  RconPorts <- MCRconPorts
  CreateInputs <- OneJava
  MayCrash = FALSE
SPECIFICATION Spec
INVARIANT UnchangedMeansBuilt
CHECK_DEADLOCK FALSE
