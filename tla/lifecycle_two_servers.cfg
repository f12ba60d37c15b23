CONSTANTS
  s1 = s1
  s2 = s2
  q1 = q1
  q2 = q2
  c1 = c1
  c2 = c2
  m1 = m1
  p1 = p1
  p2 = p2
  p3 = p3
  p4 = p4
  None = None
  Servers = {s1, s2}
  Requests = {q1, q2}
  Ids = {c1, c2}
  Configs = {m1}
  Ports <- MCPorts
  RconPorts <- MCRconPorts
  CreateInputs <- RconContended
  MayCrash = FALSE
SYMMETRY Interchangeable
SPECIFICATION Spec
INVARIANT SharedPortsOverlapped
INVARIANT IdsNeverCross
CHECK_DEADLOCK FALSE
