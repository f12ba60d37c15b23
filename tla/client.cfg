CONSTANTS
  w1 = w1
  w2 = w2
  t1 = t1
  t2 = t2
  s1 = s1
  s2 = s2
  p1 = p1
  p2 = p2
  Windows = {w1, w2}
  Workers = {t1, t2}
  Duties <- EitherDuty
  Servers = {s1, s2}
  Ports = {p1, p2}
  Preferred = p1
  Attempts = 3
  Empty = Empty
  Torn = Torn
  Discover = Discover
  None = None
SYMMETRY Interchangeable
SPECIFICATION Spec
INVARIANT TypeOK
INVARIANT OnePlay
INVARIANT HeaderMatchesPin
INVARIANT LaunchReachesItsServer
CHECK_DEADLOCK FALSE
