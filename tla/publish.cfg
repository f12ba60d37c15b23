CONSTANTS
  cdn = cdn
  own = own
  Jars = {cdn, own}
  Manifest = {cdn}
  p1 = p1
  p2 = p2
  Publishers = {p1, p2}
  MaxVersion = 2
  Absent = Absent
  Torn = Torn
  NoSha = NoSha
SYMMETRY Interchangeable
SPECIFICATION Spec
INVARIANT TypeOK
INVARIANT PublishedComplete
INVARIANT PurgeKeepsServed
CHECK_DEADLOCK FALSE
