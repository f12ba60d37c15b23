CONSTANTS
  j1 = j1
  j2 = j2
  s1 = s1
  s2 = s2
  c1 = c1
  c2 = c2
  Jars = {j1, j2}
  Packs = {s1, s2}
  Contents = {c1, c2}
  Short = Short
  Own = Own
  NoSha = NoSha
  Absent = Absent
SPECIFICATION Spec
INVARIANT TypeOK
INVARIANT LaunchIsComplete
INVARIANT CleanSyncMirrors
PROPERTY PacksAreThePlayers
PROPERTY ImplementsMirror
PROPERTY EachStepCounts
PROPERTY SyncEnds
