CONSTANTS
  s1 = s1  s2 = s2  p1 = p1  p2 = p2  k1 = k1  k2 = k2
  Sessions <- MCSessions
  Processes = {p1, p2}
  ProcessOf <- TwoProcesses
  Stamps = {t1}
  Inodes = {i1, i2, i3}
  Keys <- OneKey
  Kinds <- MCKinds
  KindOf <- MCKindOf
  Values = {v1}
  NoRecord = NoRecord
  NoFile = NoFile
  Empty = Empty
  Garbled = Garbled
  Readers = {}
  Absent = Absent
  Damaged = Damaged
  NotOpen = NotOpen
SPECIFICATION FairApartSpec
PROPERTIES RewrittenAtomically ImplementsSnapshotCache CallsEnd
CHECK_DEADLOCK FALSE
