SPECIFICATION Spec
CONSTANTS
  s1 = s1
  s2 = s2
  s3 = s3
  v1 = v1
  Server = {s1, s2, s3}
  Value = {v1}
  Nil = Nil
  Noop = Noop
  SnapshotInterval = 100
  MaxElections = 2
  MaxHeartbeats = 1
  MaxTransfers = 0
  MaxRestarts = 0
  MaxReads = 0
  MaxLog = 2
PROPERTIES AckIsHonest
