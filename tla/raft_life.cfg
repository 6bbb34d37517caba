SPECIFICATION Spec
CONSTANTS
  s1 = s1
  s2 = s2
  s3 = s3
  v1 = v1
  Server = {s1, s2, s3}
  Value = {v1}
  Nil = Nil
  Noop = Noop
  SnapshotInterval = 100
  MaxElections = 1
  MaxHeartbeats = 1
  MaxTransfers = 1
  MaxRestarts = 1
  MaxReads = 1
  MaxLog = 2
SYMMETRY Symmetry
INVARIANTS StateMachineSafety
PROPERTIES VoteIsFinal
