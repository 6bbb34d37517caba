SPECIFICATION ClusterSpec
CONSTANTS
  Scenes = {"persistence", "membership", "clock"}
  s1 = s1
  s2 = s2
  s3 = s3
  v1 = v1
  Server = {s1, s2, s3}
  Value = {v1}
  Nil = Nil
  Noop = Noop
  SnapshotInterval = 2
  MaxElections = 1
  MaxHeartbeats = 0
  MaxTransfers = 1
  MaxRestarts = 1
  MaxReads = 0
  MaxLog = 2
  CrashPhases = {"saved"}

  n4 = n4
  BootVoters = {s1, s2, s3}
  Joiners <- NewNodes
  Plans <- SafePlans

  LogicalMax = 7
  MaxOffset = 2
  RemoteLogicals = {0, 1}
  MaxWall = 3
  MaxSamples = 2
  MaxCommits = 3
SYMMETRY Symmetry
INVARIANTS
   
  CommitWaitsForClock
PROPERTIES ImplementsCluster
