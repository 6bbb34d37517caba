SPECIFICATION RepairSpec
CONSTANTS
  Scenes = {"link", "client"}
  v1 = v1
  Server = {lead, back, rest}
  Leader = lead
  Follower = back
  Third = rest
  Epoch = 3
  Value = {v1}
  Nil = Nil
  Noop = Noop
  LeaderLogs <- ShortLogs
  FollowerLogs <- OldLogs
  MaxInFlight = 3
  SnapshotInterval = 100
  MaxElections = 0
  MaxHeartbeats = 0
  MaxTransfers = 0
  MaxRestarts = 0
  MaxReads = 0
  MaxLog = 4

  s1 = s1
  s2 = s2
  CNode = {s1, s2}
  FirstAddr = s1
  Layouts <- OneSplit
  DataKeys = {0, 1}
  MaxRedirects = 2
  MaxAttempts = 2
  Quiet = FALSE
  MaxOps = 2
  MaxLeaderChanges = 1
PROPERTIES FollowerIsRepaired OpsReturn
