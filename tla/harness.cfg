SPECIFICATION HarnessSpec
CONSTANTS
  Scenes = {"wire", "connection", "handle", "linear", "import", "simulator", "workload", "bank", "faults"}
  MaxFrame = 110
  MaxEntries = 2
  MaxCommand = 4
  MaxScan = 2
  MaxPayload = 48
  Batches <- Frames
  Cuts <- CutBytes

  Langs = {"rust", "go", "ts", "py"}
  Calls = 3
  MaxTries = 2
  MaxHops = 1
  MaxSockets = 6
  Breaks = 2
  Overlapping = FALSE

  TKeys = {"x", "y"}
  TValues = {"v", "w"}
  TxnTries = 2
  TxnLosses = 2
  TxnSteps = 4

  LinKeys = {"a", "b"}
  LinValues = {"v"}
  LinClients = {1, 2, 3}
  LinOps = 3
  WglMaxOps = 14
  MayLie = TRUE
  MaxFailures = 1

  WglLines <- HistoryLines
  WglMaxLines = 3
  TickTop = 15
  ClientTop = 7

  SimKeys = {"a", "b"}
  SimValues = {"v"}
  MaxOperations = 4
  GlobalProbes = 1
  Faults = {"lose", "misread", "fail"}

  JClients = {1, 2}
  Settings <- WorkloadSettings
  MaxAttempts = 2
  MaxLate = 1

  Accounts = {1, 2, 3}
  Tellers = {1, 2}
  InitialBalance = 2
  Amounts = {1, 2}
  MaxTransfers = 3
  MaxAudits = 2

  ScenarioIds = {"smoke", "rich", "t1", "t2", "t3", "t4", "t5", "t6", "t7", "bank", "bank-mr", "bank-mr-move"}
  MaxCycles = 2
  LeaderMoves = FALSE
INVARIANTS
  FramesArriveAsSent RepliesAreOwn CommitStoresBuffer
   ImportIsFaithful
   AuditIsRight UndoIsQueued
 
CHECK_DEADLOCK FALSE
