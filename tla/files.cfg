SPECIFICATION FilesSpec
CONSTANTS
  Scenes = {"engine", "wal", "sst", "encryption", "replica", "index", "feed", "ranges"}
  Keys = {1, 2}
  Configs <- SoundConfigs
  MaxWrites = 3
  MaxTables = 3

  WalConfigs <- LogConfigs
  MaxAppends = 5

  RestartInterval = 2
  SstKeys <- TableKeys
  SstPrefixes <- TablePrefixes
  SstOptions <- TableOptions
  SstVersions = 3
  SstHarms = {"block", "index", "footer", "cut"}

  DiskNames = {"f", "t"}
  Bytes = {1}
  MaxFileLen = 2
  MaxRotations = 1
  MaxDiskCalls = 5

  ReplicaKeys = {"a", "b"}
  Durabilities <- SafeModes
  MaxCommitted = 4
  MaxStops = 3
  MaxRefusals = 0

  PKey = {1, 2}
  PVal <- IndexValues
  Extractor <- SecondField
  BatchSize = 1
  MaxKeyLen = 1
  MaxIndexOps = 4
  MaxIndexCrashes = 1

  u1 = u1
  u2 = u2
  Consumer <- Consumers
  PollLimit = 2
  Durable = TRUE
  Cutoff = "checkpoint"
  MaxFeedWrites = 4
  MaxCrashes = 1

  Node = {u1, u2}
  BootTable <- Boot
  SplitKeys = {1}
  Targets = {1}
  MaxEdits = 3
  MaxMishaps = 1
SYMMETRY Symmetry
INVARIANTS
  ScanAgreesWithGet
  
  TableAnswersOrFails
  EncryptedReadsLikePlain
  ReplicaIsLogPrefix
  
  NothingSkipped
  OneLayoutPerEpoch 
PROPERTIES ImplementsStore JobsPreserveReads RecoversPrefix
CHECK_DEADLOCK FALSE
