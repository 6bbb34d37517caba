SPECIFICATION TransactionsSpec
CONSTANTS
    Scenes = {"groups"}
    n1 = n1
    n2 = n2
    Nodes = {n1, n2}
    Participants = {0, 1}
    Configs <- TornConfigs
    MaxCrashes = 1
    MaxSweeps = 1

    c1 = c1
    c2 = c2
    TxnClient <- Clients
    TKey = {1, 2}
    MaxTxns = 2
    MaxVersions = 2
    MaxProposed = 1
    MaxRestarts = 1
SYMMETRY TransactionSymmetry
INVARIANT CaughtUpReplicasAgree
CHECK_DEADLOCK FALSE
