--------------------------- MODULE MCTransactions ---------------------------
(***************************************************************************)
(* Transactions across groups and snapshot transactions in one engine, on  *)
(* small instances.  A behaviour stays in the scene its first state picks. *)
(***************************************************************************)
EXTENDS TwoPhaseCommit, TLC

CONSTANTS c1, c2

CONSTANTS TxnClient, TKey, MaxTxns, MaxVersions, MaxProposed, MaxRestarts
VARIABLES path, versions, intents, txns, nextTxn, handles, proposals, clash, restarts
txnVars == <<path, versions, intents, txns, nextTxn, handles, proposals, clash, restarts>>
Txn == INSTANCE SnapshotTxn

CONSTANT Scenes     \* "groups", "snapshot"
VARIABLE scene

TransactionsInit ==
    /\ scene \in Scenes
    /\ Init
    /\ Txn!TxnInit
    /\ scene # "snapshot" => path = "engine"

TransactionsNext ==
    /\ UNCHANGED scene
    /\ \/ scene = "groups" /\ Next /\ UNCHANGED txnVars
       \/ scene = "snapshot" /\ Txn!TxnNext /\ UNCHANGED vars

TransactionsSpec == TransactionsInit /\ [][TransactionsNext]_<<scene, vars, txnVars>>

-----------------------------------------------------------------------------
(* Values for the constants.                                               *)

SoundConfigs == {[lateDecision |-> FALSE, tornPrepare |-> FALSE]}
LateConfigs == {[lateDecision |-> TRUE, tornPrepare |-> FALSE]}
TornConfigs == {[lateDecision |-> FALSE, tornPrepare |-> TRUE]}
Clients == {c1, c2}
TransactionSymmetry == Permutations(Nodes) \cup Permutations(Clients)

-----------------------------------------------------------------------------
(* The properties of snapshot transactions, in their scene.                *)

=============================================================================
