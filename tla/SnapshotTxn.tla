----------------------------- MODULE SnapshotTxn ----------------------------
(***************************************************************************)
(* Snapshot-isolation transactions: the intent tables of kaya-engine       *)
(* (txn.rs), the TXN_* operations of cluster/client_ops.rs, and the        *)
(* Transaction handle of kaya-client.                                      *)
(*                                                                         *)
(* There are two ways to commit.  The engine's own txn_commit checks and   *)
(* writes under one &mut borrow.  The server takes the intents away        *)
(* (txn_take_commit), proposes them as one log entry, and the entry is     *)
(* applied later.                                                          *)
(***************************************************************************)
EXTENDS Naturals, Sequences, FiniteSets

CONSTANTS
    TxnClient,   \* clients
    TKey,        \* user keys, numbers in key order
    MaxTxns,     \* bound: transactions begun
    MaxVersions, \* bound: committed versions
    MaxProposed, \* bound: commits proposed and not applied
    MaxRestarts  \* bound: restarts of the server

VARIABLES
    path,      \* "engine" or "raft": how this system commits
    versions,  \* committed versions in sequence order: [key, val]
    intents,   \* intents[k]: [txn, val], at most one holder per key
    txns,      \* txns[i]: TxnMeta of an open transaction, or Closed
    nextTxn,   \* next_txn_id
    handles,   \* handles[c]: the Transaction of a client
    proposals, \* TxnCommit entries not yet applied: [id, start, writes]
    clash,     \* history: a commit took effect over a newer version of its keys
    restarts

txnVars == <<path, versions, intents, txns, nextTxn, handles, proposals, clash, restarts>>

None == "none"   \* no value: a delete intent, or an absent key
Put == "put"
Closed == [snap |-> 0, keys |-> {}, open |-> FALSE]
NoIntent == [txn |-> 0, val |-> None]
NoHandle == [id |-> 0, local |-> [k \in {} |-> None], state |-> "none"]
TxnIds == 1 .. MaxTxns

TxnInit ==
    /\ path \in {"engine", "raft"}
    /\ versions = << >>
    /\ intents = [k \in TKey |-> NoIntent]
    /\ txns = [i \in TxnIds |-> Closed]
    /\ nextTxn = 1
    /\ handles = [c \in TxnClient |-> NoHandle]
    /\ proposals = << >>
    /\ clash = FALSE
    /\ restarts = 0

-----------------------------------------------------------------------------
(* The engine. *)

\* latest_committed_seq, 0 when the key has no version.
LatestCommittedSeq(k) ==
    LET at == {i \in DOMAIN versions : versions[i].key = k}
    IN  IF at = {} THEN 0 ELSE CHOOSE i \in at : \A j \in at : j <= i

\* check_write_conflict.
Conflict(t, k) ==
    \/ intents[k] # NoIntent /\ intents[k].txn # t
    \/ LatestCommittedSeq(k) > txns[t].snap

\* begin_txn.
Opened ==
    /\ txns' = [txns EXCEPT ![nextTxn] = [snap |-> Len(versions), keys |-> {}, open |-> TRUE]]
    /\ nextTxn' = nextTxn + 1

\* stage_intent.
Stage(t, k, v) ==
    /\ ~ Conflict(t, k)
    /\ intents' = [intents EXCEPT ![k] = [txn |-> t, val |-> v]]
    /\ txns' = [txns EXCEPT ![t].keys = @ \cup {k}]

\* The intents of t, as txn_prepare_commit collects them.
Staged(t) == {[key |-> k, val |-> intents[k].val] : k \in {j \in txns[t].keys : intents[j].txn = t}}

Unknown(t) == t \notin TxnIds \/ ~ txns[t].open

\* The re-check of txn_prepare_commit.
Conflicts(t) == \E k \in txns[t].keys : Conflict(t, k)

\* Transaction and intents are removed (txn_rollback).
Dropped(t) ==
    /\ txns' = [txns EXCEPT ![t] = Closed]
    /\ intents' = [k \in TKey |-> IF k \in txns[t].keys /\ intents[k].txn = t
                                  THEN NoIntent ELSE intents[k]]

\* txn_take_commit.
Taken(t) == ~ Conflicts(t) /\ Dropped(t)

\* The mutations in the order apply_mutations writes them: sorted by key.
InKeyOrder(writes) ==
    CHOOSE s \in [1 .. Cardinality(writes) -> writes] :
        \A i, j \in DOMAIN s : i < j => s[i].key < s[j].key

-----------------------------------------------------------------------------
(* The client's operations, each with what the server does for it. *)

TxnBegin(c) ==
    /\ handles[c].state = "none" /\ nextTxn <= MaxTxns
    /\ Opened
    /\ handles' = [handles EXCEPT ![c] = [NoHandle EXCEPT !.id = nextTxn, !.state = "open"]]
    /\ UNCHANGED <<path, versions, intents, proposals, clash, restarts>>

\* txn_get: the transaction's own intent, else the newest version of its snapshot.
TxnGet(t, k) ==
    IF intents[k].txn = t /\ intents[k] # NoIntent THEN intents[k].val
    ELSE LET at == {i \in 1 .. txns[t].snap : versions[i].key = k}
         IN  IF at = {} THEN None ELSE versions[CHOOSE i \in at : \A j \in at : j <= i].val

\* Transaction::get: the local map first.
ClientGet(c, k) ==
    IF k \in DOMAIN handles[c].local THEN handles[c].local[k] ELSE TxnGet(handles[c].id, k)

\* TXN_OP: txn_put and txn_delete; a delete is an intent without value.  A conflict or an
\* unknown transaction changes nothing.
StageIntent(c, k, v) ==
    LET t == handles[c].id IN
    /\ handles[c].state = "open" /\ ~ Unknown(t) /\ Stage(t, k, v)
    /\ handles' = [handles EXCEPT ![c].local =
                      [j \in DOMAIN @ \cup {k} |-> IF j = k THEN v ELSE @[j]]]
    /\ UNCHANGED <<path, versions, nextTxn, proposals, clash, restarts>>

\* Writes of a transaction that began at version n reach the store.
Written(n, writes) ==
    /\ versions' = versions \o InKeyOrder(writes)
    /\ clash' = (clash \/ \E w \in writes : LatestCommittedSeq(w.key) > n)

\* commit(self) and rollback(self) use the handle up.
Ends(c) == handles' = [handles EXCEPT ![c] = NoHandle]


\* Engine::txn_commit.
CommitLocal(c) ==
    LET t == handles[c].id IN
    /\ path = "engine" /\ handles[c].state = "open" /\ ~ Unknown(t) /\ Taken(t)
    /\ Len(versions) + Cardinality(Staged(t)) <= MaxVersions
    /\ Written(txns[t].snap, Staged(t))
    /\ Ends(c)
    /\ UNCHANGED <<path, nextTxn, proposals, restarts>>

\* txn_commit_via_raft up to the proposal.
TakeCommit(c) ==
    LET t == handles[c].id IN
    /\ path = "raft" /\ handles[c].state = "open" /\ ~ Unknown(t) /\ Taken(t)
    /\ Len(proposals) < MaxProposed
    /\ proposals' = Append(proposals, [id |-> t, start |-> txns[t].snap, writes |-> Staged(t)])
    /\ handles' = [handles EXCEPT ![c] = [NoHandle EXCEPT !.id = t, !.state = "proposed"]]
    /\ UNCHANGED <<path, versions, nextTxn, clash, restarts>>

\* The client that still waits for this proposal gets its answer.
Answered(p) ==
    handles' = [c \in TxnClient |->
        IF handles[c].state = "proposed" /\ handles[c].id = p.id THEN NoHandle ELSE handles[c]]

\* apply_command of the TxnCommit entry, on the node that answers the client.
ApplyCommit ==
    /\ proposals # << >>
    /\ LET p == Head(proposals) IN
       /\ Len(versions) + Cardinality(p.writes) <= MaxVersions
       /\ Written(p.start, p.writes)
       /\ Answered(p)
    /\ proposals' = Tail(proposals)
    /\ UNCHANGED <<path, intents, txns, nextTxn, restarts>>

\* The proposal is lost: the intents are gone, and the client is told to start again.
LoseCommit ==
    /\ proposals # << >>
    /\ proposals' = Tail(proposals)
    /\ Answered(Head(proposals))
    /\ UNCHANGED <<path, versions, intents, txns, nextTxn, clash, restarts>>

\* propose_and_wait gives up on an entry that may still be applied.
GiveUp(c) ==
    /\ handles[c].state = "proposed"
    /\ Ends(c)
    /\ UNCHANGED <<path, versions, intents, txns, nextTxn, proposals, clash, restarts>>

\* A commit that meets a conflict.  The client's handle is used up; the transaction and
\* its intents stay on the server.
FailCommit(c) ==
    /\ handles[c].state = "open" /\ (Unknown(handles[c].id) \/ Conflicts(handles[c].id))
    /\ Ends(c)
    /\ UNCHANGED <<path, versions, intents, txns, nextTxn, proposals, clash, restarts>>

TxnRollback(c) ==
    /\ handles[c].state = "open" /\ ~ Unknown(handles[c].id)
    /\ Dropped(handles[c].id)
    /\ Ends(c)
    /\ UNCHANGED <<path, versions, nextTxn, proposals, clash, restarts>>

\* A write outside of transactions: it meets no intent.
PlainPut(k) ==
    /\ Len(versions) < MaxVersions
    /\ versions' = Append(versions, [key |-> k, val |-> Put])
    /\ UNCHANGED <<path, intents, txns, nextTxn, handles, proposals, clash, restarts>>

\* TxnTables::new: the tables are empty and ids start over; clients keep their handles.
Restart ==
    /\ restarts < MaxRestarts
    /\ restarts' = restarts + 1
    /\ intents' = [k \in TKey |-> NoIntent]
    /\ txns' = [i \in TxnIds |-> Closed]
    /\ nextTxn' = 1
    /\ UNCHANGED <<path, versions, handles, proposals, clash>>

TxnNext ==
    \/ \E c \in TxnClient : TxnBegin(c) \/ CommitLocal(c) \/ TakeCommit(c) \/ GiveUp(c) \/ FailCommit(c) \/ TxnRollback(c)
    \/ \E c \in TxnClient, k \in TKey : StageIntent(c, k, Put) \/ StageIntent(c, k, None)
    \/ ApplyCommit \/ LoseCommit
    \/ \E k \in TKey : PlainPut(k)
    \/ Restart

TxnSpec == TxnInit /\ [][TxnNext]_txnVars

-----------------------------------------------------------------------------
(* Properties. *)

\* What a client has staged and what the server holds for its transaction are the same:
\* reads answered by either agree, and a commit writes exactly what the client staged
\* (stage_intent, check_write_conflict, Transaction::put).  A restart ends that: the ids
\* start over, and a handle from before may name somebody else's transaction.
LocalMirrorsIntents ==
    restarts = 0 => \A c \in TxnClient : handles[c].state = "open" =>
       /\ \A k \in TKey : ClientGet(c, k) = TxnGet(handles[c].id, k)
       /\ {[key |-> k, val |-> handles[c].local[k]] : k \in DOMAIN handles[c].local}
             = Staged(handles[c].id)

\* Every intent belongs to an open transaction that lists its key: none is left behind by
\* a commit or a rollback (txn_take_commit, txn_rollback).
IntentsHaveOwners ==
    \A k \in TKey : intents[k] # NoIntent => txns[intents[k].txn].open /\ k \in txns[intents[k].txn].keys

\* TXN-4, whichever way the commit goes: a transaction commits only if none of the keys it
\* wrote has a version newer than its snapshot when its writes take effect.
CommitMeansNoConflict == ~ clash

\* TXN-4 for Engine::txn_commit.
FirstCommitterWins == path = "engine" => CommitMeansNoConflict

\* TXN-8: a transaction is used by one client only.
TxnsAreNotShared ==
    \A c, d \in TxnClient : c # d /\ handles[c].state = "open" /\ handles[d].state = "open"
        => handles[c].id # handles[d].id

SI == INSTANCE SnapshotIsolation WITH
    Txn <- TxnIds, SKey <- TKey, SVal <- {Put, None}, committed <- versions,
    open <- [t \in TxnIds |-> IF txns[t].open
                THEN [start |-> txns[t].snap, writes |-> Staged(t), live |-> TRUE]
                ELSE [start |-> 0, writes |-> {}, live |-> FALSE]]

=============================================================================
