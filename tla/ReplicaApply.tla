---------------------------- MODULE ReplicaApply ----------------------------
(***************************************************************************)
(* One replica between its Raft log and its engine: drain_and_apply        *)
(* executes committed entries, the apply index remembers which, and a      *)
(* restart goes on behind the highest index remembered.  Entry i writes    *)
(* the value i under the key committed[i].  The engine is the sequence of  *)
(* writes in its log: a process that stops leaves all of them, a power     *)
(* loss only a prefix that contains what was synced.  A line of the apply  *)
(* index is synced when it is written.                                     *)
(***************************************************************************)
EXTENDS Naturals, Sequences, FiniteSets, FiniteSetsExt

CONSTANTS
    ReplicaKeys,    \* the keys entries write
    Durabilities,   \* what a behaviour may be: a mode with the stops it meets
    MaxCommitted,   \* bound: committed entries
    MaxStops,       \* bound: stops of the node
    MaxRefusals     \* bound: commands the engine refuses

VARIABLES
    committed,   \* the committed entries of the group
    last_applied, \* the last entry executed
    recorded,    \* seen_indices, the lines of raft-apply-index.jsonl
    unrecorded,  \* the entry whose write is done and whose line is not, as a set
    writes,      \* the engine's log: indices of entries
    synced,      \* how many of them are synced
    refused,     \* the entries the engine has refused
    stops,       \* stops so far
    durability   \* the mode and the stops of this behaviour

replicaVars == <<committed, last_applied, recorded, unrecorded, writes, synced, refused, stops,
                 durability>>

\* run_cluster_node opens the engine relaxed unless the probes ask for strict writes.
Strict == [mode |-> "Strict", power |-> TRUE]

Relaxed == [mode |-> "Relaxed", power |-> FALSE]

RelaxedWithPowerLoss == [mode |-> "Relaxed", power |-> TRUE]

ReplicaInit ==
    /\ durability \in Durabilities
    /\ committed = << >>
    /\ last_applied = 0
    /\ recorded = {}
    /\ unrecorded = {}
    /\ writes = << >>
    /\ synced = 0
    /\ refused = {}
    /\ stops = 0

\* Consensus, which RaftCluster has in detail.
CommitEntry(k) ==
    /\ Len(committed) < MaxCommitted
    /\ committed' = Append(committed, k)
    /\ UNCHANGED <<last_applied, recorded, unrecorded, writes, synced, refused, stops, durability>>

\* apply_command succeeds: a strict write is synced before it returns.
ApplyEntry ==
    /\ unrecorded = {}
    /\ last_applied < Len(committed)
    /\ last_applied' = last_applied + 1
    /\ writes' = Append(writes, last_applied + 1)
    /\ synced' = IF durability.mode = "Strict" THEN Len(writes) + 1 ELSE synced
    /\ unrecorded' = {last_applied + 1}
    /\ UNCHANGED <<committed, recorded, refused, stops, durability>>

\* apply_command fails: the waiting client is told and the loop continues with the next
\* entry, without a line in the apply index.
ApplyRefused ==
    /\ unrecorded = {}
    /\ last_applied < Len(committed)
    /\ Cardinality(refused) < MaxRefusals
    /\ last_applied' = last_applied + 1
    /\ refused' = refused \union {last_applied + 1}
    /\ UNCHANGED <<committed, recorded, unrecorded, writes, synced, stops, durability>>

\* RaftApplyIndex::append: an index that has a line gets no second one.
RecordEntry ==
    /\ unrecorded # {}
    /\ recorded' = recorded \union unrecorded
    /\ unrecorded' = {}
    /\ UNCHANGED <<committed, last_applied, writes, synced, refused, stops, durability>>

\* The operating system writes back, or a flush of the memtable syncs a table.
WriteBack ==
    /\ synced < Len(writes)
    /\ synced' = Len(writes)
    /\ UNCHANGED <<committed, last_applied, recorded, unrecorded, writes, refused, stops,
                   durability>>

FloorLast == IF recorded = {} THEN 0 ELSE Max(recorded) + 1

\* The highest index of load_all; set_recovered_apply_floor makes it last_applied.
ApplyFloor == IF recorded = {} THEN 0 ELSE Max(recorded)

Stop ==
    /\ stops < MaxStops
    /\ stops' = stops + 1
    /\ last_applied' = ApplyFloor
    /\ unrecorded' = {}
    /\ UNCHANGED <<committed, recorded, refused, durability>>

ProcessStops == Stop /\ UNCHANGED <<writes, synced>>

PowerLoss ==
    /\ durability.power
    /\ Stop
    /\ \E kept \in synced..Len(writes) :
         writes' = SubSeq(writes, 1, kept) /\ synced' = kept

ReplicaNext ==
    \/ \E k \in ReplicaKeys : CommitEntry(k)
    \/ ApplyEntry
    \/ RecordEntry
    \/ WriteBack
    \/ ProcessStops
    \/ PowerLoss

ReplicaSpec == ReplicaInit /\ [][ReplicaNext]_replicaVars

\* The same with an engine that may refuse a command.
ReplicaNextRefusing == ReplicaNext \/ ApplyRefused

ReplicaSpecRefusing == ReplicaInit /\ [][ReplicaNextRefusing]_replicaVars

-----------------------------------------------------------------------------
(* Properties.                                                             *)

LastOf(S) == IF S = {} THEN 0 ELSE Max(S)

\* What a read gives: the value of the last write of the key in the engine's log.
Value(k) ==
    LET p == LastOf({i \in DOMAIN writes : committed[writes[i]] = k})
    IN  IF p = 0 THEN 0 ELSE writes[p]

\* What the first n entries make of the key.
PrefixValue(k, n) == LastOf({i \in 1..n : committed[i] = k})

\* State machine safety of one replica across restarts: whatever it has executed, lost and
\* executed again, its engine holds what some prefix of the committed entries, at least
\* as long as last_applied, makes of every key.  No entry is skipped and none is put back
\* over a later one (drain_and_apply, RaftApplyIndex, run_cluster_node).
ReplicaIsLogPrefix ==
    \E n \in last_applied..Len(committed) : \A k \in ReplicaKeys : Value(k) = PrefixValue(k, n)

=============================================================================
