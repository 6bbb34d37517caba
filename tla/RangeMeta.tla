------------------------------ MODULE RangeMeta -----------------------------
(***************************************************************************)
(* The replicated range table: SPLIT_RANGE, MERGE_RANGE and MOVE_RANGE of  *)
(* cluster/client_ops.rs, their apply in cluster/replication.rs, the table *)
(* file of range_meta.rs, the groups a server hosts, and the reclamation   *)
(* of groups that no range names any more.                                 *)
(*                                                                         *)
(* Consensus of group 0 is its committed log, which is what RaftCluster is *)
(* checked for: a proposal is committed once, later than it was made, or   *)
(* never.  Any server may take itself for the leader of group 0.           *)
(***************************************************************************)
EXTENDS RangeTable

CONSTANTS
    Node,       \* the servers
    BootTable,  \* ClusterConfig::range_table, the same on every server
    SplitKeys,  \* keys clients ask to split at
    Targets,    \* groups clients ask to move ranges to
    MaxEdits,   \* bound: range changes that clients ask for
    MaxMishaps  \* bound: process stops, lost leaderships and snapshots together

VARIABLES
    metaLog,    \* committed RangeMeta entries of group 0
    layouts,    \* history: layouts[e] is the table that the log gives epoch e
    table,      \* table[n]: the table in memory
    tableFile,  \* tableFile[n]: range-table.bin, or NoFile
    hosted,     \* hosted[n]: groups of MultiRaftHost
    applied,    \* applied[n]: entries of metaLog that n has applied
    applyFloor, \* applyFloor[n]: what the apply index of group 0 says after a restart
    edits,      \* the range changes asked for, with the answer
    mishaps

metaVars == <<metaLog, layouts, table, tableFile, hosted, applied, applyFloor, edits, mishaps>>

NoFile == [metaEpoch |-> 0, ranges |-> {}, nextRange |-> 0, nextGroup |-> 0]

\* load_persisted_range_table: the file, or the configured table.
Loaded(file) == IF file = NoFile THEN BootTable ELSE file

\* The groups a starting server hosts.
BootGroups(t) == GroupIds(t) \cup {GroupZero}

MetaInit ==
    /\ metaLog = << >>
    /\ layouts = <<BootTable>>
    /\ table = [n \in Node |-> BootTable]
    /\ tableFile = [n \in Node |-> NoFile]
    /\ hosted = [n \in Node |-> BootGroups(BootTable)]
    /\ applied = [n \in Node |-> 0]
    /\ applyFloor = [n \in Node |-> 0]
    /\ edits = << >>
    /\ mishaps = 0

Mishap == mishaps < MaxMishaps /\ mishaps' = mishaps + 1

-----------------------------------------------------------------------------
(* A change is prepared on a copy of the table, its group is hosted, and   *)
(* the copy is proposed together with the epoch it was made from.          *)

Prepare(n, kind, next, hosts) ==
    /\ Len(edits) < MaxEdits
    /\ edits' = Append(edits,
          [node |-> n, kind |-> kind, base |-> table[n].metaEpoch, next |-> next,
           hosts |-> hosts, stage |-> IF hosts = {} THEN "send" ELSE "host", reply |-> "none"])
    /\ UNCHANGED <<metaLog, layouts, table, tableFile, hosted, applied, applyFloor, mishaps>>

PrepareSplit(n, k) ==
    /\ CanSplit(table[n], k)
    /\ Prepare(n, "split", SplitAt(table[n], k), {table[n].nextGroup})

PrepareMerge(n, k) ==
    /\ CanMerge(table[n], k)
    /\ Prepare(n, "merge", MergeWithNext(table[n], k), {})

PrepareMove(n, k, g) ==
    /\ CanMove(table[n], k, g)
    /\ Prepare(n, "move", MoveRange(table[n], k, g), {g})

\* ensure_group_hosted, before the proposal.
HostForEdit(i) ==
    /\ edits[i].stage = "host"
    /\ hosted' = [hosted EXCEPT ![edits[i].node] = @ \cup edits[i].hosts]
    /\ edits' = [edits EXCEPT ![i].stage = "send"]
    /\ UNCHANGED <<metaLog, layouts, table, tableFile, applied, applyFloor, mishaps>>

\* Group 0 commits the proposal.
CommitEdit(i) ==
    /\ edits[i].stage = "send"
    /\ metaLog' = Append(metaLog, [base |-> edits[i].base, next |-> edits[i].next, edit |-> i,
                                   epoch |-> IF edits[i].base = Len(layouts)
                                             THEN Len(layouts) + 1 ELSE Len(layouts)])
    /\ layouts' = IF edits[i].base = Len(layouts) THEN Append(layouts, edits[i].next) ELSE layouts
    /\ edits' = [edits EXCEPT ![i].stage = "logged"]
    /\ UNCHANGED <<table, tableFile, hosted, applied, applyFloor, mishaps>>

\* The server loses group 0 while the client waits: not_leader, and the entry may
\* still be committed by another leader.
AbortEdit(i) ==
    /\ edits[i].stage \in {"send", "logged"} /\ edits[i].reply = "none"
    /\ Mishap
    /\ edits' = [edits EXCEPT ![i].reply = "not_leader"]
    /\ UNCHANGED <<metaLog, layouts, table, tableFile, hosted, applied, applyFloor>>

-----------------------------------------------------------------------------
(* Apply. *)

\* Mutant of Wins: a change is applied whatever the table was made from.
WinsAlways(t, entry) == TRUE

\* The compare-and-set of apply_range_meta_entry.
Wins(t, entry) == t.metaEpoch = entry.base

\* Not a win, but the entry has been applied before.
AlreadyThere(t, entry) == ~ Wins(t, entry) /\ t = entry.next

\* Whoever waits for the entry on this server is answered.
AnswerEdit(n, entry, ok) ==
    edits' = [edits EXCEPT ![entry.edit].reply =
                 IF @ = "none" /\ edits[entry.edit].node = n
                 THEN IF ok THEN "ok" ELSE "error" ELSE @]

NextEntry(n) == metaLog[applied[n] + 1]

\* One entry of drain_and_apply: file, memory, groups, apply index, answer.  A change
\* that loses is answered with an error and leaves no trace in the apply index.
ApplyMeta(n) ==
    /\ applied[n] < Len(metaLog)
    /\ LET entry == NextEntry(n)
           wins == Wins(table[n], entry)
           ok == wins \/ AlreadyThere(table[n], entry)
       IN
       /\ tableFile' = [tableFile EXCEPT ![n] = IF wins THEN entry.next ELSE @]
       /\ table' = [table EXCEPT ![n] = IF wins THEN entry.next ELSE @]
       /\ hosted' = [hosted EXCEPT ![n] = IF wins THEN @ \cup GroupIds(entry.next) ELSE @]
       /\ applyFloor' = [applyFloor EXCEPT ![n] = IF ok THEN applied[n] + 1 ELSE @]
       /\ AnswerEdit(n, entry, ok)
    /\ applied' = [applied EXCEPT ![n] = @ + 1]
    /\ UNCHANGED <<metaLog, layouts, mishaps>>

\* A snapshot of some group brings the table of server m.  When it is one of group 0
\* the log position comes with it.
InstallTable(n, m, ofGroupZero) ==
    /\ n # m
    /\ table[m].metaEpoch >= table[n].metaEpoch
    /\ tableFile' = [tableFile EXCEPT ![n] = table[m]]
    /\ table' = [table EXCEPT ![n] = table[m]]
    /\ hosted' = [hosted EXCEPT ![n] = @ \cup GroupIds(table[m])]
    /\ IF ofGroupZero /\ applied[m] > applied[n]
       THEN /\ applied' = [applied EXCEPT ![n] = applied[m]]
            /\ applyFloor' = [applyFloor EXCEPT ![n] = applied[m]]
       ELSE UNCHANGED <<applied, applyFloor>>
    /\ Mishap
    /\ UNCHANGED <<metaLog, layouts, edits>>

-----------------------------------------------------------------------------
(* Reclaim, stop, restart. *)


\* Hosted, below the next group id, and no range names it.
Orphan(n, g) == g # GroupZero /\ g < table[n].nextGroup /\ g \notin GroupIds(table[n])

\* reclaim_orphan_groups takes one of them (its drain test is the caller's).
Reclaim(n, g) ==
    /\ g \in hosted[n] /\ Orphan(n, g)
    /\ hosted' = [hosted EXCEPT ![n] = @ \ {g}]
    /\ UNCHANGED <<metaLog, layouts, table, tableFile, applied, applyFloor, edits, mishaps>>

\* What run_cluster_node builds from the files.  A handler that was waiting is gone;
\* what it had sent may still be committed.
Reopen(n, file) ==
    /\ Mishap
    /\ tableFile' = [tableFile EXCEPT ![n] = file]
    /\ table' = [table EXCEPT ![n] = Loaded(file)]
    /\ hosted' = [hosted EXCEPT ![n] = BootGroups(Loaded(file))]
    /\ applied' = [applied EXCEPT ![n] = applyFloor[n]]
    /\ edits' = [i \in DOMAIN edits |->
                    IF edits[i].node # n THEN edits[i]
                    ELSE [edits[i] EXCEPT !.stage = IF @ = "host" THEN "gone" ELSE @,
                                          !.reply = IF @ = "none" THEN "lost" ELSE @,
                                          !.hosts = {}]]
    /\ UNCHANGED <<metaLog, layouts, applyFloor>>

StopNode(n) == Reopen(n, tableFile[n])

\* The process stops after the table file is written and before the apply index is.
StopInApply(n) ==
    /\ applied[n] < Len(metaLog) /\ Wins(table[n], NextEntry(n))
    /\ Reopen(n, NextEntry(n).next)

MetaNext ==
    \/ \E n \in Node, k \in SplitKeys : PrepareSplit(n, k)
    \/ \E n \in Node, k \in SplitKeys \cup {EmptyKey} : PrepareMerge(n, k)
    \/ \E n \in Node, k \in SplitKeys \cup {EmptyKey}, g \in Targets : PrepareMove(n, k, g)
    \/ \E i \in DOMAIN edits : HostForEdit(i) \/ CommitEdit(i) \/ AbortEdit(i)
    \/ \E n \in Node : ApplyMeta(n) \/ StopNode(n) \/ StopInApply(n)
    \/ \E n, m \in Node, z \in BOOLEAN : InstallTable(n, m, z)
    \/ \E n \in Node : \E g \in hosted[n] : Reclaim(n, g)

MetaSpec == MetaInit /\ [][MetaNext]_metaVars

-----------------------------------------------------------------------------
(* Properties. *)

\* The keys worth asking for: the ones ranges start at, and the one behind each.
ProbeKeys == {EmptyKey} \cup SplitKeys \cup {k + 1 : k \in SplitKeys}

\* RANGE-INV-01: in every table that a server uses, has on disk or is about to apply,
\* every key has exactly one range (split_at, merge_with_next, move_range).
OneRangePerKey ==
    \A t \in {table[n] : n \in Node} \cup {Loaded(tableFile[n]) : n \in Node}
              \cup {metaLog[i].next : i \in DOMAIN metaLog} :
       \A k \in ProbeKeys : Cardinality(LookupRange(t, k)) = 1

\* Two servers that answer with the same meta_epoch route alike: changes prepared from
\* one epoch do not both take effect (the compare-and-set of apply_range_meta_entry).
SameEpochSameLayout ==
    \A n, m \in Node : table[n].metaEpoch = table[m].metaEpoch => table[n] = table[m]

\* Servers that have applied all of group 0's log have one table, whatever stops,
\* repeated applies and snapshots they went through.
CaughtUpTablesAgree ==
    \A n, m \in Node :
       applied[n] = Len(metaLog) /\ applied[m] = Len(metaLog) => table[n] = table[m]

\* Every group that a server's table names is hosted there, also between a reclaim and
\* the next change (reclaim_orphan_groups, apply_range_meta_entry, run_cluster_node).
NamedGroupsAreHosted == \A n \in Node : BootGroups(table[n]) \subseteq hosted[n]

\* The group that was hosted for a split stays hosted as long as the split can still
\* take effect on that server (the gid < next_group_id test of reclaim_orphan_groups).
SplitGroupStaysHosted ==
    \A i \in DOMAIN edits :
       LET e == edits[i] IN
       e.kind = "split" /\ e.stage \in {"send", "logged"} /\ e.reply \in {"none", "not_leader"}
          /\ e.base = table[e.node].metaEpoch
       => e.hosts \subseteq hosted[e.node]

\* A client that was told OK for a split, merge or move has its layout: no server ever
\* has another table under that epoch.
OkMeansApplied ==
    \A i \in DOMAIN edits : edits[i].reply = "ok" =>
       \A n \in Node : table[n].metaEpoch = edits[i].base + 1 => table[n] = edits[i].next

\* All tables one change away from t.
Successors(t) ==
    {SplitAt(t, k) : k \in {j \in SplitKeys : CanSplit(t, j)}}
    \cup {MergeWithNext(t, k) : k \in {j \in SplitKeys \cup {EmptyKey} : CanMerge(t, j)}}
    \cup {MoveRange(t, p[1], p[2]) :
            p \in {q \in (SplitKeys \cup {EmptyKey}) \X Targets : CanMove(t, q[1], q[2])}}

\* RANGE-INV-04 and -05: a server's epoch never falls, not even over a restart, and a
\* table one epoch further is one change further: no change overwrites another.
LayoutsBuildOnEachOther ==
    [][\A n \in Node :
         /\ table'[n].metaEpoch >= table[n].metaEpoch
         /\ table'[n].metaEpoch = table[n].metaEpoch + 1 => table'[n] \in Successors(table[n])
      ]_metaVars
=============================================================================
