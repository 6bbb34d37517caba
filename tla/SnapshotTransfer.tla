-------------------------- MODULE SnapshotTransfer --------------------------
(***************************************************************************)
(* Snapshots between the servers of a cluster: every server keeps one      *)
(* engine for all its Raft groups, maybe_compact_raft_log takes an image   *)
(* of it, and apply_installed_raft_snapshot puts such an image into        *)
(* another server's engine.  Consensus is abstract here (RaftCluster has   *)
(* it in detail): entry i of group g writes i under the key g, and a       *)
(* server applies the entries of a group in order.                         *)
(***************************************************************************)
EXTENDS Lsm

CONSTANTS
    Servers,    \* the servers of the cluster
    Groups,     \* the Raft groups all of them host
    Flushes,    \* whether memtables are flushed
    MaxIndex,   \* bound: entries of a group
    MaxImages   \* bound: snapshots taken

VARIABLES
    engine,    \* per server: memtable, live tables, table files and counters
    applied,   \* per server and group: last_applied
    images     \* the snapshots taken so far, each for one group

vars == <<engine, applied, images>>

Latest == 1000

OpenTables(e) == {[id |-> t, versions |-> e.files[t]] : t \in e.live}

View(e) == [g \in Groups |-> GetInner(e.mem, OpenTables(e), g, Latest)]

Init ==
    /\ engine = [s \in Servers |-> [mem |-> {}, live |-> {}, files |-> << >>,
                                    nextTable |-> 1, nextSeq |-> 1, lastSeq |-> 0, cutoff |-> 0]]
    /\ applied = [s \in Servers |-> [g \in Groups |-> 0]]
    /\ images = << >>

\* drain_and_apply writes the group's next entry under the sequence number the
\* server's own log hands out.
Apply(s, g) ==
    /\ applied[s][g] < MaxIndex
    /\ LET e == engine[s]
           v == Version(g, e.nextSeq, applied[s][g] + 1)
       IN  engine' = [engine EXCEPT ![s].mem = MemInsert(e.mem, v), ![s].nextSeq = @ + 1,
                                    ![s].lastSeq = e.nextSeq]
    /\ applied' = [applied EXCEPT ![s][g] = @ + 1]
    /\ UNCHANGED images

\* flush_nonempty, with the sequence it puts into the manifest.
Flush(s) ==
    /\ Flushes
    /\ engine[s].mem # {}
    /\ LET e == engine[s]
       IN  engine' = [engine EXCEPT
             ![s].files = [t \in DOMAIN e.files \union {e.nextTable} |->
                             IF t = e.nextTable THEN e.mem ELSE e.files[t]],
             ![s].live = @ \union {e.nextTable},
             ![s].nextTable = @ + 1,
             ![s].cutoff = e.lastSeq,
             ![s].mem = {}]
    /\ UNCHANGED <<applied, images>>

\* maybe_compact_raft_log with create_snapshot: the image of the whole engine stands
\* for the applied prefix of one group.
Snapshot(s, g) ==
    /\ applied[s][g] > 0
    /\ Len(images) < MaxImages
    /\ LET e == engine[s]
       IN  images' = Append(images, [group |-> g, index |-> applied[s][g], tables |-> e.live,
                                     mem |-> e.mem, cutoff |-> e.cutoff,
                                     content |-> [t \in e.live |-> e.files[t]]])
    /\ UNCHANGED <<engine, applied>>

\* The section with the table files is looked for at the cutoff, which has not been
\* consumed: its low word is taken for the number of files and its high word, zero, for
\* the length of the first path.  The length that follows is then made of two words
\* that belong together with nothing and exceeds what is left, so no file is written.
WrittenTables(image) == {}

\* install_snapshot fails when a table the image names is not there; the log's next
\* sequence and the next table number stay what they are.
InstallSnapshot(e, image) ==
    LET files == [t \in DOMAIN e.files \union WrittenTables(image) |->
                    IF t \in WrittenTables(image) THEN image.content[t] ELSE e.files[t]]
    IN  IF image.tables \subseteq DOMAIN files
        THEN [e EXCEPT !.files = files, !.live = image.tables, !.mem = image.mem,
                       !.cutoff = image.cutoff, !.lastSeq = Max({0, image.cutoff - 1})]
        ELSE [e EXCEPT !.files = files]

\* on_install_snapshot_request has moved the group's last_applied to the image's index;
\* apply_installed_raft_snapshot reports a failed installation and carries on.
Install(s, i) ==
    /\ images[i].index > applied[s][images[i].group]
    /\ applied' = [applied EXCEPT ![s][images[i].group] = images[i].index]
    /\ engine' = [engine EXCEPT ![s] = InstallSnapshot(engine[s], images[i])]
    /\ UNCHANGED images

Next ==
    \/ \E s \in Servers, g \in Groups : Apply(s, g) \/ Snapshot(s, g)
    \/ \E s \in Servers : Flush(s)
    \/ \E s \in Servers, i \in DOMAIN images : Install(s, i)

Spec == Init /\ [][Next]_vars

-----------------------------------------------------------------------------

\* State machine safety across snapshots: on every server and for every group, a read
\* of the engine gives the last entry the group has applied.
EngineMatchesApplied == \A s \in Servers : View(engine[s]) = applied[s]

=============================================================================
