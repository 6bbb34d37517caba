-------------------------- MODULE RaftPersistence ---------------------------
(***************************************************************************)
(* RaftCluster with the end of an iteration taken apart.  raft_event_loop  *)
(* sends and applies first; then persist_raft_state writes the hard state  *)
(* (term, vote, snapshot boundary) and after it the log, two files each    *)
(* replaced atomically.  The process may stop between any two of these.    *)
(***************************************************************************)
EXTENDS RaftCluster

CONSTANT CrashPhases  \* the phases in which the process may stop

VARIABLES disk,   \* disk[i]: raft-hard-state and raft-log
          phase   \* phase[i]: how far server i's iteration has come

pvars == <<vars, disk, phase>>

Phases == {"saved", "stepped", "hardSaved"}

ASSUME CrashAssumption == CrashPhases \subseteq Phases

HardState(n) ==
    [currentTerm |-> n.currentTerm, votedFor |-> n.votedFor,
     lastIncludedIndex |-> n.log.lastIncludedIndex,
     lastIncludedTerm |-> n.log.lastIncludedTerm]

\* memlog_to_frames: a frame carries the index its entry had when it was written.
Frames(log) ==
    [k \in DOMAIN log.entries |->
        [index |-> log.lastIncludedIndex + k,
         term |-> log.entries[k].term, command |-> log.entries[k].command]]

NewDisk == [hard |-> HardState(NewNode), frames |-> << >>]

\* Mutant of LoadedLog: the frames are read without the snapshot boundary.
LoadedLogNoBoundary(d) ==
    [EmptyLog EXCEPT !.entries =
        [k \in DOMAIN d.frames |-> [term |-> d.frames[k].term,
                                    command |-> d.frames[k].command]]]

(***************************************************************************)
(* frames_to_memlog: the boundary comes from the hard state, and the       *)
(* frames are appended behind it in file order.  Only a debug assertion    *)
(* compares a frame's index with the place it lands on.                    *)
(***************************************************************************)
LoadedLog(d) ==
    LET base == InstallSnapshot(EmptyLog, d.hard.lastIncludedIndex,
                                d.hard.lastIncludedTerm, EmptyImage)
    IN  [base EXCEPT !.entries =
            [k \in DOMAIN d.frames |-> [term |-> d.frames[k].term,
                                        command |-> d.frames[k].command]]]

\* A store that looks fresh starts a new node and ignores the apply floor.
LoadedNode(d, floor) ==
    IF d = NewDisk
    THEN NewNode
    ELSE [NewNode EXCEPT !.currentTerm = d.hard.currentTerm, !.votedFor = d.hard.votedFor,
                         !.log = LoadedLog(d),
                         !.commitIndex = floor, !.lastApplied = floor]

-----------------------------------------------------------------------------
PInit ==
    /\ Init
    /\ disk = [i \in Server |-> NewDisk]
    /\ phase = [i \in Server |-> "saved"]

\* One iteration up to persist_raft_state; nothing is written for an unchanged view.
Step(i) ==
    /\ phase[i] = "saved"
    /\ \/ ElectionTimeout(i)
       \/ Heartbeat(i)
       \/ \E m \in msgs : Receive(i, m)
       \/ \E v \in Value : ClientPropose(i, v)
       \/ ClientRead(i)
    /\ phase' = [phase EXCEPT ![i] =
          IF disk[i] = [hard |-> HardState(node'[i]), frames |-> Frames(node'[i].log)]
          THEN "saved" ELSE "stepped"]
    /\ UNCHANGED disk

SaveHardState(i) ==
    /\ phase[i] = "stepped"
    /\ disk' = [disk EXCEPT ![i].hard = HardState(node[i])]
    /\ phase' = [phase EXCEPT ![i] = "hardSaved"]
    /\ UNCHANGED vars

SaveLog(i) ==
    /\ phase[i] = "hardSaved"
    /\ disk' = [disk EXCEPT ![i].frames = Frames(node[i].log)]
    /\ phase' = [phase EXCEPT ![i] = "saved"]
    /\ UNCHANGED vars

TransferAnyTime(i) == Transfer(i) /\ UNCHANGED <<disk, phase>>

\* The process stops and starts again from what is on disk.
CrashAndRecover(i) ==
    /\ phase[i] \in CrashPhases
    /\ used.restarts < MaxRestarts
    /\ used' = [used EXCEPT !.restarts = @ + 1]
    /\ node' = [node EXCEPT ![i] = LoadedNode(disk[i], store[i].floor)]
    /\ store' = [store EXCEPT ![i] = Reopened(@)]
    /\ pending' = [pending EXCEPT ![i] = {}]
    /\ leading' = leading \ {i}
    /\ phase' = [phase EXCEPT ![i] = "saved"]
    /\ UNCHANGED <<msgs, disk>>

PNext ==
    \E i \in Server :
        \/ Step(i)
        \/ SaveHardState(i)
        \/ SaveLog(i)
        \/ TransferAnyTime(i)
        \/ CrashAndRecover(i)

PSpec == PInit /\ [][PNext]_pvars

-----------------------------------------------------------------------------
\* When a process only ever stops after persist_raft_state, load_state gives back
\* exactly what RaftCluster's Restart assumes: splitting the write in two files,
\* skipping it for an unchanged view and rebuilding the log from frames change
\* nothing, so the detailed system implements RaftCluster.
ImplementsCluster == Spec

\* The hard state is written before the log, so that no entry on disk is of a later
\* term than the term on disk: a recovered node is never behind its own log.
DiskTermCoversLog ==
    \A i \in Server : \A k \in DOMAIN disk[i].frames :
        disk[i].frames[k].term <= disk[i].hard.currentTerm

\* debug_assert_eq!(frame.index.0, log.last_index().0 + 1) of frames_to_memlog: every
\* frame lands on the index it was written for, whenever the process stops.
FramesFollowBoundary ==
    \A i \in Server : \A k \in DOMAIN disk[i].frames :
        disk[i].frames[k].index = disk[i].hard.lastIncludedIndex + k

=============================================================================
