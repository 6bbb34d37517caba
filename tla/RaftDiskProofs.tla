--------------------------- MODULE RaftDiskProofs ---------------------------
(***************************************************************************)
(* A process that only ever stops after persist_raft_state implements      *)
(* RaftCluster: writing the hard state and the log as two files, skipping  *)
(* both for an unchanged view, and building the log again from its frames  *)
(* give back exactly what RaftCluster's Restart assumes.  A store that     *)
(* looks fresh, for which load_state ignores the apply floor, is fresh.    *)
(***************************************************************************)
EXTENDS RaftPersistence, RaftElectionProofs

-----------------------------------------------------------------------------
(* Reading back what was written.                                           *)

\* What persist_raft_state writes for a node.
OnDisk(n) == [hard |-> HardState(n), frames |-> Frames(n.log)]

HardType == [currentTerm : Nat, votedFor : Server \cup {Nil},
             lastIncludedIndex : Nat, lastIncludedTerm : Nat]
DiskType == [hard : HardType, frames : Seq(AppliedEntry)]

\* It has the type of the two files.
LEMMA OnDiskType ==
    ASSUME NEW n \in NodeType
    PROVE  OnDisk(n) \in DiskType /\ HardState(n) \in HardType /\ Frames(n.log) \in Seq(AppliedEntry)
<1>1. n.log \in LogType
  BY Zenon DEF NodeType
<1>2. HardState(n) \in HardType
  BY <1>1, Zenon DEF HardState, HardType, NodeType, LogType
<1> DEFINE base == n.log.lastIncludedIndex
           es == n.log.entries
<1>3. base \in Nat /\ es \in Seq(Entry)
  BY <1>1, Zenon DEF LogType
<1>4. Frames(n.log) = [k \in DOMAIN es |-> [index |-> base + k, term |-> es[k].term,
                                            command |-> es[k].command]]
  BY Zenon DEF Frames
<1> HIDE DEF base, es
<1>5. DOMAIN es = 1 .. Len(es) /\ Len(es) \in Nat
  BY <1>3, SMTT(30)
<1>6. \A k \in 1 .. Len(es) : [index |-> base + k, term |-> es[k].term,
                               command |-> es[k].command] \in AppliedEntry
  <2> SUFFICES ASSUME NEW k \in 1 .. Len(es)
               PROVE  base + k \in Nat /\ es[k].term \in Nat /\ es[k].command \in Command
    BY Zenon DEF AppliedEntry
  <2>1. es[k] \in Entry
    BY <1>3, SMTT(30)
  <2> QED
    BY <1>3, <2>1, SMTT(30) DEF Entry
<1>7. Frames(n.log) \in [1 .. Len(es) -> AppliedEntry]
  BY <1>4, <1>5, <1>6, Zenon
<1>8. Frames(n.log) \in Seq(AppliedEntry)
  BY <1>5, <1>7, SMTT(30)
<1> QED
  BY <1>2, <1>8, Zenon DEF OnDisk, DiskType

\* frames_to_memlog undoes memlog_to_frames: only the snapshot's bytes are lost.
LEMMA LoadedLogBack ==
    ASSUME NEW n \in NodeType,
           n.log.lastIncludedIndex = 0 => n.log.lastIncludedTerm = 0
    PROVE  LoadedLog(OnDisk(n)) = Reloaded(n.log)
<1> DEFINE log == n.log
           d == OnDisk(n)
           base == InstallSnapshot(EmptyLog, log.lastIncludedIndex, log.lastIncludedTerm, EmptyImage)
           es == [k \in DOMAIN d.frames |-> [term |-> d.frames[k].term, command |-> d.frames[k].command]]
<1>1. log \in LogType /\ log.entries \in Seq(Entry)
  BY Zenon DEF NodeType, LogType
<1>2. /\ d.hard.lastIncludedIndex = log.lastIncludedIndex
      /\ d.hard.lastIncludedTerm = log.lastIncludedTerm
      /\ d.frames = Frames(log)
  BY Zenon DEF OnDisk, HardState
<1>3. es = log.entries
  <2>1. /\ DOMAIN Frames(log) = DOMAIN log.entries
        /\ \A k \in DOMAIN log.entries : /\ Frames(log)[k].term = log.entries[k].term
                                         /\ Frames(log)[k].command = log.entries[k].command
    BY Zenon DEF Frames
  <2>2. \A k \in DOMAIN log.entries : log.entries[k] \in Entry
    BY <1>1, SMTT(30)
  <2>3. \A k \in DOMAIN log.entries :
            [term |-> log.entries[k].term, command |-> log.entries[k].command] = log.entries[k]
    BY <2>2, Zenon DEF Entry
  <2>4. es = [k \in DOMAIN log.entries |-> log.entries[k]]
    BY <1>2, <2>1, <2>3, Zenon
  <2> HIDE DEF es
  <2> QED
    BY <1>1, <2>4, SMTT(30)
<1>4. LoadedLog(d) = [base EXCEPT !.entries = es]
  BY <1>2, Zenon DEF LoadedLog
<1> HIDE DEF es, d
<1>5. CASE log.lastIncludedIndex = 0
  <2>1. base = EmptyLog
    BY <1>5, SMTT(30) DEF InstallSnapshot, EmptyLog
  <2>2. [EmptyLog EXCEPT !.entries = log.entries] =
          [entries |-> log.entries, lastIncludedIndex |-> 0, lastIncludedTerm |-> 0, snapshot |-> NoImage]
    BY SMTT(30) DEF EmptyLog
  <2>3. Reloaded(log) =
          [entries |-> log.entries, lastIncludedIndex |-> 0, lastIncludedTerm |-> 0, snapshot |-> NoImage]
    BY <1>1, <1>5, SMTT(30) DEF Reloaded, LogType
  <2> QED
    BY <1>3, <1>4, <2>1, <2>2, <2>3, Zenon DEF d
<1>6. CASE log.lastIncludedIndex > 0
  <2>1. base = [entries |-> SubSeq(<< >>, log.lastIncludedIndex - 0 + 1, Len(<< >>)),
                lastIncludedIndex |-> log.lastIncludedIndex,
                lastIncludedTerm |-> log.lastIncludedTerm, snapshot |-> EmptyImage]
    BY <1>1, <1>6, SMTT(30) DEF InstallSnapshot, EmptyLog, LogType
  <2> HIDE DEF base
  <2>2. [base EXCEPT !.entries = es] =
          [entries |-> es, lastIncludedIndex |-> log.lastIncludedIndex,
           lastIncludedTerm |-> log.lastIncludedTerm, snapshot |-> EmptyImage]
    BY <2>1, SMTT(30)
  <2>3. Reloaded(log) =
          [entries |-> log.entries, lastIncludedIndex |-> log.lastIncludedIndex,
           lastIncludedTerm |-> log.lastIncludedTerm, snapshot |-> EmptyImage]
    BY <1>1, <1>6, SMTT(30) DEF Reloaded, LogType
  <2> QED
    BY <1>3, <1>4, <2>2, <2>3, Zenon DEF d
<1> QED
  BY <1>1, <1>5, <1>6, SMTT(30) DEF LogType

\* A new node without an apply floor recovers to a new node.
LEMMA NewNodeRecovers == Recover(NewNode, 0) = NewNode
<1>1. Reloaded(EmptyLog) = EmptyLog
  BY SMTT(30) DEF Reloaded, EmptyLog
<1>2. /\ NewNode.log = EmptyLog /\ NewNode.currentTerm = 0 /\ NewNode.votedFor = Nil
      /\ NewNode.commitIndex = 0 /\ NewNode.lastApplied = 0
  BY Zenon DEF NewNode
<1>3. ASSUME NEW n \in NodeType
      PROVE  [n EXCEPT !.currentTerm = n.currentTerm, !.votedFor = n.votedFor, !.log = n.log,
                       !.commitIndex = n.commitIndex, !.lastApplied = n.lastApplied] = n
  BY <1>3, Zenon DEF NodeType
<1>4. Recover(NewNode, 0) =
        [NewNode EXCEPT !.currentTerm = NewNode.currentTerm, !.votedFor = NewNode.votedFor,
                        !.log = NewNode.log, !.commitIndex = NewNode.commitIndex,
                        !.lastApplied = NewNode.lastApplied]
  BY <1>1, <1>2, Zenon DEF Recover
<1> QED
  BY <1>3, <1>4, NewNodeType, Zenon

\* load_state gives back what RaftNode::recover is given, the apply floor included: a
\* node that is still in term 0 has nothing to recover.
LEMMA LoadsBack ==
    ASSUME NEW n \in NodeType, NEW floor \in Nat,
           n.log.lastIncludedIndex = 0 => n.log.lastIncludedTerm = 0,
           n.currentTerm = 0 => n = NewNode /\ floor = 0
    PROVE  LoadedNode(OnDisk(n), floor) = Recover(n, floor)
<1> DEFINE d == OnDisk(n)
<1>1. d.hard = HardState(n) /\ LoadedLog(d) = Reloaded(n.log)
  BY LoadedLogBack, Zenon DEF OnDisk
<1>2. d.hard.currentTerm = n.currentTerm /\ d.hard.votedFor = n.votedFor
  BY <1>1, SMTT(30) DEF HardState
<1> HIDE DEF d
<1>3. CASE d = NewDisk
  <2>1. NewDisk.hard.currentTerm = 0
    BY Zenon DEF NewDisk, HardState, NewNode
  <2>2. n = NewNode /\ floor = 0
    BY <1>2, <1>3, <2>1, Zenon
  <2>3. LoadedNode(d, floor) = NewNode
    BY <1>3, Zenon DEF LoadedNode
  <2> QED
    BY <2>2, <2>3, NewNodeRecovers, Zenon DEF d
<1>4. CASE d # NewDisk
  <2>1. LoadedNode(d, floor) =
          [NewNode EXCEPT !.currentTerm = d.hard.currentTerm, !.votedFor = d.hard.votedFor,
                          !.log = LoadedLog(d), !.commitIndex = floor, !.lastApplied = floor]
    BY <1>4, Zenon DEF LoadedNode
  <2> QED
    BY <1>1, <1>2, <2>1, Zenon DEF Recover, d
<1> QED
  BY <1>3, <1>4, Zenon

-----------------------------------------------------------------------------
(* The cluster's own part of the invariant.                                 *)

\* No message is of term 0, and a server still in term 0 has done nothing yet.
FreshAtZero ==
    /\ \A m \in msgs : m.term > 0
    /\ \A i \in Server : node[i].currentTerm = 0 => node[i] = NewNode /\ store[i] = NewStore

\* A log without a snapshot boundary has no boundary term.
Rooted ==
    \A i \in Server : node[i].log.lastIncludedIndex = 0 => node[i].log.lastIncludedTerm = 0

ClusterInv == TypeOK /\ VotesAreBacked /\ FreshAtZero /\ Rooted

\* A new group has done nothing yet.
LEMMA ClusterInvInit == Init => ClusterInv
<1> SUFFICES ASSUME Init PROVE ClusterInv
  BY Zenon
<1>1. TypeOK /\ msgs = {}
  BY InitType, Zenon DEF Init
<1>2. \A i \in Server : node[i] = NewNode /\ store[i] = NewStore
  BY Zenon DEF Init
<1>3. /\ NewNode.role = "Follower" /\ NewNode.log.lastIncludedIndex = 0
      /\ NewNode.log.lastIncludedTerm = 0
  BY Zenon DEF NewNode, EmptyLog
<1>4. VotesAreBacked
  BY <1>1, <1>2, <1>3, Zenon DEF VotesAreBacked
<1> QED
  BY <1>1, <1>2, <1>3, <1>4, Zenon DEF ClusterInv, FreshAtZero, Rooted

\* A server's step touches no other server's store.
LEMMA ActStore ==
    ASSUME TypeOK, NEW i \in Server, Acts(i)
    PROVE  \A j \in Server : j # i => store'[j] = store[j]
<1>1. store \in [Server -> StoreType]
  BY Zenon DEF TypeOK
<1>2. ASSUME NEW n, NEW out, NEW W, Iteration(i, n, out, W)
      PROVE  \A j \in Server : j # i => store'[j] = store[j]
  BY <1>1, <1>2, Zenon DEF Iteration, LocalIteration
<1>3. CASE ElectionTimeout(i)
  BY <1>2, <1>3, Zenon DEF ElectionTimeout
<1>4. CASE Heartbeat(i)
  BY <1>2, <1>4, Zenon DEF Heartbeat
<1>5. ASSUME NEW m \in msgs, Receive(i, m)
      PROVE  \A j \in Server : j # i => store'[j] = store[j]
  BY <1>2, <1>5, Zenon DEF Receive
<1>6. ASSUME NEW v \in Value, ClientPropose(i, v)
      PROVE  \A j \in Server : j # i => store'[j] = store[j]
  BY <1>2, <1>6, Zenon DEF ClientPropose
<1>7. CASE ClientRead(i)
  BY <1>2, <1>7, Zenon DEF ClientRead
<1>8. CASE Transfer(i)
  BY <1>8, Zenon DEF Transfer
<1>9. CASE Restart(i)
  BY <1>1, <1>9, Zenon DEF Restart
<1> QED
  BY <1>3, <1>4, <1>5, <1>6, <1>7, <1>8, <1>9, Zenon DEF Acts

\* Nothing a server does in term 0 can be seen: a step either ends in a later term or
\* restarts a server that has nothing to load.
LEMMA FreshStep ==
    ASSUME NatWellOrdered, TypeOK, VotesAreBacked, FreshAtZero, NEW i \in Server, Acts(i)
    PROVE  FreshAtZero'
<1>1. PICK p, out :
          /\ BallotMove(i, p, out)
          /\ \/ p.currentTerm > node[i].currentTerm
             \/ node[i].role = "Leader"
             \/ \E m \in msgs : p.currentTerm >= m.term
             \/ Restart(i)
  BY ActMove, Zenon
<1>2. /\ p \in NodeType
      /\ node' = [node EXCEPT ![i] = p] /\ msgs' = msgs \cup out
      /\ p.currentTerm >= node[i].currentTerm
      /\ \A g \in out : g.term = p.currentTerm
  BY <1>1, Zenon DEF BallotMove, BallotStep
<1>3. /\ node \in [Server -> NodeType] /\ store \in [Server -> StoreType]
      /\ \A m \in msgs : m.term \in Nat
  BY MessageKinds, Zenon DEF TypeOK
<1>9. p.currentTerm \in Nat /\ node[i].currentTerm \in Nat
  BY <1>2, <1>3, Zenon DEF NodeType
<1>4. node'[i] = p /\ \A j \in Server : j # i => node'[j] = node[j] /\ store'[j] = store[j]
  BY <1>2, <1>3, ActStore, Zenon
<1>5. ASSUME p.currentTerm > 0 PROVE FreshAtZero'
  BY <1>2, <1>4, <1>5, <1>9, SMTT(30) DEF FreshAtZero
<1>6. NewNode.role = "Follower"
  BY Zenon DEF NewNode
<1>7. p.currentTerm > 0 \/ (p.currentTerm = 0 /\ Restart(i))
  BY <1>1, <1>2, <1>3, <1>6, <1>9, SMTT(30) DEF FreshAtZero
<1>8. ASSUME p.currentTerm = 0, Restart(i) PROVE FreshAtZero'
  <2>1. node[i] = NewNode /\ store[i] = NewStore
    BY <1>2, <1>3, <1>8, <1>9, SMTT(30) DEF FreshAtZero
  <2>2. /\ node'[i] = Recover(node[i], store[i].floor) /\ store'[i] = Reopened(store[i])
        /\ msgs' = msgs
    BY <1>3, <1>8, Zenon DEF Restart
  <2>3. node'[i] = NewNode
    BY <2>1, <2>2, NewNodeRecovers, SMTT(30) DEF NewStore
  <2>4. Reopened(NewStore) = NewStore
    BY Zenon DEF Reopened, Installed, NewStore, NoImage
  <2> QED
    BY <1>4, <2>1, <2>2, <2>3, <2>4, Zenon DEF FreshAtZero
<1> QED
  BY <1>5, <1>7, <1>8, Zenon

\* Every step of the group keeps its part of the invariant.
LEMMA ClusterInvStep ==
    ASSUME NatWellOrdered
    PROVE  ClusterInv /\ [Next]_vars => ClusterInv'
<1> SUFFICES ASSUME ClusterInv, [Next]_vars
             PROVE  ClusterInv'
  BY Zenon
<1>1. TypeOK /\ TypeOK'
  BY StepType, Zenon DEF ClusterInv
<1>2. VotesAreBacked'
  BY VotesStep, Zenon DEF ClusterInv
<1>3. CASE UNCHANGED vars
  BY <1>1, <1>2, <1>3, Zenon DEF vars, ClusterInv, FreshAtZero, Rooted
<1>4. CASE Next
  <2>1. FreshAtZero'
    BY <1>1, <1>4, NextActs, FreshStep, Zenon DEF ClusterInv
  <2>2. \A i \in Server : Boundary(node[i], node'[i])
    BY <1>1, <1>4, NextBoundary, Zenon DEF ClusterInv
  <2>3. \A i \in Server : /\ node[i].log.lastIncludedIndex \in Nat
                          /\ node'[i].log.lastIncludedIndex \in Nat
    BY <1>1, Zenon DEF TypeOK, NodeType, LogType
  <2>4. Rooted'
    BY <2>2, <2>3, SMTT(30) DEF ClusterInv, Rooted, Boundary
  <2> QED
    BY <1>1, <1>2, <2>1, <2>4, Zenon DEF ClusterInv
<1> QED
  BY <1>3, <1>4, Zenon

-----------------------------------------------------------------------------
(* The files.                                                               *)

\* What the files hold in each phase of an iteration.
FilesMatch ==
    /\ disk \in [Server -> DiskType]
    /\ phase \in [Server -> Phases]
    /\ \A i \in Server :
          /\ phase[i] = "saved" => disk[i] = OnDisk(node[i])
          /\ phase[i] = "hardSaved" => disk[i].hard = HardState(node[i])

\* The inductive invariant of the refinement.
PersistInv == ClusterInv /\ FilesMatch

\* The files of a new server are those of a new node.
LEMMA NewDiskMatches == OnDisk(NewNode) = NewDisk
<1>1. Frames(NewNode.log) = << >>
  BY SMTT(30) DEF Frames, NewNode, EmptyLog
<1> QED
  BY <1>1, Zenon DEF OnDisk, NewDisk

\* The group starts as RaftCluster does, with files that match.
LEMMA FilesInit == PInit => PersistInv /\ Init
<1> SUFFICES ASSUME PInit PROVE PersistInv /\ Init
  BY Zenon
<1>1. Init /\ ClusterInv
  BY ClusterInvInit, Zenon DEF PInit
<1>2. NewDisk \in DiskType
  BY NewDiskMatches, NewNodeType, OnDiskType, Zenon
<1>3. \A i \in Server : node[i] = NewNode
  BY <1>1, Zenon DEF Init
<1>4. disk = [i \in Server |-> NewDisk] /\ phase = [i \in Server |-> "saved"]
  BY Zenon DEF PInit
<1>5. FilesMatch
  BY <1>2, <1>3, <1>4, NewDiskMatches, Zenon DEF FilesMatch, Phases
<1> QED
  BY <1>1, <1>5, Zenon DEF PersistInv

\* Writing the first file, then the second, brings both up to the node.
LEMMA SavesMatch ==
    ASSUME PersistInv, NEW i \in Server, SaveHardState(i) \/ SaveLog(i)
    PROVE  FilesMatch' /\ UNCHANGED vars
<1>1. /\ disk \in [Server -> DiskType] /\ phase \in [Server -> Phases]
      /\ node \in [Server -> NodeType]
  BY Zenon DEF PersistInv, ClusterInv, FilesMatch, TypeOK
<1>2. UNCHANGED vars /\ node' = node
  BY Zenon DEF SaveHardState, SaveLog, vars
<1>3. HardState(node[i]) \in HardType /\ Frames(node[i].log) \in Seq(AppliedEntry)
  BY <1>1, OnDiskType, Zenon
<1>4. disk[i] \in DiskType /\ disk[i] = [hard |-> disk[i].hard, frames |-> disk[i].frames]
  BY <1>1, Zenon DEF DiskType
<1> DEFINE h == [hard |-> HardState(node[i]), frames |-> disk[i].frames]
           l == [hard |-> disk[i].hard, frames |-> Frames(node[i].log)]
<1>5. ASSUME NEW d \in DiskType, NEW f \in Phases,
             disk' = [disk EXCEPT ![i] = d], phase' = [phase EXCEPT ![i] = f],
             f = "saved" => d = OnDisk(node[i]),
             f = "hardSaved" => d.hard = HardState(node[i])
      PROVE  FilesMatch'
  <2>1. disk' \in [Server -> DiskType] /\ phase' \in [Server -> Phases]
    BY <1>1, <1>5, Zenon
  <2>2. disk'[i] = d /\ phase'[i] = f
    BY <1>1, <1>5, Zenon
  <2>3. \A j \in Server : j # i => disk'[j] = disk[j] /\ phase'[j] = phase[j]
    BY <1>1, <1>5, Zenon
  <2> QED
    BY <1>2, <1>5, <2>1, <2>2, <2>3, Zenon DEF PersistInv, FilesMatch
<1>6. CASE SaveHardState(i)
  <2>1. disk' = [disk EXCEPT ![i] = h] /\ phase' = [phase EXCEPT ![i] = "hardSaved"]
    <3>1. /\ disk' = [disk EXCEPT ![i] = [disk[i] EXCEPT !.hard = HardState(node[i])]]
          /\ phase' = [phase EXCEPT ![i] = "hardSaved"]
      BY <1>6, Zenon DEF SaveHardState
    <3>2. [disk[i] EXCEPT !.hard = HardState(node[i])] = h
      BY <1>4, SMTT(30) DEF DiskType
    <3> QED
      BY <3>1, <3>2, Zenon
  <2>2. h \in DiskType /\ h.hard = HardState(node[i]) /\ "hardSaved" \in Phases
    BY <1>3, <1>4, Zenon DEF DiskType, Phases
  <2> HIDE DEF h
  <2> QED
    BY <1>2, <1>5, <2>1, <2>2, Zenon
<1>7. CASE SaveLog(i)
  <2>1. disk' = [disk EXCEPT ![i] = l] /\ phase' = [phase EXCEPT ![i] = "saved"]
    <3>1. /\ disk' = [disk EXCEPT ![i] = [disk[i] EXCEPT !.frames = Frames(node[i].log)]]
          /\ phase' = [phase EXCEPT ![i] = "saved"]
      BY <1>7, Zenon DEF SaveLog
    <3>2. [disk[i] EXCEPT !.frames = Frames(node[i].log)] = l
      BY <1>4, SMTT(30) DEF DiskType
    <3> QED
      BY <3>1, <3>2, Zenon
  <2>2. disk[i].hard = HardState(node[i])
    BY <1>7, Zenon DEF SaveLog, PersistInv, FilesMatch
  <2>3. l \in DiskType /\ l = OnDisk(node[i]) /\ "saved" \in Phases
    BY <1>3, <1>4, <2>2, Zenon DEF DiskType, Phases, OnDisk
  <2> HIDE DEF l
  <2> QED
    BY <1>2, <1>5, <2>1, <2>3, Zenon
<1> QED
  BY <1>6, <1>7, Zenon

\* The end of the iteration notices exactly whether the files still match.
LEMMA StepMatches ==
    ASSUME NatWellOrdered, PersistInv, NEW i \in Server, Step(i)
    PROVE  FilesMatch' /\ Acts(i)
<1>1. /\ disk \in [Server -> DiskType] /\ phase \in [Server -> Phases]
      /\ node \in [Server -> NodeType]
  BY Zenon DEF PersistInv, ClusterInv, FilesMatch, TypeOK
<1>2. Acts(i)
  BY Zenon DEF Step, Acts
<1>3. PICK p : node' = [node EXCEPT ![i] = p]
  BY <1>2, ActMove, Zenon DEF PersistInv, ClusterInv, BallotMove
<1>4. \A j \in Server : j # i => node'[j] = node[j]
  BY <1>1, <1>3, Zenon
<1>5. /\ disk' = disk
      /\ phase' = [phase EXCEPT ![i] = IF disk[i] = OnDisk(node'[i]) THEN "saved" ELSE "stepped"]
  BY Zenon DEF Step, OnDisk
<1>6. /\ phase' \in [Server -> Phases]
      /\ phase'[i] = IF disk[i] = OnDisk(node'[i]) THEN "saved" ELSE "stepped"
      /\ \A j \in Server : j # i => phase'[j] = phase[j]
  BY <1>1, <1>5, Zenon DEF Phases
<1>7. FilesMatch'
  BY <1>1, <1>4, <1>5, <1>6, Zenon DEF PersistInv, FilesMatch
<1> QED
  BY <1>2, <1>7, Zenon

\* A leadership transfer changes nothing that is written.
LEMMA TransferMatches ==
    ASSUME PersistInv, NEW i \in Server, TransferAnyTime(i)
    PROVE  FilesMatch' /\ Acts(i)
<1>1. /\ disk' = disk /\ phase' = phase /\ Transfer(i)
      /\ node \in [Server -> NodeType]
  BY Zenon DEF TransferAnyTime, PersistInv, ClusterInv, TypeOK
<1>2. node' = [node EXCEPT ![i] = TransferLeadership(node[i])]
  BY <1>1, Zenon DEF Transfer
<1>3. /\ node'[i] = TransferLeadership(node[i])
      /\ \A j \in Server : j # i => node'[j] = node[j]
  BY <1>1, <1>2, Zenon
<1>4. HardState(node'[i]) = HardState(node[i]) /\ node'[i].log = node[i].log
  BY <1>1, <1>3, SMTT(30) DEF TransferLeadership, StepDownKeepingVote, HardState, NodeType
<1>5. \A j \in Server : /\ HardState(node'[j]) = HardState(node[j])
                        /\ OnDisk(node'[j]) = OnDisk(node[j])
  BY <1>3, <1>4, Zenon DEF OnDisk
<1>6. FilesMatch'
  BY <1>1, <1>5, Zenon DEF PersistInv, FilesMatch
<1> QED
  BY <1>1, <1>6, Zenon DEF Acts

\* A process that stops with both files up to date comes back as Restart says.
LEMMA RecoverMatches ==
    ASSUME PersistInv, NEW i \in Server, CrashAndRecover(i), phase[i] = "saved"
    PROVE  FilesMatch' /\ Acts(i)
<1>1. /\ disk \in [Server -> DiskType] /\ phase \in [Server -> Phases]
      /\ node \in [Server -> NodeType] /\ store \in [Server -> StoreType]
  BY Zenon DEF PersistInv, ClusterInv, FilesMatch, TypeOK
<1> DEFINE n == node[i]
           floor == store[i].floor
           p == Recover(n, floor)
<1>2. n \in NodeType /\ floor \in Nat
  BY <1>1, Zenon DEF StoreType
<1>3. /\ n.log.lastIncludedIndex = 0 => n.log.lastIncludedTerm = 0
      /\ n.currentTerm = 0 => n = NewNode /\ floor = 0
  BY SMTT(30) DEF PersistInv, ClusterInv, Rooted, FreshAtZero, NewStore
<1>4. disk[i] = OnDisk(n)
  BY Zenon DEF PersistInv, FilesMatch
<1>5. LoadedNode(disk[i], floor) = p
  BY <1>2, <1>3, <1>4, LoadsBack, Zenon
<1>6. node' = [node EXCEPT ![i] = p]
  BY <1>5, Zenon DEF CrashAndRecover
<1>7. Restart(i)
  BY <1>6, Zenon DEF CrashAndRecover, Restart
<1>8. OnDisk(p) = OnDisk(n)
  <2>1. /\ p.currentTerm = n.currentTerm /\ p.votedFor = n.votedFor /\ p.log = Reloaded(n.log)
    BY Zenon DEF Recover, NewNode
  <2>2. /\ p.log.entries = n.log.entries /\ p.log.lastIncludedIndex = n.log.lastIncludedIndex
        /\ p.log.lastIncludedTerm = n.log.lastIncludedTerm
    BY <1>2, <2>1, Zenon DEF Reloaded, NodeType, LogType
  <2> HIDE DEF p
  <2> QED
    BY <2>1, <2>2, Zenon DEF OnDisk, HardState, Frames
<1>9. /\ disk' = disk /\ phase' = [phase EXCEPT ![i] = "saved"]
      /\ node'[i] = p /\ \A j \in Server : j # i => node'[j] = node[j]
  BY <1>1, <1>6, Zenon DEF CrashAndRecover
<1> HIDE DEF p, n
<1>10. /\ phase' \in [Server -> Phases] /\ phase'[i] = "saved"
       /\ \A j \in Server : j # i => phase'[j] = phase[j]
  BY <1>1, <1>9, Zenon DEF Phases
<1>11. FilesMatch'
  BY <1>1, <1>4, <1>8, <1>9, <1>10, Zenon DEF PersistInv, FilesMatch
<1> QED
  BY <1>7, <1>11, Zenon DEF Acts

\* Every step keeps the files matched and is a step of RaftCluster or leaves its state.
LEMMA FilesStep ==
    ASSUME NatWellOrdered, CrashPhases \subseteq {"saved"}, PersistInv, [PNext]_pvars
    PROVE  PersistInv' /\ [Next]_vars
<1>1. ASSUME NEW i \in Server, FilesMatch', Acts(i) PROVE PersistInv' /\ [Next]_vars
  <2>1. Next
    BY <1>1, NextActs, Zenon DEF PersistInv, ClusterInv
  <2> QED
    BY <1>1, <2>1, ClusterInvStep, Zenon DEF PersistInv
<1>2. ASSUME FilesMatch', UNCHANGED vars PROVE PersistInv' /\ [Next]_vars
  BY <1>2, ClusterInvStep, Zenon DEF PersistInv
<1>3. CASE UNCHANGED pvars
  <2>1. UNCHANGED vars /\ node' = node /\ disk' = disk /\ phase' = phase
    BY <1>3, Zenon DEF pvars, vars
  <2>2. FilesMatch'
    BY <2>1, Zenon DEF PersistInv, FilesMatch
  <2> QED
    BY <1>2, <2>1, <2>2, Zenon
<1>4. ASSUME NEW i \in Server,
             \/ Step(i) \/ SaveHardState(i) \/ SaveLog(i)
             \/ TransferAnyTime(i) \/ CrashAndRecover(i)
      PROVE  PersistInv' /\ [Next]_vars
  <2>1. CASE Step(i)
    BY <1>1, <2>1, StepMatches, Zenon
  <2>2. CASE SaveHardState(i) \/ SaveLog(i)
    BY <1>2, <2>2, SavesMatch, Zenon
  <2>3. CASE TransferAnyTime(i)
    BY <1>1, <2>3, TransferMatches, Zenon
  <2>4. CASE CrashAndRecover(i)
    <3>1. phase[i] = "saved"
      BY <2>4, Zenon DEF CrashAndRecover
    <3> QED
      BY <1>1, <2>4, <3>1, RecoverMatches, Zenon
  <2> QED
    BY <1>4, <2>1, <2>2, <2>3, <2>4, Zenon
<1> QED
  BY <1>3, <1>4, Zenon DEF PNext

\* So every run of it is a run of RaftCluster.
LEMMA RunsImplement ==
    ASSUME NatWellOrdered, CrashPhases \subseteq {"saved"}
    PROVE  PSpec => ImplementsCluster
<1>1. PersistInv /\ [PNext]_pvars => PersistInv' /\ [Next]_vars
  BY FilesStep, SMTT(30)
<1> QED
  BY <1>1, FilesInit, PTL DEF PSpec, ImplementsCluster, Spec

-----------------------------------------------------------------------------
(* The result.                                                              *)

LOCAL INSTANCE WellFoundedInduction

\* Every set of naturals that is not empty has a least member.
LEMMA WellOrder == NatWellOrdered
<1> SUFFICES ASSUME NEW S, S \subseteq Nat, S # {} PROVE \E x \in S : \A y \in S : x <= y
  BY Zenon DEF NatWellOrdered
<1>1. PICK x \in S : \A y \in S : ~(<<y, x>> \in OpToRel(<, Nat))
  BY NatLessThanWellFounded, WFMin, Zenon
<1>2. \A y \in S : ~(y < x)
  BY <1>1, Zenon DEF OpToRel
<1> QED
  BY <1>2, SMTT(30)

\* A group whose processes only ever stop after persist_raft_state behaves as
\* RaftCluster, whose restart keeps term, vote and log: writing two files one after
\* the other, skipping the write for an unchanged view, rebuilding the log from its
\* frames and ignoring the apply floor of a fresh store lose nothing.
THEOREM FilesImplementCluster ==
    CrashPhases \subseteq {"saved"} => (PSpec => ImplementsCluster)
BY WellOrder, RunsImplement, Zenon

=============================================================================
