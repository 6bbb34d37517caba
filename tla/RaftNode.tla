------------------------------ MODULE RaftNode ------------------------------
(***************************************************************************)
(* One Raft node (node.rs): its state is a record, every method of the     *)
(* source is an operator from the node to the node it leaves behind, and   *)
(* the methods that fill `out` return [node, out].  "All I/O is removed    *)
(* from this struct": timers, transport and storage belong to the caller.  *)
(*                                                                         *)
(* The voter set is fixed (no ConfigChange entry is ever proposed), so the *)
(* effective configuration is Stable(Server) throughout.                   *)
(***************************************************************************)
EXTENDS RaftLog, FiniteSets

CONSTANTS Server, \* voters of the group
          Value,  \* client commands
          Nil,    \* `None` of voted_for
          Noop    \* the empty command a new leader appends

ASSUME ServerAssumption == IsFiniteSet(Server) /\ Server # {} /\ Nil \notin Server
ASSUME NoopAssumption == Noop \notin Value

Command      == Value \cup {Noop}
Entry        == [term : Nat, command : Command]
AppliedEntry == [index : Nat, term : Nat, command : Command]
ImageType    == [kind : {"none", "empty", "full"}, state : Seq(AppliedEntry)]
LogType      == [entries : Seq(Entry), lastIncludedIndex : Nat,
                 lastIncludedTerm : Nat, snapshot : ImageType]
Role         == {"Follower", "Candidate", "Leader"}
ReadType     == [readIndex : Nat, term : Nat, ackSeq : Nat, acks : SUBSET Server, seen : Nat]

NodeType ==
    [currentTerm : Nat, votedFor : Server \cup {Nil}, log : LogType,
     commitIndex : Nat, lastApplied : Nat, role : Role,
     votesReceived : SUBSET Server,
     nextIndex : [Server -> Nat], matchIndex : [Server -> Nat],
     pendingReads : SUBSET ReadType, currentAckSeq : Nat,
     lastSentAckSeq : [Server -> Nat],
     appliedEntries : Seq(AppliedEntry), pendingSnapshot : ImageType]

\* The messages of message.rs, with the envelope's addresses.
VoteRequest ==
    [type : {"VoteRequest"}, from : Server, to : Server, term : Nat,
     lastLogIndex : Nat, lastLogTerm : Nat]
VoteResponse ==
    [type : {"VoteResponse"}, from : Server, to : Server, term : Nat,
     voteGranted : BOOLEAN]
AppendRequest ==
    [type : {"AppendRequest"}, from : Server, to : Server, term : Nat,
     prevLogIndex : Nat, prevLogTerm : Nat, entries : Seq(Entry), leaderCommit : Nat]
AppendAnswer ==
    [type : {"AppendResponse"}, from : Server, to : Server, term : Nat,
     success : BOOLEAN, matchIndex : Nat]
InstallSnapshotRequest ==
    [type : {"InstallSnapshotRequest"}, from : Server, to : Server, term : Nat,
     lastIncludedIndex : Nat, lastIncludedTerm : Nat, image : ImageType]
InstallSnapshotAnswer ==
    [type : {"InstallSnapshotResponse"}, from : Server, to : Server, term : Nat,
     success : BOOLEAN]
Message == VoteRequest \cup VoteResponse \cup AppendRequest \cup AppendAnswer
             \cup InstallSnapshotRequest \cup InstallSnapshotAnswer

\* A vote given.
Grants(m) == m.type = "VoteResponse" /\ m.voteGranted

\* Mutant of QuorumSize: voters.len() / 2.
QuorumSizeFloor == Cardinality(Server) \div 2

\* voters.len().div_ceil(2)
QuorumSize == (Cardinality(Server) + 1) \div 2
IsQuorum(S) == Cardinality(S) >= QuorumSize

NewNode ==
    [currentTerm |-> 0, votedFor |-> Nil, log |-> EmptyLog,
     commitIndex |-> 0, lastApplied |-> 0, role |-> "Follower",
     votesReceived |-> {},
     nextIndex |-> [s \in Server |-> 1], matchIndex |-> [s \in Server |-> 0],
     pendingReads |-> {}, currentAckSeq |-> 0,
     lastSentAckSeq |-> [s \in Server |-> 0],
     appliedEntries |-> << >>, pendingSnapshot |-> NoImage]

\* Mutants of Recover: the vote is not read back; the apply floor is not set.
RecoverForgetsVote(n, floor) ==
    [NewNode EXCEPT !.currentTerm = n.currentTerm, !.log = Reloaded(n.log),
                    !.commitIndex = floor, !.lastApplied = floor]

RecoverIgnoresFloor(n, floor) ==
    [NewNode EXCEPT !.currentTerm = n.currentTerm, !.votedFor = n.votedFor,
                    !.log = Reloaded(n.log)]

\* RaftNode::recover followed by set_recovered_apply_floor.
Recover(n, floor) ==
    [NewNode EXCEPT !.currentTerm = n.currentTerm, !.votedFor = n.votedFor,
                    !.log = Reloaded(n.log),
                    !.commitIndex = floor, !.lastApplied = floor]

StepDownKeepingVote(n) ==
    [n EXCEPT !.role = "Follower", !.votesReceived = {}, !.pendingReads = {}]

StepDown(n, term) ==
    [StepDownKeepingVote(n) EXCEPT !.currentTerm = term, !.votedFor = Nil]

\* First thing `handle` does with every message.
ObserveTerm(n, term) == IF term > n.currentTerm THEN StepDown(n, term) ELSE n

-----------------------------------------------------------------------------
(* Commit, apply and ready reads.                                          *)

Committable(n) ==
    {k \in n.commitIndex + 1 .. LastIndex(n.log) :
        /\ TermAt(n.log, k) = n.currentTerm
        /\ IsQuorum({s \in Server : n.matchIndex[s] >= k})}

TryAdvanceCommit(n) ==
    IF n.role = "Leader" /\ Committable(n) # {}
    THEN [n EXCEPT !.commitIndex = Max(Committable(n))]
    ELSE n

\* The entries `log.get` finds between the applied and the committed index.
Unapplied(n) ==
    LET base == n.log.lastIncludedIndex
        from == Max({n.lastApplied, base})
        upto == Min({n.commitIndex, LastIndex(n.log)})
    IN  [k \in 1 .. Max({upto - from, 0}) |->
            LET e == n.log.entries[from + k - base]
            IN  [index |-> from + k, term |-> e.term, command |-> e.command]]

ReadIsReady(n, read) == IsQuorum(read.acks) /\ n.lastApplied >= read.readIndex

CheckPendingReads(n) ==
    IF n.role = "Leader"
    THEN [n EXCEPT !.pendingReads = {r \in @ : ~ReadIsReady(n, r)}]
    ELSE n

TryAdvanceApply(n) ==
    CheckPendingReads(
        [n EXCEPT !.lastApplied = Max({n.lastApplied, n.commitIndex}),
                  !.appliedEntries = @ \o Unapplied(n)])

-----------------------------------------------------------------------------
(* Sending.                                                                *)

\* A follower whose next entry is compacted away gets the snapshot instead.
AppendTo(i, n, peer) ==
    LET next == n.nextIndex[peer]
        prev == Max({next - 1, 0})
        base == n.log.lastIncludedIndex
    IN  IF next <= base /\ n.log.snapshot # NoImage
        THEN [type |-> "InstallSnapshotRequest", from |-> i, to |-> peer,
              term |-> n.currentTerm, lastIncludedIndex |-> base,
              lastIncludedTerm |-> n.log.lastIncludedTerm,
              image |-> n.log.snapshot]
        ELSE [type |-> "AppendRequest", from |-> i, to |-> peer,
              term |-> n.currentTerm, prevLogIndex |-> prev,
              prevLogTerm |-> Max({TermAt(n.log, prev), 0}),
              entries |-> EntriesFrom(n.log, next),
              leaderCommit |-> n.commitIndex]

Peers(i) == Server \ {i}

\* send_append_to_all: what it sends, and the ack sequence it notes per peer.
AppendToAll(i, n) == {AppendTo(i, n, peer) : peer \in Peers(i)}

NoteSent(n, peers) ==
    [n EXCEPT !.lastSentAckSeq =
        [s \in Server |-> IF s \in peers THEN n.currentAckSeq ELSE @[s]]]

AppendOwn(i, n, command) ==
    LET log == AppendEntry(n.log, [term |-> n.currentTerm, command |-> command])
    IN  [n EXCEPT !.log = log,
                  !.matchIndex[i] = LastIndex(log),
                  !.nextIndex[i] = LastIndex(log) + 1]

-----------------------------------------------------------------------------
(* Elections.                                                              *)

BecomeLeader(i, n) ==
    LET last == LastIndex(n.log)
        reset == [n EXCEPT !.role = "Leader",
                           !.nextIndex = [s \in Server |-> last + 1],
                           !.matchIndex = [s \in Server |-> IF s = i THEN last ELSE 0]]
        led == NoteSent(AppendOwn(i, reset, Noop), Peers(i))
    IN  [node |-> TryAdvanceApply(TryAdvanceCommit(led)),
         out |-> AppendToAll(i, led)]

StartElection(i, n) ==
    LET c == [n EXCEPT !.currentTerm = @ + 1, !.role = "Candidate",
                       !.votedFor = i, !.votesReceived = {i}]
    IN  IF IsQuorum(c.votesReceived)
        THEN BecomeLeader(i, c)
        ELSE [node |-> c,
              out |-> {[type |-> "VoteRequest", from |-> i, to |-> peer,
                        term |-> c.currentTerm,
                        lastLogIndex |-> LastIndex(c.log),
                        lastLogTerm |-> LastTerm(c.log)] : peer \in Peers(i)}]

\* Mutant of LogIsUpToDate: the candidate's log is not compared.
LogIsUpToDateSkipped(n, m) == TRUE

LogIsUpToDate(n, m) ==
    \/ m.lastLogTerm > LastTerm(n.log)
    \/ m.lastLogTerm = LastTerm(n.log) /\ m.lastLogIndex >= LastIndex(n.log)

\* Mutant of OnVoteRequest: a vote already given in the term is not looked at.
OnVoteRequestVotesAgain(i, n, m) ==
    LET granted == m.term >= n.currentTerm /\ LogIsUpToDate(n, m)
    IN  [node |-> [n EXCEPT !.votedFor = IF granted THEN m.from ELSE @],
         out |-> {[type |-> "VoteResponse", from |-> i, to |-> m.from,
                   term |-> n.currentTerm, voteGranted |-> granted]}]

OnVoteRequest(i, n, m) ==
    LET granted == /\ m.term >= n.currentTerm
                   /\ LogIsUpToDate(n, m)
                   /\ n.votedFor \in {Nil, m.from}
    IN  [node |-> [n EXCEPT !.votedFor = IF granted THEN m.from ELSE @],
         out |-> {[type |-> "VoteResponse", from |-> i, to |-> m.from,
                   term |-> n.currentTerm, voteGranted |-> granted]}]

\* Mutant of OnVoteResponse: votes of an earlier candidacy count.
OnVoteResponseCountsOld(i, n, m) ==
    LET counted == [n EXCEPT !.votesReceived = @ \cup {m.from}]
    IN  IF n.role # "Candidate" \/ ~m.voteGranted
        THEN [node |-> n, out |-> {}]
        ELSE IF IsQuorum(counted.votesReceived)
             THEN BecomeLeader(i, counted)
             ELSE [node |-> counted, out |-> {}]

OnVoteResponse(i, n, m) ==
    LET counted == [n EXCEPT !.votesReceived = @ \cup {m.from}]
    IN  IF n.role # "Candidate" \/ m.term < n.currentTerm \/ ~m.voteGranted
        THEN [node |-> n, out |-> {}]
        ELSE IF IsQuorum(counted.votesReceived)
             THEN BecomeLeader(i, counted)
             ELSE [node |-> counted, out |-> {}]

-----------------------------------------------------------------------------
(* Replication.                                                            *)

AppendResponse(i, n, to, success, matchIndex) ==
    [type |-> "AppendResponse", from |-> i, to |-> to, term |-> n.currentTerm,
     success |-> success, matchIndex |-> matchIndex]

PrevMatches(n, m) ==
    m.prevLogIndex = 0 \/ TermAt(n.log, m.prevLogIndex) = m.prevLogTerm

\* The answer's matchIndex is the follower's whole log, not the request's end.
OnAppendRequest(i, n, m) ==
    LET follower == [n EXCEPT !.role = "Follower"]
        log      == MergeEntries(n.log, m.prevLogIndex, m.entries)
        commit   == IF m.leaderCommit > n.commitIndex
                    THEN Min({m.leaderCommit, LastIndex(log)})
                    ELSE n.commitIndex
    IN  IF m.term < n.currentTerm
        THEN [node |-> n, out |-> {AppendResponse(i, n, m.from, FALSE, 0)}]
        ELSE IF ~PrevMatches(n, m)
        THEN [node |-> follower,
              out |-> {AppendResponse(i, n, m.from, FALSE, LastIndex(n.log))}]
        ELSE [node |-> [follower EXCEPT !.log = log, !.commitIndex = commit],
              out |-> {AppendResponse(i, n, m.from, TRUE, LastIndex(log))}]

\* Any answer of the current term confirms the reads sent before it, a refusal
\* too: acknowledgements are counted per peer, not per request.
AckReads(n, peer) ==
    [n EXCEPT !.pendingReads =
        {IF r.ackSeq <= n.lastSentAckSeq[peer] /\ r.term = n.currentTerm
         THEN [r EXCEPT !.acks = @ \cup {peer}]
         ELSE r : r \in @}]

\* Mutant of BackedOff: no back-off.
BackedOffNever(n, m) == n.nextIndex[m.from]

BackedOff(n, m) ==
    LET next == n.nextIndex[m.from]
    IN  IF m.matchIndex > 0 /\ m.matchIndex < next
        THEN m.matchIndex
        ELSE Max({next - 1, 1})

OnAppendResponse(i, n, m) ==
    LET acked   == AckReads(n, m.from)
        forward == IF m.matchIndex > n.matchIndex[m.from]
                   THEN [acked EXCEPT !.matchIndex[m.from] = m.matchIndex,
                                      !.nextIndex[m.from] = m.matchIndex + 1]
                   ELSE acked
        backed  == [acked EXCEPT !.nextIndex[m.from] = BackedOff(n, m)]
    IN  IF n.role # "Leader" \/ m.term < n.currentTerm
        THEN [node |-> n, out |-> {}]
        ELSE IF m.success
        THEN [node |-> TryAdvanceCommit(forward), out |-> {}]
        ELSE [node |-> NoteSent(backed, {m.from}), out |-> {AppendTo(i, backed, m.from)}]

-----------------------------------------------------------------------------
(* Snapshots.                                                              *)

Compact(n, index, term, image) ==
    [n EXCEPT !.log = InstallSnapshot(@, index, term, image),
              !.commitIndex = Max({@, index}),
              !.lastApplied = Max({@, index})]

SnapshotResponse(i, n, to, success) ==
    [type |-> "InstallSnapshotResponse", from |-> i, to |-> to,
     term |-> n.currentTerm, success |-> success]

OnInstallSnapshotRequest(i, n, m) ==
    IF m.term < n.currentTerm
    THEN [node |-> n, out |-> {SnapshotResponse(i, n, m.from, FALSE)}]
    ELSE [node |-> [Compact(n, m.lastIncludedIndex, m.lastIncludedTerm, m.image)
                        EXCEPT !.pendingSnapshot = m.image],
          out |-> {SnapshotResponse(i, n, m.from, TRUE)}]

OnInstallSnapshotResponse(n, m) ==
    IF n.role # "Leader" \/ m.term < n.currentTerm \/ ~m.success
    THEN [node |-> n, out |-> {}]
    ELSE [node |-> [n EXCEPT !.matchIndex[m.from] = n.log.lastIncludedIndex,
                             !.nextIndex[m.from] = n.log.lastIncludedIndex + 1],
          out |-> {}]

-----------------------------------------------------------------------------
(* The public calls of the event loop.                                     *)

OnMessage(i, n, m) ==
    CASE m.type = "VoteRequest"             -> OnVoteRequest(i, n, m)
      [] m.type = "VoteResponse"            -> OnVoteResponse(i, n, m)
      [] m.type = "AppendRequest"           -> OnAppendRequest(i, n, m)
      [] m.type = "AppendResponse"          -> OnAppendResponse(i, n, m)
      [] m.type = "InstallSnapshotRequest"  -> OnInstallSnapshotRequest(i, n, m)
      [] m.type = "InstallSnapshotResponse" -> OnInstallSnapshotResponse(n, m)

Handle(i, n, m) ==
    LET r == OnMessage(i, ObserveTerm(n, m.term), m)
    IN  [node |-> TryAdvanceApply(r.node), out |-> r.out]

Broadcast(i, n) == [node |-> NoteSent(n, Peers(i)), out |-> AppendToAll(i, n)]

Propose(i, n, command) ==
    TryAdvanceApply(TryAdvanceCommit(AppendOwn(i, n, command)))

\* `seen` is the model's own: how much was committed anywhere when the read began.
ProposeRead(i, n, seen) ==
    CheckPendingReads(
        [n EXCEPT !.currentAckSeq = @ + 1,
                  !.pendingReads = @ \cup
                    {[readIndex |-> n.commitIndex, term |-> n.currentTerm,
                      ackSeq |-> n.currentAckSeq + 1, acks |-> {i}, seen |-> seen]}])

TransferLeadership(n) == StepDownKeepingVote(n)

=============================================================================
