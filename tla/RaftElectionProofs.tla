------------------------- MODULE RaftElectionProofs -------------------------
(***************************************************************************)
(* Type correctness of RaftCluster: one lemma per operator of RaftLog and  *)
(* RaftNode, then one step per action.  Then elections: at most one leader *)
(* per term, and a vote is final, for groups of every size.  The inductive *)
(* invariant is TypeOK /\ VotesAreBacked.  All that matters of a step is   *)
(* what it does to the ballot of the one server that takes it and which    *)
(* votes it grants: BallotStep.                                            *)
(***************************************************************************)
EXTENDS RaftCluster, RaftSteps

-----------------------------------------------------------------------------
(* The log.                                                                *)

\* last_index() of a well-typed log is a number not below the snapshot boundary.
LEMMA LastIndexType ==
    ASSUME NEW log \in LogType
    PROVE  LastIndex(log) \in Nat /\ LastIndex(log) >= log.lastIncludedIndex
BY SMTT(30) DEF LastIndex, LogType

\* last_term() of a well-typed log is a term.
LEMMA LastTermType ==
    ASSUME NEW log \in LogType
    PROVE  LastTerm(log) \in Nat
<1>1. CASE log.entries = << >>
  BY <1>1, Zenon DEF LastTerm, LogType
<1>2. CASE log.entries # << >>
  <2>1. Len(log.entries) \in 1 .. Len(log.entries)
    BY <1>2, SMTT(30) DEF LogType
  <2>2. log.entries[Len(log.entries)] \in Entry
    BY <2>1, SMTT(30) DEF LogType
  <2> QED
    BY <1>2, <2>2, Zenon DEF LastTerm, Entry
<1> QED
  BY <1>1, <1>2, Zenon

\* term_at(k) is a term, or none.
LEMMA TermAtType ==
    ASSUME NEW log \in LogType, NEW k \in Nat
    PROVE  TermAt(log, k) \in Nat \cup {NoTerm}
<1>1. log.lastIncludedIndex \in Nat /\ log.lastIncludedTerm \in Nat /\ log.entries \in Seq(Entry)
  BY Zenon DEF LogType
<1>2. (k > log.lastIncludedIndex /\ k <= LastIndex(log))
        => log.entries[k - log.lastIncludedIndex] \in Entry
  BY <1>1, SMTT(30) DEF LastIndex
<1> QED
  BY <1>1, <1>2, SMTT(30) DEF TermAt, Entry

\* install_snapshot keeps the log well typed, whatever part of it is dropped.
LEMMA InstallSnapshotType ==
    ASSUME NEW log \in LogType, NEW k \in Nat, NEW t \in Nat, NEW im \in ImageType
    PROVE  InstallSnapshot(log, k, t, im) \in LogType
<1>1. CASE k <= log.lastIncludedIndex
  BY <1>1, Zenon DEF InstallSnapshot
<1>2. CASE ~(k <= log.lastIncludedIndex)
  <2>1. k - log.lastIncludedIndex + 1 \in Nat \ {0} /\ log.entries \in Seq(Entry)
    BY <1>2, SMTT(30) DEF LogType
  <2>2. SubSeq(log.entries, k - log.lastIncludedIndex + 1, Len(log.entries)) \in Seq(Entry)
    BY <2>1, SliceType, SMTT(30)
  <2> QED
    BY <1>2, <2>2, Zenon DEF InstallSnapshot, LogType
<1> QED
  BY <1>1, <1>2, Zenon

\* entries_from(k) is a sequence of entries.
LEMMA EntriesFromType ==
    ASSUME NEW log \in LogType, NEW k \in Nat
    PROVE  EntriesFrom(log, k) \in Seq(Entry)
<1>1. CASE k <= log.lastIncludedIndex
  BY <1>1, SMTT(30) DEF EntriesFrom
<1>2. CASE ~(k <= log.lastIncludedIndex)
  <2>1. k - log.lastIncludedIndex \in Nat \ {0} /\ log.entries \in Seq(Entry)
    BY <1>2, SMTT(30) DEF LogType
  <2> QED
    BY <1>2, <2>1, SliceType, SMTT(30) DEF EntriesFrom
<1> QED
  BY <1>1, <1>2, Zenon

\* The log read back from disk, whose snapshot has lost its data, is well typed.
LEMMA ReloadedType ==
    ASSUME NEW log \in LogType
    PROVE  Reloaded(log) \in LogType
<1>1. EmptyImage \in ImageType /\ NoImage \in ImageType
  BY SMTT(30) DEF EmptyImage, NoImage, ImageType
<1> QED
  BY <1>1, Zenon DEF Reloaded, LogType

-----------------------------------------------------------------------------
(* The node.  SameBallot(n, p): p votes and leads as n does.               *)

SameBallot(n, p) ==
    /\ p.currentTerm = n.currentTerm
    /\ p.votedFor = n.votedFor
    /\ p.role = n.role
    /\ p.votesReceived = n.votesReceived

\* The two special images are images.
LEMMA ImagesTyped == NoImage \in ImageType /\ EmptyImage \in ImageType
BY SMTT(30) DEF NoImage, EmptyImage, ImageType

\* A node that RaftNode::new builds is well typed.
LEMMA NewNodeType == NewNode \in NodeType
<1>1. EmptyLog \in LogType
  BY ImagesTyped, SMTT(30) DEF EmptyLog, LogType
<1> QED
  BY <1>1, ImagesTyped, SMTT(30) DEF NewNode, NodeType, Role

\* RaftNode::recover gives a follower with the term and the vote it had.
LEMMA RecoverType ==
    ASSUME NEW n \in NodeType, NEW floor \in Nat
    PROVE  /\ Recover(n, floor) \in NodeType
           /\ Recover(n, floor).currentTerm = n.currentTerm
           /\ Recover(n, floor).votedFor = n.votedFor
           /\ Recover(n, floor).role = "Follower"
<1>1. n.log \in LogType
  BY Zenon DEF NodeType
<1>2. Reloaded(n.log) \in LogType
  BY <1>1, ReloadedType, Zenon
<1>3. NewNode.role = "Follower"
  BY Zenon DEF NewNode
<1> QED
  BY <1>2, <1>3, NewNodeType, Zenon DEF Recover, NodeType, Role

\* Both forms of stepping down give a follower; only the one to a new term clears the vote.
LEMMA StepDownType ==
    ASSUME NEW n \in NodeType, NEW t \in Nat
    PROVE  /\ StepDownKeepingVote(n) \in NodeType
           /\ StepDownKeepingVote(n).currentTerm = n.currentTerm
           /\ StepDownKeepingVote(n).votedFor = n.votedFor
           /\ StepDownKeepingVote(n).role = "Follower"
           /\ StepDown(n, t) \in NodeType
           /\ StepDown(n, t).currentTerm = t
           /\ StepDown(n, t).votedFor = Nil
           /\ StepDown(n, t).role = "Follower"
BY Zenon DEF StepDownKeepingVote, StepDown, NodeType, Role

\* The term check in front of every handler leaves a node of the term alone and
\* makes any other a follower of the message's term without a vote.
LEMMA ObserveTermType ==
    ASSUME NEW n \in NodeType, NEW t \in Nat
    PROVE  /\ ObserveTerm(n, t) \in NodeType
           /\ ObserveTerm(n, t).currentTerm >= t
           /\ \/ t <= n.currentTerm /\ ObserveTerm(n, t) = n
              \/ /\ t > n.currentTerm
                 /\ ObserveTerm(n, t).currentTerm = t
                 /\ ObserveTerm(n, t).votedFor = Nil
                 /\ ObserveTerm(n, t).role = "Follower"
<1>1. n.currentTerm \in Nat
  BY Zenon DEF NodeType
<1> QED
  BY <1>1, StepDownType, SMTT(30) DEF ObserveTerm

\* try_advance_commit keeps the node well typed and its ballot.
LEMMA TryAdvanceCommitType ==
    ASSUME NatWellOrdered, NEW n \in NodeType
    PROVE  TryAdvanceCommit(n) \in NodeType /\ SameBallot(n, TryAdvanceCommit(n))
<1>1. n.commitIndex \in Nat /\ n.log \in LogType
  BY Zenon DEF NodeType
<1>2. Committable(n) \subseteq Nat /\ \A k \in Committable(n) : k <= LastIndex(n.log)
  BY <1>1, LastIndexType, SMTT(30) DEF Committable
<1>3. Committable(n) # {} => Max(Committable(n)) \in Nat
  BY <1>1, <1>2, LastIndexType, MaxNat, Zenon
<1> QED
  BY <1>3, Zenon DEF TryAdvanceCommit, NodeType, SameBallot

\* The entries try_advance_apply hands over are applied entries.
LEMMA UnappliedType ==
    ASSUME NEW n \in NodeType
    PROVE  Unapplied(n) \in Seq(AppliedEntry)
<1> DEFINE base == n.log.lastIncludedIndex
           from == Max({n.lastApplied, base})
           upto == Min({n.commitIndex, LastIndex(n.log)})
           len  == Max({upto - from, 0})
<1>1. /\ n.commitIndex \in Nat /\ n.lastApplied \in Nat /\ n.log \in LogType
      /\ base \in Nat /\ n.log.entries \in Seq(Entry) /\ LastIndex(n.log) \in Nat
  BY LastIndexType, Zenon DEF NodeType, LogType
<1>2. from \in Nat /\ from >= base
  BY <1>1, MaxPair, SMTT(30)
<1>3. upto \in Nat /\ upto <= LastIndex(n.log)
  BY <1>1, MinPair, SMTT(30)
<1> HIDE DEF from, upto
<1>4. len \in Nat /\ (len > 0 => len = upto - from)
  BY <1>2, <1>3, MaxPair, SMTT(30)
<1> HIDE DEF len
<1>5. \A k \in 1 .. len : /\ from + k - base \in 1 .. Len(n.log.entries)
                         /\ n.log.entries[from + k - base] \in Entry
                         /\ from + k \in Nat
  <2>1. LastIndex(n.log) = base + Len(n.log.entries) /\ Len(n.log.entries) \in Nat
    BY <1>1, SMTT(30) DEF LastIndex
  <2> HIDE DEF base
  <2> TAKE k \in 1 .. len
  <2>2. from + k - base \in 1 .. Len(n.log.entries) /\ from + k \in Nat
    BY <1>1, <1>2, <1>3, <1>4, <2>1, SMTT(30)
  <2> QED
    BY <1>1, <2>2, SMTT(30)
<1> DEFINE f(k) == [index |-> from + k, term |-> n.log.entries[from + k - base].term,
                    command |-> n.log.entries[from + k - base].command]
<1>6. \A k \in 1 .. len : f(k) \in AppliedEntry
  BY <1>5, Zenon DEF Entry, AppliedEntry
<1>7. Unapplied(n) = [k \in 1 .. len |-> f(k)]
  BY Zenon DEF Unapplied, from, upto, len
<1> HIDE DEF f
<1> QED
  BY <1>4, <1>6, <1>7, SMTT(30)

\* check_pending_reads keeps the node well typed and its ballot.
LEMMA CheckPendingReadsType ==
    ASSUME NEW n \in NodeType
    PROVE  CheckPendingReads(n) \in NodeType /\ SameBallot(n, CheckPendingReads(n))
BY Zenon DEF CheckPendingReads, NodeType, SameBallot

\* try_advance_apply keeps the node well typed and its ballot.
LEMMA TryAdvanceApplyType ==
    ASSUME NEW n \in NodeType
    PROVE  TryAdvanceApply(n) \in NodeType /\ SameBallot(n, TryAdvanceApply(n))
<1> DEFINE p == [n EXCEPT !.lastApplied = Max({n.lastApplied, n.commitIndex}),
                          !.appliedEntries = @ \o Unapplied(n)]
<1>1. n.lastApplied \in Nat /\ n.commitIndex \in Nat /\ n.appliedEntries \in Seq(AppliedEntry)
  BY Zenon DEF NodeType
<1>2. Max({n.lastApplied, n.commitIndex}) \in Nat
  BY <1>1, MaxPair, SMTT(30)
<1>3. n.appliedEntries \o Unapplied(n) \in Seq(AppliedEntry)
  BY <1>1, UnappliedType, JoinFacts, Zenon
<1>4. p \in NodeType /\ SameBallot(n, p)
  BY <1>2, <1>3, Zenon DEF NodeType, SameBallot
<1>5. TryAdvanceApply(n) = CheckPendingReads(p)
  BY Zenon DEF TryAdvanceApply
<1> HIDE DEF p
<1> QED
  BY <1>4, <1>5, CheckPendingReadsType, Zenon DEF SameBallot

\* send_append_to sends a message: an append or, behind the boundary, a snapshot.
LEMMA AppendToType ==
    ASSUME NEW i \in Server, NEW n \in NodeType, NEW peer \in Server
    PROVE  /\ AppendTo(i, n, peer) \in Message /\ AppendTo(i, n, peer).type # "VoteResponse"
           /\ AppendTo(i, n, peer).term = n.currentTerm
<1> DEFINE next == n.nextIndex[peer]
           prev == Max({next - 1, 0})
<1>1. next \in Nat /\ n.log \in LogType /\ n.currentTerm \in Nat /\ n.commitIndex \in Nat
  BY Zenon DEF NodeType
<1>2. prev \in Nat
  BY <1>1, MaxPair, SMTT(30)
<1>3. Max({TermAt(n.log, prev), 0}) \in Nat
  <2> DEFINE t == TermAt(n.log, prev)
  <2>1. t \in Int
    BY <1>1, <1>2, TermAtType, SMTT(30) DEF NoTerm
  <2> HIDE DEF t
  <2>2. Max({t, 0}) \in Nat
    BY <2>1, MaxPair, SMTT(30)
  <2> QED
    BY <2>2, Zenon DEF t
<1>4. EntriesFrom(n.log, next) \in Seq(Entry)
  BY <1>1, EntriesFromType, Zenon
<1>5. CASE next <= n.log.lastIncludedIndex /\ n.log.snapshot # NoImage
  <2>1. AppendTo(i, n, peer) =
          [type |-> "InstallSnapshotRequest", from |-> i, to |-> peer,
           term |-> n.currentTerm, lastIncludedIndex |-> n.log.lastIncludedIndex,
           lastIncludedTerm |-> n.log.lastIncludedTerm, image |-> n.log.snapshot]
    BY <1>5, Zenon DEF AppendTo
  <2>2. AppendTo(i, n, peer) \in InstallSnapshotRequest
    BY <1>1, <2>1, SMTT(30) DEF InstallSnapshotRequest, LogType
  <2> QED
    BY <2>1, <2>2, SMTT(30) DEF Message
<1>6. CASE ~(next <= n.log.lastIncludedIndex /\ n.log.snapshot # NoImage)
  <2>1. AppendTo(i, n, peer) =
          [type |-> "AppendRequest", from |-> i, to |-> peer,
           term |-> n.currentTerm, prevLogIndex |-> prev,
           prevLogTerm |-> Max({TermAt(n.log, prev), 0}),
           entries |-> EntriesFrom(n.log, next), leaderCommit |-> n.commitIndex]
    BY <1>6, Zenon DEF AppendTo
  <2> HIDE DEF prev, next
  <2>2. AppendTo(i, n, peer) \in AppendRequest
    BY <1>1, <1>2, <1>3, <1>4, <2>1, SMTT(30) DEF AppendRequest
  <2> QED
    BY <2>1, <2>2, SMTT(30) DEF Message
<1> QED
  BY <1>5, <1>6, Zenon

\* What a handler may return: a node and messages of its term, none of them a granted
\* vote.
Plain(r) ==
    /\ r.node \in NodeType
    /\ r.out \subseteq Message
    /\ \A m \in r.out : ~Grants(m) /\ m.term = r.node.currentTerm

\* send_append_to_all sends messages, none of which grants a vote.
LEMMA AppendToAllType ==
    ASSUME NEW i \in Server, NEW n \in NodeType
    PROVE  /\ AppendToAll(i, n) \subseteq Message
           /\ \A m \in AppendToAll(i, n) : ~Grants(m) /\ m.term = n.currentTerm
BY AppendToType, Zenon DEF AppendToAll, Peers, Grants

\* Recording what was sent for reads keeps the node well typed and its ballot.
LEMMA NoteSentType ==
    ASSUME NEW n \in NodeType, NEW P
    PROVE  NoteSent(n, P) \in NodeType /\ SameBallot(n, NoteSent(n, P))
BY Zenon DEF NoteSent, NodeType, SameBallot

\* A leader's append to its own log keeps the node well typed and its ballot.
LEMMA AppendOwnType ==
    ASSUME NEW i \in Server, NEW n \in NodeType, NEW c \in Command
    PROVE  AppendOwn(i, n, c) \in NodeType /\ SameBallot(n, AppendOwn(i, n, c))
<1> DEFINE log == AppendEntry(n.log, [term |-> n.currentTerm, command |-> c])
<1>1. [term |-> n.currentTerm, command |-> c] \in Entry
  BY Zenon DEF NodeType, Entry
<1>2. log \in LogType
  BY <1>1, AppendEntryType, Zenon DEF NodeType
<1>3. LastIndex(log) \in Nat
  BY <1>2, LastIndexType, Zenon
<1>4. AppendOwn(i, n, c) = [n EXCEPT !.log = log, !.matchIndex[i] = LastIndex(log),
                                     !.nextIndex[i] = LastIndex(log) + 1]
  BY Zenon DEF AppendOwn
<1> HIDE DEF log
<1>5. /\ [n.matchIndex EXCEPT ![i] = LastIndex(log)] \in [Server -> Nat]
      /\ [n.nextIndex EXCEPT ![i] = LastIndex(log) + 1] \in [Server -> Nat]
  BY <1>3, SMTT(30) DEF NodeType
<1>6. AppendOwn(i, n, c) \in NodeType
  BY <1>2, <1>4, <1>5, Zenon DEF NodeType
<1>7. SameBallot(n, AppendOwn(i, n, c))
  BY <1>4, Zenon DEF NodeType, SameBallot
<1> QED
  BY <1>6, <1>7, Zenon

\* become_leader changes the role, keeps term and vote, and grants no vote.
LEMMA BecomeLeaderType ==
    ASSUME NatWellOrdered, NEW i \in Server, NEW n \in NodeType
    PROVE  /\ Plain(BecomeLeader(i, n))
           /\ SameBallot([n EXCEPT !.role = "Leader"], BecomeLeader(i, n).node)
<1> DEFINE last == LastIndex(n.log)
           reset == [n EXCEPT !.role = "Leader",
                              !.nextIndex = [s \in Server |-> last + 1],
                              !.matchIndex = [s \in Server |-> IF s = i THEN last ELSE 0]]
           led == NoteSent(AppendOwn(i, reset, Noop), Peers(i))
<1>1. last \in Nat
  BY LastIndexType, Zenon DEF NodeType
<1> HIDE DEF last
<1>2. reset \in NodeType /\ SameBallot([n EXCEPT !.role = "Leader"], reset)
  <2>1. /\ [s \in Server |-> last + 1] \in [Server -> Nat]
        /\ [s \in Server |-> IF s = i THEN last ELSE 0] \in [Server -> Nat]
    BY <1>1, SMTT(30)
  <2>2. reset \in NodeType
    BY <2>1, Zenon DEF NodeType, Role
  <2>3. SameBallot([n EXCEPT !.role = "Leader"], reset)
    BY Zenon DEF NodeType, SameBallot
  <2> QED
    BY <2>2, <2>3, Zenon
<1> HIDE DEF reset
<1>3. AppendOwn(i, reset, Noop) \in NodeType /\ SameBallot(reset, AppendOwn(i, reset, Noop))
  BY <1>2, AppendOwnType, Zenon DEF Command
<1>4. led \in NodeType /\ SameBallot(AppendOwn(i, reset, Noop), led)
  BY <1>3, NoteSentType, Zenon
<1>5. BecomeLeader(i, n) = [node |-> TryAdvanceApply(TryAdvanceCommit(led)),
                            out |-> AppendToAll(i, led)]
  BY Zenon DEF BecomeLeader, reset, last
<1> HIDE DEF led
<1>6. /\ TryAdvanceCommit(led) \in NodeType
      /\ SameBallot(led, TryAdvanceCommit(led))
  BY <1>4, TryAdvanceCommitType, Zenon
<1>7. /\ TryAdvanceApply(TryAdvanceCommit(led)) \in NodeType
      /\ SameBallot(TryAdvanceCommit(led), TryAdvanceApply(TryAdvanceCommit(led)))
  BY <1>6, TryAdvanceApplyType, Zenon
<1>8. Plain(BecomeLeader(i, n))
  <2>1. TryAdvanceApply(TryAdvanceCommit(led)).currentTerm = led.currentTerm
    BY <1>6, <1>7, Zenon DEF SameBallot
  <2> QED
    BY <1>4, <1>5, <1>7, <2>1, AppendToAllType, SMTT(30) DEF Plain
<1>9. SameBallot([n EXCEPT !.role = "Leader"], BecomeLeader(i, n).node)
  BY <1>2, <1>3, <1>4, <1>5, <1>6, <1>7, SMTT(30) DEF SameBallot
<1> QED
  BY <1>8, <1>9, Zenon

\* What every other handler does to the ballot: nothing, or it gives up its role.
KeepsBallot(n, p) ==
    /\ p.currentTerm = n.currentTerm
    /\ p.votedFor = n.votedFor
    /\ \/ p.role = "Follower"
       \/ p.role = n.role /\ p.votesReceived = n.votesReceived

\* start_election opens a new term with a vote for itself, and leads at once only
\* if that vote is a quorum.
LEMMA StartElectionType ==
    ASSUME NatWellOrdered, NEW i \in Server, NEW n \in NodeType
    PROVE  /\ Plain(StartElection(i, n))
           /\ StartElection(i, n).node.currentTerm = n.currentTerm + 1
           /\ StartElection(i, n).node.votedFor = i
           /\ StartElection(i, n).node.votesReceived = {i}
           /\ \/ StartElection(i, n).node.role = "Candidate"
              \/ StartElection(i, n).node.role = "Leader" /\ IsQuorum({i})
<1> DEFINE c == [n EXCEPT !.currentTerm = @ + 1, !.role = "Candidate",
                          !.votedFor = i, !.votesReceived = {i}]
           req(peer) == [type |-> "VoteRequest", from |-> i, to |-> peer,
                         term |-> c.currentTerm, lastLogIndex |-> LastIndex(c.log),
                         lastLogTerm |-> LastTerm(c.log)]
<1>1. /\ c \in NodeType
      /\ c.currentTerm = n.currentTerm + 1 /\ c.votedFor = i /\ c.votesReceived = {i}
      /\ c.role = "Candidate"
  <2>1. n.currentTerm + 1 \in Nat /\ {i} \in SUBSET Server /\ "Candidate" \in Role
    BY SMTT(30) DEF NodeType, Role
  <2>2. c \in NodeType
    BY <2>1, Zenon DEF NodeType
  <2> QED
    BY <2>2, Zenon DEF NodeType
<1>2. StartElection(i, n) = IF IsQuorum(c.votesReceived) THEN BecomeLeader(i, c)
                            ELSE [node |-> c, out |-> {req(peer) : peer \in Peers(i)}]
  BY Zenon DEF StartElection
<1> HIDE DEF c
<1>3. CASE IsQuorum(c.votesReceived)
  <2>1. Plain(StartElection(i, n)) /\ SameBallot([c EXCEPT !.role = "Leader"], StartElection(i, n).node)
    BY <1>1, <1>2, <1>3, BecomeLeaderType, Zenon
  <2>2. SameBallot([c EXCEPT !.role = "Leader"], StartElection(i, n).node) =>
          /\ StartElection(i, n).node.currentTerm = c.currentTerm
          /\ StartElection(i, n).node.votedFor = c.votedFor
          /\ StartElection(i, n).node.votesReceived = c.votesReceived
          /\ StartElection(i, n).node.role = "Leader"
    BY <1>1, Zenon DEF SameBallot, NodeType
  <2> QED
    BY <1>1, <1>3, <2>1, <2>2, Zenon
<1>4. CASE ~IsQuorum(c.votesReceived)
  <2>1. LastIndex(c.log) \in Nat /\ LastTerm(c.log) \in Nat /\ c.currentTerm \in Nat
    BY <1>1, LastIndexType, LastTermType, Zenon DEF NodeType
  <2>2. \A peer \in Peers(i) : /\ req(peer) \in VoteRequest /\ ~Grants(req(peer))
                               /\ req(peer).term = c.currentTerm
    BY <2>1, Zenon DEF VoteRequest, Peers, Grants
  <2>3. StartElection(i, n).node = c /\ StartElection(i, n).out = {req(peer) : peer \in Peers(i)}
    BY <1>2, <1>4, SMTT(30)
  <2> HIDE DEF req
  <2> QED
    BY <1>1, <2>2, <2>3, Zenon DEF Plain, Message
<1> QED
  BY <1>3, <1>4, Zenon

\* on_vote_request answers once, and grants only if it had no vote or the same one.
LEMMA OnVoteRequestType ==
    ASSUME NEW i \in Server, NEW n \in NodeType, NEW m \in VoteRequest
    PROVE  LET r == OnVoteRequest(i, n, m) IN
           /\ r.node \in NodeType
           /\ r.node.currentTerm = n.currentTerm
           /\ r.node.role = n.role
           /\ r.node.votesReceived = n.votesReceived
           /\ \E granted \in BOOLEAN :
                /\ r.out = {[type |-> "VoteResponse", from |-> i, to |-> m.from,
                             term |-> n.currentTerm, voteGranted |-> granted]}
                /\ IF granted THEN n.votedFor \in {Nil, m.from} /\ r.node.votedFor = m.from
                              ELSE r.node.votedFor = n.votedFor
           /\ r.out \subseteq Message
<1> DEFINE granted == /\ m.term >= n.currentTerm
                      /\ LogIsUpToDate(n, m)
                      /\ n.votedFor \in {Nil, m.from}
           p == [n EXCEPT !.votedFor = IF granted THEN m.from ELSE @]
           resp == [type |-> "VoteResponse", from |-> i, to |-> m.from,
                    term |-> n.currentTerm, voteGranted |-> granted]
<1>1. granted \in BOOLEAN
  BY Zenon
<1>2. OnVoteRequest(i, n, m) = [node |-> p, out |-> {resp}]
  BY Zenon DEF OnVoteRequest
<1>3. m.from \in Server
  BY Zenon DEF VoteRequest
<1>4. granted => n.votedFor \in {Nil, m.from}
  BY Zenon
<1> HIDE DEF granted
<1>5. /\ p \in NodeType /\ p.currentTerm = n.currentTerm /\ p.role = n.role
      /\ p.votesReceived = n.votesReceived
      /\ p.votedFor = IF granted THEN m.from ELSE n.votedFor
  BY <1>1, <1>3, Zenon DEF NodeType
<1>6. resp \in VoteResponse
  BY <1>1, <1>3, Zenon DEF VoteResponse, NodeType
<1>7. resp \in Message
  BY <1>6, Zenon DEF Message
<1> HIDE DEF p
<1> QED
  BY <1>1, <1>2, <1>4, <1>5, <1>7, SMTT(30)

\* on_vote_response adds at most the sender's vote, and leads only with a quorum.
LEMMA OnVoteResponseType ==
    ASSUME NatWellOrdered, NEW i \in Server, NEW n \in NodeType, NEW m \in VoteResponse
    PROVE  LET p == OnVoteResponse(i, n, m).node IN
           /\ Plain(OnVoteResponse(i, n, m))
           /\ \/ p = n
              \/ /\ m.voteGranted /\ m.term >= n.currentTerm /\ n.role = "Candidate"
                 /\ p.currentTerm = n.currentTerm /\ p.votedFor = n.votedFor
                 /\ p.votesReceived = n.votesReceived \cup {m.from}
                 /\ \/ p.role = "Candidate"
                    \/ p.role = "Leader" /\ IsQuorum(p.votesReceived)
<1> DEFINE r == OnVoteResponse(i, n, m)
           c == [n EXCEPT !.votesReceived = @ \cup {m.from}]
<1>1. /\ c \in NodeType /\ c.currentTerm = n.currentTerm /\ c.votedFor = n.votedFor
      /\ c.role = n.role /\ c.votesReceived = n.votesReceived \cup {m.from}
  BY Zenon DEF NodeType, VoteResponse
<1>2. r = IF n.role # "Candidate" \/ m.term < n.currentTerm \/ ~m.voteGranted
          THEN [node |-> n, out |-> {}]
          ELSE IF IsQuorum(c.votesReceived) THEN BecomeLeader(i, c)
               ELSE [node |-> c, out |-> {}]
  BY Zenon DEF OnVoteResponse
<1> HIDE DEF c, r
<1>3. CASE n.role # "Candidate" \/ m.term < n.currentTerm \/ ~m.voteGranted
  <2>1. r.node = n /\ r.out = {}
    BY <1>2, <1>3, Zenon
  <2> QED
    BY <2>1, Zenon DEF Plain, r
<1>4. CASE n.role = "Candidate" /\ ~(m.term < n.currentTerm) /\ m.voteGranted
  <2>1. m.term >= n.currentTerm
    BY <1>4, SMTT(30) DEF NodeType, VoteResponse
  <2>2. CASE IsQuorum(c.votesReceived)
    <3>1. r = BecomeLeader(i, c)
      BY <1>2, <1>4, <2>2, Zenon
    <3>2. Plain(r) /\ SameBallot([c EXCEPT !.role = "Leader"], r.node)
      BY <1>1, <3>1, BecomeLeaderType, Zenon
    <3>3. /\ r.node.currentTerm = c.currentTerm /\ r.node.votedFor = c.votedFor
          /\ r.node.votesReceived = c.votesReceived /\ r.node.role = "Leader"
      BY <1>1, <3>2, Zenon DEF SameBallot, NodeType
    <3> QED
      BY <1>1, <1>4, <2>1, <2>2, <3>2, <3>3, Zenon DEF r
  <2>3. CASE ~IsQuorum(c.votesReceived)
    <3>1. r.node = c /\ r.out = {}
      BY <1>2, <1>4, <2>3, Zenon
    <3> QED
      BY <1>1, <1>4, <2>1, <3>1, Zenon DEF Plain, r
  <2> QED
    BY <2>2, <2>3, Zenon
<1> QED
  BY <1>3, <1>4, Zenon DEF VoteResponse

\* An answer to an append is a message that grants no vote.
LEMMA AppendResponseType ==
    ASSUME NEW i \in Server, NEW n \in NodeType, NEW to \in Server,
           NEW ok \in BOOLEAN, NEW k \in Nat
    PROVE  /\ AppendResponse(i, n, to, ok, k) \in Message /\ ~Grants(AppendResponse(i, n, to, ok, k))
           /\ AppendResponse(i, n, to, ok, k).term = n.currentTerm
<1>1. AppendResponse(i, n, to, ok, k) \in AppendAnswer
  BY Zenon DEF AppendResponse, AppendAnswer, NodeType
<1>2. /\ AppendResponse(i, n, to, ok, k).type # "VoteResponse"
      /\ AppendResponse(i, n, to, ok, k).term = n.currentTerm
  BY Zenon DEF AppendResponse
<1> QED
  BY <1>1, <1>2, Zenon DEF Message, Grants

\* on_append_request, merge and commit included, keeps the node well typed; it may
\* end a candidacy and never touches term or vote.
LEMMA OnAppendRequestType ==
    ASSUME NatWellOrdered, NEW i \in Server, NEW n \in NodeType, NEW m \in AppendRequest
    PROVE  /\ Plain(OnAppendRequest(i, n, m))
           /\ KeepsBallot(n, OnAppendRequest(i, n, m).node)
<1> DEFINE r == OnAppendRequest(i, n, m)
           f == [n EXCEPT !.role = "Follower"]
           log == MergeEntries(n.log, m.prevLogIndex, m.entries)
           commit == IF m.leaderCommit > n.commitIndex
                     THEN Min({m.leaderCommit, LastIndex(log)}) ELSE n.commitIndex
<1>1. /\ m.from \in Server /\ m.prevLogIndex \in Nat /\ m.entries \in Seq(Entry)
      /\ m.leaderCommit \in Nat /\ m.prevLogTerm \in Nat
      /\ n.log \in LogType /\ n.commitIndex \in Nat /\ LastIndex(n.log) \in Nat
  BY LastIndexType, Zenon DEF AppendRequest, NodeType
<1>2. r = IF m.term < n.currentTerm
          THEN [node |-> n, out |-> {AppendResponse(i, n, m.from, FALSE, 0)}]
          ELSE IF ~PrevMatches(n, m)
          THEN [node |-> f, out |-> {AppendResponse(i, n, m.from, FALSE, LastIndex(n.log))}]
          ELSE [node |-> [f EXCEPT !.log = log, !.commitIndex = commit],
                out |-> {AppendResponse(i, n, m.from, TRUE, LastIndex(log))}]
  BY Zenon DEF OnAppendRequest
<1>3. f \in NodeType /\ f.role = "Follower" /\ f.currentTerm = n.currentTerm /\ f.votedFor = n.votedFor
  BY Zenon DEF NodeType, Role
<1> HIDE DEF f, r
<1>4. CASE m.term < n.currentTerm
  <2> DEFINE a == AppendResponse(i, n, m.from, FALSE, 0)
  <2>1. r.node = n /\ r.out = {a}
    BY <1>2, <1>4, Zenon
  <2>2. 0 \in Nat /\ FALSE \in BOOLEAN
    BY SMTT(30)
  <2>3. a \in Message /\ ~Grants(a) /\ a.term = n.currentTerm
    BY <1>1, <2>2, AppendResponseType, Zenon
  <2> HIDE DEF a
  <2>4. Plain(r)
    BY <2>1, <2>3, Zenon DEF Plain
  <2>5. KeepsBallot(n, r.node)
    BY <2>1, Zenon DEF KeepsBallot
  <2> QED
    BY <2>4, <2>5, Zenon DEF r
<1>5. CASE ~(m.term < n.currentTerm) /\ ~PrevMatches(n, m)
  <2> DEFINE a == AppendResponse(i, n, m.from, FALSE, LastIndex(n.log))
  <2>1. r.node = f /\ r.out = {a}
    BY <1>2, <1>5, Zenon
  <2>2. a \in Message /\ ~Grants(a) /\ a.term = n.currentTerm
    BY <1>1, AppendResponseType, Zenon
  <2> HIDE DEF a
  <2>3. Plain(r)
    BY <1>3, <2>1, <2>2, Zenon DEF Plain
  <2>4. KeepsBallot(n, r.node)
    BY <1>3, <2>1, Zenon DEF KeepsBallot
  <2> QED
    BY <2>3, <2>4, Zenon DEF r
<1>6. CASE ~(m.term < n.currentTerm) /\ PrevMatches(n, m)
  <2>1. m.prevLogIndex <= LastIndex(n.log)
    <3>1. m.prevLogIndex = 0 \/ TermAt(n.log, m.prevLogIndex) \in Nat
      BY <1>1, <1>6, Zenon DEF PrevMatches
    <3>2. m.prevLogIndex > LastIndex(n.log) => m.prevLogIndex = 0 \/ TermAt(n.log, m.prevLogIndex) = NoTerm
      BY <1>1, SMTT(30) DEF TermAt, LastIndex, LogType
    <3> QED
      BY <1>1, <3>1, <3>2, SMTT(30) DEF NoTerm
  <2>2. log \in LogType
    BY <1>1, <2>1, MergeEntriesType, Zenon
  <2> HIDE DEF log
  <2>3. LastIndex(log) \in Nat
    BY <2>2, LastIndexType, Zenon
  <2>4. commit \in Nat
    BY <1>1, <2>3, MinPair, SMTT(30)
  <2> DEFINE a == AppendResponse(i, n, m.from, TRUE, LastIndex(log))
  <2>5. r.node = [f EXCEPT !.log = log, !.commitIndex = commit] /\ r.out = {a}
    BY <1>2, <1>6, Zenon
  <2> HIDE DEF commit
  <2>6. r.node \in NodeType
    BY <1>3, <2>2, <2>4, <2>5, Zenon DEF NodeType
  <2>7. KeepsBallot(n, r.node)
    BY <1>3, <2>5, Zenon DEF KeepsBallot, NodeType
  <2>8. a \in Message /\ ~Grants(a) /\ a.term = n.currentTerm /\ r.node.currentTerm = n.currentTerm
    BY <1>1, <2>3, <2>7, AppendResponseType, Zenon DEF KeepsBallot
  <2> HIDE DEF a
  <2> QED
    BY <2>5, <2>6, <2>7, <2>8, Zenon DEF Plain, r
<1> QED
  BY <1>4, <1>5, <1>6, Zenon

\* Counting an acknowledgement for the pending reads keeps type and ballot.
LEMMA AckReadsType ==
    ASSUME NEW n \in NodeType, NEW peer \in Server
    PROVE  AckReads(n, peer) \in NodeType /\ SameBallot(n, AckReads(n, peer))
<1> DEFINE g(r) == IF r.ackSeq <= n.lastSentAckSeq[peer] /\ r.term = n.currentTerm
                   THEN [r EXCEPT !.acks = @ \cup {peer}] ELSE r
<1>1. \A r \in ReadType : g(r) \in ReadType
  BY Zenon DEF ReadType
<1>2. AckReads(n, peer) = [n EXCEPT !.pendingReads = {g(r) : r \in @}]
  BY Zenon DEF AckReads
<1>3. n.pendingReads \subseteq ReadType
  BY Zenon DEF NodeType
<1> HIDE DEF g
<1>4. {g(r) : r \in n.pendingReads} \in SUBSET ReadType
  BY <1>1, <1>3, Zenon
<1> QED
  BY <1>2, <1>4, Zenon DEF NodeType, SameBallot

\* The next_index after a rejection is a number.
LEMMA BackedOffType ==
    ASSUME NEW n \in NodeType, NEW m \in AppendAnswer
    PROVE  BackedOff(n, m) \in Nat
<1>1. n.nextIndex[m.from] \in Nat /\ m.matchIndex \in Nat
  BY Zenon DEF NodeType, AppendAnswer
<1> DEFINE x == n.nextIndex[m.from] - 1
<1>2. x \in Int /\ 1 \in Int
  BY <1>1, SMTT(30)
<1> HIDE DEF x
<1>3. Max({x, 1}) = IF x >= 1 THEN x ELSE 1
  BY <1>2, MaxPair, Zenon
<1>4. Max({x, 1}) \in Nat
  BY <1>2, <1>3, SMTT(30)
<1> QED
  BY <1>1, <1>4, Zenon DEF BackedOff, x

\* on_append_response keeps the node well typed and its ballot.
LEMMA OnAppendResponseType ==
    ASSUME NatWellOrdered, NEW i \in Server, NEW n \in NodeType, NEW m \in AppendAnswer
    PROVE  /\ Plain(OnAppendResponse(i, n, m))
           /\ SameBallot(n, OnAppendResponse(i, n, m).node)
<1> DEFINE r == OnAppendResponse(i, n, m)
           acked == AckReads(n, m.from)
           forward == IF m.matchIndex > n.matchIndex[m.from]
                      THEN [acked EXCEPT !.matchIndex[m.from] = m.matchIndex,
                                         !.nextIndex[m.from] = m.matchIndex + 1]
                      ELSE acked
           backed == [acked EXCEPT !.nextIndex[m.from] = BackedOff(n, m)]
<1>1. m.from \in Server /\ m.matchIndex \in Nat /\ BackedOff(n, m) \in Nat
  BY BackedOffType, Zenon DEF AppendAnswer
<1>2. acked \in NodeType /\ SameBallot(n, acked)
  BY <1>1, AckReadsType, Zenon
<1>3. r = IF n.role # "Leader" \/ m.term < n.currentTerm
          THEN [node |-> n, out |-> {}]
          ELSE IF m.success
          THEN [node |-> TryAdvanceCommit(forward), out |-> {}]
          ELSE [node |-> NoteSent(backed, {m.from}), out |-> {AppendTo(i, backed, m.from)}]
  BY Zenon DEF OnAppendResponse
<1> HIDE DEF acked, r
<1>a. acked.matchIndex \in [Server -> Nat] /\ acked.nextIndex \in [Server -> Nat]
  BY <1>2, Zenon DEF NodeType
<1>4. /\ [acked.matchIndex EXCEPT ![m.from] = m.matchIndex] \in [Server -> Nat]
      /\ [acked.nextIndex EXCEPT ![m.from] = m.matchIndex + 1] \in [Server -> Nat]
      /\ [acked.nextIndex EXCEPT ![m.from] = BackedOff(n, m)] \in [Server -> Nat]
  BY <1>1, <1>a, SMTT(30)
<1>5. forward \in NodeType /\ SameBallot(n, forward)
  BY <1>2, <1>4, Zenon DEF NodeType, SameBallot
<1>6. backed \in NodeType /\ SameBallot(n, backed)
  BY <1>2, <1>4, Zenon DEF NodeType, SameBallot
<1> HIDE DEF forward, backed
<1>7. CASE n.role # "Leader" \/ m.term < n.currentTerm
  <2>1. r.node = n /\ r.out = {}
    BY <1>3, <1>7, Zenon
  <2> QED
    BY <2>1, Zenon DEF Plain, SameBallot, r
<1>8. CASE ~(n.role # "Leader" \/ m.term < n.currentTerm) /\ m.success
  <2>1. r.node = TryAdvanceCommit(forward) /\ r.out = {}
    BY <1>3, <1>8, Zenon
  <2> QED
    BY <1>5, <2>1, TryAdvanceCommitType, Zenon DEF Plain, SameBallot, r
<1>9. CASE ~(n.role # "Leader" \/ m.term < n.currentTerm) /\ ~m.success
  <2>1. r.node = NoteSent(backed, {m.from}) /\ r.out = {AppendTo(i, backed, m.from)}
    BY <1>3, <1>9, Zenon
  <2>2. NoteSent(backed, {m.from}) \in NodeType /\ SameBallot(backed, NoteSent(backed, {m.from}))
    BY <1>6, NoteSentType, Zenon
  <2>3. /\ AppendTo(i, backed, m.from) \in Message /\ ~Grants(AppendTo(i, backed, m.from))
        /\ AppendTo(i, backed, m.from).term = backed.currentTerm
    BY <1>1, <1>6, AppendToType, Zenon DEF Grants
  <2> QED
    BY <1>6, <2>1, <2>2, <2>3, Zenon DEF Plain, SameBallot, r
<1> QED
  BY <1>7, <1>8, <1>9, Zenon

\* compact keeps the node well typed and its ballot.
LEMMA CompactType ==
    ASSUME NEW n \in NodeType, NEW k \in Nat, NEW t \in Nat, NEW im \in ImageType
    PROVE  Compact(n, k, t, im) \in NodeType /\ SameBallot(n, Compact(n, k, t, im))
<1>1. n.log \in LogType /\ n.commitIndex \in Nat /\ n.lastApplied \in Nat
  BY Zenon DEF NodeType
<1>2. InstallSnapshot(n.log, k, t, im) \in LogType
  BY <1>1, InstallSnapshotType, Zenon
<1>3. Max({n.commitIndex, k}) \in Nat /\ Max({n.lastApplied, k}) \in Nat
  BY <1>1, MaxPair, SMTT(30)
<1> QED
  BY <1>2, <1>3, Zenon DEF Compact, NodeType, SameBallot

\* An answer to a snapshot is a message that grants no vote.
LEMMA SnapshotResponseType ==
    ASSUME NEW i \in Server, NEW n \in NodeType, NEW to \in Server, NEW ok \in BOOLEAN
    PROVE  /\ SnapshotResponse(i, n, to, ok) \in Message /\ ~Grants(SnapshotResponse(i, n, to, ok))
           /\ SnapshotResponse(i, n, to, ok).term = n.currentTerm
<1>1. SnapshotResponse(i, n, to, ok) \in InstallSnapshotAnswer
  BY Zenon DEF SnapshotResponse, InstallSnapshotAnswer, NodeType
<1>2. /\ SnapshotResponse(i, n, to, ok).type # "VoteResponse"
      /\ SnapshotResponse(i, n, to, ok).term = n.currentTerm
  BY Zenon DEF SnapshotResponse
<1> QED
  BY <1>1, <1>2, Zenon DEF Message, Grants

\* on_install_snapshot_request keeps the node well typed and its ballot.
LEMMA OnInstallSnapshotRequestType ==
    ASSUME NEW i \in Server, NEW n \in NodeType, NEW m \in InstallSnapshotRequest
    PROVE  /\ Plain(OnInstallSnapshotRequest(i, n, m))
           /\ SameBallot(n, OnInstallSnapshotRequest(i, n, m).node)
<1> DEFINE r == OnInstallSnapshotRequest(i, n, m)
           c == Compact(n, m.lastIncludedIndex, m.lastIncludedTerm, m.image)
           p == [c EXCEPT !.pendingSnapshot = m.image]
<1>1. /\ m.lastIncludedIndex \in Nat /\ m.lastIncludedTerm \in Nat /\ m.image \in ImageType
      /\ m.from \in Server
  BY Zenon DEF InstallSnapshotRequest
<1>2. c \in NodeType /\ SameBallot(n, c)
  BY <1>1, CompactType, Zenon
<1>3. r = IF m.term < n.currentTerm
          THEN [node |-> n, out |-> {SnapshotResponse(i, n, m.from, FALSE)}]
          ELSE [node |-> p, out |-> {SnapshotResponse(i, n, m.from, TRUE)}]
  BY Zenon DEF OnInstallSnapshotRequest
<1> HIDE DEF c, r
<1>4. p \in NodeType /\ SameBallot(n, p)
  BY <1>1, <1>2, Zenon DEF NodeType, SameBallot
<1> HIDE DEF p
<1>5. CASE m.term < n.currentTerm
  <2> DEFINE a == SnapshotResponse(i, n, m.from, FALSE)
  <2>1. r.node = n /\ r.out = {a}
    BY <1>3, <1>5, Zenon
  <2>2. a \in Message /\ ~Grants(a) /\ a.term = n.currentTerm
    BY <1>1, SnapshotResponseType, Zenon
  <2> HIDE DEF a
  <2>3. Plain(r)
    BY <2>1, <2>2, Zenon DEF Plain
  <2>4. SameBallot(n, r.node)
    BY <2>1, Zenon DEF SameBallot
  <2> QED
    BY <2>3, <2>4, Zenon DEF r
<1>6. CASE ~(m.term < n.currentTerm)
  <2> DEFINE a == SnapshotResponse(i, n, m.from, TRUE)
  <2>1. r.node = p /\ r.out = {a}
    BY <1>3, <1>6, Zenon
  <2>2. a \in Message /\ ~Grants(a) /\ a.term = n.currentTerm
    BY <1>1, SnapshotResponseType, Zenon
  <2> HIDE DEF a
  <2>3. p.currentTerm = n.currentTerm
    BY <1>4, Zenon DEF SameBallot
  <2>4. Plain(r)
    BY <1>4, <2>1, <2>2, <2>3, Zenon DEF Plain
  <2> QED
    BY <1>4, <2>1, <2>4, Zenon DEF r
<1> QED
  BY <1>5, <1>6, Zenon

\* on_install_snapshot_response keeps the node well typed and its ballot.
LEMMA OnInstallSnapshotResponseType ==
    ASSUME NEW n \in NodeType, NEW m \in InstallSnapshotAnswer
    PROVE  /\ Plain(OnInstallSnapshotResponse(n, m))
           /\ SameBallot(n, OnInstallSnapshotResponse(n, m).node)
<1> DEFINE r == OnInstallSnapshotResponse(n, m)
           b == n.log.lastIncludedIndex
           p == [n EXCEPT !.matchIndex[m.from] = b, !.nextIndex[m.from] = b + 1]
<1>1. b \in Nat /\ m.from \in Server
  BY Zenon DEF NodeType, LogType, InstallSnapshotAnswer
<1>2. r = IF n.role # "Leader" \/ m.term < n.currentTerm \/ ~m.success
          THEN [node |-> n, out |-> {}] ELSE [node |-> p, out |-> {}]
  BY Zenon DEF OnInstallSnapshotResponse
<1> HIDE DEF b, r
<1>3. /\ [n.matchIndex EXCEPT ![m.from] = b] \in [Server -> Nat]
      /\ [n.nextIndex EXCEPT ![m.from] = b + 1] \in [Server -> Nat]
  BY <1>1, SMTT(30) DEF NodeType
<1>4. p \in NodeType /\ SameBallot(n, p)
  BY <1>3, Zenon DEF NodeType, SameBallot
<1> HIDE DEF p
<1>5. r.node \in {n, p} /\ r.out = {}
  BY <1>2, Zenon
<1> QED
  BY <1>4, <1>5, Zenon DEF Plain, SameBallot, r

\* handle dispatches a message on its type alone.
LEMMA Dispatch ==
    ASSUME NEW i, NEW n, NEW m
    PROVE  /\ m.type = "VoteRequest" => OnMessage(i, n, m) = OnVoteRequest(i, n, m)
           /\ m.type = "VoteResponse" => OnMessage(i, n, m) = OnVoteResponse(i, n, m)
           /\ m.type = "AppendRequest" => OnMessage(i, n, m) = OnAppendRequest(i, n, m)
           /\ m.type = "AppendResponse" => OnMessage(i, n, m) = OnAppendResponse(i, n, m)
           /\ m.type = "InstallSnapshotRequest"
                 => OnMessage(i, n, m) = OnInstallSnapshotRequest(i, n, m)
           /\ m.type = "InstallSnapshotResponse"
                 => OnMessage(i, n, m) = OnInstallSnapshotResponse(n, m)
BY Zenon DEF OnMessage

\* Every handler returns a well-typed node and messages.
LEMMA OnMessageType ==
    ASSUME NatWellOrdered, NEW i \in Server, NEW n \in NodeType, NEW m \in Message
    PROVE  OnMessage(i, n, m).node \in NodeType /\ OnMessage(i, n, m).out \subseteq Message
<1>1. CASE m.type = "VoteRequest" /\ m \in VoteRequest
  BY <1>1, Dispatch, OnVoteRequestType, SMTT(30)
<1>2. CASE m.type = "VoteResponse" /\ m \in VoteResponse
  BY <1>2, Dispatch, OnVoteResponseType, SMTT(30) DEF Plain
<1>3. CASE m.type = "AppendRequest" /\ m \in AppendRequest
  BY <1>3, Dispatch, OnAppendRequestType, SMTT(30) DEF Plain
<1>4. CASE m.type = "AppendResponse" /\ m \in AppendAnswer
  BY <1>4, Dispatch, OnAppendResponseType, SMTT(30) DEF Plain
<1>5. CASE m.type = "InstallSnapshotRequest" /\ m \in InstallSnapshotRequest
  BY <1>5, Dispatch, OnInstallSnapshotRequestType, SMTT(30) DEF Plain
<1>6. CASE m.type = "InstallSnapshotResponse" /\ m \in InstallSnapshotAnswer
  BY <1>6, Dispatch, OnInstallSnapshotResponseType, SMTT(30) DEF Plain
<1> QED
  BY <1>1, <1>2, <1>3, <1>4, <1>5, <1>6, MessageKinds, Zenon

\* handle, with the term check and the apply step around it, does so too.
LEMMA HandleType ==
    ASSUME NatWellOrdered, NEW i \in Server, NEW n \in NodeType, NEW m \in Message
    PROVE  Handle(i, n, m).node \in NodeType /\ Handle(i, n, m).out \subseteq Message
<1> DEFINE r == OnMessage(i, ObserveTerm(n, m.term), m)
<1>1. ObserveTerm(n, m.term) \in NodeType
  BY MessageKinds, ObserveTermType, Zenon
<1>2. r.node \in NodeType /\ r.out \subseteq Message
  BY <1>1, OnMessageType, Zenon
<1>3. Handle(i, n, m) = [node |-> TryAdvanceApply(r.node), out |-> r.out]
  BY Zenon DEF Handle
<1> HIDE DEF r
<1> QED
  BY <1>2, <1>3, TryAdvanceApplyType, SMTT(30)

\* broadcast keeps the node well typed and its ballot.
LEMMA BroadcastType ==
    ASSUME NEW i \in Server, NEW n \in NodeType
    PROVE  Plain(Broadcast(i, n)) /\ SameBallot(n, Broadcast(i, n).node)
BY NoteSentType, AppendToAllType, SMTT(30) DEF Broadcast, Plain, SameBallot

\* propose keeps the node well typed and its ballot.
LEMMA ProposeType ==
    ASSUME NatWellOrdered, NEW i \in Server, NEW n \in NodeType, NEW c \in Command
    PROVE  Propose(i, n, c) \in NodeType /\ SameBallot(n, Propose(i, n, c))
<1> DEFINE a == AppendOwn(i, n, c)
           b == TryAdvanceCommit(a)
<1>1. a \in NodeType /\ SameBallot(n, a)
  BY AppendOwnType, Zenon
<1> HIDE DEF a
<1>2. b \in NodeType /\ SameBallot(a, b)
  BY <1>1, TryAdvanceCommitType, Zenon
<1> HIDE DEF b
<1>3. TryAdvanceApply(b) \in NodeType /\ SameBallot(b, TryAdvanceApply(b))
  BY <1>2, TryAdvanceApplyType, Zenon
<1> QED
  BY <1>1, <1>2, <1>3, Zenon DEF Propose, SameBallot, a, b

\* propose_read keeps the node well typed and its ballot.
LEMMA ProposeReadType ==
    ASSUME NEW i \in Server, NEW n \in NodeType, NEW seen \in Nat
    PROVE  ProposeRead(i, n, seen) \in NodeType /\ SameBallot(n, ProposeRead(i, n, seen))
<1> DEFINE read == [readIndex |-> n.commitIndex, term |-> n.currentTerm,
                    ackSeq |-> n.currentAckSeq + 1, acks |-> {i}, seen |-> seen]
           p == [n EXCEPT !.currentAckSeq = @ + 1, !.pendingReads = @ \cup {read}]
<1>1. read \in ReadType
  BY SMTT(30) DEF ReadType, NodeType
<1> HIDE DEF read
<1>2. p \in NodeType /\ SameBallot(n, p)
  <2>1. n.currentAckSeq + 1 \in Nat /\ n.pendingReads \cup {read} \in SUBSET ReadType
    BY <1>1, SMTT(30) DEF NodeType
  <2> QED
    BY <2>1, Zenon DEF NodeType, SameBallot
<1>3. ProposeRead(i, n, seen) = CheckPendingReads(p)
  BY Zenon DEF ProposeRead, read
<1> HIDE DEF p
<1> QED
  BY <1>2, <1>3, CheckPendingReadsType, Zenon DEF SameBallot

-----------------------------------------------------------------------------
(* The engine and the files beside it.                                     *)

\* Putting an image into the engine keeps the server's store well typed.
LEMMA InstalledType ==
    ASSUME NEW st \in StoreType, NEW im \in ImageType
    PROVE  Installed(st, im) \in StoreType
BY Zenon DEF Installed, StoreType, ImageType

\* The apply index of a drained batch is a number.
LEMMA HighestType ==
    ASSUME NatWellOrdered, NEW floor \in Nat, NEW entries \in Seq(AppliedEntry)
    PROVE  Highest(floor, entries) \in Nat
<1> DEFINE n == Len(entries)
           f == [k \in 0 .. n |-> IF k = 0 THEN floor ELSE entries[k].index]
<1>1. n \in Nat /\ DOMAIN entries = 1 .. n /\ \A k \in 1 .. n : entries[k] \in AppliedEntry
  BY SMTT(30)
<1>2. \A k \in 1 .. n : entries[k].index \in Nat
  BY <1>1, Zenon DEF AppliedEntry
<1>3. {floor} \cup {entries[k].index : k \in DOMAIN entries} = {f[k] : k \in 0 .. n}
  <2>1. f[0] = floor /\ \A k \in 1 .. n : f[k] = entries[k].index
    BY <1>1, SMTT(30)
  <2>2. 0 .. n = {0} \cup 1 .. n
    BY <1>1, SMTT(30)
  <2> HIDE DEF f, n
  <2> QED
    BY <1>1, <2>1, <2>2, Zenon
<1>4. f \in [0 .. n -> Nat]
  BY <1>1, <1>2, SMTT(30)
<1> HIDE DEF f, n
<1>5. Max({f[k] : k \in 0 .. n}) \in Nat
  BY <1>1, <1>4, MaxOfRow, Zenon
<1> QED
  BY <1>3, <1>5, Zenon DEF Highest

\* drain_and_apply keeps the server's store well typed.
LEMMA DrainedType ==
    ASSUME NatWellOrdered, NEW st \in StoreType, NEW n \in NodeType
    PROVE  Drained(st, n) \in StoreType
<1> DEFINE s == Installed(st, n.pendingSnapshot)
           a == ApplyDrained(s, n.appliedEntries)
<1>1. s \in StoreType /\ n.appliedEntries \in Seq(AppliedEntry)
  BY InstalledType, Zenon DEF NodeType
<1> HIDE DEF s
<1>2. Highest(s.floor, n.appliedEntries) \in Nat
  BY <1>1, HighestType, Zenon DEF StoreType
<1>3. a \in StoreType
  <2>1. /\ s.engine \o n.appliedEntries \in Seq(AppliedEntry)
        /\ s.wal \o n.appliedEntries \in Seq(AppliedEntry)
    BY <1>1, SMTT(30) DEF StoreType
  <2> QED
    BY <1>1, <1>2, <2>1, Zenon DEF ApplyDrained, StoreType
<1> HIDE DEF a
<1>4. Image(a.engine) \in ImageType
  BY <1>3, Zenon DEF Image, ImageType, StoreType
<1>5. [a EXCEPT !.snapFile = Image(a.engine)] \in StoreType
  BY <1>3, <1>4, Zenon DEF StoreType
<1> QED
  BY <1>3, <1>5, Zenon DEF Drained, a, s

\* What an iteration does to the node after the handler keeps type and ballot.
LEMMA SettledType ==
    ASSUME NatWellOrdered, NEW st \in StoreType, NEW n \in NodeType
    PROVE  Settled(st, n) \in NodeType /\ SameBallot(n, Settled(st, n))
<1> DEFINE c == [n EXCEPT !.appliedEntries = << >>, !.pendingSnapshot = NoImage]
           im == Drained(st, n).snapFile
<1>1. c \in NodeType /\ SameBallot(n, c)
  <2>1. << >> \in Seq(AppliedEntry)
    BY SMTT(30)
  <2> QED
    BY <2>1, ImagesTyped, Zenon DEF NodeType, SameBallot
<1>2. im \in ImageType
  BY DrainedType, Zenon DEF StoreType
<1>3. n.lastApplied \in Nat /\ n.currentTerm \in Nat
  BY Zenon DEF NodeType
<1>4. Settled(st, n) = IF AtSnapshotPoint(n)
                       THEN Compact(c, n.lastApplied, n.currentTerm, im) ELSE c
  BY Zenon DEF Settled
<1> HIDE DEF c, im
<1> DEFINE k == Compact(c, n.lastApplied, n.currentTerm, im)
<1>5. k \in NodeType /\ SameBallot(c, k)
  BY <1>1, <1>2, <1>3, CompactType, Zenon
<1> HIDE DEF k
<1>6. SameBallot(n, k)
  BY <1>1, <1>5, Zenon DEF SameBallot
<1> QED
  BY <1>1, <1>4, <1>5, <1>6, Zenon DEF k

\* A store opened again is well typed.
LEMMA ReopenedType ==
    ASSUME NEW st \in StoreType
    PROVE  Reopened(st) \in StoreType
<1>1. [st EXCEPT !.engine = st.wal] \in StoreType /\ st.snapFile \in ImageType
  BY Zenon DEF StoreType
<1> QED
  BY <1>1, InstalledType, Zenon DEF Reopened

-----------------------------------------------------------------------------
(* The cluster.                                                            *)

\* Every pending proposal an iteration keeps was registered before.
LEMMA StillPendingType ==
    ASSUME NEW W \in SUBSET AppliedEntry, NEW led, NEW n
    PROVE  StillPending(W, led, n) \in SUBSET AppliedEntry
BY Zenon DEF StillPending

\* An iteration that leaves a well-typed node and sends well-typed messages keeps
\* every variable it writes well-typed.
LEMMA IterationType ==
    ASSUME NatWellOrdered, TypeOK, NEW i \in Server, NEW n \in NodeType, NEW out \in SUBSET Message,
           NEW W \in SUBSET AppliedEntry, Iteration(i, n, out, W)
    PROVE  /\ node' \in [Server -> NodeType]
           /\ store' \in [Server -> StoreType]
           /\ pending' \in [Server -> SUBSET AppliedEntry]
           /\ leading' \subseteq Server
           /\ msgs' \subseteq Message
<1>1. store[i] \in StoreType
  BY Zenon DEF TypeOK
<1>2. Settled(store[i], n) \in NodeType /\ Drained(store[i], n) \in StoreType
  BY <1>1, SettledType, DrainedType, Zenon
<1>3. StillPending(W, i \in leading, n) \in SUBSET AppliedEntry
  BY StillPendingType, Zenon
<1> QED
  BY <1>2, <1>3, Zenon DEF Iteration, LocalIteration, TypeOK

\* The initial state is well typed.
LEMMA InitType == Init => TypeOK
<1> SUFFICES ASSUME Init PROVE TypeOK
  BY Zenon
<1>1. NewStore \in StoreType
  BY ImagesTyped, SMTT(30) DEF NewStore, StoreType
<1> QED
  BY <1>1, NewNodeType, Zenon DEF Init, TypeOK

\* An iteration on an incoming message keeps the state well typed.
LEMMA ReceiveType ==
    ASSUME NatWellOrdered, TypeOK, NEW i \in Server, NEW m \in msgs, Receive(i, m)
    PROVE  TypeOK'
<1>1. m \in Message /\ node[i] \in NodeType /\ pending[i] \in SUBSET AppliedEntry
  BY Zenon DEF TypeOK
<1> DEFINE r == Handle(i, node[i], m)
<1>2. r.node \in NodeType /\ r.out \subseteq Message
  BY <1>1, HandleType, Zenon
<1>3. Iteration(i, r.node, r.out, pending[i]) /\ used' = used
  BY Zenon DEF Receive
<1> HIDE DEF r
<1> QED
  BY <1>1, <1>2, <1>3, IterationType, Zenon DEF TypeOK

\* The highest commit index of the group is a number.
LEMMA HighestCommitType ==
    ASSUME NatWellOrdered
    PROVE  TypeOK => HighestCommit \in Nat
<1> SUFFICES ASSUME TypeOK PROVE HighestCommit \in Nat
  BY Zenon
<1> DEFINE f == [j \in Server |-> node[j].commitIndex]
<1>1. f \in [Server -> Nat]
  BY Zenon DEF TypeOK, NodeType
<1>2. {node[j].commitIndex : j \in Server} = {f[j] : j \in Server}
  BY Zenon
<1> HIDE DEF f
<1>3. Max({f[j] : j \in Server}) \in Nat
  BY <1>1, MaxOfFunction, ServerAssumption, Zenon
<1> QED
  BY <1>2, <1>3, Zenon DEF HighestCommit

\* Every step keeps the state well typed: one case per action of Next.
LEMMA StepType ==
    ASSUME NatWellOrdered, TypeOK, [Next]_vars
    PROVE  TypeOK'
<1>1. CASE UNCHANGED vars
  BY <1>1, Zenon DEF vars, TypeOK
<1>2. ASSUME NEW i \in Server, ElectionTimeout(i) PROVE TypeOK'
  <2> DEFINE r == StartElection(i, node[i])
  <2>1. node[i] \in NodeType /\ pending[i] \in SUBSET AppliedEntry
    BY Zenon DEF TypeOK
  <2>2. r.node \in NodeType /\ r.out \subseteq Message
    BY <2>1, StartElectionType, Zenon DEF Plain
  <2>3. Iteration(i, TryAdvanceApply(r.node), r.out, pending[i])
    BY <1>2, Zenon DEF ElectionTimeout
  <2> HIDE DEF r
  <2>4. TryAdvanceApply(r.node) \in NodeType
    BY <2>2, TryAdvanceApplyType, Zenon
  <2>5. used' \in [elections : Nat, heartbeats : Nat, transfers : Nat, restarts : Nat]
    BY <1>2, SMTT(30) DEF ElectionTimeout, TypeOK
  <2> QED
    BY <2>1, <2>2, <2>3, <2>4, <2>5, IterationType, Zenon DEF TypeOK
<1>3. ASSUME NEW i \in Server, Heartbeat(i) PROVE TypeOK'
  <2> DEFINE r == Broadcast(i, node[i])
  <2>1. node[i] \in NodeType /\ pending[i] \in SUBSET AppliedEntry
    BY Zenon DEF TypeOK
  <2>2. r.node \in NodeType /\ r.out \subseteq Message
    BY <2>1, BroadcastType, Zenon DEF Plain
  <2>3. Iteration(i, TryAdvanceApply(r.node), r.out, pending[i])
    BY <1>3, Zenon DEF Heartbeat
  <2> HIDE DEF r
  <2>4. TryAdvanceApply(r.node) \in NodeType
    BY <2>2, TryAdvanceApplyType, Zenon
  <2>5. used' \in [elections : Nat, heartbeats : Nat, transfers : Nat, restarts : Nat]
    BY <1>3, SMTT(30) DEF Heartbeat, TypeOK
  <2> QED
    BY <2>1, <2>2, <2>3, <2>4, <2>5, IterationType, Zenon DEF TypeOK
<1>4. ASSUME NEW i \in Server, NEW m \in msgs, Receive(i, m) PROVE TypeOK'
  BY <1>4, ReceiveType, Zenon
<1>5. ASSUME NEW i \in Server, NEW v \in Value, ClientPropose(i, v) PROVE TypeOK'
  <2> DEFINE n == Propose(i, node[i], v)
             r == Broadcast(i, n)
             p == [index |-> LastIndex(n.log), term |-> n.currentTerm, command |-> v]
             W == {q \in pending[i] : q.index # p.index} \cup {p}
  <2>1. node[i] \in NodeType /\ pending[i] \in SUBSET AppliedEntry /\ v \in Command
    BY Zenon DEF TypeOK, Command
  <2>2. n \in NodeType
    BY <2>1, ProposeType, Zenon
  <2>3. Iteration(i, r.node, r.out, W) /\ used' = used
    BY <1>5, Zenon DEF ClientPropose
  <2> HIDE DEF n
  <2>4. p \in AppliedEntry
    BY <2>1, <2>2, LastIndexType, Zenon DEF AppliedEntry, NodeType
  <2> HIDE DEF p
  <2>5. W \in SUBSET AppliedEntry
    BY <2>1, <2>4, Zenon
  <2>6. r.node \in NodeType /\ r.out \subseteq Message
    BY <2>2, BroadcastType, Zenon DEF Plain
  <2> HIDE DEF r, W
  <2> QED
    BY <2>3, <2>5, <2>6, IterationType, Zenon DEF TypeOK
<1>6. ASSUME NEW i \in Server, ClientRead(i) PROVE TypeOK'
  <2> DEFINE n == ProposeRead(i, node[i], HighestCommit)
             r == Broadcast(i, n)
  <2>1. node[i] \in NodeType /\ pending[i] \in SUBSET AppliedEntry
    BY Zenon DEF TypeOK
  <2>2. n \in NodeType
    BY <2>1, HighestCommitType, ProposeReadType, Zenon
  <2>3. Iteration(i, r.node, r.out, pending[i]) /\ used' = used
    BY <1>6, Zenon DEF ClientRead
  <2> HIDE DEF n
  <2>4. r.node \in NodeType /\ r.out \subseteq Message
    BY <2>2, BroadcastType, Zenon DEF Plain
  <2> HIDE DEF r
  <2> QED
    BY <2>1, <2>3, <2>4, IterationType, Zenon DEF TypeOK
<1>7. ASSUME NEW i \in Server, Transfer(i) PROVE TypeOK'
  <2>1. TransferLeadership(node[i]) \in NodeType
    BY StepDownType, Zenon DEF TransferLeadership, TypeOK
  <2>2. used' \in [elections : Nat, heartbeats : Nat, transfers : Nat, restarts : Nat]
    BY <1>7, SMTT(30) DEF Transfer, TypeOK
  <2>3. node' \in [Server -> NodeType]
    BY <1>7, <2>1, Zenon DEF Transfer, TypeOK
  <2> QED
    BY <1>7, <2>2, <2>3, Zenon DEF Transfer, TypeOK
<1>8. ASSUME NEW i \in Server, Restart(i) PROVE TypeOK'
  <2>1. node[i] \in NodeType /\ store[i] \in StoreType /\ store[i].floor \in Nat
    BY Zenon DEF TypeOK, StoreType
  <2>2. Recover(node[i], store[i].floor) \in NodeType /\ Reopened(store[i]) \in StoreType
    BY <2>1, RecoverType, ReopenedType, Zenon
  <2>3. used' \in [elections : Nat, heartbeats : Nat, transfers : Nat, restarts : Nat]
    BY <1>8, SMTT(30) DEF Restart, TypeOK
  <2>4. node' \in [Server -> NodeType] /\ store' \in [Server -> StoreType]
    BY <1>8, <2>2, Zenon DEF Restart, TypeOK
  <2>5. pending' \in [Server -> SUBSET AppliedEntry] /\ leading' \subseteq Server /\ msgs' = msgs
    BY <1>8, Zenon DEF Restart, TypeOK
  <2> QED
    BY <2>3, <2>4, <2>5, Zenon DEF TypeOK
<1> QED
  BY <1>1, <1>2, <1>3, <1>4, <1>5, <1>6, <1>7, <1>8, Zenon
     DEF Next, RcvVoteRequest, RcvVoteResponse, RcvAppendRequest, RcvAppendResponse,
         RcvInstallSnapshotRequest, RcvInstallSnapshotResponse

\* Every reachable state of a group of any size, with any bounds, is well typed:
\* no handler of node.rs, in any order of messages, crashes and client calls,
\* leaves a value outside the type the source declares.
LEMMA TypeInvariant ==
    ASSUME NatWellOrdered
    PROVE  Spec => []TypeOK
<1>1. TypeOK /\ [Next]_vars => TypeOK'
  BY StepType, Zenon
<1> QED
  BY <1>1, InitType, PTL DEF Spec

\* Server i may go from node n to node p and send `out`, as far as votes go.
BallotStep(i, n, p, out, M) ==
    /\ p.currentTerm >= n.currentTerm
    /\ p.currentTerm = n.currentTerm /\ n.votedFor # Nil => p.votedFor = n.votedFor
    /\ \A g \in out : g.term = p.currentTerm
    /\ \A g \in out : Grants(g) =>
          g.from = i /\ g.term = p.currentTerm /\ g.to = p.votedFor
    /\ BallotOK(i, p, M)

\* A call that leaves the ballot alone, or only gives up a candidacy, and grants
\* nothing takes a BallotStep.
LEMMA KeepingStep ==
    ASSUME NEW i \in Server, NEW n \in NodeType, NEW r, NEW M, BallotOK(i, n, M),
           Plain(r), KeepsBallot(n, r.node)
    PROVE  BallotStep(i, n, r.node, r.out, M)
<1>1. r.node.currentTerm = n.currentTerm /\ r.node.votedFor = n.votedFor /\ n.currentTerm \in Nat
  BY Zenon DEF KeepsBallot, NodeType
<1>2. BallotOK(i, r.node, M)
  BY <1>1, SMTT(30) DEF KeepsBallot, BallotOK
<1> QED
  BY <1>1, <1>2, SMTT(30) DEF BallotStep, Plain

\* A node with the same ballot keeps its ballot.
LEMMA SameIsKept ==
    ASSUME NEW n, NEW p, SameBallot(n, p)
    PROVE  KeepsBallot(n, p)
BY Zenon DEF SameBallot, KeepsBallot

\* What follows a BallotStep without touching the ballot is part of it.
LEMMA StepThenSame ==
    ASSUME NEW i, NEW n, NEW p, NEW q, NEW out, NEW M,
           BallotStep(i, n, p, out, M), SameBallot(p, q)
    PROVE  BallotStep(i, n, q, out, M)
BY SMTT(30) DEF BallotStep, SameBallot, BallotOK

\* A vote request makes a ballot step: at most a first vote in the term, and the
\* grant that goes with it.
LEMMA VoteRequestStep ==
    ASSUME NEW i \in Server, NEW n \in NodeType, NEW m \in VoteRequest, NEW M,
           BallotOK(i, n, M)
    PROVE  LET r == OnVoteRequest(i, n, m) IN BallotStep(i, n, r.node, r.out, M)
<1> DEFINE r == OnVoteRequest(i, n, m)
<1>1. /\ r.node.currentTerm = n.currentTerm
      /\ r.node.role = n.role
      /\ r.node.votesReceived = n.votesReceived
  BY OnVoteRequestType, SMTT(30)
<1>2. PICK granted \in BOOLEAN :
        /\ r.out = {[type |-> "VoteResponse", from |-> i, to |-> m.from,
                     term |-> n.currentTerm, voteGranted |-> granted]}
        /\ IF granted THEN n.votedFor \in {Nil, m.from} /\ r.node.votedFor = m.from
                      ELSE r.node.votedFor = n.votedFor
  BY OnVoteRequestType, Zenon
<1> HIDE DEF r
<1>3. n.currentTerm \in Nat /\ n.votedFor \in Server \cup {Nil}
  BY Zenon DEF NodeType
<1>4. n.role # "Follower" => r.node.votedFor = i
  <2> SUFFICES ASSUME n.role # "Follower" PROVE r.node.votedFor = i
    BY Zenon
  <2>1. n.votedFor = i
    BY Zenon DEF BallotOK
  <2> QED
    BY <1>2, <2>1, ServerAssumption, Zenon
<1>5. BallotOK(i, r.node, M)
  BY <1>1, <1>4, SMTT(30) DEF BallotOK
<1>6. n.votedFor # Nil => r.node.votedFor = n.votedFor
  BY <1>2, Zenon
<1>7. \A g \in r.out :
          /\ g.term = r.node.currentTerm
          /\ Grants(g) => g.from = i /\ g.term = r.node.currentTerm /\ g.to = r.node.votedFor
  BY <1>1, <1>2, SMTT(30) DEF Grants
<1> QED
  BY <1>1, <1>3, <1>5, <1>6, <1>7, SMTT(30) DEF BallotStep, r

\* A vote response makes a ballot step: the vote it counts was sent.
LEMMA VoteResponseStep ==
    ASSUME NatWellOrdered, NEW i \in Server, NEW n \in NodeType, NEW m \in VoteResponse, NEW M,
           m \in M, m.to = i, m.term <= n.currentTerm, BallotOK(i, n, M)
    PROVE  LET r == OnVoteResponse(i, n, m) IN BallotStep(i, n, r.node, r.out, M)
<1> DEFINE r == OnVoteResponse(i, n, m)
           p == r.node
<1>1. \A g \in r.out : ~Grants(g) /\ g.term = p.currentTerm
  BY OnVoteResponseType, SMTT(30) DEF Plain
<1>2. n.currentTerm \in Nat /\ m.term \in Nat /\ m.type = "VoteResponse"
  BY Zenon DEF NodeType, VoteResponse
<1>3. \/ p = n
      \/ /\ m.voteGranted /\ m.term >= n.currentTerm /\ n.role = "Candidate"
         /\ p.currentTerm = n.currentTerm /\ p.votedFor = n.votedFor
         /\ p.votesReceived = n.votesReceived \cup {m.from}
         /\ \/ p.role = "Candidate"
            \/ p.role = "Leader" /\ IsQuorum(p.votesReceived)
  BY OnVoteResponseType, SMTT(30)
<1> HIDE DEF r
<1>4. CASE p = n
  BY <1>1, <1>2, <1>4, SMTT(30) DEF BallotStep, r
<1>5. CASE p # n
  <2>1. /\ Grants(m) /\ m.term = n.currentTerm /\ n.role = "Candidate"
        /\ p.currentTerm = n.currentTerm /\ p.votedFor = n.votedFor
        /\ p.votesReceived = n.votesReceived \cup {m.from}
        /\ \/ p.role = "Candidate"
           \/ p.role = "Leader" /\ IsQuorum(p.votesReceived)
    BY <1>2, <1>3, <1>5, SMTT(30) DEF Grants
  <2>2. \A j \in p.votesReceived \ {i} : \E g \in M :
            Grants(g) /\ g.from = j /\ g.to = i /\ g.term = p.currentTerm
    BY <2>1, SMTT(30) DEF BallotOK
  <2>3. BallotOK(i, p, M)
    BY <2>1, <2>2, Zenon DEF BallotOK
  <2> QED
    BY <1>1, <1>2, <2>1, <2>3, Zenon DEF BallotStep, r
<1> QED
  BY <1>4, <1>5, Zenon

\* Every handler makes a ballot step.
LEMMA OnMessageStep ==
    ASSUME NatWellOrdered, NEW i \in Server, NEW n \in NodeType, NEW M, NEW m \in Message,
           m \in M, m.to = i, m.term <= n.currentTerm, BallotOK(i, n, M)
    PROVE  LET r == OnMessage(i, n, m) IN BallotStep(i, n, r.node, r.out, M)
<1>1. CASE m.type = "VoteRequest" /\ m \in VoteRequest
  BY <1>1, Dispatch, VoteRequestStep, SMTT(30)
<1>2. CASE m.type = "VoteResponse" /\ m \in VoteResponse
  BY <1>2, Dispatch, VoteResponseStep, SMTT(30)
<1>3. CASE m.type = "AppendRequest" /\ m \in AppendRequest
  BY <1>3, Dispatch, OnAppendRequestType, KeepingStep, SMTT(30)
<1>4. CASE m.type = "AppendResponse" /\ m \in AppendAnswer
  BY <1>4, Dispatch, OnAppendResponseType, SameIsKept, KeepingStep, SMTT(30)
<1>5. CASE m.type = "InstallSnapshotRequest" /\ m \in InstallSnapshotRequest
  BY <1>5, Dispatch, OnInstallSnapshotRequestType, SameIsKept, KeepingStep, SMTT(30)
<1>6. CASE m.type = "InstallSnapshotResponse" /\ m \in InstallSnapshotAnswer
  BY <1>6, Dispatch, OnInstallSnapshotResponseType, SameIsKept, KeepingStep, Zenon
<1> QED
  BY <1>1, <1>2, <1>3, <1>4, <1>5, <1>6, MessageKinds, Zenon

\* The term is observed first: a newer one makes an unvoted follower.
LEMMA HandleStep ==
    ASSUME NatWellOrdered, NEW i \in Server, NEW n \in NodeType, NEW M, NEW m \in Message,
           m \in M, m.to = i, BallotOK(i, n, M)
    PROVE  LET r == Handle(i, n, m) IN
           BallotStep(i, n, r.node, r.out, M) /\ r.node.currentTerm >= m.term
<1> DEFINE o == ObserveTerm(n, m.term)
           r == OnMessage(i, o, m)
<1>1. m.term \in Nat
  BY MessageKinds, Zenon
<1>2. /\ o \in NodeType /\ o.currentTerm >= m.term
      /\ \/ m.term <= n.currentTerm /\ o = n
         \/ m.term > n.currentTerm /\ o.currentTerm = m.term /\ o.role = "Follower"
  BY <1>1, ObserveTermType, Zenon
<1>3. n.currentTerm \in Nat /\ o.currentTerm \in Nat
  BY <1>2, Zenon DEF NodeType
<1> HIDE DEF o
<1>4. BallotOK(i, o, M)
  BY <1>2, SMTT(30) DEF BallotOK
<1>5. BallotStep(i, o, r.node, r.out, M)
  BY <1>1, <1>2, <1>3, <1>4, OnMessageStep, Zenon
<1>6. r.node \in NodeType
  BY <1>2, OnMessageType, Zenon
<1> HIDE DEF r
<1>7. BallotStep(i, n, r.node, r.out, M) /\ r.node.currentTerm >= m.term
  <2>1. r.node.currentTerm \in Nat
    BY <1>6, Zenon DEF NodeType
  <2> QED
    BY <1>1, <1>2, <1>3, <1>5, <2>1, SMTT(30) DEF BallotStep
<1>8. SameBallot(r.node, TryAdvanceApply(r.node))
  BY <1>6, TryAdvanceApplyType, Zenon
<1>9. Handle(i, n, m) = [node |-> TryAdvanceApply(r.node), out |-> r.out]
  BY Zenon DEF Handle, r, o
<1>10. TryAdvanceApply(r.node).currentTerm >= m.term
  BY <1>7, <1>8, Zenon DEF SameBallot
<1> QED
  BY <1>7, <1>8, <1>9, <1>10, StepThenSame, SMTT(30)

-----------------------------------------------------------------------------
(* Steps of the group.                                                     *)

\* The step is server i's: it leaves node p there and sends `out`.
BallotMove(i, p, out) ==
    /\ p \in NodeType
    /\ node' = [node EXCEPT ![i] = p]
    /\ msgs' = msgs \cup out
    /\ BallotStep(i, node[i], p, out, msgs)

\* An iteration built on a ballot step moves only that server's ballot.
LEMMA IterationMove ==
    ASSUME NatWellOrdered, TypeOK, NEW i \in Server, NEW n \in NodeType, NEW out, NEW W,
           BallotStep(i, node[i], n, out, msgs), Iteration(i, n, out, W)
    PROVE  \E p : BallotMove(i, p, out) /\ p.currentTerm = n.currentTerm
<1> DEFINE p == Settled(store[i], n)
<1>1. store[i] \in StoreType
  BY Zenon DEF TypeOK
<1>2. p \in NodeType /\ SameBallot(n, p)
  BY <1>1, SettledType, Zenon
<1>3. node' = [node EXCEPT ![i] = p] /\ msgs' = msgs \cup out
  BY Zenon DEF Iteration, LocalIteration
<1> HIDE DEF p
<1>4. BallotStep(i, node[i], p, out, msgs)
  BY <1>2, StepThenSame, Zenon
<1> QED
  BY <1>2, <1>3, <1>4, Zenon DEF BallotMove, SameBallot

\* The invariant, seen from one server.
LEMMA BackedBallot ==
    ASSUME VotesAreBacked, NEW i \in Server
    PROVE  BallotOK(i, node[i], msgs)
<1>1. node[i].role = "Leader" => node[i].role # "Follower"
  BY Zenon
<1> QED
  BY <1>1, Zenon DEF VotesAreBacked, BallotOK

\* A timeout moves only that server's ballot, to a new term.
LEMMA ElectionTimeoutMove ==
    ASSUME NatWellOrdered, TypeOK, NEW i \in Server, ElectionTimeout(i)
    PROVE  \E p, out : BallotMove(i, p, out) /\ p.currentTerm > node[i].currentTerm
<1> DEFINE r == StartElection(i, node[i])
           p == TryAdvanceApply(r.node)
<1>1. node[i] \in NodeType /\ node[i].currentTerm \in Nat
  BY Zenon DEF TypeOK, NodeType
<1>2. /\ Plain(r)
      /\ r.node.currentTerm = node[i].currentTerm + 1
      /\ r.node.votedFor = i /\ r.node.votesReceived = {i}
      /\ r.node.role = "Candidate" \/ (r.node.role = "Leader" /\ IsQuorum({i}))
  BY <1>1, StartElectionType, Zenon
<1>3. Iteration(i, p, r.out, pending[i])
  BY Zenon DEF ElectionTimeout
<1> HIDE DEF r
<1>4. r.node \in NodeType /\ \A g \in r.out : ~Grants(g) /\ g.term = r.node.currentTerm
  BY <1>2, Zenon DEF Plain
<1>5. BallotStep(i, node[i], r.node, r.out, msgs)
  <2>1. BallotOK(i, r.node, msgs)
    BY <1>2, Zenon DEF BallotOK
  <2> QED
    BY <1>1, <1>2, <1>4, <2>1, SMTT(30) DEF BallotStep
<1>6. p \in NodeType /\ SameBallot(r.node, p)
  BY <1>4, TryAdvanceApplyType, Zenon
<1> HIDE DEF p
<1>7. BallotStep(i, node[i], p, r.out, msgs)
  BY <1>5, <1>6, StepThenSame, Zenon
<1>8. p.currentTerm > node[i].currentTerm
  BY <1>1, <1>2, <1>6, SMTT(30) DEF SameBallot
<1> QED
  BY <1>3, <1>6, <1>7, <1>8, IterationMove, Zenon

\* A leader's broadcast, and whatever it did before it, leave the ballot alone.
LEMMA BroadcastMove ==
    ASSUME NatWellOrdered, TypeOK, VotesAreBacked, NEW i \in Server, NEW n \in NodeType,
           SameBallot(node[i], n), NEW q \in NodeType,
           SameBallot(Broadcast(i, n).node, q), NEW W,
           Iteration(i, q, Broadcast(i, n).out, W)
    PROVE  \E p, out : BallotMove(i, p, out)
<1> DEFINE r == Broadcast(i, n)
           s == [node |-> q, out |-> r.out]
<1>1. node[i] \in NodeType
  BY Zenon DEF TypeOK
<1>2. Plain(r) /\ SameBallot(n, r.node)
  BY BroadcastType, Zenon
<1> HIDE DEF r
<1>3. Plain(s)
  BY <1>2, Zenon DEF Plain, SameBallot, r
<1>4. SameBallot(node[i], q)
  BY <1>2, Zenon DEF SameBallot, r
<1>5. BallotOK(i, node[i], msgs) /\ KeepsBallot(node[i], s.node)
  BY <1>4, BackedBallot, SameIsKept, Zenon
<1>6. BallotStep(i, node[i], s.node, s.out, msgs)
  BY <1>1, <1>3, <1>5, KeepingStep, Zenon
<1>7. BallotStep(i, node[i], q, r.out, msgs) /\ Iteration(i, q, r.out, W)
  BY <1>6, Zenon DEF r
<1> QED
  BY <1>7, IterationMove, Zenon

\* What server i may do in one step.
Acts(i) ==
    \/ ElectionTimeout(i) \/ Heartbeat(i)
    \/ \E m \in msgs : Receive(i, m)
    \/ \E v \in Value : ClientPropose(i, v)
    \/ ClientRead(i) \/ Transfer(i) \/ Restart(i)

\* A step of the group is a step of one of its servers.
LEMMA NextActs ==
    ASSUME TypeOK
    PROVE  Next <=> \E i \in Server : Acts(i)
<1>1. \A i \in Server, m \in msgs : Receive(i, m) <=>
          \/ RcvVoteRequest(i, m) \/ RcvVoteResponse(i, m)
          \/ RcvAppendRequest(i, m) \/ RcvAppendResponse(i, m)
          \/ RcvInstallSnapshotRequest(i, m) \/ RcvInstallSnapshotResponse(i, m)
  <2> SUFFICES ASSUME NEW m \in msgs
               PROVE  m.type \in {"VoteRequest", "VoteResponse", "AppendRequest", "AppendResponse",
                                  "InstallSnapshotRequest", "InstallSnapshotResponse"}
    BY Zenon DEF RcvVoteRequest, RcvVoteResponse, RcvAppendRequest, RcvAppendResponse,
           RcvInstallSnapshotRequest, RcvInstallSnapshotResponse
  <2> QED
    BY MessageKinds, Zenon DEF TypeOK
<1> QED
  BY <1>1, Zenon DEF Next, Acts

\* Every step of a server moves its own ballot, or none; but for a restart, it leads
\* already, opens a term, or has received a message of a term that is not later.
LEMMA ActMove ==
    ASSUME NatWellOrdered, TypeOK, VotesAreBacked, NEW i \in Server, Acts(i)
    PROVE  \E p, out :
              /\ BallotMove(i, p, out)
              /\ \/ p.currentTerm > node[i].currentTerm
                 \/ node[i].role = "Leader"
                 \/ \E m \in msgs : p.currentTerm >= m.term
                 \/ Restart(i)
<1>1. CASE ElectionTimeout(i)
  BY <1>1, ElectionTimeoutMove, Zenon
<1>2. ASSUME Heartbeat(i) PROVE \E p, out : BallotMove(i, p, out) /\ node[i].role = "Leader"
  <2> DEFINE r == Broadcast(i, node[i])
             q == TryAdvanceApply(r.node)
  <2>1. node[i] \in NodeType /\ SameBallot(node[i], node[i])
    BY Zenon DEF TypeOK, SameBallot
  <2>2. r.node \in NodeType
    BY <2>1, BroadcastType, Zenon DEF Plain
  <2>3. q \in NodeType /\ SameBallot(r.node, q)
    BY <2>2, TryAdvanceApplyType, Zenon
  <2>4. Iteration(i, q, r.out, pending[i]) /\ node[i].role = "Leader"
    BY <1>2, Zenon DEF Heartbeat
  <2> QED
    BY <2>1, <2>3, <2>4, BroadcastMove, Zenon
<1>3. ASSUME NEW m \in msgs, Receive(i, m)
      PROVE  \E p, out : BallotMove(i, p, out) /\ p.currentTerm >= m.term
  <2> DEFINE r == Handle(i, node[i], m)
  <2>1. node[i] \in NodeType /\ m \in Message /\ m.to = i
    BY <1>3, Zenon DEF TypeOK, Receive
  <2>2. BallotOK(i, node[i], msgs)
    BY BackedBallot, Zenon
  <2>3. /\ r.node \in NodeType /\ BallotStep(i, node[i], r.node, r.out, msgs)
        /\ r.node.currentTerm >= m.term
    BY <2>1, <2>2, HandleType, HandleStep, Zenon
  <2>4. Iteration(i, r.node, r.out, pending[i])
    BY <1>3, Zenon DEF Receive
  <2> HIDE DEF r
  <2> QED
    BY <2>3, <2>4, IterationMove, SMTT(30)
<1>4. ASSUME NEW v \in Value, ClientPropose(i, v)
      PROVE  \E p, out : BallotMove(i, p, out) /\ node[i].role = "Leader"
  <2> DEFINE n == Propose(i, node[i], v)
             r == Broadcast(i, n)
             p == [index |-> LastIndex(n.log), term |-> n.currentTerm, command |-> v]
             W == {q \in pending[i] : q.index # p.index} \cup {p}
  <2>1. node[i] \in NodeType /\ v \in Command
    BY Zenon DEF TypeOK, Command
  <2>2. n \in NodeType /\ SameBallot(node[i], n)
    BY <2>1, ProposeType, Zenon
  <2>3. Iteration(i, r.node, r.out, W) /\ node[i].role = "Leader"
    BY <1>4, Zenon DEF ClientPropose
  <2> HIDE DEF n, W
  <2>4. r.node \in NodeType /\ SameBallot(r.node, r.node)
    BY <2>2, BroadcastType, Zenon DEF Plain, SameBallot
  <2> QED
    BY <2>2, <2>3, <2>4, BroadcastMove, Zenon
<1>5. ASSUME ClientRead(i) PROVE \E p, out : BallotMove(i, p, out) /\ node[i].role = "Leader"
  <2> DEFINE n == ProposeRead(i, node[i], HighestCommit)
             r == Broadcast(i, n)
  <2>1. node[i] \in NodeType
    BY Zenon DEF TypeOK
  <2>2. n \in NodeType /\ SameBallot(node[i], n)
    BY <2>1, HighestCommitType, ProposeReadType, Zenon
  <2>3. Iteration(i, r.node, r.out, pending[i]) /\ node[i].role = "Leader"
    BY <1>5, Zenon DEF ClientRead
  <2> HIDE DEF n
  <2>4. r.node \in NodeType /\ SameBallot(r.node, r.node)
    BY <2>2, BroadcastType, Zenon DEF Plain, SameBallot
  <2> QED
    BY <2>2, <2>3, <2>4, BroadcastMove, Zenon
<1>6. ASSUME Transfer(i) PROVE \E p, out : BallotMove(i, p, out) /\ node[i].role = "Leader"
  <2> DEFINE p == TransferLeadership(node[i])
  <2>1. node[i] \in NodeType /\ node[i].currentTerm \in Nat
    BY Zenon DEF TypeOK, NodeType
  <2>2. /\ p \in NodeType /\ p.currentTerm = node[i].currentTerm
        /\ p.votedFor = node[i].votedFor /\ p.role = "Follower"
    BY <2>1, StepDownType, Zenon DEF TransferLeadership
  <2>3. node' = [node EXCEPT ![i] = p] /\ msgs' = msgs \cup {} /\ node[i].role = "Leader"
    BY <1>6, Zenon DEF Transfer
  <2> HIDE DEF p
  <2>4. BallotStep(i, node[i], p, {}, msgs)
    BY <2>1, <2>2, SMTT(30) DEF BallotStep, BallotOK
  <2> QED
    BY <2>2, <2>3, <2>4, Zenon DEF BallotMove
<1>7. ASSUME Restart(i) PROVE \E p, out : BallotMove(i, p, out)
  <2> DEFINE p == Recover(node[i], store[i].floor)
  <2>1. node[i] \in NodeType /\ store[i].floor \in Nat /\ node[i].currentTerm \in Nat
    BY Zenon DEF TypeOK, StoreType, NodeType
  <2>2. /\ p \in NodeType /\ p.currentTerm = node[i].currentTerm
        /\ p.votedFor = node[i].votedFor /\ p.role = "Follower"
    BY <2>1, RecoverType, Zenon
  <2>3. node' = [node EXCEPT ![i] = p] /\ msgs' = msgs \cup {}
    BY <1>7, Zenon DEF Restart
  <2> HIDE DEF p
  <2>4. BallotStep(i, node[i], p, {}, msgs)
    BY <2>1, <2>2, SMTT(30) DEF BallotStep, BallotOK
  <2> QED
    BY <2>2, <2>3, <2>4, Zenon DEF BallotMove
<1> QED
  BY <1>1, <1>2, <1>3, <1>4, <1>5, <1>6, <1>7, Zenon DEF Acts

\* Every step of the group moves the ballot of one server, or none.
LEMMA NextMove ==
    ASSUME NatWellOrdered, TypeOK, VotesAreBacked, Next
    PROVE  \E i \in Server : \E p, out : BallotMove(i, p, out)
BY NextActs, ActMove, Zenon

\* One server's BallotStep keeps every granted vote remembered, unique and counted
\* only by the candidate it was sent to.
LEMMA MoveKeepsVotes ==
    ASSUME TypeOK, TypeOK', VotesAreBacked, NEW i \in Server, NEW p, NEW out,
           BallotMove(i, p, out)
    PROVE  VotesAreBacked'
<1>1. /\ node' = [node EXCEPT ![i] = p] /\ msgs' = msgs \cup out
      /\ BallotStep(i, node[i], p, out, msgs)
  BY Zenon DEF BallotMove
<1>2. node \in [Server -> NodeType] /\ msgs \subseteq Message /\ msgs' \subseteq Message
  BY Zenon DEF TypeOK
<1>3. node'[i] = p /\ \A j \in Server : j # i => node'[j] = node[j]
  BY <1>1, <1>2, Zenon
<1>4. \A m \in msgs' : m.from \in Server /\ m.to \in Server /\ m.term \in Nat /\ m.to # Nil
  BY <1>2, MessageKinds, ServerAssumption, Zenon
<1>5. p.currentTerm \in Nat /\ \A j \in Server : node[j].currentTerm \in Nat
  BY <1>2, Zenon DEF BallotMove, NodeType
<1>6. \A m \in msgs' : Grants(m) =>
          \/ node'[m.from].currentTerm > m.term
          \/ node'[m.from].currentTerm = m.term /\ node'[m.from].votedFor = m.to
  <2> SUFFICES ASSUME NEW m \in msgs', Grants(m)
               PROVE  \/ node'[m.from].currentTerm > m.term
                      \/ node'[m.from].currentTerm = m.term /\ node'[m.from].votedFor = m.to
    BY Zenon
  <2>1. CASE m \in out
    BY <1>1, <1>3, <2>1, Zenon DEF BallotStep
  <2>2. CASE m \in msgs
    <3>1. \/ node[m.from].currentTerm > m.term
          \/ node[m.from].currentTerm = m.term /\ node[m.from].votedFor = m.to
      BY <2>2, Zenon DEF VotesAreBacked
    <3>2. CASE m.from # i
      BY <1>3, <1>4, <3>1, <3>2, Zenon
    <3>3. CASE m.from = i
      <4>1. /\ p.currentTerm >= node[i].currentTerm
            /\ p.currentTerm = node[i].currentTerm /\ node[i].votedFor # Nil
                  => p.votedFor = node[i].votedFor
        BY <1>1, Zenon DEF BallotStep
      <4> QED
        BY <1>3, <1>4, <1>5, <3>1, <3>3, <4>1, SMTT(30)
    <3> QED
      BY <3>2, <3>3, Zenon
  <2> QED
    BY <1>1, <2>1, <2>2, Zenon
<1>7. \A m, q \in msgs' :
          (Grants(m) /\ Grants(q) /\ m.from = q.from /\ m.term = q.term) => m.to = q.to
  <2>1. ASSUME NEW m \in msgs, NEW q \in out, Grants(m), Grants(q),
               m.from = q.from, m.term = q.term
        PROVE  m.to = q.to
    <3>1. m \in msgs' /\ q \in msgs'
      BY <1>1, Zenon
    <3>2. q.from = i /\ q.term = p.currentTerm /\ q.to = p.votedFor
      BY <1>1, <2>1, Zenon DEF BallotStep
    <3>3. \/ node'[i].currentTerm > m.term
          \/ node'[i].currentTerm = m.term /\ node'[i].votedFor = m.to
      BY <1>6, <2>1, <3>1, <3>2, Zenon
    <3> QED
      BY <1>3, <1>4, <1>5, <2>1, <3>1, <3>2, <3>3, SMTT(30)
  <2>2. ASSUME NEW m \in out, NEW q \in out, Grants(m), Grants(q) PROVE m.to = q.to
    BY <1>1, <2>2, Zenon DEF BallotStep
  <2>3. ASSUME NEW m \in msgs, NEW q \in msgs, Grants(m), Grants(q),
               m.from = q.from, m.term = q.term
        PROVE  m.to = q.to
    BY <2>3, Zenon DEF VotesAreBacked
  <2> QED
    BY <1>1, <2>1, <2>2, <2>3, Zenon
<1>8. \A j \in Server : BallotOK(j, node'[j], msgs')
  <2> SUFFICES ASSUME NEW j \in Server PROVE BallotOK(j, node'[j], msgs')
    BY Zenon
  <2>1. BallotOK(j, node'[j], msgs)
    <3>1. CASE j = i
      BY <1>1, <1>3, <3>1, Zenon DEF BallotStep
    <3>2. CASE j # i
      BY <1>3, <3>2, BackedBallot, Zenon
    <3> QED
      BY <3>1, <3>2, Zenon
  <2> QED
    BY <1>1, <2>1, Zenon DEF BallotOK
<1> QED
  BY <1>6, <1>7, <1>8, Zenon DEF VotesAreBacked, BallotOK

-----------------------------------------------------------------------------
(* One leader per term.                                                    *)

\* Every step preserves VotesAreBacked.
LEMMA VotesStep ==
    ASSUME NatWellOrdered
    PROVE  TypeOK /\ VotesAreBacked /\ [Next]_vars => VotesAreBacked'
<1> SUFFICES ASSUME TypeOK, VotesAreBacked, [Next]_vars PROVE VotesAreBacked'
  BY Zenon
<1>1. CASE UNCHANGED vars
  BY <1>1, SMTT(30) DEF vars, VotesAreBacked
<1>2. CASE Next
  <2>1. TypeOK'
    BY StepType, Zenon
  <2>2. PICK i \in Server : \E p, out : BallotMove(i, p, out)
    BY <1>2, NextMove, Zenon
  <2> QED
    BY <2>1, <2>2, MoveKeepsVotes, Zenon
<1> QED
  BY <1>1, <1>2, Zenon

\* Every vote the group ever counted was cast, remembered and cast once.
LEMMA BallotInvariant ==
    ASSUME NatWellOrdered
    PROVE  Spec => []VotesAreBacked
<1>1. Init => VotesAreBacked
  <2> SUFFICES ASSUME Init PROVE VotesAreBacked
    BY Zenon
  <2>1. msgs = {} /\ \A i \in Server : node[i] = NewNode
    BY Zenon DEF Init
  <2>2. NewNode.role = "Follower"
    BY Zenon DEF NewNode
  <2> QED
    BY <2>1, <2>2, Zenon DEF VotesAreBacked
<1> QED
  BY <1>1, VotesStep, TypeInvariant, PTL DEF Spec

\* RFT-006, for every group: no step, step-down, leadership transfer or restart
\* between two iterations included, lowers a term or changes a vote within it.
LEMMA BallotsKept ==
    ASSUME NatWellOrdered
    PROVE  Spec => VoteIsFinal
<1> DEFINE Final == \A i \in Server :
              /\ node'[i].currentTerm >= node[i].currentTerm
              /\ (node'[i].currentTerm = node[i].currentTerm /\ node[i].votedFor # Nil)
                    => node'[i].votedFor = node[i].votedFor
<1>1. TypeOK /\ VotesAreBacked /\ [Next]_vars => [Final]_vars
  <2> SUFFICES ASSUME TypeOK, VotesAreBacked, Next PROVE Final
    BY Zenon DEF vars
  <2>1. PICK i \in Server : \E p, out : BallotMove(i, p, out)
    BY NextMove, Zenon
  <2>2. PICK p, out : BallotMove(i, p, out)
    BY <2>1, Zenon
  <2>3. \A j \in Server : node[j].currentTerm \in Nat
    BY Zenon DEF TypeOK, NodeType
  <2>4. node'[i] = p /\ \A j \in Server : j # i => node'[j] = node[j]
    BY <2>2, Zenon DEF BallotMove, TypeOK
  <2> QED
    BY <2>2, <2>3, <2>4, SMTT(30) DEF BallotMove, BallotStep
<1> QED
  BY <1>1, TypeInvariant, BallotInvariant, PTL DEF Spec, VoteIsFinal

\* If votes are backed, two leaders of a term share a voter and are the same server.
LEMMA VotesGiveOneLeader ==
    ASSUME MeetingQuorums, TypeOK, VotesAreBacked
    PROVE  ElectionSafety
<1> SUFFICES ASSUME NEW i \in Server, NEW k \in Server,
                    node[i].role = "Leader", node[k].role = "Leader",
                    node[i].currentTerm = node[k].currentTerm
             PROVE  i = k
  BY Zenon DEF ElectionSafety
<1> DEFINE t == node[i].currentTerm
<1>1. node[i].votesReceived \in SUBSET Server /\ node[k].votesReceived \in SUBSET Server
  BY Zenon DEF TypeOK, NodeType
<1>2. IsQuorum(node[i].votesReceived) /\ IsQuorum(node[k].votesReceived)
  BY Zenon DEF VotesAreBacked
<1>3. PICK j \in Server : j \in node[i].votesReceived /\ j \in node[k].votesReceived
  BY <1>1, <1>2, Zenon DEF MeetingQuorums
<1>4. node[i].votedFor = i /\ node[k].votedFor = k
  BY Zenon DEF VotesAreBacked
<1>5. node[i].currentTerm \in Nat
  BY Zenon DEF TypeOK, NodeType
<1>6. ASSUME NEW c \in {i, k}, j # c
      PROVE  \E m \in msgs : Grants(m) /\ m.from = j /\ m.to = c /\ m.term = t
  BY <1>3, <1>6, SMTT(30) DEF VotesAreBacked
<1>7. ASSUME NEW m \in msgs, Grants(m), m.from = j, m.term = t,
             node[j].currentTerm = t
      PROVE  node[j].votedFor = m.to
  BY <1>5, <1>7, SMTT(30) DEF VotesAreBacked
<1>8. CASE j = i /\ j # k
  BY <1>4, <1>6, <1>7, <1>8, Zenon
<1>9. CASE j = k /\ j # i
  BY <1>4, <1>6, <1>7, <1>9, Zenon
<1>10. CASE j # i /\ j # k
  BY <1>6, <1>10, SMTT(30) DEF VotesAreBacked
<1> QED
  BY <1>8, <1>9, <1>10, Zenon

-----------------------------------------------------------------------------
(* What a call does to the part of a node the argument is about.            *)

\* p differs from n neither in its ballot nor in its log and the indices into it.
SameLog(n, p) ==
    /\ SameBallot(n, p)
    /\ p.log = n.log /\ p.commitIndex = n.commitIndex
    /\ p.nextIndex = n.nextIndex /\ p.matchIndex = n.matchIndex

\* Nor in what it has applied.
SameApply(n, p) ==
    /\ p.lastApplied = n.lastApplied
    /\ p.appliedEntries = n.appliedEntries
    /\ p.pendingSnapshot = n.pendingSnapshot

\* Noting what was sent, confirming reads and registering one touch neither.
LEMMA BookkeepingSame ==
    ASSUME NEW n \in NodeType
    PROVE  /\ \A P : SameLog(n, NoteSent(n, P)) /\ SameApply(n, NoteSent(n, P))
           /\ \A s : SameLog(n, AckReads(n, s)) /\ SameApply(n, AckReads(n, s))
           /\ SameLog(n, CheckPendingReads(n)) /\ SameApply(n, CheckPendingReads(n))
           /\ \A i, k : SameLog(n, ProposeRead(i, n, k)) /\ SameApply(n, ProposeRead(i, n, k))
<1>1. \A P : SameLog(n, NoteSent(n, P)) /\ SameApply(n, NoteSent(n, P))
  BY Zenon DEF NoteSent, NodeType, SameLog, SameApply, SameBallot
<1>2. \A s : SameLog(n, AckReads(n, s)) /\ SameApply(n, AckReads(n, s))
  BY Zenon DEF AckReads, NodeType, SameLog, SameApply, SameBallot
<1>3. SameLog(n, CheckPendingReads(n)) /\ SameApply(n, CheckPendingReads(n))
  BY Zenon DEF CheckPendingReads, NodeType, SameLog, SameApply, SameBallot
<1>4. \A i, k : SameLog(n, ProposeRead(i, n, k)) /\ SameApply(n, ProposeRead(i, n, k))
  BY SMTT(30) DEF ProposeRead, CheckPendingReads, NodeType, SameLog, SameApply, SameBallot
<1> QED
  BY <1>1, <1>2, <1>3, <1>4, Zenon

\* try_advance_apply moves what is applied and nothing else.
LEMMA TryAdvanceApplySame ==
    ASSUME NEW n \in NodeType
    PROVE  SameLog(n, TryAdvanceApply(n))
BY Zenon DEF TryAdvanceApply, CheckPendingReads, NodeType, SameLog, SameBallot

\* p differs from n in nothing but, perhaps, a higher commit_index.
CommitsOnly(n, p) ==
    /\ SameBallot(n, p) /\ p.log = n.log
    /\ p.nextIndex = n.nextIndex /\ p.matchIndex = n.matchIndex
    /\ p.commitIndex >= n.commitIndex

\* try_advance_commit moves commit_index only, and only as a leader may.
LEMMA TryAdvanceCommitStep ==
    ASSUME NatWellOrdered, NEW n \in NodeType
    PROVE  LET p == TryAdvanceCommit(n) IN
           /\ CommitsOnly(n, p) /\ SameApply(n, p)
           /\ p.commitIndex = n.commitIndex \/ LeaderCommits(n.commitIndex, p)
<1> DEFINE p == TryAdvanceCommit(n)
           K == Committable(n)
<1>1. n.commitIndex \in Nat /\ n.log \in LogType /\ LastIndex(n.log) \in Nat
  BY LastIndexType, Zenon DEF NodeType
<1>2. CASE n.role = "Leader" /\ K # {}
  <2>1. K \subseteq Nat /\ \A k \in K : k <= LastIndex(n.log)
    BY <1>1, SMTT(30) DEF Committable
  <2>2. Max(K) \in K
    BY <1>1, <1>2, <2>1, MaxNat, Zenon
  <2>3. p = [n EXCEPT !.commitIndex = Max(K)]
    BY <1>2, Zenon DEF TryAdvanceCommit
  <2>4. /\ p.commitIndex = Max(K) /\ p.role = n.role /\ p.currentTerm = n.currentTerm
        /\ p.log = n.log /\ p.matchIndex = n.matchIndex /\ p.nextIndex = n.nextIndex
        /\ SameBallot(n, p) /\ SameApply(n, p)
    BY <2>3, Zenon DEF NodeType, SameBallot, SameApply
  <2> DEFINE x == Max(K)
  <2>5. x \in K /\ p.commitIndex = x
    BY <2>2, <2>4, Zenon
  <2> HIDE DEF p, x
  <2>6. /\ x > n.commitIndex /\ x <= LastIndex(n.log) /\ x \in Nat
        /\ TermAt(n.log, x) = n.currentTerm
        /\ IsQuorum({s \in Server : n.matchIndex[s] >= x})
    BY <1>1, <2>5, SMTT(30) DEF Committable
  <2>7. LeaderCommits(n.commitIndex, p)
    BY <1>2, <2>4, <2>5, <2>6, Zenon DEF LeaderCommits
  <2> QED
    BY <1>1, <2>4, <2>5, <2>6, <2>7, SMTT(30) DEF CommitsOnly, p
<1>3. CASE ~(n.role = "Leader" /\ K # {})
  BY <1>1, <1>3, SMTT(30) DEF TryAdvanceCommit, CommitsOnly, SameBallot, SameApply
<1> QED
  BY <1>2, <1>3, Zenon

-----------------------------------------------------------------------------
(* The snapshot boundary never moves back.                                  *)

\* The boundary of a log does not move back, and its term changes only with it.
Boundary(n, p) ==
    /\ p.log.lastIncludedIndex >= n.log.lastIncludedIndex
    /\ p.log.lastIncludedIndex = n.log.lastIncludedIndex
          => p.log.lastIncludedTerm = n.log.lastIncludedTerm

\* What adds to a log or commits and applies it leaves the boundary where it is.
LEMMA BoundaryKept ==
    ASSUME NatWellOrdered, NEW n \in NodeType
    PROVE  /\ Boundary(n, n)
           /\ Boundary(n, TryAdvanceCommit(n)) /\ Boundary(n, TryAdvanceApply(n))
           /\ \A P : Boundary(n, NoteSent(n, P))
           /\ \A i \in Server, c \in Command : Boundary(n, AppendOwn(i, n, c))
           /\ \A i, k : Boundary(n, ProposeRead(i, n, k))
<1>1. n.log.lastIncludedIndex \in Nat /\ n.log \in LogType
  BY Zenon DEF NodeType, LogType
<1>2. Boundary(n, n)
  BY <1>1, SMTT(30) DEF Boundary
<1>3. \A p : p.log = n.log => Boundary(n, p)
  BY <1>1, SMTT(30) DEF Boundary
<1>4. TryAdvanceCommit(n).log = n.log
  BY TryAdvanceCommitStep, Zenon DEF CommitsOnly
<1>5. TryAdvanceApply(n).log = n.log
  BY TryAdvanceApplySame, Zenon DEF SameLog
<1>6. /\ \A P : NoteSent(n, P).log = n.log
      /\ \A i, k : ProposeRead(i, n, k).log = n.log
  BY BookkeepingSame, SMTT(30) DEF SameLog
<1>7. ASSUME NEW i \in Server, NEW c \in Command PROVE Boundary(n, AppendOwn(i, n, c))
  <2>1. AppendOwn(i, n, c).log = AppendEntry(n.log, [term |-> n.currentTerm, command |-> c])
    BY Zenon DEF AppendOwn, NodeType
  <2>2. \A e : /\ AppendEntry(n.log, e).lastIncludedIndex = n.log.lastIncludedIndex
              /\ AppendEntry(n.log, e).lastIncludedTerm = n.log.lastIncludedTerm
    BY <1>1, Zenon DEF AppendEntry, LogType
  <2> QED
    BY <1>1, <2>1, <2>2, SMTT(30) DEF Boundary
<1> QED
  BY <1>2, <1>3, <1>4, <1>5, <1>6, <1>7, Zenon

\* Boundaries that do not move back do not move back in two steps either.
LEMMA BoundaryThen ==
    ASSUME NEW n \in NodeType, NEW p \in NodeType, NEW q \in NodeType, Boundary(n, p), Boundary(p, q)
    PROVE  Boundary(n, q)
<1>1. /\ n.log.lastIncludedIndex \in Nat /\ p.log.lastIncludedIndex \in Nat
      /\ q.log.lastIncludedIndex \in Nat
  BY Zenon DEF NodeType, LogType
<1> QED
  BY <1>1, SMTT(30) DEF Boundary

\* A new leader's boundary.
LEMMA BecomeLeaderBoundary ==
    ASSUME NatWellOrdered, NEW i \in Server, NEW n \in NodeType
    PROVE  Boundary(n, BecomeLeader(i, n).node)
<1> DEFINE last == LastIndex(n.log)
           reset == [n EXCEPT !.role = "Leader",
                              !.nextIndex = [s \in Server |-> last + 1],
                              !.matchIndex = [s \in Server |-> IF s = i THEN last ELSE 0]]
           own == AppendOwn(i, reset, Noop)
           led == NoteSent(own, Peers(i))
           com == TryAdvanceCommit(led)
           fin == TryAdvanceApply(com)
<1>1. n.log \in LogType /\ last \in Nat
  BY LastIndexType, Zenon DEF NodeType
<1>2. reset \in NodeType /\ reset.log = n.log
  <2>1. /\ [s \in Server |-> last + 1] \in [Server -> Nat]
        /\ [s \in Server |-> IF s = i THEN last ELSE 0] \in [Server -> Nat]
    BY <1>1, SMTT(30)
  <2> HIDE DEF last
  <2> QED
    BY <2>1, Zenon DEF NodeType, Role
<1> HIDE DEF reset
<1>3. Boundary(n, reset) /\ Noop \in Command
  BY <1>1, <1>2, SMTT(30) DEF Boundary, LogType, Command
<1>4. own \in NodeType /\ Boundary(reset, own)
  BY <1>2, <1>3, AppendOwnType, BoundaryKept, Zenon
<1> HIDE DEF own
<1>5. led \in NodeType /\ Boundary(own, led)
  BY <1>4, NoteSentType, BoundaryKept, Zenon
<1> HIDE DEF led
<1>6. com \in NodeType /\ Boundary(led, com)
  BY <1>5, TryAdvanceCommitType, BoundaryKept, Zenon
<1> HIDE DEF com
<1>7. fin \in NodeType /\ Boundary(com, fin)
  BY <1>6, TryAdvanceApplyType, BoundaryKept, Zenon
<1> HIDE DEF fin
<1>8. Boundary(n, own)
  BY <1>2, <1>3, <1>4, BoundaryThen, Zenon
<1>9. Boundary(n, led)
  BY <1>4, <1>5, <1>8, BoundaryThen, Zenon
<1>10. Boundary(n, com)
  BY <1>5, <1>6, <1>9, BoundaryThen, Zenon
<1>11. Boundary(n, fin)
  BY <1>6, <1>7, <1>10, BoundaryThen, Zenon
<1>12. BecomeLeader(i, n).node = fin
  BY Zenon DEF BecomeLeader, fin, com, led, own, reset
<1> QED
  BY <1>11, <1>12, Zenon

\* No handler moves the boundary back.
LEMMA OnMessageBoundary ==
    ASSUME NatWellOrdered, NEW i \in Server, NEW n \in NodeType, NEW m \in Message
    PROVE  Boundary(n, OnMessage(i, n, m).node)
<1> DEFINE r == OnMessage(i, n, m)
<1>1. n.log \in LogType /\ n.log.lastIncludedIndex \in Nat
  BY Zenon DEF NodeType, LogType
<1>2. \A p : p.log = n.log => Boundary(n, p)
  BY <1>1, SMTT(30) DEF Boundary
<1>3. CASE m.type = "VoteRequest" /\ m \in VoteRequest
  <2>1. r.node.log = n.log
    BY <1>3, Dispatch, SMTT(30) DEF OnVoteRequest, NodeType
  <2> QED
    BY <1>2, <2>1, Zenon
<1>4. CASE m.type = "VoteResponse" /\ m \in VoteResponse
  <2> DEFINE c == [n EXCEPT !.votesReceived = @ \cup {m.from}]
  <2>1. m.from \in Server
    BY MessageKinds, Zenon
  <2>2. c \in NodeType /\ c.log = n.log
    BY <2>1, Zenon DEF NodeType
  <2>3. r.node = n \/ r.node = c \/ r.node = BecomeLeader(i, c).node
    <3>1. r = OnVoteResponse(i, n, m)
      BY <1>4, Dispatch, Zenon
    <3>2. \/ OnVoteResponse(i, n, m) = [node |-> n, out |-> {}]
          \/ OnVoteResponse(i, n, m) = BecomeLeader(i, c)
          \/ OnVoteResponse(i, n, m) = [node |-> c, out |-> {}]
      BY Zenon DEF OnVoteResponse
    <3> HIDE DEF r, c
    <3> QED
      BY <3>1, <3>2, SMTT(30)
  <2> HIDE DEF c, r
  <2>4. Boundary(c, BecomeLeader(i, c).node)
    BY <2>2, BecomeLeaderBoundary, Zenon
  <2> QED
    BY <1>2, <2>2, <2>3, <2>4, Zenon DEF Boundary, r
<1>5. CASE m.type = "AppendRequest" /\ m \in AppendRequest
  <2> DEFINE log == MergeEntries(n.log, m.prevLogIndex, m.entries)
  <2>1. /\ log.lastIncludedIndex = n.log.lastIncludedIndex
        /\ log.lastIncludedTerm = n.log.lastIncludedTerm
    BY <1>1, Zenon DEF MergeEntries, LogType
  <2> HIDE DEF log
  <2>2. r.node.log \in {n.log, log}
    <3>1. r = OnAppendRequest(i, n, m)
      BY <1>5, Dispatch, Zenon
    <3>2. OnAppendRequest(i, n, m).node.log \in {n.log, log}
      BY Zenon DEF OnAppendRequest, NodeType, log
    <3> HIDE DEF r
    <3> QED
      BY <3>1, <3>2, Zenon
  <2> HIDE DEF r
  <2> QED
    BY <1>1, <2>1, <2>2, SMTT(30) DEF Boundary, r
<1>6. CASE m.type = "AppendResponse" /\ m \in AppendAnswer
  <2> DEFINE acked   == AckReads(n, m.from)
             forward == IF m.matchIndex > n.matchIndex[m.from]
                        THEN [acked EXCEPT !.matchIndex[m.from] = m.matchIndex,
                                           !.nextIndex[m.from] = m.matchIndex + 1]
                        ELSE acked
             backed  == [acked EXCEPT !.nextIndex[m.from] = BackedOff(n, m)]
  <2>1. acked.log = n.log
    BY BookkeepingSame, Zenon DEF SameLog
  <2>2. acked \in NodeType
    BY MessageKinds, AckReadsType, Zenon
  <2> HIDE DEF acked
  <2>3. forward.log = n.log /\ backed.log = n.log
    BY <2>1, <2>2, Zenon DEF NodeType
  <2>4. r.node = n \/ r.node = TryAdvanceCommit(forward) \/ r.node = NoteSent(backed, {m.from})
    <3>1. r = OnAppendResponse(i, n, m)
      BY <1>6, Dispatch, Zenon
    <3>2. \/ OnAppendResponse(i, n, m) = [node |-> n, out |-> {}]
          \/ OnAppendResponse(i, n, m) = [node |-> TryAdvanceCommit(forward), out |-> {}]
          \/ OnAppendResponse(i, n, m) = [node |-> NoteSent(backed, {m.from}), out |-> {AppendTo(i, backed, m.from)}]
      BY Zenon DEF OnAppendResponse, acked
    <3> HIDE DEF r, forward, backed
    <3> QED
      BY <3>1, <3>2, SMTT(30)
  <2> HIDE DEF forward, backed
  <2>5. TryAdvanceCommit(forward).log = forward.log /\ NoteSent(backed, {m.from}).log = backed.log
    <3>1. forward \in NodeType /\ backed \in NodeType
      <4>1. m.from \in Server /\ m.matchIndex \in Nat /\ m.matchIndex + 1 \in Nat /\ BackedOff(n, m) \in Nat
        BY <1>6, BackedOffType, SMTT(30) DEF AppendAnswer
      <4> QED
        BY <2>2, <4>1, Zenon DEF NodeType, forward, backed
    <3> QED
      BY <3>1, TryAdvanceCommitStep, BookkeepingSame, Zenon DEF CommitsOnly, SameLog
  <2> QED
    BY <1>2, <2>3, <2>4, <2>5, Zenon
<1>7. CASE m.type = "InstallSnapshotRequest" /\ m \in InstallSnapshotRequest
  <2> DEFINE log == InstallSnapshot(n.log, m.lastIncludedIndex, m.lastIncludedTerm, m.image)
  <2>1. m.lastIncludedIndex \in Nat
    BY <1>7, Zenon DEF InstallSnapshotRequest
  <2>2. /\ log.lastIncludedIndex >= n.log.lastIncludedIndex
        /\ log.lastIncludedIndex = n.log.lastIncludedIndex => log = n.log
    BY <1>1, <2>1, SMTT(30) DEF InstallSnapshot
  <2>3. r.node.log \in {n.log, log}
    <3>1. r = OnInstallSnapshotRequest(i, n, m)
      BY <1>7, Dispatch, Zenon
    <3> HIDE DEF r
    <3>2. OnInstallSnapshotRequest(i, n, m).node.log \in {n.log, log}
      BY Zenon DEF OnInstallSnapshotRequest, Compact, NodeType
    <3> QED
      BY <3>1, <3>2, Zenon
  <2> HIDE DEF r, log
  <2> QED
    BY <1>2, <2>2, <2>3, Zenon DEF Boundary, r
<1>8. CASE m.type = "InstallSnapshotResponse" /\ m \in InstallSnapshotAnswer
  <2>1. r.node.log = n.log
    <3>1. r = OnInstallSnapshotResponse(n, m)
      BY <1>8, Dispatch, Zenon
    <3>2. OnInstallSnapshotResponse(n, m).node.log = n.log
      BY Zenon DEF OnInstallSnapshotResponse, NodeType
    <3> QED
      BY <3>1, <3>2, Zenon
  <2> QED
    BY <1>2, <2>1, Zenon
<1> QED
  BY <1>3, <1>4, <1>5, <1>6, <1>7, <1>8, MessageKinds, Zenon

\* Nor does handle.
LEMMA HandleBoundary ==
    ASSUME NatWellOrdered, NEW i \in Server, NEW n \in NodeType, NEW m \in Message
    PROVE  Boundary(n, Handle(i, n, m).node)
<1> DEFINE o == ObserveTerm(n, m.term)
           r == OnMessage(i, o, m)
           p == TryAdvanceApply(r.node)
<1>1. o \in NodeType
  BY MessageKinds, ObserveTermType, Zenon
<1>2. Boundary(n, o)
  <2>1. o.log = n.log
    BY Zenon DEF ObserveTerm, StepDown, StepDownKeepingVote, NodeType
  <2>2. n.log.lastIncludedIndex \in Nat
    BY Zenon DEF NodeType, LogType
  <2> HIDE DEF o
  <2> QED
    BY <2>1, <2>2, SMTT(30) DEF Boundary
<1> HIDE DEF o
<1>3. r.node \in NodeType /\ Boundary(o, r.node)
  BY <1>1, OnMessageType, OnMessageBoundary, Zenon
<1> HIDE DEF r
<1>4. p \in NodeType /\ Boundary(r.node, p)
  BY <1>3, TryAdvanceApplyType, BoundaryKept, Zenon
<1>5. Handle(i, n, m).node = p
  BY Zenon DEF Handle, r, o
<1> HIDE DEF p
<1>6. Boundary(n, r.node)
  BY <1>1, <1>2, <1>3, BoundaryThen, Zenon
<1> QED
  BY <1>3, <1>4, <1>5, <1>6, BoundaryThen, Zenon

\* Compaction moves it up; without a compaction the iteration's end only hands over
\* what was applied.
LEMMA SettledBoundary ==
    ASSUME NEW st \in StoreType, NEW n \in NodeType
    PROVE  LET p == Settled(st, n) IN
           /\ Boundary(n, p)
           /\ p.log.lastIncludedIndex = 0 =>
                SameLog(n, p) /\ p.lastApplied = n.lastApplied /\ ~AtSnapshotPoint(n)
                /\ p.appliedEntries = << >> /\ p.pendingSnapshot = NoImage
<1> DEFINE clean == [n EXCEPT !.appliedEntries = << >>, !.pendingSnapshot = NoImage]
           p == Settled(st, n)
<1>1. n.log \in LogType /\ n.log.lastIncludedIndex \in Nat /\ n.lastApplied \in Nat
  BY Zenon DEF NodeType, LogType
<1>2. /\ SameLog(n, clean) /\ clean.lastApplied = n.lastApplied /\ clean.log = n.log
      /\ clean.appliedEntries = << >> /\ clean.pendingSnapshot = NoImage
  BY Zenon DEF NodeType, SameLog, SameBallot
<1>3. CASE ~AtSnapshotPoint(n)
  <2>1. p = clean
    BY <1>3, Zenon DEF Settled
  <2> HIDE DEF p, clean
  <2> QED
    BY <1>1, <1>2, <1>3, <2>1, SMTT(30) DEF Boundary, p
<1>4. CASE AtSnapshotPoint(n)
  <2> DEFINE image == Drained(st, n).snapFile
             log == InstallSnapshot(n.log, n.lastApplied, n.currentTerm, image)
  <2>1. p = Compact(clean, n.lastApplied, n.currentTerm, image)
    BY <1>4, Zenon DEF Settled
  <2>2. p.log = log
    BY <2>1, Zenon DEF Compact, NodeType
  <2> HIDE DEF image, p
  <2>3. n.lastApplied > 0
    BY <1>4, Zenon DEF AtSnapshotPoint
  <2>4. /\ log.lastIncludedIndex >= n.log.lastIncludedIndex /\ log.lastIncludedIndex # 0
        /\ log.lastIncludedIndex = n.log.lastIncludedIndex => log = n.log
    BY <1>1, <2>3, SMTT(30) DEF InstallSnapshot
  <2> QED
    BY <2>2, <2>4, Zenon DEF Boundary, p
<1> QED
  BY <1>3, <1>4, Zenon

\* No server has compacted its log, nor been sent a snapshot: the boundary of a log
\* never moves back, so this also says that none ever had.
Uncompacted == \A i \in Server : node[i].log.lastIncludedIndex = 0

\* An iteration built on a node whose boundary did not move back.
LEMMA IterationBoundary ==
    ASSUME NatWellOrdered, TypeOK, NEW i \in Server, NEW n \in NodeType, Boundary(node[i], n), NEW out, NEW W,
           Iteration(i, n, out, W)
    PROVE  \A j \in Server : Boundary(node[j], node'[j])
<1> DEFINE p == Settled(store[i], n)
<1>1. store[i] \in StoreType /\ node \in [Server -> NodeType]
  BY Zenon DEF TypeOK
<1>2. p \in NodeType /\ Boundary(n, p)
  BY <1>1, SettledType, SettledBoundary, Zenon
<1>3. node' = [node EXCEPT ![i] = p]
  BY Zenon DEF Iteration, LocalIteration
<1> HIDE DEF p
<1>4. Boundary(node[i], p)
  BY <1>1, <1>2, BoundaryThen, Zenon
<1>5. \A j \in Server : Boundary(node[j], node[j])
  BY <1>1, BoundaryKept, Zenon
<1> QED
  BY <1>1, <1>3, <1>4, <1>5, Zenon

\* No step of the group moves a boundary back.
LEMMA NextBoundary ==
    ASSUME NatWellOrdered, TypeOK, Next
    PROVE  \A j \in Server : Boundary(node[j], node'[j])
<1> DEFINE Ok == \A j \in Server : Boundary(node[j], node'[j])
<1>0. node \in [Server -> NodeType] /\ \A j \in Server : Boundary(node[j], node[j])
  BY BoundaryKept, Zenon DEF TypeOK
<1>1. ASSUME NEW i \in Server, ElectionTimeout(i) PROVE Ok
  <2> DEFINE c == [node[i] EXCEPT !.currentTerm = @ + 1, !.role = "Candidate",
                                  !.votedFor = i, !.votesReceived = {i}]
             r == StartElection(i, node[i])
             p == TryAdvanceApply(r.node)
  <2>1. node[i] \in NodeType /\ node[i].log.lastIncludedIndex \in Nat
    BY <1>0, Zenon DEF NodeType, LogType
  <2>2. c \in NodeType /\ c.log = node[i].log
    <3>1. node[i].currentTerm + 1 \in Nat /\ {i} \in SUBSET Server /\ "Candidate" \in Role
      BY <2>1, SMTT(30) DEF NodeType, Role
    <3>2. c \in NodeType
      BY <2>1, <3>1, Zenon DEF NodeType
    <3> QED
      BY <2>1, <3>2, Zenon DEF NodeType
  <2>3. r.node = c \/ r.node = BecomeLeader(i, c).node
    BY Zenon DEF StartElection
  <2>4. r.node \in NodeType
    BY <2>1, StartElectionType, Zenon DEF Plain
  <2>5. Iteration(i, p, r.out, pending[i])
    BY <1>1, Zenon DEF ElectionTimeout
  <2> HIDE DEF c, r
  <2>6. Boundary(c, BecomeLeader(i, c).node)
    BY <2>2, BecomeLeaderBoundary, Zenon
  <2>7. Boundary(node[i], r.node)
    BY <2>1, <2>2, <2>3, <2>6, SMTT(30) DEF Boundary
  <2>8. p \in NodeType /\ Boundary(r.node, p)
    BY <2>4, TryAdvanceApplyType, BoundaryKept, Zenon
  <2> HIDE DEF p
  <2>9. Boundary(node[i], p)
    BY <2>1, <2>4, <2>7, <2>8, BoundaryThen, Zenon
  <2> QED
    BY <2>5, <2>8, <2>9, IterationBoundary, Zenon
<1>2. ASSUME NEW i \in Server, NEW n \in NodeType, Boundary(node[i], n), NEW W,
             Iteration(i, Broadcast(i, n).node, Broadcast(i, n).out, W)
      PROVE  Ok
  <2> DEFINE p == NoteSent(n, Peers(i))
  <2>1. p \in NodeType /\ Boundary(n, p) /\ Broadcast(i, n).node = p
    BY NoteSentType, BoundaryKept, Zenon DEF Broadcast
  <2> HIDE DEF p
  <2>2. Boundary(node[i], p)
    BY <1>0, <1>2, <2>1, BoundaryThen, Zenon
  <2> QED
    BY <1>2, <2>1, <2>2, IterationBoundary, Zenon
<1>3. ASSUME NEW i \in Server, Heartbeat(i) PROVE Ok
  <2> DEFINE r == Broadcast(i, node[i])
             n == r.node
             p == TryAdvanceApply(n)
  <2>1. node[i] \in NodeType /\ Iteration(i, p, r.out, pending[i])
    BY <1>0, <1>3, Zenon DEF Heartbeat
  <2>2. n \in NodeType /\ Boundary(node[i], n)
    BY <2>1, NoteSentType, BoundaryKept, Zenon DEF Broadcast
  <2> HIDE DEF r
  <2>3. p \in NodeType /\ Boundary(n, p)
    BY <2>2, TryAdvanceApplyType, BoundaryKept, Zenon
  <2> HIDE DEF p
  <2>4. Boundary(node[i], p)
    BY <2>1, <2>2, <2>3, BoundaryThen, Zenon
  <2> QED
    BY <2>1, <2>3, <2>4, IterationBoundary, Zenon
<1>4. ASSUME NEW i \in Server, NEW m \in msgs, Receive(i, m) PROVE Ok
  <2> DEFINE r == Handle(i, node[i], m)
  <2>1. node[i] \in NodeType /\ m \in Message
    BY Zenon DEF TypeOK
  <2>2. r.node \in NodeType /\ Boundary(node[i], r.node)
    BY <2>1, HandleType, HandleBoundary, Zenon
  <2>3. Iteration(i, r.node, r.out, pending[i])
    BY <1>4, Zenon DEF Receive
  <2> HIDE DEF r
  <2> QED
    BY <2>2, <2>3, IterationBoundary, Zenon
<1>5. ASSUME NEW i \in Server, NEW v \in Value, ClientPropose(i, v) PROVE Ok
  <2> DEFINE own == AppendOwn(i, node[i], v)
             com == TryAdvanceCommit(own)
             n == TryAdvanceApply(com)
             pr == [index |-> LastIndex(n.log), term |-> n.currentTerm, command |-> v]
             W == {q \in pending[i] : q.index # pr.index} \cup {pr}
  <2>1. node[i] \in NodeType /\ v \in Command
    BY Zenon DEF TypeOK, Command
  <2>2. Iteration(i, Broadcast(i, n).node, Broadcast(i, n).out, W)
    BY <1>5, Zenon DEF ClientPropose, Propose
  <2> HIDE DEF W
  <2>3. own \in NodeType /\ Boundary(node[i], own)
    BY <2>1, AppendOwnType, BoundaryKept, Zenon
  <2> HIDE DEF own
  <2>4. com \in NodeType /\ Boundary(own, com)
    BY <2>3, TryAdvanceCommitType, BoundaryKept, Zenon
  <2> HIDE DEF com
  <2>5. n \in NodeType /\ Boundary(com, n)
    BY <2>4, TryAdvanceApplyType, BoundaryKept, Zenon
  <2> HIDE DEF n
  <2>6. Boundary(node[i], com)
    BY <2>1, <2>3, <2>4, BoundaryThen, Zenon
  <2>7. Boundary(node[i], n)
    BY <2>1, <2>4, <2>5, <2>6, BoundaryThen, Zenon
  <2> QED
    BY <1>2, <2>2, <2>5, <2>7, Zenon
<1>6. ASSUME NEW i \in Server, ClientRead(i) PROVE Ok
  <2> DEFINE n == ProposeRead(i, node[i], HighestCommit)
  <2>1. node[i] \in NodeType
    BY Zenon DEF TypeOK
  <2>2. n \in NodeType /\ Boundary(node[i], n)
    BY <2>1, HighestCommitType, ProposeReadType, BoundaryKept, Zenon
  <2>3. Iteration(i, Broadcast(i, n).node, Broadcast(i, n).out, pending[i])
    BY <1>6, Zenon DEF ClientRead
  <2> HIDE DEF n
  <2> QED
    BY <1>2, <2>2, <2>3, Zenon
<1>7. ASSUME NEW i \in Server, NEW p, node' = [node EXCEPT ![i] = p],
             p.log.lastIncludedIndex = node[i].log.lastIncludedIndex,
             p.log.lastIncludedTerm = node[i].log.lastIncludedTerm
      PROVE  Ok
  <2>1. node[i].log.lastIncludedIndex \in Nat
    BY <1>0, Zenon DEF NodeType, LogType
  <2>2. Boundary(node[i], p)
    BY <1>7, <2>1, SMTT(30) DEF Boundary
  <2> QED
    BY <1>0, <1>7, <2>2, Zenon
<1>8. ASSUME NEW i \in Server, Transfer(i) PROVE Ok
  <2> DEFINE p == TransferLeadership(node[i])
  <2>1. node[i] \in NodeType
    BY <1>0, Zenon
  <2>2. p.log = node[i].log
    BY <2>1, Zenon DEF TransferLeadership, StepDownKeepingVote, NodeType
  <2>3. node' = [node EXCEPT ![i] = p]
    BY <1>8, Zenon DEF Transfer
  <2> HIDE DEF p
  <2> QED
    BY <1>7, <2>2, <2>3, Zenon
<1>9. ASSUME NEW i \in Server, Restart(i) PROVE Ok
  <2> DEFINE p == Recover(node[i], store[i].floor)
  <2>1. node[i] \in NodeType /\ node[i].log \in LogType
    BY <1>0, Zenon DEF NodeType
  <2>2. p.log = Reloaded(node[i].log)
    BY Zenon DEF Recover, NewNode
  <2>3. /\ Reloaded(node[i].log).lastIncludedIndex = node[i].log.lastIncludedIndex
        /\ Reloaded(node[i].log).lastIncludedTerm = node[i].log.lastIncludedTerm
    BY <2>1, Zenon DEF Reloaded, LogType
  <2>4. node' = [node EXCEPT ![i] = p]
    BY <1>9, Zenon DEF Restart
  <2> HIDE DEF p
  <2> QED
    BY <1>7, <2>2, <2>3, <2>4, Zenon
<1> QED
  BY <1>1, <1>3, <1>4, <1>5, <1>6, <1>8, <1>9, Zenon
     DEF Next, RcvVoteRequest, RcvVoteResponse, RcvAppendRequest, RcvAppendResponse,
         RcvInstallSnapshotRequest, RcvInstallSnapshotResponse

\* What is not compacted after a step was not before it.
LEMMA NeverCompacted ==
    ASSUME NatWellOrdered, TypeOK, [Next]_vars, Uncompacted'
    PROVE  Uncompacted
<1>1. CASE UNCHANGED vars
  BY <1>1, Zenon DEF vars, Uncompacted
<1>2. CASE Next
  <2>1. \A j \in Server : Boundary(node[j], node'[j]) /\ node[j].log.lastIncludedIndex \in Nat
    BY <1>2, NextBoundary, Zenon DEF TypeOK, NodeType, LogType
  <2> QED
    BY <2>1, SMTT(30) DEF Uncompacted, Boundary
<1> QED
  BY <1>1, <1>2, Zenon

=============================================================================
