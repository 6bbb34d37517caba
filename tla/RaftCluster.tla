---------------------------- MODULE RaftCluster ----------------------------
(***************************************************************************)
(* A Raft group as kaya-server runs it: every server takes one iteration   *)
(* of raft_event_loop at a time (a tick, a message, a client write, a      *)
(* client read), drains what the node applied into the storage engine,     *)
(* compacts the log and persists the Raft state.  An iteration is atomic   *)
(* here; RaftPersistence splits it.                                        *)
(*                                                                         *)
(* The network keeps every message ever sent, and a server may receive any *)
(* of them at any time, or never: loss, delay, duplication and reordering. *)
(***************************************************************************)
EXTENDS RaftNode

CONSTANTS SnapshotInterval, \* the 64 of maybe_compact_raft_log
          MaxElections,     \* bound: election timeouts of all servers together
          MaxHeartbeats,    \* bound: heartbeat timeouts of all servers together
          MaxTransfers,     \* bound: leadership transfers
          MaxRestarts,      \* bound: restarts of all servers together
          MaxReads,         \* bound: reads proposed per server process
          MaxLog            \* bound: no client proposal beyond this index

ASSUME BoundAssumption ==
    /\ SnapshotInterval \in Nat \ {0}
    /\ {MaxElections, MaxHeartbeats, MaxTransfers, MaxRestarts, MaxReads, MaxLog} \subseteq Nat

VARIABLES node,     \* node[i]: the RaftNode of server i
          store,    \* store[i]: the engine and the files beside it
          pending,  \* pending[i]: proposals whose client still waits
          leading,  \* leader_groups: who led at the end of its last iteration
          msgs,     \* every Raft message ever sent
          used      \* how much of each bound has been used up

vars == <<node, store, pending, leading, msgs, used>>

(***************************************************************************)
(* engine is what the storage engine answers from, as the sequence of      *)
(* applied entries; wal is the part of it that reopening the engine finds  *)
(* (an installed snapshot is not); floor is the highest index in           *)
(* raft-apply-index.jsonl; snapFile is raft-snapshot.bin.                  *)
(***************************************************************************)
NewStore == [engine |-> << >>, wal |-> << >>, floor |-> 0, snapFile |-> NoImage]

\* apply_installed_raft_snapshot: empty bytes do not parse and change nothing.
Installed(st, image) ==
    IF image.kind = "full" THEN [st EXCEPT !.engine = image.state] ELSE st

Highest(floor, entries) == Max({floor} \cup {entries[k].index : k \in DOMAIN entries})

ApplyDrained(st, entries) ==
    [st EXCEPT !.engine = @ \o entries,
               !.wal    = @ \o entries,
               !.floor  = Highest(@, entries)]

AtSnapshotPoint(n) == n.lastApplied > 0 /\ n.lastApplied % SnapshotInterval = 0

(***************************************************************************)
(* drain_and_apply, then maybe_compact_raft_log (which labels the snapshot *)
(* with the current term), then the abort of pending proposals when the    *)
(* server led at the end of the last iteration and no longer does.         *)
(***************************************************************************)
Drained(st, n) ==
    LET applied == ApplyDrained(Installed(st, n.pendingSnapshot), n.appliedEntries)
    IN  IF AtSnapshotPoint(n)
        THEN [applied EXCEPT !.snapFile = Image(applied.engine)]
        ELSE applied

Settled(st, n) ==
    LET clean == [n EXCEPT !.appliedEntries = << >>, !.pendingSnapshot = NoImage]
    IN  IF AtSnapshotPoint(n)
        THEN Compact(clean, n.lastApplied, n.currentTerm, Drained(st, n).snapFile)
        ELSE clean

Answered(waiting, n) ==
    {p \in waiting : \E k \in DOMAIN n.appliedEntries : n.appliedEntries[k].index = p.index}

StillPending(waiting, led, n) ==
    IF led /\ n.role # "Leader" THEN {} ELSE waiting \ Answered(waiting, n)

\* What an iteration of server i changes at the server, when it leaves node n and
\* has `waiting` client proposals registered as it drains.
LocalIteration(i, n, waiting) ==
    /\ node' = [node EXCEPT ![i] = Settled(store[i], n)]
    /\ store' = [store EXCEPT ![i] = Drained(@, n)]
    /\ pending' = [pending EXCEPT ![i] = StillPending(waiting, i \in leading, n)]
    /\ leading' = IF n.role = "Leader" THEN leading \cup {i} ELSE leading \ {i}

\* The whole iteration: it sends `out` too.
Iteration(i, n, out, waiting) ==
    /\ LocalIteration(i, n, waiting)
    /\ msgs' = msgs \cup out

-----------------------------------------------------------------------------
Init ==
    /\ node = [i \in Server |-> NewNode]
    /\ store = [i \in Server |-> NewStore]
    /\ pending = [i \in Server |-> {}]
    /\ leading = {}
    /\ msgs = {}
    /\ used = [elections |-> 0, heartbeats |-> 0, transfers |-> 0, restarts |-> 0]

\* tick: the election timer of a follower or candidate runs out.
ElectionTimeout(i) ==
    /\ node[i].role # "Leader"
    /\ used.elections < MaxElections
    /\ used' = [used EXCEPT !.elections = @ + 1]
    /\ LET r == StartElection(i, node[i])
       IN  Iteration(i, TryAdvanceApply(r.node), r.out, pending[i])

\* tick: the heartbeat timer of a leader runs out.
Heartbeat(i) ==
    /\ node[i].role = "Leader"
    /\ used.heartbeats < MaxHeartbeats
    /\ used' = [used EXCEPT !.heartbeats = @ + 1]
    /\ LET r == Broadcast(i, node[i])
       IN  Iteration(i, TryAdvanceApply(r.node), r.out, pending[i])

Receive(i, m) ==
    /\ m.to = i
    /\ \E r \in {Handle(i, node[i], m)} : Iteration(i, r.node, r.out, pending[i])
    /\ UNCHANGED used

RcvVoteRequest(i, m) == m.type = "VoteRequest" /\ Receive(i, m)
RcvVoteResponse(i, m) == m.type = "VoteResponse" /\ Receive(i, m)
RcvAppendRequest(i, m) == m.type = "AppendRequest" /\ Receive(i, m)
RcvAppendResponse(i, m) == m.type = "AppendResponse" /\ Receive(i, m)
RcvInstallSnapshotRequest(i, m) == m.type = "InstallSnapshotRequest" /\ Receive(i, m)
RcvInstallSnapshotResponse(i, m) == m.type = "InstallSnapshotResponse" /\ Receive(i, m)

\* A client write: propose, register the waiting client, broadcast.
ClientPropose(i, v) ==
    /\ node[i].role = "Leader"
    /\ LastIndex(node[i].log) < MaxLog
    /\ LET n == Propose(i, node[i], v)
           r == Broadcast(i, n)
           p == [index |-> LastIndex(n.log), term |-> n.currentTerm, command |-> v]
       IN  Iteration(i, r.node, r.out, {q \in pending[i] : q.index # p.index} \cup {p})
    /\ UNCHANGED used

HighestCommit == Max({node[j].commitIndex : j \in Server})

\* A client read: propose_read and broadcast.
ClientRead(i) ==
    /\ node[i].role = "Leader"
    /\ node[i].currentAckSeq < MaxReads
    /\ LET r == Broadcast(i, ProposeRead(i, node[i], HighestCommit))
       IN  Iteration(i, r.node, r.out, pending[i])
    /\ UNCHANGED used

\* TRANSFER_LEADER: handled outside the loop; only the end of the server's next
\* iteration aborts what waits.
Transfer(i) ==
    /\ node[i].role = "Leader"
    /\ Peers(i) # {}
    /\ used.transfers < MaxTransfers
    /\ used' = [used EXCEPT !.transfers = @ + 1]
    /\ node' = [node EXCEPT ![i] = TransferLeadership(@)]
    /\ UNCHANGED <<store, pending, leading, msgs>>

(***************************************************************************)
(* The process stops between two iterations and starts again: Raft state   *)
(* and engine files are as the last iteration wrote them; a persisted      *)
(* snapshot is installed over the reopened engine.                         *)
(***************************************************************************)
Reopened(st) == Installed([st EXCEPT !.engine = st.wal], st.snapFile)

Restart(i) ==
    /\ used.restarts < MaxRestarts
    /\ used' = [used EXCEPT !.restarts = @ + 1]
    /\ node' = [node EXCEPT ![i] = Recover(@, store[i].floor)]
    /\ store' = [store EXCEPT ![i] = Reopened(@)]
    /\ pending' = [pending EXCEPT ![i] = {}]
    /\ leading' = leading \ {i}
    /\ UNCHANGED msgs

Next ==
    \E i \in Server :
        \/ ElectionTimeout(i)
        \/ Heartbeat(i)
        \/ \E m \in msgs : RcvVoteRequest(i, m)
        \/ \E m \in msgs : RcvVoteResponse(i, m)
        \/ \E m \in msgs : RcvAppendRequest(i, m)
        \/ \E m \in msgs : RcvAppendResponse(i, m)
        \/ \E m \in msgs : RcvInstallSnapshotRequest(i, m)
        \/ \E m \in msgs : RcvInstallSnapshotResponse(i, m)
        \/ \E v \in Value : ClientPropose(i, v)
        \/ ClientRead(i)
        \/ Transfer(i)
        \/ Restart(i)

Spec == Init /\ [][Next]_vars

-----------------------------------------------------------------------------
(* Properties.                                                             *)

StoreType == [engine : Seq(AppliedEntry), wal : Seq(AppliedEntry), floor : Nat,
              snapFile : ImageType]

\* Every variable keeps the type node.rs, message.rs and the event loop declare for
\* it, whatever the handlers merge, truncate, back off to or compact.
TypeOK ==
    /\ node \in [Server -> NodeType]
    /\ store \in [Server -> StoreType]
    /\ pending \in [Server -> SUBSET AppliedEntry]
    /\ leading \subseteq Server
    /\ msgs \subseteq Message
    /\ used \in [elections : Nat, heartbeats : Nat, transfers : Nat, restarts : Nat]

\* At most one leader per term: start_election, on_vote_request and
\* on_vote_response never let two nodes lead in the same term (RFT-001).
ElectionSafety ==
    \A i, j \in Server :
        (/\ node[i].role = "Leader"
         /\ node[j].role = "Leader"
         /\ node[i].currentTerm = node[j].currentTerm) => i = j

\* Why ElectionSafety holds: a granted vote is remembered by the voter for as long
\* as it stays in the term, a voter grants one vote per term, a candidate's votes
\* are its own and those it was sent, and a leader has a quorum of them.
VotesAreBacked ==
    /\ \A m \in msgs : Grants(m) =>
          \/ node[m.from].currentTerm > m.term
          \/ node[m.from].currentTerm = m.term /\ node[m.from].votedFor = m.to
    /\ \A m, p \in msgs :
          (Grants(m) /\ Grants(p) /\ m.from = p.from /\ m.term = p.term) => m.to = p.to
    /\ \A i \in Server : node[i].role # "Follower" =>
          /\ node[i].votedFor = i
          /\ \A j \in node[i].votesReceived \ {i} : \E m \in msgs :
                Grants(m) /\ m.from = j /\ m.to = i /\ m.term = node[i].currentTerm
    /\ \A i \in Server : node[i].role = "Leader" => IsQuorum(node[i].votesReceived)

\* The entry server i holds at an index above its snapshot boundary.
EntryAt(i, k) == node[i].log.entries[k - node[i].log.lastIncludedIndex]

Holds(i, k) == k \in node[i].log.lastIncludedIndex + 1 .. LastIndex(node[i].log)

\* Log matching (RFT-003): two logs that agree on the term of an entry agree on
\* that entry and on every earlier one both still hold, whatever on_append_request
\* merged, truncated or skipped.
LogMatching ==
    \A i, j \in Server :
        \A k \in 1 .. Min({LastIndex(node[i].log), LastIndex(node[j].log)}) :
            (Holds(i, k) /\ Holds(j, k) /\ EntryAt(i, k).term = EntryAt(j, k).term)
              => \A h \in 1 .. k : Holds(i, h) /\ Holds(j, h) => EntryAt(i, h) = EntryAt(j, h)

\* Committed entries are not lost (RFT-002): what a server has committed is in
\* the log of every leader of a later term.
LeaderCompleteness ==
    \A i, j \in Server :
        (node[j].role = "Leader" /\ node[j].currentTerm > node[i].currentTerm)
          => \A k \in 1 .. node[i].commitIndex :
                /\ k <= LastIndex(node[j].log)
                /\ Holds(i, k) /\ Holds(j, k) => EntryAt(j, k) = EntryAt(i, k)

\* State machine safety (RFT-004, RFT-007): every engine has applied its entries
\* in log order without a hole, and two engines never differ on an entry both
\* have applied, whichever leader drove drain_and_apply.
StateMachineSafety ==
    \A i, j \in Server :
        /\ \A k \in DOMAIN store[i].engine : store[i].engine[k].index = k
        /\ \A k \in DOMAIN store[i].engine \cap DOMAIN store[j].engine :
              store[i].engine[k] = store[j].engine[k]

\* The leader's match_index is never optimistic: a follower that is still in the
\* leader's term holds the leader's entries up to it.  on_append_request answers
\* with its whole last_index, so this is where a stale tail would be counted.
MatchIsTruthful ==
    \A i, j \in Server :
        (node[i].role = "Leader" /\ node[j].currentTerm = node[i].currentTerm)
          => \A k \in 1 .. node[i].matchIndex[j] :
                /\ k <= LastIndex(node[i].log)
                /\ k <= LastIndex(node[j].log)
                /\ Holds(i, k) /\ Holds(j, k) => EntryAt(j, k) = EntryAt(i, k)

\* Minority partition cannot commit (RFT-005): while a leader leads, a majority of
\* all servers stores each entry of its own term that it has committed.
CommittedOnMajority ==
    \A i \in Server : node[i].role = "Leader" =>
        \A k \in 1 .. node[i].commitIndex :
            (Holds(i, k) /\ EntryAt(i, k).term = node[i].currentTerm)
              => 2 * Cardinality({j \in Server :
                        Holds(j, k) /\ EntryAt(j, k) = EntryAt(i, k)}) > Cardinality(Server)

\* Durable Raft state is not forgotten (RFT-006): the term never falls, and within
\* a term a vote once given is neither moved nor withdrawn, across step-downs,
\* leadership transfers and restarts.
VoteIsFinal ==
    [][\A i \in Server :
        /\ node'[i].currentTerm >= node[i].currentTerm
        /\ (node'[i].currentTerm = node[i].currentTerm /\ node[i].votedFor # Nil)
              => node'[i].votedFor = node[i].votedFor]_vars

\* A leader only ever appends to its own log, and no server gives up an entry it
\* has committed: truncate_from never reaches below commit_index.
CommittedIsStable ==
    [][\A i \in Server :
        /\ (node[i].role = "Leader" /\ node'[i].role = "Leader")
              => LastIndex(node'[i].log) >= LastIndex(node[i].log)
        /\ \A k \in 1 .. node[i].commitIndex : Holds(i, k) =>
              \/ k <= node'[i].log.lastIncludedIndex
              \/ /\ k <= LastIndex(node'[i].log)
                 /\ node'[i].log.entries[k - node'[i].log.lastIncludedIndex] = EntryAt(i, k)]_vars

\* "Writes are acknowledged once committed on that group": the entry applied at the
\* index a client waits for is the client's own.  drain_and_apply answers Ok for
\* (group, index) without looking at the entry.
AckIsHonest ==
    [][\A i \in Server : \A p \in pending[i] :
        (p.index > node[i].lastApplied /\ p.index <= node'[i].lastApplied)
          => \E k \in DOMAIN store'[i].engine : store'[i].engine[k] = p]_vars

\* Linearizable reads via ReadIndex: a read that becomes ready has everything
\* applied that any server had committed when the read was proposed.
ReadIsFresh ==
    [][\A i \in Server : \A r \in node[i].pendingReads :
        (node'[i].role = "Leader" /\ \A q \in node'[i].pendingReads : q.ackSeq # r.ackSeq)
          => node'[i].lastApplied >= r.seen]_vars

=============================================================================
