------------------------------ MODULE RaftLink ------------------------------
(***************************************************************************)
(* One replication link of a Raft group: a leader of term Epoch that a     *)
(* third server already follows, and a follower that comes back with some  *)
(* older log.  The code that runs is RaftCluster's; only the start and the *)
(* network differ.  The third server stays silent from then on.  Messages  *)
(* are consumed when received, may be lost, and overtake each other.       *)
(***************************************************************************)
EXTENDS RaftCluster

CONSTANTS Leader, Follower, Third,
          Epoch,         \* the leader's term
          LeaderLogs,    \* logs (sequences of entries) the leader may be elected with
          FollowerLogs,  \* logs the follower may come back with
          MaxInFlight    \* bound: messages in flight

ASSUME LinkAssumption ==
    /\ Server = {Leader, Follower, Third}
    /\ Cardinality(Server) = 3
    /\ {Epoch, MaxInFlight} \subseteq Nat \ {0}
    /\ \A l \in LeaderLogs \cup FollowerLogs :
          l \in Seq(Entry) /\ \A k \in DOMAIN l : l[k].term \in 1 .. Epoch - 1

Ordered(log) == \A j, k \in DOMAIN log : j <= k => log[j].term <= log[k].term

\* Two logs that can exist side by side: the same index and term means the same past.
Compatible(a, b) ==
    \A k \in DOMAIN a \cap DOMAIN b :
        a[k].term = b[k].term => SubSeq(a, 1, k) = SubSeq(b, 1, k)

CommonPrefix(a, b) ==
    Max({0} \cup {k \in DOMAIN a \cap DOMAIN b : SubSeq(a, 1, k) = SubSeq(b, 1, k)})

WithLog(log) == [NewNode EXCEPT !.log.entries = log]

\* The leader once the third server has acknowledged its whole log.
Acknowledged(log) ==
    LET won == BecomeLeader(Leader, [WithLog(log) EXCEPT !.currentTerm = Epoch,
                                                         !.votedFor = Leader,
                                                         !.votesReceived = {Leader, Third}])
        ack == AppendResponse(Third, won.node, Leader, TRUE, LastIndex(won.node.log))
    IN  Handle(Leader, won.node, ack).node

AppliedPrefix(log, c) ==
    [k \in 1 .. c |-> [index |-> k, term |-> log[k].term, command |-> log[k].command]]

StoreWith(engine) ==
    [NewStore EXCEPT !.engine = engine, !.wal = engine, !.floor = Len(engine)]

LinkInit ==
    \E l \in LeaderLogs, f \in FollowerLogs :
        /\ Ordered(l) /\ Ordered(f) /\ Compatible(l, f)
        /\ \E c \in 0 .. CommonPrefix(l, f) :
            /\ node = [s \in Server |->
                 CASE s = Leader -> Settled(NewStore, Acknowledged(l))
                   [] s = Follower -> [WithLog(f) EXCEPT !.currentTerm = Epoch - 1,
                                                         !.commitIndex = c, !.lastApplied = c]
                   [] s = Third -> [WithLog(Append(l, [term |-> Epoch, command |-> Noop]))
                                        EXCEPT !.currentTerm = Epoch, !.votedFor = Leader]]
            /\ store = [s \in Server |->
                 CASE s = Leader -> Drained(NewStore, Acknowledged(l))
                   [] s = Follower -> StoreWith(AppliedPrefix(f, c))
                   [] s = Third -> NewStore]
        /\ pending = [s \in Server |-> {}]
        /\ leading = {Leader}
        /\ msgs = {}
        /\ used = [elections |-> 1, heartbeats |-> 0, transfers |-> 0, restarts |-> 0]

OnLink(out) == {m \in out : m.to # Third}

Beat ==
    /\ Cardinality(msgs) < MaxInFlight
    /\ \E r \in {Broadcast(Leader, node[Leader])} :
         /\ LocalIteration(Leader, TryAdvanceApply(r.node), pending[Leader])
         /\ msgs' = msgs \cup OnLink(r.out)
    /\ UNCHANGED used

\* Handle, with each of its calls bound to its value.
Deliver(i, m) ==
    /\ m.to = i
    /\ \E n \in {ObserveTerm(node[i], m.term)} :
       \E r \in {OnMessage(i, n, m)} :
       \E applied \in {TryAdvanceApply(r.node)} :
         /\ LocalIteration(i, applied, pending[i])
         /\ msgs' = (msgs \ {m}) \cup OnLink(r.out)
    /\ UNCHANGED used

Lose(m) ==
    /\ msgs' = msgs \ {m}
    /\ UNCHANGED <<node, store, pending, leading, used>>

Write(v) ==
    /\ LastIndex(node[Leader].log) < MaxLog
    /\ Cardinality(msgs) < MaxInFlight
    /\ LET n == Propose(Leader, node[Leader], v)
           r == Broadcast(Leader, n)
           p == [index |-> LastIndex(n.log), term |-> n.currentTerm, command |-> v]
       IN  /\ LocalIteration(Leader, r.node, pending[Leader] \cup {p})
           /\ msgs' = msgs \cup OnLink(r.out)
    /\ UNCHANGED used

LinkNext ==
    \/ Beat
    \/ \E m \in msgs : Deliver(Follower, m)
    \/ \E m \in msgs : Deliver(Leader, m)
    \/ \E m \in msgs : Lose(m)
    \/ \E v \in Value : Write(v)

(***************************************************************************)
(* Heartbeats are driven by a tokio interval, which keeps firing.  A       *)
(* direction of the link that is used again and again gets a message       *)
(* through again and again: every batch opens a connection of its own.     *)
(***************************************************************************)
LinkSpec ==
    /\ LinkInit /\ [][LinkNext]_vars
    /\ WF_vars(Beat)
    /\ SF_vars(\E m \in msgs : Deliver(Follower, m))
    /\ SF_vars(\E m \in msgs : Deliver(Leader, m))

-----------------------------------------------------------------------------
\* The back-off of on_append_response and the snapshot fallback of send_append_to
\* terminate: whatever log the follower came back with, the leader in the end knows
\* it to hold its whole log.
FollowerCatchesUp ==
    <>[](node[Leader].matchIndex[Follower] = LastIndex(node[Leader].log))

\* ... and the two engines answer alike.
EnginesConverge == <>[](store[Follower].engine = store[Leader].engine)

\* match_index only moves forward: nothing the leader has learnt about the follower
\* is forgotten because a late answer arrives (on_append_response,
\* on_install_snapshot_response).
MatchNeverFalls ==
    [][node'[Leader].matchIndex[Follower] >= node[Leader].matchIndex[Follower]]_vars

=============================================================================
