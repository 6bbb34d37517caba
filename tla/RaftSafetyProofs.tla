-------------------------- MODULE RaftSafetyProofs --------------------------
(***************************************************************************)
(* Log matching, truthful acknowledgements, leader completeness,           *)
(* commitment on a majority, agreement of the engines and stability of     *)
(* what is committed, for odd groups of every size, as long as no server   *)
(* has compacted its log.  The steps of the handlers are steps of the tree *)
(* of links, whose invariants therefore hold of the group.                 *)
(***************************************************************************)
EXTENDS RaftHandlerProofs, RaftPointProofs

\* A quorum is more than half of the group: with MeetingQuorums and WideningQuorums, what the
\* lemmas below take from counting.
CountedQuorums == \A Q \in SUBSET Server : IsQuorum(Q) => 2 * Cardinality(Q) > Cardinality(Server)

-----------------------------------------------------------------------------
(* The steps of the group are steps of the tree.                            *)

\* Every step of the group is one.
LEMMA NextIsStep ==
    ASSUME NatWellOrdered, WideningQuorums, TypeOK, TypeOK', VotesAreBacked, VotesAreBacked', AllReady, Uncompacted', Next
    PROVE  \E i \in Server, out \in SUBSET Message :
              /\ Step(node, msgs, node', msgs', i, out)
              /\ store[i].floor = node[i].commitIndex => CommitStep(i, node[i], node'[i], msgs)
<1>1. PICK i \in Server : \E p, out : LogMove(i, p, out)
  BY NextLog, Zenon
<1>2. PICK p, out : LogMove(i, p, out)
  BY <1>1, Zenon
<1>3. /\ p \in NodeType /\ out \in SUBSET Message /\ node' = [node EXCEPT ![i] = p]
      /\ msgs' = msgs \cup out /\ LogStep(i, node[i], p, out, msgs)
      /\ store[i].floor = node[i].commitIndex => CommitStep(i, node[i], p, msgs)
  BY <1>2, Zenon DEF LogMove
<1>4. /\ node \in [Server -> NodeType] /\ node' \in [Server -> NodeType]
      /\ msgs \in SUBSET Message /\ msgs' \in SUBSET Message
  BY Zenon DEF TypeOK
<1>5. node'[i] = p /\ \A j \in Server : j # i => node'[j] = node[j]
  BY <1>3, <1>4, Zenon
<1>6. Backed(node, msgs)
  BY BackedBallot, Zenon DEF VotesAreBacked, Backed
<1>7. Backed(node', msgs')
  <2>1. \A j \in Server : BallotOK(j, node'[j], msgs')
    BY Zenon DEF VotesAreBacked, BallotOK
  <2> QED
    BY <2>1, Zenon DEF VotesAreBacked, Backed
<1>8. \A j \in Server : BallotKept(node[j], node'[j])
  <2>1. PICK s \in Server : \E q, o : BallotMove(s, q, o)
    BY NextMove, Zenon
  <2>2. PICK q, o : BallotMove(s, q, o)
    BY <2>1, Zenon
  <2>3. node'[s] = q /\ \A j \in Server : j # s => node'[j] = node[j]
    BY <1>4, <2>2, Zenon DEF BallotMove
  <2>4. \A j \in Server : node[j].currentTerm \in Nat
    BY <1>4, Zenon DEF NodeType
  <2> QED
    BY <2>2, <2>3, <2>4, SMTT(30) DEF BallotMove, BallotStep, BallotKept
<1> QED
  BY <1>3, <1>4, <1>5, <1>6, <1>7, <1>8, Zenon DEF Step

-----------------------------------------------------------------------------
(* LogCore is kept by a step.                                               *)

\* LogCore is what the handlers rely on.
LEMMA CoreReady ==
    ASSUME TypeOK, LogCore(node, msgs)
    PROVE  AllReady
<1>1. NoSnapshotIn(msgs)
  BY Zenon DEF LogCore
<1>2. RequestsGrounded(msgs)
  BY Zenon DEF LogCore, RequestsOK, RequestsGrounded, Requests
<1>3. ASSUME NEW i \in Server PROVE Ready(i, node[i], msgs)
  <2>1. Flat(node[i].log) /\ LeaderOK(i, node[i], msgs) /\ node[i].log \in LogType
    BY Zenon DEF LogCore, TypeOK, NodeType
  <2>2. AcksBelow(node[i], msgs)
    <3> SUFFICES ASSUME node[i].role = "Leader", NEW m \in msgs, IsAck(m), m.term = node[i].currentTerm
                 PROVE  m.matchIndex <= LastIndex(node[i].log)
      BY Zenon DEF AcksBelow
    <3>1. Leads(node, i, m.term)
      BY Zenon DEF Leads
    <3>2. HasPoint(node[i].log, m.matchIndex, m.term)
      BY <3>1, Zenon DEF LogCore, AcksOK
    <3> QED
      BY <2>1, <3>2, PointLink, Zenon
  <2> QED
    BY <2>1, <2>2, Zenon DEF Ready
<1> QED
  BY <1>1, <1>2, <1>3, Zenon DEF AllReady

\* At the start there are no links, requests or acknowledgements.
LEMMA CoreInit ==
    ASSUME Init
    PROVE  LogCore(node, msgs)
<1>1. msgs = {} /\ \A i \in Server : node[i] = NewNode
  BY Zenon DEF Init
<1>2. NewNode.log = EmptyLog /\ NewNode.role = "Follower"
  BY Zenon DEF NewNode
<1>3. Flat(EmptyLog) /\ LinksOf(LogFragment(EmptyLog)) = {}
  <2>1. EmptyLog.entries = << >> /\ LogFragment(EmptyLog) = [entries |-> << >>, base |-> 0, before |-> 0]
    BY Zenon DEF EmptyLog, LogFragment
  <2>2. EndOf(LogFragment(EmptyLog)) = 0 /\ LogFragment(EmptyLog).base = 0
    BY <2>1, SMTT(30) DEF EndOf
  <2> QED
    BY <2>2, SMTT(30) DEF Flat, EmptyLog, LinksOf
<1>4. \A i \in Server : /\ Flat(node[i].log) /\ LogLinks(node[i]) = {}
                        /\ TermsBelow(node[i]) /\ LeaderOK(i, node[i], msgs)
  BY <1>1, <1>2, <1>3, Zenon DEF LogLinks, TermsBelow, LeaderOK
<1>5. Tree(node, msgs) = {}
  <2>1. Requests(msgs) = {}
    BY <1>1, Zenon DEF Requests
  <2> QED
    BY <1>4, <2>1, InTree, Zenon
<1> QED
  BY <1>1, <1>4, <1>5, Zenon DEF LogCore, UniqueIn, OrderedIn, ContiguousIn, Authored, LeaderHas,
     RequestsOK, Requests, AcksOK, NoSnapshotIn

\* The inductive invariant.
LogInv == Uncompacted => LogCore(node, msgs)

\* Every step keeps it.
LEMMA LogInvStep ==
    ASSUME NatWellOrdered, WideningQuorums, MeetingQuorums, TypeOK, TypeOK', VotesAreBacked, VotesAreBacked', LogInv, [Next]_vars
    PROVE  LogInv'
<1> SUFFICES ASSUME Uncompacted' PROVE LogCore(node', msgs')
  BY Zenon DEF LogInv
<1>1. Uncompacted
  BY NeverCompacted, Zenon
<1>2. LogCore(node, msgs)
  BY <1>1, Zenon DEF LogInv
<1>3. CASE UNCHANGED vars
  <2>1. node' = node /\ msgs' = msgs
    BY <1>3, Zenon DEF vars
  <2> QED
    BY <1>2, <2>1, Zenon
<1>4. CASE Next
  <2>1. AllReady
    BY <1>2, CoreReady, Zenon
  <2>2. PICK i \in Server, out \in SUBSET Message : Step(node, msgs, node', msgs', i, out)
    BY <1>4, <2>1, NextIsStep, Zenon
  <2> QED
    BY <1>2, <2>2, CoreKept, Zenon
<1> QED
  BY <1>3, <1>4, Zenon

\* What Holds and EntryAt are of a flat log.
LEMMA FlatHolds ==
    ASSUME TypeOK, NEW i \in Server, Flat(node[i].log)
    PROVE  /\ node[i].log \in LogType /\ LastIndex(node[i].log) = Len(node[i].log.entries)
           /\ LastIndex(node[i].log) \in Nat
           /\ \A k : Holds(i, k) <=> k \in 1 .. Len(node[i].log.entries)
           /\ \A k : Holds(i, k) => /\ EntryAt(i, k) = node[i].log.entries[k]
                                    /\ HasPoint(node[i].log, k, EntryAt(i, k).term)
<1>1. node[i].log \in LogType
  BY Zenon DEF TypeOK, NodeType
<1>2. LastIndex(node[i].log) = Len(node[i].log.entries) /\ Len(node[i].log.entries) \in Nat
  BY <1>1, FlatLog, Zenon
<1>3. node[i].log.lastIncludedIndex = 0
  BY Zenon DEF Flat
<1>4. \A k \in Int : k - 0 = k
  BY SMTT(30)
<1> QED
  BY <1>1, <1>2, <1>3, <1>4, SMTT(30) DEF Holds, EntryAt, HasPoint

\* Log matching follows.
LEMMA CoreMatching ==
    ASSUME NatWellOrdered, TypeOK, LogCore(node, msgs)
    PROVE  LogMatching
<1> SUFFICES ASSUME NEW i \in Server, NEW j \in Server,
                    NEW k \in 1 .. Min({LastIndex(node[i].log), LastIndex(node[j].log)}),
                    Holds(i, k), Holds(j, k), EntryAt(i, k).term = EntryAt(j, k).term,
                    NEW h \in 1 .. k, Holds(i, h), Holds(j, h)
             PROVE  EntryAt(i, h) = EntryAt(j, h)
  BY Zenon DEF LogMatching
<1>1. Typed(node, msgs)
  BY Zenon DEF Typed, TypeOK, LogCore
<1>2. /\ HasPoint(node[i].log, k, EntryAt(i, k).term) /\ HasPoint(node[j].log, k, EntryAt(i, k).term)
      /\ EntryAt(i, h) = node[i].log.entries[h] /\ EntryAt(j, h) = node[j].log.entries[h]
  BY FlatHolds, Zenon DEF LogCore
<1> QED
  BY <1>1, <1>2, PointsAgree, SMTT(30)

\* So does that match_index is truthful: another server's was acknowledged by an entry
\* of the term, which the leader and that server both still have.
LEMMA CoreTruthful ==
    ASSUME NatWellOrdered, TypeOK, LogCore(node, msgs)
    PROVE  MatchIsTruthful
<1> SUFFICES ASSUME NEW i \in Server, NEW j \in Server, node[i].role = "Leader",
                    node[j].currentTerm = node[i].currentTerm, NEW k \in 1 .. node[i].matchIndex[j]
             PROVE  /\ k <= LastIndex(node[i].log) /\ k <= LastIndex(node[j].log)
                    /\ Holds(i, k) /\ Holds(j, k) => EntryAt(j, k) = EntryAt(i, k)
  BY Zenon DEF MatchIsTruthful
<1> DEFINE x == node[i].matchIndex[j]
<1>1. Typed(node, msgs)
  BY Zenon DEF Typed, TypeOK, LogCore
<1>2. /\ x \in Nat /\ node[i].currentTerm \in Nat
  BY Zenon DEF TypeOK, NodeType
<1>3. /\ x <= LastIndex(node[i].log)
      /\ \/ j = i \/ x = 0
         \/ \E m \in msgs : /\ IsAck(m) /\ m.from = j /\ m.term = node[i].currentTerm /\ m.matchIndex = x
  BY Zenon DEF LogCore, LeaderOK, IndicesOK
<1>4. \A s \in Server :
        /\ LastIndex(node[s].log) \in Nat
        /\ \A h : Holds(s, h) => EntryAt(s, h) = node[s].log.entries[h]
  BY FlatHolds, Zenon DEF LogCore
<1> HIDE DEF x
<1>5. k \in Nat /\ k >= 1 /\ k <= x
  BY <1>2, SMTT(30) DEF x
<1>6. CASE j = i
  BY <1>2, <1>3, <1>4, <1>5, <1>6, SMTT(30)
<1>7. ASSUME NEW m \in msgs, IsAck(m), m.from = j, m.term = node[i].currentTerm, m.matchIndex = x
      PROVE  /\ k <= LastIndex(node[i].log) /\ k <= LastIndex(node[j].log)
             /\ Holds(i, k) /\ Holds(j, k) => EntryAt(j, k) = EntryAt(i, k)
  <2>1. Leads(node, i, m.term)
    BY <1>7, Zenon DEF Leads
  <2>2. HasPoint(node[i].log, x, m.term) /\ HasPoint(node[j].log, x, m.term)
    BY <1>7, <2>1, Zenon DEF LogCore, AcksOK
  <2>3. /\ x <= LastIndex(node[i].log) /\ x <= LastIndex(node[j].log)
        /\ \A h \in 1 .. x : node[i].log.entries[h] = node[j].log.entries[h]
    BY <1>1, <2>2, PointsAgree, SMTT(30)
  <2>4. k \in 1 .. x
    BY <1>2, <1>5, SMTT(30)
  <2> QED
    BY <1>2, <1>4, <1>5, <2>3, <2>4, SMTT(30)
<1> QED
  BY <1>2, <1>3, <1>5, <1>6, <1>7, SMTT(30)

-----------------------------------------------------------------------------
(* The inductive invariant of what is committed and applied.                *)

\* The inductive invariant of commitment, engines included.
CommitInv ==
    Uncompacted => /\ CommitCore(node, msgs)
                   /\ \A j \in Server : /\ StoreOK(node[j], store[j])
                                        /\ node[j].commitIndex <= LastIndex(node[j].log)

\* It holds of a group that starts.
LEMMA CommitInit ==
    ASSUME Init
    PROVE  CommitInv
<1>1. msgs = {} /\ \A i \in Server : node[i] = NewNode /\ store[i] = NewStore
  BY Zenon DEF Init
<1>2. /\ NewNode.log = EmptyLog /\ NewNode.commitIndex = 0 /\ NewNode.lastApplied = 0
      /\ NewNode.appliedEntries = << >> /\ NewNode.pendingSnapshot = NoImage
  BY Zenon DEF NewNode
<1>3. EmptyLog \in LogType /\ Flat(EmptyLog) /\ LinksOf(LogFragment(EmptyLog)) = {}
  <2>1. /\ EmptyLog.entries = << >> /\ EmptyLog.lastIncludedIndex = 0
        /\ LogFragment(EmptyLog) = [entries |-> << >>, base |-> 0, before |-> 0]
    BY Zenon DEF EmptyLog, LogFragment
  <2>2. EndOf(LogFragment(EmptyLog)) = 0 /\ LogFragment(EmptyLog).base = 0
    BY <2>1, SMTT(30) DEF EndOf
  <2>3. Flat(EmptyLog) /\ LinksOf(LogFragment(EmptyLog)) = {}
    BY <2>2, SMTT(30) DEF Flat, EmptyLog, LinksOf
  <2>4. EmptyLog \in LogType
    BY ImagesTyped, SMTT(30) DEF EmptyLog, LogType
  <2> QED
    BY <2>3, <2>4, Zenon
<1>4. Requests(msgs) = {} /\ Tree(node, msgs) = {}
  <2>1. Requests(msgs) = {}
    BY <1>1, Zenon DEF Requests
  <2>2. \A i \in Server : LogLinks(node[i]) = {}
    BY <1>1, <1>2, <1>3, Zenon DEF LogLinks
  <2> QED
    BY <2>1, <2>2, InTree, Zenon
<1>5. CommitCore(node, msgs)
  <2>1. AsksOK(node, msgs)
    BY <1>1, Zenon DEF AsksOK
  <2>2. PointsOK(node, msgs)
    BY <1>4, Zenon DEF PointsOK
  <2> QED
    BY <1>1, <1>2, <1>4, <2>1, <2>2, Zenon DEF CommitCore, CommitsChosen
<1>6. LastIndex(EmptyLog) \in Nat
  BY <1>3, LastIndexType, Zenon
<1>7. Applied(EmptyLog, 0, 0) = << >> /\ 0 <= LastIndex(EmptyLog)
  BY <1>3, <1>6, AppliedNone, SMTT(30)
<1>8. StoreOK(NewNode, NewStore)
  BY <1>2, <1>7, Zenon DEF StoreOK, Idle, NewStore
<1> QED
  BY <1>1, <1>2, <1>5, <1>7, <1>8, Zenon DEF CommitInv

\* What one step of a group that does not compact leaves of it.
LEMMA CommitNext ==
    ASSUME NatWellOrdered, WideningQuorums, MeetingQuorums, TypeOK, TypeOK', VotesAreBacked, VotesAreBacked', LogInv, CommitInv, Uncompacted', Next
    PROVE  /\ CommitCore(node', msgs')
           /\ \A j \in Server : /\ KeepsCommitted(node[j], node'[j]) /\ StoreOK(node'[j], store'[j])
                                /\ node[j].commitIndex <= LastIndex(node[j].log)
                                /\ Flat(node[j].log) /\ Flat(node'[j].log)
                                /\ node[j].role = "Leader" /\ node'[j].role = "Leader" =>
                                      LastIndex(node'[j].log) >= LastIndex(node[j].log)
<1>1. Uncompacted
  BY NeverCompacted, Zenon
<1>2. LogCore(node, msgs) /\ CommitCore(node, msgs) /\ \A j \in Server : StoreOK(node[j], store[j])
  BY <1>1, Zenon DEF LogInv, CommitInv
<1>3. AllReady /\ NoSnapshotIn(msgs)
  BY <1>2, CoreReady, Zenon DEF AllReady
<1>4. PICK i \in Server, out \in SUBSET Message :
        /\ Step(node, msgs, node', msgs', i, out)
        /\ store[i].floor = node[i].commitIndex => CommitStep(i, node[i], node'[i], msgs)
  BY <1>3, NextIsStep, Zenon
<1>5. CommitStep(i, node[i], node'[i], msgs)
  BY <1>2, <1>4, Zenon DEF StoreOK
<1>6. /\ CommitCore(node', msgs')
      /\ \A j \in Server : /\ node[j].commitIndex <= node'[j].commitIndex
                           /\ node'[j].commitIndex <= LastIndex(node'[j].log)
  BY <1>2, <1>4, <1>5, CommitCoreKept, Zenon
<1>7. \A j \in Server : /\ node[j].log \in LogType /\ node'[j].log \in LogType
                        /\ Flat(node[j].log) /\ Flat(node'[j].log)
  BY <1>2, <1>4, StepTypes, Zenon
<1>8. \A j \in Server : \A h \in 1 .. node[j].commitIndex : node'[j].log.entries[h] = node[j].log.entries[h]
  BY <1>2, <1>4, CommittedKept, SMTT(30)
<1>9. \A j \in Server : KeepsCommitted(node[j], node'[j])
  BY <1>6, <1>7, <1>8, Zenon DEF KeepsCommitted
<1>10. \A j \in Server : StoreOK(node'[j], store'[j])
  BY <1>2, <1>3, <1>7, <1>9, NextStore, Zenon
<1>11. ASSUME NEW j \in Server, node[j].role = "Leader", node'[j].role = "Leader"
       PROVE  LastIndex(node'[j].log) >= LastIndex(node[j].log)
  <2>0. LastIndex(node[j].log) = Len(node[j].log.entries) /\ Len(node[j].log.entries) \in Nat
    BY <1>7, FlatLog, Zenon
  <2>1. CASE node'[j].log = node[j].log
    BY <2>0, <2>1, SMTT(30)
  <2>2. ASSUME NEW e, node'[j].log = AppendEntry(node[j].log, e)
        PROVE  LastIndex(node'[j].log) >= LastIndex(node[j].log)
    <3>1. node'[j].log.entries = Append(node[j].log.entries, e)
      BY <1>7, <2>2, Zenon DEF AppendEntry, LogType
    <3>2. Len(node'[j].log.entries) = Len(node[j].log.entries) + 1
      BY <1>7, <3>1, SMTT(30) DEF LogType
    <3>3. LastIndex(node'[j].log) = Len(node'[j].log.entries)
      BY <1>7, FlatLog, Zenon
    <3> QED
      BY <2>0, <3>2, <3>3, SMTT(30)
  <2>3. j # i => node'[j] = node[j]
    BY <1>4, Zenon DEF Step
  <2>4. j = i => LogChange(i, node[i], node'[i], msgs)
    BY <1>4, Zenon DEF Step, LogStep
  <2>5. \A m : ~Accepts(j, node[j], node'[j], m)
    BY <1>11, Zenon DEF Accepts
  <2>6. \/ node'[j].log = node[j].log
        \/ \E e : node'[j].log = AppendEntry(node[j].log, e)
    BY <2>3, <2>4, <2>5, Zenon DEF LogChange
  <2> QED
    BY <2>1, <2>2, <2>6, Zenon
<1>12. \A j \in Server : node[j].commitIndex <= LastIndex(node[j].log)
  BY <1>1, Zenon DEF CommitInv
<1> QED
  BY <1>6, <1>7, <1>9, <1>10, <1>11, <1>12, Zenon

\* Every step keeps it.
LEMMA CommitInvStep ==
    ASSUME NatWellOrdered, WideningQuorums, MeetingQuorums, TypeOK, TypeOK', VotesAreBacked, VotesAreBacked', LogInv, CommitInv, [Next]_vars
    PROVE  CommitInv'
<1> SUFFICES ASSUME Uncompacted'
             PROVE  /\ CommitCore(node', msgs')
                    /\ \A j \in Server : /\ StoreOK(node'[j], store'[j])
                                         /\ node'[j].commitIndex <= LastIndex(node'[j].log)
  BY Zenon DEF CommitInv
<1>1. CASE UNCHANGED vars
  <2>1. node' = node /\ msgs' = msgs /\ store' = store
    BY <1>1, Zenon DEF vars
  <2>2. Uncompacted
    BY NeverCompacted, Zenon
  <2> QED
    BY <2>1, <2>2, Zenon DEF CommitInv
<1>2. CASE Next
  BY <1>2, CommitNext, Zenon DEF KeepsCommitted
<1> QED
  BY <1>1, <1>2, Zenon

-----------------------------------------------------------------------------
(* What follows from it.                                                    *)

\* A server that has committed something has a chosen point that covers it.
LEMMA CommitPoint ==
    ASSUME MeetingQuorums, TypeOK, LogCore(node, msgs), CommitCore(node, msgs), NEW i \in Server,
           node[i].commitIndex # 0
    PROVE  \E k, t \in Nat : /\ k >= node[i].commitIndex /\ Chosen(node, msgs, k, t)
                             /\ HasPoint(node[i].log, k, t) /\ t <= node[i].currentTerm
<1>1. PICK k, t \in Nat : /\ k >= node[i].commitIndex /\ Chosen(node, msgs, k, t)
                          /\ HasPoint(node[i].log, k, t)
  BY Zenon DEF CommitCore, CommitsChosen
<1>2. node[i].log \in LogType /\ Flat(node[i].log) /\ TermsBelow(node[i])
  BY Zenon DEF TypeOK, NodeType, LogCore
<1> DEFINE a == LinkAt(LogFragment(node[i].log), k)
<1>3. a \in LogLinks(node[i]) /\ a.entry.term = t
  BY <1>1, <1>2, PointLink, SMTT(30) DEF LogLinks
<1>4. t <= node[i].currentTerm
  BY <1>2, <1>3, Zenon DEF TermsBelow
<1> QED
  BY <1>1, <1>4, Zenon

\* A chosen point is in every server's log that reaches it.
LEMMA ChosenInLog ==
    ASSUME NatWellOrdered, MeetingQuorums, TypeOK, LogCore(node, msgs), CommitCore(node, msgs), NEW j \in Server,
           NEW k, NEW t, Chosen(node, msgs, k, t),
           NEW e \in Nat, NEW u \in Nat, HasPoint(node[j].log, e, u), u > t \/ (u = t /\ e >= k)
    PROVE  HasPoint(node[j].log, k, t)
<1>1. Typed(node, msgs) /\ node[j].log \in LogType /\ Flat(node[j].log) /\ PointsOK(node, msgs)
  BY Zenon DEF Typed, TypeOK, NodeType, LogCore, CommitCore
<1>2. LinksOf(LogFragment(node[j].log)) \subseteq Tree(node, msgs)
  BY InTree, Zenon DEF LogLinks
<1> QED
  BY <1>1, <1>2, ChosenIsIn, Zenon

\* Two servers have committed the same, as far as both have.
LEMMA CommitsAgree ==
    ASSUME NatWellOrdered, MeetingQuorums, TypeOK, LogCore(node, msgs), CommitCore(node, msgs), NEW i \in Server, NEW j \in Server,
           NEW h \in Nat, h >= 1, h <= node[i].commitIndex, h <= node[j].commitIndex
    PROVE  node[i].log.entries[h] = node[j].log.entries[h]
<1>0. Typed(node, msgs) /\ node[i].commitIndex \in Nat /\ node[j].commitIndex \in Nat
  BY Zenon DEF Typed, TypeOK, NodeType, LogCore
<1>1. node[i].commitIndex # 0 /\ node[j].commitIndex # 0
  BY <1>0, SMTT(30)
<1>2. PICK k, t \in Nat : /\ k >= node[i].commitIndex /\ Chosen(node, msgs, k, t)
                          /\ HasPoint(node[i].log, k, t)
  BY <1>1, CommitPoint, Zenon
<1>3. PICK e, u \in Nat : /\ e >= node[j].commitIndex /\ Chosen(node, msgs, e, u)
                          /\ HasPoint(node[j].log, e, u)
  BY <1>1, CommitPoint, Zenon
<1>4. CASE u > t \/ (u = t /\ e >= k)
  <2>1. HasPoint(node[j].log, k, t)
    BY <1>2, <1>3, <1>4, ChosenInLog, Zenon
  <2>2. \A x \in 1 .. k : node[i].log.entries[x] = node[j].log.entries[x]
    BY <1>0, <1>2, <2>1, PointsAgree, SMTT(30)
  <2>3. h \in 1 .. k
    BY <1>0, <1>2, SMTT(30)
  <2> QED
    BY <2>2, <2>3, Zenon
<1>5. CASE t > u \/ (t = u /\ k >= e)
  <2>1. HasPoint(node[i].log, e, u)
    BY <1>2, <1>3, <1>5, ChosenInLog, Zenon
  <2>2. \A x \in 1 .. e : node[i].log.entries[x] = node[j].log.entries[x]
    BY <1>0, <1>3, <2>1, PointsAgree, SMTT(30)
  <2>3. h \in 1 .. e
    BY <1>0, <1>3, SMTT(30)
  <2> QED
    BY <2>2, <2>3, Zenon
<1> QED
  BY <1>4, <1>5, SMTT(30)

\* Leader completeness: what a server has committed, the leader of a later term has.
LEMMA CoreCompleteness ==
    ASSUME NatWellOrdered, MeetingQuorums, TypeOK, LogCore(node, msgs), CommitCore(node, msgs)
    PROVE  LeaderCompleteness
<1> SUFFICES ASSUME NEW i \in Server, NEW j \in Server, node[j].role = "Leader",
                    node[j].currentTerm > node[i].currentTerm, NEW k \in 1 .. node[i].commitIndex
             PROVE  /\ k <= LastIndex(node[j].log)
                    /\ Holds(i, k) /\ Holds(j, k) => EntryAt(j, k) = EntryAt(i, k)
  BY Zenon DEF LeaderCompleteness
<1>00. /\ Typed(node, msgs) /\ node[i].commitIndex \in Nat /\ node[j].log \in LogType /\ Flat(node[j].log)
       /\ node[i].currentTerm \in Nat /\ node[j].currentTerm \in Nat
  BY Zenon DEF Typed, TypeOK, NodeType, LogCore
<1>0. /\ Typed(node, msgs) /\ node[i].commitIndex \in Nat /\ node[j].log \in LogType /\ Flat(node[j].log)
      /\ node[i].currentTerm \in Nat /\ node[j].currentTerm \in Nat /\ k \in Nat /\ node[i].commitIndex # 0
  BY <1>00, SMTT(30)
<1>1. PICK e, t \in Nat : /\ e >= node[i].commitIndex /\ Chosen(node, msgs, e, t)
                          /\ HasPoint(node[i].log, e, t) /\ t <= node[i].currentTerm
  BY <1>0, CommitPoint, Zenon
<1> DEFINE last == LastIndex(node[j].log)
           u == node[j].currentTerm
<1>2. last >= 1 /\ LastTerm(node[j].log) = u
  BY Zenon DEF LogCore, LeaderOK
<1>3. HasPoint(node[j].log, last, u) /\ last \in Nat
  <2>1. last = Len(node[j].log.entries) /\ last \in Nat
    BY <1>0, FlatLog, Zenon
  <2>2. LastTerm(node[j].log) = node[j].log.entries[last].term
    BY <1>0, <1>2, <2>1, SMTT(30) DEF LastTerm, TermAt, Flat
  <2> QED
    BY <1>2, <2>1, <2>2, SMTT(30) DEF HasPoint
<1>4. HasPoint(node[j].log, e, t)
  <2>1. u > t /\ u \in Nat
    BY <1>0, <1>1, SMTT(30)
  <2> HIDE DEF last, u
  <2> QED
    BY <1>1, <1>3, <2>1, ChosenInLog, Zenon
<1>5. /\ e <= LastIndex(node[j].log) /\ LastIndex(node[j].log) \in Nat
      /\ \A h \in 1 .. e : node[i].log.entries[h] = node[j].log.entries[h]
  BY <1>0, <1>1, <1>3, <1>4, PointsAgree, SMTT(30)
<1>6. k \in 1 .. e /\ k <= LastIndex(node[j].log)
  BY <1>0, <1>1, <1>5, SMTT(30)
<1>7. \A s \in Server : Holds(s, k) => EntryAt(s, k) = node[s].log.entries[k]
  BY FlatHolds, Zenon DEF LogCore
<1> QED
  BY <1>5, <1>6, <1>7, Zenon

\* A leader's committed entries of its own term are in a majority of the logs.
LEMMA CoreMajority ==
    ASSUME NatWellOrdered, MeetingQuorums, WideningQuorums, CountedQuorums, TypeOK, LogCore(node, msgs), CommitCore(node, msgs)
    PROVE  CommittedOnMajority
<1> SUFFICES ASSUME NEW i \in Server, node[i].role = "Leader", NEW k \in 1 .. node[i].commitIndex,
                    Holds(i, k), EntryAt(i, k).term = node[i].currentTerm
             PROVE  2 * Cardinality({j \in Server : Holds(j, k) /\ EntryAt(j, k) = EntryAt(i, k)})
                      > Cardinality(Server)
  BY Zenon DEF CommittedOnMajority
<1> DEFINE S == {j \in Server : Holds(j, k) /\ EntryAt(j, k) = EntryAt(i, k)}
           f == LogFragment(node[i].log)
           u == node[i].currentTerm
<1>00. /\ Typed(node, msgs) /\ node[i].commitIndex \in Nat /\ u \in Nat /\ PointsOK(node, msgs)
       /\ \A s \in Server : node[s].log \in LogType /\ Flat(node[s].log)
  BY Zenon DEF Typed, TypeOK, NodeType, LogCore, CommitCore
<1>0. /\ Typed(node, msgs) /\ node[i].commitIndex \in Nat /\ node[i].log \in LogType /\ Flat(node[i].log)
      /\ u \in Nat /\ k \in Nat /\ k >= 1 /\ node[i].commitIndex # 0 /\ PointsOK(node, msgs)
      /\ \A s \in Server : node[s].log \in LogType /\ Flat(node[s].log)
  BY <1>00, SMTT(30)
<1>1. PICK e, t \in Nat : /\ e >= node[i].commitIndex /\ Chosen(node, msgs, e, t)
                          /\ HasPoint(node[i].log, e, t) /\ t <= u
  BY <1>0, CommitPoint, Zenon
<1>2. HasPoint(node[i].log, k, u)
  BY <1>0, FlatHolds, Zenon
<1>3. t = u
  <2>0. node[i].log \in LogType /\ Flat(node[i].log)
    BY <1>0, Zenon
  <2>1. /\ Spans(f, k) /\ TermIn(f, k) = u /\ Spans(f, e) /\ TermIn(f, e) = t
    <3>1. Spans(f, k) /\ TermIn(f, k) = u
      BY <1>2, <2>0, PointLink, SMTT(30)
    <3>2. Spans(f, e) /\ TermIn(f, e) = t
      BY <1>1, <2>0, PointLink, SMTT(30)
    <3> QED
      BY <3>1, <3>2, Zenon
  <2>2. f \in Fragment /\ LinksOf(f) \subseteq Tree(node, msgs) /\ OrderedIn(Tree(node, msgs))
    BY <1>0, FlatLog, InTree, Zenon DEF LogLinks, LogCore
  <2>3. f.base <= k /\ k <= e /\ e <= EndOf(f)
    <3>1. f.base = 0 /\ EndOf(f) = Len(node[i].log.entries) /\ Len(node[i].log.entries) \in Nat
      BY <2>0, FlatLog, Zenon
    <3>2. e \in 1 .. Len(node[i].log.entries)
      BY <1>1, Zenon DEF HasPoint
    <3>3. k <= e /\ k \in Nat /\ k >= 1
      BY <1>0, <1>1, SMTT(30)
    <3> QED
      BY <3>1, <3>2, <3>3, SMTT(30)
  <2> HIDE DEF f
  <2>4. TermIn(f, k) <= TermIn(f, e)
    BY <1>0, <2>2, <2>3, TermsGrow, Zenon
  <2> QED
    BY <1>0, <1>1, <2>1, <2>4, SMTT(30)
<1>4. PICK Q \in SUBSET Server : IsQuorum(Q) /\ \A s \in Q : Acked(node, msgs, s, e, t)
  BY <1>1, Zenon DEF Chosen
<1>5. ASSUME NEW s \in Q PROVE s \in S
  <2>0. s \in Server
    BY <1>4, Zenon
  <2>1. HasPoint(node[s].log, e, t)
    BY <1>0, <1>1, <1>4, <2>0, ChosenPoint, Zenon
  <2>2. e <= LastIndex(node[s].log) /\ \A h \in 1 .. e : node[i].log.entries[h] = node[s].log.entries[h]
    <3>1. HasPoint(node[i].log, e, t) /\ Typed(node, msgs)
      BY <1>0, <1>1, Zenon
    <3>2. /\ e \in Nat /\ e >= 1 /\ e <= LastIndex(node[i].log) /\ e <= LastIndex(node[s].log)
          /\ \A h \in 1 .. e : node[i].log.entries[h] = node[s].log.entries[h]
      BY <2>0, <2>1, <3>1, PointsAgree, SMTT(30)
    <3> QED
      BY <3>2, Zenon
  <2>3. k \in 1 .. e
    BY <1>0, <1>1, SMTT(30)
  <2>4. /\ LastIndex(node[s].log) = Len(node[s].log.entries) /\ Len(node[s].log.entries) \in Nat
        /\ (Holds(s, k) <=> k \in 1 .. Len(node[s].log.entries))
        /\ Holds(s, k) => EntryAt(s, k) = node[s].log.entries[k]
    BY <1>0, <2>0, FlatHolds, FlatLog, Zenon
  <2>5. EntryAt(i, k) = node[i].log.entries[k]
    BY <1>0, FlatHolds, Zenon
  <2>6. Holds(s, k)
    <3>1. k \in 1 .. Len(node[s].log.entries)
      BY <1>1, <2>2, <2>3, <2>4, SMTT(30)
    <3> QED
      BY <2>4, <3>1, Zenon
  <2> QED
    BY <2>0, <2>2, <2>3, <2>4, <2>5, <2>6, Zenon
<1>6. IsQuorum(S)
  <2>1. S \in SUBSET Server /\ Q \subseteq S
    BY <1>5, Zenon
  <2> HIDE DEF S
  <2> QED
    BY <1>4, <2>1, Zenon DEF WideningQuorums
<1> HIDE DEF S
<1>7. 2 * Cardinality(S) > Cardinality(Server)
  <2>1. S \in SUBSET Server
    BY Zenon DEF S
  <2> QED
    BY <1>6, <2>1, Zenon DEF CountedQuorums
<1> QED
  BY <1>7, Zenon DEF S

\* The engines hold the same entries, and every one at its own index.
LEMMA CoreStateMachines ==
    ASSUME NatWellOrdered, MeetingQuorums, TypeOK, LogCore(node, msgs), CommitCore(node, msgs),
           \A j \in Server : StoreOK(node[j], store[j]) /\ node[j].commitIndex <= LastIndex(node[j].log)
    PROVE  StateMachineSafety
<1>1. ASSUME NEW i \in Server
      PROVE  /\ node[i].commitIndex \in Nat /\ DOMAIN store[i].engine = 1 .. node[i].commitIndex
             /\ \A k \in 1 .. node[i].commitIndex :
                   store[i].engine[k] = [index |-> k, term |-> node[i].log.entries[k].term,
                                         command |-> node[i].log.entries[k].command]
  <2>1. /\ node[i].log \in LogType /\ Flat(node[i].log) /\ node[i].commitIndex \in Nat
        /\ store[i].engine = Applied(node[i].log, 0, node[i].commitIndex)
    BY Zenon DEF TypeOK, NodeType, LogCore, StoreOK
  <2> DEFINE c == node[i].commitIndex
  <2>2. c - 0 = c /\ \A k \in 1 .. c : 0 + k = k
    BY <2>1, SMTT(30)
  <2> QED
    BY <2>1, <2>2, Zenon DEF Applied
<1>2. ASSUME NEW i \in Server, NEW j \in Server, NEW k \in DOMAIN store[i].engine \cap DOMAIN store[j].engine
      PROVE  store[i].engine[k] = store[j].engine[k]
  <2>1. k \in 1 .. node[i].commitIndex /\ k \in 1 .. node[j].commitIndex
    BY <1>1, Zenon
  <2>2. k \in Nat /\ k >= 1 /\ k <= node[i].commitIndex /\ k <= node[j].commitIndex
    BY <1>1, <2>1, SMTT(30)
  <2>3. node[i].log.entries[k] = node[j].log.entries[k]
    BY <2>2, CommitsAgree, Zenon
  <2>4. /\ store[i].engine[k] = [index |-> k, term |-> node[i].log.entries[k].term,
                                 command |-> node[i].log.entries[k].command]
        /\ store[j].engine[k] = [index |-> k, term |-> node[j].log.entries[k].term,
                                 command |-> node[j].log.entries[k].command]
    BY <1>1, <2>1, Zenon
  <2> QED
    BY <2>3, <2>4, Zenon
<1>3. ASSUME NEW i \in Server, NEW k \in DOMAIN store[i].engine PROVE store[i].engine[k].index = k
  <2>1. k \in 1 .. node[i].commitIndex
    BY <1>1, Zenon
  <2>2. store[i].engine[k] = [index |-> k, term |-> node[i].log.entries[k].term,
                              command |-> node[i].log.entries[k].command]
    BY <1>1, <2>1, Zenon
  <2> QED
    BY <2>2, SMTT(30)
<1> QED
  BY <1>2, <1>3, Zenon DEF StateMachineSafety

\* No step gives up a committed entry, and a leader's log does not get shorter.
LEMMA CoreStable ==
    ASSUME NatWellOrdered, WideningQuorums, MeetingQuorums, TypeOK, TypeOK', VotesAreBacked, VotesAreBacked', LogInv, CommitInv, Uncompacted', Next,
           NEW i \in Server
    PROVE  /\ (node[i].role = "Leader" /\ node'[i].role = "Leader")
                 => LastIndex(node'[i].log) >= LastIndex(node[i].log)
           /\ \A k \in 1 .. node[i].commitIndex : Holds(i, k) =>
                 \/ k <= node'[i].log.lastIncludedIndex
                 \/ /\ k <= LastIndex(node'[i].log)
                    /\ node'[i].log.entries[k - node'[i].log.lastIncludedIndex] = EntryAt(i, k)
<1>1. /\ KeepsCommitted(node[i], node'[i]) /\ Flat(node[i].log) /\ Flat(node'[i].log)
      /\ node[i].role = "Leader" /\ node'[i].role = "Leader" =>
            LastIndex(node'[i].log) >= LastIndex(node[i].log)
  BY CommitNext, Zenon
<1>2. /\ node[i].commitIndex \in Nat /\ node'[i].commitIndex \in Nat /\ node'[i].log \in LogType
      /\ node'[i].log.lastIncludedIndex = 0
  BY <1>1, Zenon DEF TypeOK, NodeType, Flat
<1>3. LastIndex(node'[i].log) \in Nat
  BY <1>2, LastIndexType, Zenon
<1>4. \A k : Holds(i, k) => EntryAt(i, k) = node[i].log.entries[k]
  BY <1>1, FlatHolds, Zenon
<1>5. ASSUME NEW k \in 1 .. node[i].commitIndex, Holds(i, k)
      PROVE  /\ k <= LastIndex(node'[i].log)
             /\ node'[i].log.entries[k - node'[i].log.lastIncludedIndex] = EntryAt(i, k)
  <2>1. k - 0 = k /\ k <= LastIndex(node'[i].log)
    BY <1>1, <1>2, <1>3, SMTT(30) DEF KeepsCommitted
  <2> QED
    BY <1>1, <1>2, <1>4, <1>5, <2>1, Zenon DEF KeepsCommitted
<1> QED
  BY <1>1, <1>5, Zenon

-----------------------------------------------------------------------------
(* What holds of every run, given the order of the naturals and quorums     *)
(* that meet, widen and count.                                              *)

\* Never two leaders in one term.
LEMMA OneLeader ==
    ASSUME NatWellOrdered, MeetingQuorums
    PROVE  Spec => []ElectionSafety
<1>1. TypeOK /\ VotesAreBacked => ElectionSafety
  BY VotesGiveOneLeader, Zenon
<1> QED
  BY <1>1, TypeInvariant, BallotInvariant, PTL

\* The inductive invariant of the log.
LEMMA LogInvariant ==
    ASSUME NatWellOrdered, MeetingQuorums, WideningQuorums
    PROVE  Spec => []LogInv
<1>1. Init => LogInv
  BY CoreInit, Zenon DEF LogInv
<1>2. TypeOK /\ TypeOK' /\ VotesAreBacked /\ VotesAreBacked' /\ LogInv /\ [Next]_vars => LogInv'
  BY LogInvStep, SMTT(30)
<1> QED
  BY <1>1, <1>2, TypeInvariant, BallotInvariant, PTL DEF Spec

\* What follows from it, for as long as no log has been compacted.
LEMMA LogResults ==
    ASSUME NatWellOrdered, MeetingQuorums, WideningQuorums
    PROVE  /\ Spec => [](Uncompacted => LogMatching)
           /\ Spec => [](Uncompacted => MatchIsTruthful)
<1>1. TypeOK /\ LogInv => (Uncompacted => LogMatching /\ MatchIsTruthful)
  BY CoreMatching, CoreTruthful, Zenon DEF LogInv
<1> QED
  BY <1>1, LogInvariant, TypeInvariant, PTL

\* The inductive invariant of what is committed and applied.
LEMMA CommitInvariant ==
    ASSUME NatWellOrdered, MeetingQuorums, WideningQuorums
    PROVE  Spec => []CommitInv
<1>1. Init => CommitInv
  BY CommitInit, Zenon
<1>2. TypeOK /\ TypeOK' /\ VotesAreBacked /\ VotesAreBacked' /\ LogInv /\ CommitInv /\ [Next]_vars => CommitInv'
  BY CommitInvStep, SMTT(30)
<1> QED
  BY <1>1, <1>2, TypeInvariant, BallotInvariant, LogInvariant, PTL DEF Spec

\* What follows from it, under the same condition.
LEMMA CommitResults ==
    ASSUME NatWellOrdered, MeetingQuorums, WideningQuorums, CountedQuorums
    PROVE  /\ Spec => [](Uncompacted => LeaderCompleteness)
           /\ Spec => [](Uncompacted => CommittedOnMajority)
           /\ Spec => [](Uncompacted => StateMachineSafety)
<1>1. TypeOK /\ LogInv /\ CommitInv
        => (Uncompacted => LeaderCompleteness /\ CommittedOnMajority /\ StateMachineSafety)
  BY CoreCompleteness, CoreMajority, CoreStateMachines, Zenon DEF LogInv, CommitInv
<1> QED
  BY <1>1, LogInvariant, CommitInvariant, TypeInvariant, PTL

\* And of the steps of a run in which no log is compacted.
LEMMA StepResults ==
    ASSUME NatWellOrdered, MeetingQuorums, WideningQuorums
    PROVE  Spec /\ []Uncompacted => CommittedIsStable
<1> DEFINE Stable(i) == /\ (node[i].role = "Leader" /\ node'[i].role = "Leader")
                              => LastIndex(node'[i].log) >= LastIndex(node[i].log)
                        /\ \A k \in 1 .. node[i].commitIndex : Holds(i, k) =>
                              \/ k <= node'[i].log.lastIncludedIndex
                              \/ /\ k <= LastIndex(node'[i].log)
                                 /\ node'[i].log.entries[k - node'[i].log.lastIncludedIndex] = EntryAt(i, k)
<1>1. TypeOK /\ TypeOK' /\ VotesAreBacked /\ VotesAreBacked' /\ LogInv /\ CommitInv /\ Uncompacted'
        /\ [Next]_vars => [\A i \in Server : Stable(i)]_vars
  BY CoreStable, SMTT(30)
<1> QED
  BY <1>1, LogInvariant, CommitInvariant, TypeInvariant, BallotInvariant, PTL DEF Spec, CommittedIsStable

-----------------------------------------------------------------------------
(***************************************************************************)
(* The results.  The lemmas of this module and of those it extends take    *)
(* the order of the naturals, and what counting says of quorums, as        *)
(* hypotheses; they are discharged here.                                   *)
(***************************************************************************)
FS == INSTANCE FiniteSetTheorems

\* The library's finite sets and their cardinalities are those of the model.
LEMMA SameCount ==
    ASSUME NEW S
    PROVE  Cardinality(S) = FS!Cardinality(S) /\ (IsFiniteSet(S) <=> FS!IsFiniteSet(S))
<1>1. Cardinality(S) = FS!Cardinality(S)
  BY Zenon DEF Cardinality, FS!Cardinality
<1>2. IsFiniteSet(S) <=> FS!IsFiniteSet(S)
  BY Zenon DEF IsFiniteSet, FS!IsFiniteSet
<1> QED
  BY <1>1, <1>2, Zenon

\* Every set of naturals that is not empty has a least member.
LEMMA WellOrder == NatWellOrdered
<1> SUFFICES ASSUME NEW S, S \subseteq Nat, S # {} PROVE \E x \in S : \A y \in S : x <= y
  BY Zenon DEF NatWellOrdered
<1>1. PICK x \in S : \A y \in S : ~(<<y, x>> \in FS!OpToRel(<, Nat))
  BY FS!NatLessThanWellFounded, FS!WFMin, Zenon
<1>2. \A y \in S : ~(y < x)
  BY <1>1, Zenon DEF FS!OpToRel
<1> QED
  BY <1>2, SMTT(30)

\* The code's quorum, div_ceil(2), is a majority exactly when this holds.
OddCluster == Cardinality(Server) % 2 = 1

\* Counting sets of servers.
LEMMA ServerCounts ==
    ASSUME NEW R \in SUBSET Server, NEW Q \in SUBSET R
    PROVE  /\ Cardinality(Server) \in Nat /\ Cardinality(R) \in Nat /\ Cardinality(Q) \in Nat
           /\ Cardinality(Q) <= Cardinality(R)
<1>1. FS!IsFiniteSet(Server)
  BY SameCount, ServerAssumption, Zenon
<1>2. FS!IsFiniteSet(R)
  BY <1>1, FS!FS_Subset, Zenon
<1>3. FS!IsFiniteSet(Q) /\ FS!Cardinality(Q) <= FS!Cardinality(R)
  BY <1>2, FS!FS_Subset, Zenon
<1>4. FS!Cardinality(Server) \in Nat /\ FS!Cardinality(R) \in Nat /\ FS!Cardinality(Q) \in Nat
  BY <1>1, <1>2, <1>3, FS!FS_CardinalityType, Zenon
<1>5. /\ Cardinality(Server) = FS!Cardinality(Server) /\ Cardinality(R) = FS!Cardinality(R)
      /\ Cardinality(Q) = FS!Cardinality(Q)
  BY SameCount, Zenon
<1> QED
  BY <1>3, <1>4, <1>5, Zenon

\* Two quorums of an odd group have a member in common.
LEMMA QuorumsMeet ==
    ASSUME OddCluster
    PROVE  MeetingQuorums
<1> SUFFICES ASSUME NEW Q \in SUBSET Server, NEW R \in SUBSET Server, IsQuorum(Q), IsQuorum(R)
             PROVE  Q \cap R # {}
  BY Zenon DEF MeetingQuorums
<1>1. Cardinality(Server) \in Nat
  BY ServerCounts, Zenon
<1>2. Cardinality(Q) \in Nat /\ Cardinality(R) \in Nat
  BY ServerCounts, Zenon
<1>3. 2 * QuorumSize > Cardinality(Server) /\ QuorumSize \in Nat
  BY <1>1, SMTT(30) DEF QuorumSize, OddCluster
<1>4. Cardinality(Q) + Cardinality(R) > Cardinality(Server)
  BY <1>1, <1>2, <1>3, SMTT(30) DEF IsQuorum
<1> QED
  <2>1. FS!IsFiniteSet(Server) /\ FS!Cardinality(Q) + FS!Cardinality(R) > FS!Cardinality(Server)
    <3>1. /\ Cardinality(Server) = FS!Cardinality(Server) /\ Cardinality(Q) = FS!Cardinality(Q)
          /\ Cardinality(R) = FS!Cardinality(R) /\ FS!IsFiniteSet(Server)
      BY SameCount, ServerAssumption, Zenon
    <3> QED
      BY <1>4, <3>1, Zenon
  <2> QED
    BY <2>1, FS!FS_MajoritiesIntersect, Zenon

\* A larger set of servers is a quorum too.
LEMMA QuorumsWiden == WideningQuorums
<1> SUFFICES ASSUME NEW Q \in SUBSET Server, NEW R \in SUBSET Server, Q \subseteq R, IsQuorum(Q)
             PROVE  IsQuorum(R)
  BY Zenon DEF WideningQuorums
<1>1. /\ Cardinality(Server) \in Nat /\ Cardinality(R) \in Nat /\ Cardinality(Q) \in Nat
      /\ Cardinality(Q) <= Cardinality(R)
  BY ServerCounts, Zenon
<1>2. QuorumSize \in Int
  BY <1>1, SMTT(30) DEF QuorumSize
<1> QED
  BY <1>1, <1>2, SMTT(30) DEF IsQuorum

\* A quorum of an odd group is more than half of it.
LEMMA QuorumsCount ==
    ASSUME OddCluster
    PROVE  CountedQuorums
<1> SUFFICES ASSUME NEW Q \in SUBSET Server, IsQuorum(Q)
             PROVE  2 * Cardinality(Q) > Cardinality(Server)
  BY Zenon DEF CountedQuorums
<1>1. Cardinality(Server) \in Nat
  BY ServerCounts, Zenon
<1>2. Cardinality(Q) \in Nat
  BY ServerCounts, Zenon
<1>3. 2 * QuorumSize > Cardinality(Server) /\ QuorumSize \in Nat
  BY <1>1, SMTT(30) DEF QuorumSize, OddCluster
<1> QED
  BY <1>1, <1>2, <1>3, SMTT(30) DEF IsQuorum

-----------------------------------------------------------------------------
(* Types and votes.                                                         *)

\* Every reachable state of a group of any size, with any bounds, is well typed:
\* no handler of node.rs, in any order of messages, crashes and client calls,
\* leaves a value outside the type the source declares.
THEOREM TypeCorrect == Spec => []TypeOK
BY WellOrder, TypeInvariant, Zenon

\* Every vote the group ever counted was cast, remembered and cast once.
THEOREM VotesBacked == Spec => []VotesAreBacked
BY WellOrder, BallotInvariant, Zenon

\* RFT-006, for every group: no step, step-down, leadership transfer or restart
\* between two iterations included, lowers a term or changes a vote within it.
THEOREM VotesAreFinal == Spec => VoteIsFinal
BY WellOrder, BallotsKept, Zenon

\* RFT-001, for every odd group: never two leaders in one term, however messages
\* are lost, duplicated, delayed and reordered and whoever restarts when.
THEOREM OneLeaderPerTerm == OddCluster => (Spec => []ElectionSafety)
BY WellOrder, QuorumsMeet, OneLeader, Zenon

-----------------------------------------------------------------------------
(* The logs.                                                                *)

\* RFT-003 of every odd group, for as long as no log has been compacted: whatever
\* on_append_request merged, truncated or skipped, in whatever order and however often
\* messages arrived, and across restarts, two logs that agree on the term of an entry
\* agree up to it.
THEOREM LogsMatch == OddCluster => (Spec => [](Uncompacted => LogMatching))
BY WellOrder, QuorumsMeet, QuorumsWiden, LogResults, Zenon

\* Under the same conditions a leader's match_index is never optimistic, although
\* on_append_request answers with its whole last_index.
THEOREM MatchesAreTruthful == OddCluster => (Spec => [](Uncompacted => MatchIsTruthful))
BY WellOrder, QuorumsMeet, QuorumsWiden, LogResults, Zenon

-----------------------------------------------------------------------------
(* What is committed.                                                       *)

\* RFT-002 of every odd group, for as long as no log has been compacted: the leader of
\* a later term holds every entry any server has committed, whatever messages were
\* lost, repeated or delayed, and across restarts.
THEOREM LeadersAreComplete == OddCluster => (Spec => [](Uncompacted => LeaderCompleteness))
BY WellOrder, QuorumsMeet, QuorumsWiden, QuorumsCount, CommitResults, Zenon

\* RFT-005 under the same conditions: what try_advance_commit committed in the leader's own term
\* is in the logs of more than half of the servers.
THEOREM CommitsAreOnMajority == OddCluster => (Spec => [](Uncompacted => CommittedOnMajority))
BY WellOrder, QuorumsMeet, QuorumsWiden, QuorumsCount, CommitResults, Zenon

\* RFT-004 and RFT-007 under the same conditions: no two engines ever apply different entries at an
\* index, and drain_and_apply neither skips nor repeats one, not even over a restart.
THEOREM EnginesAgree == OddCluster => (Spec => [](Uncompacted => StateMachineSafety))
BY WellOrder, QuorumsMeet, QuorumsWiden, QuorumsCount, CommitResults, Zenon

\* In a run in which no log is compacted no step gives up an entry that is committed,
\* and no step shortens the log of a server that leads before and after it.
THEOREM CommitsAreStable == OddCluster => (Spec /\ []Uncompacted => CommittedIsStable)
BY WellOrder, QuorumsMeet, QuorumsWiden, StepResults, Zenon

=============================================================================
