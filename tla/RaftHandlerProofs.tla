------------------------- MODULE RaftHandlerProofs --------------------------
(***************************************************************************)
(* What every handler of a server whose log was never compacted does to    *)
(* its log, its commit index, its messages and its engine: LogStep,        *)
(* CommitStep and StoreOK, one lemma per operator of RaftNode, then one    *)
(* step per action of the group.                                           *)
(***************************************************************************)
EXTENDS RaftElectionProofs

-----------------------------------------------------------------------------
(* What a call does to the part of a node the argument is about.            *)

\* Entries a + 1 .. b of a flat log, as drain_and_apply takes them.
Applied(log, a, b) ==
    [k \in 1 .. b - a |-> [index |-> a + k, term |-> log.entries[a + k].term,
                           command |-> log.entries[a + k].command]]

\* What is applied is a sequence of applied entries.
LEMMA AppliedType ==
    ASSUME NEW log \in LogType, Flat(log), NEW a \in Nat, NEW b \in Nat, a <= b, b <= LastIndex(log)
    PROVE  /\ Applied(log, a, b) \in Seq(AppliedEntry)
           /\ Len(Applied(log, a, b)) = b - a
           /\ \A k \in 1 .. b - a : Applied(log, a, b)[k] =
                 [index |-> a + k, term |-> log.entries[a + k].term, command |-> log.entries[a + k].command]
<1>1. b - a \in Nat /\ LastIndex(log) = Len(log.entries) /\ Len(log.entries) \in Nat
  BY FlatLog, SMTT(30)
<1>2. \A k \in 1 .. b - a : [index |-> a + k, term |-> log.entries[a + k].term,
                              command |-> log.entries[a + k].command] \in AppliedEntry
  <2> TAKE k \in 1 .. b - a
  <2>1. a + k \in 1 .. Len(log.entries) /\ a + k \in Nat
    BY <1>1, SMTT(30)
  <2>2. log.entries[a + k] \in Entry
    BY <2>1, FlatLog, Zenon
  <2> QED
    BY <2>1, <2>2, Zenon DEF Entry, AppliedEntry
<1> QED
  BY <1>1, <1>2, SMTT(30) DEF Applied

\* What is applied in two goes is what is applied in one.
LEMMA AppliedJoin ==
    ASSUME NEW log \in LogType, Flat(log), NEW a \in Nat, NEW b \in Nat, NEW c \in Nat,
           a <= b, b <= c, c <= LastIndex(log)
    PROVE  Applied(log, a, b) \o Applied(log, b, c) = Applied(log, a, c)
<1> DEFINE f == Applied(log, a, b)
           g == Applied(log, b, c)
           h == Applied(log, a, c)
           e(k) == [index |-> k, term |-> log.entries[k].term, command |-> log.entries[k].command]
<1>0. LastIndex(log) \in Nat /\ b <= LastIndex(log) /\ a <= c
  BY LastIndexType, SMTT(30)
<1>1. f \in Seq(AppliedEntry) /\ Len(f) = b - a /\ \A k \in 1 .. b - a : f[k] = e(a + k)
  BY <1>0, AppliedType, Zenon
<1>2. g \in Seq(AppliedEntry) /\ Len(g) = c - b /\ \A k \in 1 .. c - b : g[k] = e(b + k)
  BY <1>0, AppliedType, Zenon
<1>3. h \in Seq(AppliedEntry) /\ Len(h) = c - a /\ \A k \in 1 .. c - a : h[k] = e(a + k)
  BY <1>0, AppliedType, Zenon
<1> HIDE DEF f, g, h, e
<1>t. f \in Seq(AppliedEntry) /\ g \in Seq(AppliedEntry)
  BY <1>1, <1>2, Zenon
<1>4. /\ f \o g \in Seq(AppliedEntry)
      /\ Len(f \o g) = Len(f) + Len(g)
      /\ \A k \in 1 .. Len(f) : (f \o g)[k] = f[k]
      /\ \A k \in 1 .. Len(g) : (f \o g)[Len(f) + k] = g[k]
  BY ONLY <1>t, JoinFacts, SMTT(30)
<1>5. ASSUME NEW k \in 1 .. c - a PROVE (f \o g)[k] = h[k]
  <2>1. CASE k <= b - a
    <3>1. k \in 1 .. Len(f) /\ k \in 1 .. b - a
      BY <1>1, <2>1, SMTT(30)
    <3> QED
      BY <1>1, <1>3, <1>4, <3>1, Zenon
  <2>2. CASE ~(k <= b - a)
    <3> DEFINE j == k - (b - a)
    <3>1. j \in 1 .. c - b /\ (b - a) + j = k /\ b + j = a + k
      BY <2>2, SMTT(30)
    <3> HIDE DEF j
    <3>2. j \in 1 .. Len(g) /\ Len(f) + j = k
      BY <1>1, <1>2, <3>1, Zenon
    <3>3. (f \o g)[k] = g[j] /\ g[j] = e(b + j) /\ h[k] = e(a + k)
      BY <1>2, <1>3, <1>4, <3>1, <3>2, Zenon
    <3> QED
      BY <3>1, <3>3, Zenon
  <2> QED
    BY <2>1, <2>2, Zenon
<1>6. Len(f \o g) = Len(h) /\ \A k \in 1 .. Len(f \o g) : (f \o g)[k] = h[k]
  <2>1. (b - a) + (c - b) = c - a
    BY SMTT(30)
  <2>2. Len(f \o g) = c - a
    BY <1>1, <1>2, <1>4, <2>1, Zenon
  <2> QED
    BY <1>3, <1>5, <2>2, Zenon
<1>7. f \o g = h
  BY <1>3, <1>4, <1>6, SameSequence, Zenon
<1> QED
  BY <1>7, Zenon DEF f, g, h

\* The node has applied its log up to lastApplied, and not yet handed over what is
\* behind a.
ApplyPart(a, p) ==
    /\ p.pendingSnapshot = NoImage
    /\ a <= p.lastApplied /\ p.lastApplied <= p.commitIndex
    /\ p.appliedEntries = Applied(p.log, a, p.lastApplied)

\* try_advance_apply applies everything that is committed.
LEMMA ApplyAdvances ==
    ASSUME NEW n \in NodeType, NEW a \in Nat, Flat(n.log), ApplyPart(a, n),
           n.commitIndex <= LastIndex(n.log)
    PROVE  LET p == TryAdvanceApply(n) IN
           ApplyPart(a, p) /\ p.lastApplied = p.commitIndex
<1> DEFINE p == TryAdvanceApply(n)
           b == n.lastApplied
           c == n.commitIndex
           es == n.log.entries
<1>1. /\ n.log \in LogType /\ b \in Nat /\ c \in Nat /\ a <= b /\ b <= c
      /\ LastIndex(n.log) = Len(es) /\ Len(es) \in Nat /\ n.log.lastIncludedIndex = 0
  BY FlatLog, Zenon DEF NodeType, ApplyPart, Flat
<1>2. Unapplied(n) = Applied(n.log, b, c)
  <2>1. Max({b, 0}) = b
    BY <1>1, MaxPair, SMTT(30)
  <2>2. Min({c, Len(es)}) = c
    BY <1>1, MinPair, SMTT(30)
  <2>3. Max({c - b, 0}) = c - b
    BY <1>1, MaxPair, SMTT(30)
  <2>4. \A k \in 1 .. c - b : b + k - 0 = b + k
    BY <1>1, SMTT(30)
  <2>5. Unapplied(n) = [k \in 1 .. c - b |->
            LET e == es[b + k - 0]
            IN  [index |-> b + k, term |-> e.term, command |-> e.command]]
    BY <1>1, <2>1, <2>2, <2>3, Zenon DEF Unapplied
  <2> QED
    BY <2>4, <2>5, Zenon DEF Applied
<1>3. Applied(n.log, a, b) \o Applied(n.log, b, c) = Applied(n.log, a, c)
  BY <1>1, AppliedJoin, Zenon
<1>4. /\ p.lastApplied = Max({b, c}) /\ p.appliedEntries = n.appliedEntries \o Unapplied(n)
      /\ p.pendingSnapshot = n.pendingSnapshot /\ p.log = n.log /\ p.commitIndex = c
  BY Zenon DEF TryAdvanceApply, CheckPendingReads, NodeType
<1>5. Max({b, c}) = c
  BY <1>1, MaxPair, SMTT(30)
<1>6. n.appliedEntries = Applied(n.log, a, b) /\ n.pendingSnapshot = NoImage
  BY Zenon DEF ApplyPart
<1> HIDE DEF p
<1>7. /\ p.lastApplied = c /\ p.commitIndex = c /\ p.pendingSnapshot = NoImage
      /\ p.appliedEntries = Applied(p.log, a, p.lastApplied)
  BY <1>2, <1>3, <1>4, <1>5, <1>6, Zenon
<1>8. a <= c /\ c <= c
  BY <1>1, SMTT(30)
<1>9. ApplyPart(a, p) /\ p.lastApplied = p.commitIndex
  BY <1>7, <1>8, Zenon DEF ApplyPart
<1> QED
  BY <1>9, Zenon DEF p

-----------------------------------------------------------------------------
(* What a server may do in one step to its log and to what others hear of it. *)

\* Bookkeeping is such a difference.
LEMMA SameCommits ==
    ASSUME NEW n \in NodeType, NEW p, SameLog(n, p)
    PROVE  CommitsOnly(n, p)
<1>1. n.commitIndex \in Nat
  BY Zenon DEF NodeType
<1> QED
  BY <1>1, SMTT(30) DEF SameLog, CommitsOnly

\* What follows a LogStep and touches neither ballot nor log is part of it.
LEMMA LogStepThen ==
    ASSUME NEW i, NEW n, NEW p \in NodeType, NEW q \in NodeType, NEW out \in SUBSET Message, NEW M,
           LogStep(i, n, p, out, M), CommitsOnly(p, q)
    PROVE  LogStep(i, n, q, out, M)
<1>1. /\ q.currentTerm = p.currentTerm /\ q.role = p.role /\ q.log = p.log
      /\ q.nextIndex = p.nextIndex /\ q.matchIndex = p.matchIndex /\ q.commitIndex >= p.commitIndex
      /\ q.commitIndex \in Nat /\ p.commitIndex \in Nat
  BY Zenon DEF CommitsOnly, SameBallot, NodeType
<1>2. Flat(q.log) /\ RoleStep(n, q) /\ LeaderOK(i, q, M)
  BY <1>1, SMTT(30) DEF LogStep, RoleStep, LeaderOK, IndicesOK
<1>3. \A m : Accepts(i, n, p, m) => Accepts(i, n, q, m)
  BY <1>1, Zenon DEF Accepts
<1>4. LogChange(i, n, q, M)
  BY <1>1, <1>3, Zenon DEF LogStep, LogChange
<1>5. ASSUME NEW g \in out PROVE Sent(i, n, q, g, M)
  <2>1. Sent(i, n, p, g, M)
    BY Zenon DEF LogStep
  <2>2. g.type = "AppendRequest" => AppendSent(i, q, g)
    <3> SUFFICES ASSUME g.type = "AppendRequest" PROVE AppendSent(i, q, g)
      BY Zenon
    <3>1. AppendSent(i, p, g)
      BY <2>1, Zenon DEF Sent
    <3>2. g.leaderCommit \in Nat
      BY MessageKinds, Zenon DEF AppendRequest
    <3>3. g.leaderCommit <= q.commitIndex
      BY <1>1, <3>1, <3>2, SMTT(30) DEF AppendSent
    <3> QED
      BY <1>1, <3>1, <3>3, Zenon DEF AppendSent
  <2> QED
    BY <1>1, <1>3, <2>1, <2>2, Zenon DEF Sent
<1> QED
  BY <1>2, <1>4, <1>5, Zenon DEF LogStep

\* The same of a CommitStep.
LEMMA CommitStepThen ==
    ASSUME NEW i, NEW n, NEW p, NEW q, NEW M, CommitStep(i, n, p, M), SameLog(p, q)
    PROVE  CommitStep(i, n, q, M)
<1>1. /\ q.currentTerm = p.currentTerm /\ q.role = p.role /\ q.log = p.log
      /\ q.matchIndex = p.matchIndex /\ q.commitIndex = p.commitIndex
  BY Zenon DEF SameLog, SameBallot
<1>2. \A m : Accepts(i, n, p, m) => Accepts(i, n, q, m)
  BY <1>1, Zenon DEF Accepts
<1> QED
  BY <1>1, <1>2, Zenon DEF CommitStep, LeaderCommits

\* What send_append_to sends on a flat log whose next_index is in range.
LEMMA AppendToSent ==
    ASSUME NEW i \in Server, NEW n \in NodeType, Flat(n.log), n.role = "Leader",
           NEW j \in Server, n.nextIndex[j] \in 1 .. LastIndex(n.log) + 1
    PROVE  AppendSent(i, n, AppendTo(i, n, j))
<1> DEFINE next == n.nextIndex[j]
           f == LogFragment(n.log)
           g == AppendTo(i, n, j)
<1>1. /\ n.log \in LogType /\ n.currentTerm \in Nat /\ n.commitIndex \in Nat /\ n.log.lastIncludedIndex = 0
      /\ next \in 1 .. LastIndex(n.log) + 1 /\ LastIndex(n.log) \in Nat /\ next \in Nat
  BY LastIndexType, Zenon DEF NodeType, Flat
<1>2. next - 1 \in 0 .. LastIndex(n.log) /\ ~(next <= 0) /\ next - 0 = next
  BY <1>1, SMTT(30)
<1>3. Max({next - 1, 0}) = next - 1
  BY <1>2, MaxPair, SMTT(30)
<1>4. TermAt(n.log, next - 1) = TermIn(f, next - 1) /\ TermIn(f, next - 1) \in Nat
  <2>1. f \in Fragment /\ f.base = 0 /\ LastIndex(n.log) = Len(n.log.entries) /\ EndOf(f) = Len(n.log.entries)
    BY <1>1, FlatLog, Zenon
  <2> QED
    BY <1>1, <1>2, <2>1, FlatLog, TermInType, Zenon
<1>5. Max({TermAt(n.log, next - 1), 0}) = TermIn(f, next - 1)
  BY <1>4, MaxPair, SMTT(30)
<1>6. EntriesFrom(n.log, next) = SubSeq(n.log.entries, next, Len(n.log.entries))
  BY <1>1, <1>2, Zenon DEF EntriesFrom
<1>7. g = [type |-> "AppendRequest", from |-> i, to |-> j,
           term |-> n.currentTerm, prevLogIndex |-> next - 1,
           prevLogTerm |-> TermIn(f, next - 1),
           entries |-> SubSeq(n.log.entries, next, Len(n.log.entries)),
           leaderCommit |-> n.commitIndex]
  BY <1>1, <1>2, <1>3, <1>5, <1>6, Zenon DEF AppendTo
<1> HIDE DEF g
<1>8. /\ g.prevLogIndex = next - 1 /\ g.prevLogTerm = TermIn(f, next - 1)
      /\ g.entries = SubSeq(n.log.entries, next, Len(n.log.entries))
      /\ g.type = "AppendRequest" /\ g.from = i /\ g.term = n.currentTerm
      /\ g.leaderCommit = n.commitIndex
  BY <1>7, Zenon
<1> HIDE DEF next
<1>9. PieceOf(g, n.log)
  BY <1>1, <1>8, Zenon DEF PieceOf
<1> QED
  BY <1>1, <1>8, <1>9, SMTT(30) DEF AppendSent, g

\* send_append_to_all, likewise.
LEMMA AppendToAllSent ==
    ASSUME NEW i \in Server, NEW n \in NodeType, Flat(n.log), n.role = "Leader",
           NEW M, IndicesOK(i, n, M)
    PROVE  \A g \in AppendToAll(i, n) : AppendSent(i, n, g)
BY AppendToSent, Zenon DEF AppendToAll, Peers, IndicesOK

\* An append request, and nothing else, is Sent when it is AppendSent.
LEMMA AppendsAreSent ==
    ASSUME NEW i, NEW n, NEW p, NEW g, NEW M, AppendSent(i, p, g)
    PROVE  Sent(i, n, p, g, M)
BY Zenon DEF AppendSent, Sent, Grants, IsAck

\* A leader's append to its own log.
LEMMA AppendOwnStep ==
    ASSUME NEW i \in Server, NEW n \in NodeType, Flat(n.log), NEW M, NEW c \in Command,
           n.role = "Leader", IndicesOK(i, n, M)
    PROVE  LET p == AppendOwn(i, n, c) IN
           /\ p.log = AppendEntry(n.log, [term |-> n.currentTerm, command |-> c])
           /\ p.currentTerm = n.currentTerm /\ p.role = "Leader" /\ p.commitIndex = n.commitIndex
           /\ Flat(p.log) /\ LeaderOK(i, p, M) /\ IndicesOK(i, p, M) /\ SameApply(n, p)
           /\ p.log.entries = Append(n.log.entries, [term |-> n.currentTerm, command |-> c])
           /\ LastIndex(p.log) = LastIndex(n.log) + 1
<1> DEFINE e == [term |-> n.currentTerm, command |-> c]
           log == AppendEntry(n.log, e)
           p == AppendOwn(i, n, c)
           len == Len(n.log.entries)
<1>1. /\ n.log \in LogType /\ n.log.entries \in Seq(Entry) /\ len \in Nat
      /\ LastIndex(n.log) = len /\ e \in Entry /\ e.term = n.currentTerm
  BY FlatLog, Zenon DEF NodeType, Entry
<1>2. log.entries = Append(n.log.entries, e) /\ Flat(log) /\ log \in LogType
  BY <1>1, AppendEntryType, Zenon DEF AppendEntry, LogType, Flat
<1>3. /\ Len(log.entries) = len + 1 /\ log.entries[len + 1] = e
  BY <1>1, <1>2, SMTT(30)
<1>4. LastIndex(log) = len + 1 /\ LastTerm(log) = n.currentTerm
  <2>1. LastIndex(log) = Len(log.entries)
    BY <1>2, FlatLog, Zenon
  <2>2. log.entries # << >>
    BY <1>1, <1>3, SMTT(30)
  <2> QED
    BY <1>1, <1>3, <2>1, <2>2, Zenon DEF LastTerm
<1> HIDE DEF log, len
<1>5. p = [n EXCEPT !.log = log, !.matchIndex[i] = LastIndex(log), !.nextIndex[i] = LastIndex(log) + 1]
  BY Zenon DEF AppendOwn, log
<1>6. /\ p.log = log /\ p.currentTerm = n.currentTerm /\ p.role = "Leader"
      /\ p.commitIndex = n.commitIndex /\ SameApply(n, p)
      /\ \A j \in Server : /\ p.matchIndex[j] = IF j = i THEN len + 1 ELSE n.matchIndex[j]
                           /\ p.nextIndex[j] = IF j = i THEN len + 2 ELSE n.nextIndex[j]
  BY <1>1, <1>4, <1>5, SMTT(30) DEF NodeType, SameApply
<1> HIDE DEF p
<1>7. ASSUME NEW j \in Server
      PROVE  /\ p.nextIndex[j] \in 1 .. LastIndex(p.log) + 1
             /\ p.matchIndex[j] <= LastIndex(p.log)
             /\ \/ j = i \/ p.matchIndex[j] = 0
                \/ \E m \in M : /\ IsAck(m) /\ m.from = j /\ m.term = p.currentTerm
                                /\ m.matchIndex = p.matchIndex[j]
  <2>1. n.matchIndex[j] \in Nat /\ n.nextIndex[j] \in Nat
    BY Zenon DEF NodeType
  <2>2. n.nextIndex[j] \in 1 .. len + 1 /\ n.matchIndex[j] <= len
    BY <1>1, Zenon DEF IndicesOK
  <2>3. p.nextIndex[j] \in 1 .. LastIndex(p.log) + 1 /\ p.matchIndex[j] <= LastIndex(p.log)
    BY <1>1, <1>4, <1>6, <2>1, <2>2, SMTT(30)
  <2> QED
    BY <1>6, <2>3, SMTT(30) DEF IndicesOK
<1>8. IndicesOK(i, p, M)
  BY <1>7, Zenon DEF IndicesOK
<1>9. LeaderOK(i, p, M)
  BY <1>1, <1>4, <1>6, <1>8, SMTT(30) DEF LeaderOK
<1> QED
  BY <1>1, <1>2, <1>4, <1>6, <1>8, <1>9, Zenon DEF p, log

\* What a node did before the step, if it was in an older term, does not matter.
LEMMA EarlierStart ==
    ASSUME NEW i, NEW n \in NodeType, NEW o \in NodeType, NEW p \in NodeType, NEW out, NEW M,
           o.log = n.log, o.commitIndex = n.commitIndex, o.currentTerm > n.currentTerm,
           o.role # "Leader", p.currentTerm >= o.currentTerm
    PROVE  /\ LogStep(i, o, p, out, M) => LogStep(i, n, p, out, M)
           /\ CommitStep(i, o, p, M) => CommitStep(i, n, p, M)
<1>1. p.currentTerm > n.currentTerm
  BY SMTT(30) DEF NodeType
<1>2. \A m : /\ Accepts(i, o, p, m) <=> Accepts(i, n, p, m)
             /\ LogIsUpToDate(o, m) <=> LogIsUpToDate(n, m)
  BY Zenon DEF Accepts, LogIsUpToDate
<1>3. LogStep(i, o, p, out, M) => LogStep(i, n, p, out, M)
  <2> SUFFICES ASSUME LogStep(i, o, p, out, M) PROVE LogStep(i, n, p, out, M)
    BY Zenon
  <2>1. RoleStep(n, p)
    BY <1>1, Zenon DEF RoleStep
  <2>2. LogChange(i, n, p, M)
    BY <1>2, Zenon DEF LogStep, LogChange
  <2>3. \A g \in out : Sent(i, n, p, g, M)
    BY <1>2, Zenon DEF LogStep, Sent
  <2> QED
    BY <2>1, <2>2, <2>3, Zenon DEF LogStep
<1>4. CommitStep(i, o, p, M) => CommitStep(i, n, p, M)
  BY <1>2, Zenon DEF CommitStep
<1> QED
  BY <1>3, <1>4, Zenon

\* A new leader appends its no-op and sends its log.
LEMMA BecomeLeaderStep ==
    ASSUME NatWellOrdered, NEW i \in Server, NEW n \in NodeType, Flat(n.log), n.role = "Candidate", NEW M
    PROVE  LET r == BecomeLeader(i, n) IN
           LogStep(i, n, r.node, r.out, M) /\ CommitStep(i, n, r.node, M)
<1> DEFINE last == LastIndex(n.log)
           reset == [n EXCEPT !.role = "Leader",
                              !.nextIndex = [s \in Server |-> last + 1],
                              !.matchIndex = [s \in Server |-> IF s = i THEN last ELSE 0]]
           own == AppendOwn(i, reset, Noop)
           led == NoteSent(own, Peers(i))
           out == AppendToAll(i, led)
           com == TryAdvanceCommit(led)
           fin == TryAdvanceApply(com)
<1>1. n.log \in LogType /\ last \in Nat /\ n.currentTerm \in Nat /\ n.commitIndex \in Nat
  BY LastIndexType, Zenon DEF NodeType
<1>2. reset \in NodeType
  <2>1. /\ [s \in Server |-> last + 1] \in [Server -> Nat]
        /\ [s \in Server |-> IF s = i THEN last ELSE 0] \in [Server -> Nat]
    BY <1>1, SMTT(30)
  <2> HIDE DEF last
  <2> QED
    BY <2>1, Zenon DEF NodeType, Role
<1>3. /\ reset.log = n.log /\ reset.role = "Leader" /\ reset.currentTerm = n.currentTerm
      /\ reset.commitIndex = n.commitIndex
      /\ \A j \in Server : /\ reset.nextIndex[j] = last + 1
                           /\ reset.matchIndex[j] = IF j = i THEN last ELSE 0
  BY Zenon DEF NodeType
<1> HIDE DEF reset
<1>4. IndicesOK(i, reset, M)
  BY <1>1, <1>3, SMTT(30) DEF IndicesOK
<1>5. Noop \in Command
  BY Zenon DEF Command
<1>6. /\ own.log = AppendEntry(reset.log, [term |-> reset.currentTerm, command |-> Noop])
      /\ own.currentTerm = reset.currentTerm /\ own.role = "Leader" /\ own.commitIndex = reset.commitIndex
      /\ Flat(own.log) /\ LeaderOK(i, own, M) /\ IndicesOK(i, own, M) /\ own \in NodeType
  BY <1>2, <1>3, <1>4, <1>5, AppendOwnStep, AppendOwnType, Zenon
<1> HIDE DEF own
<1>7. led \in NodeType /\ SameLog(own, led)
  BY <1>6, NoteSentType, BookkeepingSame, Zenon
<1> HIDE DEF led
<1>8. /\ led.log = own.log /\ led.role = "Leader" /\ led.currentTerm = n.currentTerm
      /\ led.commitIndex = n.commitIndex /\ led.nextIndex = own.nextIndex /\ led.matchIndex = own.matchIndex
  BY <1>3, <1>6, <1>7, Zenon DEF SameLog, SameBallot
<1>9. LeaderOK(i, led, M) /\ IndicesOK(i, led, M)
  BY <1>3, <1>6, <1>8, SMTT(30) DEF LeaderOK, IndicesOK
<1>10. \A g \in out : Sent(i, n, led, g, M)
  BY <1>6, <1>7, <1>8, <1>9, AppendToAllSent, AppendsAreSent, Zenon
<1>11. LogChange(i, n, led, M)
  BY <1>3, <1>5, <1>6, <1>8, Zenon DEF LogChange
<1>12. LogStep(i, n, led, out, M)
  BY <1>6, <1>8, <1>9, <1>10, <1>11, Zenon DEF LogStep, RoleStep
<1>13. /\ com \in NodeType /\ CommitsOnly(led, com)
       /\ com.commitIndex = led.commitIndex \/ LeaderCommits(led.commitIndex, com)
  BY <1>7, TryAdvanceCommitType, TryAdvanceCommitStep, Zenon
<1>14. out \in SUBSET Message
  BY <1>7, AppendToAllType, Zenon
<1> HIDE DEF out, com
<1>15. LogStep(i, n, com, out, M) /\ CommitStep(i, n, com, M)
  BY <1>7, <1>8, <1>12, <1>13, <1>14, LogStepThen, Zenon DEF CommitStep
<1>16. fin \in NodeType /\ SameLog(com, fin)
  BY <1>13, TryAdvanceApplyType, TryAdvanceApplySame, Zenon
<1> HIDE DEF fin
<1>17. CommitsOnly(com, fin)
  BY <1>13, <1>16, SameCommits, Zenon
<1>18. LogStep(i, n, fin, out, M) /\ CommitStep(i, n, fin, M)
  BY <1>13, <1>14, <1>15, <1>16, <1>17, LogStepThen, CommitStepThen, Zenon
<1>19. BecomeLeader(i, n) = [node |-> fin, out |-> out]
  BY Zenon DEF BecomeLeader, fin, com, out, led, own, reset
<1> QED
  BY <1>18, <1>19, SMTT(30)

\* An election starts a new term; a group of one wins it at once.
LEMMA StartElectionStep ==
    ASSUME NatWellOrdered, NEW i \in Server, NEW n \in NodeType, Flat(n.log), NEW M
    PROVE  LET r == StartElection(i, n) IN
           LogStep(i, n, r.node, r.out, M) /\ CommitStep(i, n, r.node, M)
<1> DEFINE c == [n EXCEPT !.currentTerm = @ + 1, !.role = "Candidate",
                          !.votedFor = i, !.votesReceived = {i}]
           r == StartElection(i, n)
           out == {[type |-> "VoteRequest", from |-> i, to |-> peer,
                        term |-> c.currentTerm,
                        lastLogIndex |-> LastIndex(c.log),
                        lastLogTerm |-> LastTerm(c.log)] : peer \in Peers(i)}
<1>1. /\ c \in NodeType /\ c.log = n.log /\ c.commitIndex = n.commitIndex /\ c.role = "Candidate"
      /\ c.currentTerm > n.currentTerm
  <2>1. n.currentTerm + 1 \in Nat /\ {i} \in SUBSET Server /\ "Candidate" \in Role
    BY SMTT(30) DEF NodeType, Role
  <2>2. c \in NodeType
    BY <2>1, Zenon DEF NodeType
  <2>3. c.log = n.log /\ c.commitIndex = n.commitIndex /\ c.role = "Candidate"
    BY Zenon DEF NodeType
  <2>4. c.currentTerm = n.currentTerm + 1 /\ n.currentTerm \in Nat
    BY Zenon DEF NodeType
  <2> HIDE DEF c
  <2> QED
    BY <2>2, <2>3, <2>4, SMTT(30)
<1>2. r = IF IsQuorum(c.votesReceived) THEN BecomeLeader(i, c) ELSE [node |-> c, out |-> out]
  BY Zenon DEF StartElection
<1> HIDE DEF c
<1>3. CASE IsQuorum(c.votesReceived)
  <2> DEFINE b == BecomeLeader(i, c)
  <2>1. LogStep(i, c, b.node, b.out, M) /\ CommitStep(i, c, b.node, M)
    BY <1>1, BecomeLeaderStep, Zenon
  <2>2. b.node \in NodeType /\ b.node.currentTerm = c.currentTerm /\ c.currentTerm \in Nat
    <3>1. Plain(b) /\ SameBallot([c EXCEPT !.role = "Leader"], b.node)
      BY <1>1, BecomeLeaderType, Zenon
    <3>2. [c EXCEPT !.role = "Leader"].currentTerm = c.currentTerm /\ c.currentTerm \in Nat
      BY <1>1, Zenon DEF NodeType
    <3> HIDE DEF b
    <3> QED
      BY <3>1, <3>2, Zenon DEF Plain, SameBallot
  <2>3. r = b
    BY <1>2, <1>3, Zenon
  <2> HIDE DEF b
  <2>4. b.node.currentTerm >= c.currentTerm /\ c.role # "Leader"
    BY <1>1, <2>2, SMTT(30)
  <2>5. LogStep(i, n, b.node, b.out, M) /\ CommitStep(i, n, b.node, M)
    BY <1>1, <2>1, <2>2, <2>4, EarlierStart, Zenon
  <2> QED
    BY <2>3, <2>5, Zenon
<1>4. CASE ~IsQuorum(c.votesReceived)
  <2>1. r.node = c /\ r.out = out
    BY <1>2, <1>4, SMTT(30)
  <2>2. \A g \in out : Sent(i, n, c, g, M)
    BY <1>1, SMTT(30) DEF Sent, Grants, IsAck
  <2>3. LogStep(i, n, c, out, M)
    BY <1>1, <2>2, Zenon DEF LogStep, RoleStep, LogChange, LeaderOK
  <2> QED
    BY <1>1, <2>1, <2>3, Zenon DEF CommitStep
<1> QED
  BY <1>3, <1>4, Zenon

\* Granting or refusing a vote leaves the log alone.
LEMMA VoteRequestLog ==
    ASSUME NEW i \in Server, NEW n \in NodeType, NEW M, Ready(i, n, M), NEW m \in VoteRequest,
           m \in M, m.term <= n.currentTerm
    PROVE  LET r == OnVoteRequest(i, n, m) IN
           LogStep(i, n, r.node, r.out, M) /\ CommitStep(i, n, r.node, M)
<1> DEFINE granted == /\ m.term >= n.currentTerm
                      /\ LogIsUpToDate(n, m)
                      /\ n.votedFor \in {Nil, m.from}
           p == [n EXCEPT !.votedFor = IF granted THEN m.from ELSE @]
           g == [type |-> "VoteResponse", from |-> i, to |-> m.from,
                 term |-> n.currentTerm, voteGranted |-> granted]
<1>1. OnVoteRequest(i, n, m) = [node |-> p, out |-> {g}]
  BY Zenon DEF OnVoteRequest
<1>2. /\ p.log = n.log /\ p.role = n.role /\ p.currentTerm = n.currentTerm
      /\ p.nextIndex = n.nextIndex /\ p.matchIndex = n.matchIndex /\ p.commitIndex = n.commitIndex
  BY Zenon DEF NodeType
<1>3. m.type = "VoteRequest" /\ m.term \in Nat /\ n.currentTerm \in Nat
  BY Zenon DEF VoteRequest, NodeType
<1>4. granted => LogIsUpToDate(n, m) /\ m.term = n.currentTerm
  BY <1>3, SMTT(30)
<1> HIDE DEF granted, p
<1>5. Sent(i, n, p, g, M)
  BY <1>2, <1>3, <1>4, Zenon DEF Sent, Grants, IsAck
<1>6. LogStep(i, n, p, {g}, M)
  BY <1>2, <1>5, SMTT(30) DEF LogStep, Ready, RoleStep, LogChange, LeaderOK, IndicesOK
<1> QED
  BY <1>1, <1>2, <1>6, SMTT(30) DEF CommitStep

\* A vote counted makes a leader or leaves the log alone.
LEMMA VoteResponseLog ==
    ASSUME NatWellOrdered, NEW i \in Server, NEW n \in NodeType, NEW M, Ready(i, n, M), NEW m \in VoteResponse
    PROVE  LET r == OnVoteResponse(i, n, m) IN
           LogStep(i, n, r.node, r.out, M) /\ CommitStep(i, n, r.node, M)
<1> DEFINE counted == [n EXCEPT !.votesReceived = @ \cup {m.from}]
           r == OnVoteResponse(i, n, m)
<1>1. LogStep(i, n, n, {}, M) /\ CommitStep(i, n, n, M)
  BY Zenon DEF LogStep, Ready, RoleStep, LogChange, CommitStep
<1>2. m.from \in Server
  BY Zenon DEF VoteResponse
<1>3. /\ counted \in NodeType /\ counted.log = n.log /\ counted.role = n.role
      /\ counted.currentTerm = n.currentTerm /\ counted.nextIndex = n.nextIndex
      /\ counted.matchIndex = n.matchIndex /\ counted.commitIndex = n.commitIndex
  BY <1>2, Zenon DEF NodeType
<1>4. \/ r = [node |-> n, out |-> {}]
      \/ n.role = "Candidate" /\ r = BecomeLeader(i, counted)
      \/ n.role = "Candidate" /\ r = [node |-> counted, out |-> {}]
  BY Zenon DEF OnVoteResponse
<1> HIDE DEF counted, r
<1>5. CASE n.role = "Candidate" /\ r = BecomeLeader(i, counted)
  <2>1. Flat(counted.log)
    BY <1>3, Zenon DEF Ready
  <2>2. LogStep(i, counted, r.node, r.out, M) /\ CommitStep(i, counted, r.node, M)
    BY <1>3, <1>5, <2>1, BecomeLeaderStep, Zenon
  <2>3. \A q, k : /\ Accepts(i, counted, q, k) <=> Accepts(i, n, q, k)
                  /\ LogIsUpToDate(counted, k) <=> LogIsUpToDate(n, k)
    BY <1>3, Zenon DEF Accepts, LogIsUpToDate
  <2>4. LogChange(i, n, r.node, M) /\ RoleStep(n, r.node)
    BY <1>3, <2>2, <2>3, Zenon DEF LogStep, LogChange, RoleStep
  <2>5. \A g \in r.out : Sent(i, n, r.node, g, M)
    BY <1>3, <2>2, <2>3, Zenon DEF LogStep, Sent
  <2> QED
    BY <1>3, <2>2, <2>3, <2>4, <2>5, Zenon DEF LogStep, CommitStep, r
<1>6. CASE n.role = "Candidate" /\ r = [node |-> counted, out |-> {}]
  <2>1. LogStep(i, n, counted, {}, M)
    BY <1>3, <1>6, Zenon DEF LogStep, Ready, RoleStep, LogChange, LeaderOK
  <2> QED
    BY <1>3, <1>6, <2>1, SMTT(30) DEF CommitStep, r
<1> QED
  BY <1>1, <1>4, <1>5, <1>6, SMTT(30) DEF r

\* A request whose prev matches can be merged.
LEMMA PrevIsMergeable ==
    ASSUME NEW n \in NodeType, Flat(n.log), NEW m \in AppendRequest, PrevMatches(n, m),
           m.prevLogIndex = 0 => m.prevLogTerm = 0
    PROVE  Mergeable(n.log, RequestFragment(m))
<1> DEFINE f == RequestFragment(m)
           g == LogFragment(n.log)
<1>1. /\ m.prevLogIndex \in Nat /\ m.prevLogTerm \in Nat /\ m.entries \in Seq(Entry) /\ n.log \in LogType
  BY Zenon DEF AppendRequest, NodeType
<1>2. f \in Fragment /\ f.base = m.prevLogIndex /\ f.before = m.prevLogTerm
  BY <1>1, Zenon DEF RequestFragment, Fragment
<1>3. /\ g.base = 0 /\ g.before = 0 /\ Len(n.log.entries) \in Nat /\ LastIndex(n.log) = Len(n.log.entries)
      /\ \A k \in 0 .. Len(n.log.entries) : TermAt(n.log, k) = TermIn(g, k)
      /\ \A k \in Nat : k > Len(n.log.entries) => TermAt(n.log, k) = NoTerm
  BY <1>1, FlatLog, Zenon
<1> HIDE DEF f, g
<1>4. CASE m.prevLogIndex = 0
  <2>1. f.base <= LastIndex(n.log) /\ TermIn(g, f.base) = f.before
    BY <1>2, <1>3, <1>4, SMTT(30) DEF TermIn
  <2> QED
    BY <1>1, <1>2, <2>1, Zenon DEF Mergeable, f, g
<1>5. CASE m.prevLogIndex # 0
  <2>1. TermAt(n.log, m.prevLogIndex) = m.prevLogTerm
    BY <1>5, Zenon DEF PrevMatches
  <2>2. m.prevLogIndex <= Len(n.log.entries)
    BY <1>1, <1>3, <2>1, SMTT(30) DEF NoTerm
  <2>3. TermIn(g, m.prevLogIndex) = m.prevLogTerm
    BY <1>1, <1>3, <2>1, <2>2, SMTT(30)
  <2> QED
    BY <1>1, <1>2, <1>3, <2>2, <2>3, Zenon DEF Mergeable, f, g
<1> QED
  BY <1>4, <1>5, Zenon

\* A node that stays as it is, or gives up its role, and refuses something.
LEMMA RefusalStep ==
    ASSUME NEW i, NEW n \in NodeType, NEW p, NEW g, NEW M, Ready(i, n, M),
           p = n \/ p = [n EXCEPT !.role = "Follower"],
           g.type \in {"VoteResponse", "AppendResponse"}, ~Grants(g), ~IsAck(g)
    PROVE  LogStep(i, n, p, {g}, M) /\ CommitStep(i, n, p, M)
<1>1. /\ p.log = n.log /\ p.commitIndex = n.commitIndex /\ p.currentTerm = n.currentTerm
      /\ p.role = "Follower" \/ p = n
  BY Zenon DEF NodeType
<1>2. Sent(i, n, p, g, M)
  BY Zenon DEF Sent
<1> QED
  BY <1>1, <1>2, Zenon DEF LogStep, Ready, RoleStep, LogChange, LeaderOK, CommitStep

\* An append request is refused, or merged and acknowledged.
LEMMA AppendRequestLog ==
    ASSUME NatWellOrdered, NEW i \in Server, NEW n \in NodeType, NEW M, Ready(i, n, M), RequestsGrounded(M),
           NEW m \in AppendRequest, m \in M, m.to = i, m.term <= n.currentTerm
    PROVE  LET r == OnAppendRequest(i, n, m) IN
           LogStep(i, n, r.node, r.out, M) /\ CommitStep(i, n, r.node, M)
<1> DEFINE follower == [n EXCEPT !.role = "Follower"]
           log == MergeEntries(n.log, m.prevLogIndex, m.entries)
           commit == IF m.leaderCommit > n.commitIndex
                     THEN Min({m.leaderCommit, LastIndex(log)})
                     ELSE n.commitIndex
           p == [follower EXCEPT !.log = log, !.commitIndex = commit]
           r == OnAppendRequest(i, n, m)
           no(k) == AppendResponse(i, n, m.from, FALSE, k)
           yes == AppendResponse(i, n, m.from, TRUE, LastIndex(log))
<1>1. m.type = "AppendRequest" /\ m.term \in Nat /\ n.currentTerm \in Nat
  BY Zenon DEF AppendRequest, NodeType
<1>2. \A k : no(k).type = "AppendResponse" /\ ~Grants(no(k)) /\ ~IsAck(no(k))
  BY Zenon DEF AppendResponse, Grants, IsAck
<1> HIDE DEF no
<1>3. CASE m.term < n.currentTerm
  <2>1. r.node = n /\ r.out = {no(0)}
    BY <1>3, Zenon DEF OnAppendRequest, no
  <2>2. LogStep(i, n, n, {no(0)}, M) /\ CommitStep(i, n, n, M)
    BY <1>2, RefusalStep, Zenon
  <2> QED
    BY <2>1, <2>2, Zenon
<1>4. CASE ~(m.term < n.currentTerm) /\ ~PrevMatches(n, m)
  <2> DEFINE l == LastIndex(n.log)
  <2>1. r.node = follower /\ r.out = {no(l)}
    BY <1>4, Zenon DEF OnAppendRequest, no
  <2> HIDE DEF l
  <2>2. LogStep(i, n, follower, {no(l)}, M) /\ CommitStep(i, n, follower, M)
    BY <1>2, RefusalStep, Zenon
  <2> QED
    BY <2>1, <2>2, Zenon
<1>5. CASE ~(m.term < n.currentTerm) /\ PrevMatches(n, m)
  <2>1. r.node = p /\ r.out = {yes}
    BY <1>5, Zenon DEF OnAppendRequest
  <2>2. /\ p.log = log /\ p.commitIndex = commit /\ p.role = "Follower"
        /\ p.currentTerm = n.currentTerm
    BY Zenon DEF NodeType
  <2>3. Flat(n.log) /\ (m.prevLogIndex = 0 => m.prevLogTerm = 0)
    BY <1>1, Zenon DEF Ready, RequestsGrounded
  <2>4. Mergeable(n.log, RequestFragment(m))
    BY <1>5, <2>3, PrevIsMergeable, Zenon
  <2>5. log = Merged(n.log, RequestFragment(m))
    BY Zenon DEF Merged, RequestFragment
  <2>6. Flat(log)
    BY <2>4, <2>5, MergeFlat, Zenon DEF Mergeable, Merged
  <2> HIDE DEF p, log
  <2>7. Accepts(i, n, p, m)
    BY <1>1, <1>5, <2>2, <2>4, <2>5, SMTT(30) DEF Accepts
  <2>8. /\ yes.type = "AppendResponse" /\ yes.from = i /\ yes.term = n.currentTerm
        /\ yes.matchIndex = LastIndex(log) /\ ~Grants(yes)
    BY Zenon DEF AppendResponse, Grants
  <2> HIDE DEF yes
  <2>9. Sent(i, n, p, yes, M)
    BY <2>2, <2>7, <2>8, Zenon DEF Sent
  <2>10. LogStep(i, n, p, {yes}, M)
    BY <2>2, <2>6, <2>7, <2>9, Zenon DEF LogStep, RoleStep, LogChange, LeaderOK
  <2>11. CommitStep(i, n, p, M)
    BY <2>2, <2>7, Zenon DEF CommitStep
  <2> QED
    BY <2>1, <2>10, <2>11, Zenon
<1> QED
  BY <1>3, <1>4, <1>5, Zenon

\* Where a refusal makes the leader back off to is still within its log.
LEMMA BackedOffRange ==
    ASSUME NEW n \in NodeType, NEW m \in AppendAnswer, NEW last \in Nat,
           n.nextIndex[m.from] \in 1 .. last + 1
    PROVE  BackedOff(n, m) \in 1 .. last + 1
<1> DEFINE next == n.nextIndex[m.from]
<1>1. next \in 1 .. last + 1 /\ m.matchIndex \in Nat /\ next \in Nat
  BY Zenon DEF AppendAnswer, NodeType
<1>2. BackedOff(n, m) = IF m.matchIndex > 0 /\ m.matchIndex < next THEN m.matchIndex ELSE Max({next - 1, 1})
  BY Zenon DEF BackedOff
<1> HIDE DEF next
<1>3. Max({next - 1, 1}) = IF next - 1 >= 1 THEN next - 1 ELSE 1
  BY <1>1, MaxPair, SMTT(30)
<1> QED
  BY <1>1, <1>2, <1>3, SMTT(30)

\* An acknowledgement raises match_index to what was acknowledged; a refusal sends
\* more of the log.
LEMMA AppendResponseLog ==
    ASSUME NatWellOrdered, NEW i \in Server, NEW n \in NodeType, NEW M, Ready(i, n, M),
           NEW m \in AppendAnswer, m \in M, m.term <= n.currentTerm
    PROVE  LET r == OnAppendResponse(i, n, m) IN
           LogStep(i, n, r.node, r.out, M) /\ CommitStep(i, n, r.node, M)
<1> DEFINE acked   == AckReads(n, m.from)
           forward == IF m.matchIndex > n.matchIndex[m.from]
                      THEN [acked EXCEPT !.matchIndex[m.from] = m.matchIndex,
                                         !.nextIndex[m.from] = m.matchIndex + 1]
                      ELSE acked
           backed  == [acked EXCEPT !.nextIndex[m.from] = BackedOff(n, m)]
           r == OnAppendResponse(i, n, m)
           last == LastIndex(n.log)
<1>1. /\ m.type = "AppendResponse" /\ m.term \in Nat /\ n.currentTerm \in Nat
      /\ m.matchIndex \in Nat /\ m.from \in Server /\ m.success \in BOOLEAN
      /\ n.log \in LogType /\ last \in Nat
      /\ \A j \in Server : n.nextIndex[j] \in Nat /\ n.matchIndex[j] \in Nat
  BY LastIndexType, Zenon DEF AppendAnswer, NodeType
<1>2. CASE n.role # "Leader" \/ m.term < n.currentTerm
  <2>1. r.node = n /\ r.out = {}
    BY <1>2, Zenon DEF OnAppendResponse
  <2> QED
    BY <2>1, Zenon DEF LogStep, Ready, RoleStep, LogChange, CommitStep
<1>3. CASE ~(n.role # "Leader" \/ m.term < n.currentTerm)
  <2>1. n.role = "Leader" /\ m.term = n.currentTerm
    BY <1>1, <1>3, SMTT(30)
  <2>2. /\ Flat(n.log) /\ last >= 1 /\ LastTerm(n.log) = n.currentTerm /\ IndicesOK(i, n, M)
        /\ IsAck(m) => m.matchIndex <= last
    BY <2>1, Zenon DEF Ready, LeaderOK, AcksBelow
  <2>3. acked \in NodeType /\ SameLog(n, acked)
    BY <1>1, BookkeepingSame, AckReadsType, Zenon
  <2> HIDE DEF acked
  <2>4. /\ acked.log = n.log /\ acked.role = "Leader" /\ acked.currentTerm = n.currentTerm
        /\ acked.nextIndex = n.nextIndex /\ acked.matchIndex = n.matchIndex
        /\ acked.commitIndex = n.commitIndex
    BY <2>1, <2>3, Zenon DEF SameLog, SameBallot
  <2>5. CASE m.success
    <3>1. r.node = TryAdvanceCommit(forward) /\ r.out = {}
      BY <1>3, <2>5, Zenon DEF OnAppendResponse, acked
    <3>2. m.matchIndex <= last
      BY <1>1, <2>2, <2>5, Zenon DEF IsAck
    <3>3. /\ forward.log = n.log /\ forward.role = "Leader" /\ forward.currentTerm = n.currentTerm
          /\ forward.commitIndex = n.commitIndex /\ forward \in NodeType
          /\ \A j \in Server :
                \/ /\ forward.matchIndex[j] = n.matchIndex[j] /\ forward.nextIndex[j] = n.nextIndex[j]
                \/ /\ j = m.from /\ forward.matchIndex[j] = m.matchIndex
                   /\ forward.nextIndex[j] = m.matchIndex + 1
      <4>1. CASE m.matchIndex > n.matchIndex[m.from]
        <5>1. forward = [acked EXCEPT !.matchIndex[m.from] = m.matchIndex,
                                      !.nextIndex[m.from] = m.matchIndex + 1]
          BY <4>1, Zenon
        <5>2. m.matchIndex + 1 \in Nat
          BY <1>1, SMTT(30)
        <5> HIDE DEF forward
        <5>3. forward \in NodeType
          BY <1>1, <2>3, <5>1, <5>2, Zenon DEF NodeType
        <5>4. /\ forward.log = n.log /\ forward.role = "Leader" /\ forward.currentTerm = n.currentTerm
              /\ forward.commitIndex = n.commitIndex
              /\ forward.matchIndex = [n.matchIndex EXCEPT ![m.from] = m.matchIndex]
              /\ forward.nextIndex = [n.nextIndex EXCEPT ![m.from] = m.matchIndex + 1]
          BY <2>3, <2>4, <5>1, Zenon DEF NodeType
        <5>5. n.matchIndex \in [Server -> Nat] /\ n.nextIndex \in [Server -> Nat]
          BY Zenon DEF NodeType
        <5> QED
          BY <1>1, <5>3, <5>4, <5>5, Zenon
      <4>2. CASE ~(m.matchIndex > n.matchIndex[m.from])
        <5>1. forward = acked
          BY <4>2, Zenon
        <5> HIDE DEF forward
        <5> QED
          BY <2>3, <2>4, <5>1, Zenon
      <4> QED
        BY <4>1, <4>2, Zenon
    <3> HIDE DEF forward
    <3>4. IndicesOK(i, forward, M)
      <4> SUFFICES ASSUME NEW j \in Server
                   PROVE  /\ forward.nextIndex[j] \in 1 .. last + 1
                          /\ forward.matchIndex[j] <= last
                          /\ \/ j = i \/ forward.matchIndex[j] = 0
                             \/ \E a \in M : /\ IsAck(a) /\ a.from = j /\ a.term = forward.currentTerm
                                             /\ a.matchIndex = forward.matchIndex[j]
        BY <3>3, Zenon DEF IndicesOK
      <4>1. CASE forward.matchIndex[j] = n.matchIndex[j] /\ forward.nextIndex[j] = n.nextIndex[j]
        BY <2>2, <3>3, <4>1, SMTT(30) DEF IndicesOK
      <4>2. CASE j = m.from /\ forward.matchIndex[j] = m.matchIndex /\ forward.nextIndex[j] = m.matchIndex + 1
        <5>1. m.matchIndex + 1 \in 1 .. last + 1
          BY <1>1, <3>2, SMTT(30)
        <5>2. IsAck(m)
          BY <1>1, <2>5, Zenon DEF IsAck
        <5> QED
          BY <2>1, <3>2, <3>3, <4>2, <5>1, <5>2, Zenon
      <4> QED
        BY <3>3, <4>1, <4>2, Zenon
    <3>5. LogStep(i, n, forward, {}, M)
      BY <2>1, <2>2, <3>3, <3>4, Zenon DEF LogStep, RoleStep, LogChange, LeaderOK
    <3> DEFINE com == TryAdvanceCommit(forward)
    <3>6. /\ com \in NodeType /\ CommitsOnly(forward, com)
          /\ com.commitIndex = forward.commitIndex \/ LeaderCommits(forward.commitIndex, com)
      BY <3>3, TryAdvanceCommitType, TryAdvanceCommitStep, Zenon
    <3> HIDE DEF com
    <3>7. {} \in SUBSET Message
      BY Zenon
    <3>8. LogStep(i, n, com, {}, M)
      BY <3>3, <3>5, <3>6, <3>7, LogStepThen, Zenon
    <3>9. CommitStep(i, n, com, M)
      BY <3>3, <3>6, Zenon DEF CommitStep
    <3> QED
      BY <3>1, <3>8, <3>9, Zenon DEF com
  <2>6. CASE ~m.success
    <3> DEFINE p == NoteSent(backed, {m.from})
               g == AppendTo(i, backed, m.from)
    <3>1. r.node = p /\ r.out = {g}
      BY <1>3, <2>6, Zenon DEF OnAppendResponse, acked
    <3>2. BackedOff(n, m) \in 1 .. last + 1
      BY <1>1, <2>2, BackedOffRange, Zenon DEF IndicesOK
    <3>3. BackedOff(n, m) \in Nat
      BY <1>1, <3>2, SMTT(30)
    <3>4. /\ backed \in NodeType /\ backed.log = n.log /\ backed.role = "Leader"
          /\ backed.currentTerm = n.currentTerm /\ backed.commitIndex = n.commitIndex
          /\ backed.matchIndex = n.matchIndex
          /\ \A j \in Server : backed.nextIndex[j] = IF j = m.from THEN BackedOff(n, m) ELSE n.nextIndex[j]
      BY <1>1, <2>3, <2>4, <3>3, Zenon DEF NodeType
    <3> HIDE DEF backed
    <3>5. IndicesOK(i, backed, M)
      <4>1. \A j \in Server : backed.nextIndex[j] \in 1 .. last + 1
        BY <2>2, <3>2, <3>4, Zenon DEF IndicesOK
      <4> QED
        BY <2>2, <3>4, <4>1, SMTT(30) DEF IndicesOK
    <3>6. p \in NodeType /\ SameLog(backed, p)
      BY <3>4, NoteSentType, BookkeepingSame, Zenon
    <3>7. AppendSent(i, backed, g)
      BY <1>1, <2>2, <3>4, <3>5, AppendToSent, Zenon DEF IndicesOK
    <3>8. g \in Message
      BY <1>1, <3>4, AppendToType, Zenon
    <3> HIDE DEF p, g
    <3>9. LogStep(i, n, backed, {g}, M)
      <4>1. Sent(i, n, backed, g, M)
        BY <3>7, AppendsAreSent, Zenon
      <4> QED
        BY <2>1, <2>2, <3>4, <3>5, <4>1, Zenon DEF LogStep, RoleStep, LogChange, LeaderOK
    <3>10. CommitsOnly(backed, p)
      BY <3>4, <3>6, SameCommits, Zenon
    <3>11. LogStep(i, n, p, {g}, M)
      BY <3>4, <3>6, <3>8, <3>9, <3>10, LogStepThen, Zenon
    <3>12. CommitStep(i, n, p, M)
      BY <3>4, <3>6, Zenon DEF CommitStep, SameLog
    <3> QED
      BY <3>1, <3>11, <3>12, Zenon
  <2> QED
    BY <1>1, <2>5, <2>6, Zenon
<1> QED
  BY <1>2, <1>3, Zenon

\* Every handler takes a LogStep.
LEMMA OnMessageLog ==
    ASSUME NatWellOrdered, NEW i \in Server, NEW n \in NodeType, NEW M, Ready(i, n, M), RequestsGrounded(M),
           NoSnapshotIn(M), NEW m \in Message, m \in M, m.to = i, m.term <= n.currentTerm
    PROVE  LET r == OnMessage(i, n, m) IN
           LogStep(i, n, r.node, r.out, M) /\ CommitStep(i, n, r.node, M)
<1>1. CASE m.type = "VoteRequest" /\ m \in VoteRequest
  BY <1>1, Dispatch, VoteRequestLog, SMTT(30)
<1>2. CASE m.type = "VoteResponse" /\ m \in VoteResponse
  BY <1>2, Dispatch, VoteResponseLog, SMTT(30)
<1>3. CASE m.type = "AppendRequest" /\ m \in AppendRequest
  BY <1>3, Dispatch, AppendRequestLog, SMTT(30)
<1>4. CASE m.type = "AppendResponse" /\ m \in AppendAnswer
  BY <1>4, Dispatch, AppendResponseLog, SMTT(30)
<1>5. m.type # "InstallSnapshotRequest" /\ m.type # "InstallSnapshotResponse"
  BY Zenon DEF NoSnapshotIn
<1> QED
  BY <1>1, <1>2, <1>3, <1>4, <1>5, MessageKinds, Zenon

\* So does handle, which observes the term first and applies last.
LEMMA HandleLog ==
    ASSUME NatWellOrdered, NEW i \in Server, NEW n \in NodeType, NEW M, Ready(i, n, M), RequestsGrounded(M),
           NoSnapshotIn(M), NEW m \in Message, m \in M, m.to = i, BallotOK(i, n, M)
    PROVE  LET r == Handle(i, n, m) IN
           LogStep(i, n, r.node, r.out, M) /\ CommitStep(i, n, r.node, M)
<1> DEFINE o == ObserveTerm(n, m.term)
           r == OnMessage(i, o, m)
           p == TryAdvanceApply(r.node)
<1>1. m.term \in Nat /\ n.currentTerm \in Nat
  BY MessageKinds, Zenon DEF NodeType
<1>2. /\ o \in NodeType /\ o.currentTerm >= m.term
      /\ \/ m.term <= n.currentTerm /\ o = n
         \/ m.term > n.currentTerm /\ o.currentTerm = m.term /\ o.role = "Follower"
  BY <1>1, ObserveTermType, Zenon
<1>3. o.log = n.log /\ o.commitIndex = n.commitIndex
  BY Zenon DEF ObserveTerm, StepDown, StepDownKeepingVote, NodeType
<1> HIDE DEF o
<1>4. Ready(i, o, M) /\ m.term <= o.currentTerm /\ BallotOK(i, o, M)
  <2>1. o.currentTerm \in Nat
    BY <1>2, Zenon DEF NodeType
  <2>2. Ready(i, o, M) /\ BallotOK(i, o, M)
    BY <1>2, <1>3, SMTT(30) DEF Ready, LeaderOK, AcksBelow, BallotOK
  <2> QED
    BY <1>1, <1>2, <2>1, <2>2, Zenon
<1>5. LogStep(i, o, r.node, r.out, M) /\ CommitStep(i, o, r.node, M)
  BY <1>2, <1>4, OnMessageLog, Zenon
<1>6. r.node \in NodeType /\ r.out \in SUBSET Message
  BY <1>2, OnMessageType, Zenon
<1>7. r.node.currentTerm >= o.currentTerm
  BY <1>2, <1>4, OnMessageStep, Zenon DEF BallotStep
<1> HIDE DEF r
<1>8. LogStep(i, n, r.node, r.out, M) /\ CommitStep(i, n, r.node, M)
  <2>1. CASE o = n
    BY <1>5, <2>1, Zenon
  <2>2. CASE o # n
    <3>1. o.currentTerm > n.currentTerm /\ o.role # "Leader"
      BY <1>1, <1>2, <2>2, Zenon
    <3> QED
      BY <1>2, <1>3, <1>5, <1>6, <1>7, <3>1, EarlierStart, Zenon
  <2> QED
    BY <2>1, <2>2, Zenon
<1>9. p \in NodeType /\ SameLog(r.node, p)
  BY <1>6, TryAdvanceApplyType, TryAdvanceApplySame, Zenon
<1>10. Handle(i, n, m) = [node |-> p, out |-> r.out]
  BY Zenon DEF Handle, r, o
<1> HIDE DEF p
<1>11. CommitsOnly(r.node, p)
  BY <1>6, <1>9, SameCommits, Zenon
<1>12. LogStep(i, n, p, r.out, M) /\ CommitStep(i, n, p, M)
  BY <1>6, <1>8, <1>9, <1>11, LogStepThen, CommitStepThen, Zenon
<1> QED
  BY <1>10, <1>12, SMTT(30)

\* A leader that broadcasts, after at most an append of its own.
LEMMA BroadcastStep ==
    ASSUME NEW i \in Server, NEW n \in NodeType, NEW q \in NodeType, NEW M, n.role = "Leader",
           LogStep(i, n, q, {}, M), q.role = "Leader"
    PROVE  LET r == Broadcast(i, q) IN
           LogStep(i, n, r.node, r.out, M) /\ SameLog(q, r.node) /\ SameApply(q, r.node)
<1> DEFINE p == NoteSent(q, Peers(i))
           out == AppendToAll(i, q)
<1>1. Flat(q.log) /\ IndicesOK(i, q, M)
  BY Zenon DEF LogStep, LeaderOK
<1>2. \A g \in out : Sent(i, n, q, g, M)
  BY <1>1, AppendToAllSent, AppendsAreSent, Zenon
<1>3. LogStep(i, n, q, out, M)
  BY <1>2, Zenon DEF LogStep
<1>4. out \in SUBSET Message /\ p \in NodeType /\ SameLog(q, p) /\ SameApply(q, p)
  BY AppendToAllType, NoteSentType, BookkeepingSame, Zenon
<1> HIDE DEF out, p
<1>5. CommitsOnly(q, p)
  BY <1>4, SameCommits, Zenon
<1>6. LogStep(i, n, p, out, M)
  BY <1>3, <1>4, <1>5, LogStepThen, Zenon
<1>7. Broadcast(i, q) = [node |-> p, out |-> out]
  BY Zenon DEF Broadcast, p, out
<1> QED
  BY <1>4, <1>6, <1>7, SMTT(30)

\* A leader's proposal.
LEMMA ProposeStep ==
    ASSUME NatWellOrdered, NEW i \in Server, NEW n \in NodeType, NEW M, Ready(i, n, M), n.role = "Leader",
           NEW v \in Command
    PROVE  LET p == Propose(i, n, v) IN
           LogStep(i, n, p, {}, M) /\ p.role = "Leader" /\ p \in NodeType /\ CommitStep(i, n, p, M)
<1> DEFINE own == AppendOwn(i, n, v)
           com == TryAdvanceCommit(own)
           p == TryAdvanceApply(com)
<1>1. Flat(n.log) /\ IndicesOK(i, n, M)
  BY Zenon DEF Ready, LeaderOK
<1>2. /\ own.log = AppendEntry(n.log, [term |-> n.currentTerm, command |-> v])
      /\ own.currentTerm = n.currentTerm /\ own.role = "Leader" /\ own.commitIndex = n.commitIndex
      /\ Flat(own.log) /\ LeaderOK(i, own, M) /\ own \in NodeType
  BY <1>1, AppendOwnStep, AppendOwnType, Zenon
<1> HIDE DEF own
<1>3. LogStep(i, n, own, {}, M)
  BY <1>2, Zenon DEF LogStep, LogChange, RoleStep
<1>4. /\ com \in NodeType /\ CommitsOnly(own, com)
      /\ com.commitIndex = own.commitIndex \/ LeaderCommits(own.commitIndex, com)
  BY <1>2, TryAdvanceCommitType, TryAdvanceCommitStep, Zenon
<1> HIDE DEF com
<1>5. LogStep(i, n, com, {}, M) /\ CommitStep(i, n, com, M)
  BY <1>2, <1>3, <1>4, LogStepThen, Zenon DEF CommitStep
<1>6. p \in NodeType /\ SameLog(com, p)
  BY <1>4, TryAdvanceApplyType, TryAdvanceApplySame, Zenon
<1>7. Propose(i, n, v) = p
  BY Zenon DEF Propose, p, com, own
<1> HIDE DEF p
<1>8. CommitsOnly(com, p)
  BY <1>4, <1>6, SameCommits, Zenon
<1>9. LogStep(i, n, p, {}, M) /\ CommitStep(i, n, p, M)
  BY <1>4, <1>5, <1>6, <1>8, LogStepThen, CommitStepThen, Zenon
<1>10. p.role = "Leader"
  BY <1>2, <1>4, <1>6, Zenon DEF SameLog, CommitsOnly, SameBallot
<1> QED
  BY <1>6, <1>7, <1>9, <1>10, Zenon

-----------------------------------------------------------------------------
(* Steps of the group.                                                     *)

\* What the handlers rely on, everywhere.
AllReady ==
    /\ \A i \in Server : Ready(i, node[i], msgs)
    /\ RequestsGrounded(msgs) /\ NoSnapshotIn(msgs)

\* The step is server i's, as far as logs go.
LogMove(i, p, out) ==
    /\ p \in NodeType /\ out \in SUBSET Message
    /\ node' = [node EXCEPT ![i] = p]
    /\ msgs' = msgs \cup out
    /\ LogStep(i, node[i], p, out, msgs)
    /\ store[i].floor = node[i].commitIndex => CommitStep(i, node[i], p, msgs)

\* An iteration built on a LogStep, when nothing is compacted at its end.
LEMMA IterationLog ==
    ASSUME NatWellOrdered, TypeOK, Uncompacted', NEW i \in Server, NEW n \in NodeType, NEW out \in SUBSET Message,
           LogStep(i, node[i], n, out, msgs), CommitStep(i, node[i], n, msgs), NEW W,
           Iteration(i, n, out, W)
    PROVE  \E p : LogMove(i, p, out)
<1> DEFINE p == Settled(store[i], n)
<1>1. store[i] \in StoreType /\ node \in [Server -> NodeType]
  BY Zenon DEF TypeOK
<1>2. node' = [node EXCEPT ![i] = p] /\ msgs' = msgs \cup out
  BY Zenon DEF Iteration, LocalIteration
<1>3. p.log.lastIncludedIndex = 0
  BY <1>1, <1>2, Zenon DEF Uncompacted
<1>4. p \in NodeType /\ SameLog(n, p)
  BY <1>1, <1>3, SettledType, SettledBoundary, Zenon
<1> HIDE DEF p
<1>5. LogStep(i, node[i], p, out, msgs) /\ CommitStep(i, node[i], p, msgs)
  BY <1>4, SameCommits, LogStepThen, CommitStepThen, Zenon
<1> QED
  BY <1>2, <1>4, <1>5, Zenon DEF LogMove

\* Every step of a group that has not compacted takes one server's LogStep.
LEMMA NextLog ==
    ASSUME NatWellOrdered, TypeOK, VotesAreBacked, AllReady, Uncompacted', Next
    PROVE  \E i \in Server : \E p, out : LogMove(i, p, out)
<1>0. /\ node \in [Server -> NodeType] /\ RequestsGrounded(msgs) /\ NoSnapshotIn(msgs)
      /\ \A i \in Server : Ready(i, node[i], msgs) /\ Flat(node[i].log)
  BY Zenon DEF TypeOK, AllReady, Ready
<1>1. ASSUME NEW i \in Server, ElectionTimeout(i) PROVE \E p, out : LogMove(i, p, out)
  <2> DEFINE r == StartElection(i, node[i])
             p == TryAdvanceApply(r.node)
  <2>1. node[i] \in NodeType /\ Iteration(i, p, r.out, pending[i])
    BY <1>0, <1>1, Zenon DEF ElectionTimeout
  <2>2. LogStep(i, node[i], r.node, r.out, msgs) /\ CommitStep(i, node[i], r.node, msgs)
    BY <1>0, <2>1, StartElectionStep, Zenon
  <2>3. r.node \in NodeType /\ r.out \in SUBSET Message
    BY <2>1, StartElectionType, Zenon DEF Plain
  <2> HIDE DEF r
  <2>4. p \in NodeType /\ SameLog(r.node, p)
    BY <2>3, TryAdvanceApplyType, TryAdvanceApplySame, Zenon
  <2> HIDE DEF p
  <2>5. LogStep(i, node[i], p, r.out, msgs) /\ CommitStep(i, node[i], p, msgs)
    BY <2>2, <2>3, <2>4, SameCommits, LogStepThen, CommitStepThen, Zenon
  <2> QED
    BY <2>1, <2>3, <2>4, <2>5, IterationLog, Zenon
<1>2. ASSUME NEW i \in Server, NEW n \in NodeType, node[i].role = "Leader", n.role = "Leader",
             LogStep(i, node[i], n, {}, msgs), CommitStep(i, node[i], n, msgs),
             NEW q \in NodeType, SameLog(Broadcast(i, n).node, q), NEW W,
             Iteration(i, q, Broadcast(i, n).out, W)
      PROVE  \E p, out : LogMove(i, p, out)
  <2> DEFINE r == Broadcast(i, n)
  <2>1. LogStep(i, node[i], r.node, r.out, msgs) /\ SameLog(n, r.node)
    BY <1>0, <1>2, BroadcastStep, Zenon
  <2>2. r.node \in NodeType /\ r.out \in SUBSET Message
    BY BroadcastType, Zenon DEF Plain
  <2>3. SameLog(r.node, q) /\ Iteration(i, q, r.out, W)
    BY <1>2, Zenon
  <2> HIDE DEF r
  <2>4. LogStep(i, node[i], q, r.out, msgs)
    BY <2>1, <2>2, <2>3, SameCommits, LogStepThen, Zenon
  <2>5. CommitStep(i, node[i], q, msgs)
    BY <1>2, <2>1, <2>3, CommitStepThen, Zenon
  <2> QED
    BY <2>2, <2>3, <2>4, <2>5, IterationLog, Zenon
<1>3. ASSUME NEW i \in Server PROVE LogStep(i, node[i], node[i], {}, msgs) /\ CommitStep(i, node[i], node[i], msgs)
  BY <1>0, Zenon DEF LogStep, Ready, RoleStep, LogChange, CommitStep
<1>4. \A n : SameLog(n, n)
  BY Zenon DEF SameLog, SameBallot
<1>5. ASSUME NEW i \in Server, Heartbeat(i) PROVE \E p, out : LogMove(i, p, out)
  <2> DEFINE r == Broadcast(i, node[i])
             q == TryAdvanceApply(r.node)
  <2>1. node[i] \in NodeType /\ node[i].role = "Leader" /\ Iteration(i, q, r.out, pending[i])
    BY <1>0, <1>5, Zenon DEF Heartbeat
  <2>2. r.node \in NodeType
    BY <2>1, BroadcastType, Zenon DEF Plain
  <2>3. q \in NodeType /\ SameLog(r.node, q)
    BY <2>2, TryAdvanceApplyType, TryAdvanceApplySame, Zenon
  <2> HIDE DEF q
  <2> QED
    BY <1>2, <1>3, <2>1, <2>3, Zenon
<1>6. ASSUME NEW i \in Server, NEW m \in msgs, Receive(i, m) PROVE \E p, out : LogMove(i, p, out)
  <2> DEFINE r == Handle(i, node[i], m)
  <2>1. node[i] \in NodeType /\ m \in Message /\ m.to = i /\ Iteration(i, r.node, r.out, pending[i])
    BY <1>6, Zenon DEF TypeOK, Receive
  <2>2. BallotOK(i, node[i], msgs) /\ Ready(i, node[i], msgs)
    BY <1>0, BackedBallot, Zenon
  <2>3. r.node \in NodeType /\ r.out \in SUBSET Message
    BY <2>1, HandleType, Zenon
  <2>4. LogStep(i, node[i], r.node, r.out, msgs) /\ CommitStep(i, node[i], r.node, msgs)
    BY <1>0, <2>1, <2>2, HandleLog, Zenon
  <2> HIDE DEF r
  <2> QED
    BY <2>1, <2>3, <2>4, IterationLog, Zenon
<1>7. ASSUME NEW i \in Server, NEW v \in Value, ClientPropose(i, v) PROVE \E p, out : LogMove(i, p, out)
  <2> DEFINE n == Propose(i, node[i], v)
             r == Broadcast(i, n)
             pr == [index |-> LastIndex(n.log), term |-> n.currentTerm, command |-> v]
             W == {q \in pending[i] : q.index # pr.index} \cup {pr}
  <2>1. node[i] \in NodeType /\ v \in Command /\ node[i].role = "Leader" /\ Ready(i, node[i], msgs)
    BY <1>0, <1>7, Zenon DEF Command, ClientPropose
  <2>2. Iteration(i, r.node, r.out, W)
    BY <1>7, Zenon DEF ClientPropose
  <2> HIDE DEF W
  <2>3. /\ LogStep(i, node[i], n, {}, msgs) /\ n.role = "Leader" /\ n \in NodeType
        /\ CommitStep(i, node[i], n, msgs)
    BY <2>1, ProposeStep, Zenon
  <2> HIDE DEF n
  <2>4. r.node \in NodeType /\ SameLog(r.node, r.node)
    BY <1>4, <2>3, BroadcastType, Zenon DEF Plain
  <2> QED
    BY <1>2, <2>1, <2>2, <2>3, <2>4, Zenon
<1>8. ASSUME NEW i \in Server, ClientRead(i) PROVE \E p, out : LogMove(i, p, out)
  <2> DEFINE n == ProposeRead(i, node[i], HighestCommit)
             r == Broadcast(i, n)
  <2>1. node[i] \in NodeType /\ node[i].role = "Leader" /\ Iteration(i, r.node, r.out, pending[i])
    BY <1>0, <1>8, Zenon DEF ClientRead
  <2>2. n \in NodeType /\ SameLog(node[i], n)
    BY <2>1, HighestCommitType, ProposeReadType, BookkeepingSame, Zenon
  <2> HIDE DEF n
  <2>3. LogStep(i, node[i], n, {}, msgs) /\ CommitStep(i, node[i], n, msgs)
    BY <1>3, <2>1, <2>2, SameCommits, LogStepThen, CommitStepThen, Zenon
  <2>4. n.role = "Leader"
    BY <2>1, <2>2, Zenon DEF SameLog, SameBallot
  <2>5. r.node \in NodeType /\ SameLog(r.node, r.node)
    BY <1>4, <2>2, BroadcastType, Zenon DEF Plain
  <2> QED
    BY <1>2, <2>1, <2>2, <2>3, <2>4, <2>5, Zenon
<1>9. ASSUME NEW i \in Server, NEW p \in NodeType, p.log = node[i].log, p.role = "Follower",
             p.currentTerm = node[i].currentTerm,
             store[i].floor = node[i].commitIndex => p.commitIndex = node[i].commitIndex,
             node' = [node EXCEPT ![i] = p], msgs' = msgs
      PROVE  LogMove(i, p, {})
  <2>1. LogStep(i, node[i], p, {}, msgs)
    BY <1>0, <1>9, Zenon DEF LogStep, RoleStep, LogChange, LeaderOK
  <2> QED
    BY <1>9, <2>1, Zenon DEF LogMove, CommitStep
<1>10. ASSUME NEW i \in Server, Transfer(i) PROVE \E p, out : LogMove(i, p, out)
  <2> DEFINE p == TransferLeadership(node[i])
  <2>1. node[i] \in NodeType /\ node[i].currentTerm \in Nat
    BY <1>0, Zenon DEF NodeType
  <2>2. /\ p \in NodeType /\ p.currentTerm = node[i].currentTerm /\ p.role = "Follower"
    BY <2>1, StepDownType, Zenon DEF TransferLeadership
  <2>3. p.log = node[i].log /\ p.commitIndex = node[i].commitIndex
    BY <2>1, Zenon DEF TransferLeadership, StepDownKeepingVote, NodeType
  <2>4. node' = [node EXCEPT ![i] = p] /\ msgs' = msgs
    BY <1>10, Zenon DEF Transfer
  <2> HIDE DEF p
  <2> QED
    BY <1>9, <2>2, <2>3, <2>4, Zenon
<1>11. ASSUME NEW i \in Server, Restart(i) PROVE \E p, out : LogMove(i, p, out)
  <2> DEFINE p == Recover(node[i], store[i].floor)
  <2>1. node[i] \in NodeType /\ store[i].floor \in Nat /\ Flat(node[i].log) /\ node[i].log \in LogType
    BY <1>0, Zenon DEF TypeOK, StoreType, NodeType
  <2>2. /\ p \in NodeType /\ p.currentTerm = node[i].currentTerm /\ p.role = "Follower"
    BY <2>1, RecoverType, Zenon
  <2>3. p.log = Reloaded(node[i].log) /\ p.commitIndex = store[i].floor
    BY Zenon DEF Recover, NewNode
  <2>4. Reloaded(node[i].log) = node[i].log
    BY <2>1, SMTT(30) DEF Reloaded, Flat, LogType
  <2>5. node' = [node EXCEPT ![i] = p] /\ msgs' = msgs
    BY <1>11, Zenon DEF Restart
  <2> HIDE DEF p
  <2> QED
    BY <1>9, <2>2, <2>3, <2>4, <2>5, Zenon
<1> QED
  BY <1>1, <1>5, <1>6, <1>7, <1>8, <1>10, <1>11, Zenon
     DEF Next, RcvVoteRequest, RcvVoteResponse, RcvAppendRequest, RcvAppendResponse,
         RcvInstallSnapshotRequest, RcvInstallSnapshotResponse

-----------------------------------------------------------------------------
(* What is applied, and what the engine holds.                              *)

\* The node has applied up to a and handed over all of it.
Idle(a, p) == p.lastApplied = a /\ p.appliedEntries = << >> /\ p.pendingSnapshot = NoImage

\* The node's log is flat and its commit_index lies in it, not below a.
InLog(a, p) == Flat(p.log) /\ a <= p.commitIndex /\ p.commitIndex <= LastIndex(p.log)

\* What a handler applies if its commit index is within its log; and that it leaves
\* nothing to apply.
Applies(a, p) == InLog(a, p) => ApplyPart(a, p)

CaughtUp(a, p) == InLog(a, p) => ApplyPart(a, p) /\ p.lastApplied = p.commitIndex

\* Nothing is applied between an index and itself.
LEMMA AppliedNone ==
    ASSUME NEW log \in LogType, Flat(log), NEW a \in Nat, a <= LastIndex(log)
    PROVE  Applied(log, a, a) = << >>
<1>1. a <= a
  BY SMTT(30)
<1>2. Applied(log, a, a) \in Seq(AppliedEntry) /\ Len(Applied(log, a, a)) = a - a
  BY <1>1, AppliedType, Zenon
<1>3. a - a = 0
  BY SMTT(30)
<1> DEFINE E == Applied(log, a, a)
<1> HIDE DEF E
<1>4. E \in Seq(AppliedEntry) /\ Len(E) = 0
  BY <1>2, <1>3, Zenon DEF E
<1>5. E = << >>
  BY <1>4, SMTT(30)
<1> QED
  BY <1>5, Zenon DEF E

\* A node that has handed over what it applied is at the start of its next batch.
LEMMA IdleApplies ==
    ASSUME NEW p \in NodeType, NEW a \in Nat, Idle(a, p)
    PROVE  Applies(a, p) /\ (p.commitIndex = a => CaughtUp(a, p))
<1> SUFFICES ASSUME InLog(a, p) PROVE ApplyPart(a, p)
  BY Zenon DEF Applies, CaughtUp, Idle
<1>1. p.log \in LogType /\ p.commitIndex \in Nat /\ LastIndex(p.log) \in Nat /\ Flat(p.log)
  BY LastIndexType, Zenon DEF NodeType, InLog
<1>2. a <= LastIndex(p.log) /\ a <= p.commitIndex
  BY <1>1, SMTT(30) DEF InLog
<1>3. Applied(p.log, a, a) = << >>
  BY <1>1, <1>2, AppliedNone, Zenon
<1> QED
  BY <1>2, <1>3, SMTT(30) DEF Idle, ApplyPart

\* try_advance_apply brings a node up to its commit_index.
LEMMA AppliesCatchesUp ==
    ASSUME NEW n \in NodeType, NEW a \in Nat, Applies(a, n)
    PROVE  LET p == TryAdvanceApply(n) IN CaughtUp(a, p) /\ Applies(a, p)
<1> DEFINE p == TryAdvanceApply(n)
<1>1. p.log = n.log /\ p.commitIndex = n.commitIndex
  BY TryAdvanceApplySame, Zenon DEF SameLog
<1>2. ASSUME Flat(n.log), ApplyPart(a, n), n.commitIndex <= LastIndex(n.log)
      PROVE  ApplyPart(a, p) /\ p.lastApplied = p.commitIndex
  BY <1>2, ApplyAdvances, Zenon
<1> HIDE DEF p
<1>3. CaughtUp(a, p) /\ Applies(a, p)
  BY <1>1, <1>2, Zenon DEF CaughtUp, Applies, InLog
<1> QED
  BY <1>3, Zenon DEF p

\* A node with the same indices and batch is idle as well.
LEMMA IdleSame ==
    ASSUME NEW a, NEW n, NEW p, Idle(a, n), SameApply(n, p)
    PROVE  Idle(a, p)
BY Zenon DEF Idle, SameApply

\* become_leader applies what it commits, from the node's start.
LEMMA BecomeLeaderApplies ==
    ASSUME NatWellOrdered, NEW i \in Server, NEW n \in NodeType, NEW a \in Nat, Idle(a, n)
    PROVE  Applies(a, BecomeLeader(i, n).node)
<1> DEFINE last == LastIndex(n.log)
           reset == [n EXCEPT !.role = "Leader",
                              !.nextIndex = [s \in Server |-> last + 1],
                              !.matchIndex = [s \in Server |-> IF s = i THEN last ELSE 0]]
           own == AppendOwn(i, reset, Noop)
           led == NoteSent(own, Peers(i))
           com == TryAdvanceCommit(led)
           fin == TryAdvanceApply(com)
<1>1. last \in Nat
  BY LastIndexType, Zenon DEF NodeType
<1>2. reset \in NodeType
  <2>1. /\ [s \in Server |-> last + 1] \in [Server -> Nat]
        /\ [s \in Server |-> IF s = i THEN last ELSE 0] \in [Server -> Nat]
    BY <1>1, SMTT(30)
  <2> HIDE DEF last
  <2> QED
    BY <2>1, Zenon DEF NodeType, Role
<1>3. Idle(a, reset)
  BY Zenon DEF NodeType, Idle
<1> HIDE DEF reset
<1>4. own \in NodeType /\ Idle(a, own)
  <2>1. own \in NodeType
    BY <1>2, AppendOwnType, Zenon DEF Command
  <2>2. SameApply(reset, own)
    BY <1>2, Zenon DEF AppendOwn, SameApply, NodeType
  <2> QED
    BY <1>3, <2>1, <2>2, IdleSame, Zenon
<1> HIDE DEF own
<1>5. led \in NodeType /\ Idle(a, led)
  BY <1>4, NoteSentType, BookkeepingSame, IdleSame, Zenon
<1> HIDE DEF led
<1>6. com \in NodeType /\ Idle(a, com)
  BY <1>5, TryAdvanceCommitType, TryAdvanceCommitStep, IdleSame, Zenon
<1> HIDE DEF com
<1>7. Applies(a, fin)
  BY <1>6, IdleApplies, AppliesCatchesUp, Zenon
<1>8. BecomeLeader(i, n).node = fin
  BY Zenon DEF BecomeLeader, fin, com, led, own, reset
<1> QED
  BY <1>7, <1>8, Zenon

\* start_election applies what it commits, from the node's start.
LEMMA StartElectionApplies ==
    ASSUME NatWellOrdered, NEW i \in Server, NEW n \in NodeType, NEW a \in Nat, Idle(a, n)
    PROVE  Applies(a, StartElection(i, n).node)
<1> DEFINE c == [n EXCEPT !.currentTerm = @ + 1, !.role = "Candidate",
                          !.votedFor = i, !.votesReceived = {i}]
<1>1. c \in NodeType /\ Idle(a, c)
  <2>1. n.currentTerm + 1 \in Nat
    BY SMTT(30) DEF NodeType
  <2> QED
    BY <2>1, Zenon DEF NodeType, Role, Idle
<1>2. StartElection(i, n).node \in {c, BecomeLeader(i, c).node}
  BY Zenon DEF StartElection
<1> HIDE DEF c
<1> QED
  BY <1>1, <1>2, IdleApplies, BecomeLeaderApplies, Zenon

\* So does every handler of a message other than those that carry a snapshot.
LEMMA OnMessageApplies ==
    ASSUME NatWellOrdered, NEW i \in Server, NEW n \in NodeType, NEW m \in Message, NEW a \in Nat, Idle(a, n),
           m.type \notin {"InstallSnapshotRequest", "InstallSnapshotResponse"}
    PROVE  Applies(a, OnMessage(i, n, m).node)
<1> DEFINE r == OnMessage(i, n, m)
<1>0. r.node \in NodeType
  BY OnMessageType, Zenon
<1>1. ASSUME SameApply(n, r.node) PROVE Applies(a, r.node)
  BY <1>0, <1>1, IdleSame, IdleApplies, Zenon
<1>2. CASE m.type = "VoteRequest" /\ m \in VoteRequest
  <2>1. r = OnVoteRequest(i, n, m)
    BY <1>2, Dispatch, Zenon
  <2>2. SameApply(n, OnVoteRequest(i, n, m).node)
    BY Zenon DEF OnVoteRequest, NodeType, SameApply
  <2> QED
    BY <1>1, <2>1, <2>2, Zenon
<1>3. CASE m.type = "VoteResponse" /\ m \in VoteResponse
  <2> DEFINE c == [n EXCEPT !.votesReceived = @ \cup {m.from}]
  <2>1. m.from \in Server
    BY MessageKinds, Zenon
  <2>2. c \in NodeType /\ Idle(a, c)
    BY <2>1, Zenon DEF NodeType, Idle
  <2>3. r.node = n \/ r.node = c \/ r.node = BecomeLeader(i, c).node
    <3>1. r = OnVoteResponse(i, n, m)
      BY <1>3, Dispatch, Zenon
    <3>2. \/ OnVoteResponse(i, n, m) = [node |-> n, out |-> {}]
          \/ OnVoteResponse(i, n, m) = BecomeLeader(i, c)
          \/ OnVoteResponse(i, n, m) = [node |-> c, out |-> {}]
      BY Zenon DEF OnVoteResponse
    <3> HIDE DEF r, c
    <3> QED
      BY <3>1, <3>2, SMTT(30)
  <2> HIDE DEF c, r
  <2> QED
    BY <2>2, <2>3, IdleApplies, BecomeLeaderApplies, Zenon DEF r
<1>4. CASE m.type = "AppendRequest" /\ m \in AppendRequest
  <2>1. r = OnAppendRequest(i, n, m)
    BY <1>4, Dispatch, Zenon
  <2>2. SameApply(n, OnAppendRequest(i, n, m).node)
    BY Zenon DEF OnAppendRequest, NodeType, SameApply
  <2> QED
    BY <1>1, <2>1, <2>2, Zenon
<1>5. CASE m.type = "AppendResponse" /\ m \in AppendAnswer
  <2> DEFINE acked   == AckReads(n, m.from)
             forward == IF m.matchIndex > n.matchIndex[m.from]
                        THEN [acked EXCEPT !.matchIndex[m.from] = m.matchIndex,
                                           !.nextIndex[m.from] = m.matchIndex + 1]
                        ELSE acked
             backed  == [acked EXCEPT !.nextIndex[m.from] = BackedOff(n, m)]
  <2>1. acked \in NodeType /\ SameApply(n, acked)
    BY MessageKinds, AckReadsType, BookkeepingSame, Zenon
  <2> HIDE DEF acked
  <2>2. forward \in NodeType /\ backed \in NodeType
    <3>1. m.from \in Server /\ m.matchIndex \in Nat /\ m.matchIndex + 1 \in Nat /\ BackedOff(n, m) \in Nat
      BY <1>5, BackedOffType, SMTT(30) DEF AppendAnswer
    <3> QED
      BY <2>1, <3>1, Zenon DEF NodeType
  <2>3. SameApply(n, forward) /\ SameApply(n, backed)
    BY <2>1, Zenon DEF SameApply, NodeType
  <2>4. r.node = n \/ r.node = TryAdvanceCommit(forward) \/ r.node = NoteSent(backed, {m.from})
    <3>1. r = OnAppendResponse(i, n, m)
      BY <1>5, Dispatch, Zenon
    <3>2. \/ OnAppendResponse(i, n, m) = [node |-> n, out |-> {}]
          \/ OnAppendResponse(i, n, m) = [node |-> TryAdvanceCommit(forward), out |-> {}]
          \/ OnAppendResponse(i, n, m) = [node |-> NoteSent(backed, {m.from}), out |-> {AppendTo(i, backed, m.from)}]
      BY Zenon DEF OnAppendResponse, acked
    <3> HIDE DEF r, forward, backed
    <3> QED
      BY <3>1, <3>2, SMTT(30)
  <2> HIDE DEF forward, backed, r
  <2>5. SameApply(forward, TryAdvanceCommit(forward)) /\ SameApply(backed, NoteSent(backed, {m.from}))
    BY <2>2, TryAdvanceCommitStep, BookkeepingSame, Zenon
  <2>6. SameApply(n, r.node)
    BY <2>3, <2>4, <2>5, Zenon DEF SameApply
  <2> QED
    BY <1>1, <2>6, Zenon DEF r
<1> QED
  BY <1>2, <1>3, <1>4, <1>5, MessageKinds, Zenon

\* handle ends with try_advance_apply.
LEMMA HandleCatchesUp ==
    ASSUME NatWellOrdered, NEW i \in Server, NEW n \in NodeType, NEW m \in Message, NEW a \in Nat, Idle(a, n),
           m.type \notin {"InstallSnapshotRequest", "InstallSnapshotResponse"}
    PROVE  CaughtUp(a, Handle(i, n, m).node)
<1> DEFINE o == ObserveTerm(n, m.term)
           r == OnMessage(i, o, m)
<1>1. o \in NodeType
  BY MessageKinds, ObserveTermType, Zenon
<1>2. Idle(a, o)
  BY Zenon DEF ObserveTerm, StepDown, StepDownKeepingVote, Idle, NodeType
<1> HIDE DEF o
<1>3. r.node \in NodeType /\ Applies(a, r.node)
  BY <1>1, <1>2, OnMessageType, OnMessageApplies, Zenon
<1>4. Handle(i, n, m).node = TryAdvanceApply(r.node)
  BY Zenon DEF Handle, r, o
<1> HIDE DEF r
<1> QED
  BY <1>3, <1>4, AppliesCatchesUp, Zenon

\* propose applies what it commits.
LEMMA ProposeCatchesUp ==
    ASSUME NatWellOrdered, NEW i \in Server, NEW n \in NodeType, NEW c \in Command, NEW a \in Nat, Idle(a, n)
    PROVE  CaughtUp(a, Propose(i, n, c))
<1> DEFINE own == AppendOwn(i, n, c)
           com == TryAdvanceCommit(own)
<1>1. own \in NodeType /\ SameApply(n, own)
  <2>1. own \in NodeType
    BY AppendOwnType, Zenon
  <2>2. SameApply(n, own)
    BY Zenon DEF AppendOwn, SameApply, NodeType
  <2> QED
    BY <2>1, <2>2, Zenon
<1>2. Propose(i, n, c) = TryAdvanceApply(com)
  BY Zenon DEF Propose
<1> HIDE DEF own
<1>3. com \in NodeType /\ Idle(a, com)
  BY <1>1, TryAdvanceCommitType, TryAdvanceCommitStep, IdleSame, Zenon
<1> HIDE DEF com
<1> QED
  BY <1>2, <1>3, IdleApplies, AppliesCatchesUp, Zenon

\* Noting what was sent leaves a node as caught up as it was.
LEMMA CaughtUpSame ==
    ASSUME NEW a, NEW n, NEW p, CaughtUp(a, n), SameLog(n, p), SameApply(n, p)
    PROVE  CaughtUp(a, p)
BY Zenon DEF CaughtUp, InLog, ApplyPart, SameLog, SameApply

\* Beside the node of a group that has not compacted: the engine and its log hold
\* exactly the committed entries, in order, and the apply floor is commit_index.
StoreOK(n, st) ==
    /\ Idle(n.commitIndex, n)
    /\ st.engine = Applied(n.log, 0, n.commitIndex)
    /\ st.wal = st.engine /\ st.floor = n.commitIndex /\ st.snapFile = NoImage

\* The apply floor of a batch that follows it is the batch's end.
LEMMA HighestApplied ==
    ASSUME NatWellOrdered, NEW log \in LogType, Flat(log), NEW a \in Nat, NEW b \in Nat, a <= b, b <= LastIndex(log)
    PROVE  Highest(a, Applied(log, a, b)) = b
<1> DEFINE E == Applied(log, a, b)
           S == {a} \cup {E[k].index : k \in DOMAIN E}
<1>1. /\ E \in Seq(AppliedEntry) /\ Len(E) = b - a
      /\ \A k \in 1 .. b - a : E[k] = [index |-> a + k, term |-> log.entries[a + k].term,
                                       command |-> log.entries[a + k].command]
  BY AppliedType, Zenon
<1> HIDE DEF E
<1>2. \A k \in 1 .. b - a : E[k].index = a + k
  <2> TAKE k \in 1 .. b - a
  <2> DEFINE e == log.entries[a + k]
  <2>1. E[k] = [index |-> a + k, term |-> e.term, command |-> e.command]
    BY <1>1, Zenon
  <2> HIDE DEF e
  <2> QED
    BY <2>1, SMTT(30)
<1>3. DOMAIN E = 1 .. b - a
  <2>1. E \in Seq(AppliedEntry) /\ Len(E) = b - a
    BY <1>1, Zenon
  <2> QED
    BY <2>1, SMTT(30)
<1>4. S \subseteq Nat /\ S # {} /\ \A y \in S : y <= b
  BY <1>2, <1>3, SMTT(30)
<1>5. b \in S
  <2>1. CASE a = b
    BY <2>1, Zenon
  <2>2. CASE a # b
    <3>1. b - a \in 1 .. b - a /\ a + (b - a) = b
      BY <2>2, SMTT(30)
    <3>2. E[b - a].index = b
      BY <1>2, <3>1, Zenon
    <3> QED
      BY <1>3, <3>1, <3>2, Zenon
  <2> QED
    BY <2>1, <2>2, Zenon
<1> HIDE DEF S
<1>6. Max(S) \in S /\ \A y \in S : Max(S) >= y
  BY <1>4, MaxNat, Zenon
<1>7. Max(S) = b
  <2>1. Max(S) \in Nat /\ Max(S) <= b /\ Max(S) >= b
    BY <1>4, <1>5, <1>6, Zenon
  <2> QED
    BY <2>1, SMTT(30)
<1> QED
  BY <1>7, Zenon DEF Highest, S, E

\* Two logs that agree up to b apply the same.
LEMMA AppliedAgree ==
    ASSUME NEW l1, NEW l2, NEW b \in Nat, \A h \in 1 .. b : l1.entries[h] = l2.entries[h]
    PROVE  Applied(l1, 0, b) = Applied(l2, 0, b)
<1>1. 1 .. b - 0 = 1 .. b /\ \A k \in 1 .. b : 0 + k \in 1 .. b
  BY SMTT(30)
<1>2. \A k \in 1 .. b - 0 : l1.entries[0 + k] = l2.entries[0 + k]
  BY <1>1, Zenon
<1> QED
  BY <1>2, Zenon DEF Applied

\* What the step leaves of the committed part of a log, and where commit_index lies.
KeepsCommitted(n, p) ==
    /\ Flat(p.log) /\ n.commitIndex <= p.commitIndex /\ p.commitIndex <= LastIndex(p.log)
    /\ \A h \in 1 .. n.commitIndex : p.log.entries[h] = n.log.entries[h]

\* drain_and_apply brings the engine to commit_index.
LEMMA DrainKeepsStore ==
    ASSUME NatWellOrdered, NEW st \in StoreType, NEW n \in NodeType, StoreOK(n, st), NEW q \in NodeType,
           CaughtUp(n.commitIndex, q), NEW p, p = Settled(st, q), p.log.lastIncludedIndex = 0,
           KeepsCommitted(n, p)
    PROVE  StoreOK(p, Drained(st, q))
<1> DEFINE a == n.commitIndex
           b == p.commitIndex
           E == Applied(p.log, a, b)
           d == Drained(st, q)
<1>1. /\ SameLog(q, p) /\ p.lastApplied = q.lastApplied /\ ~AtSnapshotPoint(q)
      /\ p.appliedEntries = << >> /\ p.pendingSnapshot = NoImage
  BY SettledBoundary, Zenon
<1>2. q.log = p.log /\ q.commitIndex = b /\ a \in Nat /\ b \in Nat /\ p.log \in LogType
  BY <1>1, Zenon DEF SameLog, NodeType
<1>3. /\ Flat(p.log) /\ a <= b /\ b <= LastIndex(p.log)
      /\ \A h \in 1 .. a : p.log.entries[h] = n.log.entries[h]
  BY Zenon DEF KeepsCommitted
<1>4. ApplyPart(a, q) /\ q.lastApplied = b
  <2>1. InLog(a, q)
    BY <1>2, <1>3, Zenon DEF InLog
  <2> QED
    BY <1>2, <2>1, Zenon DEF CaughtUp
<1>5. q.pendingSnapshot = NoImage /\ q.appliedEntries = E
  BY <1>2, <1>4, Zenon DEF ApplyPart
<1>6. d = [st EXCEPT !.engine = @ \o E, !.wal = @ \o E, !.floor = Highest(@, E)]
  <2>1. Installed(st, NoImage) = st
    BY Zenon DEF Installed, NoImage
  <2>2. d = ApplyDrained(st, E)
    BY <1>1, <1>5, <2>1, Zenon DEF Drained
  <2> QED
    BY <2>2, Zenon DEF ApplyDrained
<1>7. /\ st.engine = Applied(n.log, 0, a) /\ st.wal = st.engine /\ st.floor = a
      /\ st.snapFile = NoImage
  BY Zenon DEF StoreOK
<1>8. Applied(n.log, 0, a) = Applied(p.log, 0, a)
  BY <1>2, <1>3, AppliedAgree, SMTT(30)
<1>9. Applied(p.log, 0, a) \o E = Applied(p.log, 0, b)
  <2>1. /\ p.log \in LogType /\ Flat(p.log) /\ 0 \in Nat /\ a \in Nat /\ b \in Nat
        /\ 0 <= a /\ a <= b /\ b <= LastIndex(p.log)
    BY <1>2, <1>3, SMTT(30)
  <2> HIDE DEF a, b
  <2> QED
    BY ONLY NatWellOrdered, <2>1, AppliedJoin, Zenon DEF E
<1>10. Highest(a, E) = b
  BY <1>2, <1>3, HighestApplied, Zenon
<1>11. /\ d.engine = st.engine \o E /\ d.wal = st.wal \o E /\ d.floor = Highest(st.floor, E)
       /\ d.snapFile = st.snapFile
  BY <1>6, Zenon DEF StoreType
<1> HIDE DEF d, E
<1>12. /\ d.engine = Applied(p.log, 0, b) /\ d.wal = d.engine /\ d.floor = b /\ d.snapFile = NoImage
  BY <1>7, <1>8, <1>9, <1>10, <1>11, Zenon
<1>13. Idle(b, p)
  BY <1>1, <1>4, Zenon DEF Idle
<1> QED
  BY <1>12, <1>13, Zenon DEF StoreOK, d

\* An iteration that leaves a node caught up keeps every server's store.
LEMMA IterationStore ==
    ASSUME NatWellOrdered, TypeOK, Uncompacted', NEW i \in Server, NEW q \in NodeType, NEW out, NEW W,
           Iteration(i, q, out, W), CaughtUp(node[i].commitIndex, q),
           \A j \in Server : StoreOK(node[j], store[j]) /\ KeepsCommitted(node[j], node'[j])
    PROVE  \A j \in Server : StoreOK(node'[j], store'[j])
<1> DEFINE p == Settled(store[i], q)
           d == Drained(store[i], q)
<1>1. store \in [Server -> StoreType] /\ node \in [Server -> NodeType]
  BY Zenon DEF TypeOK
<1>2. node' = [node EXCEPT ![i] = p] /\ store' = [store EXCEPT ![i] = d]
  BY Zenon DEF Iteration, LocalIteration
<1>3. p.log.lastIncludedIndex = 0
  BY <1>1, <1>2, Zenon DEF Uncompacted
<1>4. node'[i] = p /\ store'[i] = d
  BY <1>1, <1>2, Zenon
<1>5. KeepsCommitted(node[i], p)
  BY <1>4, Zenon
<1>6. StoreOK(p, d)
  BY <1>1, <1>3, <1>5, DrainKeepsStore, Zenon
<1> HIDE DEF p, d
<1> QED
  BY <1>1, <1>2, <1>4, <1>6, Zenon

\* Every step of a group that has not compacted keeps every server's store.
LEMMA NextStore ==
    ASSUME NatWellOrdered, TypeOK, Uncompacted', NoSnapshotIn(msgs), Next,
           \A j \in Server : /\ Flat(node[j].log) /\ StoreOK(node[j], store[j])
                             /\ KeepsCommitted(node[j], node'[j])
    PROVE  \A j \in Server : StoreOK(node'[j], store'[j])
<1>0. /\ node \in [Server -> NodeType] /\ store \in [Server -> StoreType]
      /\ \A j \in Server : /\ StoreOK(node[j], store[j]) /\ KeepsCommitted(node[j], node'[j])
                           /\ node[j].commitIndex \in Nat /\ Idle(node[j].commitIndex, node[j])
  BY Zenon DEF TypeOK, NodeType, StoreOK
<1> DEFINE Kept == \A j \in Server : StoreOK(node'[j], store'[j])
<1>1. ASSUME NEW i \in Server, ElectionTimeout(i) PROVE Kept
  <2> DEFINE r == StartElection(i, node[i])
             q == TryAdvanceApply(r.node)
  <2>1. node[i] \in NodeType /\ Iteration(i, q, r.out, pending[i])
    BY <1>0, <1>1, Zenon DEF ElectionTimeout
  <2>2. r.node \in NodeType /\ Applies(node[i].commitIndex, r.node)
    BY <1>0, <2>1, StartElectionType, StartElectionApplies, Zenon DEF Plain
  <2> HIDE DEF r
  <2>3. q \in NodeType /\ CaughtUp(node[i].commitIndex, q)
    BY <1>0, <2>2, TryAdvanceApplyType, AppliesCatchesUp, Zenon
  <2> HIDE DEF q
  <2> QED
    BY <1>0, <2>1, <2>3, IterationStore, Zenon
<1>2. ASSUME NEW i \in Server, NEW n \in NodeType, CaughtUp(node[i].commitIndex, n), NEW W,
             Iteration(i, Broadcast(i, n).node, Broadcast(i, n).out, W)
      PROVE  Kept
  <2> DEFINE q == Broadcast(i, n).node
  <2>1. q = NoteSent(n, Peers(i))
    BY Zenon DEF Broadcast
  <2>2. q \in NodeType /\ SameLog(n, q) /\ SameApply(n, q)
    BY <2>1, NoteSentType, BookkeepingSame, Zenon
  <2>3. Iteration(i, q, Broadcast(i, n).out, W)
    BY <1>2, Zenon
  <2> HIDE DEF q
  <2>4. CaughtUp(node[i].commitIndex, q)
    BY <1>2, <2>2, CaughtUpSame, Zenon
  <2> QED
    BY <1>0, <2>2, <2>3, <2>4, IterationStore, Zenon
<1>3. ASSUME NEW i \in Server, Heartbeat(i) PROVE Kept
  <2> DEFINE r == Broadcast(i, node[i])
             q == TryAdvanceApply(r.node)
  <2>1. node[i] \in NodeType /\ Iteration(i, q, r.out, pending[i])
    BY <1>0, <1>3, Zenon DEF Heartbeat
  <2>2. r.node = NoteSent(node[i], Peers(i))
    BY Zenon DEF Broadcast
  <2> HIDE DEF r
  <2>3. r.node \in NodeType /\ Applies(node[i].commitIndex, r.node)
    BY <1>0, <2>1, <2>2, NoteSentType, BookkeepingSame, IdleSame, IdleApplies, SMTT(30)
  <2>4. q \in NodeType /\ CaughtUp(node[i].commitIndex, q)
    BY <1>0, <2>3, TryAdvanceApplyType, AppliesCatchesUp, Zenon
  <2> HIDE DEF q
  <2> QED
    BY <1>0, <2>1, <2>4, IterationStore, Zenon
<1>4. ASSUME NEW i \in Server, NEW m \in msgs, Receive(i, m) PROVE Kept
  <2> DEFINE r == Handle(i, node[i], m)
  <2>1. node[i] \in NodeType /\ m \in Message /\ Iteration(i, r.node, r.out, pending[i])
    BY <1>4, Zenon DEF TypeOK, Receive
  <2>2. m.type \notin {"InstallSnapshotRequest", "InstallSnapshotResponse"}
    BY Zenon DEF NoSnapshotIn
  <2>3. r.node \in NodeType /\ CaughtUp(node[i].commitIndex, r.node)
    BY <1>0, <2>1, <2>2, HandleType, HandleCatchesUp, Zenon
  <2> HIDE DEF r
  <2> QED
    BY <1>0, <2>1, <2>3, IterationStore, Zenon
<1>5. ASSUME NEW i \in Server, NEW v \in Value, ClientPropose(i, v) PROVE Kept
  <2> DEFINE n == Propose(i, node[i], v)
             pr == [index |-> LastIndex(n.log), term |-> n.currentTerm, command |-> v]
             W == {q \in pending[i] : q.index # pr.index} \cup {pr}
  <2>1. node[i] \in NodeType /\ v \in Command
    BY <1>0, Zenon DEF Command
  <2>2. Iteration(i, Broadcast(i, n).node, Broadcast(i, n).out, W)
    BY <1>5, Zenon DEF ClientPropose
  <2> HIDE DEF W
  <2>3. n \in NodeType /\ CaughtUp(node[i].commitIndex, n)
    BY <1>0, <2>1, ProposeType, ProposeCatchesUp, Zenon
  <2> HIDE DEF n
  <2> QED
    BY <1>2, <2>2, <2>3, Zenon
<1>6. ASSUME NEW i \in Server, ClientRead(i) PROVE Kept
  <2> DEFINE n == ProposeRead(i, node[i], HighestCommit)
  <2>1. node[i] \in NodeType /\ Iteration(i, Broadcast(i, n).node, Broadcast(i, n).out, pending[i])
    BY <1>0, <1>6, Zenon DEF ClientRead
  <2>2. n \in NodeType /\ SameLog(node[i], n) /\ SameApply(node[i], n)
    BY <2>1, HighestCommitType, ProposeReadType, BookkeepingSame, Zenon
  <2> HIDE DEF n
  <2>3. Idle(node[i].commitIndex, n) /\ n.commitIndex = node[i].commitIndex
    BY <1>0, <2>2, IdleSame, Zenon DEF SameLog
  <2>4. CaughtUp(node[i].commitIndex, n)
    BY <1>0, <2>2, <2>3, IdleApplies, Zenon
  <2> QED
    BY <1>2, <2>1, <2>2, <2>4, Zenon
<1>7. ASSUME NEW i \in Server, NEW p, NEW d, StoreOK(p, d),
             node' = [node EXCEPT ![i] = p], store' = [store EXCEPT ![i] = d]
      PROVE  Kept
  BY <1>0, <1>7, Zenon
<1>8. ASSUME NEW i \in Server, Transfer(i) PROVE Kept
  <2> DEFINE p == TransferLeadership(node[i])
  <2>1. /\ p.log = node[i].log /\ p.commitIndex = node[i].commitIndex /\ SameApply(node[i], p)
    BY <1>0, SMTT(30) DEF TransferLeadership, StepDownKeepingVote, NodeType, SameApply
  <2>2. node' = [node EXCEPT ![i] = p] /\ store' = [store EXCEPT ![i] = store[i]]
    BY <1>0, <1>8, Zenon DEF Transfer
  <2> HIDE DEF p
  <2>3. StoreOK(p, store[i])
    BY <1>0, <2>1, IdleSame, Zenon DEF StoreOK
  <2> QED
    BY <1>7, <2>2, <2>3, Zenon
<1>9. ASSUME NEW i \in Server, Restart(i) PROVE Kept
  <2> DEFINE p == Recover(node[i], store[i].floor)
             d == Reopened(store[i])
  <2>1. /\ node[i] \in NodeType /\ store[i] \in StoreType /\ Flat(node[i].log)
        /\ node[i].log \in LogType /\ StoreOK(node[i], store[i])
    BY <1>0, Zenon DEF NodeType
  <2>2. Reloaded(node[i].log) = node[i].log
    BY <2>1, SMTT(30) DEF Reloaded, Flat, LogType
  <2>3. /\ p.log = node[i].log /\ p.commitIndex = store[i].floor /\ p.lastApplied = store[i].floor
        /\ p.appliedEntries = << >> /\ p.pendingSnapshot = NoImage
    BY <2>2, Zenon DEF Recover, NewNode
  <2>4. d = [store[i] EXCEPT !.engine = store[i].wal]
    BY <2>1, SMTT(30) DEF Reopened, Installed, NoImage, StoreOK
  <2>5. d.engine = store[i].wal /\ d.wal = store[i].wal /\ d.floor = store[i].floor /\ d.snapFile = store[i].snapFile
    BY <2>1, <2>4, Zenon DEF StoreType
  <2>6. node' = [node EXCEPT ![i] = p] /\ store' = [store EXCEPT ![i] = d]
    BY <1>0, <1>9, Zenon DEF Restart
  <2> HIDE DEF p, d
  <2>7. StoreOK(p, d)
    BY <2>1, <2>3, <2>5, Zenon DEF StoreOK, Idle
  <2> QED
    BY <1>7, <2>6, <2>7, Zenon
<1> QED
  BY <1>1, <1>3, <1>4, <1>5, <1>6, <1>8, <1>9, Zenon
     DEF Next, RcvVoteRequest, RcvVoteResponse, RcvAppendRequest, RcvAppendResponse,
         RcvInstallSnapshotRequest, RcvInstallSnapshotResponse

=============================================================================
