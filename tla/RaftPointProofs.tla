-------------------------- MODULE RaftPointProofs ---------------------------
(***************************************************************************)
(* What follows for commitment in an odd group when every server keeps to  *)
(* LogStep and CommitStep.                                                 *)
(*                                                                         *)
(* A point is an index and the term of the entry there.  It is             *)
(* acknowledged by the term's leader and by everyone who answered a        *)
(* request of the term with success and a match_index not below it.  A     *)
(* point of the tree of links is either blocked (a quorum has gone on to   *)
(* later terms without acknowledging it, so no quorum ever will), or       *)
(* whoever acknowledged it has it still, every candidate such a server     *)
(* voted for has it, and every entry of a later term was appended behind   *)
(* it.  Whoever wins an election has met a server of any quorum, so only a *)
(* blocked point can be missing from a later leader's log.  A chosen       *)
(* point, one a quorum acknowledged, is never blocked; and nobody commits  *)
(* above a chosen point it has.                                            *)
(***************************************************************************)
EXTENDS RaftTreeProofs

-----------------------------------------------------------------------------
(* Points.                                                                  *)

\* Server s has said, or as the term's leader need not say, that it has what is at
\* index k in term t.
Acked(nd, M, s, k, t) ==
    \/ Elected(nd, M, s, t)
    \/ \E m \in M : IsAck(m) /\ m.from = s /\ m.term = t /\ m.matchIndex >= k

\* Point (k, t) can no longer be acknowledged by a quorum.
Blocked(nd, M, k, t) ==
    \E Q \in SUBSET Server :
        IsQuorum(Q) /\ \A s \in Q : nd[s].currentTerm > t /\ ~Acked(nd, M, s, k, t)

\* Every link of a later term lies above (k, t).
Covered(S, k, t) ==
    \A a \in S : a.entry.term > t => a.before > t \/ (a.before = t /\ a.index > k)

\* A point is blocked, or is still with everyone who acknowledged it, with the
\* candidates they voted for and below everything later.
PointOK(nd, M, k, t) ==
    \/ Blocked(nd, M, k, t)
    \/ /\ Covered(Tree(nd, M), k, t)
       /\ \A s \in Server : Acked(nd, M, s, k, t) => HasPoint(nd[s].log, k, t)
       /\ \A g \in M :
             (/\ Grants(g) /\ g.term > t /\ Acked(nd, M, g.from, k, t)
              /\ Candidate(nd, g.to, g.term)) => HasPoint(nd[g.to].log, k, t)

PointsOK(nd, M) == \A x \in Tree(nd, M) : PointOK(nd, M, x.index, x.entry.term)

\* A candidate says the truth about its log, and is voted for only after it asked.
AsksOK(nd, M) ==
    /\ \A m \in M : m.type = "VoteRequest" =>
          /\ nd[m.from].currentTerm >= m.term
          /\ Candidate(nd, m.from, m.term) =>
                /\ m.lastLogIndex = LastIndex(nd[m.from].log)
                /\ m.lastLogTerm = LastTerm(nd[m.from].log)
    /\ \A g \in M : Grants(g) => nd[g.to].currentTerm >= g.term

\* What was acknowledged stays acknowledged.
LEMMA AckedKept ==
    ASSUME NEW nd, NEW M, NEW ne, NEW N, NEW i, NEW out, Step(nd, M, ne, N, i, out), LogCore(nd, M),
           NEW s \in Server, NEW k, NEW t \in Nat, Acked(nd, M, s, k, t)
    PROVE  Acked(ne, N, s, k, t)
<1>1. CASE Elected(nd, M, s, t)
  BY <1>1, ElectedKept, Zenon DEF Acked
<1>2. ASSUME NEW m \in M, IsAck(m), m.from = s, m.term = t, m.matchIndex >= k
      PROVE  Acked(ne, N, s, k, t)
  <2>1. m \in N
    BY StepTypes, Zenon
  <2> QED
    BY <1>2, <2>1, Zenon DEF Acked
<1> QED
  BY <1>1, <1>2, Zenon DEF Acked

\* In a term that elected someone, only accepting a request acknowledges anew.
LEMMA AckedBack ==
    ASSUME MeetingQuorums, NEW nd, NEW M, NEW ne, NEW N, NEW i, NEW out, Step(nd, M, ne, N, i, out), LogCore(nd, M),
           NEW s \in Server, NEW k, NEW t \in Nat, NEW c \in Server, Elected(nd, M, c, t),
           Acked(ne, N, s, k, t)
    PROVE  \/ Acked(nd, M, s, k, t)
           \/ /\ s = i /\ ne[i].currentTerm = t /\ LastIndex(ne[i].log) >= k
              /\ \E m \in M : Accepts(i, nd[i], ne[i], m)
<1>1. CASE Elected(ne, N, s, t)
  <2>1. Elected(ne, N, c, t)
    BY ElectedKept, Zenon
  <2>2. Backed(ne, N)
    BY Zenon DEF Step
  <2>3. s = c
    BY <1>1, <2>1, <2>2, ElectedOnce, Zenon
  <2> QED
    BY <2>3, Zenon DEF Acked
<1>2. ASSUME NEW m \in N, IsAck(m), m.from = s, m.term = t, m.matchIndex >= k
      PROVE  \/ Acked(nd, M, s, k, t)
             \/ /\ s = i /\ ne[i].currentTerm = t /\ LastIndex(ne[i].log) >= k
                /\ \E r \in M : Accepts(i, nd[i], ne[i], r)
  <2>1. CASE m \in M
    BY <1>2, <2>1, Zenon DEF Acked
  <2>2. CASE m \in out
    <3>1. Sent(i, nd[i], ne[i], m, M)
      BY <2>2, Zenon DEF Step, LogStep
    <3> QED
      BY <1>2, <3>1, Zenon DEF Sent
  <2> QED
    BY <2>1, <2>2, Zenon DEF Step
<1> QED
  BY <1>1, <1>2, Zenon DEF Acked

\* A blocked point stays blocked.
LEMMA BlockedKept ==
    ASSUME MeetingQuorums, NEW nd, NEW M, NEW ne, NEW N, NEW i, NEW out, Step(nd, M, ne, N, i, out), LogCore(nd, M),
           NEW k, NEW t \in Nat, NEW c \in Server, Elected(nd, M, c, t), Blocked(nd, M, k, t)
    PROVE  Blocked(ne, N, k, t)
<1>1. PICK Q \in SUBSET Server : IsQuorum(Q) /\ \A s \in Q : nd[s].currentTerm > t /\ ~Acked(nd, M, s, k, t)
  BY Zenon DEF Blocked
<1>2. ASSUME NEW s \in Q PROVE ne[s].currentTerm > t /\ ~Acked(ne, N, s, k, t)
  <2>1. s \in Server /\ nd[s].currentTerm > t /\ ~Acked(nd, M, s, k, t)
    BY <1>1, Zenon
  <2>2. ne[s].currentTerm > t
    BY <2>1, StepTypes, SMTT(30)
  <2>3. ne[s].currentTerm \in Nat
    BY <2>1, StepTypes, Zenon
  <2>4. ne[s].currentTerm # t
    BY <2>2, <2>3, SMTT(30)
  <2> QED
    BY <2>1, <2>2, <2>4, AckedBack, SMTT(30)
<1> QED
  BY <1>1, <1>2, Zenon DEF Blocked

\* Who voted in a term has reached it.
LEMMA VoterTerms ==
    ASSUME NEW nd \in [Server -> NodeType], NEW M \in SUBSET Message, Backed(nd, M), NEW c \in Server,
           NEW u \in Nat, Elected(nd, M, c, u), NEW s \in Voters(M, c, u)
    PROVE  s \in Server /\ nd[s].currentTerm \in Nat /\ nd[s].currentTerm >= u
<1>1. s \in Server /\ nd[s].currentTerm \in Nat
  BY Zenon DEF Voters, NodeType
<1>2. CASE s = c
  BY <1>1, <1>2, Zenon DEF Elected
<1>3. ASSUME NEW g \in M, Grants(g), g.from = s, g.to = c, g.term = u PROVE nd[s].currentTerm >= u
  <2>1. \/ nd[s].currentTerm > u
        \/ nd[s].currentTerm = u /\ nd[s].votedFor = c
    BY <1>3, Zenon DEF Backed
  <2> QED
    BY <1>1, <2>1, SMTT(30)
<1> QED
  BY <1>1, <1>2, <1>3, Zenon DEF Voters

\* A log does not lose a point all later links lie above.
LEMMA PointKept ==
    ASSUME NatWellOrdered, NEW nd, NEW M, NEW ne, NEW N, NEW i, NEW out, Step(nd, M, ne, N, i, out), LogCore(nd, M),
           NEW s \in Server, NEW k, NEW t \in Nat, HasPoint(nd[s].log, k, t), Covered(Tree(nd, M), k, t)
    PROVE  /\ HasPoint(ne[s].log, k, t)
           /\ k <= LastIndex(ne[s].log)
           /\ \A h \in 1 .. k : ne[s].log.entries[h] = nd[s].log.entries[h]
<1>0. \A j \in Server : /\ nd[j].log \in LogType /\ ne[j].log \in LogType
                        /\ Flat(nd[j].log) /\ Flat(ne[j].log) /\ ne[j].currentTerm \in Nat
                        /\ nd[j].currentTerm \in Nat /\ ne[j].currentTerm >= nd[j].currentTerm
                        /\ j # i => ne[j] = nd[j]
  BY StepTypes, SMTT(30)
<1>1. /\ k \in Nat /\ k >= 1 /\ k <= LastIndex(nd[s].log) /\ Spans(LogFragment(nd[s].log), k)
      /\ TermIn(LogFragment(nd[s].log), k) = t
      /\ LinkAt(LogFragment(nd[s].log), k) \in LinksOf(LogFragment(nd[s].log))
      /\ LinkAt(LogFragment(nd[s].log), k).entry.term = t
  BY <1>0, PointLink, SMTT(30)
<1>2. t <= nd[s].currentTerm
  <2>1. TermsBelow(nd[s])
    BY Zenon DEF LogCore
  <2> QED
    BY <1>1, <2>1, Zenon DEF TermsBelow, LogLinks
<1>3. k \in 1 .. Len(nd[s].log.entries) /\ nd[s].log.entries[k].term = t
  BY Zenon DEF HasPoint
<1>4. ASSUME k <= LastIndex(ne[s].log), \A h \in 1 .. k : ne[s].log.entries[h] = nd[s].log.entries[h]
      PROVE  HasPoint(ne[s].log, k, t)
  <2>1. LastIndex(ne[s].log) = Len(ne[s].log.entries) /\ Len(ne[s].log.entries) \in Nat
    BY <1>0, FlatLog, Zenon
  <2>2. k \in 1 .. k /\ k \in 1 .. Len(ne[s].log.entries)
    BY <1>1, <1>4, <2>1, SMTT(30)
  <2> QED
    BY <1>3, <1>4, <2>2, Zenon DEF HasPoint
<1>5. CASE ne[s].log = nd[s].log
  BY <1>1, <1>4, <1>5, Zenon
<1>6. CASE ne[s].log # nd[s].log
  <2> DEFINE n == nd[i]
             p == ne[i]
  <2>1. s = i /\ LogChange(i, n, p, M) /\ i \in Server
    BY <1>0, <1>6, Zenon DEF Step, LogStep
  <2>2. ASSUME NEW c \in Command, p.log = AppendEntry(n.log, [term |-> p.currentTerm, command |-> c])
        PROVE  k <= LastIndex(p.log) /\ \A h \in 1 .. k : p.log.entries[h] = n.log.entries[h]
    <3> DEFINE e == [term |-> p.currentTerm, command |-> c]
    <3>1. e \in Entry /\ p.log = AppendEntry(n.log, e)
      BY <1>0, <2>1, <2>2, Zenon DEF Entry
    <3> HIDE DEF e
    <3>2. /\ \A h \in 1 .. LastIndex(n.log) : p.log.entries[h] = n.log.entries[h]
          /\ LastIndex(p.log) = LastIndex(n.log) + 1
      BY <1>0, <2>1, <3>1, AppendLinks, SMTT(30)
    <3>3. LastIndex(n.log) \in Nat /\ k <= LastIndex(n.log)
      BY <1>0, <1>1, <2>1, FlatLog, Zenon
    <3> QED
      BY <1>1, <3>2, <3>3, SMTT(30)
  <2>3. ASSUME NEW m \in M, Accepts(i, n, p, m)
        PROVE  k <= LastIndex(p.log) /\ \A h \in 1 .. k : p.log.entries[h] = n.log.entries[h]
    <3> DEFINE f == RequestFragment(m)
               S == Tree(nd, M)
    <3>1. /\ m.type = "AppendRequest" /\ m.term = p.currentTerm /\ Mergeable(n.log, f)
          /\ p.log = Merged(n.log, f) /\ m \in Requests(M)
      BY <2>3, Zenon DEF Accepts, Requests
    <3>2. TermIn(f, EndOf(f)) = p.currentTerm
      BY <3>1, Zenon DEF LogCore, RequestsOK
    <3>3. LinksOf(f) \subseteq S /\ LinksOf(LogFragment(n.log)) \subseteq S
      BY <2>1, <3>1, InTree, Zenon DEF RequestLinks, LogLinks
    <3>4. UniqueIn(S) /\ OrderedIn(S) /\ ContiguousIn(S)
      BY Zenon DEF LogCore
    <3>5. \A a \in S : a.entry.term > t => a.before > t \/ (a.before = t /\ a.index > k)
      BY Zenon DEF Covered
    <3>6. t = TermIn(f, EndOf(f)) \/ t < TermIn(f, EndOf(f))
      BY <1>0, <1>2, <2>1, <3>2, SMTT(30)
    <3> HIDE DEF f, S
    <3> QED
      BY <1>1, <2>1, <3>1, <3>3, <3>4, <3>5, <3>6, MergeKeepsPoint, SMTT(30)
  <2>4. k <= LastIndex(p.log) /\ \A h \in 1 .. k : p.log.entries[h] = n.log.entries[h]
    BY <1>6, <2>1, <2>2, <2>3, Zenon DEF LogChange
  <2> QED
    BY <1>4, <2>1, <2>4, Zenon
<1> QED
  BY <1>5, <1>6, Zenon

\* A log that ends in a later term than a covered point has the point.
LEMMA HigherHasPoint ==
    ASSUME NatWellOrdered, NEW nd, NEW M, LogCore(nd, M), NEW log \in LogType, Flat(log),
           LinksOf(LogFragment(log)) \subseteq Tree(nd, M),
           NEW x \in Tree(nd, M), NEW k \in Nat, NEW t \in Nat, x.index = k, x.entry.term = t,
           NEW e \in Nat, Spans(LogFragment(log), e),
           \/ TermIn(LogFragment(log), e) = t /\ k <= e
           \/ TermIn(LogFragment(log), e) > t /\ Covered(Tree(nd, M), k, t),
           k >= 1
    PROVE  HasPoint(log, k, t)
<1> DEFINE f == LogFragment(log)
           S == Tree(nd, M)
<1>1. f \in Fragment /\ f.base = 0 /\ f.before = 0 /\ ContiguousIn(S) /\ EndOf(f) \in Nat
  BY FlatLog, FragmentType, Zenon DEF LogCore
<1>2. ASSUME NEW b \in Nat, Spans(f, b), TermIn(f, b) = t, k <= b PROVE HasPoint(log, k, t)
  <2>1. TermIn(f, k) = t
    <3> HIDE DEF f, S
    <3>1. f.base <= k /\ x \in S /\ LinksOf(f) \subseteq S
      BY <1>1, SMTT(30) DEF f, S
    <3> QED
      BY <1>1, <1>2, <3>1, Span, Zenon
  <2>2. Spans(f, k)
    BY <1>1, <1>2, SMTT(30) DEF Spans
  <2> QED
    BY <2>1, <2>2, PointLink, SMTT(30)
<1>3. CASE TermIn(f, e) = t /\ k <= e
  BY <1>2, <1>3, Zenon
<1>4. CASE TermIn(f, e) > t /\ Covered(S, k, t)
  <2>1. \A a \in S : a.entry.term > t => a.before > t \/ (a.before = t /\ a.index > k)
    BY <1>4, Zenon DEF Covered
  <2>2. PICK j \in f.base .. EndOf(f) : j >= k /\ j < e /\ TermIn(f, j) = t
    <3> HIDE DEF f, S
    <3>1. LinksOf(f) \subseteq S /\ Spans(f, e) /\ TermIn(f, e) > t
      BY <1>4, Zenon DEF f, S
    <3>2. f.before <= t /\ f \in Fragment
      BY <1>1, SMTT(30)
    <3>3. t \in Nat /\ k \in Nat /\ e \in Nat
      BY Zenon
    <3> QED
      BY ONLY NatWellOrdered, <2>1, <3>1, <3>2, <3>3, Passes, SMTT(30)
  <2>3. j \in Nat /\ Spans(f, j) /\ k <= j
    BY <1>1, <2>2, SMTT(30) DEF Spans
  <2> QED
    BY <1>2, <2>2, <2>3, Zenon
<1> QED
  BY <1>3, <1>4, Zenon

\* A log with a point has a last term that is no lower.
LEMMA PointBelowEnd ==
    ASSUME NatWellOrdered, NEW nd, NEW M, LogCore(nd, M), NEW log \in LogType, Flat(log),
           LinksOf(LogFragment(log)) \subseteq Tree(nd, M), NEW k, NEW t, HasPoint(log, k, t)
    PROVE  /\ LastTerm(log) \in Nat /\ LastIndex(log) \in Nat /\ k \in Nat /\ k >= 1 /\ t \in Nat
           /\ LastTerm(log) >= t /\ LastIndex(log) >= k
           /\ Spans(LogFragment(log), LastIndex(log))
           /\ TermIn(LogFragment(log), LastIndex(log)) = LastTerm(log)
<1> DEFINE f == LogFragment(log)
           S == Tree(nd, M)
           len == Len(log.entries)
<1>1. /\ f \in Fragment /\ f.base = 0 /\ EndOf(f) = len /\ len \in Nat /\ LastIndex(log) = len
      /\ LastTerm(log) = TermIn(f, len) /\ OrderedIn(S) /\ LinksOf(f) \subseteq S
  BY FlatLog, Zenon DEF LogCore
<1>2. k \in Nat /\ k >= 1 /\ k <= len /\ Spans(f, k) /\ TermIn(f, k) = t
  BY <1>1, PointLink, SMTT(30)
<1> HIDE DEF f, S, len
<1>3. Spans(f, len)
  BY <1>1, <1>2, SMTT(30) DEF Spans
<1>4. TermIn(f, len) \in Nat /\ TermIn(f, k) \in Nat
  BY <1>1, <1>2, <1>3, AtIndex, Zenon
<1>5. TermIn(f, k) <= TermIn(f, len)
  <2>1. f.base <= k /\ len <= EndOf(f)
    BY <1>1, <1>2, SMTT(30)
  <2> QED
    BY <1>1, <1>2, <2>1, TermsGrow, Zenon
<1> QED
  BY <1>1, <1>2, <1>3, <1>4, <1>5, Zenon DEF f

\* Who wins an election over a point that is not blocked has the point.
LEMMA WinnerHasPoint ==
    ASSUME MeetingQuorums, NEW nd, NEW M, NEW ne, NEW N, NEW i, NEW out, Step(nd, M, ne, N, i, out), LogCore(nd, M),
           AsksOK(nd, M), NEW k, NEW t \in Nat, NEW c \in Server, Elected(nd, M, c, t),
           PointOK(nd, M, k, t), ~Blocked(ne, N, k, t),
           ne[i].role = "Leader", ne[i].currentTerm > t, ~Leads(nd, i, ne[i].currentTerm)
    PROVE  HasPoint(nd[i].log, k, t)
<1> DEFINE u == ne[i].currentTerm
<1>1. /\ i \in Server /\ ne \in [Server -> NodeType] /\ Backed(ne, N) /\ N = M \cup out
      /\ N \in SUBSET Message /\ RoleStep(nd[i], ne[i])
      /\ \A g \in out : Sent(i, nd[i], ne[i], g, M)
  BY Zenon DEF Step, LogStep
<1>2. /\ u \in Nat /\ nd[i].currentTerm \in Nat /\ u >= nd[i].currentTerm /\ nd[i] \in NodeType
  BY <1>1, StepTypes, SMTT(30)
<1>3. ~Blocked(nd, M, k, t)
  BY BlockedKept, Zenon
<1>4. /\ \A s \in Server : Acked(nd, M, s, k, t) => HasPoint(nd[s].log, k, t)
      /\ \A g \in M :
            (/\ Grants(g) /\ g.term > t /\ Acked(nd, M, g.from, k, t)
             /\ Candidate(nd, g.to, g.term)) => HasPoint(nd[g.to].log, k, t)
  BY <1>3, Zenon DEF PointOK
<1>5. Elected(ne, N, i, u)
  BY <1>1, LeaderElected, Zenon DEF Leads
<1>6. Voters(N, i, u) \in SUBSET Server /\ IsQuorum(Voters(N, i, u))
  BY <1>5, Zenon DEF Voters, Elected
<1>7. PICK s \in Voters(N, i, u) : ~(ne[s].currentTerm > t /\ ~Acked(ne, N, s, k, t))
  BY <1>6, Zenon DEF Blocked
<1>8. s \in Server /\ ne[s].currentTerm \in Nat /\ ne[s].currentTerm >= u
  BY <1>1, <1>2, <1>5, VoterTerms, Zenon
<1>9. Acked(ne, N, s, k, t) /\ ne[i].currentTerm # t
  BY <1>2, <1>7, <1>8, SMTT(30)
<1>10. Acked(nd, M, s, k, t)
  BY <1>8, <1>9, AckedBack, SMTT(30)
<1>11. CASE s = i
  BY <1>4, <1>8, <1>10, <1>11, Zenon
<1>12. CASE s # i
  <2>1. PICK g \in N : Grants(g) /\ g.from = s /\ g.to = i /\ g.term = u
    BY <1>12, Zenon DEF Voters
  <2>2. g \in M
    BY <1>1, <1>12, <2>1, Zenon DEF Sent
  <2>3. nd[i].currentTerm >= u
    BY <2>1, <2>2, Zenon DEF AsksOK
  <2>4. nd[i].currentTerm = u
    BY <1>2, <2>3, SMTT(30)
  <2>5. nd[i].role # "Follower" /\ nd[i].role # "Leader" /\ nd[i].role \in Role
    BY <1>1, <1>2, <2>4, SMTT(30) DEF RoleStep, Leads, NodeType
  <2>6. Candidate(nd, i, u)
    BY <2>4, <2>5, Zenon DEF Candidate, Role
  <2> QED
    BY <1>4, <1>10, <2>1, <2>2, <2>6, Zenon
<1> QED
  BY <1>11, <1>12, Zenon

\* A point that is not blocked stays below all links of later terms.
LEMMA CoveredKept ==
    ASSUME NatWellOrdered, MeetingQuorums, NEW nd, NEW M, NEW ne, NEW N, NEW i, NEW out, Step(nd, M, ne, N, i, out), LogCore(nd, M),
           AsksOK(nd, M), NEW k \in Nat, NEW t \in Nat, NEW c \in Server, Elected(nd, M, c, t),
           PointOK(nd, M, k, t), ~Blocked(ne, N, k, t)
    PROVE  Covered(Tree(ne, N), k, t)
<1>1. ~Blocked(nd, M, k, t)
  BY BlockedKept, Zenon
<1>2. Covered(Tree(nd, M), k, t)
  BY <1>1, Zenon DEF PointOK
<1>3. CASE Tree(ne, N) \subseteq Tree(nd, M)
  BY <1>2, <1>3, Zenon DEF Covered
<1>4. CASE ~(Tree(ne, N) \subseteq Tree(nd, M))
  <2>1. PICK d : /\ OwnAppend(nd[i], ne[i], d)
                 /\ Tree(ne, N) \subseteq Tree(nd, M) \cup {NewLink(nd[i], ne[i], d)}
    BY <1>4, TreeGrows, Zenon
  <2> DEFINE l == NewLink(nd[i], ne[i], d)
  <2>2. /\ l.index = LastIndex(nd[i].log) + 1 /\ l.entry.term = ne[i].currentTerm
        /\ l.before = LastTerm(nd[i].log)
    BY Zenon DEF NewLink
  <2>3. /\ i \in Server /\ nd[i].log \in LogType /\ Flat(nd[i].log) /\ LeaderOK(i, nd[i], M)
        /\ ne[i].currentTerm \in Nat
    BY StepTypes, SMTT(30) DEF LogCore
  <2>4. LinksOf(LogFragment(nd[i].log)) \subseteq Tree(nd, M)
    BY <2>3, InTree, Zenon DEF LogLinks
  <2>5. ASSUME l.entry.term > t PROVE l.before > t \/ (l.before = t /\ l.index > k)
    <3>1. CASE Leads(nd, i, ne[i].currentTerm)
      BY <2>2, <2>3, <2>5, <3>1, Zenon DEF Leads, LeaderOK
    <3>2. CASE ~Leads(nd, i, ne[i].currentTerm)
      <4>1. ne[i].role = "Leader" /\ ne[i].currentTerm > t
        BY <2>1, <2>2, <2>5, Zenon DEF OwnAppend
      <4>2. HasPoint(nd[i].log, k, t)
        BY <3>2, <4>1, WinnerHasPoint, Zenon
      <4>3. /\ LastTerm(nd[i].log) \in Nat /\ LastIndex(nd[i].log) \in Nat
            /\ LastTerm(nd[i].log) >= t /\ LastIndex(nd[i].log) >= k
        BY <2>3, <2>4, <4>2, PointBelowEnd, Zenon
      <4> QED
        BY <2>2, <4>3, SMTT(30)
    <3> QED
      BY <3>1, <3>2, Zenon
  <2> HIDE DEF l
  <2>6. Tree(ne, N) \subseteq Tree(nd, M) \cup {l}
    BY <2>1, Zenon DEF l
  <2> QED
    BY <1>2, <2>5, <2>6, Zenon DEF Covered
<1> QED
  BY <1>3, <1>4, Zenon

\* Who acknowledged a point that is not blocked still has it.
LEMMA AckersHavePoint ==
    ASSUME NatWellOrdered, MeetingQuorums, NEW nd, NEW M, NEW ne, NEW N, NEW i, NEW out, Step(nd, M, ne, N, i, out), LogCore(nd, M),
           NEW x \in Tree(nd, M), x \in Tree(ne, N), NEW k \in Nat, NEW t \in Nat, k >= 1,
           x.index = k, x.entry.term = t, PointOK(nd, M, k, t), ~Blocked(ne, N, k, t),
           NEW s \in Server, Acked(ne, N, s, k, t)
    PROVE  HasPoint(ne[s].log, k, t)
<1>1. PICK c \in Server : Elected(nd, M, c, t)
  BY Zenon DEF LogCore, Authored
<1>2. ~Blocked(nd, M, k, t)
  BY <1>1, BlockedKept, Zenon
<1>3. Covered(Tree(nd, M), k, t) /\ (Acked(nd, M, s, k, t) => HasPoint(nd[s].log, k, t))
  BY <1>2, Zenon DEF PointOK
<1>4. CASE Acked(nd, M, s, k, t)
  BY <1>3, <1>4, PointKept, Zenon
<1>5. ASSUME s = i, ne[i].currentTerm = t, LastIndex(ne[i].log) >= k,
             NEW m \in M, Accepts(i, nd[i], ne[i], m)
      PROVE  HasPoint(ne[s].log, k, t)
  <2> DEFINE log == ne[i].log
  <2>1. log \in LogType /\ Flat(log) /\ i \in Server
    BY StepTypes, Zenon
  <2>2. HasPoint(log, LastIndex(log), t)
    BY <1>5, AcceptedEnd, SMTT(30)
  <2>3. /\ LastIndex(log) \in Nat /\ Spans(LogFragment(log), LastIndex(log))
        /\ TermIn(LogFragment(log), LastIndex(log)) = t
    BY <2>1, <2>2, PointLink, SMTT(30)
  <2>4. LinksOf(LogFragment(log)) \subseteq Tree(ne, N) /\ LogCore(ne, N)
    BY <2>1, InTree, CoreKept, Zenon DEF LogLinks
  <2>5. k <= LastIndex(log)
    BY <1>5, <2>3, Zenon
  <2> HIDE DEF log
  <2>6. HasPoint(log, k, t)
    BY <2>1, <2>3, <2>4, <2>5, HigherHasPoint, Zenon DEF log
  <2> QED
    BY <1>5, <2>6, Zenon DEF log
<1> QED
  BY <1>1, <1>4, <1>5, AckedBack, SMTT(30)

\* So does a candidate that one of them voted for: it has a log as up to date.
LEMMA CandidatesHavePoint ==
    ASSUME NatWellOrdered, MeetingQuorums, NEW nd, NEW M, NEW ne, NEW N, NEW i, NEW out, Step(nd, M, ne, N, i, out), LogCore(nd, M),
           AsksOK(nd, M), NEW x \in Tree(nd, M), NEW k \in Nat, NEW t \in Nat, k >= 1,
           x.index = k, x.entry.term = t, PointOK(nd, M, k, t), ~Blocked(ne, N, k, t),
           NEW g \in N, Grants(g), g.term > t, Acked(ne, N, g.from, k, t), Candidate(ne, g.to, g.term)
    PROVE  HasPoint(ne[g.to].log, k, t)
<1>1. PICK c \in Server : Elected(nd, M, c, t)
  BY Zenon DEF LogCore, Authored
<1>2. ~Blocked(nd, M, k, t)
  BY <1>1, BlockedKept, Zenon
<1>3. /\ Covered(Tree(nd, M), k, t)
      /\ \A s \in Server : Acked(nd, M, s, k, t) => HasPoint(nd[s].log, k, t)
      /\ \A h \in M :
            (/\ Grants(h) /\ h.term > t /\ Acked(nd, M, h.from, k, t)
             /\ Candidate(nd, h.to, h.term)) => HasPoint(nd[h.to].log, k, t)
  BY <1>2, Zenon DEF PointOK
<1>4. /\ i \in Server /\ Backed(ne, N) /\ N = M \cup out /\ N \in SUBSET Message
      /\ RoleStep(nd[i], ne[i]) /\ LogChange(i, nd[i], ne[i], M)
      /\ \A h \in out : Sent(i, nd[i], ne[i], h, M)
  BY Zenon DEF Step, LogStep
<1>5. g.from \in Server /\ g.to \in Server /\ g.term \in Nat
  BY <1>4, MessageKinds, Zenon
<1>6. \A j \in Server : /\ nd[j].currentTerm \in Nat /\ ne[j].currentTerm \in Nat
                        /\ ne[j].currentTerm >= nd[j].currentTerm /\ (j # i => ne[j] = nd[j])
                        /\ nd[j].log \in LogType /\ Flat(nd[j].log)
  BY StepTypes, SMTT(30)
<1>7. ne[g.from].currentTerm >= g.term
  <2>1. \/ ne[g.from].currentTerm > g.term
        \/ ne[g.from].currentTerm = g.term /\ ne[g.from].votedFor = g.to
    BY <1>4, Zenon DEF Backed
  <2> QED
    BY <1>5, <1>6, <2>1, SMTT(30)
<1>8. Acked(nd, M, g.from, k, t)
  <2>1. ne[g.from].currentTerm # t
    BY <1>5, <1>6, <1>7, SMTT(30)
  <2> QED
    BY <1>1, <1>5, <2>1, AckedBack, SMTT(30)
<1>9. CASE g \in M
  <2>1. nd[g.to].currentTerm >= g.term
    BY <1>9, Zenon DEF AsksOK
  <2>2. nd[g.to].currentTerm = g.term /\ ne[g.to].currentTerm = g.term /\ ne[g.to].role = "Candidate"
    BY <1>5, <1>6, <2>1, SMTT(30) DEF Candidate
  <2>3. nd[g.to].role = "Candidate" /\ ne[g.to].log = nd[g.to].log
    <3>1. CASE g.to # i
      BY <1>5, <1>6, <2>2, <3>1, Zenon
    <3>2. CASE g.to = i
      BY <1>4, <1>6, <2>2, <3>2, SMTT(30) DEF RoleStep, LogChange, Accepts
    <3> QED
      BY <3>1, <3>2, Zenon
  <2>4. Candidate(nd, g.to, g.term)
    BY <2>2, <2>3, Zenon DEF Candidate
  <2> QED
    BY <1>3, <1>8, <1>9, <2>3, <2>4, Zenon
<1>10. CASE g \in out
  <2>1. /\ g.from = i /\ g.term = ne[i].currentTerm /\ ne[i].log = nd[i].log
        /\ \E m \in M : /\ m.type = "VoteRequest" /\ m.from = g.to /\ m.term = g.term
                        /\ LogIsUpToDate(nd[i], m)
    BY <1>4, <1>10, Zenon DEF Sent
  <2>2. PICK m \in M : /\ m.type = "VoteRequest" /\ m.from = g.to /\ m.term = g.term
                       /\ LogIsUpToDate(nd[i], m)
    BY <2>1, Zenon
  <2>3. HasPoint(nd[i].log, k, t)
    BY <1>3, <1>4, <1>8, <2>1, Zenon
  <2>4. CASE g.to = i
    BY <2>1, <2>3, <2>4, Zenon
  <2>5. CASE g.to # i
    <3> DEFINE log == nd[g.to].log
               e == LastIndex(log)
    <3>1. ne[g.to] = nd[g.to] /\ Candidate(nd, g.to, g.term)
      BY <1>5, <1>6, <2>5, Zenon DEF Candidate
    <3>2. m.lastLogIndex = LastIndex(log) /\ m.lastLogTerm = LastTerm(log)
      BY <2>2, <3>1, Zenon DEF AsksOK
    <3>3. \/ LastTerm(log) > LastTerm(nd[i].log)
          \/ LastTerm(log) = LastTerm(nd[i].log) /\ e >= LastIndex(nd[i].log)
      BY <2>2, <3>2, Zenon DEF LogIsUpToDate
    <3>4. \A j \in Server : LinksOf(LogFragment(nd[j].log)) \subseteq Tree(nd, M)
      BY InTree, Zenon DEF LogLinks
    <3>5. /\ LastTerm(nd[i].log) \in Nat /\ LastIndex(nd[i].log) \in Nat
          /\ LastTerm(nd[i].log) >= t /\ LastIndex(nd[i].log) >= k
      BY <1>4, <1>6, <2>3, <3>4, PointBelowEnd, Zenon
    <3>6. /\ log \in LogType /\ Flat(log) /\ e \in Nat /\ e = EndOf(LogFragment(log))
          /\ LastTerm(log) = TermIn(LogFragment(log), e) /\ LogFragment(log) \in Fragment
          /\ LogFragment(log).base = 0 /\ LogFragment(log).before = 0
      BY <1>5, <1>6, FlatLog, Zenon
    <3>7. LastTerm(log) \in Nat
      <4>1. e \in LogFragment(log).base .. EndOf(LogFragment(log))
        BY <3>6, SMTT(30)
      <4> QED
        BY <3>6, <4>1, TermInType, Zenon
    <3>8. e # 0
      <4>1. e = 0 => LastTerm(log) = 0
        BY <3>6, Zenon DEF TermIn
      <4> HIDE DEF e, log
      <4> QED
        BY <3>3, <3>5, <3>6, <3>7, <4>1, SMTT(30)
    <3>9. Spans(LogFragment(log), e)
      BY <3>6, <3>8, SMTT(30) DEF Spans
    <3> HIDE DEF e
    <3>10. \/ TermIn(LogFragment(log), e) = t /\ k <= e
           \/ TermIn(LogFragment(log), e) > t /\ Covered(Tree(nd, M), k, t)
      BY <1>3, <3>3, <3>5, <3>6, <3>7, SMTT(30)
    <3>11. LinksOf(LogFragment(log)) \subseteq Tree(nd, M)
      BY <1>5, <3>4, Zenon
    <3> HIDE DEF log
    <3>12. HasPoint(log, k, t)
      BY <3>6, <3>9, <3>10, <3>11, HigherHasPoint, Zenon
    <3> QED
      BY <3>1, <3>12, Zenon DEF log
  <2> QED
    BY <2>4, <2>5, Zenon
<1> QED
  BY <1>4, <1>9, <1>10, Zenon

\* A point that stays in the tree stays in order.
LEMMA OldPoint ==
    ASSUME NatWellOrdered, MeetingQuorums, NEW nd, NEW M, NEW ne, NEW N, NEW i, NEW out, Step(nd, M, ne, N, i, out), LogCore(nd, M),
           AsksOK(nd, M), NEW x \in Tree(nd, M), x \in Tree(ne, N), NEW k \in Nat, NEW t \in Nat, k >= 1,
           x.index = k, x.entry.term = t, PointOK(nd, M, k, t)
    PROVE  PointOK(ne, N, k, t)
<1> SUFFICES ASSUME ~Blocked(ne, N, k, t) PROVE PointOK(ne, N, k, t)
  BY Zenon DEF PointOK
<1>1. PICK c \in Server : Elected(nd, M, c, t)
  BY Zenon DEF LogCore, Authored
<1>2. Covered(Tree(ne, N), k, t)
  BY <1>1, CoveredKept, Zenon
<1>3. ASSUME NEW s \in Server, Acked(ne, N, s, k, t) PROVE HasPoint(ne[s].log, k, t)
  BY <1>3, AckersHavePoint, Zenon
<1>4. ASSUME NEW g \in N, Grants(g), g.term > t, Acked(ne, N, g.from, k, t), Candidate(ne, g.to, g.term)
      PROVE  HasPoint(ne[g.to].log, k, t)
  BY <1>4, CandidatesHavePoint, Zenon
<1> QED
  BY <1>2, <1>3, <1>4, Zenon DEF PointOK

\* A leader's new entry: nobody but the leader has it, and if the group has moved on to
\* a later term already, it is blocked.
LEMMA NewPoint ==
    ASSUME MeetingQuorums, NEW nd, NEW M, NEW ne, NEW N, NEW i, NEW out, Step(nd, M, ne, N, i, out), LogCore(nd, M),
           NEW d, OwnAppend(nd[i], ne[i], d),
           Tree(ne, N) \subseteq Tree(nd, M) \cup {NewLink(nd[i], ne[i], d)},
           LogLinks(ne[i]) = LogLinks(nd[i]) \cup {NewLink(nd[i], ne[i], d)}
    PROVE  PointOK(ne, N, NewLink(nd[i], ne[i], d).index, NewLink(nd[i], ne[i], d).entry.term)
<1> DEFINE l == NewLink(nd[i], ne[i], d)
           k == l.index
           t == l.entry.term
<1>1. /\ i \in Server /\ Backed(nd, M) /\ Backed(ne, N) /\ N = M \cup out
      /\ nd \in [Server -> NodeType] /\ ne \in [Server -> NodeType]
      /\ M \in SUBSET Message /\ N \in SUBSET Message
      /\ \A h \in out : Sent(i, nd[i], ne[i], h, M)
  BY Zenon DEF Step, LogStep
<1>2. /\ k = LastIndex(nd[i].log) + 1 /\ t = ne[i].currentTerm
  BY Zenon DEF NewLink
<1>3. /\ Typed(nd, M) /\ Typed(ne, N)
      /\ \A j \in Server : /\ nd[j].currentTerm \in Nat /\ ne[j].currentTerm \in Nat
                           /\ ne[j].currentTerm >= nd[j].currentTerm
                           /\ nd[j].log \in LogType /\ Flat(nd[j].log)
                           /\ ne[j].log \in LogType /\ Flat(ne[j].log)
  BY StepTypes, Zenon
<1>4. k \in Nat /\ t \in Nat /\ LastIndex(nd[i].log) \in Nat
  BY <1>1, <1>2, <1>3, FlatLog, SMTT(30)
<1>5. ne[i].role = "Leader" /\ Leads(ne, i, t)
  BY <1>2, Zenon DEF OwnAppend, Leads
<1>6. Elected(ne, N, i, t)
  BY <1>1, <1>5, LeaderElected, Zenon
<1>7. l \in LogLinks(ne[i])
  BY Zenon
<1>8. Tree(ne, N) \subseteq Tree(nd, M) \cup {l}
  BY Zenon
<1> HIDE DEF l, k, t
<1>9. HasPoint(ne[i].log, k, t)
  BY <1>1, <1>3, <1>7, PointLink, Zenon DEF LogLinks, k, t
<1>10. ASSUME NEW m \in N, IsAck(m), m.term = t PROVE ~(m.matchIndex >= k)
  <2>1. CASE m \in out
    BY <1>1, <1>5, <1>10, <2>1, Zenon DEF Sent, Accepts
  <2>2. CASE m \in M
    <3>1. PICK c \in Server : Elected(nd, M, c, t)
      BY <1>10, <2>2, Zenon DEF LogCore, AcksOK
    <3>2. Leads(nd, i, t)
      BY <1>4, <1>5, <3>1, NewTerm, Zenon
    <3>3. HasPoint(nd[i].log, m.matchIndex, t)
      BY <1>1, <1>10, <2>2, <3>2, Zenon DEF LogCore, AcksOK
    <3>4. m.matchIndex \in Nat /\ m.matchIndex <= LastIndex(nd[i].log)
      BY <1>1, <1>3, <3>3, PointLink, Zenon
    <3> QED
      BY <1>2, <1>4, <3>4, SMTT(30)
  <2> QED
    BY <1>1, <2>1, <2>2, Zenon
<1>11. ASSUME NEW s \in Server, Acked(ne, N, s, k, t) PROVE s = i
  <2>1. Elected(ne, N, s, t)
    BY <1>10, <1>11, Zenon DEF Acked
  <2> QED
    BY <1>1, <1>6, <2>1, ElectedOnce, Zenon
<1>12. ASSUME NEW a \in Tree(ne, N), a.entry.term > t PROVE Blocked(ne, N, k, t)
  <2>1. a \in Tree(nd, M)
    <3>1. a # l
      BY <1>4, <1>12, SMTT(30) DEF t
    <3> QED
      BY <1>8, <3>1, Zenon
  <2> DEFINE u == a.entry.term
  <2>2. u \in Nat
    BY <1>3, <2>1, TreeType, Zenon
  <2>3. PICK c \in Server : Elected(nd, M, c, u)
    BY <2>1, Zenon DEF LogCore, Authored
  <2> DEFINE Q == Voters(M, c, u)
  <2>4. Q \in SUBSET Server /\ IsQuorum(Q)
    BY <2>3, Zenon DEF Voters, Elected
  <2>5. ASSUME NEW s \in Q PROVE ne[s].currentTerm > t /\ ~Acked(ne, N, s, k, t)
    <3>1. s \in Server /\ nd[s].currentTerm \in Nat /\ nd[s].currentTerm >= u
      BY <1>1, <2>2, <2>3, VoterTerms, Zenon
    <3>2. ne[s].currentTerm > t /\ ne[s].currentTerm # t
      BY <1>3, <1>4, <1>12, <2>2, <3>1, SMTT(30)
    <3>3. s # i
      BY <1>2, <3>2, Zenon
    <3> QED
      BY <1>11, <3>1, <3>2, <3>3, Zenon
  <2> HIDE DEF Q
  <2> QED
    BY <2>4, <2>5, Zenon DEF Blocked
<1>13. ASSUME NEW g \in N, Grants(g), g.term > t PROVE ~Acked(ne, N, g.from, k, t)
  <2>1. g.from \in Server /\ g.term \in Nat
    BY <1>1, MessageKinds, Zenon
  <2>2. \/ ne[g.from].currentTerm > g.term
        \/ ne[g.from].currentTerm = g.term /\ ne[g.from].votedFor = g.to
    BY <1>1, <1>13, Zenon DEF Backed
  <2>3. ne[g.from].currentTerm # t
    BY <1>3, <1>4, <1>13, <2>1, <2>2, SMTT(30)
  <2>4. g.from # i
    BY <1>2, <2>3, Zenon
  <2> QED
    BY <1>11, <2>1, <2>4, Zenon
<1>14. CASE Blocked(ne, N, k, t)
  BY <1>14, Zenon DEF PointOK, k, t, l
<1>15. CASE ~Blocked(ne, N, k, t)
  <2>1. Covered(Tree(ne, N), k, t)
    BY <1>12, <1>15, Zenon DEF Covered
  <2>2. \A s \in Server : Acked(ne, N, s, k, t) => HasPoint(ne[s].log, k, t)
    BY <1>9, <1>11, Zenon
  <2>3. PointOK(ne, N, k, t)
    BY <1>13, <2>1, <2>2, Zenon DEF PointOK
  <2> QED
    BY <2>3, Zenon DEF k, t, l
<1> QED
  BY <1>14, <1>15, Zenon

\* Points stay in order.
LEMMA PointsKept ==
    ASSUME NatWellOrdered, MeetingQuorums, NEW nd, NEW M, NEW ne, NEW N, NEW i, NEW out, Step(nd, M, ne, N, i, out), LogCore(nd, M),
           AsksOK(nd, M), PointsOK(nd, M)
    PROVE  PointsOK(ne, N)
<1> SUFFICES ASSUME NEW x \in Tree(ne, N) PROVE PointOK(ne, N, x.index, x.entry.term)
  BY Zenon DEF PointsOK
<1>1. CASE x \in Tree(nd, M)
  <2>1. x.index \in Nat /\ x.index >= 1 /\ x.entry.term \in Nat
    BY <1>1, StepTypes, TreeType, SMTT(30)
  <2>2. PointOK(nd, M, x.index, x.entry.term)
    BY <1>1, Zenon DEF PointsOK
  <2> QED
    BY <1>1, <2>1, <2>2, OldPoint, SMTT(30)
<1>2. CASE x \notin Tree(nd, M)
  <2>1. PICK d : /\ OwnAppend(nd[i], ne[i], d)
                 /\ LogLinks(ne[i]) = LogLinks(nd[i]) \cup {NewLink(nd[i], ne[i], d)}
                 /\ Tree(ne, N) \subseteq Tree(nd, M) \cup {NewLink(nd[i], ne[i], d)}
    BY <1>2, TreeGrows, Zenon
  <2>2. x = NewLink(nd[i], ne[i], d)
    BY <1>2, <2>1, Zenon
  <2>3. PointOK(ne, N, NewLink(nd[i], ne[i], d).index, NewLink(nd[i], ne[i], d).entry.term)
    BY <2>1, NewPoint, Zenon
  <2> QED
    BY <2>2, <2>3, Zenon
<1> QED
  BY <1>1, <1>2, Zenon

\* Candidates stay truthful.
LEMMA AsksKept ==
    ASSUME NEW nd, NEW M, NEW ne, NEW N, NEW i, NEW out, Step(nd, M, ne, N, i, out), LogCore(nd, M),
           AsksOK(nd, M)
    PROVE  AsksOK(ne, N)
<1>1. /\ i \in Server /\ N = M \cup out /\ N \in SUBSET Message
      /\ RoleStep(nd[i], ne[i]) /\ LogChange(i, nd[i], ne[i], M)
      /\ \A h \in out : Sent(i, nd[i], ne[i], h, M)
  BY Zenon DEF Step, LogStep
<1>2. \A j \in Server : /\ nd[j].currentTerm \in Nat /\ ne[j].currentTerm \in Nat
                        /\ ne[j].currentTerm >= nd[j].currentTerm /\ (j # i => ne[j] = nd[j])
  BY StepTypes, SMTT(30)
<1>3. \A m \in N : m.from \in Server /\ m.to \in Server /\ m.term \in Nat
  BY <1>1, MessageKinds, Zenon
<1>4. ASSUME NEW m \in N, m.type = "VoteRequest"
      PROVE  /\ ne[m.from].currentTerm >= m.term
             /\ Candidate(ne, m.from, m.term) =>
                   /\ m.lastLogIndex = LastIndex(ne[m.from].log)
                   /\ m.lastLogTerm = LastTerm(ne[m.from].log)
  <2>1. CASE m \in out
    <3>1. /\ m.from = i /\ m.term = ne[i].currentTerm
          /\ m.lastLogIndex = LastIndex(ne[i].log) /\ m.lastLogTerm = LastTerm(ne[i].log)
      BY <1>1, <1>4, <2>1, Zenon DEF Sent
    <3> QED
      BY <1>1, <1>2, <3>1, SMTT(30)
  <2>2. CASE m \in M
    <3>1. /\ nd[m.from].currentTerm >= m.term
          /\ Candidate(nd, m.from, m.term) =>
                /\ m.lastLogIndex = LastIndex(nd[m.from].log)
                /\ m.lastLogTerm = LastTerm(nd[m.from].log)
      BY <1>4, <2>2, Zenon DEF AsksOK
    <3>2. ne[m.from].currentTerm >= m.term
      BY <1>2, <1>3, <3>1, SMTT(30)
    <3>3. ASSUME Candidate(ne, m.from, m.term)
          PROVE  Candidate(nd, m.from, m.term) /\ ne[m.from].log = nd[m.from].log
      <4>1. /\ nd[m.from].currentTerm = m.term /\ ne[m.from].currentTerm = m.term
            /\ ne[m.from].role = "Candidate"
        BY <1>2, <1>3, <3>1, <3>3, SMTT(30) DEF Candidate
      <4>2. CASE m.from # i
        BY <1>2, <1>3, <3>3, <4>2, Zenon DEF Candidate
      <4>3. CASE m.from = i
        BY <1>1, <1>2, <4>1, <4>3, SMTT(30) DEF RoleStep, LogChange, Accepts, Candidate
      <4> QED
        BY <4>2, <4>3, Zenon
    <3> QED
      BY <3>1, <3>2, <3>3, Zenon
  <2> QED
    BY <1>1, <2>1, <2>2, Zenon
<1>5. ASSUME NEW g \in N, Grants(g) PROVE ne[g.to].currentTerm >= g.term
  <2>1. CASE g \in M
    <3>1. nd[g.to].currentTerm >= g.term
      BY <1>5, <2>1, Zenon DEF AsksOK
    <3> QED
      BY <1>2, <1>3, <3>1, SMTT(30)
  <2>2. CASE g \in out
    <3>1. PICK m \in M : m.type = "VoteRequest" /\ m.from = g.to /\ m.term = g.term
      BY <1>1, <1>5, <2>2, Zenon DEF Sent
    <3>2. nd[m.from].currentTerm >= m.term
      BY <3>1, Zenon DEF AsksOK
    <3> QED
      BY <1>2, <1>3, <3>1, <3>2, SMTT(30)
  <2> QED
    BY <1>1, <2>1, <2>2, Zenon
<1> QED
  BY <1>4, <1>5, Zenon DEF AsksOK

-----------------------------------------------------------------------------
(* What is committed.                                                       *)

\* A point of the tree that a quorum has acknowledged.
Chosen(nd, M, k, t) ==
    /\ \E x \in Tree(nd, M) : x.index = k /\ x.entry.term = t
    /\ \E Q \in SUBSET Server : IsQuorum(Q) /\ \A s \in Q : Acked(nd, M, s, k, t)

\* A server commits nothing above a chosen point it has.
CommitsChosen(nd, M, i) ==
    \/ nd[i].commitIndex = 0
    \/ \E k, t \in Nat : /\ k >= nd[i].commitIndex /\ Chosen(nd, M, k, t)
                         /\ HasPoint(nd[i].log, k, t)

\* A request offers nothing above a chosen point that who accepts it then has.
OffersChosen(nd, M, m) ==
    \/ m.leaderCommit = 0
    \/ \E k, t \in Nat : /\ k >= m.leaderCommit /\ Chosen(nd, M, k, t)
                         /\ \/ t < m.term
                            \/ t = m.term /\ k <= EndOf(RequestFragment(m))

\* The inductive invariant of nodes and messages.
CommitCore(nd, M) ==
    /\ AsksOK(nd, M) /\ PointsOK(nd, M)
    /\ \A i \in Server : CommitsChosen(nd, M, i)
    /\ \A m \in Requests(M) : OffersChosen(nd, M, m)

\* A chosen point is not blocked.
LEMMA ChosenPoint ==
    ASSUME MeetingQuorums, NEW nd, NEW M, Typed(nd, M), PointsOK(nd, M), NEW k, NEW t, Chosen(nd, M, k, t)
    PROVE  /\ k \in Nat /\ k >= 1 /\ t \in Nat /\ ~Blocked(nd, M, k, t) /\ PointOK(nd, M, k, t)
           /\ Covered(Tree(nd, M), k, t)
           /\ \A s \in Server : Acked(nd, M, s, k, t) => HasPoint(nd[s].log, k, t)
<1>1. PICK x \in Tree(nd, M) : x.index = k /\ x.entry.term = t
  BY Zenon DEF Chosen
<1>2. PICK Q \in SUBSET Server : IsQuorum(Q) /\ \A s \in Q : Acked(nd, M, s, k, t)
  BY Zenon DEF Chosen
<1>3. ~Blocked(nd, M, k, t)
  <2> SUFFICES ASSUME NEW R \in SUBSET Server, IsQuorum(R),
                      \A s \in R : nd[s].currentTerm > t /\ ~Acked(nd, M, s, k, t)
               PROVE  FALSE
    BY Zenon DEF Blocked
  <2>1. Q \cap R # {}
    BY <1>2, Zenon DEF MeetingQuorums
  <2> QED
    BY <1>2, <2>1, Zenon
<1>4. PointOK(nd, M, k, t)
  BY <1>1, Zenon DEF PointsOK
<1>5. k \in Nat /\ k >= 1 /\ t \in Nat
  BY <1>1, TreeType, Zenon
<1> QED
  BY <1>3, <1>4, <1>5, Zenon DEF PointOK

\* What is chosen stays chosen.
LEMMA ChosenKept ==
    ASSUME NatWellOrdered, MeetingQuorums, NEW nd, NEW M, NEW ne, NEW N, NEW i, NEW out, Step(nd, M, ne, N, i, out), LogCore(nd, M),
           PointsOK(nd, M), NEW k, NEW t, Chosen(nd, M, k, t)
    PROVE  Chosen(ne, N, k, t)
<1>1. PICK Q \in SUBSET Server : IsQuorum(Q) /\ \A s \in Q : Acked(nd, M, s, k, t)
  BY Zenon DEF Chosen
<1>2. Typed(nd, M) /\ Typed(ne, N)
  BY StepTypes, Zenon
<1>3. /\ t \in Nat /\ Covered(Tree(nd, M), k, t)
      /\ \A s \in Server : Acked(nd, M, s, k, t) => HasPoint(nd[s].log, k, t)
  BY <1>2, ChosenPoint, Zenon
<1>4. \A s \in Q : Acked(ne, N, s, k, t)
  BY <1>1, <1>3, AckedKept, Zenon
<1>5. PICK s \in Server : s \in Q
  BY <1>1, Zenon DEF MeetingQuorums
<1>6. HasPoint(ne[s].log, k, t)
  BY <1>1, <1>3, <1>5, PointKept, Zenon
<1> DEFINE a == LinkAt(LogFragment(ne[s].log), k)
<1>7. a \in LogLinks(ne[s]) /\ a.index = k /\ a.entry.term = t
  <2>1. ne[s].log \in LogType /\ Flat(ne[s].log)
    BY StepTypes, Zenon
  <2> QED
    BY <1>6, <2>1, PointLink, SMTT(30) DEF LogLinks
<1> HIDE DEF a
<1>8. a \in Tree(ne, N)
  BY <1>7, InTree, Zenon
<1> QED
  BY <1>1, <1>4, <1>7, <1>8, Zenon DEF Chosen

\* A chosen point is in every log that reaches it: one with an entry of a later term, or
\* with one of its term that is not below it.
LEMMA ChosenIsIn ==
    ASSUME NatWellOrdered, MeetingQuorums, NEW nd, NEW M, Typed(nd, M), LogCore(nd, M), PointsOK(nd, M), NEW k, NEW t, Chosen(nd, M, k, t),
           NEW log \in LogType, Flat(log), LinksOf(LogFragment(log)) \subseteq Tree(nd, M),
           NEW e \in Nat, NEW u \in Nat, HasPoint(log, e, u), u > t \/ (u = t /\ e >= k)
    PROVE  HasPoint(log, k, t)
<1>1. PICK x \in Tree(nd, M) : x.index = k /\ x.entry.term = t
  BY Zenon DEF Chosen
<1>2. k \in Nat /\ k >= 1 /\ t \in Nat /\ Covered(Tree(nd, M), k, t)
  BY ChosenPoint, Zenon
<1>3. Spans(LogFragment(log), e) /\ TermIn(LogFragment(log), e) = u
  BY PointLink, Zenon
<1>4. \/ TermIn(LogFragment(log), e) = t /\ k <= e
      \/ TermIn(LogFragment(log), e) > t /\ Covered(Tree(nd, M), k, t)
  BY <1>2, <1>3, Zenon
<1> QED
  BY <1>1, <1>2, <1>3, <1>4, HigherHasPoint, Zenon

\* A leader that advances its commit_index does so to a chosen point.
LEMMA LeaderCommitsChosen ==
    ASSUME NEW nd, NEW M, NEW ne, NEW N, NEW i, NEW out, Step(nd, M, ne, N, i, out), LogCore(nd, M),
           NEW c \in Nat, LeaderCommits(c, ne[i])
    PROVE  CommitsChosen(ne, N, i)
<1> DEFINE p == ne[i]
           k == p.commitIndex
           t == p.currentTerm
           Q == {s \in Server : p.matchIndex[s] >= k}
<1>1. /\ p.role = "Leader" /\ k > c /\ k <= LastIndex(p.log) /\ TermAt(p.log, k) = t /\ IsQuorum(Q)
  BY Zenon DEF LeaderCommits
<1>2. /\ i \in Server /\ p \in NodeType /\ p.log \in LogType /\ Flat(p.log) /\ M \subseteq N
  BY StepTypes, Zenon
<1>3. k \in Nat /\ t \in Nat /\ p.matchIndex \in [Server -> Nat]
  BY <1>2, Zenon DEF NodeType
<1>4. LastIndex(p.log) = Len(p.log.entries) /\ Len(p.log.entries) \in Nat
  BY <1>2, FlatLog, Zenon
<1>5. k \in 1 .. Len(p.log.entries) /\ k \in 0 .. Len(p.log.entries)
  BY <1>1, <1>3, <1>4, SMTT(30)
<1>6. HasPoint(p.log, k, t)
  BY <1>1, <1>2, <1>5, FlatLog, Zenon DEF HasPoint
<1>7. Elected(ne, N, i, t)
  <2>1. ne \in [Server -> NodeType] /\ Backed(ne, N)
    BY Zenon DEF Step
  <2> QED
    BY <1>1, <1>2, <2>1, LeaderElected, Zenon DEF Leads
<1>8. IndicesOK(i, p, M)
  BY <1>1, Zenon DEF Step, LogStep, LeaderOK
<1>9. ASSUME NEW s \in Q PROVE Acked(ne, N, s, k, t)
  <2>1. s \in Server /\ p.matchIndex[s] >= k /\ p.matchIndex[s] # 0
    BY <1>3, <1>5, SMTT(30)
  <2>2. CASE s = i
    BY <1>7, <2>2, Zenon DEF Acked
  <2>3. CASE s # i
    <3>1. PICK m \in M : IsAck(m) /\ m.from = s /\ m.term = t /\ m.matchIndex = p.matchIndex[s]
      BY <1>8, <2>1, <2>3, Zenon DEF IndicesOK
    <3>2. m \in N
      BY <1>2, <3>1, Zenon
    <3> QED
      BY <2>1, <3>1, <3>2, Zenon DEF Acked
  <2> QED
    BY <2>2, <2>3, Zenon
<1> DEFINE a == LinkAt(LogFragment(p.log), k)
<1>10. a \in LogLinks(p) /\ a.index = k /\ a.entry.term = t
  BY <1>2, <1>6, PointLink, SMTT(30) DEF LogLinks
<1> HIDE DEF a, Q
<1>11. a \in Tree(ne, N)
  BY <1>2, <1>10, InTree, Zenon
<1>12. Q \in SUBSET Server
  BY Zenon DEF Q
<1>13. Chosen(ne, N, k, t)
  BY <1>1, <1>9, <1>10, <1>11, <1>12, Zenon DEF Chosen
<1>14. k >= k
  BY <1>3, SMTT(30)
<1> QED
  BY <1>3, <1>6, <1>13, <1>14, Zenon DEF CommitsChosen

\* A follower that takes over the leader's commit_index has the chosen point above it.
LEMMA FollowerCommitsChosen ==
    ASSUME NatWellOrdered, MeetingQuorums, NEW nd, NEW M, NEW ne, NEW N, NEW i, NEW out, Step(nd, M, ne, N, i, out), LogCore(nd, M),
           CommitCore(nd, M), NEW m \in M, Accepts(i, nd[i], ne[i], m), m.leaderCommit > nd[i].commitIndex,
           ne[i].commitIndex = Min({m.leaderCommit, LastIndex(ne[i].log)})
    PROVE  CommitsChosen(ne, N, i)
<1> DEFINE p == ne[i]
           f == RequestFragment(m)
           e == EndOf(f)
<1>1. /\ m.type = "AppendRequest" /\ m.term = p.currentTerm /\ Mergeable(nd[i].log, f)
      /\ p.log = Merged(nd[i].log, f) /\ p.role = "Follower" /\ m \in Requests(M)
  BY Zenon DEF Accepts, Requests
<1>2. /\ i \in Server /\ p.log \in LogType /\ Flat(p.log) /\ Typed(nd, M) /\ p.currentTerm \in Nat
      /\ nd[i] \in NodeType /\ p \in NodeType
  BY StepTypes, SMTT(30)
<1>3. M \subseteq Message /\ PointsOK(nd, M) /\ OffersChosen(nd, M, m)
  BY <1>1, Zenon DEF Step, CommitCore
<1>4. f \in Fragment /\ m \in AppendRequest
  BY <1>1, <1>3, RequestType, Zenon
<1>5. m.leaderCommit \in Nat /\ nd[i].commitIndex \in Nat /\ p.commitIndex \in Nat
  BY <1>2, <1>4, Zenon DEF AppendRequest, NodeType
<1>6. PICK k, t \in Nat : /\ k >= m.leaderCommit /\ Chosen(nd, M, k, t)
                          /\ \/ t < m.term
                             \/ t = m.term /\ k <= e
  BY <1>3, <1>5, SMTT(30) DEF OffersChosen
<1>7. /\ e <= LastIndex(p.log) /\ TermIn(LogFragment(p.log), e) = p.currentTerm /\ e >= 1 /\ e \in Nat
  <2>1. e >= 1 /\ TermIn(f, e) = m.term
    BY <1>1, Zenon DEF LogCore, RequestsOK
  <2>2. e <= LastIndex(p.log) /\ TermIn(LogFragment(p.log), e) = TermIn(f, e)
    BY <1>1, MergeLinks, Zenon
  <2>3. e \in Nat
    BY <1>4, FragmentType, Zenon
  <2> QED
    BY <1>1, <2>1, <2>2, <2>3, Zenon
<1> HIDE DEF f, e
<1>8. HasPoint(p.log, e, p.currentTerm)
  <2>1. EndOf(LogFragment(p.log)) = LastIndex(p.log) /\ LogFragment(p.log).base = 0
    BY <1>2, FlatLog, Zenon
  <2>2. LastIndex(p.log) \in Nat
    BY <1>2, FlatLog, Zenon
  <2>3. Spans(LogFragment(p.log), e)
    BY <1>7, <2>1, <2>2, SMTT(30) DEF Spans
  <2> QED
    BY <1>2, <1>7, <2>3, PointLink, SMTT(30)
<1>9. LinksOf(LogFragment(p.log)) \subseteq Tree(nd, M)
  <2>1. Tree(ne, N) \subseteq Tree(nd, M)
    BY <1>1, TreeGrows, Zenon DEF OwnAppend
  <2>2. LogLinks(p) \subseteq Tree(ne, N)
    BY <1>2, InTree, Zenon
  <2> QED
    BY <2>1, <2>2, Zenon DEF LogLinks
<1>10. HasPoint(p.log, k, t)
  <2>1. p.currentTerm > t \/ (p.currentTerm = t /\ e >= k)
    BY <1>1, <1>2, <1>6, <1>7, Zenon
  <2> QED
    BY <1>2, <1>3, <1>6, <1>7, <1>8, <1>9, <2>1, ChosenIsIn, Zenon
<1>11. Chosen(ne, N, k, t)
  BY <1>3, <1>6, ChosenKept, Zenon
<1>12. k >= p.commitIndex
  <2>1. LastIndex(p.log) \in Nat
    BY <1>2, FlatLog, Zenon
  <2>2. Min({m.leaderCommit, LastIndex(p.log)}) <= m.leaderCommit
    BY <1>5, <2>1, MinPair, SMTT(30)
  <2> QED
    BY <1>5, <1>6, <2>2, SMTT(30)
<1> QED
  BY <1>10, <1>11, <1>12, Zenon DEF CommitsChosen

\* Committed entries are kept.
LEMMA CommittedKept ==
    ASSUME NatWellOrdered, MeetingQuorums, NEW nd, NEW M, NEW ne, NEW N, NEW i, NEW out, Step(nd, M, ne, N, i, out), LogCore(nd, M),
           CommitCore(nd, M), NEW j \in Server
    PROVE  /\ nd[j].commitIndex <= LastIndex(nd[j].log) /\ nd[j].commitIndex <= LastIndex(ne[j].log)
           /\ \A h \in 1 .. nd[j].commitIndex : ne[j].log.entries[h] = nd[j].log.entries[h]
           /\ nd[j].commitIndex # 0 =>
                 \E k, t \in Nat : /\ k >= nd[j].commitIndex /\ Chosen(ne, N, k, t)
                                   /\ HasPoint(ne[j].log, k, t)
<1>1. /\ Typed(nd, M) /\ nd[j].commitIndex \in Nat /\ PointsOK(nd, M) /\ CommitsChosen(nd, M, j)
      /\ nd[j].log \in LogType /\ Flat(nd[j].log) /\ ne[j].log \in LogType /\ Flat(ne[j].log)
  BY StepTypes, SMTT(30) DEF CommitCore, NodeType
<1>2. LastIndex(nd[j].log) \in Nat /\ LastIndex(ne[j].log) \in Nat
  BY <1>1, FlatLog, Zenon
<1>3. CASE nd[j].commitIndex = 0
  BY <1>2, <1>3, SMTT(30)
<1>4. CASE nd[j].commitIndex # 0
  <2>1. PICK k, t \in Nat : /\ k >= nd[j].commitIndex /\ Chosen(nd, M, k, t)
                            /\ HasPoint(nd[j].log, k, t)
    BY <1>1, <1>4, Zenon DEF CommitsChosen
  <2>2. Covered(Tree(nd, M), k, t)
    BY <1>1, <2>1, ChosenPoint, Zenon
  <2>3. /\ HasPoint(ne[j].log, k, t) /\ k <= LastIndex(ne[j].log)
        /\ \A h \in 1 .. k : ne[j].log.entries[h] = nd[j].log.entries[h]
    BY <2>1, <2>2, PointKept, SMTT(30)
  <2>4. Chosen(ne, N, k, t)
    BY <1>1, <2>1, ChosenKept, Zenon
  <2>5. k <= LastIndex(nd[j].log)
    BY <1>1, <2>1, PointLink, Zenon
  <2>6. \A h \in 1 .. nd[j].commitIndex : h \in 1 .. k
    BY <1>1, <2>1, SMTT(30)
  <2> QED
    BY <1>1, <1>2, <2>1, <2>3, <2>4, <2>5, <2>6, SMTT(30)
<1> QED
  BY <1>3, <1>4, Zenon

\* Every server still commits what is chosen.
LEMMA CommitsKept ==
    ASSUME NatWellOrdered, MeetingQuorums, NEW nd, NEW M, NEW ne, NEW N, NEW i, NEW out, Step(nd, M, ne, N, i, out), LogCore(nd, M),
           CommitCore(nd, M), CommitStep(i, nd[i], ne[i], M), NEW j \in Server
    PROVE  CommitsChosen(ne, N, j)
<1>0. nd[j] \in NodeType /\ (j # i => ne[j] = nd[j])
  BY StepTypes, SMTT(30)
<1>1. nd[j].commitIndex \in Nat /\ (j # i => ne[j] = nd[j])
  BY <1>0, Zenon DEF NodeType
<1>2. CASE ne[j].commitIndex = nd[j].commitIndex
  BY <1>2, CommittedKept, SMTT(30) DEF CommitsChosen
<1>3. CASE ne[j].commitIndex # nd[j].commitIndex
  <2>1. j = i
    BY <1>1, <1>3, Zenon
  <2>2. CASE LeaderCommits(nd[i].commitIndex, ne[i])
    BY <1>1, <2>1, <2>2, LeaderCommitsChosen, Zenon
  <2>3. ASSUME NEW m \in M, Accepts(i, nd[i], ne[i], m), m.leaderCommit > nd[i].commitIndex,
               ne[i].commitIndex = Min({m.leaderCommit, LastIndex(ne[i].log)})
        PROVE  CommitsChosen(ne, N, i)
    BY <2>3, FollowerCommitsChosen, Zenon
  <2> QED
    BY <1>3, <2>1, <2>2, <2>3, Zenon DEF CommitStep
<1> QED
  BY <1>2, <1>3, Zenon

\* Requests still offer what is chosen.
LEMMA OffersKept ==
    ASSUME NatWellOrdered, MeetingQuorums, NEW nd, NEW M, NEW ne, NEW N, NEW i, NEW out, Step(nd, M, ne, N, i, out), LogCore(nd, M),
           CommitCore(nd, M), CommitsChosen(ne, N, i), NEW m \in Requests(N)
    PROVE  OffersChosen(ne, N, m)
<1>1. m \in N /\ m.type = "AppendRequest" /\ N = M \cup out /\ m \in Message
      /\ (m \in out => Sent(i, nd[i], ne[i], m, M)) /\ PointsOK(nd, M)
  BY Zenon DEF Requests, Step, LogStep, CommitCore
<1>2. CASE m \in M
  <2>1. OffersChosen(nd, M, m)
    BY <1>1, <1>2, Zenon DEF CommitCore, Requests
  <2>2. ASSUME NEW k \in Nat, NEW t \in Nat, Chosen(nd, M, k, t) PROVE Chosen(ne, N, k, t)
    BY <1>1, <2>2, ChosenKept, Zenon
  <2> QED
    BY <2>1, <2>2, Zenon DEF OffersChosen
<1>3. CASE m \in out
  <2> DEFINE p == ne[i]
             f == RequestFragment(m)
  <2>1. m.term = p.currentTerm /\ PieceOf(m, p.log) /\ m.leaderCommit <= p.commitIndex
    BY <1>1, <1>3, Zenon DEF Sent, AppendSent
  <2>2. i \in Server /\ p.log \in LogType /\ Flat(p.log) /\ p.currentTerm \in Nat /\ p \in NodeType
    BY StepTypes, SMTT(30)
  <2>3. m \in AppendRequest /\ m.leaderCommit \in Nat /\ p.commitIndex \in Nat
    BY <1>1, <2>2, RequestType, Zenon DEF AppendRequest, NodeType
  <2>4. EndOf(f) = LastIndex(p.log)
    BY <2>1, <2>2, <2>3, PieceLinks, Zenon
  <2>5. CASE p.commitIndex = 0
    BY <2>1, <2>3, <2>5, SMTT(30) DEF OffersChosen
  <2>6. CASE p.commitIndex # 0
    <3>1. PICK k, t \in Nat : k >= p.commitIndex /\ Chosen(ne, N, k, t) /\ HasPoint(p.log, k, t)
      BY <2>6, Zenon DEF CommitsChosen
    <3>2. /\ k <= LastIndex(p.log) /\ LinkAt(LogFragment(p.log), k) \in LogLinks(p)
          /\ LinkAt(LogFragment(p.log), k).entry.term = t
      BY <2>2, <3>1, PointLink, SMTT(30) DEF LogLinks
    <3>3. TermsBelow(p)
      BY <2>2, ShapeKept, Zenon
    <3>4. t <= p.currentTerm
      BY <3>2, <3>3, Zenon DEF TermsBelow
    <3>5. t < m.term \/ (t = m.term /\ k <= EndOf(f))
      BY <2>1, <2>2, <2>4, <3>2, <3>4, SMTT(30)
    <3>6. k >= m.leaderCommit
      BY <2>1, <2>3, <3>1, SMTT(30)
    <3> QED
      BY <3>1, <3>5, <3>6, Zenon DEF OffersChosen
  <2> QED
    BY <2>5, <2>6, Zenon
<1> QED
  BY <1>1, <1>2, <1>3, Zenon

\* A step keeps CommitCore, and no commit_index falls.
LEMMA CommitCoreKept ==
    ASSUME NatWellOrdered, MeetingQuorums, NEW nd, NEW M, NEW ne, NEW N, NEW i, NEW out, Step(nd, M, ne, N, i, out), LogCore(nd, M),
           CommitCore(nd, M), CommitStep(i, nd[i], ne[i], M)
    PROVE  /\ CommitCore(ne, N)
           /\ \A j \in Server : /\ nd[j].commitIndex <= ne[j].commitIndex
                                /\ ne[j].commitIndex <= LastIndex(ne[j].log)
<1>1. AsksOK(nd, M) /\ PointsOK(nd, M) /\ i \in Server
  BY Zenon DEF CommitCore, Step
<1>2. AsksOK(ne, N) /\ PointsOK(ne, N)
  BY <1>1, AsksKept, PointsKept, Zenon
<1>3. \A j \in Server : CommitsChosen(ne, N, j)
  BY CommitsKept, Zenon
<1>4. \A m \in Requests(N) : OffersChosen(ne, N, m)
  BY <1>1, <1>3, OffersKept, Zenon
<1>5. CommitCore(ne, N)
  BY <1>2, <1>3, <1>4, Zenon DEF CommitCore
<1>6. ASSUME NEW j \in Server
      PROVE  nd[j].commitIndex <= ne[j].commitIndex /\ ne[j].commitIndex <= LastIndex(ne[j].log)
  <2>0. /\ nd[j] \in NodeType /\ ne[j] \in NodeType /\ (j # i => ne[j] = nd[j])
        /\ ne[j].log \in LogType /\ Flat(ne[j].log)
    BY StepTypes, SMTT(30)
  <2>1. /\ nd[j].commitIndex \in Nat /\ ne[j].commitIndex \in Nat /\ (j # i => ne[j] = nd[j])
        /\ ne[j].log \in LogType /\ Flat(ne[j].log)
    BY <2>0, Zenon DEF NodeType
  <2>2. LastIndex(ne[j].log) \in Nat
    BY <2>1, FlatLog, Zenon
  <2>3. ne[j].commitIndex <= LastIndex(ne[j].log)
    <3>1. CASE ne[j].commitIndex = 0
      BY <2>2, <3>1, SMTT(30)
    <3>2. CASE ne[j].commitIndex # 0
      <4>1. PICK k, t \in Nat : k >= ne[j].commitIndex /\ HasPoint(ne[j].log, k, t)
        BY <1>3, <3>2, Zenon DEF CommitsChosen
      <4>2. k <= LastIndex(ne[j].log)
        BY <2>1, <4>1, PointLink, Zenon
      <4> QED
        BY <2>1, <2>2, <4>1, <4>2, SMTT(30)
    <3> QED
      BY <3>1, <3>2, Zenon
  <2>4. nd[j].commitIndex <= ne[j].commitIndex
    <3>1. nd[j].commitIndex <= LastIndex(ne[j].log)
      BY CommittedKept, Zenon
    <3>2. CASE ne[j].commitIndex = nd[j].commitIndex
      BY <2>1, <3>2, SMTT(30)
    <3>3. CASE ne[j].commitIndex # nd[j].commitIndex
      <4>1. j = i
        BY <2>1, <3>3, Zenon
      <4>2. CASE LeaderCommits(nd[i].commitIndex, ne[i])
        BY <2>1, <4>1, <4>2, SMTT(30) DEF LeaderCommits
      <4>3. ASSUME NEW m \in M, Accepts(i, nd[i], ne[i], m), m.leaderCommit > nd[i].commitIndex,
                   ne[i].commitIndex = Min({m.leaderCommit, LastIndex(ne[i].log)})
            PROVE  nd[i].commitIndex <= ne[i].commitIndex
        <5>1. m \in Message /\ m.type = "AppendRequest"
          BY <4>3, Zenon DEF Accepts, Step
        <5>2. m.leaderCommit \in Nat
          BY <5>1, RequestType, Zenon DEF AppendRequest
        <5>3. Min({m.leaderCommit, LastIndex(ne[i].log)}) \in {m.leaderCommit, LastIndex(ne[i].log)}
          BY <2>2, <4>1, <5>2, MinPair, SMTT(30)
        <5> QED
          BY <2>1, <2>2, <3>1, <4>1, <4>3, <5>2, <5>3, SMTT(30)
      <4> QED
        BY <3>3, <4>1, <4>2, <4>3, Zenon DEF CommitStep
    <3> QED
      BY <3>2, <3>3, Zenon
  <2> QED
    BY <2>3, <2>4, Zenon
<1> QED
  BY <1>5, <1>6, Zenon

\* Two logs of which one has a point the other has agree up to it.
LEMMA PointsAgree ==
    ASSUME NatWellOrdered, NEW nd, NEW M, LogCore(nd, M), Typed(nd, M), NEW i \in Server, NEW j \in Server,
           NEW k, NEW t, HasPoint(nd[i].log, k, t), HasPoint(nd[j].log, k, t)
    PROVE  /\ k \in Nat /\ k >= 1 /\ k <= LastIndex(nd[i].log) /\ k <= LastIndex(nd[j].log)
           /\ \A h \in 1 .. k : nd[i].log.entries[h] = nd[j].log.entries[h]
<1> DEFINE f == LogFragment(nd[i].log)
           g == LogFragment(nd[j].log)
<1>1. \A s \in Server : nd[s].log \in LogType /\ Flat(nd[s].log)
  BY Zenon DEF Typed, NodeType
<1>2. /\ f \in Fragment /\ f.base = 0 /\ f.entries = nd[i].log.entries
      /\ g \in Fragment /\ g.base = 0 /\ g.entries = nd[j].log.entries
  BY <1>1, FlatLog, Zenon
<1>3. /\ k \in Nat /\ k >= 1 /\ Spans(f, k) /\ Spans(g, k) /\ TermIn(f, k) = t /\ TermIn(g, k) = t
      /\ k <= LastIndex(nd[i].log) /\ k <= LastIndex(nd[j].log)
  BY <1>1, PointLink, SMTT(30)
<1>4. LinksOf(f) \subseteq Tree(nd, M) /\ LinksOf(g) \subseteq Tree(nd, M) /\ UniqueIn(Tree(nd, M))
  BY InTree, Zenon DEF LogLinks, LogCore
<1> HIDE DEF f, g
<1>5. \A h \in Nat : h > f.base /\ h > g.base /\ h <= k => f.entries[h - f.base] = g.entries[h - g.base]
  BY <1>2, <1>3, <1>4, Agree, SMTT(30)
<1>6. ASSUME NEW h \in 1 .. k PROVE nd[i].log.entries[h] = nd[j].log.entries[h]
  <2>1. h \in Nat /\ h > 0 /\ h <= k /\ h - 0 = h
    BY <1>3, SMTT(30)
  <2> QED
    BY <1>2, <1>5, <2>1, Zenon
<1> QED
  BY <1>3, <1>6, Zenon

=============================================================================
