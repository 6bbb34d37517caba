----------------------------- MODULE RaftSteps ------------------------------
(***************************************************************************)
(* What a server may do in one step to its log and to what others hear of  *)
(* it.  RaftHandlerProofs shows that every handler keeps to LogStep,       *)
(* RaftTreeProofs what follows for the logs of a group, and neither needs  *)
(* the other.                                                              *)
(*                                                                         *)
(* A fragment is a piece of a log: entries behind an index, and the term   *)
(* at that index.  A link is an entry with its index and the term of the   *)
(* entry before it.                                                        *)
(***************************************************************************)
EXTENDS RaftNode, TLAPS

-----------------------------------------------------------------------------
(* Numbers and sequences.                                                   *)

\* That the naturals are well-ordered is a hypothesis of the lemmas that need it.  The modules
\* of the theorems prove it, from WellFoundedInduction; kept out of the lemmas, that module does
\* not weigh on every step of theirs.
NatWellOrdered == \A S \in SUBSET Nat : S # {} => \E x \in S : \A y \in S : x <= y

\* The two-element case, as the code's max() and min() of two values.
LEMMA MaxPair ==
    ASSUME NEW a \in Int, NEW b \in Int
    PROVE  Max({a, b}) = IF a >= b THEN a ELSE b
BY SMTT(30) DEF Max

\* The smaller of two integers.
LEMMA MinPair ==
    ASSUME NEW a \in Int, NEW b \in Int
    PROVE  Min({a, b}) = IF a <= b THEN a ELSE b
BY SMTT(30) DEF Min

\* Every non-empty set of naturals has a smallest element.
LEMMA MinNat ==
    ASSUME NatWellOrdered, NEW S, S \subseteq Nat, S # {}
    PROVE  Min(S) \in S /\ \A y \in S : Min(S) <= y
<1>1. PICK x \in S : \A y \in S : x <= y
  BY Zenon DEF NatWellOrdered
<1> QED
  BY <1>1, Zenon DEF Min

\* Every non-empty bounded set of naturals has a largest element.
LEMMA MaxNat ==
    ASSUME NatWellOrdered, NEW S, S \subseteq Nat, S # {}, NEW u \in Nat, \A y \in S : y <= u
    PROVE  Max(S) \in S /\ \A y \in S : Max(S) >= y
<1> DEFINE D == {u - y : y \in S}
<1>0. \A y \in S : u - y \in Nat
  BY SMTT(30)
<1>1. D \subseteq Nat /\ D # {}
  BY <1>0, Zenon
<1>2. Min(D) \in D /\ \A d \in D : Min(D) <= d
  BY <1>1, MinNat, Zenon
<1>3. PICK x \in S : Min(D) = u - x
  BY <1>2, Zenon
<1>4. \A y \in S : u - x <= u - y
  BY <1>2, <1>3, Zenon
<1>5. \A y \in S : x >= y
  BY <1>4, SMTT(30)
<1> QED
  BY <1>5, Zenon DEF Max

\* Finitely many numbers in a row have a bound: a first place up to which they had none
\* would follow a place up to which they have one.
LEMMA BoundOfRow ==
    ASSUME NatWellOrdered, NEW n \in Nat, NEW f \in [0 .. n -> Nat]
    PROVE  \E u \in Nat : \A k \in 0 .. n : f[k] <= u
<1> DEFINE Bounded(j) == \E u \in Nat : \A k \in 0 .. j : f[k] <= u
           B == {j \in 0 .. n : ~Bounded(j)}
<1>1. Bounded(n)
  <2> SUFFICES ASSUME ~Bounded(n) PROVE FALSE
    BY SMTT(30)
  <2>1. B \subseteq Nat /\ n \in B
    <3> HIDE DEF Bounded
    <3> QED
      BY SMTT(30)
  <2>2. PICK j \in B : \A y \in B : j <= y
    <3> HIDE DEF B
    <3> QED
      BY <2>1, MinNat, Zenon
  <2>3. j \in 0 .. n /\ ~Bounded(j) /\ \A y \in 0 .. n : y < j => Bounded(y)
    <3> HIDE DEF Bounded
    <3> QED
      BY <2>2, SMTT(30)
  <2>4. j \in Nat /\ f[j] \in Nat
    <3> HIDE DEF Bounded, B
    <3> QED
      BY <2>3, SMTT(30)
  <2> HIDE DEF B
  <2>5. CASE j = 0
    <3>1. \A k \in 0 .. j : f[k] <= f[j]
      BY <2>4, <2>5, SMTT(30)
    <3> QED
      BY <2>3, <2>4, <3>1, Zenon
  <2>6. CASE j # 0
    <3> HIDE DEF Bounded
    <3>1. j - 1 \in 0 .. n /\ j - 1 < j
      BY <2>3, <2>6, SMTT(30)
    <3>2. PICK u \in Nat : \A k \in 0 .. j - 1 : f[k] <= u
      BY <2>3, <3>1, Zenon DEF Bounded
    <3>3. ASSUME NEW k \in 0 .. j PROVE f[k] <= u + f[j]
      <4>1. k \in 0 .. n /\ f[k] \in Nat
        BY <2>3, SMTT(30)
      <4>2. CASE k = j
        BY <2>4, <4>2, SMTT(30)
      <4>3. CASE k # j
        <5>1. k \in 0 .. j - 1
          BY <2>3, <4>3, SMTT(30)
        <5>2. f[k] <= u
          BY <3>2, <5>1, SMTT(30)
        <5> QED
          BY <2>4, <4>1, <5>2, SMTT(30)
      <4> QED
        BY <4>2, <4>3, SMTT(30)
    <3>4. u + f[j] \in Nat
      BY <2>4, SMTT(30)
    <3> QED
      BY <2>3, <3>3, <3>4, Zenon DEF Bounded
  <2> QED
    BY <2>5, <2>6, SMTT(30)
<1> QED
  BY <1>1, SMTT(30)

\* Hence they have a largest one.
LEMMA MaxOfRow ==
    ASSUME NatWellOrdered, NEW n \in Nat, NEW f \in [0 .. n -> Nat]
    PROVE  Max({f[k] : k \in 0 .. n}) \in Nat
<1> DEFINE T == {f[k] : k \in 0 .. n}
<1>1. PICK u \in Nat : \A k \in 0 .. n : f[k] <= u
  BY BoundOfRow, Zenon
<1>2. T \subseteq Nat /\ T # {} /\ \A y \in T : y <= u
  <2>1. 0 \in 0 .. n
    BY SMTT(30)
  <2> QED
    BY <1>1, <2>1, SMTT(30)
<1> HIDE DEF T
<1>3. Max(T) \in T
  BY <1>2, MaxNat, Zenon
<1> QED
  BY <1>2, <1>3, SMTT(30) DEF T

\* The same of the numbers of a finite set, which can be put in a row.
LEMMA MaxOfFunction ==
    ASSUME NatWellOrdered, NEW S, IsFiniteSet(S), S # {}, NEW f \in [S -> Nat]
    PROVE  Max({f[x] : x \in S}) \in Nat
<1> DEFINE T == {f[x] : x \in S}
<1>1. PICK q \in Seq(S) : \A s \in S : \E k \in 1 .. Len(q) : q[k] = s
  BY Zenon DEF IsFiniteSet
<1> DEFINE n == Len(q)
           g == [k \in 0 .. n |-> IF k = 0 THEN 0 ELSE f[q[k]]]
<1>2. n \in Nat /\ \A k \in 1 .. n : q[k] \in S
  BY SMTT(30)
<1> HIDE DEF n
<1>3. \A k \in 0 .. n : (IF k = 0 THEN 0 ELSE f[q[k]]) \in Nat
  BY <1>2, SMTT(30)
<1>4. g \in [0 .. n -> Nat] /\ \A k \in 1 .. n : g[k] = f[q[k]]
  BY <1>2, <1>3, SMTT(30)
<1> HIDE DEF g
<1>5. PICK u \in Nat : \A k \in 0 .. n : g[k] <= u
  BY <1>2, <1>4, BoundOfRow, Zenon
<1>6. ASSUME NEW x \in S PROVE f[x] <= u
  <2>1. PICK k \in 1 .. n : q[k] = x
    BY <1>1, SMTT(30) DEF n
  <2>2. k \in 0 .. n /\ g[k] = f[x]
    BY <1>2, <1>4, <2>1, SMTT(30)
  <2> QED
    BY <1>5, <2>2, SMTT(30)
<1>7. T \subseteq Nat /\ T # {} /\ \A y \in T : y <= u
  BY <1>6, SMTT(30)
<1> HIDE DEF T
<1>8. Max(T) \in T
  BY <1>7, MaxNat, Zenon
<1> QED
  BY <1>7, <1>8, SMTT(30) DEF T

\* A slice of a sequence, taken within its length, is a sequence of the same kind.
LEMMA SliceType ==
    ASSUME NEW S, NEW s \in Seq(S), NEW m \in Nat \ {0}, NEW n \in Int, n <= Len(s)
    PROVE  SubSeq(s, m, n) \in Seq(S)
<1>1. \A i \in m .. n : s[i] \in S
  BY SMTT(30)
<1> QED
  BY <1>1, SMTT(30)

\* What a slice of a sequence, taken within its length, holds.
LEMMA SliceFacts ==
    ASSUME NEW S, NEW s \in Seq(S), NEW m \in Nat \ {0}, NEW n \in Nat, n <= Len(s), m <= n + 1
    PROVE  /\ SubSeq(s, m, n) \in Seq(S)
           /\ Len(SubSeq(s, m, n)) = n - m + 1
           /\ \A i \in 1 .. n - m + 1 : SubSeq(s, m, n)[i] = s[m + i - 1]
<1>1. \A i \in m .. n : s[i] \in S
  BY SMTT(30)
<1> QED
  BY <1>1, SMTT(30)

\* What two sequences, one behind the other, hold.
LEMMA JoinFacts ==
    ASSUME NEW S, NEW s \in Seq(S), NEW t \in Seq(S)
    PROVE  /\ s \o t \in Seq(S)
           /\ Len(s \o t) = Len(s) + Len(t)
           /\ \A i \in 1 .. Len(s) : (s \o t)[i] = s[i]
           /\ \A i \in 1 .. Len(t) : (s \o t)[Len(s) + i] = t[i]
<1>1. Len(s) \in Nat /\ Len(t) \in Nat
  BY SMTT(30)
<1>2. /\ s \o t \in Seq(S) /\ Len(s \o t) = Len(s) + Len(t)
      /\ \A i \in 1 .. Len(s) + Len(t) : (s \o t)[i] = IF i <= Len(s) THEN s[i] ELSE t[i - Len(s)]
  BY SMTT(30)
<1>3. ASSUME NEW i \in 1 .. Len(t) PROVE (s \o t)[Len(s) + i] = t[i]
  <2>1. Len(s) + i \in 1 .. Len(s) + Len(t) /\ ~(Len(s) + i <= Len(s)) /\ Len(s) + i - Len(s) = i
    BY <1>1, SMTT(30)
  <2> QED
    BY <1>2, <2>1, SMTT(30)
<1>4. \A i \in 1 .. Len(s) : i \in 1 .. Len(s) + Len(t) /\ i <= Len(s)
  BY <1>1, SMTT(30)
<1> QED
  BY <1>2, <1>3, <1>4, SMTT(30)

\* Sequences of the same elements are the same.
LEMMA SameSequence ==
    ASSUME NEW S, NEW s \in Seq(S), NEW t \in Seq(S), Len(s) = Len(t),
           \A i \in 1 .. Len(s) : s[i] = t[i]
    PROVE  s = t
<1>1. /\ s = [i \in 1 .. Len(s) |-> s[i]]
      /\ t = [i \in 1 .. Len(s) |-> t[i]]
  BY SMTT(30)
<1> QED
  BY <1>1, Zenon

-----------------------------------------------------------------------------
(* The log.                                                                *)

\* append of an entry keeps the log well typed.
LEMMA AppendEntryType ==
    ASSUME NEW log \in LogType, NEW e \in Entry
    PROVE  AppendEntry(log, e) \in LogType
BY SMTT(30) DEF AppendEntry, LogType

\* MergeEntries never reaches beyond what is stored: the first clash is at most one
\* past the entries kept before it.
LEMMA MergeEntriesType ==
    ASSUME NatWellOrdered, NEW log \in LogType, NEW prev \in Nat, NEW es \in Seq(Entry),
           prev <= LastIndex(log)
    PROVE  MergeEntries(log, prev, es) \in LogType
<1> DEFINE base  == log.lastIncludedIndex
           below == {k \in DOMAIN es : prev + k <= base /\ es[k].term # log.lastIncludedTerm}
           kept  == IF below = {} THEN log.entries ELSE << es[Max(below)] >>
           clash == {k \in DOMAIN es :
                       /\ prev + k > base
                       /\ \/ prev + k - base > Len(kept)
                          \/ kept[prev + k - base].term # es[k].term}
           cut   == Min(clash)
<1>1. base \in Nat /\ log.entries \in Seq(Entry) /\ DOMAIN es = 1 .. Len(es) /\ Len(es) \in Nat
  BY SMTT(30) DEF LogType
<1>2. kept \in Seq(Entry)
  <2>1. CASE below = {}
    BY <1>1, <2>1, SMTT(30)
  <2>2. CASE below # {}
    <3>1. below \subseteq Nat /\ \A k \in below : k <= Len(es)
      BY <1>1, SMTT(30)
    <3>2. Max(below) \in below
      BY <1>1, <2>2, <3>1, MaxNat, Zenon
    <3>3. es[Max(below)] \in Entry
      BY <1>1, <3>2, SMTT(30)
    <3> QED
      BY <2>2, <3>3, SMTT(30)
  <2> QED
    BY <2>1, <2>2, SMTT(30)
<1>3. MergeEntries(log, prev, es) =
        [log EXCEPT !.entries = IF clash = {} THEN kept
                                ELSE SubSeq(kept, 1, prev + cut - base - 1)
                                       \o SubSeq(es, cut, Len(es))]
  BY SMTT(30) DEF MergeEntries
<1>4. prev - base <= Len(kept)
  <2>1. CASE below = {}
    BY <1>1, <2>1, SMTT(30) DEF LastIndex
  <2>2. CASE below # {}
    BY <1>1, <2>2, SMTT(30)
  <2> QED
    BY <2>1, <2>2, SMTT(30)
<1>5. clash \subseteq 1 .. Len(es) /\ \A k \in clash : prev + k > base
  BY <1>1, SMTT(30)
<1>6. \A k \in 1 .. Len(es) : (prev + k > base /\ prev + k - base > Len(kept)) => k \in clash
  BY <1>1, SMTT(30)
<1> HIDE DEF clash, kept, base
<1>7. CASE clash = {}
  BY <1>2, <1>3, <1>7, Zenon DEF LogType
<1>8. CASE clash # {}
  <2>0. clash \subseteq Nat
    BY <1>1, <1>5, SMTT(30)
  <2>1. cut \in clash /\ \A y \in clash : cut <= y
    BY <1>8, <2>0, MinNat, Zenon
  <2> HIDE DEF cut
  <2>2. cut \in 1 .. Len(es) /\ prev + cut > base
    BY <1>5, <2>1, SMTT(30)
  <2>3. prev + cut - base - 1 <= Len(kept)
    <3>1. CASE cut = 1
      BY <1>1, <1>2, <1>4, <3>1, SMTT(30)
    <3>2. CASE cut # 1
      <4>1. cut - 1 \in 1 .. Len(es) /\ cut - 1 \notin clash
        BY <1>1, <1>5, <2>1, <2>2, <3>2, SMTT(30)
      <4> QED
        BY <1>1, <1>2, <1>6, <2>2, <4>1, SMTT(30)
    <3> QED
      BY <3>1, <3>2, SMTT(30)
  <2>4. SubSeq(kept, 1, prev + cut - base - 1) \in Seq(Entry)
    BY <1>1, <1>2, <2>2, <2>3, SliceType, SMTT(30)
  <2>5. SubSeq(es, cut, Len(es)) \in Seq(Entry)
    BY <1>1, <2>2, SliceType, SMTT(30)
  <2>6. SubSeq(kept, 1, prev + cut - base - 1) \o SubSeq(es, cut, Len(es)) \in Seq(Entry)
    BY <2>4, <2>5, JoinFacts, SMTT(30)
  <2> QED
    BY <1>3, <1>8, <2>6, Zenon DEF LogType
<1> QED
  BY <1>7, <1>8, SMTT(30)

-----------------------------------------------------------------------------
(* The node.  SameBallot(n, p): p votes and leads as n does.               *)

\* A message is of exactly one of the six kinds, and typed as such.
LEMMA MessageKinds ==
    ASSUME NEW m \in Message
    PROVE  /\ m.from \in Server /\ m.to \in Server /\ m.term \in Nat
           /\ \/ m.type = "VoteRequest" /\ m \in VoteRequest
              \/ m.type = "VoteResponse" /\ m \in VoteResponse
              \/ m.type = "AppendRequest" /\ m \in AppendRequest
              \/ m.type = "AppendResponse" /\ m \in AppendAnswer
              \/ m.type = "InstallSnapshotRequest" /\ m \in InstallSnapshotRequest
              \/ m.type = "InstallSnapshotResponse" /\ m \in InstallSnapshotAnswer
BY SMTT(30) DEF Message, VoteRequest, VoteResponse, AppendRequest, AppendAnswer,
       InstallSnapshotRequest, InstallSnapshotAnswer

\* The votes a node that is not a follower counts are its own and those in M.
BallotOK(i, n, M) ==
    n.role # "Follower" =>
        /\ n.votedFor = i
        /\ \A j \in n.votesReceived \ {i} : \E m \in M :
              Grants(m) /\ m.from = j /\ m.to = i /\ m.term = n.currentTerm
        /\ n.role = "Leader" => IsQuorum(n.votesReceived)

-----------------------------------------------------------------------------
(* Quorums.                                                                *)

\* All that is used of the quorums of a group: two of them have a member in common ...
MeetingQuorums == \A P, Q \in SUBSET Server : IsQuorum(P) /\ IsQuorum(Q) => P \cap Q # {}

\* ... and more servers than a quorum are a quorum.
WideningQuorums == \A P, Q \in SUBSET Server : IsQuorum(P) /\ P \subseteq Q => IsQuorum(Q)

-----------------------------------------------------------------------------
(* Fragments of a log: entries behind an index, and the term at that index. *)

Fragment == [entries : Seq(Entry), base : Nat, before : Nat]

\* Its last index, the indices it spans, and the term at one of them or at its base.
EndOf(f) == f.base + Len(f.entries)

Spans(f, k) == k \in f.base + 1 .. EndOf(f)

TermIn(f, k) == IF k = f.base THEN f.before ELSE f.entries[k - f.base].term

\* The link at an index it spans, and all its links.
LinkAt(f, k) == [index |-> k, entry |-> f.entries[k - f.base], before |-> TermIn(f, k - 1)]

LinksOf(f) == {LinkAt(f, k) : k \in f.base + 1 .. EndOf(f)}

\* Where a fragment begins and ends.
LEMMA FragmentType ==
    ASSUME NEW f \in Fragment
    PROVE  /\ f.entries \in Seq(Entry) /\ Len(f.entries) \in Nat
           /\ f.base \in Nat /\ f.before \in Nat
           /\ EndOf(f) \in Nat /\ EndOf(f) >= f.base
BY SMTT(30) DEF Fragment, EndOf

\* What a fragment holds at an index it spans.
LEMMA AtIndex ==
    ASSUME NEW f \in Fragment, NEW k \in Nat, Spans(f, k)
    PROVE  /\ k > f.base /\ k <= EndOf(f)
           /\ f.entries[k - f.base] \in Entry
           /\ TermIn(f, k) = f.entries[k - f.base].term
           /\ TermIn(f, k) \in Nat
           /\ LinkAt(f, k) \in LinksOf(f)
           /\ LinkAt(f, k).index = k
           /\ LinkAt(f, k).entry = f.entries[k - f.base]
           /\ LinkAt(f, k).entry.term = TermIn(f, k)
           /\ LinkAt(f, k).before = TermIn(f, k - 1)
<1>1. f.entries \in Seq(Entry) /\ Len(f.entries) \in Nat /\ f.base \in Nat
  BY FragmentType, SMTT(30)
<1>2. k > f.base /\ k <= EndOf(f) /\ k - f.base \in 1 .. Len(f.entries)
  BY <1>1, SMTT(30) DEF Spans, EndOf
<1>3. f.entries[k - f.base] \in Entry
  BY <1>1, <1>2, SMTT(30)
<1>4. TermIn(f, k) = f.entries[k - f.base].term
  BY <1>1, <1>2, SMTT(30) DEF TermIn
<1>5. LinkAt(f, k) \in LinksOf(f)
  BY SMTT(30) DEF LinksOf, Spans
<1>6. /\ LinkAt(f, k).index = k
      /\ LinkAt(f, k).entry = f.entries[k - f.base]
      /\ LinkAt(f, k).before = TermIn(f, k - 1)
  BY SMTT(30) DEF LinkAt
<1> QED
  BY <1>2, <1>3, <1>4, <1>5, <1>6, SMTT(30) DEF Entry

\* The terms of a fragment are terms.
LEMMA TermInType ==
    ASSUME NEW f \in Fragment, NEW k \in f.base .. EndOf(f)
    PROVE  TermIn(f, k) \in Nat
<1>1. f.base \in Nat /\ f.before \in Nat /\ EndOf(f) \in Nat
  BY FragmentType, SMTT(30)
<1>2. CASE k = f.base
  BY <1>1, <1>2, SMTT(30) DEF TermIn
<1>3. CASE k # f.base
  <2>1. k \in Nat /\ Spans(f, k)
    BY <1>1, <1>3, SMTT(30) DEF Spans
  <2> QED
    BY <2>1, AtIndex, SMTT(30)
<1> QED
  BY <1>2, <1>3, SMTT(30)

-----------------------------------------------------------------------------
(* Logs that were never compacted, and what on_append_request does to one.  *)

\* A log that has never been compacted.
Flat(log) == log.lastIncludedIndex = 0 /\ log.lastIncludedTerm = 0 /\ log.snapshot = NoImage

\* Such a log as a fragment.
LogFragment(log) == [entries |-> log.entries, base |-> 0, before |-> 0]

\* A flat log is its fragment: last_index, last_term and term_at read it.
LEMMA FlatLog ==
    ASSUME NEW log \in LogType, Flat(log)
    PROVE  LET f == LogFragment(log) IN
           /\ f \in Fragment /\ f.base = 0 /\ f.before = 0 /\ f.entries = log.entries
           /\ log.entries \in Seq(Entry) /\ Len(log.entries) \in Nat
           /\ EndOf(f) = Len(log.entries) /\ LastIndex(log) = Len(log.entries)
           /\ \A k \in 0 .. Len(log.entries) : TermAt(log, k) = TermIn(f, k)
           /\ \A k \in Nat : k > Len(log.entries) => TermAt(log, k) = NoTerm
           /\ LastTerm(log) = TermIn(f, Len(log.entries))
           /\ \A k \in 1 .. Len(log.entries) :
                 Spans(f, k) /\ TermIn(f, k) = log.entries[k].term /\ log.entries[k] \in Entry
<1> DEFINE f == LogFragment(log)
<1>1. log.entries \in Seq(Entry) /\ Len(log.entries) \in Nat
  BY SMTT(30) DEF LogType
<1>2. f \in Fragment /\ f.base = 0 /\ f.before = 0 /\ f.entries = log.entries
  BY <1>1, SMTT(30) DEF LogFragment, Fragment
<1>3. EndOf(f) = Len(log.entries) /\ LastIndex(log) = Len(log.entries)
  BY <1>1, <1>2, SMTT(30) DEF EndOf, LastIndex, Flat
<1>4. ASSUME NEW k \in 1 .. Len(log.entries)
      PROVE  Spans(f, k) /\ TermIn(f, k) = log.entries[k].term /\ log.entries[k] \in Entry
  <2>1. log.entries[k] \in Entry /\ k - 0 = k
    BY <1>1, SMTT(30)
  <2> QED
    BY <1>1, <1>2, <1>3, <2>1, SMTT(30) DEF Spans, TermIn
<1>5. TermIn(f, 0) = 0
  BY <1>2, SMTT(30) DEF TermIn
<1>6. ASSUME NEW k \in 0 .. Len(log.entries) PROVE TermAt(log, k) = TermIn(f, k)
  <2>1. CASE k = 0
    BY <1>5, <2>1, SMTT(30) DEF TermAt
  <2>2. CASE k # 0
    <3>1. k \in 1 .. Len(log.entries) /\ k - 0 = k /\ ~(k <= 0)
      BY <1>1, <2>2, SMTT(30)
    <3> QED
      BY <1>3, <1>4, <2>2, <3>1, SMTT(30) DEF TermAt, Flat
  <2> QED
    BY <2>1, <2>2, SMTT(30)
<1>7. \A k \in Nat : k > Len(log.entries) => TermAt(log, k) = NoTerm
  BY <1>1, <1>3, SMTT(30) DEF TermAt, Flat
<1>8. LastTerm(log) = TermIn(f, Len(log.entries))
  <2>1. CASE log.entries = << >>
    BY <1>5, <2>1, SMTT(30) DEF LastTerm, Flat
  <2>2. CASE log.entries # << >>
    <3>1. Len(log.entries) \in 1 .. Len(log.entries)
      BY <1>1, <2>2, SMTT(30)
    <3> QED
      BY <1>4, <2>2, <3>1, SMTT(30) DEF LastTerm
  <2> QED
    BY <2>1, <2>2, SMTT(30)
<1> QED
  BY <1>1, <1>2, <1>3, <1>4, <1>6, <1>7, <1>8, SMTT(30)

\* Two logs hold the same behind c and below it what f says: the result of a merge
\* that cuts log at c.
CutAt(log, f, q, c) ==
    /\ Spans(f, c) /\ c <= LastIndex(log) + 1
    /\ \A k \in f.base .. c - 1 : TermIn(LogFragment(log), k) = TermIn(f, k)
    /\ c <= LastIndex(log) => TermIn(LogFragment(log), c) # TermIn(f, c)
    /\ Len(q.entries) = EndOf(f)
    /\ \A k \in 1 .. c - 1 : q.entries[k] = log.entries[k]
    /\ \A k \in c .. EndOf(f) : q.entries[k] = f.entries[k - f.base]

\* The loop of on_append_request on a flat log, when prev matches: nothing to do, or
\* a cut at the first index at which the request differs.
LEMMA MergeFlat ==
    ASSUME NatWellOrdered, NEW log \in LogType, Flat(log), NEW f \in Fragment, f.base <= LastIndex(log),
           TermIn(LogFragment(log), f.base) = f.before
    PROVE  LET q == MergeEntries(log, f.base, f.entries) IN
           /\ Flat(q) /\ q \in LogType
           /\ \/ /\ q = log /\ EndOf(f) <= LastIndex(log)
                 /\ \A k \in f.base .. EndOf(f) : TermIn(LogFragment(log), k) = TermIn(f, k)
              \/ \E c \in Nat : CutAt(log, f, q, c)
<1> DEFINE g == LogFragment(log)
           q == MergeEntries(log, f.base, f.entries)
           es == f.entries
           prev == f.base
           clash == {k \in DOMAIN es : prev + k > Len(log.entries)
                                       \/ log.entries[prev + k].term # es[k].term}
           cut == Min(clash)
           head == SubSeq(log.entries, 1, prev + cut - 1)
           tail == SubSeq(es, cut, Len(es))
<1>1. /\ log.entries \in Seq(Entry) /\ Len(log.entries) \in Nat /\ LastIndex(log) = Len(log.entries)
      /\ es \in Seq(Entry) /\ Len(es) \in Nat /\ prev \in Nat /\ prev <= Len(log.entries)
  BY FlatLog, FragmentType, SMTT(30)
<1>2. /\ clash \subseteq 1 .. Len(es) /\ clash \subseteq Nat
      /\ \A k \in 1 .. Len(es) : k \in clash <=>
            prev + k > Len(log.entries) \/ log.entries[prev + k].term # es[k].term
  BY <1>1, SMTT(30)
<1>3. q = [log EXCEPT !.entries = IF clash = {} THEN log.entries ELSE head \o tail]
  <2> DEFINE base  == log.lastIncludedIndex
             below == {k \in DOMAIN es : prev + k <= base /\ es[k].term # log.lastIncludedTerm}
             kept  == IF below = {} THEN log.entries ELSE << es[Max(below)] >>
             bad   == {k \in DOMAIN es : /\ prev + k > base
                                         /\ \/ prev + k - base > Len(kept)
                                            \/ kept[prev + k - base].term # es[k].term}
  <2>1. q = [log EXCEPT !.entries =
               IF bad = {} THEN kept
               ELSE SubSeq(kept, 1, prev + Min(bad) - base - 1) \o SubSeq(es, Min(bad), Len(es))]
    BY SMTT(30) DEF MergeEntries
  <2>2. base = 0
    BY SMTT(30) DEF Flat
  <2>3. \A k \in DOMAIN es : prev + k > 0 /\ ~(prev + k <= 0) /\ prev + k - 0 = prev + k
    BY <1>1, SMTT(30)
  <2>4. kept = log.entries
    BY <2>2, <2>3, SMTT(30)
  <2> HIDE DEF kept
  <2>5. bad = clash
    BY <2>2, <2>3, <2>4, SMTT(30)
  <2> HIDE DEF bad, clash, base
  <2>6. clash # {} => cut \in clash
    BY <1>2, MinNat, Zenon
  <2> HIDE DEF cut
  <2>7. ASSUME clash # {} PROVE prev + cut - base - 1 = prev + cut - 1
    <3>1. cut \in Nat
      BY <1>2, <2>6, <2>7, Zenon
    <3> QED
      BY <1>1, <2>2, <3>1, SMTT(30)
  <2> QED
    BY <2>1, <2>4, <2>5, <2>7, Zenon DEF cut
<1> HIDE DEF clash
<1>4. ASSUME NEW k \in f.base .. EndOf(f), k > f.base => k - f.base \notin clash
      PROVE  k <= Len(log.entries) /\ TermIn(g, k) = TermIn(f, k)
  <2>1. CASE k = f.base
    BY <1>1, <2>1, SMTT(30) DEF TermIn
  <2>2. CASE k # f.base
    <3>1. k \in Nat /\ Spans(f, k) /\ k - prev \in 1 .. Len(es) /\ prev + (k - prev) = k /\ k >= 1
      BY <1>1, <2>2, SMTT(30) DEF Spans, EndOf
    <3> HIDE DEF q, cut, head, tail, prev
    <3>2. k <= Len(log.entries) /\ log.entries[k].term = es[k - prev].term
      <4> DEFINE j == k - prev
      <4>1. j \in 1 .. Len(es) /\ prev + j = k /\ j \notin clash
        <5>1. k > f.base
          BY <1>1, <3>1, SMTT(30) DEF prev
        <5>2. k - f.base \notin clash
          BY <1>4, <5>1, SMTT(30)
        <5> QED
          BY <3>1, <5>2, SMTT(30) DEF prev
      <4> HIDE DEF j
      <4>2. ~(k > Len(log.entries)) /\ log.entries[k].term = es[j].term
        BY <1>2, <4>1, SMTT(30)
      <4> QED
        BY <1>1, <3>1, <4>2, SMTT(30) DEF j
    <3>3. TermIn(g, k) = log.entries[k].term
      <4>1. k \in 1 .. Len(log.entries)
        BY <1>1, <3>1, <3>2, SMTT(30)
      <4> QED
        BY <4>1, FlatLog, SMTT(30)
    <3>4. TermIn(f, k) = es[k - prev].term
      BY <3>1, AtIndex, SMTT(30) DEF prev
    <3> QED
      BY <3>2, <3>3, <3>4, SMTT(30)
  <2> QED
    BY <2>1, <2>2, SMTT(30)
<1>5. q \in LogType
  BY <1>1, MergeEntriesType, SMTT(30)
<1>6. Flat(q)
  BY <1>3, SMTT(30) DEF Flat, LogType
<1>7. CASE clash = {}
  <2>1. q = log
    BY <1>3, <1>7, SMTT(30) DEF LogType
  <2>2. \A k \in f.base .. EndOf(f) : k <= Len(log.entries) /\ TermIn(g, k) = TermIn(f, k)
    BY <1>4, <1>7, SMTT(30)
  <2>3. EndOf(f) <= Len(log.entries)
    BY <2>2, FragmentType, SMTT(30)
  <2> QED
    BY <1>1, <1>5, <1>6, <2>1, <2>2, <2>3, SMTT(30)
<1>8. CASE clash # {}
  <2>1. cut \in clash /\ \A y \in clash : cut <= y
    BY <1>2, <1>8, MinNat, Zenon
  <2>2. q.entries = head \o tail
    BY <1>3, <1>8, Zenon DEF LogType
  <2> HIDE DEF cut
  <2> DEFINE c == prev + cut
  <2>3. /\ cut \in 1 .. Len(es) /\ c \in Nat /\ c >= 1 /\ Spans(f, c) /\ EndOf(f) = prev + Len(es)
        /\ c - prev = cut /\ c <= EndOf(f)
    BY <1>1, <1>2, <2>1, SMTT(30) DEF Spans, EndOf
  <2> HIDE DEF c
  <2>4. \A k \in f.base .. c - 1 : k <= Len(log.entries) /\ TermIn(g, k) = TermIn(f, k)
    <3> SUFFICES ASSUME NEW k \in f.base .. c - 1
                 PROVE  k <= Len(log.entries) /\ TermIn(g, k) = TermIn(f, k)
      BY SMTT(30)
    <3>1. k \in f.base .. EndOf(f) /\ k - f.base < cut /\ k - f.base \in Nat
      BY <1>1, <2>3, SMTT(30) DEF c
    <3>2. k - f.base \notin clash
      BY <1>2, <2>1, <2>3, <3>1, SMTT(30)
    <3> QED
      BY <1>4, <3>1, <3>2, SMTT(30)
  <2>5. c - 1 <= Len(log.entries)
    <3>1. c - 1 \in f.base .. c - 1
      BY <1>1, <2>3, SMTT(30) DEF c
    <3> QED
      BY <2>4, <3>1, SMTT(30)
  <2>6. c <= Len(log.entries) => TermIn(g, c) # TermIn(f, c)
    <3> SUFFICES ASSUME c <= Len(log.entries) PROVE TermIn(g, c) # TermIn(f, c)
      BY SMTT(30)
    <3>1. log.entries[c].term # es[cut].term
      BY <1>2, <2>1, <2>3, SMTT(30) DEF c
    <3>2. TermIn(g, c) = log.entries[c].term
      BY <1>1, <2>3, FlatLog, SMTT(30)
    <3>3. TermIn(f, c) = es[cut].term
      BY <2>3, AtIndex, SMTT(30)
    <3> QED
      BY <3>1, <3>2, <3>3, SMTT(30)
  <2>7. /\ head \in Seq(Entry) /\ Len(head) = c - 1
        /\ \A k \in 1 .. c - 1 : head[k] = log.entries[k]
    <3>1. prev + cut - 1 = c - 1 /\ c - 1 \in Nat
      BY <1>1, <2>3, SMTT(30) DEF c
    <3>2. \A k \in 1 .. c - 1 : 1 + k - 1 = k
      BY <2>3, SMTT(30)
    <3>3. head = SubSeq(log.entries, 1, c - 1) /\ c - 1 - 1 + 1 = c - 1
      BY <3>1, <2>3, SMTT(30)
    <3>4. log.entries \in Seq(Entry) /\ 1 \in Nat \ {0} /\ 1 <= c - 1 + 1
      BY <1>1, <3>1, SMTT(30)
    <3>5. /\ SubSeq(log.entries, 1, c - 1) \in Seq(Entry)
          /\ Len(SubSeq(log.entries, 1, c - 1)) = c - 1 - 1 + 1
          /\ \A k \in 1 .. c - 1 - 1 + 1 : SubSeq(log.entries, 1, c - 1)[k] = log.entries[1 + k - 1]
      <4> HIDE DEF c
      <4> QED
        BY <2>5, <3>1, <3>4, SliceFacts, SMTT(30)
    <3> QED
      BY <3>2, <3>3, <3>5, Zenon
  <2>8. /\ tail \in Seq(Entry) /\ Len(tail) = Len(es) - cut + 1
        /\ \A k \in 1 .. Len(es) - cut + 1 : tail[k] = es[cut + k - 1]
    BY <1>1, <2>3, SliceFacts, SMTT(30)
  <2> HIDE DEF head, tail
  <2>9. /\ Len(q.entries) = EndOf(f)
        /\ \A k \in 1 .. c - 1 : q.entries[k] = log.entries[k]
        /\ \A k \in c .. EndOf(f) : q.entries[k] = es[k - prev]
    <3>1. /\ Len(q.entries) = Len(head) + Len(tail)
          /\ \A k \in 1 .. Len(head) : q.entries[k] = head[k]
          /\ \A k \in 1 .. Len(tail) : q.entries[Len(head) + k] = tail[k]
      <4>1. head \in Seq(Entry) /\ tail \in Seq(Entry)
        BY <2>7, <2>8, SMTT(30)
      <4> QED
        BY <2>2, <4>1, JoinFacts, SMTT(30)
    <3>2. Len(q.entries) = EndOf(f)
      <4>1. Len(head) = c - 1 /\ Len(tail) = Len(es) - cut + 1 /\ EndOf(f) = prev + Len(es)
        BY <2>3, <2>7, <2>8, SMTT(30)
      <4>2. cut \in Nat /\ c = prev + cut /\ prev \in Nat /\ Len(es) \in Nat
        BY <1>1, <2>3, SMTT(30) DEF c
      <4>3. Len(q.entries) = (c - 1) + (Len(es) - cut + 1)
        BY <3>1, <4>1, SMTT(30)
      <4>4. (c - 1) + (Len(es) - cut + 1) = prev + Len(es)
        BY <4>2, SMTT(30)
      <4> QED
        BY <4>1, <4>3, <4>4, SMTT(30)
    <3>3. ASSUME NEW k \in c .. EndOf(f) PROVE q.entries[k] = es[k - prev]
      <4> DEFINE h == k - (c - 1)
      <4>0. /\ Len(head) = c - 1 /\ Len(tail) = Len(es) - cut + 1 /\ EndOf(f) = prev + Len(es)
            /\ cut \in Nat /\ c = prev + cut /\ c \in Nat
        BY <2>3, <2>7, <2>8, SMTT(30) DEF c
      <4>1. /\ k - (c - 1) \in 1 .. Len(es) - cut + 1 /\ cut + (k - (c - 1)) - 1 = k - prev
            /\ (c - 1) + (k - (c - 1)) = k
        <5>1. k \in Int /\ c <= k /\ k <= prev + Len(es)
          BY <2>3, <4>0, FragmentType, SMTT(30)
        <5>2. prev \in Nat /\ Len(es) \in Nat /\ cut \in Nat /\ c = prev + cut
          BY <1>1, <4>0, SMTT(30)
        <5>3. k - (c - 1) >= 1 /\ k - (c - 1) <= Len(es) - cut + 1 /\ k - (c - 1) \in Int
          BY <5>1, <5>2, SMTT(30)
        <5>4. cut + (k - (c - 1)) - 1 = k - prev
          BY <5>1, <5>2, SMTT(30)
        <5>5. (c - 1) + (k - (c - 1)) = k
          BY <5>1, <5>2, SMTT(30)
        <5> QED
          BY <5>2, <5>3, <5>4, <5>5, SMTT(30)
      <4>2. h \in 1 .. Len(tail) /\ cut + h - 1 = k - prev /\ Len(head) + h = k
        BY <4>0, <4>1, SMTT(30)
      <4>3. h \in 1 .. Len(es) - cut + 1
        BY <4>1, SMTT(30)
      <4> HIDE DEF h
      <4> QED
        BY <2>8, <3>1, <4>2, <4>3, SMTT(30)
    <3>4. \A k \in 1 .. c - 1 : q.entries[k] = log.entries[k]
      BY <2>7, <3>1, Zenon
    <3> QED
      BY <3>2, <3>3, <3>4, Zenon
  <2>10. CutAt(log, f, q, c)
    BY <1>1, <2>3, <2>4, <2>5, <2>6, <2>9, SMTT(30) DEF CutAt
  <2> QED
    BY <1>5, <1>6, <2>3, <2>10, SMTT(30)
<1> QED
  BY <1>7, <1>8, SMTT(30)

\* What the request's fragment says of prev, and the log it is merged into.
Mergeable(log, f) ==
    /\ log \in LogType /\ Flat(log) /\ f \in Fragment /\ f.base <= LastIndex(log)
    /\ TermIn(LogFragment(log), f.base) = f.before

\* What on_append_request makes of a log and a request's entries.
Merged(log, f) == MergeEntries(log, f.base, f.entries)

-----------------------------------------------------------------------------
(* What a server may do in one step to its log and to what others hear of it. *)

\* A request's entries as a fragment.
RequestFragment(m) == [entries |-> m.entries, base |-> m.prevLogIndex, before |-> m.prevLogTerm]

\* An AppendResponse that says success.
IsAck(m) == m.type = "AppendResponse" /\ m.success

\* Server i's node n takes over what request m holds and becomes p.
Accepts(i, n, p, m) ==
    /\ m.type = "AppendRequest" /\ m.to = i /\ m.term = p.currentTerm
    /\ p.role = "Follower"
    /\ Mergeable(n.log, RequestFragment(m))
    /\ p.log = Merged(n.log, RequestFragment(m))

\* A request carries the end of a log.
PieceOf(g, log) ==
    \E next \in 1 .. LastIndex(log) + 1 :
        /\ g.prevLogIndex = next - 1
        /\ g.prevLogTerm = TermIn(LogFragment(log), next - 1)
        /\ g.entries = SubSeq(log.entries, next, Len(log.entries))

AppendSent(i, p, g) ==
    /\ g.type = "AppendRequest" /\ g.from = i /\ g.term = p.currentTerm
    /\ p.role = "Leader" /\ PieceOf(g, p.log) /\ g.leaderCommit <= p.commitIndex

\* next_index stays within the log and one behind it; match_index stays within the
\* log, and another server's was acknowledged.
IndicesOK(i, n, M) ==
    \A j \in Server :
        /\ n.nextIndex[j] \in 1 .. LastIndex(n.log) + 1
        /\ n.matchIndex[j] <= LastIndex(n.log)
        /\ \/ j = i \/ n.matchIndex[j] = 0
           \/ \E m \in M : /\ IsAck(m) /\ m.from = j /\ m.term = n.currentTerm
                           /\ m.matchIndex = n.matchIndex[j]

\* A leader's log ends with an entry of its term.
LeaderOK(i, n, M) ==
    n.role = "Leader" =>
        LastIndex(n.log) >= 1 /\ LastTerm(n.log) = n.currentTerm /\ IndicesOK(i, n, M)

\* What a handler may rely on.
AcksBelow(n, M) ==
    n.role = "Leader" =>
        \A m \in M : IsAck(m) /\ m.term = n.currentTerm => m.matchIndex <= LastIndex(n.log)

\* Nobody has sent a snapshot.
NoSnapshotIn(M) ==
    \A m \in M : m.type \notin {"InstallSnapshotRequest", "InstallSnapshotResponse"}

\* A request that starts at the first entry says so in its term, too.
RequestsGrounded(M) ==
    \A m \in M : m.type = "AppendRequest" /\ m.prevLogIndex = 0 => m.prevLogTerm = 0

\* The three together.
Ready(i, n, M) == Flat(n.log) /\ LeaderOK(i, n, M) /\ AcksBelow(n, M)

\* A candidacy is new or goes on; leading begins with a candidacy.
RoleStep(n, p) ==
    /\ p.role = "Candidate" => \/ p.currentTerm > n.currentTerm
                               \/ p.currentTerm = n.currentTerm /\ n.role = "Candidate"
    /\ p.role = "Leader" => \/ p.currentTerm > n.currentTerm
                            \/ p.currentTerm = n.currentTerm /\ n.role # "Follower"

\* The log stays, grows by a leader's own entry, or takes over a request.
LogChange(i, n, p, M) ==
    \/ /\ p.log = n.log
       /\ p.role = "Leader" => n.role = "Leader" /\ p.currentTerm = n.currentTerm
    \/ /\ p.role = "Leader"
       /\ \E c \in Command : p.log = AppendEntry(n.log, [term |-> p.currentTerm, command |-> c])
    \/ \E m \in M : Accepts(i, n, p, m)

\* What is sent says of the sender's log what is true of it.
Sent(i, n, p, g, M) ==
    /\ g.type \notin {"InstallSnapshotRequest", "InstallSnapshotResponse"}
    /\ g.type = "VoteRequest" =>
          /\ g.from = i /\ g.term = p.currentTerm
          /\ g.lastLogIndex = LastIndex(p.log) /\ g.lastLogTerm = LastTerm(p.log)
    /\ Grants(g) =>
          /\ g.from = i /\ g.term = p.currentTerm /\ p.log = n.log
          /\ \E m \in M : /\ m.type = "VoteRequest" /\ m.from = g.to /\ m.term = g.term
                          /\ LogIsUpToDate(n, m)
    /\ g.type = "AppendRequest" => AppendSent(i, p, g)
    /\ IsAck(g) =>
          /\ g.from = i /\ g.term = p.currentTerm /\ g.matchIndex = LastIndex(p.log)
          /\ \E m \in M : Accepts(i, n, p, m)

\* What a handler does to the log of node n, which becomes p, and what it sends.
LogStep(i, n, p, out, M) ==
    /\ Flat(p.log) /\ RoleStep(n, p) /\ LogChange(i, n, p, M) /\ LeaderOK(i, p, M)
    /\ \A g \in out : Sent(i, n, p, g, M)

\* commit_index moves from c to an entry of the leader's term on a quorum.
LeaderCommits(c, p) ==
    /\ p.role = "Leader" /\ p.commitIndex > c /\ p.commitIndex <= LastIndex(p.log)
    /\ TermAt(p.log, p.commitIndex) = p.currentTerm
    /\ IsQuorum({s \in Server : p.matchIndex[s] >= p.commitIndex})

\* commit_index stays, is moved by a leader, or follows the leader's.
CommitStep(i, n, p, M) ==
    \/ p.commitIndex = n.commitIndex
    \/ LeaderCommits(n.commitIndex, p)
    \/ \E m \in M : /\ Accepts(i, n, p, m) /\ m.leaderCommit > n.commitIndex
                    /\ p.commitIndex = Min({m.leaderCommit, LastIndex(p.log)})

-----------------------------------------------------------------------------
(* Points.                                                                  *)

\* Server j stands in term u.
Candidate(nd, j, u) == nd[j].role = "Candidate" /\ nd[j].currentTerm = u

=============================================================================
