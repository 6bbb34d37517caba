--------------------------- MODULE RaftTreeProofs ---------------------------
(***************************************************************************)
(* What follows for the logs of an odd group when every server keeps to    *)
(* LogStep.                                                                *)
(*                                                                         *)
(* The logs and the AppendRequests are one set of links.  Only a leader's  *)
(* own append makes a new link; sending, merging, truncating and           *)
(* restarting only copy links or drop them.  A term has one leader, so an  *)
(* index and a term have one link, and two logs that share a link agree on *)
(* everything below it.                                                    *)
(***************************************************************************)
EXTENDS RaftSteps

-----------------------------------------------------------------------------
(* Fragments of a log: entries behind an index, and the term at that index. *)

\* An index and a term have one link; terms do not fall along a link; the entries of a
\* term are contiguous.
UniqueIn(S) == \A a, b \in S : a.index = b.index /\ a.entry.term = b.entry.term => a = b

OrderedIn(S) == \A a \in S : a.before <= a.entry.term

ContiguousIn(S) ==
    \A a, b \in S : a.entry.term = b.entry.term /\ a.index < b.index => b.before = b.entry.term

\* The link above an index points down to it.
LEMMA LinkAbove ==
    ASSUME NEW f \in Fragment, NEW h \in Nat, Spans(f, h + 1)
    PROVE  LinkAt(f, h + 1).before = TermIn(f, h)
<1>1. LinkAt(f, h + 1).before = TermIn(f, h + 1 - 1)
  BY AtIndex, SMTT(30)
<1>2. h + 1 - 1 = h
  BY SMTT(30)
<1> QED
  BY <1>1, <1>2, Zenon

\* A link of a fragment, by its index.
LEMMA LinkFields ==
    ASSUME NEW f \in Fragment, NEW a \in LinksOf(f)
    PROVE  Spans(f, a.index) /\ a.index \in Nat /\ a = LinkAt(f, a.index)
<1>1. PICK k \in f.base + 1 .. EndOf(f) : a = LinkAt(f, k)
  BY Zenon DEF LinksOf
<1>2. k \in Nat /\ Spans(f, k)
  BY FragmentType, SMTT(30) DEF Spans
<1> QED
  BY <1>1, <1>2, AtIndex, Zenon

\* Two fragments with the same term at an index hold the same entries from there
\* down: the largest index at which their terms differ would have equal links above.
LEMMA Agree ==
    ASSUME NatWellOrdered, NEW S, UniqueIn(S), NEW f \in Fragment, NEW g \in Fragment,
           LinksOf(f) \subseteq S, LinksOf(g) \subseteq S,
           NEW k \in Nat, Spans(f, k), Spans(g, k), TermIn(f, k) = TermIn(g, k)
    PROVE  /\ \A h \in Nat : h >= f.base /\ h >= g.base /\ h <= k => TermIn(f, h) = TermIn(g, h)
           /\ \A h \in Nat : h > f.base /\ h > g.base /\ h <= k =>
                 f.entries[h - f.base] = g.entries[h - g.base]
<1> DEFINE Bad == {h \in Nat : h >= f.base /\ h >= g.base /\ h <= k /\ TermIn(f, h) # TermIn(g, h)}
<1>0. f.base \in Nat /\ g.base \in Nat /\ EndOf(f) \in Nat /\ EndOf(g) \in Nat
  BY FragmentType, Zenon
<1>1. ASSUME NEW h \in Nat, h > f.base, h > g.base, h <= k, TermIn(f, h) = TermIn(g, h)
      PROVE  LinkAt(f, h) = LinkAt(g, h)
  <2>1. Spans(f, h) /\ Spans(g, h)
    BY <1>0, <1>1, SMTT(30) DEF Spans
  <2>2. LinkAt(f, h) \in S /\ LinkAt(g, h) \in S
    BY <2>1, AtIndex, Zenon
  <2>3. LinkAt(f, h).index = LinkAt(g, h).index
    BY <2>1, AtIndex, SMTT(30)
  <2>4. LinkAt(f, h).entry.term = LinkAt(g, h).entry.term
    BY <1>1, <2>1, AtIndex, SMTT(30)
  <2> QED
    BY <2>2, <2>3, <2>4, Zenon DEF UniqueIn
<1>2. Bad = {}
  <2> SUFFICES ASSUME Bad # {} PROVE FALSE
    BY Zenon
  <2>1. Bad \subseteq Nat /\ \A y \in Bad : y <= k
    BY Zenon
  <2> DEFINE h == Max(Bad)
  <2>2. h \in Bad /\ \A y \in Bad : h >= y
    BY <2>1, MaxNat, Zenon
  <2> HIDE DEF h
  <2>3. h \in Nat /\ h >= f.base /\ h >= g.base /\ h < k
    BY <2>2, SMTT(30)
  <2>4. h + 1 \notin Bad
    BY <2>2, <2>3, SMTT(30)
  <2>5. TermIn(f, h + 1) = TermIn(g, h + 1)
    BY <1>0, <2>3, <2>4, SMTT(30)
  <2>6. LinkAt(f, h + 1) = LinkAt(g, h + 1)
    BY <1>0, <1>1, <2>3, <2>5, SMTT(30)
  <2>7. LinkAt(f, h + 1).before = TermIn(f, h) /\ LinkAt(g, h + 1).before = TermIn(g, h)
    <3>0. h + 1 \in Nat /\ Spans(f, h + 1) /\ Spans(g, h + 1)
      BY <1>0, <2>3, SMTT(30) DEF Spans
    <3> QED
      BY <2>3, <3>0, LinkAbove, Zenon
  <2> QED
    BY <2>2, <2>6, <2>7, Zenon
<1>3. \A h \in Nat : h >= f.base /\ h >= g.base /\ h <= k => TermIn(f, h) = TermIn(g, h)
  BY <1>2, Zenon
<1>4. ASSUME NEW h \in Nat, h > f.base, h > g.base, h <= k
      PROVE  f.entries[h - f.base] = g.entries[h - g.base]
  <2>1. LinkAt(f, h) = LinkAt(g, h)
    BY <1>0, <1>1, <1>3, <1>4, SMTT(30)
  <2> QED
    BY <2>1, Zenon DEF LinkAt
<1> QED
  BY <1>3, <1>4, Zenon

\* Terms never fall along a fragment.
LEMMA TermsGrow ==
    ASSUME NatWellOrdered, NEW S, OrderedIn(S), NEW f \in Fragment, LinksOf(f) \subseteq S,
           NEW h \in Nat, NEW k \in Nat, f.base <= h, h <= k, k <= EndOf(f)
    PROVE  TermIn(f, h) <= TermIn(f, k)
<1> DEFINE Bad == {j \in Nat : h <= j /\ j <= k /\ ~(TermIn(f, h) <= TermIn(f, j))}
<1> SUFFICES ASSUME Bad # {} PROVE FALSE
  BY SMTT(30)
<1>0. f.base \in Nat /\ EndOf(f) \in Nat /\ \A j \in f.base .. EndOf(f) : TermIn(f, j) \in Nat
  BY FragmentType, TermInType, Zenon
<1>1. Bad \subseteq Nat
  BY Zenon
<1> DEFINE j == Min(Bad)
<1>2. j \in Bad /\ \A y \in Bad : j <= y
  BY <1>1, MinNat, Zenon
<1> HIDE DEF j
<1>3. j \in Nat /\ h <= j /\ j <= k /\ ~(TermIn(f, h) <= TermIn(f, j))
  BY <1>2, Zenon
<1>4. j # h
  BY <1>0, <1>3, SMTT(30)
<1>5. j - 1 \in Nat /\ h <= j - 1 /\ j - 1 \notin Bad
  BY <1>2, <1>3, <1>4, SMTT(30)
<1>6. TermIn(f, h) <= TermIn(f, j - 1)
  BY <1>3, <1>5, SMTT(30)
<1>7. Spans(f, j)
  BY <1>0, <1>3, <1>4, SMTT(30) DEF Spans
<1>8. /\ LinkAt(f, j) \in S /\ LinkAt(f, j).entry.term = TermIn(f, j)
      /\ LinkAt(f, j).before = TermIn(f, j - 1)
  BY <1>3, <1>7, AtIndex, Zenon
<1>9. TermIn(f, j - 1) <= TermIn(f, j)
  BY <1>8, Zenon DEF OrderedIn
<1>10. TermIn(f, h) \in Nat /\ TermIn(f, j - 1) \in Nat /\ TermIn(f, j) \in Nat
  BY <1>0, <1>3, <1>5, SMTT(30)
<1> QED
  BY <1>3, <1>6, <1>9, <1>10, SMTT(30)

\* A fragment that ends its hold of a term at b holds that term from the first index
\* at which any link has it.
LEMMA Span ==
    ASSUME NatWellOrdered, NEW S, ContiguousIn(S), NEW f \in Fragment, LinksOf(f) \subseteq S,
           NEW x \in S, NEW a \in Nat, NEW b \in Nat, x.index = a, f.base <= a, a <= b,
           Spans(f, b), TermIn(f, b) = x.entry.term
    PROVE  TermIn(f, a) = x.entry.term
<1> DEFINE t == x.entry.term
           Bad == {j \in Nat : a <= j /\ j <= b /\ TermIn(f, j) # t}
<1> SUFFICES ASSUME Bad # {} PROVE FALSE
  BY SMTT(30)
<1>0. f.base \in Nat /\ EndOf(f) \in Nat
  BY FragmentType, Zenon
<1>1. Bad \subseteq Nat /\ \A y \in Bad : y <= b
  BY Zenon
<1> DEFINE j == Max(Bad)
<1>2. j \in Bad /\ \A y \in Bad : j >= y
  BY <1>1, MaxNat, Zenon
<1> HIDE DEF j
<1>3. j \in Nat /\ a <= j /\ j < b /\ TermIn(f, j) # t
  BY <1>2, SMTT(30)
<1>4. j + 1 \notin Bad
  BY <1>2, <1>3, SMTT(30)
<1>5. TermIn(f, j + 1) = t /\ Spans(f, j + 1)
  BY <1>0, <1>3, <1>4, SMTT(30) DEF Spans
<1>6. /\ LinkAt(f, j + 1) \in S /\ LinkAt(f, j + 1).index = j + 1
      /\ LinkAt(f, j + 1).entry.term = t /\ LinkAt(f, j + 1).before = TermIn(f, j)
  BY <1>3, <1>5, AtIndex, LinkAbove, SMTT(30)
<1>7. a < j + 1
  BY <1>3, SMTT(30)
<1> QED
  BY <1>3, <1>6, <1>7, Zenon DEF ContiguousIn

\* If no link of a term above T hangs on anything but (k.., T) or a term above T, a
\* fragment that goes from at most T to above T passes T at k or later.
LEMMA Passes ==
    ASSUME NatWellOrdered, NEW S, NEW T \in Nat, NEW k \in Nat,
           \A a \in S : a.entry.term > T => a.before > T \/ (a.before = T /\ a.index > k),
           NEW f \in Fragment, LinksOf(f) \subseteq S, f.before <= T,
           NEW e \in Nat, Spans(f, e), TermIn(f, e) > T
    PROVE  \E j \in f.base .. EndOf(f) : j >= k /\ j < e /\ TermIn(f, j) = T
<1> DEFINE Bad == {j \in Nat : f.base <= j /\ j <= e /\ TermIn(f, j) > T}
<1>0. /\ f.base \in Nat /\ EndOf(f) \in Nat /\ e > f.base /\ e <= EndOf(f)
      /\ \A j \in f.base .. EndOf(f) : TermIn(f, j) \in Nat
  BY FragmentType, TermInType, AtIndex, Zenon
<1>1. Bad \subseteq Nat /\ e \in Bad
  BY <1>0, SMTT(30)
<1> DEFINE j == Min(Bad)
<1>2. j \in Bad /\ \A y \in Bad : j <= y
  BY <1>1, MinNat, Zenon
<1> HIDE DEF j
<1>3. j \in Nat /\ f.base <= j /\ j <= e /\ TermIn(f, j) > T
  BY <1>2, Zenon
<1>4. j # f.base
  BY <1>0, <1>3, SMTT(30) DEF TermIn, Fragment
<1>5. j - 1 \in Nat /\ f.base <= j - 1 /\ j - 1 \notin Bad
  BY <1>0, <1>2, <1>3, <1>4, SMTT(30)
<1>6. ~(TermIn(f, j - 1) > T)
  BY <1>3, <1>5, SMTT(30)
<1>7. Spans(f, j)
  BY <1>0, <1>3, <1>4, SMTT(30) DEF Spans
<1>8. /\ LinkAt(f, j) \in S /\ LinkAt(f, j).entry.term > T /\ LinkAt(f, j).index = j
      /\ LinkAt(f, j).before = TermIn(f, j - 1)
  BY <1>3, <1>7, AtIndex, Zenon
<1>9. TermIn(f, j - 1) = T /\ j > k
  BY <1>6, <1>8, Zenon
<1> QED
  BY <1>0, <1>3, <1>5, <1>9, SMTT(30)

-----------------------------------------------------------------------------
(* Logs that were never compacted, and what on_append_request does to one.  *)

\* A merge makes no link: what it cuts off is replaced by the request's own, and
\* the two parts meet at an index at which their terms agree.
LEMMA MergeLinks ==
    ASSUME NatWellOrdered, NEW log, NEW f, Mergeable(log, f)
    PROVE  /\ LinksOf(LogFragment(Merged(log, f))) \subseteq LinksOf(LogFragment(log)) \cup LinksOf(f)
           /\ EndOf(f) <= LastIndex(Merged(log, f))
           /\ TermIn(LogFragment(Merged(log, f)), EndOf(f)) = TermIn(f, EndOf(f))
<1> DEFINE q == Merged(log, f)
           g == LogFragment(log)
           h == LogFragment(q)
<1>0. log \in LogType /\ Flat(log) /\ f \in Fragment
  BY Zenon DEF Mergeable
<1>1. /\ q \in LogType /\ Flat(q)
      /\ \/ /\ q = log /\ EndOf(f) <= LastIndex(log)
            /\ \A k \in f.base .. EndOf(f) : TermIn(g, k) = TermIn(f, k)
         \/ \E c \in Nat : CutAt(log, f, q, c)
  BY MergeFlat, Zenon DEF Mergeable, Merged
<1> HIDE DEF q
<1>2. /\ g \in Fragment /\ g.base = 0 /\ g.before = 0 /\ g.entries = log.entries
      /\ LastIndex(log) = Len(log.entries) /\ Len(log.entries) \in Nat /\ EndOf(g) = Len(log.entries)
  BY <1>0, FlatLog, Zenon
<1>3. /\ h \in Fragment /\ h.base = 0 /\ h.before = 0 /\ h.entries = q.entries
      /\ LastIndex(q) = Len(q.entries) /\ Len(q.entries) \in Nat /\ EndOf(h) = Len(q.entries)
  BY <1>1, FlatLog, Zenon
<1>4. f.base \in Nat /\ EndOf(f) \in Nat /\ EndOf(f) >= f.base
  BY <1>0, FragmentType, Zenon
<1>5. CASE /\ q = log /\ EndOf(f) <= LastIndex(log)
           /\ \A k \in f.base .. EndOf(f) : TermIn(g, k) = TermIn(f, k)
  BY <1>4, <1>5, SMTT(30) DEF q
<1>6. CASE \E c \in Nat : CutAt(log, f, q, c)
  <2>1. PICK c \in Nat : CutAt(log, f, q, c)
    BY <1>6, Zenon
  <2>2. /\ c > f.base /\ c >= 1 /\ c <= EndOf(f) /\ c <= Len(log.entries) + 1
        /\ Len(q.entries) = EndOf(f)
        /\ \A k \in 1 .. c - 1 : q.entries[k] = log.entries[k]
        /\ \A k \in c .. EndOf(f) : q.entries[k] = f.entries[k - f.base]
        /\ \A k \in f.base .. c - 1 : TermIn(g, k) = TermIn(f, k)
    BY <1>2, <1>4, <2>1, SMTT(30) DEF CutAt, Spans
  <2>3. ASSUME NEW k \in 0 .. c - 1 PROVE TermIn(h, k) = TermIn(g, k)
    <3>1. CASE k = 0
      BY <1>2, <1>3, <3>1, Zenon DEF TermIn
    <3>2. CASE k # 0
      <4>1. k \in 1 .. c - 1 /\ k - 0 = k
        BY <3>2, SMTT(30)
      <4>2. TermIn(h, k) = q.entries[k].term /\ TermIn(g, k) = log.entries[k].term
        BY <1>2, <1>3, <4>1, SMTT(30) DEF TermIn
      <4> QED
        BY <2>2, <4>1, <4>2, Zenon
    <3> QED
      BY <3>1, <3>2, Zenon
  <2>4. ASSUME NEW k \in c .. EndOf(f)
        PROVE  /\ k \in Nat /\ Spans(f, k) /\ Spans(h, k) /\ h.entries[k - h.base] = f.entries[k - f.base]
               /\ TermIn(h, k) = TermIn(f, k)
    <3>1. k \in Nat /\ Spans(f, k) /\ Spans(h, k) /\ k - 0 = k
      BY <1>3, <1>4, <2>2, SMTT(30) DEF Spans
    <3>2. h.entries[k - h.base] = f.entries[k - f.base]
      BY <1>3, <2>2, <3>1, Zenon
    <3>3. TermIn(f, k) = f.entries[k - f.base].term
      BY <1>0, <3>1, AtIndex, Zenon
    <3>4. TermIn(h, k) = h.entries[k - h.base].term
      BY <1>3, <3>1, AtIndex, Zenon
    <3> QED
      BY <3>1, <3>2, <3>3, <3>4, Zenon
  <2>5. ASSUME NEW k \in f.base .. EndOf(f) PROVE TermIn(h, k) = TermIn(f, k)
    <3>1. CASE k < c
      <4>1. k \in 0 .. c - 1 /\ k \in f.base .. c - 1
        BY <1>4, <3>1, SMTT(30)
      <4> QED
        BY <2>2, <2>3, <4>1, Zenon
    <3>2. CASE ~(k < c)
      <4>1. k \in c .. EndOf(f)
        BY <1>4, <3>2, SMTT(30)
      <4> QED
        BY <2>4, <4>1, Zenon
    <3> QED
      BY <3>1, <3>2, Zenon
  <2>6. ASSUME NEW a \in LinksOf(h) PROVE a \in LinksOf(g) \cup LinksOf(f)
    <3> DEFINE k == a.index
    <3>1. k \in Nat /\ Spans(h, k) /\ a = LinkAt(h, k)
      BY <1>3, LinkFields, Zenon
    <3> HIDE DEF k
    <3>2. k >= 1 /\ k <= EndOf(f)
      BY <1>3, <2>2, <3>1, SMTT(30) DEF Spans
    <3>3. a = [index |-> k, entry |-> h.entries[k - h.base], before |-> TermIn(h, k - 1)]
      BY <3>1, Zenon DEF LinkAt
    <3>4. CASE k < c
      <4>1. k \in 1 .. c - 1 /\ k - 1 \in 0 .. c - 1 /\ Spans(g, k) /\ k - 0 = k
        BY <1>2, <2>2, <3>1, <3>2, <3>4, SMTT(30) DEF Spans
      <4>2. TermIn(h, k - 1) = TermIn(g, k - 1) /\ h.entries[k - h.base] = g.entries[k - g.base]
        BY <1>2, <1>3, <2>2, <2>3, <4>1, Zenon
      <4>3. a = LinkAt(g, k)
        BY <3>3, <4>2, Zenon DEF LinkAt
      <4> QED
        BY <1>2, <3>1, <4>1, <4>3, AtIndex, SMTT(30)
    <3>5. CASE ~(k < c)
      <4>1. k \in c .. EndOf(f) /\ k - 1 \in f.base .. EndOf(f)
        BY <1>4, <2>2, <3>1, <3>2, <3>5, SMTT(30)
      <4>2. TermIn(h, k - 1) = TermIn(f, k - 1) /\ h.entries[k - h.base] = f.entries[k - f.base] /\ Spans(f, k)
        BY <2>4, <2>5, <4>1, Zenon
      <4>3. a = LinkAt(f, k)
        BY <3>3, <4>2, Zenon DEF LinkAt
      <4> QED
        BY <1>0, <3>1, <4>2, <4>3, AtIndex, SMTT(30)
    <3> QED
      BY <3>4, <3>5, Zenon
  <2>7. EndOf(f) \in f.base .. EndOf(f)
    BY <1>4, SMTT(30)
  <2> QED
    BY <1>3, <2>2, <2>5, <2>6, <2>7, SMTT(30) DEF q
<1> QED
  BY <1>1, <1>5, <1>6, Zenon

\* A merge keeps every entry up to an index at which log and request agree.
LEMMA MergeKeeps ==
    ASSUME NatWellOrdered, NEW S, UniqueIn(S), NEW log, NEW f, Mergeable(log, f),
           LinksOf(LogFragment(log)) \subseteq S, LinksOf(f) \subseteq S,
           NEW e \in Nat, e <= LastIndex(log),
           e <= f.base \/ (Spans(f, e) /\ TermIn(f, e) = TermIn(LogFragment(log), e))
    PROVE  /\ e <= LastIndex(Merged(log, f))
           /\ \A k \in 1 .. e : Merged(log, f).entries[k] = log.entries[k]
           /\ e = EndOf(f) => Merged(log, f) = log
<1> DEFINE q == Merged(log, f)
           g == LogFragment(log)
<1>0. log \in LogType /\ Flat(log) /\ f \in Fragment
  BY Zenon DEF Mergeable
<1>1. /\ q \in LogType /\ Flat(q)
      /\ q = log \/ \E c \in Nat : CutAt(log, f, q, c)
  BY MergeFlat, Zenon DEF Mergeable, Merged
<1> HIDE DEF q
<1>2. /\ g \in Fragment /\ g.base = 0 /\ LastIndex(log) = Len(log.entries)
      /\ Len(log.entries) \in Nat /\ EndOf(g) = Len(log.entries)
  BY <1>0, FlatLog, Zenon
<1>3. f.base \in Nat /\ EndOf(f) \in Nat
  BY <1>0, FragmentType, Zenon
<1>4. ASSUME NEW c \in Nat, CutAt(log, f, q, c) PROVE e < c
  <2> SUFFICES ASSUME ~(e < c) PROVE FALSE
    BY Zenon
  <2>1. c > f.base /\ c <= EndOf(f) /\ (c <= LastIndex(log) => TermIn(g, c) # TermIn(f, c))
    BY <1>3, <1>4, SMTT(30) DEF CutAt, Spans
  <2>2. Spans(f, e) /\ TermIn(f, e) = TermIn(g, e) /\ Spans(g, e)
    BY <1>2, <1>3, <2>1, SMTT(30) DEF Spans
  <2>3. TermIn(f, c) = TermIn(g, c)
    BY <1>0, <1>2, <1>3, <2>1, <2>2, Agree, SMTT(30)
  <2> QED
    BY <1>2, <2>1, <2>3, SMTT(30)
<1>5. CASE q = log
  BY <1>5, Zenon DEF q
<1>6. CASE \E c \in Nat : CutAt(log, f, q, c)
  <2>1. PICK c \in Nat : CutAt(log, f, q, c)
    BY <1>6, Zenon
  <2>2. e < c
    BY <1>4, <2>1, Zenon
  <2>3. /\ c <= EndOf(f) /\ Len(q.entries) = EndOf(f) /\ LastIndex(q) = Len(q.entries)
        /\ \A k \in 1 .. c - 1 : q.entries[k] = log.entries[k]
    BY <1>1, <1>3, <2>1, FlatLog, SMTT(30) DEF CutAt, Spans
  <2> QED
    BY <1>3, <2>2, <2>3, SMTT(30) DEF q
<1> QED
  BY <1>1, <1>5, <1>6, Zenon

\* A merge keeps an entry of the term the request ends in, and one of a lower term
\* that every link of a higher term is known to sit above.
LEMMA MergeKeepsPoint ==
    ASSUME NatWellOrdered, NEW S, UniqueIn(S), OrderedIn(S), ContiguousIn(S), NEW log, NEW f, Mergeable(log, f),
           LinksOf(LogFragment(log)) \subseteq S, LinksOf(f) \subseteq S,
           NEW k \in Nat, Spans(LogFragment(log), k), NEW T \in Nat,
           TermIn(LogFragment(log), k) = T,
           \/ T = TermIn(f, EndOf(f))
           \/ /\ T < TermIn(f, EndOf(f))
              /\ \A a \in S : a.entry.term > T => a.before > T \/ (a.before = T /\ a.index > k)
    PROVE  /\ k <= LastIndex(Merged(log, f))
           /\ \A h \in 1 .. k : Merged(log, f).entries[h] = log.entries[h]
<1> DEFINE g == LogFragment(log)
           e == EndOf(f)
           x == LinkAt(g, k)
<1>0. log \in LogType /\ Flat(log) /\ f \in Fragment /\ f.base <= LastIndex(log) /\ TermIn(g, f.base) = f.before
  BY Zenon DEF Mergeable
<1>1. /\ g \in Fragment /\ g.base = 0 /\ LastIndex(log) = Len(log.entries)
      /\ Len(log.entries) \in Nat /\ EndOf(g) = Len(log.entries)
  BY <1>0, FlatLog, Zenon
<1>2. f.base \in Nat /\ e \in Nat /\ e >= f.base /\ f.before \in Nat
  BY <1>0, FragmentType, Zenon
<1>3. k <= LastIndex(log) /\ k >= 1 /\ x \in S /\ x.index = k /\ x.entry.term = T
  BY <1>1, AtIndex, SMTT(30)
<1> HIDE DEF x, e
<1>4. CASE k <= f.base
  BY <1>3, <1>4, MergeKeeps, SMTT(30)
<1>5. ASSUME k > f.base, Spans(f, k), TermIn(f, k) = T
      PROVE  /\ k <= LastIndex(Merged(log, f))
             /\ \A h \in 1 .. k : Merged(log, f).entries[h] = log.entries[h]
  BY <1>3, <1>5, MergeKeeps, SMTT(30)
<1>6. CASE k > f.base /\ T = TermIn(f, e)
  <2>1. CASE e >= k
    <3>1. Spans(f, k) /\ Spans(f, e)
      BY <1>2, <1>6, <2>1, SMTT(30) DEF Spans, e
    <3>2. TermIn(f, k) = T
      BY <1>0, <1>2, <1>3, <1>6, <2>1, <3>1, Span, SMTT(30)
    <3> QED
      BY <1>5, <1>6, <3>1, <3>2, Zenon
  <2>2. CASE e < k /\ e > f.base
    <3>1. Spans(f, e) /\ e <= LastIndex(log)
      BY <1>1, <1>2, <1>3, <2>2, SMTT(30) DEF Spans, e
    <3>2. LinkAt(f, e) \in S /\ LinkAt(f, e).index = e /\ LinkAt(f, e).entry.term = T
      BY <1>0, <1>2, <1>6, <3>1, AtIndex, Zenon
    <3>3. TermIn(g, e) = T
      BY <1>1, <1>2, <2>2, <3>2, Span, SMTT(30)
    <3>4. Merged(log, f) = log
      BY <1>2, <1>6, <3>1, <3>3, MergeKeeps, Zenon DEF e
    <3> QED
      BY <1>3, <3>4, Zenon
  <2>3. CASE e = f.base
    <3>1. Merged(log, f) = log
      BY <1>0, <1>2, <2>3, MergeKeeps, Zenon DEF e
    <3> QED
      BY <1>3, <3>1, Zenon
  <2> QED
    BY <1>2, <2>1, <2>2, <2>3, SMTT(30)
<1>7. CASE /\ k > f.base /\ T < TermIn(f, e)
           /\ \A a \in S : a.entry.term > T => a.before > T \/ (a.before = T /\ a.index > k)
  <2>1. f.before <= T
    BY <1>0, <1>1, <1>2, <1>3, <1>7, TermsGrow, SMTT(30)
  <2>2. e # f.base
    BY <1>2, <1>7, <2>1, SMTT(30) DEF TermIn
  <2>3. Spans(f, e) /\ TermIn(f, e) \in Nat
    <3>1. Spans(f, e)
      BY <1>2, <2>2, SMTT(30) DEF Spans, e
    <3> QED
      BY <1>0, <1>2, <3>1, AtIndex, Zenon
  <2>4. PICK j \in f.base .. EndOf(f) : j >= k /\ j < e /\ TermIn(f, j) = T
    <3>1. TermIn(f, e) > T
      BY <1>7, <2>3, Zenon
    <3>2. \A a \in S : a.entry.term > T => a.before > T \/ (a.before = T /\ a.index > k)
      BY <1>7, Zenon
    <3>3. f \in Fragment /\ e \in Nat /\ k \in Nat /\ T \in Nat /\ LinksOf(f) \subseteq S
      BY <1>0, <1>2, Zenon
    <3> QED
      BY ONLY NatWellOrdered, <2>1, <2>3, <3>1, <3>2, <3>3, Passes, SMTT(30)
  <2>5. j \in Nat /\ Spans(f, j) /\ Spans(f, k)
    BY <1>2, <1>7, <2>4, SMTT(30) DEF Spans, e
  <2>6. TermIn(f, k) = T
    BY <1>0, <1>2, <1>3, <1>7, <2>4, <2>5, Span, SMTT(30)
  <2> QED
    BY <1>5, <1>7, <2>5, <2>6, Zenon
<1> QED
  BY <1>2, <1>4, <1>6, <1>7, SMTT(30) DEF e

-----------------------------------------------------------------------------
(* Who was elected.  From here on nd stands for the nodes of the group and  *)
(* M for the messages sent, so that a lemma can be used before and after a  *)
(* step.                                                                    *)

\* Who has voted for c in term t.
Voters(M, c, t) ==
    {s \in Server : s = c \/ \E g \in M : Grants(g) /\ g.from = s /\ g.to = c /\ g.term = t}

\* Server c has won, or given away, its election in term t: it has a quorum, and it
\* neither is a candidate of the term any more nor votes for another in it.
Elected(nd, M, c, t) ==
    /\ IsQuorum(Voters(M, c, t))
    /\ nd[c].currentTerm >= t
    /\ nd[c].currentTerm = t => nd[c].votedFor = c /\ nd[c].role # "Candidate"
    /\ \A g \in M : Grants(g) /\ g.from = c /\ g.term = t => g.to = c

\* Server i leads term t.
Leads(nd, i, t) == nd[i].role = "Leader" /\ nd[i].currentTerm = t

\* VotesAreBacked, of nd and M, and what it is to count votes.
Backed(nd, M) ==
    /\ WideningQuorums
    /\ \A g \in M : Grants(g) =>
          \/ nd[g.from].currentTerm > g.term
          \/ nd[g.from].currentTerm = g.term /\ nd[g.from].votedFor = g.to
    /\ \A g, h \in M :
          (Grants(g) /\ Grants(h) /\ g.from = h.from /\ g.term = h.term) => g.to = h.to
    /\ \A i \in Server : BallotOK(i, nd[i], M)

\* Terms do not fall, nor votes change within a term.
BallotKept(n, p) ==
    /\ p.currentTerm >= n.currentTerm
    /\ p.currentTerm = n.currentTerm /\ n.votedFor # Nil => p.votedFor = n.votedFor

\* A step of server i, from nd and M to ne and N, as the argument needs it.
Step(nd, M, ne, N, i, out) ==
    /\ nd \in [Server -> NodeType] /\ ne \in [Server -> NodeType]
    /\ M \in SUBSET Message /\ N \in SUBSET Message
    /\ i \in Server /\ N = M \cup out
    /\ \A j \in Server : j # i => ne[j] = nd[j]
    /\ LogStep(i, nd[i], ne[i], out, M)
    /\ Backed(nd, M) /\ Backed(ne, N)
    /\ \A j \in Server : BallotKept(nd[j], ne[j])

\* A term elects one server.
LEMMA ElectedOnce ==
    ASSUME MeetingQuorums, NEW nd, NEW M, Backed(nd, M), NEW c \in Server, NEW d \in Server, NEW t,
           Elected(nd, M, c, t), Elected(nd, M, d, t)
    PROVE  c = d
<1>1. Voters(M, c, t) \in SUBSET Server /\ Voters(M, d, t) \in SUBSET Server
  BY Zenon DEF Voters
<1>2. PICK s \in Server : s \in Voters(M, c, t) /\ s \in Voters(M, d, t)
  BY <1>1, Zenon DEF Elected, MeetingQuorums
<1>3. s = c \/ \E g \in M : Grants(g) /\ g.from = s /\ g.to = c /\ g.term = t
  BY <1>2, Zenon DEF Voters
<1>4. s = d \/ \E g \in M : Grants(g) /\ g.from = s /\ g.to = d /\ g.term = t
  BY <1>2, Zenon DEF Voters
<1> QED
  BY <1>3, <1>4, Zenon DEF Elected, Backed

\* Who leads was elected.
LEMMA LeaderElected ==
    ASSUME NEW nd \in [Server -> NodeType], NEW M, Backed(nd, M), NEW i \in Server, NEW t, Leads(nd, i, t)
    PROVE  Elected(nd, M, i, t)
<1>1. /\ nd[i].role = "Leader" /\ nd[i].currentTerm = t /\ BallotOK(i, nd[i], M)
      /\ nd[i].votesReceived \in SUBSET Server /\ t \in Nat
  BY Zenon DEF Leads, Backed, NodeType
<1>2. /\ nd[i].votedFor = i /\ IsQuorum(nd[i].votesReceived)
      /\ \A j \in nd[i].votesReceived \ {i} : \E m \in M :
            Grants(m) /\ m.from = j /\ m.to = i /\ m.term = nd[i].currentTerm
  BY <1>1, Zenon DEF BallotOK
<1>3. nd[i].votesReceived \subseteq Voters(M, i, t)
  BY <1>1, <1>2, Zenon DEF Voters
<1>4. IsQuorum(Voters(M, i, t))
  <2>1. Voters(M, i, t) \in SUBSET Server
    BY Zenon DEF Voters
  <2> QED
    BY <1>1, <1>2, <1>3, <2>1, Zenon DEF Backed, WideningQuorums
<1>5. \A g \in M : Grants(g) /\ g.from = i /\ g.term = t => g.to = i
  BY <1>1, <1>2, SMTT(30) DEF Backed
<1> QED
  BY <1>1, <1>2, <1>4, <1>5, SMTT(30) DEF Elected

\* An election stays won.
LEMMA ElectedKept ==
    ASSUME NEW nd, NEW M, NEW ne, NEW N, NEW i, NEW out, Step(nd, M, ne, N, i, out),
           NEW c \in Server, NEW t \in Nat, Elected(nd, M, c, t)
    PROVE  Elected(ne, N, c, t)
<1>1. /\ nd[c] \in NodeType /\ ne[c] \in NodeType /\ nd[c].currentTerm \in Nat /\ ne[c].currentTerm \in Nat
      /\ M \subseteq N /\ N \subseteq Message /\ BallotKept(nd[c], ne[c]) /\ c # Nil
  BY ServerAssumption, Zenon DEF Step, NodeType
<1>2. Voters(M, c, t) \subseteq Voters(N, c, t)
  BY <1>1, Zenon DEF Voters
<1>3. IsQuorum(Voters(N, c, t))
  <2>1. Voters(M, c, t) \in SUBSET Server /\ Voters(N, c, t) \in SUBSET Server
    BY Zenon DEF Voters
  <2> QED
    BY <1>2, <2>1, Zenon DEF Elected, Step, Backed, WideningQuorums
<1>4. ne[c].currentTerm >= nd[c].currentTerm /\ nd[c].currentTerm >= t
  BY <1>1, Zenon DEF BallotKept, Elected
<1>5. ASSUME ne[c].currentTerm = t PROVE ne[c].votedFor = c /\ ne[c].role # "Candidate"
  <2>1. nd[c].currentTerm = t
    BY <1>1, <1>4, <1>5, SMTT(30)
  <2>2. nd[c].votedFor = c /\ nd[c].role # "Candidate"
    BY <2>1, Zenon DEF Elected
  <2>3. ne[c].votedFor = c
    BY <1>1, <1>5, <2>1, <2>2, Zenon DEF BallotKept
  <2>4. c = i => RoleStep(nd[c], ne[c])
    BY Zenon DEF Step, LogStep
  <2>5. c # i => ne[c] = nd[c]
    BY Zenon DEF Step
  <2>6. ne[c].role # "Candidate"
    BY <1>1, <1>5, <2>1, <2>2, <2>4, <2>5, SMTT(30) DEF RoleStep
  <2> QED
    BY <2>3, <2>6, Zenon
<1>6. ASSUME NEW g \in N, Grants(g), g.from = c, g.term = t PROVE g.to = c
  <2>1. CASE g \in M
    BY <1>6, <2>1, Zenon DEF Elected
  <2>2. CASE g \in out
    <3>1. g.from = i /\ g.term = ne[i].currentTerm
      BY <1>6, <2>2, Zenon DEF Step, LogStep, Sent
    <3>2. ne[c].votedFor = c /\ ne[c].currentTerm = t
      BY <1>5, <1>6, <3>1, Zenon
    <3>3. \/ ne[c].currentTerm > t
          \/ ne[c].currentTerm = t /\ ne[c].votedFor = g.to
      BY <1>6, Zenon DEF Step, Backed
    <3> QED
      BY <1>1, <3>2, <3>3, SMTT(30)
  <2> QED
    BY <2>1, <2>2, Zenon DEF Step
<1> QED
  BY <1>1, <1>3, <1>4, <1>5, <1>6, SMTT(30) DEF Elected

-----------------------------------------------------------------------------
(* The tree of links.                                                       *)

\* The requests in the network, and the links of a log, of a request and of both.
Requests(M) == {m \in M : m.type = "AppendRequest"}

LogLinks(n) == LinksOf(LogFragment(n.log))

RequestLinks(m) == LinksOf(RequestFragment(m))

Tree(nd, M) ==
    (UNION {LogLinks(nd[i]) : i \in Server}) \cup (UNION {RequestLinks(m) : m \in Requests(M)})

\* The log has an entry of term t at index k.
HasPoint(log, k, t) == k \in 1 .. Len(log.entries) /\ log.entries[k].term = t

\* Every link is of a term that elected someone, and who leads the term has it.
Authored(nd, M) == \A a \in Tree(nd, M) : \E c \in Server : Elected(nd, M, c, a.entry.term)

\* A leader has every link of its term.
LeaderHas(nd, M) ==
    \A a \in Tree(nd, M) : \A i \in Server : Leads(nd, i, a.entry.term) => a \in LogLinks(nd[i])

\* A request was sent by the server its term elected, and ends with an entry of its term.
RequestsOK(nd, M) ==
    \A m \in Requests(M) :
        /\ Elected(nd, M, m.from, m.term)
        /\ EndOf(RequestFragment(m)) >= 1
        /\ TermIn(RequestFragment(m), EndOf(RequestFragment(m))) = m.term
        /\ m.prevLogIndex = 0 => m.prevLogTerm = 0

\* An acknowledgement is of a term that elected someone; its leader, and the sender
\* while in the term, have an entry of the term at the index acknowledged.
AcksOK(nd, M) ==
    \A m \in M : IsAck(m) =>
        /\ \E c \in Server : Elected(nd, M, c, m.term)
        /\ \A i \in Server : Leads(nd, i, m.term) => HasPoint(nd[i].log, m.matchIndex, m.term)
        /\ nd[m.from].currentTerm >= m.term
        /\ nd[m.from].currentTerm = m.term => HasPoint(nd[m.from].log, m.matchIndex, m.term)

\* No entry is of a later term than the node.
TermsBelow(n) == \A a \in LogLinks(n) : a.entry.term <= n.currentTerm

\* The inductive invariant of an uncompacted group, as a predicate of nodes and messages.
LogCore(nd, M) ==
    /\ UniqueIn(Tree(nd, M)) /\ OrderedIn(Tree(nd, M)) /\ ContiguousIn(Tree(nd, M))
    /\ Authored(nd, M) /\ LeaderHas(nd, M)
    /\ RequestsOK(nd, M) /\ AcksOK(nd, M) /\ NoSnapshotIn(M)
    /\ \A i \in Server : Flat(nd[i].log) /\ TermsBelow(nd[i]) /\ LeaderOK(i, nd[i], M)

\* A request's fragment is one.
LEMMA RequestType ==
    ASSUME NEW m \in Message, m.type = "AppendRequest"
    PROVE  /\ RequestFragment(m) \in Fragment /\ m \in AppendRequest
           /\ RequestFragment(m).base = m.prevLogIndex /\ RequestFragment(m).before = m.prevLogTerm
<1>1. m \in AppendRequest
  BY MessageKinds, Zenon
<1> QED
  BY <1>1, Zenon DEF RequestFragment, Fragment, AppendRequest

\* The links of a log and of a request are in the tree.
LEMMA InTree ==
    ASSUME NEW nd, NEW M
    PROVE  /\ \A i \in Server : LogLinks(nd[i]) \subseteq Tree(nd, M)
           /\ \A m \in M : m.type = "AppendRequest" => RequestLinks(m) \subseteq Tree(nd, M)
           /\ \A a \in Tree(nd, M) : \/ \E i \in Server : a \in LogLinks(nd[i])
                                   \/ \E m \in Requests(M) : a \in RequestLinks(m)
<1>1. ASSUME NEW i \in Server PROVE LogLinks(nd[i]) \subseteq Tree(nd, M)
  BY Zenon DEF Tree
<1>2. ASSUME NEW m \in M, m.type = "AppendRequest" PROVE RequestLinks(m) \subseteq Tree(nd, M)
  <2>1. m \in Requests(M)
    BY <1>2, Zenon DEF Requests
  <2> QED
    BY <2>1, Zenon DEF Tree
<1>3. ASSUME NEW a \in Tree(nd, M)
      PROVE  \/ \E i \in Server : a \in LogLinks(nd[i])
             \/ \E m \in Requests(M) : a \in RequestLinks(m)
  BY Zenon DEF Tree
<1> QED
  BY <1>1, <1>2, <1>3, Zenon

\* Appending an entry makes one link.
LEMMA AppendLinks ==
    ASSUME NEW log \in LogType, Flat(log), NEW e \in Entry
    PROVE  LET q == AppendEntry(log, e)
               new == [index |-> LastIndex(log) + 1, entry |-> e, before |-> LastTerm(log)] IN
           /\ LinksOf(LogFragment(q)) = LinksOf(LogFragment(log)) \cup {new}
           /\ Flat(q) /\ q \in LogType /\ LastIndex(q) = LastIndex(log) + 1
           /\ \A k \in 1 .. LastIndex(log) : q.entries[k] = log.entries[k]
           /\ q.entries[LastIndex(log) + 1] = e
<1> DEFINE q == AppendEntry(log, e)
           len == Len(log.entries)
           f == LogFragment(log)
           g == LogFragment(q)
           new == [index |-> LastIndex(log) + 1, entry |-> e, before |-> LastTerm(log)]
<1>1. /\ log.entries \in Seq(Entry) /\ len \in Nat /\ LastIndex(log) = len
      /\ f \in Fragment /\ f.base = 0 /\ f.before = 0 /\ f.entries = log.entries /\ EndOf(f) = len
      /\ LastTerm(log) = TermIn(f, len)
  BY FlatLog, Zenon
<1>2. q.entries = Append(log.entries, e) /\ Flat(q) /\ q \in LogType
  BY AppendEntryType, Zenon DEF AppendEntry, LogType, Flat
<1>3. /\ Len(q.entries) = len + 1 /\ q.entries[len + 1] = e
      /\ \A k \in 1 .. len : q.entries[k] = log.entries[k]
  BY <1>1, <1>2, SMTT(30)
<1> HIDE DEF q
<1>4. /\ g \in Fragment /\ g.base = 0 /\ g.before = 0 /\ g.entries = q.entries /\ EndOf(g) = len + 1
      /\ LastIndex(q) = len + 1
  BY <1>2, <1>3, FlatLog, Zenon
<1> HIDE DEF f, g, len
<1>5. \A k \in 0 .. len : TermIn(g, k) = TermIn(f, k)
  <2> SUFFICES ASSUME NEW k \in 0 .. len PROVE TermIn(g, k) = TermIn(f, k)
    BY Zenon
  <2>1. CASE k = 0
    BY <1>1, <1>4, <2>1, Zenon DEF TermIn
  <2>2. CASE k # 0
    <3>1. k \in 1 .. len /\ k - 0 = k
      BY <1>1, <2>2, SMTT(30)
    <3> QED
      BY <1>1, <1>3, <1>4, <2>2, <3>1, Zenon DEF TermIn
  <2> QED
    BY <2>1, <2>2, Zenon
<1>6. ASSUME NEW k \in 1 .. len PROVE LinkAt(g, k) = LinkAt(f, k)
  <2>1. k - 1 \in 0 .. len /\ k - 0 = k
    BY <1>1, SMTT(30)
  <2> QED
    BY <1>1, <1>3, <1>4, <1>5, <2>1, Zenon DEF LinkAt
<1>7. LinkAt(g, len + 1) = new
  <2>1. (len + 1) - 1 = len /\ (len + 1) - 0 = len + 1 /\ len \in 0 .. len
    BY <1>1, SMTT(30)
  <2> QED
    BY <1>1, <1>3, <1>4, <1>5, <2>1, Zenon DEF LinkAt
<1>8. LinksOf(f) = {LinkAt(f, k) : k \in 1 .. len}
  BY <1>1, SMTT(30) DEF LinksOf
<1>9. LinksOf(g) = {LinkAt(g, k) : k \in 1 .. len + 1}
  BY <1>4, SMTT(30) DEF LinksOf
<1>10. 1 .. len + 1 = (1 .. len) \cup {len + 1}
  BY <1>1, SMTT(30)
<1>11. LinksOf(g) = LinksOf(f) \cup {new}
  <2> HIDE DEF new
  <2>1. LinksOf(g) = {LinkAt(g, k) : k \in 1 .. len} \cup {LinkAt(g, len + 1)}
    BY <1>9, <1>10, Zenon
  <2>2. {LinkAt(g, k) : k \in 1 .. len} = {LinkAt(f, k) : k \in 1 .. len}
    BY <1>6, Zenon
  <2> QED
    BY <1>7, <1>8, <2>1, <2>2, Zenon
<1> QED
  BY <1>1, <1>2, <1>3, <1>4, <1>11, Zenon DEF f, g, q

\* What a leader sends of its log.
LEMMA PieceLinks ==
    ASSUME NEW log \in LogType, Flat(log), NEW m \in AppendRequest, PieceOf(m, log)
    PROVE  LET f == RequestFragment(m) IN
           /\ LinksOf(f) \subseteq LinksOf(LogFragment(log))
           /\ EndOf(f) = LastIndex(log)
           /\ TermIn(f, EndOf(f)) = LastTerm(log)
           /\ m.prevLogIndex = 0 => m.prevLogTerm = 0
<1> DEFINE f == RequestFragment(m)
           g == LogFragment(log)
           len == Len(log.entries)
<1>1. /\ log.entries \in Seq(Entry) /\ len \in Nat /\ LastIndex(log) = len
      /\ g \in Fragment /\ g.base = 0 /\ g.before = 0 /\ g.entries = log.entries /\ EndOf(g) = len
      /\ LastTerm(log) = TermIn(g, len)
  BY FlatLog, Zenon
<1>2. PICK next \in 1 .. len + 1 :
        /\ m.prevLogIndex = next - 1 /\ m.prevLogTerm = TermIn(g, next - 1)
        /\ m.entries = SubSeq(log.entries, next, len)
  BY <1>1, Zenon DEF PieceOf
<1>3. /\ f.base = next - 1 /\ f.before = TermIn(g, next - 1) /\ f.entries = SubSeq(log.entries, next, len)
  BY <1>2, Zenon DEF RequestFragment
<1>4. next \in Nat \ {0} /\ next <= len + 1 /\ next - 1 \in Nat
  BY <1>1, <1>2, SMTT(30)
<1>5. /\ Len(f.entries) = len - next + 1
      /\ \A k \in 1 .. len - next + 1 : f.entries[k] = log.entries[next + k - 1]
  BY <1>1, <1>3, <1>4, SliceFacts, SMTT(30)
<1> HIDE DEF f, g, len
<1>6. EndOf(f) = len
  BY <1>1, <1>3, <1>4, <1>5, SMTT(30) DEF EndOf
<1>7. ASSUME NEW k \in next .. len PROVE f.entries[k - f.base] = g.entries[k - g.base]
  <2>1. k - (next - 1) \in 1 .. len - next + 1 /\ next + (k - (next - 1)) - 1 = k /\ k - 0 = k
    BY <1>1, <1>4, SMTT(30)
  <2> QED
    BY <1>1, <1>3, <1>5, <2>1, Zenon
<1>8. ASSUME NEW k \in next - 1 .. len PROVE TermIn(f, k) = TermIn(g, k)
  <2>1. CASE k = next - 1
    BY <1>3, <2>1, Zenon DEF TermIn
  <2>2. CASE k # next - 1
    <3>1. k \in next .. len /\ k # f.base /\ k # g.base
      BY <1>1, <1>3, <1>4, <2>2, SMTT(30)
    <3> QED
      BY <1>7, <3>1, Zenon DEF TermIn
  <2> QED
    BY <2>1, <2>2, Zenon
<1>9. ASSUME NEW k \in next .. len PROVE LinkAt(f, k) = LinkAt(g, k)
  <2>1. k - 1 \in next - 1 .. len
    BY <1>1, <1>4, SMTT(30)
  <2> QED
    BY <1>7, <1>8, <2>1, Zenon DEF LinkAt
<1>10. LinksOf(f) \subseteq LinksOf(g)
  <2>1. LinksOf(f) = {LinkAt(f, k) : k \in next .. len}
    <3>1. f.base + 1 = next
      BY <1>3, <1>4, SMTT(30)
    <3> QED
      BY <1>6, <3>1, Zenon DEF LinksOf
  <2>2. LinksOf(g) = {LinkAt(g, k) : k \in 1 .. len}
    BY <1>1, SMTT(30) DEF LinksOf
  <2>3. next .. len \subseteq 1 .. len
    BY <1>1, <1>4, SMTT(30)
  <2> QED
    BY <1>9, <2>1, <2>2, <2>3, Zenon
<1>11. TermIn(f, len) = TermIn(g, len)
  <2>1. len \in next - 1 .. len
    BY <1>1, <1>4, SMTT(30)
  <2> QED
    BY <1>8, <2>1, Zenon
<1>12. m.prevLogIndex = 0 => m.prevLogTerm = 0
  BY <1>1, <1>2, Zenon DEF TermIn
<1> QED
  BY <1>1, <1>6, <1>10, <1>11, <1>12, Zenon DEF f, g

\* A point of a flat log, as an index its fragment spans and as a link.
LEMMA PointLink ==
    ASSUME NEW log \in LogType, Flat(log)
    PROVE  LET f == LogFragment(log) IN
           /\ \A k, t : HasPoint(log, k, t) =>
                 /\ k \in Nat /\ k >= 1 /\ k <= LastIndex(log)
                 /\ Spans(f, k) /\ TermIn(f, k) = t /\ LinkAt(f, k) \in LinksOf(f)
                 /\ LinkAt(f, k).index = k /\ LinkAt(f, k).entry.term = t
           /\ \A k \in Nat : Spans(f, k) => HasPoint(log, k, TermIn(f, k))
           /\ \A a \in LinksOf(f) :
                 /\ a.index \in Nat /\ a.index >= 1 /\ a.index <= LastIndex(log)
                 /\ HasPoint(log, a.index, a.entry.term)
<1> DEFINE f == LogFragment(log)
           len == Len(log.entries)
<1>1. /\ f \in Fragment /\ f.base = 0 /\ len \in Nat /\ EndOf(f) = len /\ LastIndex(log) = len
      /\ \A k \in 1 .. len : Spans(f, k) /\ TermIn(f, k) = log.entries[k].term
  BY FlatLog, Zenon
<1> HIDE DEF f
<1>2. ASSUME NEW k, NEW t, HasPoint(log, k, t)
      PROVE  /\ k \in Nat /\ k >= 1 /\ k <= LastIndex(log)
             /\ Spans(f, k) /\ TermIn(f, k) = t /\ LinkAt(f, k) \in LinksOf(f)
             /\ LinkAt(f, k).index = k /\ LinkAt(f, k).entry.term = t
  <2>1. k \in 1 .. len /\ log.entries[k].term = t
    BY <1>2, Zenon DEF HasPoint
  <2>2. k \in Nat /\ Spans(f, k) /\ TermIn(f, k) = t
    BY <1>1, <2>1, SMTT(30)
  <2> QED
    BY <1>1, <2>1, <2>2, AtIndex, SMTT(30)
<1>3. ASSUME NEW k \in Nat, Spans(f, k) PROVE HasPoint(log, k, TermIn(f, k)) /\ k >= 1 /\ k <= len
  <2>1. k \in 1 .. len
    BY <1>1, <1>3, SMTT(30) DEF Spans
  <2> QED
    BY <1>1, <2>1, SMTT(30) DEF HasPoint
<1>4. ASSUME NEW a \in LinksOf(f)
      PROVE  /\ a.index \in Nat /\ a.index >= 1 /\ a.index <= LastIndex(log)
             /\ HasPoint(log, a.index, a.entry.term)
  <2>1. Spans(f, a.index) /\ a.index \in Nat /\ a = LinkAt(f, a.index)
    BY <1>1, LinkFields, Zenon
  <2>2. a.entry.term = TermIn(f, a.index)
    BY <1>1, <2>1, AtIndex, SMTT(30)
  <2> QED
    BY <1>1, <1>3, <2>1, <2>2, Zenon
<1> QED
  BY <1>2, <1>3, <1>4, Zenon DEF f

\* The types of a state whose logs are flat.
Typed(nd, M) ==
    /\ nd \in [Server -> NodeType] /\ M \in SUBSET Message
    /\ \A i \in Server : Flat(nd[i].log)

\* The fields of a link in the tree.
LEMMA TreeType ==
    ASSUME NEW nd, NEW M, Typed(nd, M)
    PROVE  \A a \in Tree(nd, M) :
              a.index \in Nat /\ a.index >= 1 /\ a.entry.term \in Nat /\ a.before \in Nat
<1>1. ASSUME NEW f \in Fragment, NEW a \in LinksOf(f)
      PROVE  a.index \in Nat /\ a.index >= 1 /\ a.entry.term \in Nat /\ a.before \in Nat
  <2>1. Spans(f, a.index) /\ a.index \in Nat /\ a = LinkAt(f, a.index)
    BY LinkFields, Zenon
  <2>2. a.index > f.base /\ a.index <= EndOf(f) /\ a.entry.term = TermIn(f, a.index)
        /\ a.before = TermIn(f, a.index - 1)
    BY <2>1, AtIndex, SMTT(30)
  <2>3. f.base \in Nat /\ EndOf(f) \in Nat
    BY FragmentType, Zenon
  <2>4. a.index >= 1 /\ a.index \in f.base .. EndOf(f) /\ a.index - 1 \in f.base .. EndOf(f)
    BY <2>1, <2>2, <2>3, SMTT(30)
  <2> QED
    BY <2>1, <2>2, <2>4, TermInType, Zenon
<1>2. ASSUME NEW i \in Server PROVE LogFragment(nd[i].log) \in Fragment
  <2>1. nd[i].log \in LogType /\ Flat(nd[i].log)
    BY Zenon DEF Typed, NodeType
  <2> QED
    BY <2>1, FlatLog, Zenon
<1>3. ASSUME NEW m \in Requests(M) PROVE RequestFragment(m) \in Fragment
  BY RequestType, Zenon DEF Typed, Requests
<1> QED
  BY <1>1, <1>2, <1>3, InTree, Zenon DEF LogLinks, RequestLinks

\* What a step starts from and leads to.
LEMMA StepTypes ==
    ASSUME NEW nd, NEW M, NEW ne, NEW N, NEW i, NEW out, Step(nd, M, ne, N, i, out), LogCore(nd, M)
    PROVE  /\ i \in Server /\ Typed(nd, M) /\ Typed(ne, N) /\ M \subseteq N
           /\ \A j \in Server : /\ nd[j] \in NodeType /\ ne[j] \in NodeType
                                /\ nd[j].log \in LogType /\ ne[j].log \in LogType
                                /\ Flat(nd[j].log) /\ Flat(ne[j].log)
                                /\ nd[j].currentTerm \in Nat /\ ne[j].currentTerm \in Nat
                                /\ ne[j].currentTerm >= nd[j].currentTerm
                                /\ j # i => ne[j] = nd[j]
<1>1. /\ i \in Server /\ nd \in [Server -> NodeType] /\ ne \in [Server -> NodeType]
      /\ M \in SUBSET Message /\ N \in SUBSET Message /\ M \subseteq N
      /\ \A j \in Server : j # i => ne[j] = nd[j]
      /\ Flat(ne[i].log)
  BY Zenon DEF Step, LogStep
<1>2. \A j \in Server : Flat(nd[j].log)
  BY Zenon DEF LogCore
<1>3. \A j \in Server : Flat(ne[j].log)
  BY <1>1, <1>2, Zenon
<1>4. \A j \in Server : ne[j].currentTerm >= nd[j].currentTerm
  BY Zenon DEF Step, BallotKept
<1>5. \A n \in NodeType : n.log \in LogType /\ n.currentTerm \in Nat
  BY Zenon DEF NodeType
<1>6. \A j \in Server : nd[j] \in NodeType /\ ne[j] \in NodeType
  BY <1>1, Zenon
<1> QED
  BY <1>1, <1>2, <1>3, <1>4, <1>5, <1>6, Zenon DEF Typed

\* Server i's node n appends its own entry with command c and becomes p.
OwnAppend(n, p, c) ==
    /\ p.role = "Leader" /\ c \in Command
    /\ p.log = AppendEntry(n.log, [term |-> p.currentTerm, command |-> c])

\* The link that a leader's own append makes.
NewLink(n, p, c) ==
    [index |-> LastIndex(n.log) + 1, entry |-> [term |-> p.currentTerm, command |-> c],
     before |-> LastTerm(n.log)]

\* Links are only made by a leader's append.
LEMMA TreeGrows ==
    ASSUME NatWellOrdered, NEW nd, NEW M, NEW ne, NEW N, NEW i, NEW out, Step(nd, M, ne, N, i, out), LogCore(nd, M)
    PROVE  \/ /\ Tree(ne, N) \subseteq Tree(nd, M)
              /\ ne[i].role = "Leader" =>
                    Leads(nd, i, ne[i].currentTerm) /\ ne[i].log = nd[i].log
           \/ \E c : /\ OwnAppend(nd[i], ne[i], c)
                     /\ LogLinks(ne[i]) = LogLinks(nd[i]) \cup {NewLink(nd[i], ne[i], c)}
                     /\ Tree(ne, N) \subseteq Tree(nd, M) \cup {NewLink(nd[i], ne[i], c)}
<1> DEFINE n == nd[i]
           p == ne[i]
<1>1. /\ i \in Server /\ N = M \cup out /\ LogChange(i, n, p, M) /\ N \subseteq Message
      /\ \A g \in out : Sent(i, n, p, g, M)
      /\ \A j \in Server : j # i => ne[j] = nd[j]
  BY Zenon DEF Step, LogStep
<1>2. n.log \in LogType /\ p.log \in LogType /\ Flat(n.log) /\ Flat(p.log) /\ p.currentTerm \in Nat
  BY <1>1, StepTypes, Zenon
<1>3. \A j \in Server : LogLinks(nd[j]) \subseteq Tree(nd, M)
  BY InTree, Zenon
<1>4. \A m \in M : m.type = "AppendRequest" => RequestLinks(m) \subseteq Tree(nd, M)
  BY InTree, Zenon
<1>5. \A m \in out : m.type = "AppendRequest" => RequestLinks(m) \subseteq LogLinks(p)
  <2> SUFFICES ASSUME NEW m \in out, m.type = "AppendRequest"
               PROVE  RequestLinks(m) \subseteq LogLinks(p)
    BY Zenon
  <2>1. PieceOf(m, p.log)
    BY <1>1, Zenon DEF Sent, AppendSent
  <2>2. m \in AppendRequest
    BY <1>1, RequestType, Zenon
  <2> QED
    BY <1>2, <2>1, <2>2, PieceLinks, Zenon DEF LogLinks, RequestLinks
<1>6. ASSUME NEW X, LogLinks(p) \subseteq Tree(nd, M) \cup X
      PROVE  Tree(ne, N) \subseteq Tree(nd, M) \cup X
  <2> SUFFICES ASSUME NEW a \in Tree(ne, N) PROVE a \in Tree(nd, M) \cup X
    BY Zenon
  <2>1. \/ \E j \in Server : a \in LogLinks(ne[j])
        \/ \E m \in Requests(N) : a \in RequestLinks(m)
    BY InTree, Zenon
  <2>2. ASSUME NEW j \in Server, a \in LogLinks(ne[j]) PROVE a \in Tree(nd, M) \cup X
    BY <1>1, <1>3, <1>6, <2>2, Zenon
  <2>3. ASSUME NEW m \in Requests(N), a \in RequestLinks(m) PROVE a \in Tree(nd, M) \cup X
    <3>1. m \in N /\ m.type = "AppendRequest"
      BY Zenon DEF Requests
    <3>2. CASE m \in M
      BY <1>4, <2>3, <3>1, <3>2, Zenon
    <3>3. CASE m \in out
      BY <1>5, <1>6, <2>3, <3>1, <3>3, Zenon
    <3> QED
      BY <1>1, <3>1, <3>2, <3>3, Zenon
  <2> QED
    BY <2>1, <2>2, <2>3, Zenon
<1>7. CASE p.log = n.log /\ (p.role = "Leader" => n.role = "Leader" /\ p.currentTerm = n.currentTerm)
  <2>1. LogLinks(p) \subseteq Tree(nd, M) \cup {}
    BY <1>1, <1>3, <1>7, Zenon DEF LogLinks
  <2> QED
    BY <1>6, <1>7, <2>1, Zenon DEF Leads
<1>8. ASSUME NEW c \in Command, p.role = "Leader",
             p.log = AppendEntry(n.log, [term |-> p.currentTerm, command |-> c])
      PROVE  /\ OwnAppend(n, p, c)
             /\ LogLinks(p) = LogLinks(n) \cup {NewLink(n, p, c)}
             /\ Tree(ne, N) \subseteq Tree(nd, M) \cup {NewLink(n, p, c)}
  <2>1. [term |-> p.currentTerm, command |-> c] \in Entry
    BY <1>2, Zenon DEF Entry
  <2>2. LogLinks(p) = LogLinks(n) \cup {NewLink(n, p, c)}
    BY <1>2, <1>8, <2>1, AppendLinks, SMTT(30) DEF LogLinks, NewLink
  <2>3. LogLinks(p) \subseteq Tree(nd, M) \cup {NewLink(n, p, c)}
    BY <1>1, <1>3, <2>2, Zenon
  <2> QED
    BY <1>6, <1>8, <2>2, <2>3, Zenon DEF OwnAppend
<1>9. ASSUME NEW m \in M, Accepts(i, n, p, m)
      PROVE  Tree(ne, N) \subseteq Tree(nd, M) /\ p.role # "Leader"
  <2>1. /\ m.type = "AppendRequest" /\ p.role = "Follower" /\ Mergeable(n.log, RequestFragment(m))
        /\ p.log = Merged(n.log, RequestFragment(m))
    BY <1>9, Zenon DEF Accepts
  <2>2. LogLinks(p) \subseteq LogLinks(n) \cup RequestLinks(m)
    BY <2>1, MergeLinks, Zenon DEF LogLinks, RequestLinks
  <2>3. LogLinks(p) \subseteq Tree(nd, M) \cup {}
    BY <1>1, <1>3, <1>4, <2>1, <2>2, Zenon
  <2> QED
    BY <1>6, <2>1, <2>3, Zenon
<1> QED
  BY <1>1, <1>7, <1>8, <1>9, Zenon DEF LogChange

-----------------------------------------------------------------------------
(* LogCore is kept by a step.                                               *)

\* Who comes to lead a term finds nobody elected in it before.
LEMMA NewTerm ==
    ASSUME MeetingQuorums, NEW nd, NEW M, NEW ne, NEW N, NEW i, NEW out, Step(nd, M, ne, N, i, out),
           LogCore(nd, M), NEW t \in Nat, Leads(ne, i, t), NEW c \in Server, Elected(nd, M, c, t)
    PROVE  Leads(nd, i, t)
<1>1. i \in Server /\ ne \in [Server -> NodeType] /\ Backed(ne, N) /\ RoleStep(nd[i], ne[i])
  BY Zenon DEF Step, LogStep
<1>2. Elected(ne, N, i, t)
  BY <1>1, LeaderElected, Zenon
<1>3. Elected(ne, N, c, t)
  BY ElectedKept, Zenon
<1>4. c = i
  BY <1>1, <1>2, <1>3, ElectedOnce, Zenon
<1>5. /\ nd[i].currentTerm \in Nat /\ ne[i].currentTerm \in Nat /\ nd[i] \in NodeType
      /\ ne[i].currentTerm >= nd[i].currentTerm
  BY <1>1, StepTypes, Zenon
<1>6. ne[i].currentTerm = t /\ ne[i].role = "Leader" /\ nd[i].currentTerm >= t
  BY <1>4, Zenon DEF Leads, Elected
<1>7. nd[i].currentTerm = t
  BY <1>5, <1>6, SMTT(30)
<1>8. nd[i].role # "Candidate"
  BY <1>4, <1>7, Zenon DEF Elected
<1>9. nd[i].role # "Follower"
  BY <1>1, <1>5, <1>6, <1>7, SMTT(30) DEF RoleStep
<1>10. nd[i].role \in {"Follower", "Candidate", "Leader"}
  BY <1>5, Zenon DEF NodeType, Role
<1> QED
  BY <1>7, <1>8, <1>9, <1>10, Zenon DEF Leads

\* So a leader's log only grows while it leads a term in which someone was elected.
LEMMA LeaderGrows ==
    ASSUME NatWellOrdered, MeetingQuorums, NEW nd, NEW M, NEW ne, NEW N, NEW i, NEW out, Step(nd, M, ne, N, i, out),
           LogCore(nd, M), NEW t \in Nat, NEW c \in Server, Elected(nd, M, c, t),
           NEW j \in Server, Leads(ne, j, t)
    PROVE  /\ Leads(nd, j, t)
           /\ LogLinks(nd[j]) \subseteq LogLinks(ne[j])
           /\ \A k : HasPoint(nd[j].log, k, t) => HasPoint(ne[j].log, k, t)
<1>1. CASE j # i
  BY <1>1, StepTypes, SMTT(30) DEF Leads
<1>2. CASE j = i
  <2>1. Leads(nd, i, t)
    BY <1>2, NewTerm, Zenon
  <2>2. ne[i].role = "Leader"
    BY <1>2, Zenon DEF Leads
  <2>3. /\ nd[i].log \in LogType /\ Flat(nd[i].log) /\ i \in Server /\ ne[i].log \in LogType
        /\ ne[i].currentTerm \in Nat
    BY StepTypes, SMTT(30)
  <2>4. CASE ne[i].log = nd[i].log
    BY <1>2, <2>1, <2>4, Zenon DEF LogLinks
  <2>5. CASE ne[i].log # nd[i].log
    <3>1. PICK d : /\ OwnAppend(nd[i], ne[i], d)
                   /\ LogLinks(ne[i]) = LogLinks(nd[i]) \cup {NewLink(nd[i], ne[i], d)}
      BY <2>2, <2>5, TreeGrows, SMTT(30)
    <3> DEFINE e == [term |-> ne[i].currentTerm, command |-> d]
               len == Len(nd[i].log.entries)
    <3>2. e \in Entry /\ ne[i].log = AppendEntry(nd[i].log, e)
      BY <2>3, <3>1, Zenon DEF OwnAppend, Entry
    <3> HIDE DEF e
    <3>3. /\ \A k \in 1 .. LastIndex(nd[i].log) : ne[i].log.entries[k] = nd[i].log.entries[k]
          /\ LastIndex(ne[i].log) = LastIndex(nd[i].log) + 1 /\ Flat(ne[i].log)
      BY <2>3, <3>2, AppendLinks, SMTT(30)
    <3>4. len \in Nat /\ LastIndex(nd[i].log) = len /\ Len(ne[i].log.entries) = len + 1
      BY <2>3, <3>3, FlatLog, Zenon
    <3>5. ASSUME NEW k, HasPoint(nd[i].log, k, t) PROVE HasPoint(ne[i].log, k, t)
      <4>1. k \in 1 .. len /\ nd[i].log.entries[k].term = t
        BY <3>5, Zenon DEF HasPoint
      <4>2. k \in 1 .. len + 1
        BY <3>4, <4>1, SMTT(30)
      <4> QED
        BY <3>3, <3>4, <4>1, <4>2, Zenon DEF HasPoint
    <3> QED
      BY <1>2, <2>1, <3>1, <3>5, Zenon
  <2> QED
    BY <2>4, <2>5, Zenon
<1> QED
  BY <1>1, <1>2, Zenon

\* A leader's new link lies above all others of its term.
LEMMA NewLinkFresh ==
    ASSUME MeetingQuorums, NEW nd, NEW M, NEW ne, NEW N, NEW i, NEW out, Step(nd, M, ne, N, i, out),
           LogCore(nd, M), NEW c, OwnAppend(nd[i], ne[i], c)
    PROVE  LET l == NewLink(nd[i], ne[i], c) IN
           /\ l.index = LastIndex(nd[i].log) + 1 /\ l.index \in Nat
           /\ l.entry.term = ne[i].currentTerm /\ l.before = LastTerm(nd[i].log)
           /\ l.before \in Nat /\ l.before <= l.entry.term
           /\ \A a \in Tree(nd, M) : a.entry.term = l.entry.term =>
                 a.index < l.index /\ l.before = l.entry.term
<1> DEFINE n == nd[i]
           p == ne[i]
           l == NewLink(n, p, c)
           f == LogFragment(n.log)
           len == Len(n.log.entries)
<1>1. /\ i \in Server /\ Typed(nd, M) /\ n.log \in LogType /\ Flat(n.log)
      /\ n.currentTerm \in Nat /\ p.currentTerm \in Nat /\ p.currentTerm >= n.currentTerm
  BY StepTypes, Zenon
<1>2. /\ f \in Fragment /\ f.base = 0 /\ f.before = 0 /\ len \in Nat /\ EndOf(f) = len
      /\ LastIndex(n.log) = len /\ LastTerm(n.log) = TermIn(f, len)
      /\ \A k \in 1 .. len : Spans(f, k) /\ TermIn(f, k) = n.log.entries[k].term
  BY <1>1, FlatLog, Zenon
<1>3. /\ l.index = len + 1 /\ l.entry.term = p.currentTerm /\ l.before = TermIn(f, len)
  BY <1>2, Zenon DEF NewLink
<1>4. l.before \in Nat /\ l.before <= n.currentTerm
  <2>1. CASE len = 0
    BY <1>1, <1>2, <1>3, <2>1, SMTT(30) DEF TermIn
  <2>2. CASE len # 0
    <3>1. len \in 1 .. len /\ Spans(f, len) /\ TermIn(f, len) \in Nat
          /\ LinkAt(f, len) \in LinksOf(f) /\ LinkAt(f, len).entry.term = TermIn(f, len)
      BY <1>2, <2>2, AtIndex, SMTT(30)
    <3>2. TermsBelow(n)
      BY <1>1, Zenon DEF LogCore
    <3> QED
      BY <1>3, <3>1, <3>2, Zenon DEF TermsBelow, LogLinks
  <2> QED
    BY <2>1, <2>2, Zenon
<1>5. ASSUME NEW a \in Tree(nd, M), a.entry.term = p.currentTerm
      PROVE  a.index < len + 1 /\ l.before = p.currentTerm
  <2>1. PICK d \in Server : Elected(nd, M, d, p.currentTerm)
    BY <1>5, Zenon DEF LogCore, Authored
  <2>2. Leads(ne, i, p.currentTerm)
    BY Zenon DEF OwnAppend, Leads
  <2>3. Leads(nd, i, p.currentTerm)
    BY <1>1, <2>1, <2>2, NewTerm, Zenon
  <2>4. a \in LogLinks(n)
    BY <1>1, <1>5, <2>3, Zenon DEF LogCore, LeaderHas
  <2>5. a.index \in Nat /\ a.index <= len
    BY <1>1, <1>2, <2>4, PointLink, SMTT(30) DEF LogLinks
  <2>6. LastTerm(n.log) = p.currentTerm
    BY <1>1, <2>3, Zenon DEF LogCore, LeaderOK, Leads
  <2> QED
    BY <1>2, <1>3, <2>5, <2>6, SMTT(30)
<1> QED
  BY <1>1, <1>2, <1>3, <1>4, <1>5, SMTT(30)

\* The tree keeps its shape.
LEMMA TreeShape ==
    ASSUME NatWellOrdered, MeetingQuorums, NEW nd, NEW M, NEW ne, NEW N, NEW i, NEW out, Step(nd, M, ne, N, i, out), LogCore(nd, M)
    PROVE  UniqueIn(Tree(ne, N)) /\ OrderedIn(Tree(ne, N)) /\ ContiguousIn(Tree(ne, N))
<1> DEFINE T == Tree(nd, M)
           U == Tree(ne, N)
<1>1. UniqueIn(T) /\ OrderedIn(T) /\ ContiguousIn(T)
  BY Zenon DEF LogCore
<1>2. \A a \in T : a.index \in Nat /\ a.entry.term \in Nat /\ a.before \in Nat
  BY StepTypes, TreeType, Zenon
<1>3. CASE U \subseteq T
  <2> HIDE DEF T, U
  <2>1. UniqueIn(U)
    BY <1>1, <1>3, Zenon DEF UniqueIn
  <2>2. OrderedIn(U)
    BY <1>1, <1>3, Zenon DEF OrderedIn
  <2>3. ContiguousIn(U)
    BY <1>1, <1>3, Zenon DEF ContiguousIn
  <2> QED
    BY <2>1, <2>2, <2>3, Zenon DEF U
<1>4. CASE ~(U \subseteq T)
  <2>1. PICK c : OwnAppend(nd[i], ne[i], c) /\ U \subseteq T \cup {NewLink(nd[i], ne[i], c)}
    BY <1>4, TreeGrows, Zenon
  <2> DEFINE l == NewLink(nd[i], ne[i], c)
  <2>0. LET m == NewLink(nd[i], ne[i], c) IN
        /\ m.index \in Nat /\ m.before <= m.entry.term
        /\ \A a \in Tree(nd, M) : a.entry.term = m.entry.term =>
              a.index < m.index /\ m.before = m.entry.term
    BY ONLY NatWellOrdered, <2>1, NewLinkFresh, MeetingQuorums, Step(nd, M, ne, N, i, out), LogCore(nd, M), SMTT(30)
  <2>2. /\ l.index \in Nat /\ l.before <= l.entry.term
        /\ \A a \in T : a.entry.term = l.entry.term => a.index < l.index /\ l.before = l.entry.term
    BY <2>0, Zenon
  <2>3. U \subseteq T \cup {l}
    BY <2>1, Zenon
  <2> HIDE DEF T, U, l
  <2>4. UniqueIn(U)
    BY <1>1, <1>2, <2>2, <2>3, SMTT(30) DEF UniqueIn
  <2>5. OrderedIn(U)
    BY <1>1, <2>2, <2>3, Zenon DEF OrderedIn
  <2>6. ContiguousIn(U)
    BY <1>1, <1>2, <2>2, <2>3, SMTT(30) DEF ContiguousIn
  <2> QED
    BY <2>4, <2>5, <2>6, Zenon DEF U
<1> QED
  BY <1>3, <1>4, Zenon

\* Links still come from who was elected, and who leads has them.
LEMMA TreeAuthors ==
    ASSUME NatWellOrdered, MeetingQuorums, NEW nd, NEW M, NEW ne, NEW N, NEW i, NEW out, Step(nd, M, ne, N, i, out), LogCore(nd, M)
    PROVE  Authored(ne, N) /\ LeaderHas(ne, N)
<1>1. /\ i \in Server /\ Typed(nd, M) /\ ne[i].currentTerm \in Nat
      /\ \A j \in Server : j # i => ne[j] = nd[j]
  BY StepTypes, SMTT(30)
<1>2. ne \in [Server -> NodeType] /\ Backed(ne, N)
  BY Zenon DEF Step
<1>3. \A a \in Tree(nd, M) : a.entry.term \in Nat
  BY <1>1, TreeType, Zenon
<1>4. ASSUME NEW a \in Tree(nd, M)
      PROVE  /\ \E c \in Server : Elected(ne, N, c, a.entry.term)
             /\ \A j \in Server : Leads(ne, j, a.entry.term) => a \in LogLinks(ne[j])
  <2>1. PICK c \in Server : Elected(nd, M, c, a.entry.term)
    BY Zenon DEF LogCore, Authored
  <2>2. Elected(ne, N, c, a.entry.term)
    BY <1>3, <2>1, ElectedKept, Zenon
  <2>3. ASSUME NEW j \in Server, Leads(ne, j, a.entry.term) PROVE a \in LogLinks(ne[j])
    <3>1. Leads(nd, j, a.entry.term) /\ LogLinks(nd[j]) \subseteq LogLinks(ne[j])
      BY <1>3, <2>1, <2>3, LeaderGrows, SMTT(30)
    <3> QED
      BY <3>1, Zenon DEF LogCore, LeaderHas
  <2> QED
    BY <2>2, <2>3, Zenon
<1>5. ASSUME NEW c, OwnAppend(nd[i], ne[i], c),
             NewLink(nd[i], ne[i], c) \in LogLinks(ne[i]), NEW a, a = NewLink(nd[i], ne[i], c)
      PROVE  /\ \E d \in Server : Elected(ne, N, d, a.entry.term)
             /\ \A j \in Server : Leads(ne, j, a.entry.term) => a \in LogLinks(ne[j])
  <2>1. a.entry.term = ne[i].currentTerm
    BY <1>5, Zenon DEF NewLink
  <2>2. Leads(ne, i, a.entry.term)
    BY <1>5, <2>1, Zenon DEF OwnAppend, Leads
  <2>3. Elected(ne, N, i, a.entry.term)
    BY <1>1, <1>2, <2>2, LeaderElected, Zenon
  <2>4. ASSUME NEW j \in Server, Leads(ne, j, a.entry.term) PROVE j = i
    <3>1. Elected(ne, N, j, a.entry.term)
      BY <1>2, <2>4, LeaderElected, Zenon
    <3> QED
      BY <1>1, <1>2, <2>3, <3>1, ElectedOnce, Zenon
  <2> QED
    BY <1>1, <1>5, <2>3, <2>4, Zenon
<1>6. ASSUME NEW a \in Tree(ne, N)
      PROVE  /\ \E d \in Server : Elected(ne, N, d, a.entry.term)
             /\ \A j \in Server : Leads(ne, j, a.entry.term) => a \in LogLinks(ne[j])
  <2>1. CASE a \in Tree(nd, M)
    BY <1>4, <2>1, Zenon
  <2>2. CASE a \notin Tree(nd, M)
    <3>1. PICK c : /\ OwnAppend(nd[i], ne[i], c)
                   /\ LogLinks(ne[i]) = LogLinks(nd[i]) \cup {NewLink(nd[i], ne[i], c)}
                   /\ Tree(ne, N) \subseteq Tree(nd, M) \cup {NewLink(nd[i], ne[i], c)}
      BY <2>2, TreeGrows, Zenon
    <3> QED
      BY <1>5, <2>2, <3>1, Zenon
  <2> QED
    BY <2>1, <2>2, Zenon
<1> QED
  BY <1>6, Zenon DEF Authored, LeaderHas

\* Requests still come from who was elected.
LEMMA RequestsKept ==
    ASSUME MeetingQuorums, NEW nd, NEW M, NEW ne, NEW N, NEW i, NEW out, Step(nd, M, ne, N, i, out), LogCore(nd, M)
    PROVE  RequestsOK(ne, N)
<1>1. /\ i \in Server /\ ne \in [Server -> NodeType] /\ Backed(ne, N) /\ N = M \cup out /\ N \subseteq Message
      /\ \A g \in out : Sent(i, nd[i], ne[i], g, M)
      /\ LeaderOK(i, ne[i], M)
  BY Zenon DEF Step, LogStep
<1>2. ne[i].log \in LogType /\ Flat(ne[i].log)
  BY <1>1, StepTypes, Zenon
<1> SUFFICES ASSUME NEW m \in Requests(N)
             PROVE  /\ Elected(ne, N, m.from, m.term)
                    /\ EndOf(RequestFragment(m)) >= 1
                    /\ TermIn(RequestFragment(m), EndOf(RequestFragment(m))) = m.term
                    /\ m.prevLogIndex = 0 => m.prevLogTerm = 0
  BY Zenon DEF RequestsOK
<1>3. m \in N /\ m.type = "AppendRequest" /\ m \in Message
  BY <1>1, Zenon DEF Requests
<1>4. m.from \in Server /\ m.term \in Nat /\ m \in AppendRequest
  BY <1>3, MessageKinds, Zenon
<1>5. CASE m \in M
  <2>1. m \in Requests(M)
    BY <1>3, <1>5, Zenon DEF Requests
  <2>2. /\ Elected(nd, M, m.from, m.term)
        /\ EndOf(RequestFragment(m)) >= 1
        /\ TermIn(RequestFragment(m), EndOf(RequestFragment(m))) = m.term
        /\ m.prevLogIndex = 0 => m.prevLogTerm = 0
    BY <2>1, Zenon DEF LogCore, RequestsOK
  <2>3. Elected(ne, N, m.from, m.term)
    BY <1>4, <2>2, ElectedKept, Zenon
  <2> QED
    BY <2>2, <2>3, Zenon
<1>6. CASE m \in out
  <2>1. AppendSent(i, ne[i], m)
    BY <1>1, <1>3, <1>6, Zenon DEF Sent
  <2>2. m.from = i /\ m.term = ne[i].currentTerm /\ ne[i].role = "Leader" /\ PieceOf(m, ne[i].log)
    BY <2>1, Zenon DEF AppendSent
  <2>3. Elected(ne, N, i, m.term)
    BY <1>1, <2>2, LeaderElected, Zenon DEF Leads
  <2>4. LastIndex(ne[i].log) >= 1 /\ LastTerm(ne[i].log) = ne[i].currentTerm
    BY <1>1, <2>2, Zenon DEF LeaderOK
  <2> QED
    BY <1>2, <1>4, <2>2, <2>3, <2>4, PieceLinks, Zenon
<1> QED
  BY <1>1, <1>3, <1>5, <1>6, Zenon

\* Each log still ends in or before its server's term, and a leader's in it.
LEMMA ShapeKept ==
    ASSUME NatWellOrdered, NEW nd, NEW M, NEW ne, NEW N, NEW i, NEW out, Step(nd, M, ne, N, i, out), LogCore(nd, M)
    PROVE  \A j \in Server : Flat(ne[j].log) /\ TermsBelow(ne[j]) /\ LeaderOK(j, ne[j], N)
<1>1. /\ i \in Server /\ LogChange(i, nd[i], ne[i], M) /\ LeaderOK(i, ne[i], M) /\ M \subseteq Message
  BY Zenon DEF Step, LogStep
<1>2. /\ M \subseteq N
      /\ \A j \in Server : /\ nd[j].log \in LogType /\ Flat(nd[j].log) /\ Flat(ne[j].log)
                           /\ nd[j].currentTerm \in Nat /\ ne[j].currentTerm \in Nat
                           /\ ne[j].currentTerm >= nd[j].currentTerm
                           /\ j # i => ne[j] = nd[j]
  BY StepTypes, SMTT(30)
<1>3. \A j \in Server : TermsBelow(nd[j]) /\ LeaderOK(j, nd[j], M)
  BY Zenon DEF LogCore
<1>4. ASSUME NEW j \in Server PROVE LeaderOK(j, ne[j], N)
  <2>1. LeaderOK(j, ne[j], M)
    BY <1>1, <1>2, <1>3, Zenon
  <2> QED
    BY <1>2, <2>1, Zenon DEF LeaderOK, IndicesOK
<1>5. \A a \in LogLinks(nd[i]) : a.entry.term \in Nat
  <2>1. Typed(nd, M)
    BY StepTypes, Zenon
  <2> QED
    BY <1>1, <2>1, TreeType, InTree, Zenon
<1>6. \A a \in LogLinks(nd[i]) : a.entry.term <= ne[i].currentTerm
  <2>1. \A a \in LogLinks(nd[i]) : a.entry.term <= nd[i].currentTerm
    BY <1>1, <1>3, Zenon DEF TermsBelow
  <2> QED
    BY <1>1, <1>2, <1>5, <2>1, SMTT(30)
<1>7. TermsBelow(ne[i])
  <2>1. CASE ne[i].log = nd[i].log
    BY <1>6, <2>1, Zenon DEF TermsBelow, LogLinks
  <2>2. ASSUME NEW c \in Command,
               ne[i].log = AppendEntry(nd[i].log, [term |-> ne[i].currentTerm, command |-> c])
        PROVE  TermsBelow(ne[i])
    <3> DEFINE e == [term |-> ne[i].currentTerm, command |-> c]
               l == [index |-> LastIndex(nd[i].log) + 1, entry |-> e, before |-> LastTerm(nd[i].log)]
    <3>1. e \in Entry /\ e.term = ne[i].currentTerm /\ ne[i].log = AppendEntry(nd[i].log, e)
      BY <1>1, <1>2, <2>2, Zenon DEF Entry
    <3> HIDE DEF e
    <3>2. LogLinks(ne[i]) = LogLinks(nd[i]) \cup {l}
      BY <1>1, <1>2, <3>1, AppendLinks, SMTT(30) DEF LogLinks
    <3>3. l.entry.term = ne[i].currentTerm
      BY <3>1, Zenon
    <3> HIDE DEF l
    <3> QED
      BY <1>1, <1>2, <1>6, <3>2, <3>3, SMTT(30) DEF TermsBelow
  <2>3. ASSUME NEW m \in M, Accepts(i, nd[i], ne[i], m) PROVE TermsBelow(ne[i])
    <3> DEFINE f == RequestFragment(m)
    <3>1. /\ m.type = "AppendRequest" /\ m.term = ne[i].currentTerm /\ Mergeable(nd[i].log, f)
          /\ ne[i].log = Merged(nd[i].log, f) /\ m \in Requests(M)
      BY <2>3, Zenon DEF Accepts, Requests
    <3>2. LogLinks(ne[i]) \subseteq LogLinks(nd[i]) \cup LinksOf(f)
      BY <3>1, MergeLinks, Zenon DEF LogLinks
    <3>3. TermIn(f, EndOf(f)) = ne[i].currentTerm
      BY <3>1, Zenon DEF LogCore, RequestsOK
    <3>4. f \in Fragment
      BY <1>1, <3>1, RequestType, Zenon
    <3>5. LinksOf(f) \subseteq Tree(nd, M) /\ OrderedIn(Tree(nd, M))
      BY <3>1, InTree, Zenon DEF RequestLinks, LogCore
    <3> HIDE DEF f
    <3>6. ASSUME NEW a \in LinksOf(f) PROVE a.entry.term <= ne[i].currentTerm
      <4>1. Spans(f, a.index) /\ a.index \in Nat /\ a = LinkAt(f, a.index)
        BY <3>4, LinkFields, Zenon
      <4>2. a.index > f.base /\ a.index <= EndOf(f) /\ a.entry.term = TermIn(f, a.index)
        BY <3>4, <4>1, AtIndex, SMTT(30)
      <4>3. f.base \in Nat /\ EndOf(f) \in Nat
        BY <3>4, FragmentType, Zenon
      <4>4. f.base <= a.index
        BY <4>1, <4>2, <4>3, SMTT(30)
      <4>5. EndOf(f) <= EndOf(f)
        BY <4>3, SMTT(30)
      <4>6. TermIn(f, a.index) <= TermIn(f, EndOf(f))
        BY <3>4, <3>5, <4>1, <4>2, <4>3, <4>4, <4>5, TermsGrow, Zenon
      <4> QED
        BY <3>3, <4>2, <4>6, Zenon
    <3> QED
      BY <1>6, <3>2, <3>6, Zenon DEF TermsBelow
  <2> QED
    BY <1>1, <2>1, <2>2, <2>3, Zenon DEF LogChange
<1>8. ASSUME NEW j \in Server PROVE TermsBelow(ne[j])
  BY <1>2, <1>3, <1>7, Zenon
<1> QED
  BY <1>2, <1>4, <1>8, Zenon

\* A server keeps an entry of its current term.
LEMMA OwnTermKept ==
    ASSUME NatWellOrdered, NEW nd, NEW M, NEW ne, NEW N, NEW i, NEW out, Step(nd, M, ne, N, i, out), LogCore(nd, M),
           NEW j \in Server, NEW k, NEW t \in Nat, HasPoint(nd[j].log, k, t), ne[j].currentTerm = t
    PROVE  HasPoint(ne[j].log, k, t)
<1>1. CASE j # i
  BY <1>1, StepTypes, SMTT(30)
<1>2. CASE j = i
  <2> DEFINE n == nd[i]
             p == ne[i]
  <2>1. /\ i \in Server /\ n.log \in LogType /\ Flat(n.log) /\ p.log \in LogType /\ Flat(p.log)
        /\ p.currentTerm \in Nat
    BY StepTypes, SMTT(30)
  <2>2. LogChange(i, n, p, M) /\ M \subseteq Message
    BY Zenon DEF Step, LogStep
  <2>3. CASE p.log = n.log
    BY <1>2, <2>3, Zenon
  <2>4. ASSUME NEW c \in Command, p.log = AppendEntry(n.log, [term |-> p.currentTerm, command |-> c])
        PROVE  HasPoint(p.log, k, t)
    <3> DEFINE e == [term |-> p.currentTerm, command |-> c]
               len == Len(n.log.entries)
    <3>1. e \in Entry /\ p.log = AppendEntry(n.log, e)
      BY <2>1, <2>4, Zenon DEF Entry
    <3> HIDE DEF e
    <3>2. /\ \A h \in 1 .. LastIndex(n.log) : p.log.entries[h] = n.log.entries[h]
          /\ LastIndex(p.log) = LastIndex(n.log) + 1
      BY <2>1, <3>1, AppendLinks, SMTT(30)
    <3>3. len \in Nat /\ LastIndex(n.log) = len /\ Len(p.log.entries) = len + 1
      BY <2>1, <3>2, FlatLog, Zenon
    <3>4. k \in 1 .. len /\ n.log.entries[k].term = t
      BY <1>2, Zenon DEF HasPoint
    <3>5. k \in 1 .. len + 1
      BY <3>3, <3>4, SMTT(30)
    <3> QED
      BY <3>2, <3>3, <3>4, <3>5, Zenon DEF HasPoint
  <2>5. ASSUME NEW m \in M, Accepts(i, n, p, m) PROVE HasPoint(p.log, k, t)
    <3> DEFINE f == RequestFragment(m)
    <3>1. /\ m.type = "AppendRequest" /\ m.term = p.currentTerm /\ Mergeable(n.log, f)
          /\ p.log = Merged(n.log, f) /\ m \in Requests(M)
      BY <2>5, Zenon DEF Accepts, Requests
    <3>2. TermIn(f, EndOf(f)) = t
      BY <1>2, <3>1, Zenon DEF LogCore, RequestsOK
    <3>3. LinksOf(f) \subseteq Tree(nd, M) /\ LinksOf(LogFragment(n.log)) \subseteq Tree(nd, M)
      BY <2>1, <3>1, InTree, Zenon DEF RequestLinks, LogLinks
    <3>4. UniqueIn(Tree(nd, M)) /\ OrderedIn(Tree(nd, M)) /\ ContiguousIn(Tree(nd, M))
      BY Zenon DEF LogCore
    <3>5. k \in Nat /\ Spans(LogFragment(n.log), k) /\ TermIn(LogFragment(n.log), k) = t /\ k >= 1
      BY <1>2, <2>1, PointLink, SMTT(30)
    <3> HIDE DEF f
    <3>6. k <= LastIndex(p.log) /\ \A h \in 1 .. k : p.log.entries[h] = n.log.entries[h]
      BY <3>1, <3>2, <3>3, <3>4, <3>5, MergeKeepsPoint, SMTT(30)
    <3>7. LastIndex(p.log) = Len(p.log.entries) /\ Len(p.log.entries) \in Nat
      BY <2>1, FlatLog, Zenon
    <3>8. k \in 1 .. Len(p.log.entries) /\ k \in 1 .. k
      BY <3>5, <3>6, <3>7, SMTT(30)
    <3>9. n.log.entries[k].term = t
      BY <1>2, Zenon DEF HasPoint
    <3> QED
      BY <3>6, <3>8, <3>9, Zenon DEF HasPoint
  <2> QED
    BY <1>2, <2>2, <2>3, <2>4, <2>5, Zenon DEF LogChange
<1> QED
  BY <1>1, <1>2, Zenon

\* What a server that accepts a request then acknowledges is an entry of its term.
LEMMA AcceptedEnd ==
    ASSUME NatWellOrdered, MeetingQuorums, NEW nd, NEW M, NEW ne, NEW N, NEW i, NEW out, Step(nd, M, ne, N, i, out), LogCore(nd, M),
           NEW m \in M, Accepts(i, nd[i], ne[i], m)
    PROVE  /\ m.term = ne[i].currentTerm
           /\ \E c \in Server : Elected(ne, N, c, m.term)
           /\ HasPoint(ne[i].log, LastIndex(ne[i].log), m.term)
<1> DEFINE f == RequestFragment(m)
           p == ne[i]
           g == LogFragment(p.log)
           len == Len(p.log.entries)
<1>1. /\ m.type = "AppendRequest" /\ m.term = p.currentTerm /\ Mergeable(nd[i].log, f)
      /\ p.log = Merged(nd[i].log, f) /\ m \in Requests(M)
  BY Zenon DEF Accepts, Requests
<1>2. /\ i \in Server /\ p.log \in LogType /\ Flat(p.log) /\ p.currentTerm \in Nat
      /\ M \subseteq Message
  BY StepTypes, SMTT(30) DEF Typed
<1>3. m.from \in Server /\ m.term \in Nat /\ f \in Fragment
  BY <1>1, <1>2, MessageKinds, RequestType, Zenon
<1>4. Elected(nd, M, m.from, m.term) /\ EndOf(f) >= 1 /\ TermIn(f, EndOf(f)) = m.term
  BY <1>1, Zenon DEF LogCore, RequestsOK
<1>5. Elected(ne, N, m.from, m.term)
  BY <1>3, <1>4, ElectedKept, Zenon
<1>6. EndOf(f) <= LastIndex(p.log) /\ TermIn(g, EndOf(f)) = m.term
  BY <1>1, <1>4, MergeLinks, Zenon
<1>7. EndOf(f) \in Nat
  BY <1>3, FragmentType, Zenon
<1>8. g \in Fragment /\ g.base = 0 /\ len \in Nat /\ EndOf(g) = len /\ LastIndex(p.log) = len
  BY <1>2, FlatLog, Zenon
<1>9. LinksOf(g) \subseteq Tree(ne, N) /\ OrderedIn(Tree(ne, N))
  BY <1>2, InTree, TreeShape, Zenon DEF LogLinks
<1> HIDE DEF f, g
<1>10. len \in Nat /\ g.base <= EndOf(f) /\ EndOf(f) <= len /\ len <= EndOf(g) /\ len >= 1
  BY <1>4, <1>6, <1>7, <1>8, SMTT(30)
<1>11. TermIn(g, EndOf(f)) <= TermIn(g, len)
  BY <1>7, <1>8, <1>9, <1>10, TermsGrow, Zenon
<1>12. Spans(g, len)
  BY <1>8, <1>10, SMTT(30) DEF Spans
<1>13. /\ LinkAt(g, len) \in LinksOf(g) /\ LinkAt(g, len).entry.term = TermIn(g, len)
       /\ TermIn(g, len) \in Nat
  BY <1>8, <1>12, AtIndex, Zenon
<1>14. TermIn(g, len) <= p.currentTerm
  <2>1. TermsBelow(p)
    BY <1>2, ShapeKept, Zenon
  <2> QED
    BY <1>13, <2>1, Zenon DEF TermsBelow, LogLinks, g
<1>15. TermIn(g, len) = m.term
  BY <1>1, <1>2, <1>6, <1>11, <1>13, <1>14, SMTT(30)
<1>16. HasPoint(p.log, len, TermIn(g, len))
  BY <1>2, <1>8, <1>12, PointLink, Zenon DEF g
<1> QED
  BY <1>1, <1>3, <1>5, <1>8, <1>15, <1>16, Zenon

\* Acknowledgements stay true.
LEMMA AcksKept ==
    ASSUME NatWellOrdered, MeetingQuorums, NEW nd, NEW M, NEW ne, NEW N, NEW i, NEW out, Step(nd, M, ne, N, i, out), LogCore(nd, M)
    PROVE  AcksOK(ne, N)
<1>1. /\ i \in Server /\ N = M \cup out /\ N \subseteq Message
      /\ \A g \in out : Sent(i, nd[i], ne[i], g, M)
  BY Zenon DEF Step, LogStep
<1>2. /\ Typed(ne, N)
      /\ \A j \in Server : /\ nd[j].currentTerm \in Nat /\ ne[j].currentTerm \in Nat
                           /\ ne[j].currentTerm >= nd[j].currentTerm
                           /\ ne[j].log \in LogType /\ Flat(ne[j].log)
  BY StepTypes, Zenon
<1> SUFFICES ASSUME NEW m \in N, IsAck(m)
             PROVE  /\ \E c \in Server : Elected(ne, N, c, m.term)
                    /\ \A j \in Server : Leads(ne, j, m.term) => HasPoint(ne[j].log, m.matchIndex, m.term)
                    /\ ne[m.from].currentTerm >= m.term
                    /\ ne[m.from].currentTerm = m.term => HasPoint(ne[m.from].log, m.matchIndex, m.term)
  BY Zenon DEF AcksOK
<1>3. m.from \in Server /\ m.term \in Nat
  BY <1>1, MessageKinds, Zenon
<1>4. CASE m \in M
  <2>1. /\ \E c \in Server : Elected(nd, M, c, m.term)
        /\ \A j \in Server : Leads(nd, j, m.term) => HasPoint(nd[j].log, m.matchIndex, m.term)
        /\ nd[m.from].currentTerm >= m.term
        /\ nd[m.from].currentTerm = m.term => HasPoint(nd[m.from].log, m.matchIndex, m.term)
    BY <1>4, Zenon DEF LogCore, AcksOK
  <2>2. PICK c \in Server : Elected(nd, M, c, m.term)
    BY <2>1, Zenon
  <2>3. Elected(ne, N, c, m.term)
    BY <1>3, <2>2, ElectedKept, Zenon
  <2>4. ASSUME NEW j \in Server, Leads(ne, j, m.term) PROVE HasPoint(ne[j].log, m.matchIndex, m.term)
    <3>1. /\ Leads(nd, j, m.term)
          /\ \A k : HasPoint(nd[j].log, k, m.term) => HasPoint(ne[j].log, k, m.term)
      BY <1>3, <2>2, <2>4, LeaderGrows, Zenon
    <3> QED
      BY <2>1, <3>1, Zenon
  <2>5. ne[m.from].currentTerm >= m.term
    BY <1>2, <1>3, <2>1, SMTT(30)
  <2>6. ASSUME ne[m.from].currentTerm = m.term PROVE HasPoint(ne[m.from].log, m.matchIndex, m.term)
    <3>1. nd[m.from].currentTerm = m.term
      BY <1>2, <1>3, <2>1, <2>6, SMTT(30)
    <3> QED
      BY <1>3, <2>1, <2>6, <3>1, OwnTermKept, Zenon
  <2> QED
    BY <2>3, <2>4, <2>5, <2>6, Zenon
<1>5. CASE m \in out
  <2>1. m.from = i /\ m.term = ne[i].currentTerm /\ m.matchIndex = LastIndex(ne[i].log)
    BY <1>1, <1>5, Zenon DEF Sent
  <2>2. PICK r \in M : Accepts(i, nd[i], ne[i], r)
    BY <1>1, <1>5, Zenon DEF Sent
  <2>3. /\ r.term = ne[i].currentTerm /\ \E c \in Server : Elected(ne, N, c, r.term)
        /\ HasPoint(ne[i].log, LastIndex(ne[i].log), r.term)
    BY <2>2, AcceptedEnd, SMTT(30)
  <2>4. HasPoint(ne[i].log, m.matchIndex, m.term) /\ \E c \in Server : Elected(ne, N, c, m.term)
    BY <2>1, <2>3, Zenon
  <2>5. ASSUME NEW j \in Server, Leads(ne, j, m.term) PROVE HasPoint(ne[j].log, m.matchIndex, m.term)
    <3> DEFINE a == LinkAt(LogFragment(ne[i].log), m.matchIndex)
    <3>1. a \in LogLinks(ne[i]) /\ a.index = m.matchIndex /\ a.entry.term = m.term
      BY <1>1, <1>2, <2>4, PointLink, SMTT(30) DEF LogLinks
    <3> HIDE DEF a
    <3>2. a \in Tree(ne, N)
      BY <1>1, <3>1, InTree, Zenon
    <3>3. a \in LogLinks(ne[j])
      BY <2>5, <3>1, <3>2, TreeAuthors, Zenon DEF LeaderHas
    <3> QED
      BY <1>2, <3>1, <3>3, PointLink, Zenon DEF LogLinks
  <2>6. ne[m.from].currentTerm >= m.term
    BY <1>2, <1>3, <2>1, SMTT(30)
  <2> QED
    BY <2>1, <2>4, <2>5, <2>6, Zenon
<1> QED
  BY <1>1, <1>4, <1>5, Zenon

\* A step keeps LogCore.
LEMMA CoreKept ==
    ASSUME NatWellOrdered, MeetingQuorums, NEW nd, NEW M, NEW ne, NEW N, NEW i, NEW out, Step(nd, M, ne, N, i, out), LogCore(nd, M)
    PROVE  LogCore(ne, N)
<1>1. NoSnapshotIn(N)
  BY Zenon DEF Step, LogStep, Sent, NoSnapshotIn, LogCore
<1>2. UniqueIn(Tree(ne, N)) /\ OrderedIn(Tree(ne, N)) /\ ContiguousIn(Tree(ne, N))
  BY TreeShape, Zenon
<1>3. Authored(ne, N) /\ LeaderHas(ne, N)
  BY TreeAuthors, Zenon
<1>4. \A j \in Server : Flat(ne[j].log) /\ TermsBelow(ne[j]) /\ LeaderOK(j, ne[j], N)
  BY ShapeKept, Zenon
<1>5. RequestsOK(ne, N) /\ AcksOK(ne, N)
  BY RequestsKept, AcksKept, Zenon
<1> QED
  BY <1>1, <1>2, <1>3, <1>4, <1>5, Zenon DEF LogCore

=============================================================================
