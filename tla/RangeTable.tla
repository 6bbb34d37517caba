------------------------------ MODULE RangeTable ----------------------------
(***************************************************************************)
(* StaticRangeTable of kaya-raft/src/multi_raft.rs and the RangeCache of   *)
(* kaya-client/src/lib.rs.                                                 *)
(*                                                                         *)
(* A key is a natural number in the order of byte strings; 0 is the empty  *)
(* string, which is also how the code writes "no upper bound".  The vector *)
(* of ranges is kept sorted by start key, and is a set here: no two ranges *)
(* of a table start at the same key.                                       *)
(***************************************************************************)
EXTENDS Naturals, Sequences, FiniteSets, FiniteSetsExt

EmptyKey == 0
GroupZero == 0

\* StaticRange: [start, end) of a group; epoch counts the changes of the range.
StaticRange(start, end, group, id, epoch) ==
    [start |-> start, end |-> end, group |-> group, id |-> id, epoch |-> epoch]

Contains(r, k) == k >= r.start /\ (r.end = EmptyKey \/ k < r.end)

\* from_ranges: ids 1, 2, ... in key order, epoch 1, the next group above all of them.
FromRanges(spans) ==
    LET place(s) == Cardinality({u \in spans : u.start <= s.start})
    IN  [ranges |-> {StaticRange(s.start, s.end, s.group, place(s), 1) : s \in spans},
         metaEpoch |-> 1,
         nextRange |-> Cardinality(spans) + 1,
         nextGroup |-> Max({s.group : s \in spans} \cup {0}) + 1]

SingleGroup(g) == FromRanges({[start |-> EmptyKey, end |-> EmptyKey, group |-> g]})

\* lookup_range, as the set of the range found.
LookupRange(t, k) == {r \in t.ranges : Contains(r, k)}

\* lookup_group of client_ops.rs: a key outside of all ranges belongs to group 0.
LookupGroup(t, k) ==
    IF LookupRange(t, k) = {} THEN GroupZero
    ELSE (CHOOSE r \in LookupRange(t, k) : TRUE).group

GroupIds(t) == {r.group : r \in t.ranges}

-----------------------------------------------------------------------------
(* The three changes.  Each has the condition under which the code goes on *)
(* after its early returns, and the table it then leaves.                  *)

CanSplit(t, k) == k # EmptyKey /\ \E r \in LookupRange(t, k) : k # r.start

\* The left half keeps group and id, the right half gets new ones.
SplitAt(t, k) ==
    LET old == CHOOSE r \in LookupRange(t, k) : TRUE
        left == [old EXCEPT !.end = k, !.epoch = old.epoch + 1]
        right == StaticRange(k, old.end, t.nextGroup, t.nextRange, 1)
    IN  [ranges |-> (t.ranges \ {old}) \cup {left, right},
         metaEpoch |-> t.metaEpoch + 1,
         nextRange |-> t.nextRange + 1,
         nextGroup |-> t.nextGroup + 1]

\* The range behind r in key order.
RightNeighbor(t, r) ==
    {q \in t.ranges : q.start > r.start /\ \A u \in t.ranges : u.start > r.start => q.start <= u.start}

CanMerge(t, k) ==
    \E r \in t.ranges : r.start = k /\ \E q \in RightNeighbor(t, r) : r.end = q.start

\* The left range takes over the end of its neighbour, whose group is left to reclaim.
MergeWithNext(t, k) ==
    LET l == CHOOSE r \in t.ranges : r.start = k
        q == CHOOSE u \in RightNeighbor(t, l) : TRUE
        newest == IF l.epoch > q.epoch THEN l.epoch ELSE q.epoch
    IN  [t EXCEPT !.ranges = (@ \ {l, q}) \cup {[l EXCEPT !.end = q.end, !.epoch = newest + 1]},
                  !.metaEpoch = @ + 1]

CanMove(t, k, g) == \E r \in t.ranges : r.start = k /\ r.group # g

\* Same bounds, same id, other group; group ids are never given out again.
MoveRange(t, k, g) ==
    LET r == CHOOSE u \in t.ranges : u.start = k
    IN  [t EXCEPT !.ranges = (@ \ {r}) \cup {[r EXCEPT !.group = g, !.epoch = r.epoch + 1]},
                  !.nextGroup = IF @ > g THEN @ ELSE g + 1,
                  !.metaEpoch = @ + 1]

-----------------------------------------------------------------------------
(* The client's cache: descriptors of some ranges under one epoch. *)

RangesOverlap(a, b) ==
    (b.end = EmptyKey \/ a.start < b.end) /\ (a.end = EmptyKey \/ b.start < a.end)

\* apply_descriptors: each new range replaces those with its id and those it overlaps.
ApplyDescriptors(cache, metaEpoch, ranges) ==
    [metaEpoch |-> IF metaEpoch > cache.metaEpoch THEN metaEpoch ELSE cache.metaEpoch,
     ranges |-> ranges \cup {r \in cache.ranges :
                   \A n \in ranges : r.id # n.id /\ ~ RangesOverlap(r, n)}]
=============================================================================
