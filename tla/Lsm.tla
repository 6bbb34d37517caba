-------------------------------- MODULE Lsm --------------------------------
(***************************************************************************)
(* The pure part of the storage engine (kaya-lsm and the read and merge    *)
(* paths of kaya-engine): sets of versions, lookups through the memtable   *)
(* and the tables, compaction and the manifest.  A version is a key, a     *)
(* sequence number and the number of the write it comes from; the write    *)
(* number 0 is a tombstone, and also what a read of nothing returns.       *)
(***************************************************************************)
EXTENDS Integers, Sequences, FiniteSetsExt, SequencesExt

Tombstone == 0

Version(k, s, v) == [key |-> k, seq |-> s, val |-> v]

\* The metadata of a table that the manifest and the compaction policies use.
TableMeta == [id : Nat \ {0}, level : Nat, size : Nat]

-----------------------------------------------------------------------------
(* Reads. *)

Visible(vs, k, ts) == {v \in vs : v.key = k /\ v.seq <= ts}

Newest(vs) == CHOOSE v \in vs : \A u \in vs : u.seq <= v.seq

\* Memtable::put and delete: a version with the same key and sequence is replaced.
MemInsert(mem, v) == {u \in mem : u.key # v.key \/ u.seq # v.seq} \union {v}

\* Mutant of GetInner: the tables are asked from the oldest.
GetInnerOldestFirst(mem, live, k, ts) ==
    LET hits == {t \in live : Visible(t.versions, k, ts) # {}}
        oldest == CHOOSE t \in hits : \A u \in hits : t.id <= u.id
    IN  IF Visible(mem, k, ts) # {} THEN Newest(Visible(mem, k, ts)).val
        ELSE IF hits = {} THEN Tombstone
        ELSE Newest(Visible(oldest.versions, k, ts)).val

\* get_inner: the memtable decides if it holds a visible version, else the first
\* table, newest id first, that does.  live is the set of open tables.
GetInner(mem, live, k, ts) ==
    LET hits == {t \in live : Visible(t.versions, k, ts) # {}}
        first == CHOOSE t \in hits : \A u \in hits : u.id <= t.id
    IN  IF Visible(mem, k, ts) # {} THEN Newest(Visible(mem, k, ts)).val
        ELSE IF hits = {} THEN Tombstone
        ELSE Newest(Visible(first.versions, k, ts)).val

\* scan_prefix: per key the highest sequence of all sources; at equal sequences the
\* source merged first stays, which is the oldest table, the memtable being last.
ScanValue(mem, live, k, ts) ==
    LET tables == {t \in live : Visible(t.versions, k, ts) # {}}
        all == Visible(mem, k, ts) \union UNION {Visible(t.versions, k, ts) : t \in tables}
        top == Newest(all).seq
        holders == {t \in tables : \E v \in Visible(t.versions, k, ts) : v.seq = top}
        oldest == CHOOSE t \in holders : \A u \in holders : t.id <= u.id
    IN  IF all = {} THEN Tombstone
        ELSE IF holders = {} THEN Newest(Visible(mem, k, ts)).val
        ELSE Newest(Visible(oldest.versions, k, ts)).val

-----------------------------------------------------------------------------
(* Compaction. *)

NoCandidate == [inputs |-> << >>, level |-> 0]

\* The ids of the tables in keep, in the order of metas.
IdsIn(metas, keep) ==
    LET chosen == SelectSeq(metas, LAMBDA m : m \in keep)
    IN  [i \in DOMAIN chosen |-> chosen[i].id]

\* L0MergePolicy: everything that is not pinned, once there are two of them.
PickL0Merge(metas, pinned) ==
    LET ids == IdsIn(metas, {m \in ToSet(metas) : m.id \notin pinned})
    IN  IF Len(ids) < 2 THEN NoCandidate ELSE [inputs |-> ids, level |-> 0]

\* LevelStrategy: level 0 at its trigger, any deeper level with two tables.
PickLeveled(metas, pinned, levelCount, l0Trigger) ==
    LET at(level) == IdsIn(metas, {m \in ToSet(metas) : m.level = level /\ m.id \notin pinned})
        ready == {l \in 0 .. (levelCount - 1) : Len(at(l)) >= IF l = 0 THEN l0Trigger ELSE 2}
    IN  IF ready = {} THEN NoCandidate
        ELSE [inputs |-> at(Min(ready)), level |-> Min(ready) + 1]

\* TierStrategy: the first run of similar sizes, smallest first, on the lowest level
\* that has one; ratio is size_ratio in thousandths.
PickTiered(metas, pinned, minTables, ratio) ==
    LET free(level) == {m \in ToSet(metas) : m.level = level /\ m.id \notin pinned}
        sorted(level) == SetToSortSeq(free(level), LAMBDA a, b :
                           a.size < b.size \/ (a.size = b.size /\ a.id < b.id))
        joins(s, i) == 1000 * s[i].size <= ratio * Max({1, s[i - 1].size})
        runs(s) == {<<a, b>> \in (1 .. Len(s)) \X (1 .. Len(s)) :
                      /\ a <= b
                      /\ \A i \in (a + 1) .. b : joins(s, i)
                      /\ a > 1 => ~ joins(s, a)
                      /\ b < Len(s) => ~ joins(s, b + 1)
                      /\ b - a + 1 >= minTables}
        levels == {m.level : m \in ToSet(metas)}
        ready == {l \in levels : runs(sorted(l)) # {}}
        level == Min(ready)
        run == CHOOSE r \in runs(sorted(level)) : \A q \in runs(sorted(level)) : r[1] <= q[1]
    IN  IF ready = {} THEN NoCandidate
        ELSE [inputs |-> [i \in 1 .. (run[2] - run[1] + 1) |-> sorted(level)[run[1] + i - 1].id],
              level |-> level + 1]

\* The versions of one key found in the inputs: of two with the same sequence the one
\* of the older table is kept.
Merged(tables, k) ==
    LET from(t) == {v \in t.versions : v.key = k}
        older(t, s) == \E u \in tables : u.id < t.id /\ \E v \in from(u) : v.seq = s
    IN  UNION {{v \in from(t) : ~ older(t, v.seq)} : t \in tables}

\* select_versions_for_gc: keep what is at or above the watermark, and the newest
\* version if it is a put; drop everything under an obsolete tombstone.
SelectVersionsForGc(vs, watermark) ==
    IF vs = {} THEN {}
    ELSE IF Newest(vs).val = Tombstone /\ Newest(vs).seq < watermark THEN {}
    ELSE {v \in vs : v.seq >= watermark \/ (v = Newest(vs) /\ v.val # Tombstone)}

\* Mutant of CompactedVersions: only the newest version of a key is carried over.
CompactedVersionsLatest(tables, keys, watermark) ==
    UNION {{Newest(Merged(tables, k))} : k \in {j \in keys : Merged(tables, j) # {}}}

CompactedVersions(tables, keys, watermark) ==
    UNION {SelectVersionsForGc(Merged(tables, k), watermark) : k \in keys}

-----------------------------------------------------------------------------
(* The manifest: a file of edits. *)

CreateTable(meta) == [kind |-> "create", meta |-> meta]

DeleteTable(id) == [kind |-> "delete", meta |-> [id |-> id, level |-> 0, size |-> 0]]

SetLastSequence(seq) == [kind |-> "sequence", meta |-> [id |-> seq, level |-> 0, size |-> 0]]

\* An edit that a crash cut short; decode_manifest_edit refuses it.
TornEdit == [kind |-> "torn", meta |-> [id |-> 0, level |-> 0, size |-> 0]]

\* replay_manifest: the live tables in the order of their creation, from the edits
\* before the first one that does not decode.
ReplayManifest(edits) ==
    LET torn == {i \in DOMAIN edits : edits[i].kind = "torn"}
        readable == IF torn = {} THEN Len(edits) ELSE Min(torn) - 1
        live[i \in 0 .. readable] ==
          IF i = 0 THEN << >>
          ELSE CASE edits[i].kind = "create" -> Append(live[i - 1], edits[i].meta)
                 [] edits[i].kind = "delete" ->
                      SelectSeq(live[i - 1], LAMBDA m : m.id # edits[i].meta.id)
                 [] edits[i].kind = "sequence" -> live[i - 1]
    IN  live[readable]

=============================================================================
