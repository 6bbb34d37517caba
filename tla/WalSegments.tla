---------------------------- MODULE WalSegments ----------------------------
(***************************************************************************)
(* The files of the write-ahead log (kaya-wal) and what its writer and its *)
(* recovery do with them.  A segment holds records in file order, the      *)
(* number of them fsync_file has made durable, and whether fsync_dir has   *)
(* made its directory entry durable.  A record is an LSN and the number of *)
(* the append call that wrote it; the sequence number runs in step with    *)
(* the LSN.  All records have the same length, so that offsets count       *)
(* records.                                                                *)
(***************************************************************************)
EXTENDS Integers, FiniteSetsExt, SequencesExt

\* What decode_record refuses: a record cut short by a crash or a failed write.
Torn == [lsn |-> 0, id |-> 0]

WalRecord(lsn, id) == [lsn |-> lsn, id |-> id]

Segment == [recs : Seq([lsn : Nat, id : Nat]), synced : Nat, named : BOOLEAN]

NewSegment == [recs |-> << >>, synced |-> 0, named |-> FALSE]

Ids(recs) == {recs[i].id : i \in DOMAIN recs}

-----------------------------------------------------------------------------
(* The Disk operations the log uses, on the segments as a sequence. *)

\* append creates the file with its first record.
FileAppend(segs, n, rec) ==
    IF n \in DOMAIN segs
    THEN [segs EXCEPT ![n].recs = Append(@, rec)]
    ELSE Append(segs, [NewSegment EXCEPT !.recs = <<rec>>])

FsyncFile(segs, n) == [segs EXCEPT ![n].synced = Len(segs[n].recs)]

FsyncDir(segs) == [n \in DOMAIN segs |-> [segs[n] EXCEPT !.named = TRUE]]

\* What a power failure may leave of a segment: at least what was synced, at most
\* what was written, the first lost record possibly torn.
SurvivingSegments(seg) ==
    LET Kept(k, tail) == [recs |-> SubSeq(seg.recs, 1, k) \o tail,
                          synced |-> k + Len(tail), named |-> TRUE]
    IN  {Kept(k, << >>) : k \in seg.synced .. Len(seg.recs)}
          \union {Kept(k, <<Torn>>) : k \in seg.synced .. (Len(seg.recs) - 1)}

\* Only the last segment can still lack its directory entry.
Survivors(segs) ==
    LET whole == {s \in [DOMAIN segs -> UNION {SurvivingSegments(segs[n]) : n \in DOMAIN segs}] :
                    \A n \in DOMAIN segs : s[n] \in SurvivingSegments(segs[n])}
        last == Len(segs)
    IN  IF last = 0 \/ segs[last].named
        THEN whole
        ELSE whole \union {SubSeq(s, 1, last - 1) : s \in whole}

-----------------------------------------------------------------------------
(* recover_wal. *)

\* The scan reads the segments one after the other and stops at the first record that
\* does not decode or does not carry the LSN behind its predecessor's.
RecoveredRecords(segs) ==
    LET recs == FlattenSeq([n \in DOMAIN segs |-> segs[n].recs])
        valid(i) == recs[i] # Torn /\ recs[i].lsn = recs[1].lsn + i - 1
    IN  SubSeq(recs, 1, Max({n \in 0 .. Len(recs) : \A i \in 1 .. n : valid(i)}))

\* How many records the segments before the n-th hold.
Before(segs, n) == Len(FlattenSeq([m \in 1 .. (n - 1) |-> segs[m].recs]))

\* The segment that stopped the scan, as a set of at most one.
StoppedAt(segs) ==
    LET valid == Len(RecoveredRecords(segs))
    IN  {n \in DOMAIN segs : valid \in Before(segs, n) .. (Before(segs, n) + Len(segs[n].recs) - 1)}

CutTo(seg, k) == [seg EXCEPT !.recs = SubSeq(@, 1, k), !.synced = Min({@, k})]

\* The segment that stopped the scan is cut to its valid records; segments behind it
\* are ignored and stay.
RecoveredSegments(segs) ==
    [n \in DOMAIN segs |->
       IF n \in StoppedAt(segs)
       THEN CutTo(segs[n], Len(RecoveredRecords(segs)) - Before(segs, n))
       ELSE segs[n]]

-----------------------------------------------------------------------------
(* The writer's own fields. *)

Writer == [active : Nat \ {0}, len : Nat, dirSynced : BOOLEAN, nextLsn : Nat \ {0}, pending : Nat]

\* open_at: the highest segment is active, and an existing file counts as named.
OpenAt(segs, nextLsn) ==
    LET n == Len(segs)
    IN  [active |-> IF n = 0 THEN 1 ELSE n,
         len |-> IF n = 0 THEN 0 ELSE Len(segs[n].recs),
         dirSynced |-> n # 0, nextLsn |-> nextLsn, pending |-> 0]

\* Engine::open gives the writer the LSN behind the last recovered record.
NextLsnAfter(segs) ==
    LET recs == RecoveredRecords(segs)
    IN  IF recs = << >> THEN 1 ELSE recs[Len(recs)].lsn + 1

Rotated(w) == [w EXCEPT !.active = @ + 1, !.len = 0, !.dirSynced = FALSE]

\* The record is in: the length is the file's own, the next LSN is one higher.
Advanced(w, segs) == [w EXCEPT !.len = Len(segs[w.active].recs), !.nextLsn = @ + 1]

=============================================================================
