------------------------------ MODULE MCFiles -------------------------------
(***************************************************************************)
(* What a node keeps on its disk, on small instances: the engine, and by   *)
(* themselves its log, its tables, the encrypted disk under them, the      *)
(* apply index beside them, the secondary indexes and the changefeed on    *)
(* top, and the range table.  A behaviour stays in the scene its first     *)
(* state picks; the components of the other scenes keep their initial      *)
(* states.                                                                 *)
(***************************************************************************)
EXTENDS StorageEngine, TLC

CONSTANT Scenes     \* "engine", "wal", "sst", "encryption", "replica", "index", "feed", "ranges"
VARIABLE scene

CONSTANTS WalConfigs, MaxAppends
VARIABLES walConfig, walSegs, walWriter, call, waiting, acked, order, walUp, walUsed
walVars == <<walConfig, walSegs, walWriter, call, waiting, acked, order, walUp, walUsed>>
Wal == INSTANCE WalWriter WITH Configs <- WalConfigs, config <- walConfig, segs <- walSegs,
                               writer <- walWriter, up <- walUp, used <- walUsed

CONSTANTS RestartInterval, SstKeys, SstPrefixes, SstOptions, SstVersions, SstHarms
VARIABLES sstMem, memBytes, opts, builder, file, reader, cache
sstVars == <<sstMem, memBytes, opts, builder, file, reader, cache>>
Sst == INSTANCE SstTable WITH mem <- sstMem

CONSTANTS DiskNames, Bytes, MaxFileLen, MaxRotations, MaxDiskCalls
VARIABLES plain, inner, ring, ringFile, storing, seals, calls, minted, risk, lost
encVars == <<plain, inner, ring, ringFile, storing, seals, calls, minted, risk, lost>>
Enc == INSTANCE EncryptedDisk

CONSTANTS ReplicaKeys, Durabilities, MaxCommitted, MaxStops, MaxRefusals
VARIABLES committed, last_applied, recorded, unrecorded, engineLog, synced, refused, stops,
          durability
replicaVars == <<committed, last_applied, recorded, unrecorded, engineLog, synced, refused, stops,
                 durability>>
Replica == INSTANCE ReplicaApply WITH writes <- engineLog

CONSTANTS PKey, PVal, Extractor, BatchSize, MaxKeyLen, MaxIndexOps, MaxIndexCrashes
VARIABLES prim, idxData, idxMeta, indexed, fill, todo, command, cutPut, cutFill, idxOps, idxCrashes
idxVars == <<prim, idxData, idxMeta, indexed, fill, todo, command, cutPut, cutFill, idxOps,
             idxCrashes>>
Index == INSTANCE SecondaryIndex

CONSTANTS u1, u2
CONSTANTS Consumer, PollLimit, Durable, Cutoff, MaxFeedWrites, MaxCrashes
VARIABLES feedSeq, syncedSeq, feedWrites, writing, feedFile, feed, polledSeq, cursorFile, mine,
          batch, seen, feedAcked, halfCompact, unreadable, cdcCrashes
cdcVars == <<feedSeq, syncedSeq, feedWrites, writing, feedFile, feed, polledSeq, cursorFile, mine,
             batch, seen, feedAcked, halfCompact, unreadable, cdcCrashes>>
Feed == INSTANCE ChangeFeed WITH MaxWrites <- MaxFeedWrites, lastSeq <- feedSeq,
                                 writes <- feedWrites, acked <- feedAcked

CONSTANTS Node, BootTable, SplitKeys, Targets, MaxEdits, MaxMishaps
VARIABLES metaLog, layouts, table, tableFile, hosted, metaApplied, applyFloor, edits, mishaps
metaVars == <<metaLog, layouts, table, tableFile, hosted, metaApplied, applyFloor, edits, mishaps>>
Meta == INSTANCE RangeMeta WITH applied <- metaApplied

diskVars == <<walVars, sstVars, encVars, replicaVars>>
featureVars == <<idxVars, cdcVars, metaVars>>
fileVars == <<scene, vars, diskVars, featureVars>>

-----------------------------------------------------------------------------
\* What scene `s' picks from S; the others make do with one member.
Pick(s, S) == IF scene = s THEN S ELSE {CHOOSE x \in S : TRUE}

FilesInit ==
    /\ scene \in Scenes
    /\ Init /\ config \in Pick("engine", Configs)
    /\ Wal!Init /\ walConfig \in Pick("wal", WalConfigs)
    /\ Sst!SstInit /\ opts \in Pick("sst", SstOptions)
    /\ Enc!EncInit
    /\ Replica!ReplicaInit /\ durability \in Pick("replica", Durabilities)
    /\ Index!IndexInit /\ (scene # "index" => prim = [k \in PKey |-> Index!NoValue])
    /\ Feed!CdcInit
    /\ Meta!MetaInit

DiskStep ==
    \/ scene = "wal" /\ Wal!Next /\ UNCHANGED <<sstVars, encVars, replicaVars>>
    \/ scene = "sst" /\ Sst!SstNext /\ UNCHANGED <<walVars, encVars, replicaVars>>
    \/ scene = "encryption" /\ Enc!EncNext /\ UNCHANGED <<walVars, sstVars, replicaVars>>
    \/ scene = "replica" /\ Replica!ReplicaNext /\ UNCHANGED <<walVars, sstVars, encVars>>

FeatureStep ==
    \/ scene = "index" /\ Index!IndexNext /\ UNCHANGED <<cdcVars, metaVars>>
    \/ scene = "feed" /\ Feed!CdcNext /\ UNCHANGED <<idxVars, metaVars>>
    \/ scene = "ranges" /\ Meta!MetaNext /\ UNCHANGED <<idxVars, cdcVars>>

FilesNext ==
    /\ UNCHANGED scene
    /\ \/ scene = "engine" /\ Next /\ UNCHANGED <<diskVars, featureVars>>
       \/ DiskStep /\ UNCHANGED <<vars, featureVars>>
       \/ FeatureStep /\ UNCHANGED <<vars, diskVars>>

FilesSpec == FilesInit /\ [][FilesNext]_fileVars

-----------------------------------------------------------------------------
(* Values for the constants.                                               *)

EngineBase ==
    [modes |-> {"strict"}, segmentMax |-> 2, memMax |-> 0, policy |-> "l0merge",
     pins |-> 0, gc |-> FALSE, losses |-> 0, kills |-> 0, faults |-> 0]

\* Strict writes and the default policy: crashes, pins, a failed job, an automatic flush.
SoundConfigs ==
    {[EngineBase EXCEPT !.losses = 1],
     [EngineBase EXCEPT !.pins = 1],
     [EngineBase EXCEPT !.faults = 1, !.losses = 1, !.memMax = 2],
     [EngineBase EXCEPT !.segmentMax = 10, !.kills = 1],
     [EngineBase EXCEPT !.gc = TRUE]}

\* The watermark moves between writes, without and with a snapshot that pins an old table.
GcConfigs == {[EngineBase EXCEPT !.gc = TRUE]}
PinnedGcConfigs == {[EngineBase EXCEPT !.gc = TRUE, !.pins = 1]}
\* Tables of similar size are merged, wherever they stand in the order of writing.
TieredConfigs == {[EngineBase EXCEPT !.policy = "tiered"]}
\* A power loss tears the manifest's last edit.
TornConfigs == {[EngineBase EXCEPT !.losses = 1]}
\* Writes that do not wait for the disk, as the server makes them.
RelaxedConfigs == {[EngineBase EXCEPT !.modes = {"relaxed"}, !.losses = 1]}

LogBase ==
    [modes |-> {"strict"}, tasks |-> 1, segmentMax |-> 2, batchMax |-> 1,
     interval |-> FALSE, losses |-> 2, kills |-> 0, faults |-> {}]

\* Strict callers with rotation, alone or in groups; in a single segment, a failed
\* group fsync and relaxed callers beside strict ones.  Kills alone lose nothing.
LogConfigs ==
    {LogBase,
     [LogBase EXCEPT !.tasks = 2, !.batchMax = 2],
     [LogBase EXCEPT !.tasks = 3, !.batchMax = 3, !.interval = TRUE],
     [LogBase EXCEPT !.tasks = 2, !.segmentMax = 10, !.batchMax = 2, !.interval = TRUE,
                     !.faults = {"fsync"}],
     [LogBase EXCEPT !.modes = {"strict", "relaxed"}, !.segmentMax = 10],
     [LogBase EXCEPT !.modes = {"strict", "relaxed"}, !.losses = 0, !.kills = 2]}

\* Relaxed and strict callers share a log whose segments fill up.
MixedConfigs == {[LogBase EXCEPT !.modes = {"strict", "relaxed"}]}
\* A group that is never filled.
GroupConfigs == {[LogBase EXCEPT !.tasks = 2, !.batchMax = 3, !.interval = TRUE]}

Table(mvcc, prefix, codec, bloom, target, capacity, bulk) ==
    [mvcc |-> mvcc, prefix |-> prefix, codec |-> codec, bloom |-> bloom,
     target |-> target, cache |-> capacity, bulk |-> bulk]

\* Blocks of one entry, of a few and of all; every format; footers whose entry count has the
\* length of the longest footer, 72, where that length would be looked for.
TableOptions ==
    {Table(TRUE, FALSE, "none", 2, 1, 1, 0), Table(TRUE, TRUE, "lz4", 0, 60, 2, 0),
     Table(TRUE, TRUE, "zstd", 2, 1000, 1, 4718592), Table(FALSE, FALSE, "none", 0, 45, 0, 0),
     Table(FALSE, TRUE, "none", 2, 45, 1, 4718592)}
TableKeys == {<<0>>, <<0, 1>>, <<1>>}
TablePrefixes == {<<>>, <<0>>, <<0, 1>>}

SafeModes == {[mode |-> "Strict", power |-> TRUE], [mode |-> "Relaxed", power |-> FALSE]}
RelaxedPowerLoss == {[mode |-> "Relaxed", power |-> TRUE]}

IndexValues == {<<1>>, <<2>>, <<2, 0, 1>>, <<0, 1, 1>>}
Tables == INSTANCE RangeTable
Boot == Tables!SingleGroup(0)
SecondField == [kind |-> "Field", delimiter |-> 0, index |-> 1]
Consumers == {u1, u2}

Symmetry == Permutations(Consumers)

-----------------------------------------------------------------------------
(* The properties of the components beside the engine, each in its scene.  *)


\* WAL-002: a restart recovers a prefix of the records in the order of their appends.
RecoversPrefix == Wal!RecoversPrefix

\* A table file answers every get and scan as the memtable it was written from would,
\* through block index, restart points, bloom filter and cache (SstableReader); once
\* damaged it answers so or with an error, never otherwise (decode_data_block).
TableAnswersOrFails == scene = "sst" => Sst!TableReadsLikeMemtable /\ Sst!DamageIsNoticed

\* An encrypted disk holds what the bare disk would, across rotations of the key, restarts
\* and crashes that are over (EncryptedDisk, run_rotate).
EncryptedReadsLikePlain == scene = "encryption" => Enc!EncryptedReadsLikePlain

\* The engine of a replica holds what a prefix of the committed entries makes of it, at
\* least as long as last_applied, across restarts (drain_and_apply, RaftApplyIndex).
ReplicaIsLogPrefix == scene = "replica" => Replica!ReplicaIsLogPrefix


\* A consumer that resumes from its position has processed every acknowledged write up to
\* it (cdc_poll, cdc_compact, load_cdc_log_and_cursors).
NothingSkipped == scene = "feed" => Feed!NothingSkipped

\* RANGE-INV-01: every key has one range in every table in use, on disk or about to be
\* applied; servers with the same meta_epoch route alike, and those that have applied all
\* of group 0's log have one table (split_at, merge_with_next, apply_range_meta_entry).
OneLayoutPerEpoch ==
    scene = "ranges" => Meta!OneRangePerKey /\ Meta!SameEpochSameLayout /\ Meta!CaughtUpTablesAgree

=============================================================================
