--------------------------- MODULE StorageEngine ---------------------------
(***************************************************************************)
(* kaya-engine over one data directory: writes through the log into the    *)
(* memtable, flush, compaction, snapshots that pin tables, power loss,     *)
(* kills and Engine::open.  The engine is used through &mut self, so one   *)
(* call runs at a time; a stop may fall between any two of its disk        *)
(* operations.                                                             *)
(***************************************************************************)
EXTENDS WalSegments, Lsm

CONSTANTS
    Keys,        \* user keys
    Configs,     \* configurations and environments to consider
    MaxWrites,   \* bound: writes
    MaxTables    \* bound: table files

\* EngineConfig and what the environment does: durability modes, WAL records per
\* segment, memtable entries that trigger a flush (0: off), compaction policy,
\* snapshots held at once, whether the GC watermark is moved, power losses, kills and
\* failed flushes or compactions.
Config == [modes : SUBSET {"strict", "relaxed"}, segmentMax : Nat \ {0}, memMax : Nat,
           policy : {"l0merge", "leveled", "tiered"}, pins : Nat, gc : BOOLEAN,
           losses : Nat, kills : Nat, faults : Nat]

ASSUME EngineAssumption ==
    /\ Keys \subseteq Nat \ {0}
    /\ Configs \subseteq Config
    /\ MaxWrites \in Nat /\ MaxTables \in Nat

VARIABLES
    config,     \* the configuration, fixed at the start
    segs,       \* the WAL's files
    writer,     \* the WAL's writer
    writes,     \* what the n-th write wrote
    mem,        \* the memtable, a set of versions
    files,      \* the content of every table file
    manifest,   \* the manifest file's edits, how many are synced, and CURRENT
    live,       \* manifest_state.live_tables
    nextTable,  \* next_table_id
    lastSeq,    \* stats.last_sequence
    snapshots,  \* the tables each unreleased snapshot pins
    watermark,  \* gc_watermark
    op,         \* the call in progress
    up,         \* whether the process runs
    used        \* the bounds used up so far

disk == <<segs, files, manifest>>
memory == <<writer, mem, live, nextTable, lastSeq, snapshots, watermark>>
vars == <<config, disk, memory, writes, op, up, used>>

Idle == [kind |-> "none", stage |-> "none", write |-> 0, inputs |-> << >>, level |-> 0, table |-> 0]

Latest == MaxWrites + 1

OpenTables(metas) == {[id |-> m.id, versions |-> files[m.id]] : m \in ToSet(metas)}

Get(k, ts) == GetInner(mem, OpenTables(live), k, ts)

EngineTypeOK ==
    LET Versions == [key : Keys, seq : 1 .. MaxWrites, val : 0 .. MaxWrites]
    IN  /\ config \in Configs
        /\ segs \in Seq(Segment)
        /\ writer \in Writer
        /\ writes \in Seq([key : Keys, val : 0 .. MaxWrites])
        /\ mem \subseteq Versions
        /\ DOMAIN files \subseteq 1 .. MaxTables
        /\ \A t \in DOMAIN files : files[t] \subseteq Versions
        /\ manifest.synced \in 0 .. Len(manifest.edits) /\ manifest.current \in BOOLEAN
        /\ live \in Seq(TableMeta)
        /\ nextTable \in 1 .. (MaxTables + 1)
        /\ lastSeq \in 0 .. MaxWrites
        /\ snapshots \in Seq(SUBSET (1 .. MaxTables))
        /\ watermark \in 0 .. Latest
        /\ op.kind \in {"none", "write", "flush", "compact"}
        /\ up \in BOOLEAN

Init ==
    /\ config \in Configs
    /\ segs = << >>
    /\ writer = OpenAt(<< >>, 1)
    /\ writes = << >>
    /\ mem = {}
    /\ files = << >>
    /\ manifest = [edits |-> << >>, synced |-> 0, current |-> FALSE]
    /\ live = << >>
    /\ nextTable = 1
    /\ lastSeq = 0
    /\ snapshots = << >>
    /\ watermark = 0
    /\ op = Idle
    /\ up = TRUE
    /\ used = [losses |-> 0, kills |-> 0, faults |-> 0]

-----------------------------------------------------------------------------
(* put and delete. *)

Full == writer.len > 0 /\ writer.len + 1 > config.segmentMax

\* The record reaches the log, in a new segment if the active one is full.
BeginWrite(k, del) ==
    /\ up /\ op = Idle
    /\ Len(writes) < MaxWrites
    /\ LET n == Len(writes) + 1
           w == IF Full THEN Rotated(writer) ELSE writer
           s == FileAppend(segs, w.active, WalRecord(writer.nextLsn, n))
       IN  /\ writes' = Append(writes, [key |-> k, val |-> IF del THEN Tombstone ELSE n])
           /\ segs' = IF w.dirSynced THEN s ELSE FsyncDir(s)
           /\ writer' = [w EXCEPT !.dirSynced = TRUE]
           /\ op' = [Idle EXCEPT !.kind = "write", !.write = n]
    /\ UNCHANGED <<config, files, manifest, mem, live, nextTable, lastSeq, snapshots,
                   watermark, up, used>>

\* maybe_auto_flush runs inside the write.
AfterWrite(m) ==
    IF config.memMax > 0 /\ Cardinality(m) >= config.memMax
    THEN [Idle EXCEPT !.kind = "flush", !.stage = "table"]
    ELSE Idle

\* Mutant of FinishWrite: the write is acknowledged without its fsync.
FinishWriteUnsynced(mode) ==
    /\ up /\ op.kind = "write" /\ mode \in config.modes
    /\ writer' = Advanced(writer, segs)
    /\ LET w == writes[op.write]
       IN  mem' = MemInsert(mem, Version(w.key, writer.nextLsn, w.val))
    /\ lastSeq' = writer.nextLsn
    /\ op' = AfterWrite(mem')
    /\ UNCHANGED <<config, segs, files, manifest, writes, live, nextTable, snapshots,
                   watermark, up, used>>

\* The log is synced if the caller asked for it, and the memtable takes the version.
FinishWrite(mode) ==
    /\ up /\ op.kind = "write" /\ mode \in config.modes
    /\ segs' = IF mode = "strict" THEN FsyncFile(segs, writer.active) ELSE segs
    /\ writer' = Advanced(writer, segs)
    /\ LET w == writes[op.write]
       IN  mem' = MemInsert(mem, Version(w.key, writer.nextLsn, w.val))
    /\ lastSeq' = writer.nextLsn
    /\ op' = AfterWrite(mem')
    /\ UNCHANGED <<config, files, manifest, writes, live, nextTable, snapshots, watermark,
                   up, used>>

-----------------------------------------------------------------------------
(* flush and compact: table file, manifest edits, manifest sync, publication. *)

BeginFlush ==
    /\ up /\ op = Idle
    /\ mem # {}
    /\ nextTable <= MaxTables
    /\ op' = [Idle EXCEPT !.kind = "flush", !.stage = "table"]
    /\ UNCHANGED <<config, disk, memory, writes, up, used>>

Pinned == UNION ToSet(snapshots)

Candidate ==
    CASE config.policy = "l0merge" -> PickL0Merge(live, Pinned)
      [] config.policy = "leveled" -> PickLeveled(live, Pinned, 3, 2)
      [] config.policy = "tiered" -> PickTiered(live, Pinned, 2, 1500)

Inputs(ids) == {t \in OpenTables(live) : t.id \in ToSet(ids)}

Compacted(ids) == CompactedVersions(Inputs(ids), Keys, watermark)

\* An output without versions is not written: only the inputs are deleted.
BeginCompact ==
    /\ up /\ op = Idle
    /\ Candidate # NoCandidate
    /\ nextTable <= MaxTables
    /\ op' = [Idle EXCEPT !.kind = "compact", !.inputs = Candidate.inputs,
                          !.level = Candidate.level,
                          !.stage = IF Compacted(Candidate.inputs) = {} THEN "manifest" ELSE "table"]
    /\ UNCHANGED <<config, disk, memory, writes, up, used>>

\* The file is written beside, synced, renamed into place, and the directory synced.
WriteTable ==
    /\ up /\ op.stage = "table" /\ nextTable <= MaxTables
    /\ LET content == IF op.kind = "flush" THEN mem ELSE Compacted(op.inputs)
       IN  files' = [t \in DOMAIN files \union {nextTable} |->
                       IF t = nextTable THEN content ELSE files[t]]
    /\ nextTable' = nextTable + 1
    /\ op' = [op EXCEPT !.stage = "manifest", !.table = nextTable]
    /\ UNCHANGED <<config, segs, manifest, writer, mem, live, lastSeq, snapshots, watermark,
                   writes, up, used>>

NewMetas ==
    IF op.table = 0 THEN << >>
    ELSE <<[id |-> op.table, level |-> op.level, size |-> Cardinality(files[op.table])]>>

\* First the new table, then the inputs, oldest first.
Edits ==
    [i \in DOMAIN NewMetas |-> CreateTable(NewMetas[i])]
      \o [i \in DOMAIN op.inputs |-> DeleteTable(op.inputs[i])]
      \o <<SetLastSequence(lastSeq)>>

AppendEdits ==
    /\ up /\ op.stage = "manifest"
    /\ manifest' = [manifest EXCEPT !.edits = @ \o Edits]
    /\ op' = [op EXCEPT !.stage = "sync"]
    /\ UNCHANGED <<config, segs, files, memory, writes, up, used>>

SyncManifest ==
    /\ up /\ op.stage = "sync"
    /\ manifest' = [manifest EXCEPT !.synced = Len(manifest.edits)]
    /\ op' = [op EXCEPT !.stage = "publish"]
    /\ UNCHANGED <<config, segs, files, memory, writes, up, used>>

\* CURRENT is replaced, and memory follows: the inputs are gone, the output is live,
\* and a flush empties the memtable.
Publish ==
    /\ up /\ op.stage = "publish"
    /\ manifest' = [manifest EXCEPT !.current = TRUE]
    /\ live' = SelectSeq(live, LAMBDA m : m.id \notin ToSet(op.inputs)) \o NewMetas
    /\ mem' = IF op.kind = "flush" THEN {} ELSE mem
    /\ op' = Idle
    /\ UNCHANGED <<config, segs, files, writer, nextTable, lastSeq, snapshots, watermark,
                   writes, up, used>>

\* A disk operation of a flush or a compaction fails: what is on disk stays there and
\* memory keeps the old tables.
FailJob ==
    /\ up /\ op.kind \in {"flush", "compact"}
    /\ used.faults < config.faults
    /\ used' = [used EXCEPT !.faults = @ + 1]
    /\ op' = Idle
    /\ UNCHANGED <<config, disk, memory, writes, up>>

-----------------------------------------------------------------------------
(* Snapshots and the watermark. *)

\* create_snapshot pins the tables that are live.
CreateSnapshot ==
    /\ up /\ op = Idle
    /\ Len(snapshots) < config.pins
    /\ snapshots' = Append(snapshots, {m.id : m \in ToSet(live)})
    /\ UNCHANGED <<config, disk, writer, mem, live, nextTable, lastSeq, watermark, writes,
                   op, up, used>>

ReleaseSnapshot ==
    /\ up /\ op = Idle
    /\ snapshots # << >>
    /\ \E i \in DOMAIN snapshots : snapshots' = RemoveAt(snapshots, i)
    /\ UNCHANGED <<config, disk, writer, mem, live, nextTable, lastSeq, watermark, writes,
                   op, up, used>>

SetGcWatermark(ts) ==
    /\ up /\ op = Idle
    /\ config.gc /\ ts > watermark
    /\ watermark' = ts
    /\ UNCHANGED <<config, disk, writer, mem, live, nextTable, lastSeq, snapshots, writes,
                   op, up, used>>

-----------------------------------------------------------------------------
(* Stops and Engine::open. *)

Stopped ==
    /\ up
    /\ up' = FALSE
    /\ op' = Idle
    /\ UNCHANGED <<config, files, memory, writes>>

\* Edits that were not synced survive up to some point, the next one possibly torn.
ManifestSurvivors ==
    LET n == Len(manifest.edits)
        kept(k, tail) == [manifest EXCEPT !.edits = SubSeq(@, 1, k) \o tail,
                                          !.synced = k + Len(tail)]
    IN  {kept(k, << >>) : k \in manifest.synced .. n}
          \union {kept(k, <<TornEdit>>) : k \in manifest.synced .. (n - 1)}

PowerLoss ==
    /\ Stopped
    /\ used.losses < config.losses
    /\ used' = [used EXCEPT !.losses = @ + 1]
    /\ segs' \in Survivors(segs)
    /\ manifest' \in ManifestSurvivors

Kill ==
    /\ Stopped
    /\ used.kills < config.kills
    /\ used' = [used EXCEPT !.kills = @ + 1]
    /\ UNCHANGED <<segs, manifest>>

\* The memtable that replaying the log gives.
Replayed(s) ==
    {Version(writes[r.id].key, r.lsn, writes[r.id].val) : r \in ToSet(RecoveredRecords(s))}

\* Without CURRENT there is no manifest.
LoadedTables == IF manifest.current THEN ReplayManifest(manifest.edits) ELSE << >>

\* Engine::open: recover the log into a memtable, load the live tables, which must
\* all exist, and number tables and writes behind what was found.
Restart ==
    /\ ~ up
    /\ {m.id : m \in ToSet(LoadedTables)} \subseteq DOMAIN files
    /\ up' = TRUE
    /\ segs' = RecoveredSegments(segs)
    /\ writer' = OpenAt(segs', NextLsnAfter(segs))
    /\ mem' = Replayed(segs)
    /\ live' = LoadedTables
    /\ nextTable' = Max({0} \union {m.id : m \in ToSet(LoadedTables)}) + 1
    /\ lastSeq' = NextLsnAfter(segs) - 1
    /\ snapshots' = << >>
    /\ watermark' = 0
    /\ UNCHANGED <<config, files, manifest, writes, op, used>>

Next ==
    \/ \E k \in Keys, del \in BOOLEAN : BeginWrite(k, del)
    \/ \E mode \in {"strict", "relaxed"} : FinishWrite(mode)
    \/ BeginFlush \/ BeginCompact
    \/ WriteTable \/ AppendEdits \/ SyncManifest \/ Publish \/ FailJob
    \/ CreateSnapshot \/ ReleaseSnapshot
    \/ \E ts \in 1 .. Latest : SetGcWatermark(ts)
    \/ PowerLoss \/ Kill \/ Restart

Spec == Init /\ [][Next]_vars

-----------------------------------------------------------------------------
(* Properties. *)

\* What a reader would get, now or after opening what is on disk.
View ==
    CHOOSE f \in {[k \in Keys |-> GetInner(m, t, k, Latest)] :
                    m \in {IF up THEN mem ELSE Replayed(segs)},
                    t \in {OpenTables(IF up THEN live ELSE LoadedTables)}} : TRUE

Store == INSTANCE KvStore WITH
    Nothing <- Tombstone,
    kv <- View,
    pending <- IF op.kind = "write" THEN writes[op.write] ELSE [key |-> 0, val |-> 0]

\* ENG-001, ENG-002, ENG-003: with strict writes the engine is a map that no flush,
\* compaction, snapshot, failed job, crash or restart disturbs.
ImplementsStore == Store!Spec

\* ENG-002, ENG-004: a get, which stops at the first source that knows the key, returns
\* the record of highest sequence, which is the one a scan finds, at every timestamp.
ScanAgreesWithGet ==
    up => \A k \in Keys, ts \in 1 .. Latest :
            Get(k, ts) = ScanValue(mem, OpenTables(live), k, ts)

\* MAN-003 never bites: every table that some crash now could leave live exists, so
\* that Engine::open succeeds.
LiveTablesExist ==
    \A m \in ManifestSurvivors :
      {t.id : t \in ToSet(ReplayManifest(m.edits))} \subseteq DOMAIN files

\* LSM-005: as long as no GC watermark is set, a flush or a compaction changes no read,
\* at the latest or at an older timestamp.
JobsPreserveReads ==
    [][op.kind \in {"flush", "compact"} /\ up' /\ watermark = 0 =>
         \A k \in Keys, ts \in 1 .. Latest : Get(k, ts)' = Get(k, ts)]_vars

\* mvcc-spec.md section 7.3: a compaction changes no read at or above the watermark.
GcPreservesReads ==
    [][op.kind = "compact" /\ up' =>
         \A k \in Keys, ts \in watermark .. Latest : Get(k, ts)' = Get(k, ts)]_vars

\* What a flush was asked to keep stays: while it has not been compacted away, a table
\* that Publish made live is live for every later Engine::open.
FlushesArePublished ==
    up /\ op = Idle => ToSet(live) \subseteq ToSet(LoadedTables)

=============================================================================
