----------------------------- MODULE WalWriter -----------------------------
(***************************************************************************)
(* WalWriter::append of kaya-wal with group commit, segment rotation and   *)
(* recovery.  The writer's lock is held across every await of an append    *)
(* except the wait for a group fsync, so one call is in progress at a time *)
(* while others wait for their group.  Every disk operation is a step of   *)
(* its own, and the process or the machine may stop between any two.       *)
(***************************************************************************)
EXTENDS WalSegments

CONSTANTS
    Configs,     \* the configurations and environments to consider
    MaxAppends   \* bound: append calls

\* WalConfig, what callers ask for and what the environment does to them: durability
\* modes, callers inside append at once, records per segment, batch_max_records (1
\* switches count batching off), whether batch_flush_interval_us is set, how often
\* the machine loses power and the process is killed, and which disk operations may
\* fail (once).
Config == [modes : SUBSET {"strict", "relaxed"}, tasks : Nat \ {0}, segmentMax : Nat \ {0},
           batchMax : Nat \ {0}, interval : BOOLEAN, losses : Nat, kills : Nat,
           faults : SUBSET {"fsync", "dir", "write"}]

VARIABLES
    config,    \* the configuration, fixed at the start
    segs,      \* the segment files, in the order of their ids
    writer,    \* WalWriterInner
    call,      \* the append that holds the lock
    waiting,   \* the calls that wait for a group fsync
    acked,     \* the calls that returned with durable = true
    order,     \* the calls in the order their records reached the log
    up,        \* whether the process runs
    used       \* the bounds used up so far

vars == <<config, segs, writer, call, waiting, acked, order, up, used>>

NoCall == [id |-> 0, mode |-> "none", stage |-> "idle"]

Stages == {"idle", "expired", "write", "dir", "finish"}

WalTypeOK ==
    /\ config \in Configs
    /\ segs \in Seq(Segment)
    /\ writer \in Writer
    /\ call \in [id : Nat, mode : config.modes \union {"none"}, stage : Stages]
    /\ waiting \subseteq 1 .. used.appends
    /\ acked \subseteq 1 .. used.appends
    /\ order \in Seq(1 .. used.appends)
    /\ up \in BOOLEAN
    /\ used \in [appends : 0 .. MaxAppends, losses : 0 .. config.losses,
                 kills : 0 .. config.kills, faults : 0 .. 1]

Init ==
    /\ config \in Configs
    /\ segs = << >>
    /\ writer = OpenAt(<< >>, 1)
    /\ call = NoCall
    /\ waiting = {}
    /\ acked = {}
    /\ order = << >>
    /\ up = TRUE
    /\ used = [appends |-> 0, losses |-> 0, kills |-> 0, faults |-> 0]

-----------------------------------------------------------------------------
BatchEnabled == config.batchMax > 1 \/ config.interval

\* interval_expired: the clock may or may not have passed the interval.
MayExpire == IF config.interval THEN BOOLEAN ELSE {FALSE}

CountFull(pending) == config.batchMax > 1 /\ pending >= config.batchMax

\* flush_strict_batch that succeeds: everyone who waits is answered.
GroupFsync(s, alsoAcked) ==
    /\ segs' = FsyncFile(s, writer.active)
    /\ acked' = acked \union waiting \union alsoAcked
    /\ waiting' = {}

\* A failed disk operation makes append return its error and leaves the lock.
Fault(kind) ==
    /\ kind \in config.faults
    /\ used.faults = 0
    /\ used' = [used EXCEPT !.faults = @ + 1]
    /\ call' = NoCall

\* flush_strict_batch that fails: fail_flush drops the waiters, who get an error.
GroupFsyncFails ==
    /\ Fault("fsync")
    /\ waiting' = {}
    /\ UNCHANGED <<segs, acked>>

\* The segment has no room for another record.
Full(w) == w.len > 0 /\ w.len + 1 > config.segmentMax

\* append takes the lock and looks whether an older group is overdue.
Begin(mode) ==
    /\ up /\ call = NoCall /\ mode \in config.modes
    /\ Cardinality(waiting) < config.tasks
    /\ used.appends < MaxAppends
    /\ used' = [used EXCEPT !.appends = @ + 1]
    /\ \E expired \in MayExpire :
         call' = [id |-> used.appends + 1, mode |-> mode,
                  stage |-> IF writer.pending > 0 /\ expired THEN "expired" ELSE "write"]
    /\ UNCHANGED <<config, segs, writer, waiting, acked, order, up>>

\* The overdue group is synced first.
FlushExpired ==
    /\ up /\ call.stage = "expired"
    /\ writer' = [writer EXCEPT !.pending = 0]
    /\ \/ /\ GroupFsync(segs, {})
          /\ call' = [call EXCEPT !.stage = "write"]
          /\ UNCHANGED used
       \/ GroupFsyncFails
    /\ UNCHANGED <<config, order, up>>

\* The record reaches the file; the lock is still held.
Written(s, w, rec) ==
    /\ segs' = FileAppend(s, w.active, rec)
    /\ writer' = w
    /\ order' = Append(order, rec.id)
    /\ call' = [call EXCEPT !.stage = IF w.dirSynced THEN "finish" ELSE "dir"]
    /\ UNCHANGED used

\* A write that fails may leave nothing or a part of the record.
WriteFails(s, w) ==
    /\ Fault("write")
    /\ \/ segs' = s
       \/ segs' = FileAppend(s, w.active, Torn)
    /\ writer' = w
    /\ UNCHANGED order

\* Mutant of WriteRecord: the pending group is not synced before the rotation.
WriteRecordNoFlush ==
    /\ up /\ call.stage = "write"
    /\ LET rec == WalRecord(writer.nextLsn, call.id)
           w == IF Full(writer) THEN Rotated(writer) ELSE writer
       IN  Written(segs, w, rec) \/ WriteFails(segs, w)
    /\ UNCHANGED <<config, waiting, acked, up>>

\* A full segment is left behind after its pending group is synced; what was written
\* relaxed stays unsynced.
WriteRecord ==
    /\ up /\ call.stage = "write"
    /\ LET rec == WalRecord(writer.nextLsn, call.id)
           idle == [writer EXCEPT !.pending = 0]
       IN  \/ /\ ~ Full(writer)
              /\ Written(segs, writer, rec) \/ WriteFails(segs, writer)
              /\ UNCHANGED <<waiting, acked>>
           \/ /\ Full(writer) /\ writer.pending = 0
              /\ Written(segs, Rotated(writer), rec) \/ WriteFails(segs, Rotated(writer))
              /\ UNCHANGED <<waiting, acked>>
           \/ /\ Full(writer) /\ writer.pending > 0
              /\ acked' = acked \union waiting
              /\ waiting' = {}
              /\ LET s == FsyncFile(segs, writer.active)
                 IN  Written(s, Rotated(idle), rec) \/ WriteFails(s, Rotated(idle))
           \/ /\ Full(writer) /\ writer.pending > 0
              /\ GroupFsyncFails
              /\ writer' = idle
              /\ UNCHANGED order
    /\ UNCHANGED <<config, up>>


\* A segment's first record is followed by an fsync of the directory.
SyncDirectory ==
    /\ up /\ call.stage = "dir"
    /\ \/ /\ segs' = FsyncDir(segs)
          /\ writer' = [writer EXCEPT !.dirSynced = TRUE]
          /\ call' = [call EXCEPT !.stage = "finish"]
          /\ UNCHANGED used
       \/ /\ Fault("dir")
          /\ UNCHANGED <<segs, writer>>
    /\ UNCHANGED <<config, waiting, acked, order, up>>

FinishRelaxed ==
    /\ up /\ call.stage = "finish" /\ call.mode = "relaxed"
    /\ writer' = Advanced(writer, segs)
    /\ call' = NoCall
    /\ UNCHANGED <<config, segs, waiting, acked, order, up, used>>

\* Without batching the fsync decides whether the LSN is used up.
FinishStrict ==
    /\ up /\ call.stage = "finish" /\ call.mode = "strict" /\ ~ BatchEnabled
    /\ \/ /\ GroupFsync(segs, {call.id})
          /\ writer' = Advanced(writer, segs)
          /\ call' = NoCall
          /\ UNCHANGED used
       \/ /\ GroupFsyncFails
          /\ UNCHANGED writer
    /\ UNCHANGED <<config, order, up>>

\* With batching the LSN is used up first; the call that fills the group syncs for
\* all, the others give the lock back and wait.
FinishBatched ==
    /\ up /\ call.stage = "finish" /\ call.mode = "strict" /\ BatchEnabled
    /\ LET w == Advanced(writer, segs)
       IN  \E expired \in MayExpire :
             IF CountFull(writer.pending + 1) \/ expired
             THEN /\ writer' = [w EXCEPT !.pending = 0]
                  /\ \/ /\ GroupFsync(segs, {call.id})
                        /\ call' = NoCall
                        /\ UNCHANGED used
                     \/ GroupFsyncFails
             ELSE /\ writer' = [w EXCEPT !.pending = @ + 1]
                  /\ waiting' = waiting \union {call.id}
                  /\ call' = NoCall
                  /\ UNCHANGED <<segs, acked, used>>
    /\ UNCHANGED <<config, order, up>>

-----------------------------------------------------------------------------
Stopped ==
    /\ up
    /\ up' = FALSE
    /\ call' = NoCall
    /\ waiting' = {}
    /\ UNCHANGED <<config, writer, acked, order>>

\* The machine loses whatever part of the unsynced data the disk has not written.
PowerLoss ==
    /\ Stopped
    /\ used.losses < config.losses
    /\ used' = [used EXCEPT !.losses = @ + 1]
    /\ segs' \in Survivors(segs)

\* Only the process dies: the files keep their content, synced or not.
Kill ==
    /\ Stopped
    /\ used.kills < config.kills
    /\ used' = [used EXCEPT !.kills = @ + 1]
    /\ UNCHANGED segs

\* recover_wal, then open_at behind the last recovered record.
Restart ==
    /\ ~ up
    /\ up' = TRUE
    /\ segs' = RecoveredSegments(segs)
    /\ writer' = OpenAt(segs', NextLsnAfter(segs))
    /\ order' = [i \in DOMAIN RecoveredRecords(segs) |-> RecoveredRecords(segs)[i].id]
    /\ UNCHANGED <<config, call, waiting, acked, used>>

Next ==
    \/ \E mode \in {"strict", "relaxed"} : Begin(mode)
    \/ FlushExpired
    \/ WriteRecord
    \/ SyncDirectory
    \/ FinishRelaxed
    \/ FinishStrict
    \/ FinishBatched
    \/ PowerLoss
    \/ Kill
    \/ Restart

Spec == Init /\ [][Next]_vars

\* Every step of the log itself is taken, and a stopped process comes back; nobody
\* is obliged to call append again.
FairSpec ==
    /\ Spec
    /\ WF_vars(FlushExpired \/ WriteRecord \/ SyncDirectory
                 \/ FinishRelaxed \/ FinishStrict \/ FinishBatched)
    /\ WF_vars(Restart)

-----------------------------------------------------------------------------
(* Properties. *)


\* WAL-001: the complete records in the files, segment after segment, carry
\* consecutive LSNs, the record being written included.
LsnsAreContiguous ==
    \A m, n \in DOMAIN segs : m <= n =>
      \A i \in DOMAIN segs[m].recs, j \in DOMAIN segs[n].recs :
        LET r == segs[m].recs[i]
            s == segs[n].recs[j]
            next == \/ m = n /\ j = i + 1
                    \/ m + 1 = n /\ i = Len(segs[m].recs) /\ j = 1
        IN  next /\ r # Torn /\ s # Torn => s.lsn = r.lsn + 1

\* WAL-005 and WAL-006: recovering what recovery left gives the same records.
RecoveryIsIdempotent ==
    RecoveredRecords(RecoveredSegments(segs)) = RecoveredRecords(segs)

\* WAL-002: a restart recovers a prefix of the records in the order in which they
\* were appended: no record without all of its predecessors.
RecoversPrefix ==
    [][Restart => /\ Len(order') <= Len(order)
                  /\ order' = SubSeq(order, 1, Len(order'))]_vars

\* A strict append returns: whoever waits for a group fsync is answered, with
\* success or with an error, unless the process stops.
WaitersAreAnswered == \A id \in 1 .. MaxAppends : (id \in waiting) ~> (id \notin waiting)

=============================================================================
