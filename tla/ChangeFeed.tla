----------------------------- MODULE ChangeFeed -----------------------------
(***************************************************************************)
(* The changefeed of kaya-engine (cdc.rs): the event that put and delete   *)
(* append after their write, the log file and its in-memory copy, the      *)
(* consumers' cursors, and compaction.                                     *)
(*                                                                         *)
(* A consumer works the way the at-least-once contract asks: it polls from *)
(* the last sequence it has processed, processes the batch, and            *)
(* checkpoints; it may crash with a batch in its hands.                    *)
(***************************************************************************)
EXTENDS Naturals, Sequences, FiniteSets

CONSTANTS
    Consumer,    \* consumer ids
    PollLimit,   \* limit of a poll
    Durable,     \* the WAL is strict
    Cutoff,      \* "checkpoint": compaction is given the lowest checkpoint;
                 \* "default": retain_below is None
    MaxWrites,   \* bound: writes
    MaxCrashes   \* bound: crashes of the engine

VARIABLES
    lastSeq,     \* stats.last_sequence: the newest write of the WAL
    syncedSeq,   \* the newest write of the WAL that a crash cannot take
    writes,      \* writes so far; the number of a write is its identity
    writing,     \* the write whose event is not appended yet, or NoEvent
    feedFile,    \* cdc/log.jsonl: events [seq, id]
    feed,        \* CdcState.events
    polledSeq,   \* CdcState.consumer_last_seq, Unset if there is none
    cursorFile,  \* cdc/cursors/{id}, Unset if there is no file
    mine,        \* the consumer's own position: the last sequence it processed
    batch,       \* the events it has polled and not processed
    seen,        \* the writes it has processed
    acked,       \* writes whose put or delete returned Ok
    halfCompact, \* the old length of the log while compaction rewrites it, or 0
    unreadable,  \* the log does not parse: the engine does not open
    cdcCrashes

cdcVars == <<lastSeq, syncedSeq, writes, writing, feedFile, feed, polledSeq, cursorFile, mine,
             batch, seen, acked, halfCompact, unreadable, cdcCrashes>>
consumerVars == <<mine, batch, seen>>
engineVars == <<lastSeq, syncedSeq, writes, writing, acked>>

NoEvent == [seq |-> 0, id |-> 0]
Unset == MaxWrites + 1   \* no position: larger than every sequence

CdcInit ==
    /\ lastSeq = 0 /\ syncedSeq = 0 /\ writes = 0 /\ writing = NoEvent
    /\ feedFile = << >> /\ feed = << >>
    /\ polledSeq = [c \in Consumer |-> Unset]
    /\ cursorFile = [c \in Consumer |-> Unset]
    /\ mine = [c \in Consumer |-> 0]
    /\ batch = [c \in Consumer |-> << >>]
    /\ seen = [c \in Consumer |-> {}]
    /\ acked = {}
    /\ halfCompact = 0 /\ unreadable = FALSE /\ cdcCrashes = 0

Up == ~ unreadable
Idle == Up /\ writing = NoEvent /\ halfCompact = 0   \* no operation holds the engine

-----------------------------------------------------------------------------
(* Writes. *)

\* put or delete up to the WAL append and the memtable.
WriteRecord ==
    /\ Idle /\ writes < MaxWrites
    /\ writes' = writes + 1
    /\ lastSeq' = lastSeq + 1
    /\ writing' = [seq |-> lastSeq + 1, id |-> writes + 1]
    /\ UNCHANGED <<syncedSeq, feedFile, feed, polledSeq, cursorFile, acked, halfCompact, unreadable,
                   cdcCrashes>>
    /\ UNCHANGED consumerVars

\* append_cdc_event, and the return of the operation.  A strict WAL has synced the record
\* before the append of it returns.
AppendCdcEvent ==
    /\ Up /\ writing # NoEvent
    /\ Durable => syncedSeq = lastSeq
    /\ feedFile' = Append(feedFile, writing)
    /\ feed' = Append(feed, writing)
    /\ acked' = acked \cup {writing.id}
    /\ writing' = NoEvent
    /\ UNCHANGED <<lastSeq, syncedSeq, writes, polledSeq, cursorFile, halfCompact, unreadable, cdcCrashes>>
    /\ UNCHANGED consumerVars

\* fsync of the WAL: at every record, or later.
WalSync ==
    /\ Up /\ syncedSeq < lastSeq
    /\ syncedSeq' = lastSeq
    /\ UNCHANGED <<lastSeq, writes, writing, feedFile, feed, polledSeq, cursorFile, acked,
                   halfCompact, unreadable, cdcCrashes>>
    /\ UNCHANGED consumerVars

-----------------------------------------------------------------------------
(* Consumers. *)

After(events, s) == SelectSeq(events, LAMBDA e : e.seq > s)

FirstOf(events) == SubSeq(events, 1, IF Len(events) < PollLimit THEN Len(events) ELSE PollLimit)

\* Mutant of CdcCheckpoint: it stores the newest sequence of the engine.
CheckpointNewest(c) ==
    /\ Idle /\ batch[c] = << >>
    /\ cursorFile' = [cursorFile EXCEPT ![c] = lastSeq]
    /\ UNCHANGED <<feedFile, feed, polledSeq, halfCompact, unreadable, cdcCrashes>>
    /\ UNCHANGED consumerVars
    /\ UNCHANGED engineVars

\* cdc_poll; an empty answer changes nothing.
Polled(c, out) ==
    /\ out = FirstOf(After(feed, mine[c])) /\ out # << >>
    /\ polledSeq' = [polledSeq EXCEPT ![c] = out[Len(out)].seq]

\* CDC_POLL: subscribe from the consumer's position, and poll.
CdcPoll(c) ==
    /\ Idle /\ batch[c] = << >>
    /\ \E out \in {FirstOf(After(feed, mine[c]))} :
          Polled(c, out) /\ batch' = [batch EXCEPT ![c] = out]
    /\ UNCHANGED <<feedFile, feed, cursorFile, mine, seen, halfCompact, unreadable, cdcCrashes>>
    /\ UNCHANGED engineVars

\* The consumer has processed its batch.
Process(c) ==
    /\ batch[c] # << >>
    /\ seen' = [seen EXCEPT ![c] = @ \cup {batch[c][i].id : i \in DOMAIN batch[c]}]
    /\ mine' = [mine EXCEPT ![c] = batch[c][Len(batch[c])].seq]
    /\ batch' = [batch EXCEPT ![c] = << >>]
    /\ UNCHANGED <<feedFile, feed, polledSeq, cursorFile, halfCompact, unreadable, cdcCrashes>>
    /\ UNCHANGED engineVars

\* The consumer fails before it has processed its batch, and starts again from its position.
ConsumerCrash(c) ==
    /\ batch[c] # << >>
    /\ batch' = [batch EXCEPT ![c] = << >>]
    /\ UNCHANGED <<feedFile, feed, polledSeq, cursorFile, mine, seen, halfCompact, unreadable, cdcCrashes>>
    /\ UNCHANGED engineVars

\* cdc_checkpoint, called with no batch in hand: it stores the last polled sequence.
CdcCheckpoint(c) ==
    /\ Idle /\ batch[c] = << >> /\ mine[c] = (IF polledSeq[c] = Unset THEN 0 ELSE polledSeq[c])
    /\ cursorFile' = [cursorFile EXCEPT ![c] = IF polledSeq[c] = Unset THEN 0 ELSE polledSeq[c]]
    /\ UNCHANGED <<feedFile, feed, polledSeq, halfCompact, unreadable, cdcCrashes>>
    /\ UNCHANGED consumerVars
    /\ UNCHANGED engineVars

-----------------------------------------------------------------------------
(* Compaction and crash. *)

Least(f) == CHOOSE s \in {f[c] : c \in Consumer} : \A c \in Consumer : s <= f[c]

\* The positions compaction goes by: cdc_min_consumer_seq is over those in memory.
Positions == IF Cutoff = "default" THEN polledSeq ELSE cursorFile

\* cdc_compact, with every consumer known to the engine, up to write_at: memory is compacted, the old
\* tail is still in the file.
CdcCompact ==
    LET kept == After(feed, Least(Positions)) IN
    /\ Idle /\ Len(kept) < Len(feed)
    /\ \A c \in Consumer : Positions[c] # Unset
    /\ feed' = kept
    /\ feedFile' = kept \o SubSeq(feedFile, Len(kept) + 1, Len(feedFile))
    /\ halfCompact' = Len(feedFile)
    /\ UNCHANGED <<polledSeq, cursorFile, unreadable, cdcCrashes>>
    /\ UNCHANGED consumerVars
    /\ UNCHANGED engineVars

\* The truncate and fsync that end it.
CdcTruncate ==
    /\ Up /\ halfCompact # 0
    /\ feedFile' = feed
    /\ halfCompact' = 0
    /\ UNCHANGED <<feed, polledSeq, cursorFile, unreadable, cdcCrashes>>
    /\ UNCHANGED consumerVars
    /\ UNCHANGED engineVars

\* sort_by_key, which is stable.
BySeq(events) ==
    LET Before(i, j) == events[i].seq < events[j].seq \/ (events[i].seq = events[j].seq /\ i < j)
        at(n) == CHOOSE i \in DOMAIN events : Cardinality({j \in DOMAIN events : Before(j, i)}) = n - 1
    IN  [n \in DOMAIN events |-> events[at(n)]]

\* The process dies and the engine is opened again: load_cdc_log_and_cursors.  The tail
\* that compaction had not cut off starts in the middle of a line or at the start of one.
CdcCrash ==
    /\ Up /\ cdcCrashes < MaxCrashes
    /\ cdcCrashes' = cdcCrashes + 1
    /\ \/ unreadable' = FALSE /\ feed' = BySeq(feedFile)
       \/ halfCompact # 0 /\ unreadable' = TRUE /\ feed' = << >>
    /\ polledSeq' = cursorFile
    /\ writing' = NoEvent /\ halfCompact' = 0
    /\ lastSeq' = syncedSeq
    /\ UNCHANGED <<syncedSeq, writes, acked, feedFile, cursorFile>>
    /\ UNCHANGED consumerVars

CdcNext ==
    \/ WriteRecord \/ AppendCdcEvent \/ WalSync
    \/ \E c \in Consumer : CdcPoll(c) \/ Process(c) \/ ConsumerCrash(c) \/ CdcCheckpoint(c)
    \/ CdcCompact \/ CdcTruncate \/ CdcCrash

CdcSpec == CdcInit /\ [][CdcNext]_cdcVars

-----------------------------------------------------------------------------
(* Properties. *)

\* A consumer that resumes from its own position has processed every acknowledged write up
\* to it: nothing is skipped by limits, crashes on either side, or compaction
\* (cdc_poll, cdc_compact, load_cdc_log_and_cursors).
NothingSkipped ==
    Up => \A c \in Consumer : \A i \in acked :
        \/ i \in seen[c]
        \/ \E n \in DOMAIN batch[c] : batch[c][n].id = i
        \/ \E n \in DOMAIN feed : feed[n].id = i /\ feed[n].seq > mine[c]

\* The events of the log stay in the order of their sequences, in memory and in the file,
\* with one event for a write unless a crash has cut compaction short (append_cdc_event,
\* sort_by_key).
FeedInOrder ==
    /\ \A i, j \in DOMAIN feed : i < j => feed[i].seq <= feed[j].seq
    /\ Idle => \A i \in DOMAIN feed : \E j \in DOMAIN feedFile : feedFile[j] = feed[i]

\* A crash at any moment leaves a log that the engine opens with.
LogStaysReadable == ~ unreadable
=============================================================================
