--------------------------- MODULE SecondaryIndex ---------------------------
(***************************************************************************)
(* Secondary indexes of kaya-engine (index.rs).  An operation is a list of *)
(* raw writes (write_put, write_delete), each a WAL record of its own: a   *)
(* crash keeps the ones done so far.  The engine is borrowed mutably, so   *)
(* nothing else runs in between.                                           *)
(*                                                                         *)
(* After a crash a cluster node applies the interrupted command again; the *)
(* index commands are local and are not repeated.                          *)
(***************************************************************************)
EXTENDS Naturals, Sequences, FiniteSets, FiniteSetsExt

CONSTANTS
    PKey,        \* primary keys under the prefix, numbers in key order
    PVal,        \* values, sequences over bytes
    Extractor,   \* the index's extractor
    BatchSize,   \* batch_size of index_backfill_step
    MaxKeyLen,   \* longest secondary that still gives a valid index key
    MaxIndexOps, \* bound: operations
    MaxIndexCrashes

VARIABLES
    prim,      \* primary values, NoValue if absent
    idxData,   \* index entries [sec, pk]
    idxMeta,   \* the index's metadata key exists
    indexed,   \* the index is registered in memory
    fill,      \* BackfillProgress: [status, lastKey]
    todo,      \* raw writes of the running operation that are not done
    command,   \* the put or delete that is running or was cut off, or NoCommand
    cutPut,    \* history: a put or delete did not run to its end
    cutFill,   \* history: a backfill did not run to its end
    idxOps, idxCrashes

idxVars == <<prim, idxData, idxMeta, indexed, fill, todo, command, cutPut, cutFill, idxOps, idxCrashes>>

NoValue == <<256>>   \* 256 is not a byte
NoSec == <<257>>
NoCommand == [key |-> 0, val |-> NoValue]
NoFill == [status |-> "Idle", lastKey |-> 0]

-----------------------------------------------------------------------------
(* IndexExtractor::extract. *)

Cuts(v, d) == {i \in DOMAIN v : v[i] = d}

\* The n-th field (from 0) lies between the n-th and the next delimiter.
FieldOf(v, d, n) ==
    LET cut(k) == IF k = 0 THEN 0
                  ELSE CHOOSE i \in Cuts(v, d) : Cardinality({j \in Cuts(v, d) : j <= i}) = k
    IN  IF n > Cardinality(Cuts(v, d)) THEN NoSec
        ELSE SubSeq(v, cut(n) + 1, IF n = Cardinality(Cuts(v, d)) THEN Len(v) ELSE cut(n + 1) - 1)

Extract(x, v) ==
    CASE x.kind = "WholeValue" -> v
      [] x.kind = "Prefix"     -> SubSeq(v, 1, Min({x.len, Len(v)}))
      [] x.kind = "Field"      -> FieldOf(v, x.delimiter, x.index)

Sec(v) == IF v = NoValue THEN NoSec ELSE Extract(Extractor, v)

-----------------------------------------------------------------------------
(* Raw writes. *)

PrimWrite(k, v) == [at |-> "prim", key |-> k, val |-> v]
EntryWrite(s, k, present) == [at |-> "data", sec |-> s, key |-> k, present |-> present]
Progress(status, last) == [at |-> "fill", prog |-> [status |-> status, lastKey |-> last]]
MetaWrite(present) == [at |-> "meta", present |-> present]

\* validate_key of an index key: the write fails and so does the operation.
Rejected(w) == w.at = "data" /\ w.present /\ Len(w.sec) > MaxKeyLen


\* maintain_indexes_after_put.
AfterPut(k, old, new) ==
    IF Sec(old) # NoSec /\ Sec(old) = Sec(new)
    THEN IF [sec |-> Sec(new), pk |-> k] \in idxData THEN << >> ELSE <<EntryWrite(Sec(new), k, TRUE)>>
    ELSE (IF Sec(old) = NoSec THEN << >> ELSE <<EntryWrite(Sec(old), k, FALSE)>>)
           \o (IF Sec(new) = NoSec THEN << >> ELSE <<EntryWrite(Sec(new), k, TRUE)>>)

\* maintain_indexes_after_delete.
AfterDelete(k, old) == IF Sec(old) = NoSec THEN << >> ELSE <<EntryWrite(Sec(old), k, FALSE)>>

Maintenance(k, old, new) ==
    IF ~ indexed THEN << >> ELSE IF new = NoValue THEN AfterDelete(k, old) ELSE AfterPut(k, old, new)

IndexInit ==
    /\ prim \in [PKey -> PVal \cup {NoValue}]
    /\ idxData = {} /\ idxMeta = FALSE /\ indexed = FALSE
    /\ fill = NoFill /\ todo = << >> /\ command = NoCommand
    /\ cutPut = FALSE /\ cutFill = FALSE /\ idxOps = 0 /\ idxCrashes = 0

Ready == todo = << >> /\ command = NoCommand
Counted == idxOps < MaxIndexOps /\ idxOps' = idxOps + 1

-----------------------------------------------------------------------------
(* Operations. *)

\* Engine::put and Engine::delete (the latter with NoValue).
RunCommand(k, v) ==
    /\ command' = [key |-> k, val |-> v]
    /\ todo' = <<PrimWrite(k, v)>> \o Maintenance(k, prim[k], v)

PutOrDelete(k, v) ==
    /\ Ready /\ Counted
    /\ RunCommand(k, v)
    /\ UNCHANGED <<prim, idxData, idxMeta, indexed, fill, cutPut, cutFill, idxCrashes>>

\* Entries for the primaries in keys, in key order.
FillWrites(keys) ==
    LET ks == {k \in keys : Sec(prim[k]) # NoSec}
        nth(n) == CHOOSE k \in ks : Cardinality({j \in ks : j < k}) = n - 1
    IN  [n \in 1 .. Cardinality(ks) |-> EntryWrite(Sec(prim[nth(n)]), nth(n), TRUE)]

Present == {k \in PKey : prim[k] # NoValue}

\* create_index_with: the metadata, then every present key (Sync) or none (Online).
CreateIndex(mode) ==
    /\ Ready /\ ~ indexed /\ Counted
    /\ indexed' = TRUE
    /\ todo' = <<MetaWrite(TRUE)>> \o (IF mode = "Sync" THEN Append(FillWrites(Present), Progress("Complete", 0))
                                      ELSE <<Progress("Running", 0)>>)
    /\ fill' = NoFill
    /\ UNCHANGED <<prim, idxData, idxMeta, command, cutPut, cutFill, idxCrashes>>

\* The keys of a step of the backfill: the first ones past the cursor.
BackfillKeys(last) ==
    LET rest == {k \in Present : k > last}
    IN  {k \in rest : Cardinality({j \in rest : j <= k}) <= BatchSize}

\* index_backfill_step: it is complete when it ran out of keys before the batch was full.
BackfillStep ==
    LET keys == BackfillKeys(fill.lastKey) IN
    /\ Ready /\ indexed /\ fill.status \in {"Running", "Idle"} /\ Counted
    /\ todo' = Append(FillWrites(keys), IF Cardinality(keys) = BatchSize
                                        THEN Progress("Running", Max(keys))
                                        ELSE Progress("Complete", fill.lastKey))
    /\ UNCHANGED <<prim, idxData, idxMeta, indexed, fill, command, cutPut, cutFill, idxCrashes>>

BackfillPause ==
    /\ Ready /\ indexed /\ fill.status = "Running"
    /\ fill' = [fill EXCEPT !.status = "Paused"]
    /\ UNCHANGED <<prim, idxData, idxMeta, indexed, todo, command, cutPut, cutFill, idxOps, idxCrashes>>

BackfillResume ==
    /\ Ready /\ indexed /\ fill.status \in {"Paused", "Idle"}
    /\ fill' = [fill EXCEPT !.status = "Running"]
    /\ UNCHANGED <<prim, idxData, idxMeta, indexed, todo, command, cutPut, cutFill, idxOps, idxCrashes>>

DropWrites(s) == [i \in DOMAIN s |-> EntryWrite(s[i].sec, s[i].pk, FALSE)] \o <<MetaWrite(FALSE)>>

\* drop_index: every entry, then the metadata.
DropIndex ==
    /\ Ready /\ indexed /\ Counted
    /\ indexed' = FALSE /\ fill' = NoFill
    /\ \E s \in [1 .. Cardinality(idxData) -> idxData] :
          /\ {s[i] : i \in DOMAIN s} = idxData
          /\ todo' = DropWrites(s)
    /\ UNCHANGED <<prim, idxData, idxMeta, command, cutPut, cutFill, idxCrashes>>

\* One raw write (WAL append and memtable), or the progress of a backfill, in memory.
RawWrite ==
    /\ todo # << >> /\ ~ Rejected(Head(todo))
    /\ LET w == Head(todo) IN
       /\ prim' = IF w.at = "prim" THEN [prim EXCEPT ![w.key] = w.val] ELSE prim
       /\ idxMeta' = IF w.at = "meta" THEN w.present ELSE idxMeta
       /\ idxData' = CASE w.at # "data" -> idxData
                       [] w.at = "data" /\ w.present -> idxData \cup {[sec |-> w.sec, pk |-> w.key]}
                       [] w.at = "data" /\ ~ w.present -> idxData \ {[sec |-> w.sec, pk |-> w.key]}
       /\ fill' = IF w.at = "fill" THEN w.prog ELSE fill
    /\ todo' = Tail(todo)
    /\ command' = IF Len(todo) = 1 THEN NoCommand ELSE command
    /\ UNCHANGED <<indexed, cutPut, cutFill, idxOps, idxCrashes>>

\* The key of an index entry is not valid: the operation returns the error, and what it
\* has written stays.  The progress of a backfill is not stored.
FailWrite ==
    /\ todo # << >> /\ Rejected(Head(todo))
    /\ todo' = << >> /\ command' = NoCommand
    /\ cutPut' = (cutPut \/ command # NoCommand)
    /\ cutFill' = (cutFill \/ command = NoCommand)
    /\ UNCHANGED <<prim, idxData, idxMeta, indexed, fill, idxOps, idxCrashes>>

\* The process stops: the raw writes to come are lost.  Open reads the metadata and takes
\* every index for complete (load_index_metadata).
IndexCrash ==
    /\ idxCrashes < MaxIndexCrashes
    /\ idxCrashes' = idxCrashes + 1
    /\ indexed' = idxMeta
    /\ fill' = IF idxMeta THEN [NoFill EXCEPT !.status = "Complete"] ELSE NoFill
    /\ todo' = << >>
    /\ cutPut' = (cutPut \/ (todo # << >> /\ command # NoCommand))
    /\ cutFill' = (cutFill \/ (todo # << >> /\ command = NoCommand)
                           \/ (indexed /\ fill.status # "Complete"))
    /\ UNCHANGED <<prim, idxData, idxMeta, command, idxOps>>

\* The log entry is applied again.
Reapply ==
    /\ todo = << >> /\ command # NoCommand
    /\ RunCommand(command.key, command.val)
    /\ UNCHANGED <<prim, idxData, idxMeta, indexed, fill, cutPut, cutFill, idxOps, idxCrashes>>

IndexNext ==
    \/ \E k \in PKey, v \in PVal \cup {NoValue} : PutOrDelete(k, v)
    \/ CreateIndex("Sync") \/ CreateIndex("Online")
    \/ BackfillStep \/ BackfillPause \/ BackfillResume \/ DropIndex
    \/ RawWrite \/ FailWrite \/ IndexCrash \/ Reapply

IndexSpec == IndexInit /\ [][IndexNext]_idxVars

-----------------------------------------------------------------------------
(* Properties. *)

\* verify_index.
Expected == {[sec |-> Sec(prim[k]), pk |-> k] : k \in {j \in PKey : Sec(prim[j]) # NoSec}}
MissingInIndex == Expected \ idxData
ExtraInIndex == idxData \ Expected

\* IDX-I-005: puts, updates and deletes, before, during and after a backfill with pauses,
\* leave verify_index empty once the backfill is complete, unless an operation was cut off.
VerifyIsEmpty ==
    Ready /\ indexed /\ fill.status = "Complete" /\ ~ cutPut /\ ~ cutFill
        => MissingInIndex = {} /\ ExtraInIndex = {}

\* Also when puts were cut off by crashes and applied again, an index whose backfill ran to
\* its end has an entry for every primary: a scan by index misses nothing
\* (maintain_indexes_after_put writes an unchanged secondary that is absent).
IndexIsComplete ==
    Ready /\ indexed /\ fill.status = "Complete" /\ ~ cutFill
        => \A e \in MissingInIndex : Len(e.sec) > MaxKeyLen

\* A crashed put that is applied again leaves no entry for the value it replaced.
NoStaleEntries == Ready /\ indexed => ExtraInIndex = {}

=============================================================================
