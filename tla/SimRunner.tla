----------------------------- MODULE SimRunner -----------------------------
(***************************************************************************)
(* The deterministic simulator of the storage engine: random operations    *)
(* checked against a multi-version reference model, a trace of what was    *)
(* done, and the replay of a trace on a fresh engine                       *)
(* (crates/kaya-sim/src/{runner,model,trace}.rs).                          *)
(*                                                                         *)
(* The engine under test is a set of versions that may misbehave: a crash  *)
(* may lose versions, a read may answer wrongly, a write may fail.  The    *)
(* question is what the simulator then says.                               *)
(***************************************************************************)
EXTENDS Integers, Sequences, FiniteSets, FiniteSetsExt

CONSTANTS SimKeys, SimValues,
          MaxOperations,   \* max_operations
          GlobalProbes,    \* timestamps.iter().take(4)
          Faults           \* what the engine may do: "lose", "misread", "fail"

VARIABLES
    engine,      \* versions [key, seq, val] the engine holds
    nextSeq,     \* the sequence number the engine gives next
    model,       \* RefModel: the versions acknowledged
    opId,
    trace,       \* the lines written
    violations,  \* the invariants reported broken
    behaved,     \* ghost: the faults that happened
    replay       \* the replay of the trace, once the run is over

simVars == <<engine, nextSeq, model, opId, trace, violations, behaved, replay>>

Gone == "gone"     \* None, and a tombstone
Forever == 1000    \* u64::MAX as a read timestamp

(***************************************************************************)
(* Versions, of the engine as of the model.                                *)
(***************************************************************************)
GetAt(versions, k, ts) ==
    LET seen == {v \in versions : v.key = k /\ v.seq <= ts}
    IN IF seen = {} THEN Gone
       ELSE (CHOOSE v \in seen : \A w \in seen : w.seq <= v.seq).val

GetLatest(versions, k) == GetAt(versions, k, Forever)

ScanPrefixAt(versions, ts) ==
    {<<k, GetAt(versions, k, ts)>> : k \in {j \in SimKeys : GetAt(versions, j, ts) # Gone}}

ScanPrefix(versions) == ScanPrefixAt(versions, Forever)

(* BTreeMap::insert: a version with the same sequence is replaced. *)
RecordVersion(versions, k, val, seq) ==
    {v \in versions : ~(v.key = k /\ v.seq = seq)} \cup {[key |-> k, seq |-> seq, val |-> val]}

VersionsOf(versions, k) == {v.seq : v \in {w \in versions : w.key = k}}

AllCommitTimestamps(versions) == {v.seq : v \in versions}

Smallest(S, n) == {x \in S : Cardinality({y \in S : y < x}) < n}

(***************************************************************************)
(* The trace.  A line is the function of its fields; the reader goes by    *)
(* the fields it finds, and by the values it can decode.                   *)
(***************************************************************************)
Start == [kind |-> "sim_start", max_ops |-> MaxOperations]
OpLine(oid, cmd) == [kind |-> "op", oid |-> oid, cmd |-> cmd]
OpKey(oid, cmd, k) == [kind |-> "op", oid |-> oid, cmd |-> cmd, key |-> k]
OpPut(oid, k, val) == [kind |-> "op", oid |-> oid, cmd |-> "put", key |-> k, val |-> val]
ResultOk(oid) == [kind |-> "op_result", oid |-> oid, ok |-> TRUE]
ResultGet(oid, val) ==
    [kind |-> "op_result", oid |-> oid, ok |-> TRUE, val |-> IF val = Gone THEN "null" ELSE val]
ResultScan(oid, count) == [kind |-> "op_result", oid |-> oid, ok |-> TRUE, count |-> count]
Event(kind) == [kind |-> kind]
Verdict(id, ok) == [kind |-> IF ok THEN "invariant" ELSE "violation", id |-> id]

ParsedValue(line) == IF line.val = "null" THEN Gone ELSE line.val

ParsedResult(line) ==
    IF "count" \in DOMAIN line THEN [shape |-> "scan", oid |-> line.oid, count |-> line.count]
    ELSE IF "val" \in DOMAIN line THEN [shape |-> "get", oid |-> line.oid, value |-> ParsedValue(line)]
    ELSE [shape |-> "void"]

(***************************************************************************)
(* The run.                                                                *)
(***************************************************************************)
NoReplay == [done |-> FALSE, divergences |-> {}]

SimInit ==
    /\ engine = {} /\ nextSeq = 1 /\ model = {} /\ opId = 0
    /\ trace = <<Start>> /\ violations = {} /\ behaved = {} /\ replay = NoReplay

Running == opId < MaxOperations

Report(id, ok) == violations' = IF ok THEN violations ELSE violations \cup {id}

(* What a read of the engine returns. *)
Reads(versions, k) ==
    {GetLatest(versions, k)} \cup (IF "misread" \in Faults THEN SimValues \cup {Gone} ELSE {})

Misread(versions, k, got) ==
    behaved' = IF got = GetLatest(versions, k) THEN behaved ELSE behaved \cup {"misread"}

(* The model files a write under the sequence number the engine answered with. *)
ModelSeq == nextSeq

Write(k, val, line, id, expected) ==
    /\ Running /\ opId' = opId + 1 /\ UNCHANGED replay
    /\ \/ /\ engine' = RecordVersion(engine, k, val, nextSeq)
          /\ model' = RecordVersion(model, k, val, ModelSeq)
          /\ nextSeq' = nextSeq + 1
          /\ \E got \in Reads(engine', k) :
               /\ Misread(engine', k, got)
               /\ Report(id, got = expected)
               /\ trace' = trace \o <<line, ResultOk(opId'), Verdict(id, got = expected)>>
       \/ /\ "fail" \in Faults
          /\ trace' = trace \o <<line, ResultOk(opId')>>
          /\ Report("unexpected error", FALSE)
          /\ behaved' = behaved \cup {"fail"}
          /\ UNCHANGED <<engine, model, nextSeq>>

Put(k, val) == Write(k, val, OpPut(opId + 1, k, val), "ENG-002", val)

Delete(k) == Write(k, Gone, OpKey(opId + 1, "delete", k), "ENG-003", Gone)

Get(k) ==
    /\ Running /\ opId' = opId + 1
    /\ \E got \in Reads(engine, k) :
         LET ok == got = GetLatest(model, k)
         IN /\ Misread(engine, k, got)
            /\ Report("ENG-002", ok)
            /\ trace' = trace \o <<OpKey(opId', "get", k), ResultGet(opId', got), Verdict("ENG-002", ok)>>
    /\ UNCHANGED <<engine, nextSeq, model, replay>>

Scan ==
    LET got == ScanPrefix(engine)
        ok == got = ScanPrefix(model)
    IN /\ Running /\ opId' = opId + 1
       /\ Report("ENG-004", ok)
       /\ trace' = trace \o <<OpLine(opId', "scan"), ResultScan(opId', Cardinality(got)),
                              Verdict("ENG-004", ok)>>
       /\ UNCHANGED <<engine, nextSeq, model, behaved, replay>>

(* Flushing and compacting keep every version: the GC watermark stays 0. *)
Maintain(cmd) ==
    /\ Running /\ opId' = opId + 1
    /\ trace' = trace \o <<OpLine(opId', cmd), ResultOk(opId')>>
    /\ UNCHANGED <<engine, nextSeq, model, violations, behaved, replay>>


Probes(k) == VersionsOf(model, k) \cup Smallest(AllCommitTimestamps(model), GlobalProbes)

CheckMvccGetAt(versions) ==
    \A k \in SimKeys : \A ts \in Probes(k) : GetAt(versions, k, ts) = GetAt(model, k, ts)

CheckAllKeys(versions) == \A k \in SimKeys : GetLatest(versions, k) = GetLatest(model, k)

Reopened == IF "lose" \in Faults THEN SUBSET engine ELSE {engine}

CrashRestart ==
    /\ Running /\ opId' = opId + 1
    /\ engine' \in Reopened
    /\ nextSeq' = IF engine' = engine THEN nextSeq ELSE Max({0} \cup AllCommitTimestamps(engine')) + 1
    /\ behaved' = IF engine' = engine THEN behaved ELSE behaved \cup {"lose"}
    /\ violations' = violations \cup (IF CheckAllKeys(engine') THEN {} ELSE {"ENG-001"})
                                \cup (IF CheckMvccGetAt(engine') THEN {} ELSE {"MVCC-001"})
    /\ trace' = trace \o <<OpLine(opId', "crash_restart"), Event("crash"), Event("restart"),
                           ResultOk(opId'), Verdict("ENG-001", CheckAllKeys(engine')),
                           Verdict("MVCC-001", CheckMvccGetAt(engine'))>>
    /\ UNCHANGED <<model, replay>>

(***************************************************************************)
(* The replay of a trace on a sound engine, line by line.                  *)
(***************************************************************************)
ReplayOp(r, line) ==
    LET write(val) == [r EXCEPT !.store = RecordVersion(r.store, line.key, val, r.seq),
                                !.seq = @ + 1, !.got = [oid |-> 0]]
    IN CASE line.cmd = "put" -> write(line.val)
         [] line.cmd = "delete" -> write(Gone)
         [] line.cmd = "get" ->
              [r EXCEPT !.got = [oid |-> line.oid, value |-> GetLatest(r.store, line.key)]]
         [] line.cmd = "scan" ->
              [r EXCEPT !.got = [oid |-> line.oid, count |-> Cardinality(ScanPrefix(r.store))]]
         [] OTHER -> [r EXCEPT !.got = [oid |-> 0]]

Diverges(got, result) ==
    \/ /\ result.shape = "get" /\ "value" \in DOMAIN got
       /\ got.oid = result.oid /\ got.value # result.value
    \/ /\ result.shape = "scan" /\ "count" \in DOMAIN got
       /\ got.oid = result.oid /\ got.count # result.count

ReplayLine(r, line) ==
    IF line.kind = "op" THEN ReplayOp(r, line)
    ELSE IF line.kind = "op_result" /\ Diverges(r.got, ParsedResult(line))
    THEN [r EXCEPT !.divergences = @ \cup {line.oid}]
    ELSE r

Replay ==
    LET after[n \in 0..Len(trace)] ==
            IF n = 0 THEN [store |-> {}, seq |-> 1, got |-> [oid |-> 0], divergences |-> {}]
            ELSE ReplayLine(after[n - 1], trace[n])
    IN /\ opId = MaxOperations /\ replay = NoReplay
       /\ replay' = [done |-> TRUE, divergences |-> after[Len(trace)].divergences]
       /\ UNCHANGED <<engine, nextSeq, model, opId, trace, violations, behaved>>

SimNext ==
    \/ \E k \in SimKeys, val \in SimValues : Put(k, val)
    \/ \E k \in SimKeys : Delete(k) \/ Get(k)
    \/ Scan
    \/ \E cmd \in {"flush", "compact"} : Maintain(cmd)
    \/ CrashRestart
    \/ Replay

SimSpec == SimInit /\ [][SimNext]_simVars

(***************************************************************************)
(* Properties.                                                             *)
(***************************************************************************)
(* The simulator raises no alarm about an engine that behaved              *)
(* (run_async's ENG-001 to ENG-004 and MVCC-001).                          *)
NoFalseAlarm == behaved = {} => violations = {}

(* Whatever a crash destroyed that any snapshot read of any key could show *)
(* is reported: a lost version that a newer one hides as well, although    *)
(* only a few timestamps are probed (check_mvcc_get_at).                   *)
LostVersionIsReported ==
    [][opId' = opId + 1 /\ engine' # engine /\ model' = model =>
         \A k \in SimKeys, ts \in AllCommitTimestamps(model) :
             GetAt(engine', k, ts) # GetAt(model, k, ts) => violations' # {}]_simVars

Finished == replay.done

Recorded(shape) == {i \in DOMAIN trace : trace[i].kind = "op_result" /\ shape \in DOMAIN trace[i]}

(* Replaying a trace disagrees with it exactly where the run itself saw a  *)
(* wrong GET or a wrong number of keys, as long as no write failed         *)
(* (replay_async against check_eng002 and ENG-004).                        *)
ReplayAgreesWithRun ==
    Finished /\ "fail" \notin behaved =>
        replay.divergences =
            {trace[i].oid : i \in {j \in Recorded("val") : trace[j + 1].kind = "violation"}}
            \cup {oid \in replay.divergences : \E i \in Recorded("count") :
                     trace[i].oid = oid /\ trace[i + 1].kind = "violation"}

(* A trace whose SCAN returned the wrong entries does not replay           *)
(* (replay_trace: "verify that GET and SCAN results match").               *)
ReplayCatchesWrongScan ==
    Finished /\ "fail" \notin behaved =>
        \A i \in Recorded("count") :
            trace[i + 1].kind = "violation" => trace[i].oid \in replay.divergences
=============================================================================
