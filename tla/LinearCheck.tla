----------------------------- MODULE LinearCheck -----------------------------
(***************************************************************************)
(* The linearizability checker of crates/kaya-sim/src/linear.rs, run on    *)
(* the histories that clients of a key-value store record.                 *)
(*                                                                         *)
(* An entry is an operation with its ticks and result.  A GET observes its *)
(* key and a SCAN the keys under its prefix: either way `scope' is the set *)
(* of keys looked at and `seen' what each was seen to hold.  The store is  *)
(* honest until it lies: a read that returns something else than the store *)
(* holds sets `lied', so that histories without a linearization occur.     *)
(***************************************************************************)
EXTENDS Integers, Sequences, FiniteSets, FiniteSetsExt

CONSTANTS LinKeys, LinValues, LinClients,
          LinOps,        \* operations invoked at most
          WglMaxOps,     \* WGL_MAX_OPS, 14 in the code
          MayLie,
          MaxFailures    \* operations that fail at most

VARIABLES now, stored, pending, history, lied

linVars == <<now, stored, pending, history, lied>>

Missing == "missing"
Unseen == [k \in {} |-> Missing]

Operations ==
    [kind : {"put"}, scope : {{k} : k \in LinKeys}, val : LinValues]
    \cup [kind : {"delete", "get"}, scope : {{k} : k \in LinKeys}, val : {Missing}]
    \cup [kind : {"scan"}, scope : {LinKeys}, val : {Missing}]

IsWrite(op) == op.kind \in {"put", "delete"}

(***************************************************************************)
(* Replaying a history in a given order against a map.  A write counts     *)
(* only when it was acknowledged; a failed read constrains nothing.        *)
(***************************************************************************)
Apply(model, x) == IF IsWrite(x.op) /\ x.ok
                   THEN [k \in LinKeys |-> IF k \in x.op.scope THEN x.op.val ELSE model[k]]
                   ELSE model

ReadMatches(model, x) ==
    ~IsWrite(x.op) /\ x.ok => x.seen = [k \in x.op.scope |-> model[k]]

VerifyLinearization(h, order) ==
    LET model[n \in 0..Len(order)] ==
            IF n = 0 THEN [k \in LinKeys |-> Missing] ELSE Apply(model[n - 1], h[order[n]])
    IN \A n \in 1..Len(order) : ReadMatches(model[n - 1], h[order[n]])

CheckSequential(h) == VerifyLinearization(h, [i \in DOMAIN h |-> i])

(***************************************************************************)
(* The search.  An operation may come next unless it is blocked.           *)
(***************************************************************************)
Overlap(a, b) == a.start < b.end /\ b.start < a.end

Sequential(h) == \A i, j \in DOMAIN h : i # j => ~Overlap(h[i], h[j])

MustBefore(h, i, j) == i # j /\ h[i].end < h[j].start

(* order.iter().any(|&j| must_before[j][i]): some operation already placed *)
(* had ended before this one began.                                        *)
Blocked(h, order, i) == \E n \in DOMAIN order : MustBefore(h, order[n], i)

RECURSIVE Dfs(_, _)
Dfs(h, order) ==
    LET used == {order[n] : n \in DOMAIN order}
    IN IF Len(order) = Len(h) THEN VerifyLinearization(h, order)
       ELSE \E i \in DOMAIN h \ used : ~Blocked(h, order, i) /\ Dfs(h, Append(order, i))

CheckConcurrent(h) ==
    /\ Len(h) <= WglMaxOps
    /\ IF Sequential(h) THEN CheckSequential(h) ELSE Dfs(h, <<>>)

(***************************************************************************)
(* Diagnosis.  Subsets of a history are sets of indices, kept in order.    *)
(***************************************************************************)
KeepEntries(h, S) ==
    [i \in 1..Cardinality(S) |->
        h[CHOOSE n \in S : Cardinality({m \in S : m < n}) = i - 1]]

Fails(h, S) == ~CheckConcurrent(KeepEntries(h, S))

(* The forward loop drops the first operation it can and starts over; the  *)
(* backward one sweeps from the end until a sweep drops nothing.           *)
RECURSIVE DropForward(_, _)
DropForward(h, S) ==
    LET can == {n \in S : Fails(h, S \ {n})}
    IN IF Cardinality(S) > 1 /\ can # {} THEN DropForward(h, S \ {Min(can)}) ELSE S

RECURSIVE SweepBack(_, _, _)
SweepBack(h, S, todo) ==
    IF todo = {} \/ Cardinality(S) <= 1 THEN S
    ELSE LET n == Max(todo)
         IN SweepBack(h, IF Fails(h, S \ {n}) THEN S \ {n} ELSE S, todo \ {n})

ShrinkIndicesToMinimal(h, seed) ==
    LET fwd == DropForward(h, seed)
    IN IF seed = {} \/ ~Fails(h, seed) THEN {}
       ELSE SweepBack(h, fwd, fwd)

KeyPartition(h, k) == {i \in DOMAIN h : h[i].op.kind # "scan" /\ h[i].op.scope = {k}}
ScanPartition(h) == {i \in DOMAIN h : h[i].op.kind = "scan"}

PickSmaller(S) == CHOOSE a \in S : \A b \in S : Cardinality(a) <= Cardinality(b)

MinimalCounterexample(h) ==
    LET parts == {KeyPartition(h, k) : k \in LinKeys} \cup {ScanPartition(h)}
        found == {ShrinkIndicesToMinimal(h, p) : p \in parts} \ {{}}
    IN IF CheckConcurrent(h) THEN {}
       ELSE IF found # {} THEN PickSmaller(found)
       ELSE ShrinkIndicesToMinimal(h, DOMAIN h)


(* Subsets by size, skipping those that contain one already found. *)
EnumerateMusIn(h, seed, cap) ==
    LET bySize[n \in 0..Cardinality(seed)] ==
            IF n = 0 THEN {}
            ELSE bySize[n - 1] \cup
                 {S \in SUBSET seed : /\ Cardinality(S) = n
                                      /\ ~\E m \in bySize[n - 1] : m \subseteq S
                                      /\ Fails(h, S)}
    IN IF seed = {} \/ Cardinality(seed) > cap \/ ~Fails(h, seed) THEN {}
       ELSE bySize[Cardinality(seed)]

ScanRelated(h) ==
    {i \in DOMAIN h : \E j \in ScanPartition(h) : h[i].op.scope \subseteq h[j].op.scope}

MinimalUnsatisfiableSubsets(h, cap) ==
    IF Len(h) <= cap THEN EnumerateMusIn(h, DOMAIN h, cap)
    ELSE UNION {EnumerateMusIn(h, p, cap) :
                  p \in {KeyPartition(h, k) : k \in LinKeys}
                        \cup {ScanPartition(h), ScanRelated(h)}}

(***************************************************************************)
(* The Jepsen history checks the operations of every key, and the scans,   *)
(* as histories of their own; without intervals it replays the whole       *)
(* history in the order in which it was recorded.                          *)
(***************************************************************************)
HistoryCheckConcurrent(h) ==
    \A p \in {KeyPartition(h, k) : k \in LinKeys} \cup {ScanPartition(h)} :
        CheckConcurrent(KeepEntries(h, p))

HistoryCheckLinearizability(h) == CheckSequential(h)

(***************************************************************************)
(* Clients and the store.  Ticks are distinct: every invocation and every  *)
(* return takes the next one.  An operation takes effect as it returns and *)
(* is recorded by its own step, so that the records of two clients can     *)
(* come in either order.                                                   *)
(***************************************************************************)
LinIdle == [phase |-> "idle"]

LinInit ==
    /\ now = 0 /\ stored = [k \in LinKeys |-> Missing]
    /\ pending = [c \in LinClients |-> LinIdle]
    /\ history = <<>> /\ lied = FALSE

Begun == Len(history) + Cardinality({c \in LinClients : pending[c] # LinIdle})

(* Clients are interchangeable: the first idle one begins. *)
Invoke(c) ==
    /\ pending[c] = LinIdle /\ Begun < LinOps
    /\ \A d \in LinClients : d < c => pending[d] # LinIdle
    /\ \E op \in Operations :
         pending' = [pending EXCEPT ![c] = [phase |-> "sent", op |-> op, start |-> now]]
    /\ now' = now + 1
    /\ UNCHANGED <<stored, history, lied>>

Failures ==
    Cardinality({i \in DOMAIN history : ~history[i].ok})
    + Cardinality({c \in LinClients : pending[c].phase = "returned" /\ ~pending[c].entry.ok})

(* A behaviour has lies or failures, not both. *)
MayFail == ~lied /\ Failures < MaxFailures

Finished(c, ok, seen) ==
    LET p == pending[c]
    IN pending' = [pending EXCEPT ![c] =
         [phase |-> "returned", entry |-> [start |-> p.start, end |-> now, client |-> c,
                                           op |-> p.op, ok |-> ok, seen |-> seen]]]

ReturnWrite(c) ==
    LET op == pending[c].op
        written == [k \in LinKeys |-> IF k \in op.scope THEN op.val ELSE stored[k]]
    IN /\ pending[c].phase = "sent" /\ IsWrite(op)
       /\ \/ Finished(c, TRUE, Unseen) /\ stored' = written
          \/ MayFail /\ Finished(c, FALSE, Unseen) /\ stored' \in {stored, written}
       /\ now' = now + 1
       /\ UNCHANGED <<history, lied>>

ReturnRead(c) ==
    LET op == pending[c].op
        truth == [k \in op.scope |-> stored[k]]
        lies == IF MayLie /\ Failures = 0 THEN [op.scope -> LinValues \cup {Missing}] ELSE {}
    IN /\ pending[c].phase = "sent" /\ ~IsWrite(op)
       /\ \/ \E seen \in {truth} \cup lies :
               Finished(c, TRUE, seen) /\ lied' = (lied \/ seen # truth)
          \/ MayFail /\ Finished(c, FALSE, Unseen) /\ UNCHANGED lied
       /\ now' = now + 1
       /\ UNCHANGED <<stored, history>>

RecordInterval(c) ==
    /\ pending[c].phase = "returned"
    /\ history' = Append(history, pending[c].entry)
    /\ pending' = [pending EXCEPT ![c] = LinIdle]
    /\ UNCHANGED <<now, stored, lied>>

LinNext == \E c \in LinClients : Invoke(c) \/ ReturnWrite(c) \/ ReturnRead(c) \/ RecordInterval(c)

LinSpec == LinInit /\ [][LinNext]_linVars

(***************************************************************************)
(* Properties.                                                             *)
(***************************************************************************)
(* A complete history: no operation is under way. *)
Settled == \A c \in LinClients : pending[c] = LinIdle

AllOk == Settled /\ \A i \in DOMAIN history : history[i].ok

(* What linearizable means, independently of the replay: a total order     *)
(* that keeps the real-time order, in which a read sees, for every key it  *)
(* looks at, the last write before it.                                     *)
Orders == {p \in [DOMAIN history -> DOMAIN history] :
             \A i, j \in DOMAIN history : i # j => p[i] # p[j]}

LastWriteBefore(rank, i, k) ==
    LET ws == {j \in DOMAIN history : /\ IsWrite(history[j].op) /\ k \in history[j].op.scope
                                       /\ rank[j] < rank[i]}
    IN IF ws = {} THEN Missing
       ELSE history[CHOOSE j \in ws : \A m \in ws : rank[m] <= rank[j]].op.val

Linearizable ==
    \E rank \in Orders :
        /\ \A i, j \in DOMAIN history :
              history[i].end < history[j].start => rank[i] < rank[j]
        /\ \A i \in DOMAIN history : ~IsWrite(history[i].op) =>
              history[i].seen = [k \in history[i].op.scope |-> LastWriteBefore(rank, i, k)]

(* With no failed operation the concurrent check accepts a history exactly *)
(* when it has a linearization that extends the real-time order            *)
(* (check_concurrent: "Operations `i` and `j` where `i.end_tick <          *)
(* j.start_tick` must appear before `j` in any valid linearization").      *)
ConcurrentCheckIsExact == AllOk => (CheckConcurrent(history) <=> Linearizable)

(* When no operation of the history ended before another began, the search *)
(* decides linearizability (check_concurrent, verify_linearization).       *)
UnorderedIsDecided ==
    AllOk /\ (\A i, j \in DOMAIN history : ~MustBefore(history, i, j)) =>
        (CheckConcurrent(history) <=> Linearizable)

(* Without scans, checking the keys apart decides the whole of an          *)
(* unordered history: linearizability is local (History::check_concurrent).*)
CheckingKeysApartIsEnough ==
    /\ AllOk /\ ScanPartition(history) = {}
    /\ \A i, j \in DOMAIN history : ~MustBefore(history, i, j)
    => (HistoryCheckConcurrent(history) <=> Linearizable)

(* A history of an honest store whose operations all succeeded passes both *)
(* checks of the Jepsen history (check_linearizability, check_concurrent). *)
HonestHistoryPasses ==
    ~lied /\ AllOk =>
        HistoryCheckConcurrent(history) /\ HistoryCheckLinearizability(history)

(* The counterexample shown for a rejected history is itself rejected, and *)
(* dropping any one operation from it makes it acceptable                  *)
(* (minimal_counterexample: "no single remaining op can be dropped while   *)
(* still illegal").                                                        *)
CounterexampleIsMinimal ==
    LET cex == MinimalCounterexample(history)
    IN Settled =>
       /\ (cex = {}) <=> CheckConcurrent(history)
       /\ cex # {} => Fails(history, cex) /\ \A n \in cex : ~Fails(history, cex \ {n})

(* The enumeration reports the inclusion-minimal rejected subsets, all of  *)
(* them and nothing else (minimal_unsatisfiable_subsets).                  *)
MusAreExactlyTheMinimal ==
    Settled /\ ~CheckConcurrent(history) =>
        MinimalUnsatisfiableSubsets(history, WglMaxOps) =
            {S \in SUBSET DOMAIN history :
               Fails(history, S) /\ \A T \in SUBSET S : T # S => ~Fails(history, T)}
=============================================================================
