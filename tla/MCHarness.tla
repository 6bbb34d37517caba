----------------------------- MODULE MCHarness ------------------------------
(***************************************************************************)
(* The two sides a server is seen from, on small instances: the            *)
(* connections of its clients, and the harnesses that drive it and judge   *)
(* what they saw.  A behaviour stays in the scene its first state picks;   *)
(* the components of the other scenes keep their initial states.           *)
(***************************************************************************)
EXTENDS Integers, Sequences, TLC

CONSTANT Scenes     \* "wire", "connection", "handle", "linear", "import", "simulator",
                    \* "workload", "bank", "faults"
VARIABLE scene

\* What scene `s' picks from S; the others make do with one member.
Pick(s, S) == IF scene = s THEN S ELSE {CHOOSE x \in S : TRUE}

-----------------------------------------------------------------------------
(* Clients and their connections.                                          *)

CONSTANTS MaxFrame, MaxEntries, MaxCommand, MaxScan, MaxPayload, Batches, Cuts
VARIABLES batch, cut, stream, got, reading
Wire == INSTANCE WireCodec
wireVars == <<batch, cut, stream, got, reading>>

CONSTANTS Langs, Calls, MaxTries, MaxHops, MaxSockets, Breaks, Overlapping
VARIABLES lang, connCall, sock, conn, target, ran, faults
Conn == INSTANCE ClientConn WITH call <- connCall

CONSTANTS TKeys, TValues, TxnTries, TxnLosses, TxnSteps
VARIABLES handle, asked, opened, lastId, rival, newer, handleApplied, returned, unsure,
          handleLate, losses, steps
Handle == INSTANCE TxnHandle WITH applied <- handleApplied, late <- handleLate

connVars == <<lang, connCall, sock, conn, target, ran, faults>>
handleVars == <<handle, asked, opened, lastId, rival, newer, handleApplied, returned, unsure,
                handleLate, losses, steps>>
clientVars == <<wireVars, connVars, handleVars>>

-----------------------------------------------------------------------------
(* The harnesses.                                                          *)

CONSTANTS LinKeys, LinValues, LinClients, LinOps, WglMaxOps, MayLie, MaxFailures
VARIABLES now, stored, pending, history, lied
Lin == INSTANCE LinearCheck
linVars == <<now, stored, pending, history, lied>>

CONSTANTS WglLines, WglMaxLines, TickTop, ClientTop
VARIABLES autoTick, imported, lineNo, verdict
Wgl == INSTANCE WglInput
wglVars == <<autoTick, imported, lineNo, verdict>>

CONSTANTS SimKeys, SimValues, MaxOperations, GlobalProbes, Faults
VARIABLES engine, nextSeq, model, opId, trace, violations, behaved, replay
Sim == INSTANCE SimRunner
simVars == <<engine, nextSeq, model, opId, trace, violations, behaved, replay>>

CONSTANTS JClients, Settings, MaxAttempts, MaxLate
VARIABLES setting, cell, late, doing, jepRecorded, started

CONSTANTS Accounts, Tellers, InitialBalance, Amounts, MaxTransfers, MaxAudits
VARIABLES balance, version, written, teller, lateCommits, begun, audit
Jep == INSTANCE JepsenWorkload WITH recorded <- jepRecorded
bankVars == <<balance, version, written, teller, lateCommits, begun, audit>>

CONSTANTS ScenarioIds, MaxCycles, LeaderMoves
VARIABLES scenario, phase, cycles, queue, nodes, leads, lastKilled, tracker
Chaos == INSTANCE ChaosRunner
chaosVars == <<scenario, phase, cycles, queue, nodes, leads, lastKilled, tracker>>

checkVars == <<linVars, wglVars, simVars>>
workloadVars == <<setting, cell, late, doing, jepRecorded, started>>
jepsenVars == <<workloadVars, bankVars, chaosVars>>
harnessVars == <<checkVars, jepsenVars>>
allVars == <<scene, clientVars, harnessVars>>

-----------------------------------------------------------------------------
HarnessInit ==
    /\ scene \in Scenes
    /\ IF scene = "wire" THEN Wire!WireInit
       ELSE batch = << >> /\ cut = 0 /\ stream = << >> /\ got = << >> /\ reading = FALSE
    /\ Conn!ConnInit /\ lang \in Pick("connection", Langs) /\ target \in Pick("connection", {"a", "b"})
    /\ Handle!HandleInit
    /\ Lin!LinInit
    /\ Wgl!WglInit
    /\ Sim!SimInit
    /\ Jep!JepsenInit /\ setting \in Pick("workload", Settings)
    /\ Jep!BankInit
    /\ Chaos!ChaosInit /\ scenario \in Pick("faults", Chaos!Scenarios) /\ leads \in Pick("faults", 1 .. 3)

ClientsStep ==
    \/ scene = "wire" /\ Wire!WireNext /\ UNCHANGED <<connVars, handleVars>>
    \/ scene = "connection" /\ Conn!ConnNext /\ UNCHANGED <<wireVars, handleVars>>
    \/ scene = "handle" /\ Handle!HandleNext /\ UNCHANGED <<wireVars, connVars>>

CheckStep ==
    \/ scene = "linear" /\ Lin!LinNext /\ UNCHANGED <<wglVars, simVars>>
    \/ scene = "import" /\ Wgl!WglNext /\ UNCHANGED <<linVars, simVars>>
    \/ scene = "simulator" /\ Sim!SimNext /\ UNCHANGED <<linVars, wglVars>>

JepsenStep ==
    \/ scene = "workload" /\ Jep!JepsenNext /\ UNCHANGED <<bankVars, chaosVars>>
    \/ scene = "bank" /\ Jep!BankNext /\ UNCHANGED <<workloadVars, chaosVars>>
    \/ scene = "faults" /\ Chaos!ChaosNext /\ UNCHANGED <<workloadVars, bankVars>>

HarnessNext ==
    /\ UNCHANGED scene
    /\ \/ ClientsStep /\ UNCHANGED harnessVars
       \/ CheckStep /\ UNCHANGED <<clientVars, jepsenVars>>
       \/ JepsenStep /\ UNCHANGED <<clientVars, checkVars>>

HarnessSpec == HarnessInit /\ [][HarnessNext]_allVars

-----------------------------------------------------------------------------
(* Values for the constants.                                               *)

CutBytes == 0 .. 60

WorkloadSettings ==
    {[workload |-> "register", max |-> 3, ops |-> 4]}
    \cup [workload : {"register", "counter", "map"}, max : {0}, ops : {3}]

(* Messages of every kind, for each link and each language that sends      *)
(* them, with and without the optional prefixes and around the caps of the *)
(* decoders, alone and two in a row.                                       *)

K0 == <<>>
K1 == <<107>>
K2 == <<0, 255>>
Addr == <<49, 58>>
Env(r) == [from |-> 1, to |-> 2, group |-> 300] @@ r
M(k, r) == [kind |-> k, rec |-> r]
R(s, k, r) == [kind |-> k, rec |-> r, status |-> s]
One(link, by, ms) == [i \in DOMAIN ms |-> [link |-> link, by |-> by, msgs |-> <<ms[i]>>]]
Pairs(link, by, ms) == [i \in 1 .. Len(ms) - 1 |-> [link |-> link, by |-> by, msgs |-> <<ms[i], ms[i + 1]>>]]

Entry(t, c) == [term |-> t, command |-> c]
RaftMsgs ==
    <<M("vote_request", Env([term |-> 2, candidate |-> 1, last_index |-> 70000, last_term |-> 1])),
      M("vote_response", Env([term |-> 2, granted |-> TRUE])),
      M("append_request", Env([term |-> 2, leader |-> 1, prev_index |-> 3, prev_term |-> 1, commit |-> 2, entries |-> <<>>])),
      M("append_request", Env([term |-> 2, leader |-> 1, prev_index |-> 3, prev_term |-> 1, commit |-> 2,
                               entries |-> <<Entry(2, K2), Entry(2, K0)>>])),
      M("append_request", Env([term |-> 2, leader |-> 1, prev_index |-> 3, prev_term |-> 1, commit |-> 2,
                               entries |-> <<Entry(2, K1), Entry(2, K1), Entry(2, K1)>>])),
      M("append_response", Env([term |-> 2, success |-> FALSE, match |-> 300])),
      M("install_snapshot", Env([term |-> 2, leader |-> 1, last_index |-> 9, last_term |-> 2, data |-> K2])),
      M("install_snapshot", Env([term |-> 2, leader |-> 1, last_index |-> 9, last_term |-> 2, data |-> [i \in 1 .. 60 |-> i]])),
      M("snapshot_response", Env([term |-> 2, success |-> TRUE])),
      M("config_request", Env([term |-> 2, old |-> <<[id |-> 1]>>, new |-> <<[id |-> 1], [id |-> 2]>>])),
      M("config_response", Env([term |-> 2, success |-> FALSE]))>>

Tok(r) == [token |-> <<116, 107>>] @@ r
Opr(r) == [operator |-> <<111>>] @@ r
PlainRequests ==
    <<M("put", [key |-> K1, value |-> K2]), M("put", Tok([key |-> K0, value |-> K0])),
      M("get", [key |-> K2]), M("delete", Tok([key |-> K1]))>>
ScanRequests == <<M("scan", [key |-> K0]), M("scan", Tok([key |-> K1]))>>
HelloRequests == <<M("hello", [version |-> 1])>>
TxnRequests ==
    <<M("txn_op", Tok([txn |-> 300, op |-> 2, key |-> K1, value |-> K2])), M("txn_op", [txn |-> 1, op |-> 1, key |-> K2]),
      M("txn_op", [txn |-> 1, op |-> 3, key |-> K0]), M("txn_commit", [txn |-> 70000])>>
CdcRequests ==
    <<M("cdc_poll", Tok([consumer |-> <<99>>, from |-> 300, limit |-> 10])), M("cdc_checkpoint", [consumer |-> <<99, 50>>])>>
RustOnly ==
    <<M("put", Tok([epoch |-> 7, key |-> K1, value |-> K0])), M("scan", [epoch |-> 300, key |-> K1]),
      M("split", [key |-> K1]), M("merge", Tok([key |-> K0])),
      M("member", Opr([id |-> 4, raft |-> Addr, client |-> K0, learner |-> TRUE])),
      M("member", [id |-> 4, raft |-> Addr, client |-> Addr, learner |-> FALSE]),
      M("remove", Opr([id |-> 300])), M("promote", [id |-> 4]), M("move", Opr([key |-> K1, target |-> 2])),
      M("move", [key |-> K0, target |-> 1]), M("transfer", [group |-> 1, target |-> 2]),
      M("forward", Opr([group |-> 1, command |-> <<6, 1, 0, 0, 0, 0, 0, 0, 0>>]))>>

Item(k, v) == [key |-> k, value |-> v]
HelloReplies == <<R(0, "hello", [version |-> 1])>>
ValueReplies == <<R(0, "value", [value |-> K2]), R(0, "value", [value |-> K0]), R(9, "error", [message |-> <<104, 105>>])>>
ScanReplies == <<R(0, "scan", [items |-> <<>>]), R(0, "scan", [items |-> <<Item(K1, K2), Item(K2, K0)>>]),
                 R(0, "scan", [items |-> <<Item(K1, K0), Item(K1, K0), Item(K1, K0)>>])>>
TxnReplies == <<R(0, "txn_begin", [txn |-> 5, snapshot |-> 300]), R(0, "committed", [ts |-> 70000])>>
CdcReplies == <<R(0, "events", [events |-> <<[seq |-> 1, op |-> 1, key |-> K1, value |-> K2], [seq |-> 2, op |-> 2, key |-> K1]>>])>>
RangeReplies ==
    <<R(0, "ranges", [meta_epoch |-> 3, ranges |-> <<[range |-> 1, epoch |-> 2, group |-> 0, start |-> K0, end |-> K1],
                                                     [range |-> 2, epoch |-> 2, group |-> 1, start |-> K1, end |-> K0]>>]),
      R(11, "range_moved", [meta_epoch |-> 3, ranges |-> <<[range |-> 1, epoch |-> 2, group |-> 0, start |-> K0, end |-> K1]>>]),
      R(0, "rebalance", [moves |-> <<[range |-> 1, from |-> 1, to |-> 2]>>])>>

Member(i, a, b, l) == [id |-> i, raft |-> a, client |-> b, learner |-> l]
Put(k, v) == [key |-> k, has |-> 1, value |-> v]
Del(k) == [key |-> k, has |-> 0]
Commands ==
    <<M("c_put", [key |-> K1, value |-> K2]), M("c_delete", [key |-> K0]),
      M("c_config", [phase |-> 1, members |-> <<Member(1, Addr, K0, FALSE), Member(2, K0, K0, TRUE)>>]),
      M("c_config", [phase |-> 2, members |-> <<Member(1, K0, K0, FALSE)>>]),
      M("c_commit", [txn |-> 300, mutations |-> <<Put(K1, K0), Del(K2)>>]),
      M("c_prepare", [txn |-> 1, coordinator |-> 2, mutations |-> <<Del(K1)>>]),
      M("c_commit2", [txn |-> 1]), M("c_abort2", [txn |-> 2]), M("c_ranges", [base |-> 3, snapshot |-> K2]),
      M("c_decision", [txn |-> 1, commit |-> TRUE])>>

OldEntry(age, ms, means) ==
    [kind |-> "c_config", age |-> age, rec |-> [phase |-> 2, members |-> ms],
     means |-> [phase |-> 2, members |-> means]]
Bare(i, a, b) == [id |-> i, raft |-> a, client |-> b]
OldIds(is) == OldEntry("ids", [j \in DOMAIN is |-> [id |-> is[j]]], [j \in DOMAIN is |-> Member(is[j], K0, K0, FALSE)])
OldAddrs(ms) == OldEntry("addrs", ms, [j \in DOMAIN ms |-> [learner |-> FALSE] @@ ms[j]])
OldCommands ==
    <<OldIds(<<>>), OldIds(<<1>>), OldIds(<<1, 2, 300>>), OldIds(<<0, 0>>),
      OldAddrs(<<Bare(1, K0, K0)>>), OldAddrs(<<Bare(1, Addr, Addr), Bare(2, Addr, K0)>>),
      OldAddrs(<<Bare(0, K0, K0), Bare(0, K0, K0)>>), OldAddrs(<<Bare(1, K0, <<48>>), Bare(2, <<48>>, K0), Bare(3, K0, K0)>>)>>

(* Records of every file, alone and in a row, and the engine's own keys    *)
(* and values.                                                             *)
HardStates == <<M("hard_state", [term |-> 300, voted_for |-> 2, last_index |-> 0, last_term |-> 0]),
                M("hard_state", [term |-> 1, voted_for |-> 0, last_index |-> 70000, last_term |-> 1])>>
RangeRow(i, g, a, b) == [range |-> i, epoch |-> 2, group |-> g, start |-> a, end |-> b]
RangeTables == <<M("range_table", [meta_epoch |-> 3, next_range |-> 3, next_group |-> 2,
                                   ranges |-> <<RangeRow(1, 0, K0, K1), RangeRow(2, 1, K1, K0)>>])>>
LogFrames == <<M("log_frame", [index |-> 300, term |-> 2, command |-> K2]), M("log_frame", [index |-> 301, term |-> 2, command |-> K0])>>
WalRecords ==
    <<M("wal_record", [type |-> 1, lsn |-> 1, sequence |-> 300, key |-> K1, value |-> K2]),
      M("wal_record", [type |-> 2, lsn |-> 2, sequence |-> 301, key |-> K2]), M("wal_record", [type |-> 3, lsn |-> 3, sequence |-> 0]),
      M("wal_record", [type |-> 1, lsn |-> 4, sequence |-> 1, key |-> K1, value |-> [i \in 1 .. 40 |-> i]])>>
Edits ==
    <<M("edit", [type |-> 1, edit_seq |-> 1, table_id |-> 7, level |-> 1, path |-> Addr, smallest |-> K0, largest |-> K2,
                 min |-> 1, max |-> 300, entries |-> 2, size |-> 70000, footer |-> 9]),
      M("edit", [type |-> 2, edit_seq |-> 2, table_id |-> 6]), M("edit", [type |-> 3, edit_seq |-> 3, sequence |-> 300])>>
IndexMetas ==
    <<M("index_meta", [unique |-> TRUE, tag |-> 0, prefix |-> K1]), M("index_meta", [unique |-> FALSE, tag |-> 1, len |-> 300, prefix |-> K0]),
      M("index_meta", [unique |-> FALSE, tag |-> 2, delimiter |-> 44, index |-> 2, prefix |-> K2]),
      [kind |-> "old_index_meta", rec |-> [unique |-> TRUE, prefix |-> K2], means |-> [unique |-> TRUE, tag |-> 0, prefix |-> K2]]>>
IndexEntries == <<M("index_entry", [name |-> <<105>>, secondary |-> K2, primary |-> K1]), M("index_entry", [name |-> K1, secondary |-> K0, primary |-> K2])>>
TxnRecords ==
    <<M("txn_rec", [txn |-> 300]), M("txn_intent", [txn |-> 47, key |-> K2]), M("txn_intent", [txn |-> 1, key |-> K0]),
      M("txn_state", [state |-> 5]), M("intent_value", [put |-> 1, value |-> K0]), M("intent_value", [put |-> 1, value |-> K2]),
      M("intent_value", [put |-> 0])>>

Frames ==
    One("raft", "rust", RaftMsgs) \o Pairs("raft", "rust", RaftMsgs)
    \o One("request", "rust", PlainRequests \o ScanRequests \o HelloRequests \o TxnRequests \o CdcRequests \o RustOnly)
    \o Pairs("request", "rust", RustOnly)
    \o One("request", "go", PlainRequests \o ScanRequests \o TxnRequests \o CdcRequests)
    \o Pairs("request", "ts", HelloRequests \o PlainRequests \o TxnRequests)
    \o Pairs("request", "py", HelloRequests \o PlainRequests \o ScanRequests)
    \o One("reply", "rust", ValueReplies \o ScanReplies \o HelloReplies \o TxnReplies \o CdcReplies \o RangeReplies)
    \o Pairs("reply", "go", ValueReplies \o ScanReplies \o TxnReplies \o CdcReplies)
    \o Pairs("reply", "ts", HelloReplies \o ValueReplies \o TxnReplies)
    \o Pairs("reply", "py", HelloReplies \o ValueReplies \o ScanReplies)
    \o One("log", "rust", Commands) \o One("oldlog", "rust", OldCommands)
    \o One("whole", "rust", HardStates \o RangeTables) \o Pairs("raft-log", "rust", LogFrames)
    \o Pairs("wal", "rust", WalRecords) \o Pairs("manifest", "rust", Edits)
    \o One("value", "rust", IndexMetas \o IndexEntries \o TxnRecords)

(* Lines of an imported history: strings and hexadecimal strings, ticks    *)
(* given, half given and left out, results of every shape, and lines that  *)
(* are no operation.                                                       *)

Texts == {<<122>>, <<48,120>>, <<48,120,54,98>>, <<48,88,102,70>>, <<48,120,54>>,<<48,120,122,122>>, <<48,120,51,48,55,56>>}
Str(text) == [t |-> "string", text |-> text]
Num(n) == [t |-> "number", n |-> n]
Null == [t |-> "null"]
Arr(items) == [t |-> "array", items |-> items]
Obj(fields) == [t |-> "object", fields |-> fields]
Line(op, flds) == [form |-> "object", fields |-> [f \in DOMAIN flds \cup {"op"} |-> IF f = "op" THEN [t |-> "word", word |-> op] ELSE flds[f]]]
Ok == Str(<<111, 107>>)
Err == Obj([error |-> Str(<<122>>)])
Ticks(a, b) == [start |-> Num(a), end |-> Num(b)]
With(f, g) == [x \in DOMAIN f \cup DOMAIN g |-> IF x \in DOMAIN f THEN f[x] ELSE g[x]]
HistoryLines ==
    {[form |-> "blank"], [form |-> "garbage"]}
    \cup {Line("put", [key |-> Str(k), value |-> Str(v), result |-> Ok]) : k \in Texts, v \in {<<122>>}}
    \cup {Line("get", With([key |-> Str(<<122>>), result |-> r], tk)) :
            r \in {Null, Err, Num(1)} \cup {Str(x) : x \in Texts},
            tk \in {Ticks(0, 1), Ticks(2, 4), Ticks(1, 9), Ticks(3, 3), [start |-> Num(1)], [end |-> Num(2)], Ticks(-1, 4)}}
    \cup {Line("delete", [key |-> Str(<<122>>), client |-> Num(c), result |-> r]) : c \in {-1, 0, 7, 8}, r \in {Ok, Err, Null}}
    \cup {Line("scan", [prefix |-> Str(<<>>), result |-> r]) :
            r \in {Err, Arr(<<>>), Arr(<<Num(1)>>)} \cup {Arr(<<Arr(<<Str(k), Str(v)>>)>>) : k \in Texts, v \in {<<122>>, <<48, 120, 54, 98>>}}}
    \cup {Line("scan", [prefix |-> Str(<<>>), key |-> Str(<<>>), result |-> Arr(<<>>)]), Line("incr", [key |-> Str(<<122>>)])}
-----------------------------------------------------------------------------
(* The properties of the components, each in its scene.                    *)

\* A cut connection may lose messages and never turns one into another; without a cut
\* every message within the caps arrives (every encoder and decoder).
FramesArriveAsSent == scene = "wire" => Wire!DeliveredAsSent /\ Wire!WholeStreamArrives

\* An operation is answered by the reply to its own request (the roundtrip functions).
RepliesAreOwn == scene = "connection" => Conn!RepliesAreOwn

\* A transaction reported as committed stored exactly the handle's buffer (TxnHandle::commit).
CommitStoresBuffer == scene = "handle" => Handle!CommitStoresBuffer


\* An imported history keeps what its lines say: an operation printed in a report reads back
\* as itself (bytes_to_json against parse_bytes), and one listed without ticks comes after
\* all that is listed above it (parse_interval).
ImportIsFaithful == scene = "import" => Wgl!ReportReadsBack /\ Wgl!UntimedFollowsEarlier



\* Transfers neither make nor lose money and overdraw no account (bank_transfer_layout), and
\* the audit's verdict is the truth about the balances it read (check_balances_sum).
AuditIsRight == scene = "bank" => Jep!MoneyIsConserved /\ Jep!AuditIsRight

\* While the runner takes commands, a fault in force has its undo queued behind it, and no
\* second node is taken out before the first is back (emit_controller_action_one).
UndoIsQueued == scene = "faults" => Chaos!UndoIsQueued /\ Chaos!OneVictimAtATime
=============================================================================
