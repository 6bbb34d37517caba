--------------------------- MODULE JepsenWorkload ---------------------------
(***************************************************************************)
(* The clients of the Jepsen test harness and the history they record      *)
(* (crates/kaya-jepsen-test/src/{workload,history}.rs), against a store    *)
(* that is a single linearizable key; and its bank workload.               *)
(*                                                                         *)
(* Wall-clock intervals are kept as what happened in them: for an          *)
(* operation under way, the values the key has held since it began and     *)
(* whether one of its own writes took effect.  A request that times out    *)
(* may still take effect later.  The value 0 stands for "absent"; register *)
(* and map clients write a value of their own each time.                   *)
(***************************************************************************)
EXTENDS Integers, Sequences, FiniteSets, FiniteSetsExt

CONSTANTS JClients,
          Settings,      \* the runs: [workload, max, ops], max being verify_max_ops (0 for
                         \* None) and ops the operations begun at most
          MaxAttempts,   \* attempts of a confirmed operation (10, 6 and 12 in the code)
          MaxLate        \* abandoned writes still under way at most

VARIABLES setting, cell, late, doing, recorded, started

jepsenVars == <<setting, cell, late, doing, recorded, started>>

AtRest == [pc |-> "rest"]

JepsenInit ==
    /\ setting \in Settings
    /\ cell = 0 /\ late = {} /\ recorded = <<>> /\ started = 0
    /\ doing = [c \in JClients |-> AtRest]

verifyMax == setting.max
workload == setting.workload
Wgl == verifyMax > 0

Busy == {c \in JClients : doing[c].pc # "rest"}

(* The key takes a new value: every operation under way sees it pass. *)
Passing(d, v) == [c \in JClients |->
    IF d[c].pc \in {"rest", "record"} THEN d[c]
    ELSE [d[c] EXCEPT !.sinceStart = @ \cup {v}]]

(***************************************************************************)
(* Recording.                                                              *)
(***************************************************************************)
PerClient(max) == LET half == (max + 1) \div 2 IN IF half > 2 THEN half ELSE 2

RoomFor(c) ==
    Wgl => /\ Len(recorded) < verifyMax
           /\ Cardinality({i \in DOMAIN recorded : recorded[i].client = c}) < PerClient(verifyMax)

TryRecordTimed(c) ==
    /\ doing[c].pc = "record"
    /\ recorded' = IF RoomFor(c) THEN Append(recorded, doing[c].entry) ELSE recorded
    /\ doing' = [doing EXCEPT ![c] = AtRest]
    /\ UNCHANGED <<setting, cell, late, started>>

(* The operation ends now; its interval opened when it began. *)
Entry(c, ok, real) ==
    [pc |-> "record", entry |-> [client |-> c, op |-> doing[c].op, val |-> doing[c].val,
                                 ok |-> ok, real |-> real]]

ReadEntry(c, v) ==
    [pc |-> "record", entry |-> [client |-> c, op |-> doing[c].op, val |-> v, ok |-> TRUE,
                                 real |-> v \in doing[c].sinceStart]]

(***************************************************************************)
(* Beginning an operation.                                                 *)
(***************************************************************************)
(* The WGL gate of the register workload writes only. *)
Kinds == CASE workload = "register" -> IF Wgl THEN {"confirmed put"} ELSE {"confirmed get", "confirmed put"}
           [] workload = "counter" -> {"get", "increment"}
           [] workload = "map" -> {"get", "put"}

BeginOp(c) ==
    /\ doing[c] = AtRest /\ started < setting.ops
    /\ Wgl => Len(recorded) < verifyMax
    /\ \E kind \in Kinds :
         doing' = [doing EXCEPT ![c] =
           [pc |-> IF kind \in {"confirmed put", "put"} THEN "write" ELSE "read",
            op |-> kind, val |-> IF kind \in {"confirmed put", "put"} THEN started + 1 ELSE 0,
            first |-> {}, tries |-> 1, sinceStart |-> {cell}, took |-> FALSE]]
    /\ started' = started + 1
    /\ UNCHANGED <<setting, cell, late, recorded>>

(* Sleep and try again, or give up without recording anything. *)
Again(c, pc) ==
    IF doing[c].tries < MaxAttempts
    THEN [doing[c] EXCEPT !.pc = pc, !.tries = @ + 1, !.first = {}]
    ELSE AtRest

(***************************************************************************)
(* Writing.                                                                *)
(***************************************************************************)
WriteOk(c) ==
    LET d == [doing EXCEPT ![c].took = TRUE]
    IN /\ doing[c].pc = "write"
       /\ cell' = doing[c].val
       /\ doing' = [Passing(d, cell') EXCEPT ![c] =
            IF doing[c].op = "confirmed put" THEN [Passing(d, cell')[c] EXCEPT !.pc = "readback"]
            ELSE Entry(c, TRUE, TRUE)]
       /\ UNCHANGED <<setting, late, recorded, started>>


(* An error is recorded as one; a timeout ends the operation unrecorded. *)
AfterLostWrite(c, error) ==
    IF doing[c].op = "confirmed put" THEN Again(c, "write")
    ELSE IF error THEN Entry(c, FALSE, TRUE) ELSE AtRest

(* No answer: the write did not take effect, or did, or will. *)
WriteLost(c) ==
    /\ doing[c].pc = "write"
    /\ \E error \in BOOLEAN :
         \/ /\ doing' = [doing EXCEPT ![c] = AfterLostWrite(c, error)]
            /\ UNCHANGED <<cell, late>>
         \/ /\ Cardinality(late) < MaxLate
            /\ late' = late \cup {doing[c].val}
            /\ doing' = [doing EXCEPT ![c] = AfterLostWrite(c, error)]
            /\ UNCHANGED cell
         \/ /\ cell' = doing[c].val
            /\ doing' = [Passing(doing, cell') EXCEPT ![c] = AfterLostWrite(c, error)]
            /\ UNCHANGED late
    /\ UNCHANGED <<setting, recorded, started>>

LateWrite ==
    /\ \E v \in late : cell' = v /\ late' = late \ {v}
    /\ doing' = Passing(doing, cell')
    /\ UNCHANGED <<setting, recorded, started>>

(* register_put_confirmed reads its own write back. *)
Readback(c) ==
    /\ doing[c].pc = "readback"
    /\ \/ cell = doing[c].val /\ doing' = [doing EXCEPT ![c] = Entry(c, TRUE, doing[c].took)]
       \/ doing' = [doing EXCEPT ![c] = Again(c, "write")]
    /\ UNCHANGED <<setting, cell, late, recorded, started>>

(***************************************************************************)
(* Reading.                                                                *)
(***************************************************************************)
(* A confirmed GET reads twice on one connection; the two must agree. *)
ReadConfirmed(c) ==
    IF doing[c].first = {} THEN [doing[c] EXCEPT !.first = {cell}]
    ELSE IF doing[c].first = {cell} THEN ReadEntry(c, cell)
    ELSE Again(c, "read")

ReadOk(c) ==
    /\ doing[c].pc = "read"
    /\ doing' = [doing EXCEPT ![c] =
         CASE doing[c].op = "confirmed get" -> ReadConfirmed(c)
           [] doing[c].op = "get" -> ReadEntry(c, cell)
           [] doing[c].op = "increment" -> [doing[c] EXCEPT !.pc = "write", !.val = cell + 1]]
    /\ UNCHANGED <<setting, cell, late, recorded, started>>

ReadLost(c) ==
    /\ doing[c].pc = "read"
    /\ \E error \in BOOLEAN :
         doing' = [doing EXCEPT ![c] =
           IF doing[c].op = "confirmed get" THEN Again(c, "read")
           ELSE IF error THEN Entry(c, FALSE, TRUE) ELSE AtRest]
    /\ UNCHANGED <<setting, cell, late, recorded, started>>

JepsenNext ==
    \/ LateWrite
    \/ \E c \in JClients : \/ BeginOp(c) \/ WriteOk(c) \/ WriteLost(c) \/ Readback(c)
                           \/ ReadOk(c) \/ ReadLost(c) \/ TryRecordTimed(c)

JepsenSpec == JepsenInit /\ [][JepsenNext]_jepsenVars


(* Once everything is at rest the key holds a value some recorded write    *)
(* explains: what a timed-out, abandoned or capped write left behind would *)
(* be a violation to the checker, not a fault of the store.                *)
EffectsAreRecorded ==
    Busy = {} => cell \in {0} \cup {recorded[i].val : i \in DOMAIN recorded}

-----------------------------------------------------------------------------
(***************************************************************************)
(* The bank workload: transfers in snapshot-isolated transactions, and the *)
(* check that the balances still add up (bank.rs).                         *)
(*                                                                         *)
(* The store gives a transaction a snapshot and lets the first committer   *)
(* of a key win.  A client that times out drops its transfer at any point; *)
(* a commit it had sent may still be executed later.                       *)
(***************************************************************************)
CONSTANTS Accounts, Tellers,
          InitialBalance,
          Amounts,
          MaxTransfers,    \* transfers begun at most
          MaxAudits        \* passes of the sum check (24 over every node in the code)

VARIABLES balance, version, written, teller, lateCommits, begun, audit

bankVars == <<balance, version, written, teller, lateCommits, begun, audit>>

Total(b) == MapThenSumSet(LAMBDA a : b[a], Accounts)

BankExpectedTotal == Cardinality(Accounts) * InitialBalance

Counter == [step |-> "free"]
NoAudit == [read |-> <<>>, moved |-> FALSE, attempt |-> 1, wrong |-> FALSE, verdict |-> "none"]

(* Every account seeded and read back (seed_bank_on_cluster_layout). *)
BankInit ==
    /\ balance = [a \in Accounts |-> InitialBalance]
    /\ version = 0 /\ written = [a \in Accounts |-> 0]
    /\ teller = [t \in Tellers |-> Counter]
    /\ lateCommits = {} /\ begun = 0 /\ audit = NoAudit

(***************************************************************************)
(* A transfer.                                                             *)
(***************************************************************************)
(* The snapshot is taken when the transaction begins. *)
BeginTransfer(t) ==
    /\ teller[t] = Counter /\ begun < MaxTransfers
    /\ \E from, to \in Accounts, amount \in Amounts :
         /\ from # to
         /\ teller' = [teller EXCEPT ![t] =
              [step |-> "open", from |-> from, to |-> to, amount |-> amount,
               at |-> version, fromBal |-> balance[from], toBal |-> balance[to]]]
    /\ begun' = begun + 1
    /\ UNCHANGED <<balance, version, written, lateCommits, audit>>

EnoughFunds(x) == x.fromBal >= x.amount

\* mutant: the amount is added to the balance it was taken from
NewBalancesWrong(x, b) == [b EXCEPT ![x.from] = x.fromBal - x.amount, ![x.to] = x.fromBal + x.amount]

NewBalances(x, b) == [b EXCEPT ![x.from] = x.fromBal - x.amount, ![x.to] = x.toBal + x.amount]

(* Insufficient funds: rolled back. *)
Refuse(t) ==
    /\ teller[t].step = "open" /\ ~EnoughFunds(teller[t])
    /\ teller' = [teller EXCEPT ![t] = Counter]
    /\ UNCHANGED <<balance, version, written, lateCommits, begun, audit>>

Conflicts(x) == written[x.from] > x.at \/ written[x.to] > x.at

Commit(x) ==
    IF Conflicts(x) THEN UNCHANGED <<balance, version, written, audit>>
    ELSE /\ balance' = NewBalances(x, balance)
         /\ version' = version + 1
         /\ written' = [written EXCEPT ![x.from] = version + 1, ![x.to] = version + 1]
         /\ audit' = [audit EXCEPT !.moved = @ \/ audit.read # <<>>]

FinishTransfer(t) ==
    /\ teller[t].step = "open" /\ EnoughFunds(teller[t])
    /\ Commit(teller[t])
    /\ teller' = [teller EXCEPT ![t] = Counter]
    /\ UNCHANGED <<lateCommits, begun>>

(* CLIENT_OP_TIMEOUT: the transfer is dropped, before or after its commit  *)
(* was sent.                                                               *)
TimeOut(t) ==
    /\ teller[t].step = "open"
    /\ lateCommits' \in {lateCommits} \cup (IF EnoughFunds(teller[t]) THEN {lateCommits \cup {teller[t]}} ELSE {})
    /\ teller' = [teller EXCEPT ![t] = Counter]
    /\ UNCHANGED <<balance, version, written, begun, audit>>

LateCommit ==
    \E x \in lateCommits : /\ Commit(x)
                           /\ lateCommits' = lateCommits \ {x}
                           /\ UNCHANGED <<teller, begun>>

(***************************************************************************)
(* The check, once the clients have stopped: one GET per account.          *)
(***************************************************************************)
Stopped == begun = MaxTransfers /\ \A t \in Tellers : teller[t] = Counter

(* The next pass, or the test fails. *)
NextAudit(wrong) ==
    IF audit.attempt < MaxAudits
    THEN [NoAudit EXCEPT !.attempt = audit.attempt + 1, !.wrong = wrong]
    ELSE [audit EXCEPT !.wrong = wrong, !.verdict = "violated"]

ReadBalance ==
    /\ Stopped /\ audit.verdict = "none" /\ Len(audit.read) < Cardinality(Accounts)
    /\ LET a == CHOOSE x \in Accounts : Cardinality({y \in Accounts : y < x}) = Len(audit.read)
       IN audit' \in {[audit EXCEPT !.read = Append(@, balance[a])], NextAudit(audit.wrong)}
    /\ UNCHANGED <<balance, version, written, teller, lateCommits, begun>>

SumOf(s) == LET up[i \in 0..Len(s)] == IF i = 0 THEN 0 ELSE up[i - 1] + s[i] IN up[Len(s)]

CheckBalancesSum ==
    /\ Len(audit.read) = Cardinality(Accounts) /\ audit.verdict = "none"
    /\ audit' = IF SumOf(audit.read) = BankExpectedTotal THEN [audit EXCEPT !.verdict = "ok"]
                ELSE NextAudit(audit.wrong \/ ~audit.moved)
    /\ UNCHANGED <<balance, version, written, teller, lateCommits, begun>>

BankNext ==
    \/ \E t \in Tellers : BeginTransfer(t) \/ Refuse(t) \/ FinishTransfer(t) \/ TimeOut(t)
    \/ LateCommit \/ ReadBalance \/ CheckBalancesSum

BankSpec == BankInit /\ [][BankNext]_bankVars

(***************************************************************************)
(* Properties.                                                             *)
(***************************************************************************)
(* Transfers neither create nor destroy money and overdraw no account,     *)
(* whatever was dropped, conflicted or committed late                      *)
(* (bank_transfer_layout).                                                 *)
MoneyIsConserved ==
    Total(balance) = BankExpectedTotal /\ \A a \in Accounts : balance[a] >= 0

(* A pass of the sum check that no late commit interrupts finds the sum    *)
(* right (verify_bank_sum, verify_bank_sum_live_layout).                   *)
AuditIsRight == ~audit.wrong
=============================================================================
