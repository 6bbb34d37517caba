--------------------------- MODULE SnapshotIsolation ------------------------
(***************************************************************************)
(* What spec/docs/transactions-spec.md promises of transactions, without   *)
(* intents: a transaction starts at a version, collects writes, and        *)
(* commits all of them if nobody has committed one of its keys since.      *)
(***************************************************************************)
EXTENDS Naturals, Sequences

CONSTANTS Txn, SKey, SVal

VARIABLES
    committed,  \* the committed versions, in order: [key, val]
    open        \* open[t]: [start, writes] of an open transaction, or NotOpen

siVars == <<committed, open>>

NotOpen == [start |-> 0, writes |-> {}, live |-> FALSE]

SIInit == committed = << >> /\ open = [t \in Txn |-> NotOpen]

SIBegin(t) ==
    /\ ~ open[t].live
    /\ open' = [open EXCEPT ![t] = [start |-> Len(committed), writes |-> {}, live |-> TRUE]]
    /\ UNCHANGED committed

SIWrite(t) ==
    /\ open[t].live
    /\ \E k \in SKey, v \in SVal :
          open' = [open EXCEPT ![t].writes = {w \in @ : w.key # k} \cup {[key |-> k, val |-> v]}]
    /\ UNCHANGED committed

\* The versions of a commit become visible at once, in some order of the keys.
SICommit(t) ==
    /\ open[t].live
    /\ \A w \in open[t].writes : \A i \in open[t].start + 1 .. Len(committed) :
          committed[i].key # w.key
    /\ open' = [open EXCEPT ![t] = NotOpen]
    /\ Len(committed') >= Len(committed)
    /\ SubSeq(committed', 1, Len(committed)) = committed
    /\ {committed'[i] : i \in Len(committed) + 1 .. Len(committed')} = open[t].writes

SIAbort(t) == open[t].live /\ open' = [open EXCEPT ![t] = NotOpen] /\ UNCHANGED committed

\* Every open transaction is lost with the process.
SICrash == open' = [t \in Txn |-> NotOpen] /\ UNCHANGED committed

\* A write outside of transactions.
SIPlain ==
    /\ Len(committed') = Len(committed) + 1
    /\ SubSeq(committed', 1, Len(committed)) = committed
    /\ UNCHANGED open

SINext == SIPlain \/ SICrash \/ \E t \in Txn : SIBegin(t) \/ SIWrite(t) \/ SICommit(t) \/ SIAbort(t)
=============================================================================
