------------------------------ MODULE TxnHandle -------------------------------
(***************************************************************************)
(* The transaction handle of the Rust, Go and TypeScript clients: a local  *)
(* buffer of the writes the server acknowledged, over a request loop that  *)
(* sends a request again when its reply is lost.  On the other side, the   *)
(* server's TXN_* opcodes at the leader: a table of open transactions with *)
(* their intents, and a commit that takes the intents before it proposes.  *)
(***************************************************************************)
EXTENDS Integers, FiniteSets

CONSTANTS TKeys, TValues, TxnTries, TxnLosses, TxnSteps

Deleted == "deleted"
Unset == "unset"
Staged == TValues \cup {Deleted, Unset}
NoWrites == [k \in TKeys |-> Unset]
NoRequest == [op |-> "none"]
NoHandle == 0

VARIABLES
    handle,         \* the handle: id, the local buffer, and done
    asked,          \* the operation in progress and the attempts it has used
    opened,         \* the server's open transactions: id -> intents
    lastId,         \* the server's transaction counter
    rival,          \* the keys another transaction holds intents on
    newer,          \* the keys a plain write changed after the snapshot
    applied,        \* the writes of the transactions that were applied: id -> writes
    returned,       \* what commit returned to the caller
    unsure,         \* keys of a write that failed after an attempt without an answer
    late,           \* requests given up by the client and still to be executed
    losses, steps

handleVars == <<handle, asked, opened, lastId, rival, newer, applied, returned, unsure, late, losses, steps>>

-----------------------------------------------------------------------------
(***************************************************************************)
(* The server.  Each answer is the status and the state left behind.       *)
(***************************************************************************)
TxnBegin ==
    [st |-> "ok", id |-> lastId + 1, opened |-> [t \in DOMAIN opened \cup {lastId + 1} |->
        IF t = lastId + 1 THEN NoWrites ELSE opened[t]], lastId |-> lastId + 1, applied |-> applied]

Answered(st) == [st |-> st, id |-> handle.id, opened |-> opened, lastId |-> lastId, applied |-> applied]

Write(r) == IF r.op = "put" THEN r.value ELSE Deleted

TxnWrite(r) ==
    IF handle.id \notin DOMAIN opened THEN Answered("invalid")
    ELSE IF r.key \in rival \cup newer THEN Answered("conflict")
    ELSE [Answered("ok") EXCEPT !.opened[handle.id][r.key] = Write(r)]

Without(id) == [t \in DOMAIN opened \ {id} |-> opened[t]]

\* the mutations of the TxnCommit command, on every replica
Applied == [t \in DOMAIN applied \cup {handle.id} |-> IF t = handle.id THEN opened[t] ELSE applied[t]]

\* a conflict found at commit leaves the transaction and its intents in the table
\* mutant: a transaction that is no longer open counts as committed
CommitRefusedNever ==
    IF handle.id \notin DOMAIN opened THEN {Answered("ok")}
    ELSE IF \E k \in newer : opened[handle.id][k] # Unset THEN {Answered("conflict")}
    ELSE {}

CommitRefused ==
    IF handle.id \notin DOMAIN opened THEN {Answered("invalid")}
    ELSE IF \E k \in newer : opened[handle.id][k] # Unset THEN {Answered("conflict")}
    ELSE {}

\* the intents are taken first; a failed or late proposal does not bring them back
TxnCommitViaRaft ==
    IF CommitRefused # {} THEN CommitRefused
    ELSE {[Answered(st) EXCEPT !.opened = Without(handle.id),
                               !.applied = IF applies THEN Applied ELSE @] :
            <<st, applies>> \in {<<"ok", TRUE>>, <<"error", TRUE>>, <<"error", FALSE>>}}

TxnRollback ==
    IF handle.id \notin DOMAIN opened THEN Answered("invalid")
    ELSE [Answered("ok") EXCEPT !.opened = Without(handle.id)]

Dispatch(r) ==
    CASE r.op = "begin" -> {TxnBegin}
      [] r.op \in {"put", "delete"} -> {TxnWrite(r)}
      [] r.op = "commit" -> TxnCommitViaRaft
      [] r.op = "rollback" -> {TxnRollback}

-----------------------------------------------------------------------------
(***************************************************************************)
(* The caller starts an operation.  A finished handle refuses (Rust: the   *)
(* handle is consumed by value).                                           *)
(***************************************************************************)
EnsureOpen == handle.id # NoHandle /\ ~handle.done

Ask(r) ==
    /\ asked.op = "none" /\ steps < TxnSteps
    /\ r.op = "begin" => handle.id = NoHandle
    /\ r.op # "begin" => EnsureOpen
    /\ asked' = [r EXCEPT !.tries = 0]
    /\ handle' = IF r.op \in {"commit", "rollback"} THEN [handle EXCEPT !.done = TRUE] ELSE handle
    /\ steps' = steps + 1
    /\ UNCHANGED <<opened, lastId, rival, newer, applied, returned, unsure, late, losses>>

Request == [op : {"begin", "commit", "rollback"}, key : {CHOOSE k \in TKeys : TRUE},
            value : {Unset}, tries : {0}]
           \cup [op : {"delete"}, key : TKeys, value : {Unset}, tries : {0}]
           \cup [op : {"put"}, key : TKeys, value : TValues, tries : {0}]

\* The handle on a reply: only an acknowledged write enters the buffer
OnOk(a) ==
    CASE asked.op = "begin" -> [handle EXCEPT !.id = a.id]
      [] asked.op \in {"put", "delete"} -> [handle EXCEPT !.local[asked.key] = Write(asked)]
      [] OTHER -> handle

OnReply(a) == IF a.st = "ok" THEN OnOk(a) ELSE handle

After(a) == /\ opened' = a.opened
            /\ lastId' = a.lastId
            /\ applied' = a.applied

Writes == asked.op \in {"put", "delete"}

\* An attempt that is executed and answered ends the operation.
Answer ==
    /\ asked.op # "none"
    /\ \E a \in Dispatch(asked) :
        /\ After(a)
        /\ handle' = OnReply(a)
        /\ returned' = IF asked.op = "commit" THEN a.st ELSE returned
        /\ unsure' = IF Writes /\ asked.tries > 0 /\ a.st # "ok" THEN unsure \cup {asked.key} ELSE unsure
    /\ asked' = NoRequest
    /\ UNCHANGED <<rival, newer, late, losses, steps>>

\* The answer of an attempt does not come: the request was executed, or never will
\* be, or lingers at a busy server.  The loop sends it again, and at the end of its
\* attempts returns an error with the outcome unknown.
Lose ==
    /\ asked.op # "none" /\ losses < TxnLosses
    /\ losses' = losses + 1
    /\ \/ (\E a \in Dispatch(asked) : After(a)) /\ UNCHANGED late
       \/ UNCHANGED <<opened, lastId, applied, late>>
       \/ late' = late \cup {asked} /\ UNCHANGED <<opened, lastId, applied>>
    /\ LET last == asked.tries + 1 >= TxnTries
       IN /\ asked' = IF last THEN NoRequest ELSE [asked EXCEPT !.tries = @ + 1]
          /\ returned' = IF last /\ asked.op = "commit" THEN "unknown" ELSE returned
          /\ unsure' = IF Writes /\ (last \/ late' # late) THEN unsure \cup {asked.key} ELSE unsure
    /\ UNCHANGED <<handle, rival, newer, steps>>

Linger ==
    /\ \E r \in late :
        /\ handle.id # NoHandle \/ r.op = "begin"
        /\ late' = late \ {r}
        /\ \E a \in Dispatch(r) : After(a)
    /\ UNCHANGED <<handle, asked, rival, newer, returned, unsure, losses, steps>>

\* Another client's transaction stages or finishes; a plain write commits.
Rival ==
    /\ \E k \in TKeys :
        /\ k \in rival \/ \A t \in DOMAIN opened : opened[t][k] = Unset
        /\ rival' = IF k \in rival THEN rival \ {k} ELSE rival \cup {k}
    /\ UNCHANGED <<handle, asked, opened, lastId, newer, applied, returned, unsure, late, losses, steps>>

PlainWrite ==
    /\ handle.id # NoHandle
    /\ \E k \in TKeys \ newer : newer' = newer \cup {k}
    /\ UNCHANGED <<handle, asked, opened, lastId, rival, applied, returned, unsure, late, losses, steps>>

HandleInit ==
    /\ handle = [id |-> NoHandle, local |-> NoWrites, done |-> FALSE]
    /\ asked = NoRequest
    /\ opened = [t \in {} |-> NoWrites]
    /\ lastId = 0
    /\ rival = {}
    /\ newer = {}
    /\ applied = [t \in {} |-> NoWrites]
    /\ returned = "none"
    /\ unsure = {}
    /\ late = {}
    /\ losses = 0 /\ steps = 0

HandleNext == (\E r \in Request : Ask(r)) \/ Answer \/ Lose \/ Linger \/ Rival \/ PlainWrite

HandleSpec == HandleInit /\ [][HandleNext]_handleVars

-----------------------------------------------------------------------------
(***************************************************************************)
(* Read-your-writes from the local buffer agrees with the server: while    *)
(* the handle is open, a buffered write is the intent that a commit would  *)
(* apply, whatever was sent again, unless a write of that key failed after *)
(* an attempt without an answer, or one lingers at the server.             *)
(***************************************************************************)
BufferIsIntent ==
    handle.id # NoHandle /\ ~handle.done =>
        \A k \in TKeys \ (unsure \cup (IF Writes THEN {asked.key} ELSE {})) :
            opened[handle.id][k] = handle.local[k]

(***************************************************************************)
(* The same without the exception: what the handle reads back is what it   *)
(* will commit.  A write that timed out after it was staged breaks it.     *)
(***************************************************************************)
BufferIsAlwaysIntent ==
    handle.id # NoHandle /\ ~handle.done /\ asked.op = "none" =>
        \A k \in TKeys : handle.local[k] # Unset => opened[handle.id][k] = handle.local[k]

(***************************************************************************)
(* A commit that reports success stored every write the handle holds.      *)
(***************************************************************************)
CommitStoresBuffer ==
    returned = "ok" => /\ handle.id \in DOMAIN applied
                       /\ \A k \in TKeys \ unsure : applied[handle.id][k] = handle.local[k]

(***************************************************************************)
(* "Write-write conflicts may fail"; a refused commit leaves nothing       *)
(* behind.  A commit sent again after its reply was lost is refused as     *)
(* unknown although it was applied.                                        *)
(***************************************************************************)
RefusedMeansNotApplied == returned \in {"invalid", "conflict"} => handle.id \notin DOMAIN applied

(***************************************************************************)
(* transactions-spec.md: after TXN_CONFLICT the "client should retry with  *)
(* a new transaction".  That needs the refused transaction to let go of    *)
(* its keys: once commit or rollback was answered the server holds no      *)
(* intent of it, and the finished handle cannot ask again.                 *)
(***************************************************************************)
FinishedHoldsNothing ==
    returned # "none" /\ returned # "unknown" => handle.id \notin DOMAIN opened
=============================================================================
