------------------------------ MODULE KvStore ------------------------------
(***************************************************************************)
(* What the storage engine promises a caller who writes strictly: a map    *)
(* from keys to values.  A write is called, takes effect once and returns. *)
(* A crash may keep or drop the write it interrupts and changes nothing    *)
(* else; flushing, compacting and restarting are invisible.                *)
(***************************************************************************)
EXTENDS Integers

CONSTANTS Keys, Nothing

VARIABLES
    kv,       \* the value of every key, Nothing where there is none
    pending   \* the write in progress

NoWrite == [key |-> Nothing, val |-> Nothing]

Init ==
    /\ kv = [k \in Keys |-> Nothing]
    /\ pending = NoWrite

Taken == [kv EXCEPT ![pending.key] = pending.val]

Call ==
    /\ pending = NoWrite
    /\ pending' # NoWrite
    /\ pending'.key \in Keys
    /\ UNCHANGED kv

Return ==
    /\ pending # NoWrite
    /\ pending' = NoWrite
    /\ kv' = Taken

Crash ==
    /\ pending # NoWrite
    /\ pending' = NoWrite
    /\ kv' \in {kv, Taken}

Next == Call \/ Return \/ Crash

Spec == Init /\ [][Next]_<<kv, pending>>
=============================================================================
