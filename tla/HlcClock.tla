------------------------------ MODULE HlcClock ------------------------------
(***************************************************************************)
(* The hybrid logical clock of an engine that takes its sequence numbers   *)
(* from it (use_hlc): samples of other nodes are merged when they are      *)
(* within the uncertainty bound, a write ticks the clock, raises the next  *)
(* sequence of the WAL and sleeps until the wall clock has caught up.  The *)
(* clock is not on disk; the sequence numbers are, in the WAL.             *)
(***************************************************************************)
EXTENDS Integers, Sequences, FiniteSetsExt

CONSTANTS
    LogicalMax,      \* the largest logical part, 65535 in the code
    MaxOffset,       \* max_clock_offset, in milliseconds
    RemoteLogicals,  \* logical parts of the samples that arrive
    MaxWall,         \* bound: the wall clock
    MaxSamples,      \* bound: samples merged
    MaxCommits       \* bound: writes

VARIABLES
    wall,          \* wall_clock_ms()
    setBack,       \* the wall clock has been set back
    hlc,           \* the engine's clock
    nextSequence,  \* next_sequence of the WAL
    commits,       \* the sequence numbers of the writes, oldest first
    samples        \* samples merged so far

clockVars == <<wall, setBack, hlc, nextSequence, commits, samples>>

Zero == [physical |-> 0, logical |-> 0]

SaturatingAdd(l) == IF l = LogicalMax THEN l ELSE l + 1

\* The merge rule; now is the wall clock.
Update(clock, now, remote) ==
    LET pt == Max({now, clock.physical, remote.physical})
        logical ==
            IF pt = clock.physical /\ pt = remote.physical
            THEN SaturatingAdd(Max({clock.logical, remote.logical}))
            ELSE IF pt = clock.physical THEN SaturatingAdd(clock.logical)
            ELSE IF pt = remote.physical THEN SaturatingAdd(remote.logical)
            ELSE 0
    IN  [physical |-> pt, logical |-> logical]

Tick(clock, now) == Update(clock, now, Zero)

\* (physical_ms << 16) | logical.  Milliseconds stay below 2^48, where to_u64 saturates.
ToU64(clock) == clock.physical * (LogicalMax + 1) + clock.logical

PhysicalOf(ts) == ts \div (LogicalMax + 1)

LeadOverWall(clock, now) == IF clock.physical > now THEN clock.physical - now ELSE 0

EnsureMinSequence(ts) == IF ts > nextSequence THEN ts ELSE nextSequence

ClockInit ==
    /\ wall = 0
    /\ setBack = FALSE
    /\ hlc = Zero
    /\ nextSequence = 1
    /\ commits = << >>
    /\ samples = 0

WithinBoundAlways(remote) == TRUE

\* checked_update takes the sample.
WithinBound(remote) == remote.physical <= wall + MaxOffset

\* sync_clock; a sample too far ahead is refused and changes nothing.
SyncClock(remote) ==
    /\ samples < MaxSamples
    /\ samples' = samples + 1
    /\ WithinBound(remote)
    /\ hlc' = Update(hlc, wall, remote)
    /\ nextSequence' = EnsureMinSequence(Max({ToU64(hlc'), 1}))
    /\ UNCHANGED <<wall, setBack, commits>>

\* How long prepare_hlc_write_sequence sleeps.
Wait(clock) == Min({LeadOverWall(clock, wall), MaxOffset})

\* write_put and write_delete: tick, sleep, append to the WAL.
Commit ==
    LET seq == EnsureMinSequence(Max({ToU64(hlc'), 1}))
    IN  /\ Len(commits) < MaxCommits
        /\ hlc' = Tick(hlc, wall)
        /\ wall' = wall + Wait(hlc')
        /\ commits' = Append(commits, seq)
        /\ nextSequence' = seq + 1
        /\ UNCHANGED <<setBack, samples>>

\* The engine is reopened: the clock starts at zero, the WAL behind its last record.
Reopen ==
    /\ hlc' = Zero
    /\ nextSequence' = IF commits = << >> THEN 1 ELSE commits[Len(commits)] + 1
    /\ UNCHANGED <<wall, setBack, commits, samples>>

WallAdvances ==
    /\ wall < MaxWall
    /\ wall' = wall + 1
    /\ UNCHANGED <<setBack, hlc, nextSequence, commits, samples>>

WallSetBack ==
    /\ ~setBack
    /\ setBack' = TRUE
    /\ wall' \in {w \in 0..MaxWall : w < wall}
    /\ UNCHANGED <<hlc, nextSequence, commits, samples>>

Samples == [physical : 0..(MaxWall + MaxOffset), logical : RemoteLogicals]

ClockNext ==
    \/ \E remote \in Samples : SyncClock(remote)
    \/ Commit
    \/ Reopen
    \/ WallAdvances
    \/ WallSetBack

ClockSpec == ClockInit /\ [][ClockNext]_clockVars

-----------------------------------------------------------------------------
(* Properties.                                                             *)

\* A later write has a larger sequence number, so that get_at finds it: whatever the wall
\* clock does, when the logical part is saturated, and after a restart that forgot the
\* clock (prepare_hlc_write_sequence, ensure_min_sequence).
TimestampsIncrease == \A i, j \in 1..Len(commits) : i < j => commits[i] < commits[j]

\* Unless the wall clock is set back, a write is not visible before the wall clock has
\* reached its timestamp: the sleep is capped at MaxOffset, and no clock that only merges
\* samples within the bound leads by more (checked_update, prepare_hlc_write_sequence).
CommitWaitsForClock ==
    ~setBack => \A i \in 1..Len(commits) : PhysicalOf(commits[i]) <= wall

=============================================================================
