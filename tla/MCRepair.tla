------------------------------ MODULE MCRepair ------------------------------
(***************************************************************************)
(* What must come to an end, on small instances: a leader repairing a      *)
(* follower with RaftLink, and a client looking for the leader of the      *)
(* range of its key.  A behaviour stays in the scene its first state picks. *)
(***************************************************************************)
EXTENDS RaftLink

CONSTANTS CNode, FirstAddr, Layouts, DataKeys, MaxRedirects, MaxAttempts, Quiet, MaxOps,
          MaxLeaderChanges
VARIABLES newest, epochAt, hostedAt, leaderOf, elections, cAddr, cCache, cOp, ops
clientVars == <<newest, epochAt, hostedAt, leaderOf, elections, cAddr, cCache, cOp, ops>>
Client == INSTANCE RangeClient WITH MaxElections <- MaxLeaderChanges

Table == INSTANCE RangeTable

CONSTANT Scenes     \* "link", "client"
VARIABLE scene

-----------------------------------------------------------------------------
(* Values for the constants.                                               *)

\* Every log of at most n entries of terms 1 and 2.  A leader's first entry of its term is
\* the no-op.
Logs(n) ==
    {g \in UNION {[1 .. k -> [term : {1, 2}, command : Command]] : k \in 0 .. n} :
        \A k \in DOMAIN g : g[k].command = Noop <=> (k = 1 \/ g[k - 1].term # g[k].term)}
ShortLogs == Logs(2)
OldLogs == Logs(3)

\* A follower that only lags: it never held an entry of term 2.
LaggingLogs == {g \in Logs(2) : \A k \in DOMAIN g : g[k].term = 1}
\* A follower whose log is longer than the leader's, all of it unconfirmed.
TailLogs == {g \in Logs(4) : Len(g) = 4 /\ \A k \in DOMAIN g : g[k].term = 2}
AheadLogs == {g \in LaggingLogs : Len(g) = 2}

\* A range is split at key 1, and then at key 2.
Boot == Table!SingleGroup(0)
OneSplit == <<Boot, Table!SplitAt(Boot, 1)>>
TwoSplits == Append(OneSplit, Table!SplitAt(OneSplit[2], 2))

-----------------------------------------------------------------------------
(* The merge of entries.                                                   *)

\* One turn of the `for` loop of on_append_request.  Conflict: truncate and replace.
\* Missing: append.  Present: skip.
MergeTurn(log, idx, entry) ==
    IF TermAt(log, idx) = NoTerm
    THEN AppendEntry(log, entry)
    ELSE IF TermAt(log, idx) # entry.term
    THEN AppendEntry(TruncateFrom(log, idx), entry)
    ELSE log

MergeLoop(log, prev, entries) ==
    LET after[k \in 0 .. Len(entries)] ==
            IF k = 0 THEN log ELSE MergeTurn(after[k - 1], prev + k, entries[k])
    IN  after[Len(entries)]

LoopEntries == UNION {[1 .. k -> [term : 1 .. 2]] : k \in 0 .. 3}

LoopLogs ==
    {[entries |-> es, lastIncludedIndex |-> b, lastIncludedTerm |-> b, snapshot |-> NoImage] :
        es \in LoopEntries, b \in 0 .. 2}

\* The closed form of RaftNode leaves the log that the loop leaves, for requests that begin
\* below, at and above the snapshot boundary, once the entry before the first is known.
ASSUME ClosedFormIsLoop ==
    \A log \in LoopLogs, prev \in 0 .. 5, entries \in LoopEntries :
        TermAt(log, prev) # NoTerm
        => MergeEntries(log, prev, entries) = MergeLoop(log, prev, entries)

-----------------------------------------------------------------------------
RepairInit ==
    \/ /\ scene = "link" /\ scene \in Scenes /\ LinkInit
       /\ Client!ClientInit
       /\ leaderOf = [g \in DOMAIN leaderOf |-> FirstAddr] /\ cCache = Client!NoCache
    \/ /\ scene = "client" /\ scene \in Scenes /\ Client!ClientInit
       /\ LinkInit
       /\ Len(node[Leader].log.entries) = 1 /\ node[Follower].log.entries = << >>

ClientScene == scene = "client" /\ Client!ClientNext /\ UNCHANGED vars

\* The client makes MaxOps calls and no more.
ClientEnds == scene = "client" /\ ops = MaxOps /\ ~ Client!Trying /\ UNCHANGED <<vars, clientVars>>

RepairNext ==
    /\ UNCHANGED scene
    /\ \/ scene = "link" /\ LinkNext /\ UNCHANGED clientVars
       \/ ClientScene
       \/ ClientEnds

Scene(s) == scene = s /\ UNCHANGED scene

RepairSpec ==
    /\ RepairInit /\ [][RepairNext]_<<scene, vars, clientVars>>
    /\ WF_vars(Scene("link") /\ Beat)
    /\ SF_vars(Scene("link") /\ \E m \in msgs : Deliver(Follower, m))
    /\ SF_vars(Scene("link") /\ \E m \in msgs : Deliver(Leader, m))
    /\ WF_clientVars(Scene("client") /\ Client!ClientStep)

-----------------------------------------------------------------------------
\* The back-off of on_append_response and the snapshot fallback of send_append_to end with
\* the follower holding the leader's whole log, and the two engines come to answer alike
\* (drain_and_apply).
FollowerIsRepaired == scene = "link" => FollowerCatchesUp /\ EnginesConverge

\* Every operation returns, whatever redirects, refreshes and failures it meets: the
\* three budgets of send_with_retry bound its loop.
OpsReturn == Client!OpsReturn
=============================================================================
