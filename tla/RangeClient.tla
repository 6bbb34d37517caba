----------------------------- MODULE RangeClient ----------------------------
(***************************************************************************)
(* A KayaClient with its range cache, redirects and retries                *)
(* (kaya-client/src/lib.rs, retry.rs) against servers that learn of range  *)
(* changes one by one (dispatch of cluster/client_ops.rs).                 *)
(*                                                                         *)
(* The servers' tables are the Layouts of RangeMeta: one per epoch, each   *)
(* server at an epoch of its own, its groups possibly still to be hosted.  *)
(***************************************************************************)
EXTENDS RangeTable

CONSTANTS
    CNode,        \* the servers
    FirstAddr,    \* the server the client is connected to
    Layouts,      \* Layouts[e]: the table of epoch e
    DataKeys,     \* keys that clients read and write
    MaxRedirects, \* KayaClient::max_redirects
    MaxAttempts,  \* RetryPolicy::max_attempts
    Quiet,        \* TRUE: an operation starts with all servers up to date, nothing
                  \* changes before it returns, and no attempt fails
    MaxOps,       \* bound: operations of the client
    MaxElections  \* bound: changes of a group's leader

VARIABLES
    newest,       \* epoch that group 0 has reached
    epochAt,      \* epochAt[n]: epoch of server n's table
    hostedAt,     \* hostedAt[n]: epoch whose groups n hosts
    leaderOf,     \* leaderOf[g]: leader of group g
    elections,
    cAddr,        \* addr: where the client connects first
    cCache,       \* range_cache
    cOp,          \* the operation in progress
    ops

clientVars == <<newest, epochAt, hostedAt, leaderOf, elections, cAddr, cCache, cOp, ops>>

NoCache == [metaEpoch |-> 0, ranges |-> {}]
AllGroups == UNION {GroupIds(Layouts[e]) : e \in DOMAIN Layouts} \cup {GroupZero}
Idle == [kind |-> "none", key |-> EmptyKey, wire |-> 0, attempts |-> 0, redirects |-> 0,
         moved |-> 0, outcome |-> "none"]

ClientInit ==
    /\ newest = 1
    /\ epochAt = [n \in CNode |-> 1]
    /\ hostedAt = [n \in CNode |-> 1]
    /\ leaderOf \in [AllGroups -> CNode]
    /\ elections = 0
    /\ cAddr = FirstAddr
    /\ cCache \in {NoCache} \cup {[metaEpoch |-> 1, ranges |-> Layouts[1].ranges]}
    /\ cOp = Idle
    /\ ops = 0

-----------------------------------------------------------------------------
(* The servers. *)

Trying == cOp.kind # "none" /\ cOp.outcome = "none"

\* Nothing changes under an operation of a quiet instance.
MayChange == Quiet => ~ Trying

\* A range change is committed on group 0.
ChangeLayout ==
    /\ MayChange /\ newest < Len(Layouts)
    /\ newest' = newest + 1
    /\ UNCHANGED <<cOp, epochAt, hostedAt, leaderOf, elections, cAddr, cCache, ops>>

\* A server applies it: first the table, then the groups.
LearnLayout(n) ==
    /\ MayChange /\ epochAt[n] < newest
    /\ epochAt' = [epochAt EXCEPT ![n] = @ + 1]
    /\ UNCHANGED <<cOp, newest, hostedAt, leaderOf, elections, cAddr, cCache, ops>>

HostGroups(n) ==
    /\ MayChange /\ hostedAt[n] < epochAt[n]
    /\ hostedAt' = [hostedAt EXCEPT ![n] = epochAt[n]]
    /\ UNCHANGED <<cOp, newest, epochAt, leaderOf, elections, cAddr, cCache, ops>>

Elect(g, n) ==
    /\ MayChange /\ elections < MaxElections
    /\ leaderOf[g] # n
    /\ elections' = elections + 1
    /\ leaderOf' = [leaderOf EXCEPT ![g] = n]
    /\ UNCHANGED <<cOp, newest, epochAt, hostedAt, cAddr, cCache, ops>>

TableAt(n) == Layouts[epochAt[n]]

\* group_not_hosted.
Hosts(n, g) == g \in GroupIds(Layouts[hostedAt[n]]) \cup {GroupZero}

Answer(status, epoch, ranges, hint) ==
    [status |-> status, metaEpoch |-> epoch, ranges |-> ranges, hint |-> hint]

\* dispatch: LIST_RANGES is answered by anybody; a data operation first compares the
\* client's epoch, then routes by the server's own table.  The hint of NOT_LEADER is
\* the leader of group 0 (get_leader_hint).
Serve(n, op) ==
    LET t == TableAt(n)
        g == LookupGroup(t, op.key)
    IN  IF op.kind = "list" THEN Answer("ok", t.metaEpoch, t.ranges, n)
        ELSE IF op.wire # 0 /\ op.wire < t.metaEpoch THEN Answer("moved", t.metaEpoch, t.ranges, n)
        ELSE IF ~ Hosts(n, g) THEN Answer("moved", t.metaEpoch, LookupRange(t, op.key), n)
        ELSE IF leaderOf[g] # n THEN Answer("not_leader", 0, {}, leaderOf[GroupZero])
        ELSE Answer("ok", 0, {}, n)

-----------------------------------------------------------------------------
(* The client: send_with_retry, one action per arm of its match. *)

\* wire_payload is built once, before the loop.
Start(kind, k) ==
    /\ cOp.kind = "none" /\ ops < MaxOps
    /\ Quiet => \A n \in CNode : hostedAt[n] = newest
    /\ ops' = ops + 1
    /\ cOp' = [Idle EXCEPT !.kind = kind, !.key = k,
                           !.wire = IF kind = "data" THEN cCache.metaEpoch ELSE 0]
    /\ UNCHANGED <<newest, epochAt, hostedAt, leaderOf, elections, cAddr, cCache>>

Finish(outcome) == cOp' = [cOp EXCEPT !.outcome = outcome]

\* Mutant of OnNotLeader: the budget starts anew when it is used up.
OnNotLeaderAnew ==
    /\ Trying /\ Serve(cAddr, cOp).status = "not_leader"
    /\ cAddr' = Serve(cAddr, cOp).hint
    /\ cOp' = [cOp EXCEPT !.redirects = IF @ < MaxRedirects THEN @ + 1 ELSE 0]
    /\ UNCHANGED <<newest, epochAt, hostedAt, leaderOf, elections, cCache, ops>>

\* A redirect has a budget of its own; an address that comes with it is kept, and
\* without one the same server is asked again.
OnNotLeader ==
    /\ Trying /\ Serve(cAddr, cOp).status = "not_leader"
    /\ IF cOp.redirects >= MaxRedirects
       THEN Finish("not_leader") /\ UNCHANGED cAddr
       ELSE /\ cAddr' \in {Serve(cAddr, cOp).hint, cAddr}
            /\ cOp' = [cOp EXCEPT !.redirects = @ + 1]
    /\ UNCHANGED <<newest, epochAt, hostedAt, leaderOf, elections, cCache, ops>>

\* apply_range_moved_body.
Refreshed(a) ==
    IF cCache = NoCache THEN [metaEpoch |-> a.metaEpoch, ranges |-> a.ranges]
    ELSE ApplyDescriptors(cCache, a.metaEpoch, a.ranges)

\* The cache is refreshed and the same bytes are sent again.
OnRangeMoved ==
    /\ Trying /\ Serve(cAddr, cOp).status = "moved"
    /\ cCache' = Refreshed(Serve(cAddr, cOp))
    /\ IF cOp.moved >= MaxRedirects THEN Finish("moved") ELSE cOp' = [cOp EXCEPT !.moved = @ + 1]
    /\ UNCHANGED <<newest, epochAt, hostedAt, leaderOf, elections, cAddr, ops>>

\* list_ranges replaces the whole cache.
OnAnswer ==
    /\ Trying /\ Serve(cAddr, cOp).status = "ok"
    /\ cCache' = IF cOp.kind = "list"
                 THEN [metaEpoch |-> Serve(cAddr, cOp).metaEpoch, ranges |-> Serve(cAddr, cOp).ranges]
                 ELSE cCache
    /\ Finish("ok")
    /\ UNCHANGED <<newest, epochAt, hostedAt, leaderOf, elections, cAddr, ops>>

\* A transport error or the timeout of an attempt, with the budget of RetryPolicy.
OnFailure ==
    /\ Trying /\ ~ Quiet
    /\ cOp' = [cOp EXCEPT !.attempts = @ + 1,
                          !.outcome = IF cOp.attempts + 1 >= MaxAttempts THEN "failed" ELSE @]
    /\ UNCHANGED <<newest, epochAt, hostedAt, leaderOf, elections, cAddr, cCache, ops>>

\* The caller has its answer.
Return ==
    /\ cOp.kind # "none" /\ ~ Trying
    /\ cOp' = Idle
    /\ UNCHANGED <<newest, epochAt, hostedAt, leaderOf, elections, cAddr, cCache, ops>>

ClientStep == OnNotLeader \/ OnRangeMoved \/ OnAnswer \/ OnFailure

ClientNext ==
    \/ ChangeLayout
    \/ \E n \in CNode : LearnLayout(n) \/ HostGroups(n)
    \/ \E g \in AllGroups, n \in CNode : Elect(g, n)
    \/ \E k \in DataKeys : Start("data", k)
    \/ Start("list", EmptyKey)
    \/ OnNotLeader \/ OnRangeMoved \/ OnAnswer \/ OnFailure
    \/ Return

\* An attempt ends: with an answer, an error or its timeout.
ClientSpec == ClientInit /\ [][ClientNext]_clientVars /\ WF_clientVars(ClientStep)

-----------------------------------------------------------------------------
(* Properties. *)

\* However answers of current and of lagging servers follow each other, the cached
\* ranges never overlap, so a key has at most one cached group (apply_descriptors).
CacheIsDisjoint ==
    \A a, b \in cCache.ranges : a # b => ~ RangesOverlap(a, b)

\* Every operation returns, whatever redirects, refreshes and failures it meets: the
\* three budgets of send_with_retry bound the loop.
OpsReturn == Trying ~> ~ Trying

\* docs/runbooks/move-range.md: "Clients with a stale cache get RANGE_MOVED (11) plus a
\* full table and retry - a move is visible to clients as a brief refresh, not an
\* error".  In a quiet cluster no operation ends with RANGE_MOVED.
RefreshIsNotAnError == Quiet => cOp.outcome # "moved"

\* In a quiet cluster every operation finds the leader of the group that its key belongs
\* to (get_leader_hint).
RedirectFindsLeader == Quiet => cOp.outcome # "not_leader"
=============================================================================
