---------------------------- MODULE ChaosRunner ----------------------------
(***************************************************************************)
(* The fault schedule of the Jepsen-style harness: a nemesis task queues   *)
(* commands, the runner takes them from the queue one at a time until its  *)
(* deadline and applies them to the cluster controller, and the cluster is *)
(* verified afterwards.  A command is a record with the field do; "node"   *)
(* is the node it names.  Sleep takes time only, and so do the clock skew  *)
(* and the disk latency, which are sleeps of the harness.                  *)
(***************************************************************************)
EXTENDS Naturals, Sequences, FiniteSets, FiniteSetsExt

CONSTANTS
    ScenarioIds,   \* the scenarios a behaviour may run, by id
    MaxCycles,     \* bound: intervals at which the nemesis fires
    LeaderMoves    \* whether leadership moves while the leader is reachable

VARIABLES
    scenario,     \* the scenario of this behaviour
    phase,        \* "start", "run", "settle", "done", or "error" for an Err
    cycles,       \* intervals so far
    queue,        \* cmd_tx and cmd_rx
    nodes,        \* per node: up (a task runs), cut (network_partitioned), rules
    leads,        \* the node that answers "leader" when it is asked
    lastKilled,   \* last_killed, as a set of at most one node
    tracker       \* the counters of PartitionTracker

chaosVars == <<scenario, phase, cycles, queue, nodes, leads, lastKilled, tracker>>

-----------------------------------------------------------------------------
(* The registry: what the nemesis does each interval, and the topology.    *)

Kill(n) == [do |-> "KillNodeById", node |-> n]

AnyKill == [do |-> "KillNode"]

AnyPartition == [do |-> "Partition"]

Smoke == [id |-> "smoke", nemesis |-> <<AnyKill>>, joins |-> FALSE]

T1 == [id |-> "t1", nemesis |-> <<AnyKill>>, joins |-> FALSE]

T2 == [id |-> "t2", nemesis |-> <<[do |-> "PartitionById", node |-> 3]>>, joins |-> FALSE]

T3 == [id |-> "t3", nemesis |-> <<AnyKill>>, joins |-> FALSE]

T4 == [id |-> "t4", nemesis |-> <<Kill(1), Kill(2), Kill(3)>>, joins |-> FALSE]

T5 == [id |-> "t5", nemesis |-> <<AnyKill, AnyPartition>>, joins |-> FALSE]

T6 == [id |-> "t6", nemesis |-> <<[do |-> "AddMember", node |-> 4], AnyKill>>, joins |-> TRUE]

T7 == [id |-> "t7", nemesis |-> <<[do |-> "KillFollower"]>>, joins |-> FALSE]

Rich ==
    [id |-> "rich", nemesis |-> <<[do |-> "ClockSkew"], [do |-> "DiskLatency"]>>, joins |-> FALSE]

BankScenario == [id |-> "bank", nemesis |-> <<AnyKill, AnyPartition>>, joins |-> FALSE]

MultiRangeBank ==
    [id |-> "bank-mr", joins |-> FALSE,
     nemesis |-> <<[do |-> "SplitRange"], [do |-> "MergeRange"], AnyKill, AnyPartition>>]

MultiRangeBankMove ==
    [id |-> "bank-mr-move", joins |-> FALSE,
     nemesis |-> <<[do |-> "MoveRange"], AnyKill, [do |-> "MoveRange"]>>]

Registry == {Smoke, Rich, T1, T2, T3, T4, T5, T6, T7, BankScenario, MultiRangeBank,
             MultiRangeBankMove}

Scenarios == {s \in Registry : s.id \in ScenarioIds}

-----------------------------------------------------------------------------
(* The nemesis task.                                                       *)

Cmd(what, n) == [do |-> what, node |-> n]

Sleep == [do |-> "Sleep"]

KillCycle(n) == <<Cmd("KillNode", n), Sleep, Cmd("RestartNode", n)>>

PartitionNoHeal(n) == <<Cmd("PartitionNode", n), Sleep>>

PartitionCycle(n) == <<Cmd("PartitionNode", n), Sleep, Cmd("HealPartition", n)>>

\* What emit_controller_action_one sends for one nemesis type; pick is the random node.
EmitOne(type, pick) ==
    CASE type.do = "KillNode"      -> KillCycle(pick)
      [] type.do = "KillNodeById"  -> KillCycle(type.node)
      [] type.do = "KillFollower"  -> <<[do |-> "KillFollower"], Sleep, [do |-> "RestartFollower"]>>
      [] type.do = "Partition"     -> PartitionCycle(pick)
      [] type.do = "PartitionById" -> PartitionCycle(type.node)
      [] type.do = "DiskLatency"   -> <<[do |-> "InjectDiskLatency"], Sleep,
                                        [do |-> "ClearDiskLatency"]>>
      [] type.do = "AddMember"     -> <<Cmd("AddMember", type.node)>>
      [] type.do \in {"ClockSkew", "SplitRange", "MergeRange", "MoveRange"} -> <<[do |-> type.do]>>

RandomNodes == 1..3

IsRandom(type) == type.do \in {"KillNode", "Partition"}

\* emit_controller_actions sends a composite's types one after the other, at once: the
\* sleeps are served by the runner, so the next interval may find the queue unserved.
Emit(types, picks) ==
    LET sent[i \in 0..Len(types)] ==
          IF i = 0 THEN << >> ELSE sent[i - 1] \o EmitOne(types[i], picks[i])
    IN  sent[Len(types)]

Picks(types) ==
    {p \in [DOMAIN types -> RandomNodes] : \A i \in DOMAIN types : IsRandom(types[i]) \/ p[i] = 1}

NemesisFires ==
    /\ phase = "run"
    /\ cycles < MaxCycles
    /\ cycles' = cycles + 1
    /\ \E picks \in Picks(scenario.nemesis) : queue' = queue \o Emit(scenario.nemesis, picks)
    /\ UNCHANGED <<scenario, phase, nodes, leads, lastKilled, tracker>>

-----------------------------------------------------------------------------
(* The cluster controller.                                                 *)

Managed == DOMAIN nodes

Fresh == [up |-> TRUE, cut |-> FALSE, rules |-> 0]

SpawnThreeNode == [n \in 1..3 |-> Fresh]

SpawnJoinNode(c) == [n \in DOMAIN c \union {4} |-> IF n = 4 THEN Fresh ELSE c[n]]

Reachable(n) == nodes[n].up /\ ~nodes[n].cut /\ nodes[n].rules = 0

\* The nodes wait_for_leader may return; it may also time out.
Leaders == {n \in Managed \ {4} : Reachable(n) /\ (LeaderMoves \/ n = leads \/ ~Reachable(leads))}

FollowerId(l) == Min(Managed \ {l})

KillNode(n) ==
    /\ nodes' = [nodes EXCEPT ![n].up = FALSE]
    /\ lastKilled' = {n}

\* The old task is aborted, the flag cleared and a new task spawned; the firewall rules
\* of the node are not touched.
RestartNode(n) ==
    /\ nodes' = [nodes EXCEPT ![n].up = TRUE, ![n].cut = FALSE]
    /\ UNCHANGED lastKilled

\* One DROP rule for the client port and one for the Raft port; the flag is set when
\* both are in.
ApplyOsPartition(n, inserted) ==
    nodes' = [nodes EXCEPT ![n].rules = @ + inserted, ![n].cut = @ \/ inserted = 2]

Tracked(inserted) ==
    [tracker EXCEPT !.attempted = @ + 1,
                    !.applied = IF inserted = 2 THEN @ + 1 ELSE @,
                    !.failed  = IF inserted = 2 THEN @ ELSE @ + 1]

PartitionNode(n) ==
    \E inserted \in 0..2 : ApplyOsPartition(n, inserted) /\ tracker' = Tracked(inserted)

\* Both rules are deleted by port and whatever is left by its comment.
HealOsPartition(n) == nodes' = [nodes EXCEPT ![n].rules = 0, ![n].cut = FALSE]

-----------------------------------------------------------------------------
(* The runner.                                                             *)

ChaosInit ==
    /\ scenario \in Scenarios
    /\ phase = "start"
    /\ cycles = 0
    /\ queue = << >>
    /\ nodes = SpawnThreeNode
    /\ leads \in 1..3
    /\ lastKilled = {}
    /\ tracker = [attempted |-> 0, applied |-> 0, failed |-> 0]

\* run_scenario up to its loop: the join node is spawned, and t7 stops a follower before
\* its burst of writes.
StartScenario ==
    /\ phase = "start"
    /\ phase' = "run"
    /\ IF scenario.id = "t7" THEN KillNode(FollowerId(leads))
       ELSE /\ nodes' = IF scenario.joins THEN SpawnJoinNode(nodes) ELSE nodes
            /\ UNCHANGED lastKilled
    /\ UNCHANGED <<scenario, cycles, queue, leads, tracker>>

Fails == phase' = "error"

Carries == phase' = phase

\* wait_for_leader, for an action that is given up when there is none.
WithLeader(l) == l \in Leaders /\ leads' = l

NoLeader == UNCHANGED leads

\* add_member is repeated along redirects; an answer other than success, or no leader,
\* ends the scenario.
AddMember(a) ==
    /\ a.node \in Managed
    /\ \/ NoLeader /\ Fails
       \/ \E l \in Leaders : WithLeader(l) /\ (Carries \/ Fails)
    /\ UNCHANGED <<nodes, lastKilled, tracker>>

\* Splits, merges and moves of a range are reported and otherwise ignored when they fail.
RangeEdit ==
    /\ NoLeader \/ \E l \in Leaders : WithLeader(l)
    /\ Carries
    /\ UNCHANGED <<nodes, lastKilled, tracker>>

KillFollower ==
    \/ NoLeader /\ Fails /\ UNCHANGED <<nodes, lastKilled, tracker>>
    \/ \E l \in Leaders :
          WithLeader(l) /\ KillNode(FollowerId(l)) /\ Carries /\ UNCHANGED tracker

RestartLastKilled ==
    IF lastKilled = {} THEN Fails /\ UNCHANGED <<nodes, lastKilled>>
    ELSE Carries /\ \E n \in lastKilled : RestartNode(n)

\* apply_nemesis_action.
ApplyAction(a) ==
    \/ /\ a.do = "KillNode"
       /\ KillNode(a.node) /\ Carries /\ UNCHANGED <<leads, tracker>>
    \/ /\ a.do = "RestartNode"
       /\ RestartNode(a.node) /\ Carries /\ UNCHANGED <<leads, tracker>>
    \/ /\ a.do = "PartitionNode"
       /\ PartitionNode(a.node) /\ Carries /\ UNCHANGED <<leads, lastKilled>>
    \/ /\ a.do = "HealPartition"
       /\ HealOsPartition(a.node) /\ Carries /\ UNCHANGED <<leads, lastKilled, tracker>>
    \/ a.do = "AddMember" /\ AddMember(a)
    \/ a.do \in {"SplitRange", "MergeRange", "MoveRange"} /\ RangeEdit
    \/ a.do = "KillFollower" /\ KillFollower
    \/ a.do = "RestartFollower" /\ RestartLastKilled /\ UNCHANGED <<leads, tracker>>
    \/ /\ a.do \in {"Sleep", "ClockSkew", "InjectDiskLatency", "ClearDiskLatency"}
       /\ Carries /\ UNCHANGED <<nodes, leads, lastKilled, tracker>>

TakeAction ==
    /\ phase = "run"
    /\ queue # << >>
    /\ queue' = Tail(queue)
    /\ ApplyAction(Head(queue))
    /\ UNCHANGED <<scenario, cycles>>

\* A heal whose last deletion fails leaves some rules and the flag; the runner goes on.
HealPartitionFails ==
    /\ phase = "run"
    /\ queue # << >>
    /\ Head(queue).do = "HealPartition"
    /\ queue' = Tail(queue)
    /\ LET n == Head(queue).node
       IN  \E left \in 0..nodes[n].rules : nodes' = [nodes EXCEPT ![n].rules = left]
    /\ UNCHANGED <<scenario, phase, cycles, leads, lastKilled, tracker>>

\* The loop looks at the clock between two actions; what is still queued is dropped.
Deadline ==
    /\ phase = "run"
    /\ phase' = "settle"
    /\ UNCHANGED <<scenario, cycles, queue, nodes, leads, lastKilled, tracker>>

\* t7 starts the follower it stopped and reads from every node; the others go on to
\* verification whatever state the nodes are in.
Settle ==
    /\ phase = "settle"
    /\ IF scenario.id = "t7"
       THEN /\ \E n \in lastKilled : RestartNode(n)
            /\ phase' = IF \A n \in Managed : nodes'[n].up /\ nodes'[n].rules = 0
                        THEN "done" ELSE "error"
       ELSE phase' = "done" /\ UNCHANGED <<nodes, lastKilled>>
    /\ UNCHANGED <<scenario, cycles, queue, leads, tracker>>

ChaosNext == StartScenario \/ NemesisFires \/ TakeAction \/ Deadline \/ Settle

ChaosSpec == ChaosInit /\ [][ChaosNext]_chaosVars

\* The same with firewall rules that resist their removal.
ChaosSpecHealsFail == ChaosInit /\ [][ChaosNext \/ HealPartitionFails]_chaosVars

-----------------------------------------------------------------------------
(* Properties.                                                             *)

Queued(a) == \E i \in DOMAIN queue : queue[i] = a

RestartIsDue(n) ==
    n \in lastKilled /\ (Queued([do |-> "RestartFollower"]) \/ scenario.id = "t7")

Faulty == {n \in Managed : ~nodes[n].up \/ nodes[n].cut \/ nodes[n].rules > 0}

\* Every scenario of the registry keeps a majority of its nodes in service: whatever the
\* nemesis draws, however long the queue of commands grows behind the sleeps, and however
\* a partition fails halfway, no second node is killed or cut off before the first is back
\* (emit_controller_action_one and apply_nemesis_action).
OneVictimAtATime == Cardinality(Faulty) <= 1

\* While the runner takes commands, a fault in force has its undo ahead of it: the restart
\* of the node, or of the node last killed, or the removal of its firewall rules.
UndoIsQueued ==
    phase = "run" =>
        /\ \A n \in Managed :
              ~nodes[n].up => Queued(Cmd("RestartNode", n)) \/ RestartIsDue(n)
        /\ \A n \in Managed :
              (nodes[n].cut \/ nodes[n].rules > 0) => Queued(Cmd("HealPartition", n))

\* The verification reads from a cluster whose faults are undone: "After heal, node 3
\* catches up" (docs/jepsen-design.md:217).
VerifiedWhole == phase = "done" => Faulty = {}

=============================================================================
