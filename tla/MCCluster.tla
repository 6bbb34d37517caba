----------------------------- MODULE MCCluster ------------------------------
(***************************************************************************)
(* The nodes of a cluster, on small instances: Raft with its files, and by *)
(* themselves changes of the membership and the clock a node keeps in step *)
(* with the others.  A behaviour stays in the scene its first state picks; *)
(* the components of the other scenes keep their initial states.           *)
(***************************************************************************)
EXTENDS RaftPersistence, TLC

CONSTANT n4

CONSTANTS BootVoters, Joiners, Plans
VARIABLES peerState, leaderships, everCommitted, changes, mRestarts, plan
mVars == <<peerState, leaderships, everCommitted, changes, mRestarts, plan>>
Membership == INSTANCE RaftMembership

CONSTANTS LogicalMax, MaxOffset, RemoteLogicals, MaxWall, MaxSamples, MaxCommits
VARIABLES wall, setBack, hlc, nextSequence, commits, samples
clockVars == <<wall, setBack, hlc, nextSequence, commits, samples>>
Clock == INSTANCE HlcClock

CONSTANT Scenes     \* "persistence", "membership", "clock"
VARIABLE scene

-----------------------------------------------------------------------------
Pick(s, S) == IF scene = s THEN S ELSE {CHOOSE x \in S : TRUE}

ClusterInit ==
    /\ scene \in Scenes
    /\ PInit
    /\ Membership!MInit /\ plan \in Pick("membership", Plans)
    /\ Clock!ClockInit

\* All but the first scene end at their bounds.
SceneEnds == scene # "persistence" /\ UNCHANGED <<pvars, mVars, clockVars>>

ClusterNext ==
    /\ UNCHANGED scene
    /\ \/ scene = "persistence" /\ PNext /\ UNCHANGED <<mVars, clockVars>>
       \/ scene = "membership" /\ Membership!MNext /\ UNCHANGED <<pvars, clockVars>>
       \/ scene = "clock" /\ Clock!ClockNext /\ UNCHANGED <<pvars, mVars>>
       \/ SceneEnds

ClusterSpec == ClusterInit /\ [][ClusterNext]_<<scene, pvars, mVars, clockVars>>

-----------------------------------------------------------------------------
(* Values for the constants.                                               *)

Symmetry == Permutations(Server)
NewNodes == {n4}

Plan(ops, terms, ch, restarts, campaign) ==
    [ops |-> ops, terms |-> terms, changes |-> ch, restarts |-> restarts, joinersCampaign |-> campaign]

AllChangeOps == {"AddVoter", "AddLearner", "RemoveVoter", "RemoveLearner", "Promote"}

\* A learner comes and goes over an election; every kind of change in one term; restarts.
SafePlans == {Plan({"AddLearner", "RemoveLearner"}, 2, 1, 0, FALSE),
              Plan(AllChangeOps, 1, 2, 0, FALSE),
              Plan({}, 2, 0, 2, FALSE)}

\* A voter is added over an election; a node restarts after a change; a node that is about
\* to join stands for election.
VoterPlans == {Plan({"AddVoter"}, 2, 1, 0, FALSE)}
RestartPlans == {Plan({"AddLearner"}, 1, 1, 1, FALSE)}
JoinPlans == {Plan({"AddLearner"}, 2, 1, 0, TRUE)}

-----------------------------------------------------------------------------
(* The properties of the components beside Raft's files, each in its scene. *)



\* Unless the wall clock is set back, a write is not visible before the wall clock has
\* reached its timestamp (checked_update, prepare_hlc_write_sequence).
CommitWaitsForClock == scene = "clock" => Clock!CommitWaitsForClock
=============================================================================
