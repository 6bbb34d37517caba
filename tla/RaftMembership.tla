--------------------------- MODULE RaftMembership ---------------------------
(* Membership changes of one Raft group (kaya-raft cluster_config.rs and the
   membership parts of node.rs; kaya-server membership.rs and the three
   membership handlers of client_ops.rs).

   RaftNode models elections and replication message by message for a fixed
   group.  Here an election and an append with its answer are one step each, and
   what is kept in full is the configuration: it takes effect when its entry is
   APPLIED, a change is a Joint entry followed by a Final entry that only the
   proposing leader knows to append, and the quorums are counted the way
   cluster_config.rs counts them. *)
EXTENDS Integers, Sequences, FiniteSets

CONSTANTS
  BootVoters,     \* the nodes on every command line (--peer)
  Joiners,        \* nodes started later with --join-cluster
  Plans           \* what a behaviour may hold, one plan each: the client
                  \* operations used, bounds on terms, changes and restarts, and
                  \* whether a joiner's election timer may fire before it has
                  \* applied a configuration

Member == BootVoters \cup Joiners

VARIABLES
  peerState,    \* [Member -> the RaftNode fields a membership change involves]
  leaderships,  \* every <<term, node>> that ever was a leadership (history)
  everCommitted, \* <<index, entry, term>>: committed by the leader of term (history)
  changes, mRestarts,
  plan

mVars == <<peerState, leaderships, everCommitted, changes, mRestarts, plan>>

Nobody == "nobody"
NoMembers == [voters |-> {}, learners |-> {}]

----------------------------------------------------------------------------
(* cluster_config.rs *)

\* Half of the voters, rounded up.
Quorum(V) == (Cardinality(V) + 1) \div 2

Stable(V) == [outgoing |-> {}, incoming |-> V]
IsJoint(cfg) == cfg.outgoing # {}
AllVoters(cfg) == cfg.outgoing \cup cfg.incoming


CommitQuorumMet(cfg, S) ==
  /\ Cardinality(cfg.incoming \cap S) >= Quorum(cfg.incoming)
  /\ IsJoint(cfg) => Cardinality(cfg.outgoing \cap S) >= Quorum(cfg.outgoing)

\* While joint: half of the larger side, whoever the votes come from.
ElectionQuorum(cfg) ==
  IF Cardinality(cfg.outgoing) > Cardinality(cfg.incoming)
  THEN Quorum(cfg.outgoing) ELSE Quorum(cfg.incoming)

----------------------------------------------------------------------------
(* node.rs *)

MemberIds(m) == m.voters \cup m.learners

IsSelfLearner(n, i) ==
  IF i \in MemberIds(n.pending) THEN i \in n.pending.learners
                                ELSE i \in n.members.learners

IsSelfVoter(n, i) == i \in AllVoters(n.cfg)

Peers(n, i) == n.cfg.incoming \ {i}

Seeded(match, ids) ==
  [j \in DOMAIN match \cup ids |-> IF j \in DOMAIN match THEN match[j] ELSE 0]

AppendOwn(n, i, kind, members) ==
  LET log == Append(n.log, [term |-> n.term, kind |-> kind, members |-> members])
  IN  [n EXCEPT !.log = log, !.match = [Seeded(@, {i}) EXCEPT ![i] = Len(log)]]

\* try_advance_commit: the last entry of this term that a quorum matches.
TryAdvanceCommit(n) ==
  LET Has(k) == {j \in DOMAIN n.match : n.match[j] >= k}
      met == {k \in n.commit + 1 .. Len(n.log) :
                 n.log[k].term = n.term /\ CommitQuorumMet(n.cfg, Has(k))}
  IN  IF n.role # "Leader" \/ met = {} THEN n
      ELSE [n EXCEPT !.commit = CHOOSE k \in met : \A l \in met : l <= k]

AppendFinal(n, i) ==
  IF n.role = "Leader" /\ n.pending # NoMembers
  THEN TryAdvanceCommit([AppendOwn(n, i, "Final", n.pending) EXCEPT !.pending = NoMembers])
  ELSE n

\* The first half of apply_config_command: what the entry makes of the configuration.
JointApplied(n, members) ==
  [n EXCEPT !.cfg = [outgoing |-> n.cfg.incoming, incoming |-> members.voters],
            !.members = members]

FinalApplied(n, members) ==
  [n EXCEPT !.cfg = Stable(members.voters), !.members = members, !.pending = NoMembers]

StepDownKeepingVote(n, i) ==
  IF IsSelfVoter(n, i) THEN n ELSE [n EXCEPT !.role = "Follower"]

\* apply_config_change_to_roster: a Joint entry adds addresses, a Final one
\* keeps only its members'; the file is rewritten.
RosterApplied(n, i, entry) ==
  LET ids == MemberIds(entry.members) \cup {i}
      ros == IF entry.kind = "Final" THEN ids ELSE n.roster \cup ids
  IN  [n EXCEPT !.roster = ros, !.rosterFile = ros]

ApplyConfigCommand(n, i, entry) ==
  LET seed(m) == [m EXCEPT !.match = Seeded(@, MemberIds(entry.members) \ {i})]
      done == IF entry.kind = "Joint"
              THEN AppendFinal(seed(JointApplied(n, entry.members)), i)
              ELSE seed(FinalApplied(n, entry.members))
  IN  IF entry.kind = "Noop" THEN n
      ELSE RosterApplied(StepDownKeepingVote(done, i), i, entry)

RECURSIVE TryAdvanceApply(_, _)
TryAdvanceApply(n, i) ==
  IF n.applied >= n.commit THEN n
  ELSE TryAdvanceApply(ApplyConfigCommand([n EXCEPT !.applied = @ + 1], i,
                                          n.log[n.applied + 1]), i)

Settle(n, i) == TryAdvanceApply(TryAdvanceCommit(n), i)

StepDown(n, term) == [n EXCEPT !.term = term, !.votedFor = Nobody, !.role = "Follower"]

Observe(n, term) == IF term > n.term THEN StepDown(n, term) ELSE n

LastTerm(log) == IF log = << >> THEN 0 ELSE log[Len(log)].term

----------------------------------------------------------------------------
(* Elections *)

\* A started campaign of node i: the next term, its own vote.
Campaigning(n, i) == [n EXCEPT !.term = @ + 1, !.votedFor = i, !.role = "Candidate"]

MayCampaign(n, i) ==
  /\ n.role # "Leader"
  /\ ~IsSelfLearner(n, i) /\ IsSelfVoter(n, i)
  /\ i \in Joiners =>
       plan.joinersCampaign \/ \E k \in 1 .. n.applied : n.log[k].kind # "Noop"


\* on_vote_request at v for candidate c; the answer counts only if granted.
Grants(v, id, c, cid) ==
  LET o == Observe(v, c.term)
  IN  /\ ~IsSelfLearner(o, id)
      /\ c.term >= o.term
      /\ o.votedFor \in {Nobody, cid}
      /\ \/ LastTerm(c.log) > LastTerm(o.log)
         \/ LastTerm(c.log) = LastTerm(o.log) /\ Len(c.log) >= Len(o.log)

Granted(v, c, cid) == [Observe(v, c.term) EXCEPT !.votedFor = cid]

\* become_leader: the match indexes of the peers start again, those of the
\* learners are kept; then the no-op.
BecomeLeader(n, i) ==
  LET reset == [j \in DOMAIN n.match \cup Peers(n, i) |->
                  IF j \in Peers(n, i) THEN 0 ELSE n.match[j]]
  IN  Settle(AppendOwn([n EXCEPT !.role = "Leader", !.match = reset],
                       i, "Noop", NoMembers), i)

NewCommits(old, new) == {<<k, new.log[k], new.term>> : k \in old.commit + 1 .. new.commit}

Elect(i, Q) ==
  LET c == Campaigning(peerState[i], i)
      won == BecomeLeader(c, i)
  IN  /\ MayCampaign(peerState[i], i)
      /\ c.term <= plan.terms
      /\ Q \subseteq Peers(c, i) \cap c.roster
      /\ \A v \in Q : i \in peerState[v].roster /\ Grants(peerState[v], v, c, i)
      /\ Cardinality(Q) + 1 >= ElectionQuorum(c.cfg)
      /\ peerState' = [v \in Member |-> IF v = i THEN won
                                        ELSE IF v \in Q THEN Granted(peerState[v], c, i)
                                        ELSE peerState[v]]
      /\ leaderships' = leaderships \cup {<<c.term, i>>}
      /\ everCommitted' = everCommitted \cup NewCommits(c, won)
      /\ UNCHANGED <<changes, mRestarts, plan>>

----------------------------------------------------------------------------
(* Replication *)

IsPrefixOf(a, b) == Len(a) <= Len(b) /\ SubSeq(b, 1, Len(a)) = a

\* on_append_request once the back-off has found the common prefix.
Received(f, i, l) ==
  LET o == [Observe(f, l.term) EXCEPT !.role = "Follower"]
      log == IF IsPrefixOf(l.log, o.log) THEN o.log ELSE l.log
      upTo == IF l.commit > Len(log) THEN Len(log) ELSE l.commit
  IN  Settle([o EXCEPT !.log = log, !.commit = IF upTo > @ THEN upTo ELSE @], i)

Acked(l, i, j, matchIndex) ==
  Settle([l EXCEPT !.match = [Seeded(@, {j}) EXCEPT ![j] = IF matchIndex > @ THEN matchIndex ELSE @]], i)

\* send_append_to_all: the peers and everyone with replication state; an
\* envelope to a node without an address is dropped, an answer likewise.
AppendTargets(n, l) == ((Peers(n, l) \cup DOMAIN n.match) \cap n.roster) \ {l}

Replicate(l, f, acked) ==
  LET n == peerState[l]
      g == Received(peerState[f], f, n)
      m == IF acked THEN Acked(n, l, f, Len(g.log)) ELSE n
  IN  /\ n.role = "Leader"
      /\ f \in AppendTargets(n, l)
      /\ peerState[f].term <= n.term
      /\ acked => l \in g.roster
      /\ peerState' = [peerState EXCEPT ![f] = g, ![l] = m]
      /\ everCommitted' = everCommitted \cup NewCommits(n, m)
      /\ UNCHANGED <<leaderships, changes, mRestarts, plan>>

\* An append to a node of a later term: the answer makes the sender step down.
Deposed(l, f) ==
  LET n == peerState[l]
  IN  /\ n.role = "Leader"
      /\ f \in AppendTargets(n, l) /\ l \in peerState[f].roster
      /\ peerState[f].term > n.term
      /\ peerState' = [peerState EXCEPT ![l] = StepDown(n, peerState[f].term)]
      /\ UNCHANGED <<leaderships, everCommitted, changes, mRestarts, plan>>

----------------------------------------------------------------------------
(* The client operations ADD_MEMBER, REMOVE_MEMBER, PROMOTE_LEARNER *)

MembersForAdd(n, x, learner) ==
  IF x \in MemberIds(n.members) \cup n.cfg.incoming THEN {}
  ELSE {IF learner THEN [n.members EXCEPT !.learners = @ \cup {x}]
                   ELSE [n.members EXCEPT !.voters = @ \cup {x}]}

Without(members, x) ==
  [voters |-> members.voters \ {x}, learners |-> members.learners \ {x}]

\* members_for_remove: never oneself, and a voter only while two would remain.
MembersForRemove(n, self, x, learner) ==
  LET rest == Without(n.members, x)
      voterMayGo == /\ Cardinality(n.cfg.incoming) > 2 /\ x \in n.cfg.incoming
                    /\ Cardinality(rest.voters) >= 2
  IN  IF x # self /\ learner = (x \in n.members.learners) /\ (learner \/ voterMayGo)
      THEN {rest} ELSE {}

MembersForPromote(n, x) ==
  IF x \in n.members.learners
  THEN {[Without(n.members, x) EXCEPT !.voters = @ \cup {x}]} ELSE {}

\* propose_membership_change: the Joint entry, and the Final one kept in memory.
ProposeMembershipChange(n, i, members) ==
  LET all == [members EXCEPT !.voters = IF i \in MemberIds(members) THEN @ ELSE @ \cup {i}]
      joint == AppendOwn([n EXCEPT !.pending = all], i, "Joint", all)
  IN  Settle([joint EXCEPT !.match = Seeded(@, MemberIds(all) \ {i})], i)

Propose(l, n, options) ==
  /\ changes < plan.changes
  /\ n.role = "Leader"
  /\ ~IsJoint(n.cfg) /\ n.pending = NoMembers
  /\ \E members \in options :
       LET m == ProposeMembershipChange(n, l, members)
       IN  /\ peerState' = [peerState EXCEPT ![l] = m]
           /\ everCommitted' = everCommitted \cup NewCommits(n, m)
  /\ changes' = changes + 1
  /\ UNCHANGED <<leaderships, mRestarts, plan>>

\* ADD_MEMBER: the leader puts the address in its roster before it proposes.
AddMember(l, x) ==
  LET n == [peerState[l] EXCEPT !.roster = @ \cup {x}]
  IN  \/ "AddVoter" \in plan.ops /\ Propose(l, n, MembersForAdd(n, x, FALSE))
      \/ "AddLearner" \in plan.ops /\ Propose(l, n, MembersForAdd(n, x, TRUE))

\* The address stays in the roster when the proposal is refused.
AddRefused(l, x) ==
  LET n == peerState[l]
  IN  /\ plan.ops \cap {"AddVoter", "AddLearner"} # {}
      /\ n.role = "Leader" /\ (IsJoint(n.cfg) \/ n.pending # NoMembers)
      /\ x \notin n.roster
      /\ peerState' = [peerState EXCEPT ![l].roster = @ \cup {x}]
      /\ UNCHANGED <<leaderships, everCommitted, changes, mRestarts, plan>>

RemoveMember(l, x) ==
  LET n == peerState[l]
  IN  \/ "RemoveVoter" \in plan.ops /\ Propose(l, n, MembersForRemove(n, l, x, FALSE))
      \/ "RemoveLearner" \in plan.ops /\ Propose(l, n, MembersForRemove(n, l, x, TRUE))

PromoteLearner(l, x) ==
  "Promote" \in plan.ops /\ Propose(l, peerState[l], MembersForPromote(peerState[l], x))

----------------------------------------------------------------------------
(* Restart: RaftNode::recover with the peers of the command line.  Term, vote
   and log come back, and set_recovered_apply_floor skips what the apply-index
   file records as applied; the configuration is the one of the command line,
   the roster of addresses that and the file's. *)

\* members_from_voter_ids: everyone on the command line, and the node itself.
BootMembers(i) == [voters |-> BootVoters \cup {i}, learners |-> {}]

\* load_persisted_roster adds the file's addresses to the command line's, and
\* the result is written back.
RosterLoaded(i, file) == BootMembers(i).voters \cup file

Booted(i, term, vote, log, floor, file) ==
  [term |-> term, votedFor |-> vote, role |-> "Follower", log |-> log,
   commit |-> floor, applied |-> floor,
   cfg |-> Stable(BootMembers(i).voters), members |-> BootMembers(i),
   pending |-> NoMembers, match |-> << >>,
   roster |-> RosterLoaded(i, file), rosterFile |-> RosterLoaded(i, file)]

MRestart(i) ==
  LET n == peerState[i]
  IN  /\ mRestarts < plan.restarts
      /\ peerState' = [peerState EXCEPT ![i] = Booted(i, n.term, n.votedFor, n.log, n.applied, n.rosterFile)]
      /\ mRestarts' = mRestarts + 1
      /\ UNCHANGED <<leaderships, everCommitted, changes, plan>>

MInit ==
  /\ peerState = [i \in Member |-> Booted(i, 0, Nobody, << >>, 0, {})]
  /\ leaderships = {} /\ everCommitted = {} /\ changes = 0 /\ mRestarts = 0
  /\ plan \in Plans

MNext ==
  \/ \E i \in Member : \E Q \in SUBSET Member : Elect(i, Q)
  \/ \E l, f \in Member : \E acked \in BOOLEAN : Replicate(l, f, acked)
  \/ \E l, f \in Member : Deposed(l, f)
  \/ \E l, x \in Member : AddMember(l, x)
  \/ \E l, x \in Member : AddRefused(l, x)
  \/ \E l, x \in Member : RemoveMember(l, x)
  \/ \E l, x \in Member : PromoteLearner(l, x)
  \/ \E i \in Member : MRestart(i)

MembershipSpec == MInit /\ [][MNext]_mVars

----------------------------------------------------------------------------
MembersType == [voters : SUBSET Member, learners : SUBSET Member]

MembershipTypeOK ==
  /\ \A i \in Member : LET n == peerState[i] IN
       /\ n.term \in Nat /\ n.votedFor \in Member \cup {Nobody}
       /\ n.role \in {"Follower", "Candidate", "Leader"}
       /\ \A k \in 1 .. Len(n.log) : n.log[k] \in
            [term : 1 .. plan.terms, kind : {"Noop", "Joint", "Final"}, members : MembersType]
       /\ n.applied = n.commit /\ n.commit \in 0 .. Len(n.log)
       /\ n.cfg \in [outgoing : SUBSET Member, incoming : SUBSET Member \ {{}}]
       /\ n.members \in MembersType /\ n.pending \in MembersType
       /\ n.roster \subseteq Member /\ n.rosterFile \subseteq n.roster
       /\ DOMAIN n.match \subseteq Member
       /\ \A j \in DOMAIN n.match : n.match[j] \in Nat
  /\ changes \in 0 .. plan.changes /\ mRestarts \in 0 .. plan.restarts



AppliedLog(n) == SubSeq(n.log, 1, n.applied)

HasFinal(log) == \E k \in 1 .. Len(log) : log[k].kind = "Final"

(* The configuration is a function of what was applied: two nodes that applied
   the same entries hold the same voters, joint or not, and the same members, so
   they count the same quorums (apply_config_command).  A joiner starts from its
   own command line and is included once it applied a whole change. *)
ConfigFollowsLog ==
  \A i, j \in Member :
    LET a == peerState[i]  b == peerState[j]
    IN  AppliedLog(a) = AppliedLog(b)
        /\ (HasFinal(AppliedLog(a)) \/ {i, j} \subseteq BootVoters)
        => a.cfg = b.cfg /\ a.members = b.members

(* A Final entry ends the change its Joint entry began: it names the members of
   the last Joint entry before it (apply_config_command takes
   pending_membership, propose_membership_change sets it). *)
FinalClosesItsJoint ==
  \A i \in Member : \A k \in 1 .. Len(peerState[i].log) :
    LET log == peerState[i].log
        joints == {m \in 1 .. k - 1 : log[m].kind = "Joint"}
    IN  log[k].kind = "Final" =>
          \E m \in joints : (\A o \in joints : o <= m) /\ log[m].members = log[k].members

(* A leader in a joint configuration has the Final entry in its log, waiting to
   be committed: no change is left half done (apply_config_command appends it
   from pending_membership). *)
JointIsFinished ==
  \A i \in Member :
    LET n == peerState[i]
    IN  n.role = "Leader" /\ IsJoint(n.cfg)
          => \E k \in n.applied + 1 .. Len(n.log) : n.log[k].kind = "Final"
=============================================================================
