--------------------------- MODULE TwoPhaseCommit ---------------------------
(***************************************************************************)
(* One cross-group transaction: the coordinator task of txn_coord.rs, the  *)
(* replicated logs of the groups it writes to, and the 2PC records that    *)
(* txn2pc.rs keeps in the storage engine of every node.                    *)
(*                                                                         *)
(* A node has ONE engine for all the groups it hosts, and the records are  *)
(* keyed by the transaction alone: the prepare of one group overwrites the *)
(* record the prepare of another group has written.  A group's consensus   *)
(* is its committed log (the guarantee of RaftCluster); a proposal that is *)
(* under way may still commit long after its proposer has given up on it.  *)
(*                                                                         *)
(* The transaction writes one key in each participant group; `user' and    *)
(* `intents' hold the groups whose key is written, or staged.              *)
(*                                                                         *)
(* A crash is the end of a process: what the engine has written stays.     *)
(***************************************************************************)
EXTENDS Integers, Sequences, FiniteSetsExt

CONSTANTS
    Nodes,        \* the servers, each hosting every group
    Participants, \* the groups the transaction writes to
    Configs,      \* the circumstances to check: see Config
    MaxCrashes,   \* bound: crashes of nodes in a behaviour
    MaxSweeps     \* bound: recoveries of the coordinator in a behaviour

ASSUME TwoPhaseAssumption ==
    /\ Participants \subseteq Nat
    /\ MaxCrashes \in Nat
    /\ MaxSweeps \in Nat

(* The meta group, whose log orders the decisions. *)
DECISION_GROUP == 0
Groups == Participants \union {DECISION_GROUP}

(* lateDecision: the coordinator may give up on a commit decision that is   *)
(* still under way.  tornPrepare: a node may crash inside the prepare of a  *)
(* group after another group of the transaction has written the record.     *)
Config == [lateDecision: BOOLEAN, tornPrepare: BOOLEAN]

VARIABLES
    config,    \* the circumstances, fixed for a behaviour
    phase,     \* where commit_cross_group stands
    coord,     \* the node that runs it
    reply,     \* what it has heard from each group in this phase
    prepared,  \* the groups that acknowledged their prepare
    flight,    \* proposals under way: <<group, command>>
    log,       \* the committed entries of each group
    eng,       \* the 2PC records of each node's engine
    applied,   \* per node and group: entries applied since the start
    floor,     \* per node and group: the durable apply index
    up,        \* the nodes that run
    crashes, sweeps

coordinator == <<phase, coord, reply, prepared>>
vars == <<config, phase, coord, reply, prepared, flight, log, eng, applied,
          floor, up, crashes, sweeps>>

Commands == {"TxnPrepare", "TxnCommit2pc", "TxnAbort2pc",
             "DecideCommit", "DecideAbort"}
Decisions == {"DecideCommit", "DecideAbort"}
Txn2pcState == {"None", "Preparing", "Prepared", "Committing", "Committed",
                "Aborted"}
Phases == {"idle", "prepare", "decide", "undecide", "release", "commit",
           "ok", "failed", "unsure", "gone"}
Replies == {"none", "wait", "ok", "err"}

EmptyEngine == [rec |-> "None", dec |-> "None", intents |-> {}, user |-> {}]

Init ==
    /\ config \in Configs
    /\ phase = "idle"
    /\ coord \in Nodes
    /\ reply = [g \in Groups |-> "none"]
    /\ prepared = {}
    /\ flight = {}
    /\ log = [g \in Groups |-> <<>>]
    /\ eng = [n \in Nodes |-> EmptyEngine]
    /\ applied = [n \in Nodes |-> [g \in Groups |-> 0]]
    /\ floor = [n \in Nodes |-> [g \in Groups |-> 0]]
    /\ up = Nodes
    /\ crashes = 0
    /\ sweeps = 0

-----------------------------------------------------------------------------
(* What a command does to a node's engine, as the states its durable writes *)
(* go through: a crash leaves one of them, the handler ends in the last.    *)

(* Mutant: a prepare that finds a resolved record leaves it resolved. *)
PrepareKeepsOutcome(e, g) ==
    IF e.rec \in {"Committed", "Aborted"} THEN <<>>
    ELSE <<[e EXCEPT !.rec = "Prepared", !.intents = @ \union {g}]>>

(* Preparing, the intents, Prepared, whatever the record said before. *)
apply_txn_prepare(e, g) ==
    LET preparing == [e EXCEPT !.rec = "Preparing"]
        staged    == [preparing EXCEPT !.intents = @ \union {g}]
    IN  <<preparing, staged, [staged EXCEPT !.rec = "Prepared"]>>

(* Committing before the first key, every staged key, the intents dropped, *)
(* then Committed.                                                         *)
apply_txn_commit_2pc(e) ==
    IF e.rec \in {"Committed", "Aborted"} THEN <<>>
    ELSE LET committing == [e EXCEPT !.rec = "Committing"]
             written == [committing EXCEPT !.user = @ \union e.intents]
             cleared == [written EXCEPT !.intents = {}]
         IN  <<committing, written, cleared,
               [cleared EXCEPT !.rec = "Committed"]>>

(* The intents dropped, then Aborted; a commit under way is not undone. *)
apply_txn_abort_2pc(e) ==
    IF e.rec \in {"Aborted", "Committing", "Committed"} THEN <<>>
    ELSE LET cleared == [e EXCEPT !.intents = {}]
         IN  <<cleared, [cleared EXCEPT !.rec = "Aborted"]>>

(* Drive an unresolved record to the decided outcome. *)
resolve_local_2pc_record(e, d) ==
    IF e.rec \notin {"Preparing", "Prepared"} THEN <<>>
    ELSE IF d = "DecideCommit" THEN apply_txn_commit_2pc(e)
         ELSE apply_txn_abort_2pc(e)

(* The decision is written once; a conflicting one is refused. *)
apply_txn_decision(e, d) ==
    IF e.dec \notin {"None", d} THEN <<>>
    ELSE LET decided == [e EXCEPT !.dec = d]
         IN  <<decided>> \o resolve_local_2pc_record(decided, d)

apply_command(e, g, cmd) ==
    CASE cmd = "TxnPrepare" -> apply_txn_prepare(e, g)
      [] cmd = "TxnCommit2pc" -> apply_txn_commit_2pc(e)
      [] cmd = "TxnAbort2pc" -> apply_txn_abort_2pc(e)
      [] cmd \in Decisions -> apply_txn_decision(e, cmd)

(* The commands a record refuses: the waiting proposer hears an error and *)
(* the entry leaves no mark in the durable apply index.                   *)
Refused(e, cmd) ==
    \/ cmd = "TxnCommit2pc" /\ e.rec = "Aborted"
    \/ cmd = "TxnAbort2pc" /\ e.rec \in {"Committing", "Committed"}
    \/ cmd \in Decisions /\ e.dec \notin {"None", cmd}

(* What opening the engine does to an unresolved record: follow the        *)
(* decision, finish a commit, abort a prepare that never finished, leave a *)
(* finished one in doubt.                                                  *)
recover_incomplete_2pc(e) ==
    IF e.rec \in {"Preparing", "Prepared"} /\ e.dec # "None"
    THEN resolve_local_2pc_record(e, e.dec)
    ELSE IF e.rec = "Preparing" THEN apply_txn_abort_2pc(e)
    ELSE IF e.rec = "Committing" THEN apply_txn_commit_2pc(e)
    ELSE <<>>

States(e, steps) == {e} \union Range(steps)
Final(e, steps) == IF steps = <<>> THEN e ELSE steps[Len(steps)]

-----------------------------------------------------------------------------
(* The coordinator: commit_cross_group. *)

(* The command whose answers the coordinator waits for in its phase. *)
Awaits(cmd) ==
    \/ phase = "prepare" /\ cmd = "TxnPrepare"
    \/ phase = "decide" /\ cmd = "DecideCommit"
    \/ phase = "undecide" /\ cmd = "DecideAbort"
    \/ phase = "release" /\ cmd = "TxnAbort2pc"
    \/ phase = "commit" /\ cmd = "TxnCommit2pc"

Heard(g, cmd, r) ==
    IF Awaits(cmd) /\ reply[g] = "wait" THEN [reply EXCEPT ![g] = r]
    ELSE reply

AllHeard == \A g \in Groups : reply[g] # "wait"

(* Fan cmd out to the groups gs and wait for them in phase p. *)
fan_out(p, gs, cmd) ==
    /\ phase' = p
    /\ reply' = [g \in Groups |-> IF g \in gs THEN "wait" ELSE "none"]
    /\ flight' = flight \union (gs \X {cmd})

Return(p) ==
    /\ phase' = p
    /\ reply' = [g \in Groups |-> "none"]
    /\ UNCHANGED flight

UnchangedReplicas == UNCHANGED <<log, eng, applied, floor, up, crashes, sweeps>>

(* A client commits a transaction whose keys span groups. *)
Begin(n) ==
    /\ phase = "idle"
    /\ n \in up
    /\ coord' = n
    /\ fan_out("prepare", Participants, "TxnPrepare")
    /\ UNCHANGED <<config, prepared>> /\ UnchangedReplicas

(* Mutant: one prepared group is enough. *)
PrepareDoneByOne ==
    /\ phase = "prepare" /\ AllHeard
    /\ LET oks == {g \in Participants : reply[g] = "ok"}
       IN  /\ prepared' = oks
           /\ IF oks # {} THEN fan_out("decide", {DECISION_GROUP}, "DecideCommit")
              ELSE Return("failed")
    /\ UNCHANGED <<config, coord>> /\ UnchangedReplicas

(* Every group prepared: decide to commit; else to abort, if any has. *)
PrepareDone ==
    /\ phase = "prepare" /\ AllHeard
    /\ LET oks == {g \in Participants : reply[g] = "ok"}
       IN  /\ prepared' = oks
           /\ IF oks = Participants
              THEN fan_out("decide", {DECISION_GROUP}, "DecideCommit")
              ELSE IF oks # {}
              THEN fan_out("undecide", {DECISION_GROUP}, "DecideAbort")
              ELSE Return("failed")
    /\ UNCHANGED <<config, coord>> /\ UnchangedReplicas

(* Mutant: the commits go out whatever became of the decision. *)
DecideDoneIgnoringReply ==
    /\ phase = "decide" /\ AllHeard
    /\ fan_out("commit", Participants, "TxnCommit2pc")
    /\ UNCHANGED <<config, coord, prepared>> /\ UnchangedReplicas

(* The commit decision is applied: commit everywhere; else take it back. *)
DecideDone ==
    /\ phase = "decide" /\ AllHeard
    /\ IF reply[DECISION_GROUP] = "ok"
       THEN fan_out("commit", Participants, "TxnCommit2pc")
       ELSE fan_out("undecide", {DECISION_GROUP}, "DecideAbort")
    /\ UNCHANGED <<config, coord, prepared>> /\ UnchangedReplicas

(* Whatever became of the abort decision, release the prepared groups. *)
UndecideDone ==
    /\ phase = "undecide" /\ AllHeard
    /\ fan_out("release", prepared, "TxnAbort2pc")
    /\ UNCHANGED <<config, coord, prepared>> /\ UnchangedReplicas

ReleaseDone ==
    /\ phase = "release" /\ AllHeard
    /\ Return("failed")
    /\ UNCHANGED <<config, coord, prepared>> /\ UnchangedReplicas

CommitDone ==
    /\ phase = "commit" /\ AllHeard
    /\ Return(IF \A g \in Participants : reply[g] = "ok" THEN "ok"
              ELSE "unsure")
    /\ UNCHANGED <<config, coord, prepared>> /\ UnchangedReplicas

(* The deadline of a phase passes for g: the proposal stays under way. *)
Timeout(g) ==
    /\ reply[g] = "wait"
    /\ phase = "decide" => config.lateDecision
    /\ reply' = [reply EXCEPT ![g] = "err"]
    /\ UNCHANGED <<config, phase, coord, prepared, flight>> /\ UnchangedReplicas

(* A proposal is refused by a node that does not lead, or lost with it. *)
Lose(g, cmd) ==
    /\ <<g, cmd>> \in flight
    /\ flight' = flight \ {<<g, cmd>>}
    /\ reply' = Heard(g, cmd, "err")
    /\ UNCHANGED <<config, phase, coord, prepared>> /\ UnchangedReplicas

-----------------------------------------------------------------------------
(* The groups and the nodes. *)

(* The group's consensus commits a proposal. *)
Replicate(g, cmd) ==
    /\ <<g, cmd>> \in flight
    /\ flight' = flight \ {<<g, cmd>>}
    /\ log' = [log EXCEPT ![g] = Append(@, cmd)]
    /\ UNCHANGED <<config, coordinator, eng, applied, floor, up, crashes, sweeps>>

(* drain_and_apply on node n takes the next entry of group g.  If n is the *)
(* node that proposed it, the coordinator hears how it went.               *)
Apply(n, g) ==
    /\ n \in up
    /\ applied[n][g] < Len(log[g])
    /\ LET next == applied[n][g] + 1
           cmd == log[g][next]
           bad == Refused(eng[n], cmd)
       IN  /\ eng' = [eng EXCEPT ![n] = Final(@, apply_command(@, g, cmd))]
           /\ applied' = [applied EXCEPT ![n][g] = next]
           /\ floor' = [floor EXCEPT ![n][g] = IF bad THEN @ ELSE next]
           /\ reply' \in {reply, Heard(g, cmd, IF bad THEN "err" ELSE "ok")}
    /\ UNCHANGED <<config, phase, coord, prepared, flight, log, up, crashes,
                   sweeps>>

(* The coordinator's task dies with its node. *)
Down(n) ==
    /\ crashes < MaxCrashes
    /\ crashes' = crashes + 1
    /\ up' = up \ {n}
    /\ IF n = coord /\ phase # "idle"
       THEN /\ phase' = "gone"
            /\ reply' = [g \in Groups |-> "none"]
       ELSE UNCHANGED <<phase, reply>>
    /\ UNCHANGED <<config, coord, prepared, flight, log, applied, floor, sweeps>>

(* A node crashes between two entries. *)
Crash(n) ==
    /\ n \in up
    /\ Down(n)
    /\ UNCHANGED eng

(* A node crashes inside an entry, or before it records that it applied it. *)
CrashInApply(n, g) ==
    /\ n \in up
    /\ applied[n][g] < Len(log[g])
    /\ LET cmd == log[g][applied[n][g] + 1]
           torn == States(eng[n], apply_command(eng[n], g, cmd))
       IN  \E e \in torn :
             /\ e # eng[n]
             /\ \/ config.tornPrepare
                \/ cmd # "TxnPrepare"
                \/ eng[n].rec \in {"None", "Aborted"}
                \/ e = Final(eng[n], apply_command(eng[n], g, cmd))
             /\ eng' = [eng EXCEPT ![n] = e]
    /\ Down(n)

(* Engine::open finishes what it can; the groups resume behind the durable *)
(* apply index.                                                            *)
Restart(n) ==
    /\ n \notin up
    /\ eng' = [eng EXCEPT ![n] = Final(@, recover_incomplete_2pc(@))]
    /\ applied' = [applied EXCEPT ![n] = floor[n]]
    /\ up' = up \union {n}
    /\ UNCHANGED <<config, coordinator, flight, log, floor, crashes, sweeps>>

(* A node crashes again while it recovers. *)
CrashInRestart(n) ==
    /\ n \notin up
    /\ \E e \in States(eng[n], recover_incomplete_2pc(eng[n])) :
          /\ e # eng[n]
          /\ eng' = [eng EXCEPT ![n] = e]
    /\ Down(n)

(* A node gains the meta group and proposes to abort what is in doubt. *)
abort_orphaned_prepares(n) ==
    /\ sweeps < MaxSweeps
    /\ n \in up
    /\ eng[n].rec = "Prepared"
    /\ eng[n].dec = "None"
    /\ flight' = flight \union {<<DECISION_GROUP, "DecideAbort">>}
    /\ sweeps' = sweeps + 1
    /\ UNCHANGED <<config, coordinator, log, eng, applied, floor, up, crashes>>

Next ==
    \/ \E n \in Nodes : Begin(n)
    \/ PrepareDone
    \/ DecideDone
    \/ UndecideDone
    \/ ReleaseDone
    \/ CommitDone
    \/ \E g \in Groups : Timeout(g)
    \/ \E g \in Groups, cmd \in Commands : Lose(g, cmd)
    \/ \E g \in Groups, cmd \in Commands : Replicate(g, cmd)
    \/ \E n \in Nodes, g \in Groups : Apply(n, g)
    \/ \E n \in Nodes : Crash(n)
    \/ \E n \in Nodes, g \in Groups : CrashInApply(n, g)
    \/ \E n \in Nodes : Restart(n)
    \/ \E n \in Nodes : CrashInRestart(n)
    \/ \E n \in Nodes : abort_orphaned_prepares(n)

Spec == Init /\ [][Next]_vars

-----------------------------------------------------------------------------
(* Types of all the variables of the coordinator, the groups and the nodes. *)
TwoPhaseTypeOK ==
    /\ config \in Configs
    /\ phase \in Phases
    /\ coord \in Nodes
    /\ reply \in [Groups -> Replies]
    /\ prepared \subseteq Participants
    /\ flight \subseteq Groups \X Commands
    /\ log \in [Groups -> Seq(Commands)]
    /\ eng \in [Nodes -> [rec: Txn2pcState, dec: Decisions \union {"None"},
                          intents: SUBSET Participants,
                          user: SUBSET Participants]]
    /\ applied \in [Nodes -> [Groups -> Nat]]
    /\ floor \in [Nodes -> [Groups -> Nat]]
    /\ up \subseteq Nodes
    /\ crashes \in 0 .. MaxCrashes
    /\ sweeps \in 0 .. MaxSweeps

FirstDecision(s) ==
    LET ds == {i \in DOMAIN s : s[i] \in Decisions}
    IN  IF ds = {} THEN "None" ELSE s[Min(ds)]

(* The first decision in the log of the meta group: the one that counts. *)
Decided == FirstDecision(log[DECISION_GROUP])

(* TXN-2PC-1, TXN-2PC-6: no key of the transaction is ever visible on any  *)
(* node unless the meta group's log has decided to commit, and by then     *)
(* every participant's prepare is committed in its own log.                *)
CommitNeedsDecision ==
    (\E n \in Nodes : eng[n].user # {}) =>
        /\ Decided = "DecideCommit"
        /\ \A g \in Participants : "TxnPrepare" \in Range(log[g])

(* TXN-2PC-7: nodes that know a decision know the same one, and it is the  *)
(* first one the meta group's log holds, whatever was proposed after it.   *)
DecisionIsFinal ==
    \A n \in Nodes : eng[n].dec \in {"None", Decided}

(* A node that runs and has applied every committed entry of every group. *)
CaughtUp(n) ==
    /\ n \in up
    /\ \A g \in Groups : applied[n][g] = Len(log[g])

(* All or nothing, on every replica: a node that is caught up has all of   *)
(* the transaction once every participant's log carries its commit, and    *)
(* nothing of it when the decision was to abort.                           *)
CaughtUpReplicasAgree ==
    \A n \in Nodes : CaughtUp(n) =>
        /\ Decided = "DecideAbort" => eng[n].user = {}
        /\ (\A g \in Participants : "TxnCommit2pc" \in Range(log[g]))
              => eng[n].user = Participants

(* What the coordinator tells its client is what happened: after a success *)
(* the decision is to commit and every log carries the commit; after the   *)
(* failure of the prepares or of the decision nothing will ever commit.    *)
AnswerIsTrue ==
    /\ phase = "ok" => /\ Decided = "DecideCommit"
                       /\ \A g \in Participants :
                             "TxnCommit2pc" \in Range(log[g])
    /\ phase = "failed" => /\ Decided # "DecideCommit"
                           /\ \A n \in Nodes : eng[n].user = {}

(* TXN-2PC-3, TXN-2PC-8: a node whose record is aborted holds no intent    *)
(* and no key of the transaction, and if the decision is to commit the     *)
(* prepare it lost is one it has still to apply again.                     *)
AbortIsSafe ==
    \A n \in Nodes : eng[n].rec = "Aborted" =>
        /\ eng[n].intents = {}
        /\ eng[n].user = {}
        /\ Decided = "DecideCommit" =>
              \E g \in Participants :
                 \E i \in floor[n][g] + 1 .. Len(log[g]) :
                    log[g][i] = "TxnPrepare"
=============================================================================
