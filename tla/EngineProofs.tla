---------------------------- MODULE EngineProofs ----------------------------
(***************************************************************************)
(* What reaches the engine of a server, and in which order: the parts of a *)
(* cross-group transaction, the entries of the log, and the sequence       *)
(* numbers of the clock.                                                   *)
(***************************************************************************)
EXTENDS TwoPhaseCommit, ReplicaApply, HlcClock, TLAPS

-----------------------------------------------------------------------------
(* Numbers.                                                                 *)

\* That the naturals are well-ordered is a hypothesis of the lemmas that need it.  The modules
\* of the theorems prove it, from WellFoundedInduction; kept out of the lemmas, that module does
\* not weigh on every step of theirs.
NatWellOrdered == \A S \in SUBSET Nat : S # {} => \E x \in S : \A y \in S : x <= y

\* The two-element case, as the code's max() and min() of two values.
LEMMA MaxPair ==
    ASSUME NEW a \in Int, NEW b \in Int
    PROVE  Max({a, b}) = IF a >= b THEN a ELSE b
BY SMTT(30) DEF Max

\* The smaller of two integers.
LEMMA MinPair ==
    ASSUME NEW a \in Int, NEW b \in Int
    PROVE  Min({a, b}) = IF a <= b THEN a ELSE b
BY SMTT(30) DEF Min

\* Every non-empty set of naturals has a smallest element.
LEMMA MinNat ==
    ASSUME NatWellOrdered, NEW S, S \subseteq Nat, S # {}
    PROVE  Min(S) \in S /\ \A y \in S : Min(S) <= y
<1>1. PICK x \in S : \A y \in S : x <= y
  BY Zenon DEF NatWellOrdered
<1> QED
  BY <1>1, Zenon DEF Min

\* Every non-empty bounded set of naturals has a largest element.
LEMMA MaxNat ==
    ASSUME NatWellOrdered, NEW S, S \subseteq Nat, S # {}, NEW u \in Nat, \A y \in S : y <= u
    PROVE  Max(S) \in S /\ \A y \in S : Max(S) >= y
<1> DEFINE D == {u - y : y \in S}
<1>0. \A y \in S : u - y \in Nat
  BY SMTT(30)
<1>1. D \subseteq Nat /\ D # {}
  BY <1>0, Zenon
<1>2. Min(D) \in D /\ \A d \in D : Min(D) <= d
  BY <1>1, MinNat, Zenon
<1>3. PICK x \in S : Min(D) = u - x
  BY <1>2, Zenon
<1>4. \A y \in S : u - x <= u - y
  BY <1>2, <1>3, Zenon
<1>5. \A y \in S : x >= y
  BY <1>4, SMTT(30)
<1> QED
  BY <1>5, Zenon DEF Max

-----------------------------------------------------------------------------
(***************************************************************************)
(* The decision of a cross-group transaction is final, nothing of it shows *)
(* before the decision, and the coordinator's answer is true: for every    *)
(* number of nodes and groups, and every pattern of crashes and sweeps.    *)
(***************************************************************************)

EngineType == [rec: Txn2pcState, dec: Decisions \union {"None"},
               intents: SUBSET Participants, user: SUBSET Participants]

InLog(g, cmd) == cmd \in Range(log[g])

\* cmd was proposed to group g and has not been lost.
Sent(g, cmd) == <<g, cmd>> \in flight \/ InLog(g, cmd)

\* The engine has begun to make the transaction visible.
Exposes(e) == e.user # {} \/ e.rec = "Committing"

\* The place of a node in the logs, and the groups a command may go to.
PlaceInv ==
    /\ \A n \in Nodes : \A g \in Groups :
          floor[n][g] <= applied[n][g] /\ applied[n][g] <= Len(log[g])
    /\ \A g \in Groups : Sent(g, "TxnPrepare") => g \in Participants
    /\ \A g \in Groups : \A d \in Decisions : Sent(g, d) => g = DECISION_GROUP

\* A node that knows no decision has applied none.
UnseenInv ==
    \A n \in Nodes : eng[n].dec = "None" =>
        \A i \in 1..applied[n][DECISION_GROUP] : log[DECISION_GROUP][i] \notin Decisions

\* What may exist only once the decision to commit is in the log of the meta group.
CommitInv ==
    /\ \A n \in Nodes : Exposes(eng[n]) => Decided = "DecideCommit"
    /\ \A g \in Groups : Sent(g, "TxnCommit2pc") => Decided = "DecideCommit"
    /\ phase = "decide" /\ reply[DECISION_GROUP] = "ok" => Decided = "DecideCommit"
    /\ phase \in {"commit", "ok"} => Decided = "DecideCommit"

\* What the coordinator has heard is in the logs.
HeardInv ==
    /\ Sent(DECISION_GROUP, "DecideCommit") =>
          \A g \in Participants : InLog(g, "TxnPrepare")
    /\ phase = "prepare" =>
          \A g \in Groups : reply[g] = "ok" => InLog(g, "TxnPrepare")
    /\ phase = "commit" =>
          \A g \in Groups : reply[g] = "ok" => InLog(g, "TxnCommit2pc")
    /\ phase = "ok" => \A g \in Participants : InLog(g, "TxnCommit2pc")

TwoPhaseInv ==
    /\ TwoPhaseTypeOK
    /\ PlaceInv
    /\ DecisionIsFinal
    /\ UnseenInv
    /\ CommitInv
    /\ HeardInv

\* A decision to commit that the coordinator has given up on will never be taken.
GivenUpInv ==
    /\ phase \in {"idle", "prepare"} => ~Sent(DECISION_GROUP, "DecideCommit")
    /\ phase = "decide" =>
          /\ reply[DECISION_GROUP] # "none"
          /\ ~(<<DECISION_GROUP, "DecideCommit">> \in flight
               /\ InLog(DECISION_GROUP, "DecideCommit"))
          /\ reply[DECISION_GROUP] = "err" =>
                Decided = "DecideAbort" \/ ~Sent(DECISION_GROUP, "DecideCommit")
    /\ phase \in {"undecide", "release", "failed"} =>
          Decided = "DecideAbort" \/ ~Sent(DECISION_GROUP, "DecideCommit")

-----------------------------------------------------------------------------
\* The meta group is a group, whether or not the transaction writes to it.
LEMMA GroupFacts ==
    DECISION_GROUP \in Groups /\ Participants \subseteq Groups /\ Decisions \subseteq Commands
BY Zenon DEF Groups, DECISION_GROUP, Decisions, Commands

\* A write in front of a list of writes.
LEMMA RangeCons ==
    ASSUME NEW S, NEW a \in S, NEW s \in Seq(S)
    PROVE  /\ <<a>> \o s \in Seq(S)
           /\ <<a>> \o s # <<>>
           /\ Range(<<a>> \o s) = {a} \union Range(s)
           /\ Final(a, s) = Final(a, <<a>> \o s)
<1> DEFINE t == <<a>> \o s
<1>1. <<a>> \in Seq(S) /\ Len(<<a>>) = 1 /\ <<a>>[1] = a
  BY SMTT(30)
<1>2. t \in Seq(S) /\ Len(t) = 1 + Len(s) /\ t[1] = a
      /\ \A i \in 1..Len(s) : t[i + 1] = s[i]
  BY SMTT(30)
<1>3. Len(s) \in Nat /\ DOMAIN t = 1..(1 + Len(s)) /\ DOMAIN s = 1..Len(s)
  BY <1>2, SMTT(30)
<1>4. Range(t) \subseteq {a} \union Range(s)
  <2>1. SUFFICES ASSUME NEW i \in 1..(1 + Len(s)) PROVE t[i] \in {a} \union {s[j] : j \in 1..Len(s)}
    BY <1>3, Zenon DEF Range
  <2>2. CASE i = 1
    BY <2>2, <1>2, Zenon
  <2>3. CASE i # 1
    <3>1. i - 1 \in 1..Len(s) /\ t[(i - 1) + 1] = s[i - 1] /\ (i - 1) + 1 = i
      BY <2>3, <1>2, <1>3, SMTT(30)
    <3> QED
      BY <3>1, Zenon
  <2> QED
    BY <2>2, <2>3, Zenon
<1>5. {a} \union Range(s) \subseteq Range(t)
  <2>1. 1 \in 1..(1 + Len(s)) /\ \A j \in 1..Len(s) : j + 1 \in 1..(1 + Len(s))
    BY <1>3, SMTT(30)
  <2>2. a \in Range(t)
    BY <2>1, <1>2, <1>3, Zenon DEF Range
  <2>3. ASSUME NEW j \in 1..Len(s) PROVE s[j] \in Range(t)
    <3>1. j + 1 \in DOMAIN t /\ t[j + 1] = s[j]
      BY <2>1, <1>2, <1>3, Zenon
    <3> QED
      BY <3>1, Zenon DEF Range
  <2> QED
    BY <2>2, <2>3, <1>3, Zenon DEF Range
<1>6. t # <<>>
  BY <1>2, <1>3, SMTT(30)
<1>7. Final(a, s) = Final(a, t)
  <2>1. CASE s = <<>>
    BY <2>1, <1>2, <1>6, SMTT(30) DEF Final
  <2>2. CASE s # <<>>
    <3>1. Len(s) \in 1..Len(s)
      BY <2>2, SMTT(30)
    <3> QED
      BY <2>2, <3>1, <1>2, <1>3, <1>6, SMTT(30) DEF Final
  <2> QED
    BY <2>1, <2>2, Zenon
<1> QED
  BY <1>2, <1>4, <1>5, <1>6, <1>7, Zenon

\* The state a handler ends in is one of those it goes through.
LEMMA FinalIsState ==
    ASSUME NEW S, NEW e, NEW s \in Seq(S)
    PROVE  Final(e, s) \in States(e, s)
<1>1. CASE s = <<>>
  BY <1>1, Zenon DEF Final, States
<1>2. CASE s # <<>>
  <2>1. Len(s) \in 1..Len(s) /\ DOMAIN s = 1..Len(s)
    BY <1>2, SMTT(30)
  <2> QED
    BY <1>2, <2>1, Zenon DEF Final, States, Range
<1> QED
  BY <1>1, <1>2, Zenon

\* A handler whose writes are s: it stays in the type and keeps the decision.
Keeps(e, s) ==
    /\ s \in Seq(EngineType)
    /\ \A f \in Range(s) : f.dec = e.dec

\* Writes of a handler that exposes nothing new.
Hides(e, s) == \A f \in Range(s) : Exposes(f) => Exposes(e)

\* A handler that returns early writes nothing.
LEMMA NoWrites ==
    ASSUME NEW e
    PROVE  <<>> \in Seq(EngineType) /\ Range(<<>>) = {} /\ Keeps(e, <<>>) /\ Hides(e, <<>>)
<1>1. <<>> \in Seq(EngineType)
  BY SMTT(30)
<1>2. Range(<<>>) = {}
  BY SMTT(30) DEF Range
<1> QED
  BY <1>1, <1>2, Zenon DEF Keeps, Hides

\* apply_txn_prepare.
LEMMA PrepareWrites ==
    ASSUME NEW e \in EngineType, NEW g \in Participants
    PROVE  Keeps(e, apply_txn_prepare(e, g)) /\ Hides(e, apply_txn_prepare(e, g))
<1> DEFINE a == [e EXCEPT !.rec = "Preparing"]
           b == [a EXCEPT !.intents = @ \union {g}]
           c == [b EXCEPT !.rec = "Prepared"]
<1>1. a \in EngineType /\ b \in EngineType /\ c \in EngineType
  BY Zenon DEF EngineType, Txn2pcState
<1>2. \A f \in {a, b, c} : f.dec = e.dec /\ f.user = e.user /\ f.rec # "Committing"
  BY Zenon DEF EngineType
<1>3. apply_txn_prepare(e, g) = <<a, b, c>>
  BY Zenon DEF apply_txn_prepare
<1>4. <<a, b, c>> \in Seq(EngineType)
  <2> HIDE DEF a, b, c
  <2> QED
    BY <1>1, SMTT(30)
<1> HIDE DEF a, b, c
<1>5. Range(<<a, b, c>>) = {a, b, c}
  BY SMTT(30) DEF Range
<1>6. Keeps(e, <<a, b, c>>)
  BY <1>2, <1>4, <1>5, Zenon DEF Keeps
<1>7. \A f \in {a, b, c} : Exposes(f) => Exposes(e)
  BY <1>2, Zenon DEF Exposes
<1> QED
  BY <1>3, <1>5, <1>6, <1>7, Zenon DEF Hides

\* apply_txn_commit_2pc.
LEMMA CommitWrites ==
    ASSUME NEW e \in EngineType
    PROVE  Keeps(e, apply_txn_commit_2pc(e))
<1>1. CASE e.rec \in {"Committed", "Aborted"}
  BY <1>1, NoWrites, Zenon DEF apply_txn_commit_2pc
<1>2. CASE e.rec \notin {"Committed", "Aborted"}
  <2> DEFINE a == [e EXCEPT !.rec = "Committing"]
             b == [a EXCEPT !.user = @ \union e.intents]
             c == [b EXCEPT !.intents = {}]
             d == [c EXCEPT !.rec = "Committed"]
  <2>1. a \in EngineType /\ b \in EngineType /\ c \in EngineType /\ d \in EngineType
    BY Zenon DEF EngineType, Txn2pcState
  <2>2. \A f \in {a, b, c, d} : f.dec = e.dec
    BY Zenon DEF EngineType
  <2>3. apply_txn_commit_2pc(e) = <<a, b, c, d>>
    BY <1>2, Zenon DEF apply_txn_commit_2pc
  <2>4. <<a, b, c, d>> \in Seq(EngineType)
    <3> HIDE DEF a, b, c, d
    <3> QED
      BY <2>1, SMTT(30)
  <2> HIDE DEF a, b, c, d
  <2>5. Range(<<a, b, c, d>>) = {a, b, c, d}
    BY SMTT(30) DEF Range
  <2> QED
    BY <2>2, <2>3, <2>4, <2>5, Zenon DEF Keeps
<1> QED
  BY <1>1, <1>2, Zenon

\* apply_txn_abort_2pc.
LEMMA AbortWrites ==
    ASSUME NEW e \in EngineType
    PROVE  Keeps(e, apply_txn_abort_2pc(e)) /\ Hides(e, apply_txn_abort_2pc(e))
<1>1. CASE e.rec \in {"Aborted", "Committing", "Committed"}
  BY <1>1, NoWrites, Zenon DEF apply_txn_abort_2pc
<1>2. CASE e.rec \notin {"Aborted", "Committing", "Committed"}
  <2> DEFINE a == [e EXCEPT !.intents = {}]
             b == [a EXCEPT !.rec = "Aborted"]
  <2>1. a \in EngineType /\ b \in EngineType
    BY Zenon DEF EngineType, Txn2pcState
  <2>2. \A f \in {a, b} : f.dec = e.dec /\ f.user = e.user /\ f.rec # "Committing"
    BY <1>2, Zenon DEF EngineType
  <2>3. apply_txn_abort_2pc(e) = <<a, b>>
    BY <1>2, Zenon DEF apply_txn_abort_2pc
  <2>4. <<a, b>> \in Seq(EngineType)
    <3> HIDE DEF a, b
    <3> QED
      BY <2>1, SMTT(30)
  <2>5. Range(<<a, b>>) = {a, b}
    BY SMTT(30) DEF Range
  <2> HIDE DEF a, b
  <2> QED
    BY <2>2, <2>3, <2>4, <2>5, Zenon DEF Keeps, Hides, Exposes
<1> QED
  BY <1>1, <1>2, Zenon

\* resolve_local_2pc_record exposes something only for a decision to commit.
LEMMA ResolveWrites ==
    ASSUME NEW e \in EngineType, NEW d
    PROVE  /\ Keeps(e, resolve_local_2pc_record(e, d))
           /\ d # "DecideCommit" => Hides(e, resolve_local_2pc_record(e, d))
<1> QED
  BY NoWrites, CommitWrites, AbortWrites, Zenon DEF resolve_local_2pc_record

-----------------------------------------------------------------------------
\* From e, a crash or the end of the command cmd may leave f.
Moves(e, cmd, f) ==
    /\ f \in EngineType
    /\ \/ f.dec = e.dec
       \/ cmd \in Decisions /\ e.dec = "None" /\ f.dec = cmd
    /\ Exposes(f) => \/ Exposes(e)
                     \/ cmd = "TxnCommit2pc"
                     \/ cmd = "DecideCommit" /\ e.dec \in {"None", cmd}

\* apply_txn_decision.
LEMMA DecisionWrites ==
    ASSUME NEW e \in EngineType, NEW d \in Decisions
    PROVE  /\ apply_txn_decision(e, d) \in Seq(EngineType)
           /\ \A f \in Range(apply_txn_decision(e, d)) : Moves(e, d, f)
           /\ ~Refused(e, d) => Final(e, apply_txn_decision(e, d)).dec = d
<1>1. CASE e.dec \notin {"None", d}
  <2>1. apply_txn_decision(e, d) = <<>>
    BY <1>1, Zenon DEF apply_txn_decision
  <2>2. Refused(e, d)
    BY <1>1, Zenon DEF Refused
  <2> QED
    BY <2>1, <2>2, NoWrites, Zenon
<1>2. CASE e.dec \in {"None", d}
  <2> DEFINE a == [e EXCEPT !.dec = d]
             s == resolve_local_2pc_record(a, d)
  <2>1. a \in EngineType /\ a.dec = d /\ a.user = e.user /\ a.rec = e.rec
    BY Zenon DEF EngineType
  <2>2. apply_txn_decision(e, d) = <<a>> \o s
    BY <1>2, Zenon DEF apply_txn_decision
  <2> HIDE DEF a
  <2>3. Keeps(a, s) /\ (d # "DecideCommit" => Hides(a, s))
    BY <2>1, ResolveWrites, Zenon
  <2> HIDE DEF s
  <2>4. s \in Seq(EngineType) /\ \A f \in Range(s) : f.dec = d
    BY <2>1, <2>3, Zenon DEF Keeps
  <2>5. /\ <<a>> \o s \in Seq(EngineType)
        /\ <<a>> \o s # <<>>
        /\ Range(<<a>> \o s) = {a} \union Range(s)
        /\ Final(a, s) = Final(a, <<a>> \o s)
    BY <2>1, <2>4, RangeCons, Zenon
  <2>6. \A f \in Range(s) : f \in EngineType
    BY <2>4, SMTT(30) DEF Range
  <2>7. ASSUME NEW f \in {a} \union Range(s) PROVE Moves(e, d, f)
    <3>1. f \in EngineType /\ f.dec = d
      BY <2>1, <2>4, <2>6, Zenon
    <3>2. d # "DecideCommit" /\ Exposes(f) => Exposes(e)
      BY <2>1, <2>3, Zenon DEF Hides, Exposes
    <3>3. f.dec = e.dec \/ (d \in Decisions /\ e.dec = "None" /\ f.dec = d)
      BY <1>2, <3>1, Zenon
    <3> QED
      BY <1>2, <3>1, <3>2, <3>3, Zenon DEF Moves
  <2>8. Final(e, <<a>> \o s) = Final(a, s)
    BY <2>5, Zenon DEF Final
  <2>9. Final(a, s).dec = d
    <3>1. Final(a, s) \in {a} \union Range(s)
      BY <2>4, FinalIsState, Zenon DEF States
    <3> QED
      BY <3>1, <2>1, <2>4, Zenon
  <2> QED
    BY <2>2, <2>5, <2>7, <2>8, <2>9, Zenon
<1> QED
  BY <1>1, <1>2, Zenon

\* What any command leaves behind, wherever it is cut.
LEMMA CommandWrites ==
    ASSUME NEW e \in EngineType, NEW g, NEW cmd \in Commands,
           cmd = "TxnPrepare" => g \in Participants
    PROVE  /\ \A f \in States(e, apply_command(e, g, cmd)) : Moves(e, cmd, f)
           /\ Final(e, apply_command(e, g, cmd)) \in States(e, apply_command(e, g, cmd))
           /\ cmd \in Decisions /\ ~Refused(e, cmd) =>
                 Final(e, apply_command(e, g, cmd)).dec = cmd
<1> DEFINE s == apply_command(e, g, cmd)
<1>1. Moves(e, cmd, e)
  BY Zenon DEF Moves
<1>2. ASSUME NEW w, Keeps(e, w), cmd = "TxnCommit2pc" \/ Hides(e, w)
      PROVE  w \in Seq(EngineType) /\ \A f \in Range(w) : Moves(e, cmd, f)
  <2>1. w \in Seq(EngineType)
    BY <1>2, Zenon DEF Keeps
  <2>2. \A f \in Range(w) : f \in EngineType
    BY <2>1, SMTT(30) DEF Range
  <2> QED
    BY <1>2, <2>1, <2>2, Zenon DEF Keeps, Hides, Moves
<1>3. CASE cmd \notin Decisions
  <2>1. \/ cmd = "TxnPrepare" /\ s = apply_txn_prepare(e, g)
        \/ cmd = "TxnCommit2pc" /\ s = apply_txn_commit_2pc(e)
        \/ cmd = "TxnAbort2pc" /\ s = apply_txn_abort_2pc(e)
    BY <1>3, Zenon DEF apply_command, Commands, Decisions
  <2>2. Keeps(e, s) /\ (cmd = "TxnCommit2pc" \/ Hides(e, s))
    BY <2>1, PrepareWrites, CommitWrites, AbortWrites, Zenon
  <2> HIDE DEF s
  <2>3. s \in Seq(EngineType) /\ \A f \in Range(s) : Moves(e, cmd, f)
    BY <1>2, <2>2, Zenon
  <2>4. Final(e, s) \in States(e, s)
    BY <2>3, FinalIsState, Zenon
  <2> QED
    BY <1>1, <1>3, <2>3, <2>4, Zenon DEF States, s
<1>4. CASE cmd \in Decisions
  <2>1. s = apply_txn_decision(e, cmd)
    BY <1>4, Zenon DEF apply_command, Decisions
  <2>2. /\ s \in Seq(EngineType)
        /\ \A f \in Range(s) : Moves(e, cmd, f)
        /\ ~Refused(e, cmd) => Final(e, s).dec = cmd
    BY <1>4, <2>1, DecisionWrites, Zenon
  <2> HIDE DEF s
  <2>4. Final(e, s) \in States(e, s)
    BY <2>2, FinalIsState, Zenon
  <2> QED
    BY <1>1, <2>2, <2>4, Zenon DEF States, s
<1> QED
  BY <1>3, <1>4, Zenon

\* What recover_incomplete_2pc leaves behind, wherever it is cut.
LEMMA RecoveryWrites ==
    ASSUME NEW e \in EngineType
    PROVE  /\ \A f \in States(e, recover_incomplete_2pc(e)) :
                 /\ f \in EngineType
                 /\ f.dec = e.dec
                 /\ Exposes(f) => Exposes(e) \/ e.dec = "DecideCommit"
           /\ Final(e, recover_incomplete_2pc(e)) \in States(e, recover_incomplete_2pc(e))
<1> DEFINE s == recover_incomplete_2pc(e)
<1>1. Keeps(e, s) /\ (Hides(e, s) \/ Exposes(e) \/ e.dec = "DecideCommit")
  <2>1. e.rec = "Committing" => Exposes(e)
    BY Zenon DEF Exposes
  <2> QED
    BY <2>1, NoWrites, ResolveWrites, AbortWrites, CommitWrites, Zenon
    DEF recover_incomplete_2pc
<1> HIDE DEF s
<1>2. s \in Seq(EngineType) /\ \A f \in Range(s) : f.dec = e.dec
  BY <1>1, Zenon DEF Keeps
<1>3. \A f \in Range(s) : f \in EngineType
  BY <1>2, SMTT(30) DEF Range
<1>4. \A f \in Range(s) : Exposes(f) => Exposes(e) \/ e.dec = "DecideCommit"
  BY <1>1, Zenon DEF Hides
<1>5. Final(e, s) \in States(e, s)
  BY <1>2, FinalIsState, Zenon
<1> QED
  BY <1>2, <1>3, <1>4, <1>5, Zenon DEF States, s

-----------------------------------------------------------------------------
\* The first decision of a log, where it stands.
LEMMA FirstDecisionAt ==
    ASSUME NatWellOrdered, NEW s \in Seq(Commands), NEW i \in 1..Len(s), s[i] \in Decisions,
           \A j \in 1..(i - 1) : s[j] \notin Decisions
    PROVE  FirstDecision(s) = s[i]
<1> DEFINE ds == {k \in DOMAIN s : s[k] \in Decisions}
<1>1. DOMAIN s = 1..Len(s) /\ Len(s) \in Nat
  BY SMTT(30)
<1>2. i \in ds /\ ds \subseteq Nat /\ ds # {}
  BY <1>1, SMTT(30)
<1>3. Min(ds) \in ds /\ Min(ds) <= i
  BY <1>2, MinNat, Zenon
<1>4. Min(ds) = i
  <2>1. Min(ds) \in 1..Len(s) /\ s[Min(ds)] \in Decisions
    BY <1>1, <1>3, Zenon
  <2>2. ~(Min(ds) < i)
    BY <2>1, SMTT(30)
  <2> HIDE DEF ds
  <2> QED
    BY <2>1, <2>2, <1>3, SMTT(30)
<1>5. FirstDecision(s) = IF ds = {} THEN "None" ELSE s[Min(ds)]
  BY Zenon DEF FirstDecision
<1> HIDE DEF ds
<1> QED
  BY <1>2, <1>4, <1>5, Zenon

\* A log that holds a decision has a first one, and that one it holds.
LEMMA FirstDecisionExists ==
    ASSUME NatWellOrdered, NEW s \in Seq(Commands)
    PROVE  \/ /\ FirstDecision(s) = "None"
              /\ \A i \in 1..Len(s) : s[i] \notin Decisions
           \/ \E i \in 1..Len(s) : /\ s[i] \in Decisions
                                   /\ \A j \in 1..(i - 1) : s[j] \notin Decisions
                                   /\ FirstDecision(s) = s[i]
<1> DEFINE ds == {k \in DOMAIN s : s[k] \in Decisions}
<1>1. DOMAIN s = 1..Len(s) /\ Len(s) \in Nat
  BY SMTT(30)
<1>2. FirstDecision(s) = IF ds = {} THEN "None" ELSE s[Min(ds)]
  BY Zenon DEF FirstDecision
<1>3. CASE ds = {}
  BY <1>1, <1>2, <1>3, Zenon
<1>4. CASE ds # {}
  <2>1. ds \subseteq Nat
    BY <1>1, SMTT(30)
  <2>2. Min(ds) \in ds /\ \A y \in ds : Min(ds) <= y
    BY <1>4, <2>1, MinNat, Zenon
  <2> DEFINE m == Min(ds)
  <2>3. m \in 1..Len(s) /\ s[m] \in Decisions
    BY <1>1, <2>2, Zenon
  <2>4. \A y \in 1..Len(s) : s[y] \in Decisions => m <= y
    BY <1>1, <2>2, Zenon
  <2>5. FirstDecision(s) = s[m]
    BY <1>2, <1>4, Zenon
  <2> HIDE DEF m
  <2>6. \A j \in 1..(m - 1) : s[j] \notin Decisions
    BY <2>3, <2>4, <1>1, SMTT(30)
  <2> QED
    BY <2>3, <2>5, <2>6, Zenon
<1> QED
  BY <1>3, <1>4, Zenon

\* A decision to commit that counts is in the log, and a log without decision has none.
LEMMA FirstDecisionIsInLog ==
    ASSUME NatWellOrdered, NEW s \in Seq(Commands)
    PROVE  /\ FirstDecision(s) \in Decisions \union {"None"}
           /\ FirstDecision(s) = "DecideCommit" => "DecideCommit" \in Range(s)
<1>1. DOMAIN s = 1..Len(s)
  BY SMTT(30)
<1>2. CASE FirstDecision(s) = "None"
  BY <1>2, Zenon
<1>3. CASE \E i \in 1..Len(s) : s[i] \in Decisions /\ FirstDecision(s) = s[i]
  <2>1. PICK i \in 1..Len(s) : s[i] \in Decisions /\ FirstDecision(s) = s[i]
    BY <1>3, Zenon
  <2> QED
    BY <2>1, <1>1, Zenon DEF Range
<1> QED
  BY <1>2, <1>3, FirstDecisionExists, Zenon

\* Another entry changes neither the first decision nor what the log holds.
LEMMA AppendKeeps ==
    ASSUME NatWellOrdered, NEW s \in Seq(Commands), NEW c \in Commands
    PROVE  /\ Append(s, c) \in Seq(Commands)
           /\ FirstDecision(s) # "None" => FirstDecision(Append(s, c)) = FirstDecision(s)
           /\ Range(Append(s, c)) = Range(s) \union {c}
<1> DEFINE t == Append(s, c)
<1>1. t \in Seq(Commands) /\ Len(t) = Len(s) + 1 /\ t[Len(s) + 1] = c
      /\ \A i \in 1..Len(s) : t[i] = s[i]
  BY SMTT(30)
<1>2. DOMAIN s = 1..Len(s) /\ DOMAIN t = 1..(Len(s) + 1) /\ Len(s) \in Nat
  BY <1>1, SMTT(30)
<1> HIDE DEF t
<1>3. Range(t) = Range(s) \union {c}
  <2>1. 1..(Len(s) + 1) = 1..Len(s) \union {Len(s) + 1}
    BY <1>2, SMTT(30)
  <2>2. \A x : x \in Range(t) <=> \E i \in 1..Len(s) \union {Len(s) + 1} : x = t[i]
    BY <1>2, <2>1, Zenon DEF Range
  <2>3. \A x : x \in Range(s) <=> \E i \in 1..Len(s) : x = s[i]
    BY <1>2, Zenon DEF Range
  <2> QED
    BY <1>1, <2>2, <2>3, Zenon
<1>4. ASSUME FirstDecision(s) # "None" PROVE FirstDecision(t) = FirstDecision(s)
  <2>1. PICK i \in 1..Len(s) : /\ s[i] \in Decisions
                               /\ \A j \in 1..(i - 1) : s[j] \notin Decisions
                               /\ FirstDecision(s) = s[i]
    BY <1>4, FirstDecisionExists, Zenon
  <2>2. i \in 1..Len(t) /\ t[i] \in Decisions /\ \A j \in 1..(i - 1) : t[j] \notin Decisions
    BY <1>1, <1>2, <2>1, SMTT(30)
  <2>3. FirstDecision(t) = t[i]
    BY <1>1, <2>2, FirstDecisionAt, Zenon
  <2> QED
    BY <1>1, <2>1, <2>3, Zenon
<1> QED
  BY <1>1, <1>3, <1>4, Zenon DEF t

-----------------------------------------------------------------------------
\* The invariant holds at the start.
LEMMA TwoPhaseInvInit ==
    Init => TwoPhaseInv
<1> SUFFICES ASSUME Init PROVE TwoPhaseInv
  BY Zenon
<1>1. \A g \in Groups : log[g] = <<>> /\ log[g] \in Seq(Commands) /\ Len(log[g]) = 0
  BY SMTT(30) DEF Init
<1>2. \A g \in Groups : \A c : ~Sent(g, c)
  <2>1. \A c : c \notin Range(<<>>)
    BY SMTT(30) DEF Range
  <2> QED
    BY <1>1, <2>1, Zenon DEF Init, Sent, InLog
<1>3. EmptyEngine \in EngineType /\ EmptyEngine.dec = "None" /\ ~Exposes(EmptyEngine)
  BY Zenon DEF EmptyEngine, EngineType, Txn2pcState, Exposes
<1>4. TwoPhaseTypeOK
  <2>1. eng \in [Nodes -> EngineType]
    BY <1>3, Zenon DEF Init
  <2>2. log \in [Groups -> Seq(Commands)]
    BY <1>1, Zenon DEF Init
  <2>3. crashes \in 0..MaxCrashes /\ sweeps \in 0..MaxSweeps
    BY TwoPhaseAssumption, SMTT(30) DEF Init
  <2> QED
    BY <2>1, <2>2, <2>3, Zenon DEF Init, TwoPhaseTypeOK, EngineType, Phases, Replies
<1>5. PlaceInv
  BY <1>1, <1>2, GroupFacts, SMTT(30) DEF PlaceInv, Init, Decisions
<1>6. DecisionIsFinal /\ UnseenInv
  BY <1>3, GroupFacts, SMTT(30) DEF DecisionIsFinal, UnseenInv, Init
<1>7. CommitInv
  BY <1>2, <1>3, Zenon DEF CommitInv, Init
<1>8. HeardInv
  BY <1>2, GroupFacts, Zenon DEF HeardInv, Init
<1> QED
  BY <1>4, <1>5, <1>6, <1>7, <1>8, Zenon DEF TwoPhaseInv

\* A step that leaves logs and engines alone keeps the decision and what the nodes know of it.
LEMMA ReplicasKept ==
    ASSUME TwoPhaseInv, log' = log, eng' = eng, applied' = applied, floor' = floor
    PROVE  /\ Decided' = Decided
           /\ DecisionIsFinal' /\ UnseenInv'
           /\ \A n \in Nodes : Exposes(eng[n])' => Decided' = "DecideCommit"
           /\ \A n \in Nodes : \A g \in Groups :
                  floor'[n][g] <= applied'[n][g] /\ applied'[n][g] <= Len(log'[g])
<1>1. Decided' = Decided
  BY Zenon DEF Decided
<1>2. DecisionIsFinal' /\ UnseenInv'
  BY <1>1, Zenon DEF TwoPhaseInv, DecisionIsFinal, UnseenInv
<1>3. \A n \in Nodes : Exposes(eng[n])' => Decided' = "DecideCommit"
  BY <1>1, Zenon DEF TwoPhaseInv, CommitInv, Exposes
<1> QED
  BY <1>1, <1>2, <1>3, Zenon DEF TwoPhaseInv, PlaceInv

\* The coordinator sends a command it may send, and enters the phase that waits for it.
LEMMA FanOutKeepsInv ==
    ASSUME TwoPhaseInv, UnchangedReplicas, config' = config, coord' \in Nodes,
           prepared' \subseteq Participants,
           NEW p \in Phases, p # "ok", NEW gs \in SUBSET Groups, NEW cmd \in Commands,
           fan_out(p, gs, cmd),
           cmd = "TxnPrepare" => gs \subseteq Participants,
           cmd \in Decisions => gs = {DECISION_GROUP},
           cmd = "TxnCommit2pc" \/ p = "commit" => Decided = "DecideCommit",
           cmd = "DecideCommit" => \A g \in Participants : InLog(g, "TxnPrepare")
    PROVE  TwoPhaseInv'
<1>1. log' = log /\ eng' = eng /\ applied' = applied /\ floor' = floor /\ up' = up
      /\ crashes' = crashes /\ sweeps' = sweeps
  BY Zenon DEF UnchangedReplicas
<1>2. phase' = p /\ flight' = flight \union (gs \X {cmd})
      /\ reply' = [g \in Groups |-> IF g \in gs THEN "wait" ELSE "none"]
  BY Zenon DEF fan_out
<1>3. TwoPhaseTypeOK'
  BY <1>1, <1>2, Zenon DEF TwoPhaseInv, TwoPhaseTypeOK, Replies
<1>4. \A g \in Groups : reply'[g] # "ok" /\ reply'[g] # "err"
  BY <1>2, Zenon
<1>5. \A g, c : /\ InLog(g, c)' <=> InLog(g, c)
                /\ Sent(g, c)' => Sent(g, c) \/ (g \in gs /\ c = cmd)
  BY <1>1, <1>2, Zenon DEF InLog, Sent
<1>6. PlaceInv'
  <2>1. /\ \A g \in Groups : Sent(g, "TxnPrepare")' => g \in Participants
        /\ \A g \in Groups : \A d \in Decisions : Sent(g, d)' => g = DECISION_GROUP
    BY <1>5, SMTT(30) DEF TwoPhaseInv, PlaceInv
  <2> QED
    BY <1>1, <2>1, ReplicasKept, Zenon DEF PlaceInv
<1>7. CommitInv'
  <2>1. \A g \in Groups : Sent(g, "TxnCommit2pc")' => Decided = "DecideCommit"
    BY <1>5, Zenon DEF TwoPhaseInv, CommitInv
  <2> QED
    BY <1>1, <1>2, <1>4, <2>1, ReplicasKept, GroupFacts, Zenon DEF CommitInv
<1>8. HeardInv'
  <2>1. Sent(DECISION_GROUP, "DecideCommit")' =>
           \A g \in Participants : InLog(g, "TxnPrepare")'
    BY <1>5, Zenon DEF TwoPhaseInv, HeardInv
  <2> QED
    BY <1>2, <1>4, <2>1, Zenon DEF HeardInv
<1> QED
  BY <1>1, <1>3, <1>6, <1>7, <1>8, ReplicasKept, Zenon DEF TwoPhaseInv

\* The coordinator returns to its client, or its task ends with its node.
LEMMA ReturnKeepsInv ==
    ASSUME TwoPhaseInv, UnchangedReplicas, config' = config, coord' \in Nodes,
           prepared' \subseteq Participants,
           NEW p \in Phases, p \notin {"commit", "prepare", "decide"}, Return(p),
           p = "ok" => /\ Decided = "DecideCommit"
                       /\ \A g \in Participants : InLog(g, "TxnCommit2pc")
    PROVE  TwoPhaseInv'
<1>1. log' = log /\ eng' = eng /\ applied' = applied /\ floor' = floor /\ up' = up
      /\ crashes' = crashes /\ sweeps' = sweeps
  BY Zenon DEF UnchangedReplicas
<1>2. phase' = p /\ flight' = flight /\ reply' = [g \in Groups |-> "none"]
  BY Zenon DEF Return
<1>3. TwoPhaseTypeOK'
  BY <1>1, <1>2, Zenon DEF TwoPhaseInv, TwoPhaseTypeOK, Replies
<1>5. \A g, c : (InLog(g, c)' <=> InLog(g, c)) /\ (Sent(g, c)' <=> Sent(g, c))
  BY <1>1, <1>2, Zenon DEF InLog, Sent
<1>6. PlaceInv'
  BY <1>1, <1>5, ReplicasKept, Zenon DEF TwoPhaseInv, PlaceInv
<1>7. CommitInv'
  BY <1>1, <1>2, <1>5, ReplicasKept, Zenon DEF TwoPhaseInv, CommitInv
<1>8. HeardInv'
  BY <1>2, <1>5, Zenon DEF TwoPhaseInv, HeardInv
<1> QED
  BY <1>1, <1>3, <1>6, <1>7, <1>8, ReplicasKept, Zenon DEF TwoPhaseInv

\* The steps of commit_cross_group.
LEMMA CoordinatorKeepsInv ==
    ASSUME TwoPhaseInv,
           \/ \E n \in Nodes : Begin(n)
           \/ PrepareDone \/ DecideDone \/ UndecideDone \/ ReleaseDone \/ CommitDone
    PROVE  TwoPhaseInv'
<1>1. coord \in Nodes /\ prepared \subseteq Participants /\ Participants \subseteq Groups
      /\ DECISION_GROUP \in Groups /\ prepared \subseteq Groups
  BY GroupFacts, Zenon DEF TwoPhaseInv, TwoPhaseTypeOK
<1>2. CASE \E n \in Nodes : Begin(n)
  <2>1. PICK n \in Nodes : Begin(n)
    BY <1>2, Zenon
  <2>2. fan_out("prepare", Participants, "TxnPrepare") /\ UnchangedReplicas /\ config' = config
        /\ coord' \in Nodes /\ prepared' \subseteq Participants
    BY <1>1, <2>1, Zenon DEF Begin
  <2>3. "TxnPrepare" \in Commands /\ "TxnPrepare" \notin Decisions /\ "prepare" \in Phases
    BY Zenon DEF Commands, Decisions, Phases
  <2> QED
    BY <1>1, <2>2, <2>3, FanOutKeepsInv, Zenon
<1>3. CASE PrepareDone
  <2> DEFINE oks == {g \in Participants : reply[g] = "ok"}
  <2>1. UnchangedReplicas /\ config' = config /\ coord' \in Nodes /\ phase = "prepare"
        /\ prepared' = oks
    BY <1>1, <1>3, Zenon DEF PrepareDone
  <2>2. prepared' \subseteq Participants
    BY <2>1, Zenon
  <2>3. "DecideCommit" \in Commands /\ "DecideAbort" \in Commands /\ "decide" \in Phases
        /\ "undecide" \in Phases /\ "failed" \in Phases /\ {DECISION_GROUP} \in SUBSET Groups
    BY <1>1, Zenon DEF Commands, Phases
  <2>4. CASE oks = Participants /\ fan_out("decide", {DECISION_GROUP}, "DecideCommit")
    <3>1. \A g \in Participants : InLog(g, "TxnPrepare")
      BY <1>1, <2>1, <2>4, Zenon DEF TwoPhaseInv, HeardInv
    <3> QED
      BY <2>1, <2>2, <2>3, <2>4, <3>1, FanOutKeepsInv, Zenon
  <2>5. CASE fan_out("undecide", {DECISION_GROUP}, "DecideAbort")
    BY <2>1, <2>2, <2>3, <2>5, FanOutKeepsInv, Zenon
  <2>6. CASE Return("failed")
    BY <2>1, <2>2, <2>3, <2>6, ReturnKeepsInv, Zenon
  <2> QED
    BY <1>3, <2>4, <2>5, <2>6, Zenon DEF PrepareDone
<1>4. CASE DecideDone
  <2>1. UnchangedReplicas /\ config' = config /\ coord' \in Nodes /\ phase = "decide"
        /\ prepared' \subseteq Participants
    BY <1>1, <1>4, Zenon DEF DecideDone
  <2>2. "TxnCommit2pc" \in Commands /\ "TxnCommit2pc" \notin Decisions
        /\ "DecideAbort" \in Commands /\ "commit" \in Phases
        /\ "undecide" \in Phases /\ {DECISION_GROUP} \in SUBSET Groups
    BY <1>1, Zenon DEF Commands, Decisions, Phases
  <2>3. CASE reply[DECISION_GROUP] = "ok" /\ fan_out("commit", Participants, "TxnCommit2pc")
    <3>1. Decided = "DecideCommit"
      BY <2>1, <2>3, Zenon DEF TwoPhaseInv, CommitInv
    <3> QED
      BY <1>1, <2>1, <2>2, <2>3, <3>1, FanOutKeepsInv, Zenon
  <2>4. CASE fan_out("undecide", {DECISION_GROUP}, "DecideAbort")
    BY <2>1, <2>2, <2>4, FanOutKeepsInv, Zenon
  <2> QED
    BY <1>4, <2>3, <2>4, Zenon DEF DecideDone
<1>5. CASE UndecideDone
  <2>1. UnchangedReplicas /\ config' = config /\ coord' \in Nodes
        /\ prepared' \subseteq Participants /\ fan_out("release", prepared, "TxnAbort2pc")
    BY <1>1, <1>5, Zenon DEF UndecideDone
  <2>2. "TxnAbort2pc" \in Commands /\ "TxnAbort2pc" \notin Decisions /\ "release" \in Phases
    BY Zenon DEF Commands, Decisions, Phases
  <2> QED
    BY <1>1, <2>1, <2>2, FanOutKeepsInv, Zenon
<1>6. CASE ReleaseDone
  <2>1. UnchangedReplicas /\ config' = config /\ coord' \in Nodes
        /\ prepared' \subseteq Participants /\ Return("failed") /\ "failed" \in Phases
    BY <1>1, <1>6, Zenon DEF ReleaseDone, Phases
  <2> QED
    BY <2>1, ReturnKeepsInv, Zenon
<1>7. CASE CommitDone
  <2> DEFINE p == IF \A g \in Participants : reply[g] = "ok" THEN "ok" ELSE "unsure"
  <2>1. UnchangedReplicas /\ config' = config /\ coord' \in Nodes
        /\ prepared' \subseteq Participants /\ Return(p) /\ phase = "commit"
    BY <1>1, <1>7, Zenon DEF CommitDone
  <2>2. p \in Phases /\ p \notin {"commit", "prepare", "decide"}
    BY Zenon DEF Phases
  <2>3. p = "ok" => /\ Decided = "DecideCommit"
                    /\ \A g \in Participants : InLog(g, "TxnCommit2pc")
    BY <1>1, <2>1, Zenon DEF TwoPhaseInv, CommitInv, HeardInv
  <2> HIDE DEF p
  <2> QED
    BY <2>1, <2>2, <2>3, ReturnKeepsInv, Zenon
<1> QED
  BY <1>2, <1>3, <1>4, <1>5, <1>6, <1>7, Zenon

\* A phase's deadline, and a proposal that is refused or lost: the coordinator hears no success.
LEMMA FailureKeepsInv ==
    ASSUME TwoPhaseInv, NEW g \in Groups,
           Timeout(g) \/ \E cmd \in Commands : Lose(g, cmd)
    PROVE  TwoPhaseInv'
<1>1. /\ log' = log /\ eng' = eng /\ applied' = applied /\ floor' = floor /\ up' = up
      /\ crashes' = crashes /\ sweeps' = sweeps /\ config' = config /\ phase' = phase
      /\ coord' = coord /\ prepared' = prepared
      /\ flight' \subseteq flight
      /\ \/ reply' = reply
         \/ reply' = [reply EXCEPT ![g] = "err"]
  BY Zenon DEF Timeout, Lose, UnchangedReplicas, Heard
<1>2. reply' \in [Groups -> Replies] /\ \A h \in Groups : reply'[h] = "ok" => reply[h] = "ok"
  BY <1>1, Zenon DEF TwoPhaseInv, TwoPhaseTypeOK, Replies
<1>3. TwoPhaseTypeOK'
  BY <1>1, <1>2, Zenon DEF TwoPhaseInv, TwoPhaseTypeOK
<1>5. \A h, c : (InLog(h, c)' <=> InLog(h, c)) /\ (Sent(h, c)' => Sent(h, c))
  BY <1>1, Zenon DEF InLog, Sent
<1>6. PlaceInv'
  BY <1>1, <1>5, ReplicasKept, Zenon DEF TwoPhaseInv, PlaceInv
<1>7. CommitInv'
  BY <1>1, <1>2, <1>5, ReplicasKept, GroupFacts, Zenon DEF TwoPhaseInv, CommitInv
<1>8. HeardInv'
  BY <1>1, <1>2, <1>5, Zenon DEF TwoPhaseInv, HeardInv
<1> QED
  BY <1>1, <1>3, <1>6, <1>7, <1>8, ReplicasKept, Zenon DEF TwoPhaseInv

\* The sweep of a node that gains the meta group proposes only to abort.
LEMMA SweepKeepsInv ==
    ASSUME TwoPhaseInv, NEW n \in Nodes, abort_orphaned_prepares(n)
    PROVE  TwoPhaseInv'
<1>1. /\ log' = log /\ eng' = eng /\ applied' = applied /\ floor' = floor /\ up' = up
      /\ crashes' = crashes /\ config' = config /\ phase' = phase /\ reply' = reply
      /\ coord' = coord /\ prepared' = prepared /\ sweeps' = sweeps + 1 /\ sweeps < MaxSweeps
      /\ flight' = flight \union {<<DECISION_GROUP, "DecideAbort">>}
  BY Zenon DEF abort_orphaned_prepares, coordinator
<1>2. TwoPhaseTypeOK'
  <2>1. sweeps' \in 0..MaxSweeps
    BY <1>1, TwoPhaseAssumption, SMTT(30) DEF TwoPhaseInv, TwoPhaseTypeOK
  <2>2. flight' \subseteq Groups \X Commands
    BY <1>1, GroupFacts, SMTT(30) DEF TwoPhaseInv, TwoPhaseTypeOK, Commands
  <2> QED
    BY <1>1, <2>1, <2>2, Zenon DEF TwoPhaseInv, TwoPhaseTypeOK
<1>5. \A h, c : /\ InLog(h, c)' <=> InLog(h, c)
                /\ Sent(h, c)' => Sent(h, c) \/ (h = DECISION_GROUP /\ c = "DecideAbort")
  BY <1>1, Zenon DEF InLog, Sent
<1>6. PlaceInv'
  BY <1>1, <1>5, ReplicasKept, SMTT(30) DEF TwoPhaseInv, PlaceInv
<1>7. CommitInv'
  BY <1>1, <1>5, ReplicasKept, SMTT(30) DEF TwoPhaseInv, CommitInv
<1>8. HeardInv'
  BY <1>1, <1>5, SMTT(30) DEF TwoPhaseInv, HeardInv
<1> QED
  BY <1>1, <1>2, <1>6, <1>7, <1>8, ReplicasKept, Zenon DEF TwoPhaseInv

\* A group commits a proposal: the logs grow, and a decision that counted still counts.
LEMMA ReplicateGrows ==
    ASSUME NatWellOrdered, TwoPhaseInv, NEW g \in Groups, NEW cmd \in Commands, Replicate(g, cmd)
    PROVE  /\ log' \in [Groups -> Seq(Commands)]
           /\ \A h \in Groups : /\ Len(log[h]) <= Len(log'[h])
                                /\ \A i \in 1..Len(log[h]) : log'[h][i] = log[h][i]
           /\ Decided # "None" => Decided' = Decided
           /\ \A h \in Groups : \A c : InLog(h, c)' <=> InLog(h, c) \/ (h = g /\ c = cmd)
           /\ \A h \in Groups : \A c : Sent(h, c)' => Sent(h, c)
<1>1. <<g, cmd>> \in flight /\ flight' = flight \ {<<g, cmd>>}
      /\ log' = [log EXCEPT ![g] = Append(@, cmd)]
  BY Zenon DEF Replicate
<1>2. \A h \in Groups : log[h] \in Seq(Commands)
  BY Zenon DEF TwoPhaseInv, TwoPhaseTypeOK
<1>3. log \in [Groups -> Seq(Commands)]
  BY Zenon DEF TwoPhaseInv, TwoPhaseTypeOK
<1>4. /\ log'[g] = Append(log[g], cmd)
      /\ \A h \in Groups : h # g => log'[h] = log[h]
      /\ DOMAIN log' = Groups /\ log' = [h \in Groups |-> log'[h]]
  BY <1>1, <1>3, Zenon
<1>5. log' \in [Groups -> Seq(Commands)]
  <2>1. \A h \in Groups : log'[h] \in Seq(Commands)
    BY <1>2, <1>4, AppendKeeps, Zenon
  <2> QED
    BY <1>4, <2>1, Zenon
<1>6. \A h \in Groups : /\ Len(log[h]) <= Len(log'[h])
                        /\ \A i \in 1..Len(log[h]) : log'[h][i] = log[h][i]
  <2>1. Len(log[g]) <= Len(log'[g]) /\ \A i \in 1..Len(log[g]) : log'[g][i] = log[g][i]
    <3> DEFINE l == log[g]
    <3>1. l \in Seq(Commands) /\ log'[g] = Append(l, cmd)
      BY <1>2, <1>4, Zenon
    <3> HIDE DEF l
    <3>2. Len(l) <= Len(Append(l, cmd)) /\ \A i \in 1..Len(l) : Append(l, cmd)[i] = l[i]
      BY <3>1, SMTT(30)
    <3> QED
      BY <3>1, <3>2, Zenon DEF l
  <2>2. \A h \in Groups : Len(log[h]) <= Len(log[h])
    BY <1>2, SMTT(30)
  <2> QED
    BY <1>4, <2>1, <2>2, Zenon
<1>7. Decided # "None" => Decided' = Decided
  <2>1. CASE DECISION_GROUP = g
    BY <1>2, <1>4, <2>1, AppendKeeps, Zenon DEF Decided
  <2>2. CASE DECISION_GROUP # g
    BY <1>4, <2>2, GroupFacts, Zenon DEF Decided
  <2> QED
    BY <2>1, <2>2, Zenon
<1>8. \A h \in Groups : \A c : InLog(h, c)' <=> InLog(h, c) \/ (h = g /\ c = cmd)
  <2>1. Range(log'[g]) = Range(log[g]) \union {cmd}
    BY <1>2, <1>4, AppendKeeps, Zenon
  <2> QED
    BY <1>4, <2>1, Zenon DEF InLog
<1>9. \A h \in Groups : \A c : Sent(h, c)' => Sent(h, c)
  BY <1>1, <1>8, Zenon DEF Sent
<1> QED
  BY <1>5, <1>6, <1>7, <1>8, <1>9, Zenon

\* The commit of a proposal keeps the invariant.
LEMMA ReplicateKeepsInv ==
    ASSUME NatWellOrdered, TwoPhaseInv, NEW g \in Groups, NEW cmd \in Commands, Replicate(g, cmd)
    PROVE  TwoPhaseInv'
<1>1. /\ eng' = eng /\ applied' = applied /\ floor' = floor /\ up' = up /\ sweeps' = sweeps
      /\ crashes' = crashes /\ config' = config /\ phase' = phase /\ reply' = reply
      /\ coord' = coord /\ prepared' = prepared /\ flight' \subseteq flight
  BY Zenon DEF Replicate, coordinator
<1>2. TwoPhaseTypeOK'
  BY <1>1, ReplicateGrows, Zenon DEF TwoPhaseInv, TwoPhaseTypeOK
<1>3. PlaceInv'
  <2>1. ASSUME NEW n \in Nodes, NEW h \in Groups
        PROVE  floor'[n][h] <= applied'[n][h] /\ applied'[n][h] <= Len(log'[h])
    <3>1. applied \in [Nodes -> [Groups -> Nat]] /\ log \in [Groups -> Seq(Commands)]
      BY Zenon DEF TwoPhaseInv, TwoPhaseTypeOK
    <3>2. applied[n][h] \in Nat /\ Len(log[h]) \in Nat
      BY <3>1, SMTT(30)
    <3>3. Len(log'[h]) \in Nat /\ Len(log[h]) <= Len(log'[h])
      BY ReplicateGrows, SMTT(30)
    <3>4. floor[n][h] <= applied[n][h] /\ applied[n][h] <= Len(log[h])
      BY Zenon DEF TwoPhaseInv, PlaceInv
    <3>5. applied[n][h] <= Len(log'[h])
      BY <3>2, <3>3, <3>4, SMTT(30)
    <3> QED
      BY <1>1, <3>4, <3>5, Zenon
  <2>2. \A h \in Groups : \A c : Sent(h, c)' => Sent(h, c)
    BY ReplicateGrows, Zenon
  <2> QED
    BY <2>1, <2>2, Zenon DEF TwoPhaseInv, PlaceInv
<1>4. DecisionIsFinal'
  BY <1>1, ReplicateGrows, Zenon DEF TwoPhaseInv, DecisionIsFinal
<1>5. UnseenInv'
  <2>1. \A n \in Nodes : 1..applied[n][DECISION_GROUP] \subseteq 1..Len(log[DECISION_GROUP])
    BY GroupFacts, SMTT(30) DEF TwoPhaseInv, PlaceInv, TwoPhaseTypeOK
  <2> QED
    BY <1>1, <2>1, ReplicateGrows, GroupFacts, Zenon DEF TwoPhaseInv, UnseenInv
<1>6. CommitInv'
  <2>1. Decided = "DecideCommit" => Decided' = "DecideCommit"
    BY ReplicateGrows, Zenon
  <2>2. \A n \in Nodes : Exposes(eng[n])' => Exposes(eng[n])
    BY <1>1, Zenon DEF Exposes
  <2> QED
    BY <1>1, <2>1, <2>2, ReplicateGrows, Zenon DEF TwoPhaseInv, CommitInv
<1>7. HeardInv'
  BY <1>1, ReplicateGrows, GroupFacts, Zenon DEF TwoPhaseInv, HeardInv
<1> QED
  BY <1>2, <1>3, <1>4, <1>5, <1>6, <1>7, Zenon DEF TwoPhaseInv

-----------------------------------------------------------------------------
\* An engine that has gone through part of the next entry of a group knows no decision but
\* the one that counts, and exposes nothing before it.
LEMMA EntryMoves ==
    ASSUME NatWellOrdered, TwoPhaseInv, NEW n \in Nodes, NEW g \in Groups, applied[n][g] < Len(log[g]),
           NEW f, Moves(eng[n], log[g][applied[n][g] + 1], f)
    PROVE  /\ f \in EngineType
           /\ f.dec \in {"None", Decided}
           /\ f.dec = "None" => eng[n].dec = "None"
           /\ Exposes(f) => Decided = "DecideCommit"
<1> DEFINE k == applied[n][g] + 1
           cmd == log[g][k]
<1>1. k \in 1..Len(log[g]) /\ applied[n][g] \in Nat /\ log[g] \in Seq(Commands)
      /\ cmd \in Commands /\ DOMAIN log[g] = 1..Len(log[g])
  BY SMTT(30) DEF TwoPhaseInv, TwoPhaseTypeOK
<1>2. InLog(g, cmd)
  BY <1>1, Zenon DEF InLog, Range
<1>3. cmd \in Decisions => g = DECISION_GROUP
  BY <1>2, Zenon DEF TwoPhaseInv, PlaceInv, Sent
<1>4. eng[n].dec \in {"None", Decided}
  BY Zenon DEF TwoPhaseInv, DecisionIsFinal
<1>5. cmd \in Decisions /\ eng[n].dec = "None" => Decided = cmd
  <2>1. SUFFICES ASSUME cmd \in Decisions, eng[n].dec = "None", g = DECISION_GROUP
                 PROVE  Decided = cmd
    BY <1>3, Zenon
  <2>2. \A j \in 1..(k - 1) : log[g][j] \notin Decisions
    BY <1>1, <2>1, SMTT(30) DEF TwoPhaseInv, UnseenInv
  <2> QED
    BY <1>1, <2>1, <2>2, FirstDecisionAt, Zenon DEF Decided
<1>6. Moves(eng[n], cmd, f)
  BY Zenon
<1>7. cmd = "TxnCommit2pc" => Decided = "DecideCommit"
  BY <1>2, Zenon DEF TwoPhaseInv, CommitInv, Sent
<1>8. Exposes(eng[n]) => Decided = "DecideCommit"
  BY Zenon DEF TwoPhaseInv, CommitInv
<1> HIDE DEF cmd
<1>9. f \in EngineType /\ f.dec \in {"None", Decided}
  BY <1>4, <1>5, <1>6, Zenon DEF Moves
<1>10. f.dec = "None" => eng[n].dec = "None"
  BY <1>6, Zenon DEF Moves, Decisions
<1>11. Exposes(f) => Decided = "DecideCommit"
  <2>1. cmd = "DecideCommit" => cmd \in Decisions
    BY Zenon DEF Decisions
  <2> QED
    BY <1>4, <1>5, <1>6, <1>7, <1>8, <2>1, SMTT(30) DEF Moves
<1> QED
  BY <1>9, <1>10, <1>11, Zenon

\* A node's engine changes to f, which knows and exposes what it may.
LEMMA EngineKeepsInv ==
    ASSUME TwoPhaseInv, NEW n \in Nodes, NEW f \in EngineType,
           eng' = [eng EXCEPT ![n] = f], log' = log,
           f.dec \in {"None", Decided}, f.dec = "None" => eng[n].dec = "None",
           Exposes(f) => Decided = "DecideCommit"
    PROVE  /\ eng' \in [Nodes -> EngineType]
           /\ Decided' = Decided
           /\ DecisionIsFinal'
           /\ \A m \in Nodes : Exposes(eng[m])' => Decided' = "DecideCommit"
           /\ \A m \in Nodes : eng'[m].dec = "None" => eng[m].dec = "None"
<1>1. eng \in [Nodes -> EngineType]
  BY Zenon DEF TwoPhaseInv, TwoPhaseTypeOK, EngineType
<1>2. eng' \in [Nodes -> EngineType] /\ eng'[n] = f /\ \A m \in Nodes : m # n => eng'[m] = eng[m]
  BY <1>1, Zenon
<1>3. Decided' = Decided
  BY Zenon DEF Decided
<1>4. DecisionIsFinal'
  BY <1>2, <1>3, Zenon DEF TwoPhaseInv, DecisionIsFinal
<1>5. ASSUME NEW m \in Nodes PROVE Exposes(eng[m])' => Decided' = "DecideCommit"
  <2>1. Exposes(eng[m]) => Decided = "DecideCommit"
    BY Zenon DEF TwoPhaseInv, CommitInv
  <2>2. CASE m = n
    BY <1>2, <1>3, <2>2, Zenon DEF Exposes
  <2>3. CASE m # n
    BY <1>2, <1>3, <2>1, <2>3, Zenon DEF Exposes
  <2> QED
    BY <2>2, <2>3, Zenon
<1> QED
  BY <1>2, <1>3, <1>4, <1>5, Zenon

\* drain_and_apply takes an entry.
LEMMA ApplyKeepsInv ==
    ASSUME NatWellOrdered, TwoPhaseInv, NEW n \in Nodes, NEW g \in Groups, Apply(n, g)
    PROVE  TwoPhaseInv'
<1> DEFINE k == applied[n][g] + 1
           cmd == log[g][k]
           bad == Refused(eng[n], cmd)
           f == Final(eng[n], apply_command(eng[n], g, cmd))
<1>1. /\ applied[n][g] < Len(log[g])
      /\ eng' = [eng EXCEPT ![n] = f]
      /\ applied' = [applied EXCEPT ![n][g] = k]
      /\ floor' = [floor EXCEPT ![n][g] = IF bad THEN @ ELSE k]
      /\ reply' \in {reply, Heard(g, cmd, IF bad THEN "err" ELSE "ok")}
      /\ config' = config /\ phase' = phase /\ coord' = coord /\ prepared' = prepared
      /\ flight' = flight /\ log' = log /\ up' = up /\ crashes' = crashes /\ sweeps' = sweeps
  BY Zenon DEF Apply, TwoPhaseInv, TwoPhaseTypeOK
<1>2. k \in 1..Len(log[g]) /\ applied[n][g] \in Nat /\ log[g] \in Seq(Commands)
      /\ cmd \in Commands /\ DOMAIN log[g] = 1..Len(log[g]) /\ Len(log[g]) \in Nat
  BY <1>1, SMTT(30) DEF TwoPhaseInv, TwoPhaseTypeOK
<1>3. InLog(g, cmd)
  BY <1>2, Zenon DEF InLog, Range
<1>4. eng[n] \in EngineType
  BY Zenon DEF TwoPhaseInv, TwoPhaseTypeOK, EngineType
<1>5. cmd = "TxnPrepare" => g \in Participants
  BY <1>3, Zenon DEF TwoPhaseInv, PlaceInv, Sent
<1>6. Moves(eng[n], cmd, f) /\ (cmd \in Decisions /\ ~bad => f.dec = cmd)
  BY <1>2, <1>4, <1>5, CommandWrites, Zenon
<1>7. /\ f \in EngineType
      /\ f.dec \in {"None", Decided}
      /\ f.dec = "None" => eng[n].dec = "None"
      /\ Exposes(f) => Decided = "DecideCommit"
  BY <1>1, <1>6, EntryMoves, Zenon
<1>8. cmd \in Decisions /\ bad => eng[n].dec \notin {"None", cmd}
  BY Zenon DEF Refused, Decisions
<1>9. \A r : Heard(g, cmd, r) \in {reply, [reply EXCEPT ![g] = r]}
             /\ (Heard(g, cmd, r) # reply => Awaits(cmd))
  BY Zenon DEF Heard
<1> HIDE DEF f, cmd, bad
<1>10. /\ eng' \in [Nodes -> EngineType]
       /\ Decided' = Decided
       /\ DecisionIsFinal'
       /\ \A m \in Nodes : Exposes(eng[m])' => Decided' = "DecideCommit"
       /\ \A m \in Nodes : eng'[m].dec = "None" => eng[m].dec = "None"
  BY <1>1, <1>7, EngineKeepsInv, Zenon
<1>11. /\ reply' \in [Groups -> Replies]
       /\ \A h \in Groups : reply'[h] = "ok" /\ reply[h] # "ok" =>
              h = g /\ Awaits(cmd) /\ ~bad
  <2>1. reply \in [Groups -> Replies]
    BY Zenon DEF TwoPhaseInv, TwoPhaseTypeOK
  <2>2. CASE reply' = reply
    BY <2>1, <2>2, Zenon
  <2>3. CASE reply' # reply
    <3>1. Awaits(cmd) /\ reply' = [reply EXCEPT ![g] = IF bad THEN "err" ELSE "ok"]
      BY <1>1, <1>9, <2>3, Zenon
    <3> QED
      BY <2>1, <3>1, Zenon DEF Replies
  <2> QED
    BY <2>2, <2>3, Zenon
<1>12. applied \in [Nodes -> [Groups -> Nat]] /\ floor \in [Nodes -> [Groups -> Nat]]
  BY Zenon DEF TwoPhaseInv, TwoPhaseTypeOK
<1>13. /\ applied' \in [Nodes -> [Groups -> Nat]] /\ floor' \in [Nodes -> [Groups -> Nat]]
       /\ \A m \in Nodes : \A h \in Groups :
             /\ applied'[m][h] = IF m = n /\ h = g THEN k ELSE applied[m][h]
             /\ floor'[m][h] = IF m = n /\ h = g /\ ~bad THEN k ELSE floor[m][h]
  <2>1. k \in Nat
    BY <1>2, SMTT(30)
  <2> HIDE DEF k
  <2> QED
    BY <1>1, <1>12, <2>1, Zenon
<1>14. TwoPhaseTypeOK'
  BY <1>1, <1>10, <1>11, <1>13, Zenon DEF TwoPhaseInv, TwoPhaseTypeOK, EngineType
<1>15. \A h, c : (InLog(h, c)' <=> InLog(h, c)) /\ (Sent(h, c)' <=> Sent(h, c))
  BY <1>1, Zenon DEF InLog, Sent
<1>16. PlaceInv'
  <2>1. ASSUME NEW m \in Nodes, NEW h \in Groups
        PROVE  floor'[m][h] <= applied'[m][h] /\ applied'[m][h] <= Len(log'[h])
    <3>1. floor[m][h] <= applied[m][h] /\ applied[m][h] <= Len(log[h])
          /\ floor[m][h] \in Nat /\ applied[m][h] \in Nat
      BY <1>12, Zenon DEF TwoPhaseInv, PlaceInv
    <3> QED
      BY <1>1, <1>2, <1>13, <3>1, SMTT(30)
  <2> QED
    BY <2>1, <1>15, Zenon DEF TwoPhaseInv, PlaceInv
<1>17. UnseenInv'
  <2>1. SUFFICES ASSUME NEW m \in Nodes, eng'[m].dec = "None",
                        NEW i \in 1..applied'[m][DECISION_GROUP]
                 PROVE  log[DECISION_GROUP][i] \notin Decisions
    BY <1>1, Zenon DEF UnseenInv
  <2>2. \A j \in 1..applied[m][DECISION_GROUP] : log[DECISION_GROUP][j] \notin Decisions
    BY <1>10, <2>1, Zenon DEF TwoPhaseInv, UnseenInv
  <2>3. CASE m = n /\ g = DECISION_GROUP /\ i = k
    <3>1. eng'[n] = f
      BY <1>1, <1>4, Zenon DEF TwoPhaseInv, TwoPhaseTypeOK
    <3>2. f.dec = "None" /\ eng[n].dec = "None"
      BY <1>7, <2>1, <2>3, <3>1, Zenon
    <3>3. cmd \notin Decisions
      BY <1>6, <1>8, <3>2, Zenon DEF Decisions
    <3> QED
      BY <2>3, <3>3, Zenon DEF cmd
  <2>4. CASE ~(m = n /\ g = DECISION_GROUP /\ i = k)
    <3>1. i \in 1..applied[m][DECISION_GROUP]
      <4> DEFINE d == DECISION_GROUP
      <4>1. d \in Groups /\ applied[m][d] \in Nat /\ applied[n][g] \in Nat
        BY <1>12, GroupFacts, Zenon
      <4>2. applied'[m][d] = IF m = n /\ d = g THEN k ELSE applied[m][d]
        BY <1>13, <4>1, Zenon
      <4> HIDE DEF d
      <4>3. i \in 1..applied'[m][d] /\ ~(m = n /\ g = d /\ i = k)
        BY <2>4, Zenon DEF d
      <4>4. CASE m = n /\ d = g
        BY <4>1, <4>2, <4>3, <4>4, SMTT(30) DEF d
      <4>5. CASE ~(m = n /\ d = g)
        BY <4>2, <4>3, <4>5, Zenon DEF d
      <4> QED
        BY <4>4, <4>5, Zenon
    <3> QED
      BY <2>2, <3>1, Zenon
  <2> QED
    BY <2>3, <2>4, Zenon
<1>18. CommitInv'
  <2>1. phase = "decide" /\ reply'[DECISION_GROUP] = "ok" => Decided = "DecideCommit"
    <3>1. SUFFICES ASSUME phase = "decide", reply'[DECISION_GROUP] = "ok",
                          reply[DECISION_GROUP] # "ok"
                   PROVE  Decided = "DecideCommit"
      BY Zenon DEF TwoPhaseInv, CommitInv
    <3>2. Awaits(cmd) /\ ~bad
      BY <1>11, <3>1, GroupFacts, Zenon
    <3>3. cmd = "DecideCommit" /\ cmd \in Decisions
      BY <3>1, <3>2, Zenon DEF Awaits, Decisions
    <3> QED
      BY <1>6, <1>7, <3>2, <3>3, Zenon
  <2> QED
    BY <1>1, <1>10, <1>15, <2>1, Zenon DEF TwoPhaseInv, CommitInv
<1>19. HeardInv'
  <2>1. phase = "prepare" => \A h \in Groups : reply'[h] = "ok" => InLog(h, "TxnPrepare")
    BY <1>3, <1>11, Zenon DEF TwoPhaseInv, HeardInv, Awaits
  <2>2. phase = "commit" => \A h \in Groups : reply'[h] = "ok" => InLog(h, "TxnCommit2pc")
    BY <1>3, <1>11, Zenon DEF TwoPhaseInv, HeardInv, Awaits
  <2> QED
    BY <1>1, <1>15, <2>1, <2>2, Zenon DEF TwoPhaseInv, HeardInv
<1> QED
  BY <1>10, <1>14, <1>16, <1>17, <1>18, <1>19, Zenon DEF TwoPhaseInv

\* A node goes down and leaves an engine f, which knows and exposes what it may.
LEMMA DownKeepsInv ==
    ASSUME TwoPhaseInv, NEW n \in Nodes, NEW f \in EngineType, Down(n),
           eng' = [eng EXCEPT ![n] = f],
           f.dec \in {"None", Decided}, f.dec = "None" => eng[n].dec = "None",
           Exposes(f) => Decided = "DecideCommit"
    PROVE  TwoPhaseInv'
<1>1. /\ config' = config /\ coord' = coord /\ prepared' = prepared /\ flight' = flight
      /\ log' = log /\ applied' = applied /\ floor' = floor /\ sweeps' = sweeps
      /\ up' \subseteq up /\ crashes < MaxCrashes /\ crashes' = crashes + 1
      /\ \/ phase' = "gone" /\ reply' = [g \in Groups |-> "none"]
         \/ phase' = phase /\ reply' = reply
  BY Zenon DEF Down
<1>2. /\ eng' \in [Nodes -> EngineType]
      /\ Decided' = Decided
      /\ DecisionIsFinal'
      /\ \A m \in Nodes : Exposes(eng[m])' => Decided' = "DecideCommit"
      /\ \A m \in Nodes : eng'[m].dec = "None" => eng[m].dec = "None"
  BY <1>1, EngineKeepsInv, Zenon
<1>3. TwoPhaseTypeOK'
  <2>1. crashes' \in 0..MaxCrashes
    BY <1>1, TwoPhaseAssumption, SMTT(30) DEF TwoPhaseInv, TwoPhaseTypeOK
  <2>2. phase' \in Phases /\ reply' \in [Groups -> Replies]
    BY <1>1, Zenon DEF TwoPhaseInv, TwoPhaseTypeOK, Phases, Replies
  <2> QED
    BY <1>1, <1>2, <2>1, <2>2, Zenon DEF TwoPhaseInv, TwoPhaseTypeOK, EngineType
<1>4. \A h, c : (InLog(h, c)' <=> InLog(h, c)) /\ (Sent(h, c)' <=> Sent(h, c))
  BY <1>1, Zenon DEF InLog, Sent
<1>5. PlaceInv'
  BY <1>1, <1>4, Zenon DEF TwoPhaseInv, PlaceInv
<1>6. UnseenInv'
  BY <1>1, <1>2, Zenon DEF TwoPhaseInv, UnseenInv
<1>7. CommitInv'
  BY <1>1, <1>2, <1>4, Zenon DEF TwoPhaseInv, CommitInv
<1>8. HeardInv'
  BY <1>1, <1>4, Zenon DEF TwoPhaseInv, HeardInv
<1> QED
  BY <1>2, <1>3, <1>5, <1>6, <1>7, <1>8, Zenon DEF TwoPhaseInv

\* What recovery leaves behind knows and exposes what it may.
LEMMA RecoveryMoves ==
    ASSUME TwoPhaseInv, NEW n \in Nodes
    PROVE  /\ \A f \in States(eng[n], recover_incomplete_2pc(eng[n])) :
                 /\ f \in EngineType
                 /\ f.dec \in {"None", Decided}
                 /\ f.dec = "None" => eng[n].dec = "None"
                 /\ Exposes(f) => Decided = "DecideCommit"
           /\ Final(eng[n], recover_incomplete_2pc(eng[n])) \in
                 States(eng[n], recover_incomplete_2pc(eng[n]))
<1>1. eng[n] \in EngineType /\ eng[n].dec \in {"None", Decided}
      /\ (Exposes(eng[n]) => Decided = "DecideCommit")
  BY Zenon DEF TwoPhaseInv, TwoPhaseTypeOK, EngineType, DecisionIsFinal, CommitInv
<1> QED
  BY <1>1, RecoveryWrites, Zenon

\* Crashes: between two entries, inside one, inside the recovery.
LEMMA CrashKeepsInv ==
    ASSUME NatWellOrdered, TwoPhaseInv, NEW n \in Nodes,
           Crash(n) \/ CrashInRestart(n) \/ \E g \in Groups : CrashInApply(n, g)
    PROVE  TwoPhaseInv'
<1>1. eng \in [Nodes -> EngineType] /\ eng[n] \in EngineType
      /\ eng[n].dec \in {"None", Decided}
      /\ (Exposes(eng[n]) => Decided = "DecideCommit")
  BY Zenon DEF TwoPhaseInv, TwoPhaseTypeOK, EngineType, DecisionIsFinal, CommitInv
<1>2. CASE Crash(n)
  <2>1. Down(n) /\ eng' = [eng EXCEPT ![n] = eng[n]]
    BY <1>1, <1>2, Zenon DEF Crash
  <2> QED
    BY <1>1, <2>1, DownKeepsInv, Zenon
<1>3. CASE CrashInRestart(n)
  <2>1. PICK f \in States(eng[n], recover_incomplete_2pc(eng[n])) :
            eng' = [eng EXCEPT ![n] = f]
    BY <1>3, Zenon DEF CrashInRestart
  <2>2. Down(n)
    BY <1>3, Zenon DEF CrashInRestart
  <2> QED
    BY <2>1, <2>2, RecoveryMoves, DownKeepsInv, Zenon
<1>4. CASE \E g \in Groups : CrashInApply(n, g)
  <2>1. PICK g \in Groups : CrashInApply(n, g)
    BY <1>4, Zenon
  <2> DEFINE cmd == log[g][applied[n][g] + 1]
  <2>2. applied[n][g] < Len(log[g]) /\ Down(n)
    BY <2>1, Zenon DEF CrashInApply
  <2>3. PICK f \in States(eng[n], apply_command(eng[n], g, cmd)) :
            eng' = [eng EXCEPT ![n] = f]
    BY <2>1, Zenon DEF CrashInApply
  <2>4. applied[n][g] + 1 \in 1..Len(log[g]) /\ log[g] \in Seq(Commands) /\ cmd \in Commands
        /\ DOMAIN log[g] = 1..Len(log[g])
    BY <2>2, SMTT(30) DEF TwoPhaseInv, TwoPhaseTypeOK
  <2>5. InLog(g, cmd)
    BY <2>4, Zenon DEF InLog, Range
  <2>6. cmd = "TxnPrepare" => g \in Participants
    BY <2>5, Zenon DEF TwoPhaseInv, PlaceInv, Sent
  <2>7. Moves(eng[n], cmd, f)
    BY <1>1, <2>3, <2>4, <2>6, CommandWrites, Zenon
  <2>8. /\ f \in EngineType
        /\ f.dec \in {"None", Decided}
        /\ f.dec = "None" => eng[n].dec = "None"
        /\ Exposes(f) => Decided = "DecideCommit"
    BY <2>2, <2>7, EntryMoves, Zenon
  <2> QED
    BY <2>2, <2>3, <2>8, DownKeepsInv, Zenon
<1> QED
  BY <1>2, <1>3, <1>4, Zenon

\* Engine::open, and the groups resume behind the durable apply index.
LEMMA RestartKeepsInv ==
    ASSUME TwoPhaseInv, NEW n \in Nodes, Restart(n)
    PROVE  TwoPhaseInv'
<1> DEFINE f == Final(eng[n], recover_incomplete_2pc(eng[n]))
<1>1. /\ eng' = [eng EXCEPT ![n] = f]
      /\ applied' = [applied EXCEPT ![n] = floor[n]]
      /\ config' = config /\ coord' = coord /\ prepared' = prepared /\ flight' = flight
      /\ log' = log /\ floor' = floor /\ sweeps' = sweeps /\ crashes' = crashes
      /\ phase' = phase /\ reply' = reply /\ up' = up \union {n}
  BY Zenon DEF Restart, coordinator, TwoPhaseInv, TwoPhaseTypeOK
<1>2. /\ f \in EngineType
      /\ f.dec \in {"None", Decided}
      /\ f.dec = "None" => eng[n].dec = "None"
      /\ Exposes(f) => Decided = "DecideCommit"
  BY RecoveryMoves, Zenon
<1> HIDE DEF f
<1>3. /\ eng' \in [Nodes -> EngineType]
      /\ Decided' = Decided
      /\ DecisionIsFinal'
      /\ \A m \in Nodes : Exposes(eng[m])' => Decided' = "DecideCommit"
      /\ \A m \in Nodes : eng'[m].dec = "None" => eng[m].dec = "None"
  BY <1>1, <1>2, EngineKeepsInv, Zenon
<1>4. applied \in [Nodes -> [Groups -> Nat]] /\ floor \in [Nodes -> [Groups -> Nat]]
  BY Zenon DEF TwoPhaseInv, TwoPhaseTypeOK
<1>5. /\ applied' \in [Nodes -> [Groups -> Nat]]
      /\ \A m \in Nodes : \A g \in Groups :
            floor[m][g] <= applied'[m][g] /\ applied'[m][g] <= applied[m][g]
  BY <1>1, <1>4, SMTT(30) DEF TwoPhaseInv, PlaceInv
<1>6. TwoPhaseTypeOK'
  BY <1>1, <1>3, <1>5, Zenon DEF TwoPhaseInv, TwoPhaseTypeOK, EngineType
<1>7. \A h, c : (InLog(h, c)' <=> InLog(h, c)) /\ (Sent(h, c)' <=> Sent(h, c))
  BY <1>1, Zenon DEF InLog, Sent
<1>8. PlaceInv'
  <2>1. \A g \in Groups : Len(log[g]) \in Nat
    BY SMTT(30) DEF TwoPhaseInv, TwoPhaseTypeOK
  <2>2. \A m \in Nodes : \A g \in Groups :
           floor'[m][g] <= applied'[m][g] /\ applied'[m][g] <= Len(log'[g])
    BY <1>1, <1>4, <1>5, <2>1, SMTT(30) DEF TwoPhaseInv, PlaceInv
  <2> QED
    BY <1>7, <2>2, Zenon DEF TwoPhaseInv, PlaceInv
<1>9. UnseenInv'
  <2>1. \A m \in Nodes : 1..applied'[m][DECISION_GROUP] \subseteq 1..applied[m][DECISION_GROUP]
    BY <1>4, <1>5, GroupFacts, SMTT(30)
  <2> QED
    BY <1>1, <1>3, <2>1, Zenon DEF TwoPhaseInv, UnseenInv
<1>10. CommitInv'
  BY <1>1, <1>3, <1>7, Zenon DEF TwoPhaseInv, CommitInv
<1>11. HeardInv'
  BY <1>1, <1>7, Zenon DEF TwoPhaseInv, HeardInv
<1> QED
  BY <1>3, <1>6, <1>8, <1>9, <1>10, <1>11, Zenon DEF TwoPhaseInv

\* Every step keeps the invariant.
LEMMA TwoPhaseInvNext ==
    ASSUME NatWellOrdered
    PROVE  TwoPhaseInv /\ [Next]_vars => TwoPhaseInv'
<1> SUFFICES ASSUME TwoPhaseInv, [Next]_vars PROVE TwoPhaseInv'
  BY Zenon
<1>1. CASE \/ \E n \in Nodes : Begin(n)
           \/ PrepareDone \/ DecideDone \/ UndecideDone \/ ReleaseDone \/ CommitDone
  BY <1>1, CoordinatorKeepsInv, Zenon
<1>2. CASE \E g \in Groups : Timeout(g) \/ \E cmd \in Commands : Lose(g, cmd)
  BY <1>2, FailureKeepsInv, Zenon
<1>3. CASE \E g \in Groups, cmd \in Commands : Replicate(g, cmd)
  BY <1>3, ReplicateKeepsInv, Zenon
<1>4. CASE \E n \in Nodes, g \in Groups : Apply(n, g)
  BY <1>4, ApplyKeepsInv, Zenon
<1>5. CASE \E n \in Nodes : Crash(n) \/ CrashInRestart(n) \/ \E g \in Groups : CrashInApply(n, g)
  BY <1>5, CrashKeepsInv, Zenon
<1>6. CASE \E n \in Nodes : Restart(n)
  BY <1>6, RestartKeepsInv, Zenon
<1>7. CASE \E n \in Nodes : abort_orphaned_prepares(n)
  BY <1>7, SweepKeepsInv, Zenon
<1>8. CASE UNCHANGED vars
  BY <1>8, Zenon DEF vars, TwoPhaseInv, TwoPhaseTypeOK, PlaceInv, DecisionIsFinal, UnseenInv, CommitInv,
              HeardInv, Sent, InLog, Decided, Exposes
<1> QED
  BY <1>1, <1>2, <1>3, <1>4, <1>5, <1>6, <1>7, <1>8, Zenon DEF Next

\* What a key that shows, and what a decision a node knows, stand on.
LEMMA TwoPhaseInvImplies ==
    ASSUME NatWellOrdered
    PROVE  TwoPhaseInv => TwoPhaseTypeOK /\ DecisionIsFinal /\ CommitNeedsDecision
<1> SUFFICES ASSUME TwoPhaseInv, NEW n \in Nodes, eng[n].user # {}
             PROVE  /\ Decided = "DecideCommit"
                    /\ \A g \in Participants : "TxnPrepare" \in Range(log[g])
  BY Zenon DEF TwoPhaseInv, CommitNeedsDecision
<1>1. Decided = "DecideCommit"
  BY Zenon DEF TwoPhaseInv, CommitInv, Exposes
<1>2. log[DECISION_GROUP] \in Seq(Commands)
  BY GroupFacts, Zenon DEF TwoPhaseInv, TwoPhaseTypeOK
<1>3. InLog(DECISION_GROUP, "DecideCommit")
  BY <1>1, <1>2, FirstDecisionIsInLog, Zenon DEF Decided, InLog
<1> QED
  BY <1>1, <1>3, Zenon DEF TwoPhaseInv, HeardInv, Sent, InLog

-----------------------------------------------------------------------------
\* While the coordinator waits for the decision, it takes a failure for an answer only when
\* the proposal is lost or refused.
LEMMA GivenUpInvNext ==
    ASSUME NatWellOrdered, \A c \in Configs : ~c.lateDecision
    PROVE  TwoPhaseInv /\ GivenUpInv /\ [Next]_vars => GivenUpInv'
<1> SUFFICES ASSUME TwoPhaseInv, GivenUpInv, [Next]_vars PROVE GivenUpInv'
  BY Zenon
<1> DEFINE D == DECISION_GROUP
           C == "DecideCommit"
           F == <<D, C>> \in flight
           L == InLog(D, C)
<1>1. Sent(D, C) <=> F \/ L
  BY Zenon DEF Sent
<1>2. reply \in [Groups -> Replies] /\ D \in Groups /\ config \in Configs
  BY GroupFacts, Zenon DEF TwoPhaseInv, TwoPhaseTypeOK
<1>3. ASSUME log' = log, F' => F, L' => L PROVE Decided' = Decided /\ (Sent(D, C)' => Sent(D, C))
  BY <1>3, Zenon DEF Decided, Sent
<1>4. ASSUME log' = log PROVE Decided' = Decided /\ (L' <=> L)
  BY <1>4, Zenon DEF Decided, InLog
<1>5. ASSUME NEW n \in Nodes, Begin(n) PROVE GivenUpInv'
  <2>1. phase' = "prepare" /\ phase = "idle" /\ log' = log /\ (F' => F)
    BY <1>5, Zenon DEF Begin, fan_out, UnchangedReplicas
  <2> QED
    BY <1>3, <1>4, <2>1, Zenon DEF GivenUpInv
<1>6. ASSUME PrepareDone PROVE GivenUpInv'
  <2>1. phase = "prepare" /\ log' = log /\ ~F /\ ~L
    BY <1>1, <1>6, Zenon DEF PrepareDone, UnchangedReplicas, GivenUpInv
  <2>2. CASE fan_out("decide", {D}, "DecideCommit")
    <3>1. phase' = "decide" /\ reply'[D] = "wait"
      BY <1>2, <2>2, Zenon DEF fan_out
    <3> QED
      BY <1>4, <2>1, <3>1, Zenon DEF GivenUpInv
  <2>3. CASE fan_out("undecide", {D}, "DecideAbort") \/ Return("failed")
    <3>1. phase' \in {"undecide", "failed"} /\ ~F'
      BY <2>1, <2>3, Zenon DEF fan_out, Return
    <3> QED
      BY <1>4, <2>1, <3>1, Zenon DEF GivenUpInv, Sent
  <2> QED
    BY <1>6, <2>2, <2>3, Zenon DEF PrepareDone
<1>7. ASSUME DecideDone PROVE GivenUpInv'
  <2>1. phase = "decide" /\ log' = log /\ reply[D] # "wait" /\ reply[D] # "none"
    BY <1>2, <1>7, Zenon DEF DecideDone, UnchangedReplicas, GivenUpInv, AllHeard
  <2>2. CASE fan_out("commit", Participants, "TxnCommit2pc")
    BY <2>2, Zenon DEF fan_out, GivenUpInv
  <2>3. CASE reply[D] # "ok" /\ fan_out("undecide", {D}, "DecideAbort")
    <3>1. reply[D] = "err"
      BY <1>2, <2>1, <2>3, Zenon DEF Replies
    <3>2. phase' = "undecide" /\ (F' => F)
      BY <2>3, Zenon DEF fan_out
    <3> QED
      BY <1>3, <1>4, <2>1, <3>1, <3>2, Zenon DEF GivenUpInv
  <2> QED
    BY <1>7, <2>2, <2>3, Zenon DEF DecideDone
<1>8. ASSUME UndecideDone \/ ReleaseDone PROVE GivenUpInv'
  <2>1. phase \in {"undecide", "release"} /\ phase' \in {"release", "failed"} /\ log' = log
        /\ (F' => F)
    BY <1>8, Zenon DEF UndecideDone, ReleaseDone, fan_out, Return, UnchangedReplicas
  <2> QED
    BY <1>3, <1>4, <2>1, Zenon DEF GivenUpInv
<1>9. ASSUME CommitDone PROVE GivenUpInv'
  BY <1>9, Zenon DEF CommitDone, Return, GivenUpInv
<1>10. ASSUME NEW g \in Groups, Timeout(g) PROVE GivenUpInv'
  <2>1. phase # "decide"
    BY <1>2, <1>10, Zenon DEF Timeout
  <2>2. phase' = phase /\ log' = log /\ flight' = flight
    BY <1>10, Zenon DEF Timeout, UnchangedReplicas
  <2> QED
    BY <1>3, <1>4, <2>1, <2>2, Zenon DEF GivenUpInv
<1>11. ASSUME NEW g \in Groups, NEW cmd \in Commands, Lose(g, cmd) PROVE GivenUpInv'
  <2>1. phase' = phase /\ log' = log /\ flight' = flight \ {<<g, cmd>>} /\ <<g, cmd>> \in flight
        /\ reply' = Heard(g, cmd, "err")
    BY <1>11, Zenon DEF Lose, UnchangedReplicas
  <2>2. reply' = reply \/ (Awaits(cmd) /\ reply' = [reply EXCEPT ![g] = "err"])
    BY <2>1, Zenon DEF Heard
  <2>3. CASE phase # "decide" \/ reply'[D] = reply[D]
    BY <1>3, <1>4, <2>1, <2>3, Zenon DEF GivenUpInv
  <2>4. CASE phase = "decide" /\ reply'[D] # reply[D]
    <3>1. g = D /\ cmd = C /\ reply'[D] = "err"
      BY <1>2, <2>2, <2>4, Zenon DEF Awaits
    <3>2. ~F' /\ ~L'
      BY <1>4, <2>1, <2>4, <3>1, Zenon DEF GivenUpInv
    <3> QED
      BY <2>1, <2>4, <3>1, <3>2, Zenon DEF GivenUpInv, Sent
  <2> QED
    BY <2>3, <2>4, Zenon
<1>12. ASSUME NEW g \in Groups, NEW cmd \in Commands, Replicate(g, cmd) PROVE GivenUpInv'
  <2>1. phase' = phase /\ reply' = reply /\ flight' = flight \ {<<g, cmd>>} /\ <<g, cmd>> \in flight
    BY <1>12, Zenon DEF Replicate, coordinator
  <2>2. /\ Decided # "None" => Decided' = Decided
        /\ L' <=> L \/ (g = D /\ cmd = C)
        /\ Sent(D, C)' => Sent(D, C)
    BY <1>2, <1>12, ReplicateGrows, Zenon
  <2>3. ~(F /\ L) => ~(F' /\ L')
    BY <2>1, <2>2, Zenon
  <2> QED
    BY <2>1, <2>2, <2>3, Zenon DEF GivenUpInv
<1>13. ASSUME NEW n \in Nodes, NEW g \in Groups, Apply(n, g) PROVE GivenUpInv'
  <2> DEFINE cmd == log[g][applied[n][g] + 1]
             bad == Refused(eng[n], cmd)
  <2>1. /\ phase' = phase /\ log' = log /\ flight' = flight
        /\ reply' \in {reply, Heard(g, cmd, IF bad THEN "err" ELSE "ok")}
    BY <1>13, Zenon DEF Apply
  <2>2. bad /\ cmd = C => eng[n].dec = "DecideAbort"
    <3>1. eng[n].dec \in Decisions \union {"None"}
      BY Zenon DEF TwoPhaseInv, TwoPhaseTypeOK
    <3> QED
      BY <3>1, Zenon DEF Refused, Decisions
  <2>3. eng[n].dec = "DecideAbort" => Decided = "DecideAbort"
    BY Zenon DEF TwoPhaseInv, DecisionIsFinal
  <2> HIDE DEF cmd, bad
  <2>4. CASE phase # "decide" \/ reply'[D] = reply[D]
    BY <1>3, <1>4, <2>1, <2>4, Zenon DEF GivenUpInv
  <2>5. CASE phase = "decide" /\ reply'[D] # reply[D]
    <3>1. Awaits(cmd) /\ g = D /\ reply'[D] = IF bad THEN "err" ELSE "ok"
      BY <1>2, <2>1, <2>5, Zenon DEF Heard
    <3>2. cmd = C
      BY <2>5, <3>1, Zenon DEF Awaits
    <3>3. reply'[D] = "err" => Decided' = "DecideAbort"
      BY <1>4, <2>1, <2>2, <2>3, <3>1, <3>2, Zenon
    <3>4. reply'[D] # "none"
      BY <3>1, Zenon
    <3>5. F' <=> F
      BY <2>1, Zenon
    <3> QED
      BY <1>4, <2>1, <2>5, <3>3, <3>4, <3>5, Zenon DEF GivenUpInv
  <2> QED
    BY <2>4, <2>5, Zenon
<1>14. ASSUME NEW n \in Nodes,
              Crash(n) \/ CrashInRestart(n) \/ \E g \in Groups : CrashInApply(n, g)
       PROVE  GivenUpInv'
  <2>1. Down(n)
    BY <1>14, Zenon DEF Crash, CrashInRestart, CrashInApply
  <2>2. log' = log /\ flight' = flight
        /\ (phase' = "gone" \/ (phase' = phase /\ reply' = reply))
    BY <2>1, Zenon DEF Down
  <2> QED
    BY <1>3, <1>4, <2>2, Zenon DEF GivenUpInv
<1>15. ASSUME NEW n \in Nodes, Restart(n) PROVE GivenUpInv'
  <2>1. log' = log /\ flight' = flight /\ phase' = phase /\ reply' = reply
    BY <1>15, Zenon DEF Restart, coordinator
  <2> QED
    BY <1>3, <1>4, <2>1, Zenon DEF GivenUpInv
<1>16. ASSUME NEW n \in Nodes, abort_orphaned_prepares(n) PROVE GivenUpInv'
  <2>1. log' = log /\ phase' = phase /\ reply' = reply /\ (F' <=> F)
    BY <1>16, Zenon DEF abort_orphaned_prepares, coordinator
  <2> QED
    BY <1>3, <1>4, <2>1, Zenon DEF GivenUpInv
<1>17. CASE UNCHANGED vars
  <2>1. log' = log /\ flight' = flight /\ phase' = phase /\ reply' = reply
    BY <1>17, Zenon DEF vars
  <2> QED
    BY <1>3, <1>4, <2>1, Zenon DEF GivenUpInv
<1> HIDE DEF D, C, F, L
<1> QED
  BY <1>5, <1>6, <1>7, <1>8, <1>9, <1>10, <1>11, <1>12, <1>13, <1>14, <1>15, <1>16, <1>17, Zenon
  DEF Next

-----------------------------------------------------------------------------
(***************************************************************************)
(* All or nothing on every replica.  What a crash takes from the record of *)
(* a node is given to it again: the prepare it lost is behind its durable  *)
(* apply index, and a record that is prepared once more has a commit of    *)
(* its own group still to come.                                            *)
(***************************************************************************)

\* What the writes of a handler do to the record, the intents and the keys.
SameRecord(e, f) == f.rec = e.rec /\ f.intents = e.intents /\ f.user = e.user

Stages(e, g, f) ==
    /\ f.user = e.user
    /\ e.intents \subseteq f.intents /\ f.intents \subseteq e.intents \union {g}
    /\ f.rec = "Preparing" \/ (f.rec = "Prepared" /\ g \in f.intents)

Commits(e, f) ==
    /\ e.rec \notin {"Committed", "Aborted"}
    /\ f.user \union f.intents = e.user \union e.intents
    /\ f.rec = "Committing" \/ (f.rec = "Committed" /\ f.intents = {})

Aborts(e, f) ==
    /\ e.rec \in {"None", "Preparing", "Prepared"}
    /\ f.user = e.user /\ f.intents = {}
    /\ f.rec \in {e.rec, "Aborted"}

\* apply_txn_prepare stages its group, wherever it is cut.
LEMMA PrepareTurns ==
    ASSUME NEW e \in EngineType, NEW g
    PROVE  /\ \A f \in Range(apply_txn_prepare(e, g)) : Stages(e, g, f)
           /\ Stages(e, g, Final(e, apply_txn_prepare(e, g)))
           /\ Final(e, apply_txn_prepare(e, g)).rec = "Prepared"
<1> DEFINE a == [e EXCEPT !.rec = "Preparing"]
           b == [a EXCEPT !.intents = @ \union {g}]
           c == [b EXCEPT !.rec = "Prepared"]
<1>1. Stages(e, g, a) /\ Stages(e, g, b) /\ Stages(e, g, c) /\ c.rec = "Prepared"
  BY Zenon DEF EngineType, Stages
<1>2. apply_txn_prepare(e, g) = <<a, b, c>>
  BY Zenon DEF apply_txn_prepare
<1> HIDE DEF a, b, c
<1>3. Range(<<a, b, c>>) = {a, b, c} /\ Final(e, <<a, b, c>>) = c
  BY SMTT(30) DEF Range, Final
<1> QED
  BY <1>1, <1>2, <1>3, Zenon

\* apply_txn_commit_2pc moves the intents to the keys.
LEMMA CommitTurns ==
    ASSUME NEW e \in EngineType
    PROVE  /\ \A f \in Range(apply_txn_commit_2pc(e)) : Commits(e, f)
           /\ Final(e, apply_txn_commit_2pc(e)).rec \in {"Committed", "Aborted"}
<1>1. CASE e.rec \in {"Committed", "Aborted"}
  <2>1. apply_txn_commit_2pc(e) = <<>>
    BY <1>1, Zenon DEF apply_txn_commit_2pc
  <2>2. Range(<<>>) = {} /\ Final(e, <<>>) = e
    BY SMTT(30) DEF Range, Final
  <2> QED
    BY <1>1, <2>1, <2>2, Zenon
<1>2. CASE e.rec \notin {"Committed", "Aborted"}
  <2> DEFINE a == [e EXCEPT !.rec = "Committing"]
             b == [a EXCEPT !.user = @ \union e.intents]
             c == [b EXCEPT !.intents = {}]
             d == [c EXCEPT !.rec = "Committed"]
  <2>1. Commits(e, a) /\ Commits(e, b) /\ Commits(e, c) /\ Commits(e, d) /\ d.rec = "Committed"
    BY <1>2, Zenon DEF EngineType, Commits
  <2>2. apply_txn_commit_2pc(e) = <<a, b, c, d>>
    BY <1>2, Zenon DEF apply_txn_commit_2pc
  <2> HIDE DEF a, b, c, d
  <2>3. Range(<<a, b, c, d>>) = {a, b, c, d} /\ Final(e, <<a, b, c, d>>) = d
    BY SMTT(30) DEF Range, Final
  <2> QED
    BY <2>1, <2>2, <2>3, Zenon
<1> QED
  BY <1>1, <1>2, Zenon

\* apply_txn_abort_2pc drops the intents, and leaves a commit under way alone.
LEMMA AbortTurns ==
    ASSUME NEW e \in EngineType
    PROVE  /\ \A f \in Range(apply_txn_abort_2pc(e)) : Aborts(e, f)
           /\ Final(e, apply_txn_abort_2pc(e)).rec \in {"Aborted", "Committing", "Committed"}
           /\ e.rec # "Committing" => Final(e, apply_txn_abort_2pc(e)).rec # "Committing"
<1>1. CASE e.rec \in {"Aborted", "Committing", "Committed"}
  <2>1. apply_txn_abort_2pc(e) = <<>>
    BY <1>1, Zenon DEF apply_txn_abort_2pc
  <2>2. Range(<<>>) = {} /\ Final(e, <<>>) = e
    BY SMTT(30) DEF Range, Final
  <2> QED
    BY <1>1, <2>1, <2>2, Zenon
<1>2. CASE e.rec \notin {"Aborted", "Committing", "Committed"}
  <2> DEFINE a == [e EXCEPT !.intents = {}]
             b == [a EXCEPT !.rec = "Aborted"]
  <2>1. Aborts(e, a) /\ Aborts(e, b) /\ b.rec = "Aborted"
    BY <1>2, Zenon DEF EngineType, Txn2pcState, Aborts
  <2>2. apply_txn_abort_2pc(e) = <<a, b>>
    BY <1>2, Zenon DEF apply_txn_abort_2pc
  <2> HIDE DEF a, b
  <2>3. Range(<<a, b>>) = {a, b} /\ Final(e, <<a, b>>) = b
    BY SMTT(30) DEF Range, Final
  <2>4. \A f \in {a, b} : Aborts(e, f)
    BY <2>1, Zenon
  <2> QED
    BY <2>1, <2>2, <2>3, <2>4, Zenon
<1> QED
  BY <1>1, <1>2, Zenon

\* resolve_local_2pc_record leaves no record in doubt.
LEMMA ResolveTurns ==
    ASSUME NEW e \in EngineType, NEW d
    PROVE  /\ \A f \in Range(resolve_local_2pc_record(e, d)) :
                 IF d = "DecideCommit" THEN Commits(e, f) ELSE Aborts(e, f)
           /\ \/ Final(e, resolve_local_2pc_record(e, d)).rec \in {"Committed", "Aborted"}
              \/ /\ Final(e, resolve_local_2pc_record(e, d)) = e
                 /\ e.rec \notin {"Preparing", "Prepared"}
<1>1. CASE e.rec \notin {"Preparing", "Prepared"}
  <2>1. resolve_local_2pc_record(e, d) = <<>>
    BY <1>1, Zenon DEF resolve_local_2pc_record
  <2>2. Range(<<>>) = {} /\ Final(e, <<>>) = e
    BY SMTT(30) DEF Range, Final
  <2> QED
    BY <1>1, <2>1, <2>2, Zenon
<1>2. CASE e.rec \in {"Preparing", "Prepared"}
  <2>1. resolve_local_2pc_record(e, d) =
           IF d = "DecideCommit" THEN apply_txn_commit_2pc(e) ELSE apply_txn_abort_2pc(e)
    BY <1>2, Zenon DEF resolve_local_2pc_record
  <2> QED
    BY <1>2, <2>1, CommitTurns, AbortTurns, Zenon
<1> QED
  BY <1>1, <1>2, Zenon

\* From e, a crash or the end of the command cmd of group g may leave f.
Turns(e, g, cmd, f) ==
    \/ SameRecord(e, f)
    \/ cmd = "TxnPrepare" /\ Stages(e, g, f)
    \/ cmd \in {"TxnCommit2pc", "DecideCommit"} /\ Commits(e, f)
    \/ cmd = "TxnAbort2pc" /\ Aborts(e, f)
    \/ cmd = "DecideAbort" /\ e.dec \in {"None", cmd} /\ Aborts(e, f)

\* Where the command ends.
Ends(e, g, cmd, f) ==
    /\ cmd = "TxnPrepare" => Stages(e, g, f) /\ f.rec = "Prepared"
    /\ cmd = "TxnCommit2pc" => f.rec # "Prepared"
    /\ e.rec \notin {"Preparing", "Committing"} => f.rec \notin {"Preparing", "Committing"}

\* What any command does to the record.
LEMMA CommandTurns ==
    ASSUME NEW e \in EngineType, NEW g, NEW cmd \in Commands
    PROVE  /\ \A f \in States(e, apply_command(e, g, cmd)) : Turns(e, g, cmd, f)
           /\ Ends(e, g, cmd, Final(e, apply_command(e, g, cmd)))
<1> DEFINE s == apply_command(e, g, cmd)
<1>1. Turns(e, g, cmd, e)
  BY Zenon DEF Turns, SameRecord
<1>2. CASE cmd = "TxnPrepare"
  <2>1. s = apply_txn_prepare(e, g)
    BY <1>2, Zenon DEF apply_command, Decisions
  <2>2. /\ \A f \in Range(s) : Stages(e, g, f)
        /\ Stages(e, g, Final(e, s)) /\ Final(e, s).rec = "Prepared"
    BY <2>1, PrepareTurns, Zenon
  <2> HIDE DEF s
  <2>3. \A f \in States(e, s) : Turns(e, g, cmd, f)
    BY <1>1, <1>2, <2>2, Zenon DEF States, Turns
  <2>4. Ends(e, g, cmd, Final(e, s))
    BY <1>2, <2>2, Zenon DEF Ends
  <2> QED
    BY <2>3, <2>4, Zenon DEF s
<1>3. CASE cmd = "TxnCommit2pc"
  <2>1. s = apply_txn_commit_2pc(e)
    BY <1>3, Zenon DEF apply_command, Decisions
  <2>2. /\ \A f \in Range(s) : Commits(e, f)
        /\ Final(e, s).rec \in {"Committed", "Aborted"}
    BY <2>1, CommitTurns, Zenon
  <2> HIDE DEF s
  <2>3. \A f \in States(e, s) : Turns(e, g, cmd, f)
    BY <1>1, <1>3, <2>2, Zenon DEF States, Turns
  <2>4. Ends(e, g, cmd, Final(e, s))
    BY <1>3, <2>2, Zenon DEF Ends
  <2> QED
    BY <2>3, <2>4, Zenon DEF s
<1>4. CASE cmd = "TxnAbort2pc"
  <2>1. s = apply_txn_abort_2pc(e)
    BY <1>4, Zenon DEF apply_command, Decisions
  <2>2. /\ \A f \in Range(s) : Aborts(e, f)
        /\ Final(e, s).rec \in {"Aborted", "Committing", "Committed"}
        /\ e.rec # "Committing" => Final(e, s).rec # "Committing"
    BY <2>1, AbortTurns, Zenon
  <2> HIDE DEF s
  <2>3. \A f \in States(e, s) : Turns(e, g, cmd, f)
    BY <1>1, <1>4, <2>2, Zenon DEF States, Turns
  <2>4. Ends(e, g, cmd, Final(e, s))
    BY <1>4, <2>2, Zenon DEF Ends
  <2> QED
    BY <2>3, <2>4, Zenon DEF s
<1>5. CASE cmd \in Decisions
  <2>1. s = apply_txn_decision(e, cmd)
    BY <1>5, Zenon DEF apply_command, Decisions
  <2>2. CASE e.dec \notin {"None", cmd}
    <3>1. s = <<>>
      BY <2>1, <2>2, Zenon DEF apply_txn_decision
    <3>2. Range(<<>>) = {} /\ Final(e, <<>>) = e
      BY SMTT(30) DEF Range, Final
    <3> QED
      BY <1>1, <1>5, <3>1, <3>2, Zenon DEF States, Ends, Decisions
  <2>3. CASE e.dec \in {"None", cmd}
    <3> DEFINE a == [e EXCEPT !.dec = cmd]
               w == resolve_local_2pc_record(a, cmd)
    <3>1. a \in EngineType /\ SameRecord(e, a)
      BY <1>5, Zenon DEF EngineType, SameRecord
    <3>2. s = <<a>> \o w
      BY <2>1, <2>3, Zenon DEF apply_txn_decision
    <3> HIDE DEF a
    <3>3. w \in Seq(EngineType)
      BY <3>1, ResolveWrites, Zenon DEF Keeps
    <3>4. /\ \A f \in Range(w) : IF cmd = "DecideCommit" THEN Commits(a, f) ELSE Aborts(a, f)
          /\ \/ Final(a, w).rec \in {"Committed", "Aborted"}
             \/ Final(a, w) = a /\ a.rec \notin {"Preparing", "Prepared"}
      BY <3>1, ResolveTurns, Zenon
    <3> HIDE DEF w
    <3>5. /\ Range(<<a>> \o w) = {a} \union Range(w)
          /\ <<a>> \o w # <<>>
          /\ Final(a, w) = Final(a, <<a>> \o w)
      BY <3>1, <3>3, RangeCons, SMTT(30)
    <3>6. Final(e, s) = Final(a, w)
      BY <3>2, <3>5, Zenon DEF Final
    <3>7. \A f \in {a} \union Range(w) : Turns(e, g, cmd, f)
      BY <1>5, <2>3, <3>1, <3>4, Zenon DEF Turns, SameRecord, Commits, Aborts, Decisions
    <3>8. ASSUME NEW f, f.rec \in {"Committed", "Aborted"} \/ f.rec = e.rec
          PROVE  Ends(e, g, cmd, f)
      BY <1>5, <3>8, Zenon DEF Ends, Decisions
    <3>9. Ends(e, g, cmd, Final(a, w))
      BY <3>1, <3>4, <3>8, Zenon DEF SameRecord
    <3> QED
      BY <1>1, <3>2, <3>5, <3>6, <3>7, <3>9, Zenon DEF States
  <2> QED
    BY <2>2, <2>3, Zenon
<1> QED
  BY <1>2, <1>3, <1>4, <1>5, Zenon DEF Commands, Decisions

\* What opening the engine does to the record: it ends neither preparing nor committing, and
\* gives up only a prepare that was cut short, or one the decision has aborted.
LEMMA RecoveryTurns ==
    ASSUME NEW e \in EngineType
    PROVE  /\ \A f \in States(e, recover_incomplete_2pc(e)) :
                 \/ SameRecord(e, f)
                 \/ Commits(e, f)
                 \/ Aborts(e, f) /\ (e.dec = "DecideAbort" \/ e.rec = "Preparing")
           /\ Final(e, recover_incomplete_2pc(e)).rec \notin {"Preparing", "Committing"}
<1> DEFINE s == recover_incomplete_2pc(e)
<1>1. SameRecord(e, e)
  BY Zenon DEF SameRecord
<1>2. e.dec \in {"None", "DecideCommit", "DecideAbort"}
  BY Zenon DEF EngineType, Decisions
<1>3. CASE e.rec \in {"Preparing", "Prepared"} /\ e.dec # "None"
  <2>1. s = resolve_local_2pc_record(e, e.dec)
    BY <1>3, Zenon DEF recover_incomplete_2pc
  <2> QED
    BY <1>1, <1>2, <1>3, <2>1, ResolveTurns, Zenon DEF States
<1>4. CASE e.rec = "Preparing" /\ e.dec = "None"
  <2>1. s = apply_txn_abort_2pc(e)
    BY <1>4, Zenon DEF recover_incomplete_2pc
  <2> QED
    BY <1>1, <1>4, <2>1, AbortTurns, Zenon DEF States
<1>5. CASE e.rec = "Committing"
  <2>1. s = apply_txn_commit_2pc(e)
    BY <1>5, Zenon DEF recover_incomplete_2pc
  <2> QED
    BY <1>1, <2>1, CommitTurns, Zenon DEF States
<1>6. CASE e.rec \notin {"Preparing", "Committing"} /\ ~(e.rec = "Prepared" /\ e.dec # "None")
  <2>1. s = <<>>
    BY <1>6, Zenon DEF recover_incomplete_2pc
  <2>2. Range(<<>>) = {} /\ Final(e, <<>>) = e
    BY SMTT(30) DEF Range, Final
  <2> QED
    BY <1>1, <1>6, <2>1, <2>2, Zenon DEF States
<1> QED
  BY <1>3, <1>4, <1>5, <1>6, Zenon

-----------------------------------------------------------------------------
\* The order of the commands of a group: the commits go out when every prepare is in its log,
\* and no group is sent both a commit and an abort.
OrderInv ==
    /\ phase = "idle" => \A g \in Groups : ~Sent(g, "TxnPrepare")
    /\ \A g \in Groups : ~(<<g, "TxnPrepare">> \in flight /\ InLog(g, "TxnPrepare"))
    /\ \A g \in Groups : \A i, j \in 1..Len(log[g]) :
          log[g][i] = "TxnCommit2pc" /\ log[g][j] = "TxnPrepare" => j < i
    /\ \A g \in Groups : Sent(g, "TxnAbort2pc") => phase \in {"release", "failed", "gone"}
    /\ \A g \in Groups : Sent(g, "TxnCommit2pc") =>
          /\ phase \in {"commit", "ok", "unsure", "gone"}
          /\ \A h \in Groups : ~Sent(h, "TxnAbort2pc")

\* A prepare that node n applies again, if it restarts.
Pending(n, g) == \E i \in floor[n][g] + 1 .. Len(log[g]) : log[g][i] = "TxnPrepare"

NotAborted == Decided # "DecideAbort" /\ \A g \in Groups : ~InLog(g, "TxnAbort2pc")

Tidy(e) == e.rec \in {"None", "Committed", "Aborted"} => e.intents = {}

\* A node that runs is not in the middle of a handler.
SettledInv(n) == n \in up => eng[n].rec \notin {"Preparing", "Committing"}

\* The durable apply index never falls behind over a prepare.
FloorInv(n) ==
    \A g \in Groups : \A i \in floor[n][g] + 1 .. applied[n][g] : log[g][i] # "TxnPrepare"

\* The intents that recovery would drop come back.
LostInv(n) == eng[n].rec = "Preparing" => \A g \in eng[n].intents : Pending(n, g)

\* A record that is prepared has a commit still to come.
AheadInv(n) ==
    eng[n].rec = "Prepared" =>
        \E g \in Participants : \A i \in 1..applied[n][g] : log[g][i] # "TxnCommit2pc"

\* What is prepared stays, or comes back, unless the transaction is aborted.
KeptInv(n) ==
    NotAborted => \A g \in Participants : InLog(g, "TxnPrepare") =>
        g \in eng[n].user \union eng[n].intents \/ Pending(n, g)

NodeInv(n) ==
    Tidy(eng[n]) /\ SettledInv(n) /\ FloorInv(n) /\ LostInv(n) /\ AheadInv(n) /\ KeptInv(n)

AllOrNothingInv == TwoPhaseInv /\ OrderInv /\ \A n \in Nodes : NodeInv(n)

\* The types the arguments below need.
LEMMA PlaceTypes ==
    ASSUME TwoPhaseInv
    PROVE  /\ log \in [Groups -> Seq(Commands)] /\ eng \in [Nodes -> EngineType]
           /\ applied \in [Nodes -> [Groups -> Nat]] /\ floor \in [Nodes -> [Groups -> Nat]]
           /\ \A g \in Groups : log[g] \in Seq(Commands) /\ Len(log[g]) \in Nat
                                /\ DOMAIN log[g] = 1..Len(log[g])
           /\ \A n \in Nodes : \A g \in Groups :
                 /\ floor[n][g] \in Nat /\ applied[n][g] \in Nat
                 /\ floor[n][g] <= applied[n][g] /\ applied[n][g] <= Len(log[g])
<1>1. /\ log \in [Groups -> Seq(Commands)] /\ eng \in [Nodes -> EngineType]
      /\ applied \in [Nodes -> [Groups -> Nat]] /\ floor \in [Nodes -> [Groups -> Nat]]
  BY Zenon DEF TwoPhaseInv, TwoPhaseTypeOK, EngineType
<1>2. \A g \in Groups : log[g] \in Seq(Commands) /\ Len(log[g]) \in Nat
                        /\ DOMAIN log[g] = 1..Len(log[g])
  BY <1>1, SMTT(30)
<1>3. \A n \in Nodes : \A g \in Groups :
         floor[n][g] <= applied[n][g] /\ applied[n][g] <= Len(log[g])
  BY Zenon DEF TwoPhaseInv, PlaceInv
<1> QED
  BY <1>1, <1>2, <1>3, Zenon

\* A step that commits nothing and proposes nothing to a participant.
LEMMA QuietOrder ==
    ASSUME OrderInv, log' = log,
           \A g \in Groups : \A c \in {"TxnPrepare", "TxnCommit2pc", "TxnAbort2pc"} :
              <<g, c>> \in flight' => <<g, c>> \in flight,
           phase' = "idle" => phase = "idle",
           phase \in {"release", "failed", "gone"} => phase' \in {"release", "failed", "gone"},
           phase \in {"commit", "ok", "unsure", "gone"} =>
              phase' \in {"commit", "ok", "unsure", "gone"}
    PROVE  OrderInv'
<1>1. \A g \in Groups : \A c \in {"TxnPrepare", "TxnCommit2pc", "TxnAbort2pc"} :
         (InLog(g, c)' <=> InLog(g, c)) /\ (Sent(g, c)' => Sent(g, c))
  BY Zenon DEF Sent, InLog
<1>2. \A g \in Groups : ~(<<g, "TxnPrepare">> \in flight /\ InLog(g, "TxnPrepare"))'
  BY <1>1, Zenon DEF OrderInv
<1>3. (\A g \in Groups : \A i, j \in 1..Len(log[g]) :
          log[g][i] = "TxnCommit2pc" /\ log[g][j] = "TxnPrepare" => j < i)'
  BY Zenon DEF OrderInv
<1> QED
  BY <1>1, <1>2, <1>3, Zenon DEF OrderInv

\* The coordinator keeps the order.
LEMMA CoordinatorOrder ==
    ASSUME TwoPhaseInv, OrderInv,
           \/ \E n \in Nodes : Begin(n)
           \/ PrepareDone \/ DecideDone \/ UndecideDone \/ ReleaseDone \/ CommitDone
    PROVE  OrderInv'
<1>1. log' = log
  BY Zenon DEF Begin, PrepareDone, DecideDone, UndecideDone, ReleaseDone, CommitDone, UnchangedReplicas
<1>2. \A g, c : InLog(g, c)' <=> InLog(g, c)
  BY <1>1, Zenon DEF InLog
<1>3. ASSUME NEW p, NEW gs, NEW c \in Commands, fan_out(p, gs, c)
      PROVE  /\ phase' = p
             /\ \A g \in Groups : \A d : Sent(g, d)' => Sent(g, d) \/ d = c
             /\ \A g \in Groups : \A d : <<g, d>> \in flight' => <<g, d>> \in flight \/ d = c
  BY <1>2, <1>3, Zenon DEF fan_out, Sent
<1>4. (\A g \in Groups : \A i, j \in 1..Len(log[g]) :
          log[g][i] = "TxnCommit2pc" /\ log[g][j] = "TxnPrepare" => j < i)'
  BY <1>1, Zenon DEF OrderInv
<1>5. CASE \E n \in Nodes : Begin(n)
  <2>1. phase = "idle" /\ fan_out("prepare", Participants, "TxnPrepare")
    BY <1>5, Zenon DEF Begin
  <2>2. \A g \in Groups : ~Sent(g, "TxnPrepare") /\ ~Sent(g, "TxnAbort2pc") /\ ~Sent(g, "TxnCommit2pc")
    BY <2>1, Zenon DEF OrderInv
  <2>3. \A g \in Groups : ~InLog(g, "TxnPrepare")' /\ ~Sent(g, "TxnAbort2pc")'
                          /\ ~Sent(g, "TxnCommit2pc")' /\ phase' = "prepare"
    BY <1>2, <1>3, <2>1, <2>2, Zenon DEF Sent, Commands
  <2> QED
    BY <1>4, <2>1, <2>3, Zenon DEF OrderInv, fan_out
<1>6. CASE PrepareDone
  <2>1. phase = "prepare"
    BY <1>6, Zenon DEF PrepareDone
  <2>2. \/ fan_out("decide", {DECISION_GROUP}, "DecideCommit")
        \/ fan_out("undecide", {DECISION_GROUP}, "DecideAbort")
        \/ Return("failed")
    BY <1>6, Zenon DEF PrepareDone
  <2>3. /\ phase' \in {"decide", "undecide", "failed"}
        /\ \A g \in Groups : \A c \in {"TxnPrepare", "TxnCommit2pc", "TxnAbort2pc"} :
              <<g, c>> \in flight' => <<g, c>> \in flight
    BY <2>2, Zenon DEF fan_out, Return
  <2> QED
    BY <1>1, <2>1, <2>3, QuietOrder, Zenon
<1>7. CASE DecideDone
  <2>1. phase = "decide"
    BY <1>7, Zenon DEF DecideDone
  <2>2. CASE fan_out("undecide", {DECISION_GROUP}, "DecideAbort")
    <3>1. /\ phase' = "undecide"
          /\ \A g \in Groups : \A c \in {"TxnPrepare", "TxnCommit2pc", "TxnAbort2pc"} :
                <<g, c>> \in flight' => <<g, c>> \in flight
      BY <2>2, Zenon DEF fan_out
    <3> QED
      BY <1>1, <2>1, <3>1, QuietOrder, Zenon
  <2>3. CASE fan_out("commit", Participants, "TxnCommit2pc")
    <3>1. \A g \in Groups : ~Sent(g, "TxnAbort2pc")
      BY <2>1, Zenon DEF OrderInv
    <3>2. /\ phase' = "commit"
          /\ \A g \in Groups : ~Sent(g, "TxnAbort2pc")'
          /\ \A g \in Groups : <<g, "TxnPrepare">> \in flight' => <<g, "TxnPrepare">> \in flight
      BY <1>3, <2>3, <3>1, Zenon DEF Commands
    <3> QED
      BY <1>2, <1>4, <3>2, Zenon DEF OrderInv
  <2> QED
    BY <1>7, <2>2, <2>3, Zenon DEF DecideDone
<1>8. CASE UndecideDone
  <2>1. phase = "undecide" /\ fan_out("release", prepared, "TxnAbort2pc")
    BY <1>8, Zenon DEF UndecideDone
  <2>2. \A g \in Groups : ~Sent(g, "TxnCommit2pc")
    BY <2>1, Zenon DEF OrderInv
  <2>3. /\ phase' = "release"
        /\ \A g \in Groups : ~Sent(g, "TxnCommit2pc")'
        /\ \A g \in Groups : <<g, "TxnPrepare">> \in flight' => <<g, "TxnPrepare">> \in flight
    BY <1>3, <2>1, <2>2, Zenon DEF Commands
  <2> QED
    BY <1>2, <1>4, <2>3, Zenon DEF OrderInv
<1>9. CASE ReleaseDone \/ CommitDone
  <2>1. /\ flight' = flight
        /\ \/ phase = "release" /\ phase' = "failed"
           \/ phase = "commit" /\ phase' \in {"ok", "unsure"}
    BY <1>9, Zenon DEF ReleaseDone, CommitDone, Return
  <2> QED
    BY <1>1, <2>1, QuietOrder, Zenon
<1> QED
  BY <1>5, <1>6, <1>7, <1>8, <1>9, Zenon

\* The commit of a proposal keeps the order: a commit is proposed when the prepares are in the logs.
LEMMA ReplicateOrder ==
    ASSUME NatWellOrdered, TwoPhaseInv, OrderInv, NEW g \in Groups, NEW cmd \in Commands, Replicate(g, cmd)
    PROVE  OrderInv'
<1>1. phase' = phase /\ flight' = flight \ {<<g, cmd>>} /\ <<g, cmd>> \in flight
      /\ log' = [log EXCEPT ![g] = Append(@, cmd)]
  BY Zenon DEF Replicate, coordinator
<1>2. /\ \A h \in Groups : \A c : InLog(h, c)' <=> InLog(h, c) \/ (h = g /\ c = cmd)
      /\ \A h \in Groups : \A c : Sent(h, c)' => Sent(h, c)
  BY ReplicateGrows, Zenon
<1>3. \A h \in Groups : ~(<<h, "TxnPrepare">> \in flight' /\ InLog(h, "TxnPrepare")')
  BY <1>1, <1>2, Zenon DEF OrderInv
<1>4. ASSUME NEW h \in Groups, NEW i \in 1..Len(log'[h]), NEW j \in 1..Len(log'[h]),
             log'[h][i] = "TxnCommit2pc", log'[h][j] = "TxnPrepare"
      PROVE  j < i
  <2>1. \A s \in Groups : log[s] \in Seq(Commands) /\ Len(log[s]) \in Nat
                          /\ DOMAIN log[s] = 1..Len(log[s])
    BY PlaceTypes, Zenon
  <2>2. CASE h # g
    <3>1. log'[h] = log[h]
      BY <1>1, <2>2, PlaceTypes, Zenon
    <3> QED
      BY <1>4, <3>1, Zenon DEF OrderInv
  <2>3. CASE h = g
    <3>1. /\ Len(log'[g]) = Len(log[g]) + 1 /\ log'[g][Len(log[g]) + 1] = cmd
          /\ \A k \in 1..Len(log[g]) : log'[g][k] = log[g][k]
      BY <1>1, <2>1, PlaceTypes, SMTT(30)
    <3>2. CASE j \in 1..Len(log[g]) /\ i \in 1..Len(log[g])
      BY <1>4, <2>3, <3>1, <3>2, Zenon DEF OrderInv
    <3>3. CASE j = Len(log[g]) + 1
      <4>1. cmd = "TxnPrepare" /\ i \in 1..Len(log[g])
        BY <1>4, <2>1, <2>3, <3>1, <3>3, SMTT(30)
      <4>2. InLog(g, "TxnCommit2pc")
        BY <1>4, <2>1, <2>3, <3>1, <4>1, Zenon DEF InLog, Range
      <4>3. Decided = "DecideCommit"
        BY <4>2, Zenon DEF TwoPhaseInv, CommitInv, Sent
      <4>4. InLog(DECISION_GROUP, "DecideCommit")
        BY <2>1, <4>3, FirstDecisionIsInLog, GroupFacts, Zenon DEF Decided, InLog
      <4>5. g \in Participants
        BY <1>1, <4>1, Zenon DEF TwoPhaseInv, PlaceInv, Sent
      <4>6. InLog(g, "TxnPrepare")
        BY <4>4, <4>5, Zenon DEF TwoPhaseInv, HeardInv, Sent
      <4> QED
        BY <1>1, <4>1, <4>6, Zenon DEF OrderInv
    <3>4. CASE j \in 1..Len(log[g]) /\ i = Len(log[g]) + 1
      BY <2>1, <3>4, SMTT(30)
    <3> QED
      BY <2>1, <2>3, <3>1, <3>2, <3>3, <3>4, SMTT(30)
  <2> QED
    BY <2>2, <2>3, Zenon
<1> QED
  BY <1>1, <1>2, <1>3, <1>4, Zenon DEF OrderInv

\* Every step keeps the order.
LEMMA OrderInvNext ==
    ASSUME NatWellOrdered, TwoPhaseInv, OrderInv, [Next]_vars
    PROVE  OrderInv'
<1>1. CASE \/ \E n \in Nodes : Begin(n)
           \/ PrepareDone \/ DecideDone \/ UndecideDone \/ ReleaseDone \/ CommitDone
  BY <1>1, CoordinatorOrder, Zenon
<1>2. CASE \E g \in Groups, cmd \in Commands : Replicate(g, cmd)
  BY <1>2, ReplicateOrder, Zenon
<1>3. CASE \/ \E g \in Groups : Timeout(g) \/ \E cmd \in Commands : Lose(g, cmd)
           \/ \E n \in Nodes, g \in Groups : Apply(n, g)
           \/ \E n \in Nodes : Restart(n) \/ abort_orphaned_prepares(n)
           \/ UNCHANGED vars
  <2>1. log' = log /\ phase' = phase
        /\ \A g \in Groups : \A c \in {"TxnPrepare", "TxnCommit2pc", "TxnAbort2pc"} :
              <<g, c>> \in flight' => <<g, c>> \in flight
    BY <1>3, Zenon DEF Timeout, Lose, Apply, Restart, abort_orphaned_prepares, vars, coordinator,
                UnchangedReplicas, DECISION_GROUP
  <2> QED
    BY <2>1, QuietOrder, Zenon
<1>4. CASE \E n \in Nodes : Crash(n) \/ CrashInRestart(n) \/ \E g \in Groups : CrashInApply(n, g)
  <2>1. \E n \in Nodes : Down(n)
    BY <1>4, Zenon DEF Crash, CrashInRestart, CrashInApply
  <2>2. log' = log /\ flight' = flight /\ (phase' = phase \/ (phase # "idle" /\ phase' = "gone"))
    BY <2>1, Zenon DEF Down
  <2> QED
    BY <2>2, QuietOrder, Zenon
<1> QED
  BY <1>1, <1>2, <1>3, <1>4, Zenon DEF Next

-----------------------------------------------------------------------------
\* The record is tidy wherever a handler is cut.
LEMMA TidyTurns ==
    ASSUME NEW e, NEW f, NEW g, Tidy(e),
           SameRecord(e, f) \/ Stages(e, g, f) \/ Commits(e, f) \/ Aborts(e, f)
    PROVE  Tidy(f)
BY Zenon DEF Tidy, SameRecord, Stages, Commits, Aborts

\* The next entry of a group on a node that knows no decision, when it is one: it is the one
\* that counts.
LEMMA EntryDecides ==
    ASSUME NatWellOrdered, TwoPhaseInv, NEW n \in Nodes, NEW g \in Groups, applied[n][g] < Len(log[g]),
           log[g][applied[n][g] + 1] \in Decisions,
           eng[n].dec \in {"None", log[g][applied[n][g] + 1]}
    PROVE  Decided = log[g][applied[n][g] + 1]
<1> DEFINE k == applied[n][g] + 1
<1>1. k \in 1..Len(log[g]) /\ applied[n][g] \in Nat /\ log[g] \in Seq(Commands)
      /\ DOMAIN log[g] = 1..Len(log[g])
  BY PlaceTypes, SMTT(30)
<1>2. InLog(g, log[g][k])
  BY <1>1, Zenon DEF InLog, Range
<1>3. g = DECISION_GROUP
  BY <1>2, Zenon DEF TwoPhaseInv, PlaceInv, Sent
<1>4. CASE eng[n].dec = "None"
  <2>1. \A j \in 1..(k - 1) : log[g][j] \notin Decisions
    BY <1>1, <1>3, <1>4, SMTT(30) DEF TwoPhaseInv, UnseenInv
  <2> QED
    BY <1>1, <1>3, <2>1, FirstDecisionAt, Zenon DEF Decided
<1>5. CASE eng[n].dec # "None"
  <2>1. eng[n].dec \in {"None", Decided}
    BY Zenon DEF TwoPhaseInv, DecisionIsFinal
  <2> QED
    BY <1>5, <2>1, Zenon
<1> QED
  BY <1>4, <1>5, Zenon

\* An entry takes nothing from a node, unless the transaction is aborted.
LEMMA EntryKeeps ==
    ASSUME NatWellOrdered, TwoPhaseInv, NotAborted, NEW n \in Nodes, NEW g \in Groups,
           applied[n][g] < Len(log[g]), NEW f, Turns(eng[n], g, log[g][applied[n][g] + 1], f)
    PROVE  eng[n].user \union eng[n].intents \subseteq f.user \union f.intents
<1> DEFINE e == eng[n]
           cmd == log[g][applied[n][g] + 1]
<1>1. applied[n][g] + 1 \in DOMAIN log[g]
  BY PlaceTypes, SMTT(30)
<1>2. InLog(g, cmd)
  BY <1>1, Zenon DEF InLog, Range
<1>3. cmd # "TxnAbort2pc"
  BY <1>2, Zenon DEF NotAborted
<1>4. ~(cmd = "DecideAbort" /\ e.dec \in {"None", cmd})
  BY EntryDecides, Zenon DEF NotAborted, Decisions
<1>5. Turns(e, g, cmd, f)
  BY Zenon
<1> HIDE DEF e, cmd
<1>6. SameRecord(e, f) \/ Stages(e, g, f) \/ Commits(e, f)
  BY <1>3, <1>4, <1>5, Zenon DEF Turns
<1>7. e.user \union e.intents \subseteq f.user \union f.intents
  BY <1>6, Zenon DEF SameRecord, Stages, Commits
<1> QED
  BY <1>7, Zenon DEF e

\* What an invariant of one node says once only that node has changed.
LEMMA OneNodeMoves ==
    ASSUME TwoPhaseInv, \A m \in Nodes : NodeInv(m), NEW n \in Nodes, log' = log,
           \A m \in Nodes : m \in up' => m \in up \/ m = n,
           \A m \in Nodes : m # n => /\ eng'[m] = eng[m]
                                     /\ applied'[m] = applied[m] /\ floor'[m] = floor[m],
           NodeInv(n)'
    PROVE  \A m \in Nodes : NodeInv(m)'
<1> SUFFICES ASSUME NEW m \in Nodes, m # n PROVE NodeInv(m)'
  BY Zenon
<1>1. NodeInv(m) /\ eng'[m] = eng[m] /\ applied'[m] = applied[m] /\ floor'[m] = floor[m]
      /\ (m \in up' => m \in up)
  BY Zenon
<1>2. NotAborted' <=> NotAborted
  BY Zenon DEF NotAborted, Decided, InLog
<1>3. \A g : (Pending(m, g)' <=> Pending(m, g)) /\ (InLog(g, "TxnPrepare")' <=> InLog(g, "TxnPrepare"))
  BY <1>1, Zenon DEF Pending, InLog
<1>4. Tidy(eng[m])' /\ SettledInv(m)' /\ LostInv(m)' /\ KeptInv(m)'
  BY <1>1, <1>2, <1>3, Zenon DEF NodeInv, Tidy, SettledInv, LostInv, KeptInv
<1>5. FloorInv(m)' /\ AheadInv(m)'
  BY <1>1, SMTT(30) DEF NodeInv, FloorInv, AheadInv
<1> QED
  BY <1>4, <1>5, Zenon DEF NodeInv

\* drain_and_apply takes an entry.
LEMMA ApplyKeepsNode ==
    ASSUME NatWellOrdered, AllOrNothingInv, NEW n \in Nodes, NEW g \in Groups, Apply(n, g)
    PROVE  \A m \in Nodes : NodeInv(m)'
<1> DEFINE e == eng[n]
           k == applied[n][g] + 1
           cmd == log[g][k]
           f == Final(e, apply_command(e, g, cmd))
<1>a. TwoPhaseInv /\ OrderInv /\ NodeInv(n)
  BY Zenon DEF AllOrNothingInv
<1>b. applied[n][g] < Len(log[g]) /\ n \in up /\ log' = log /\ up' = up
  BY Zenon DEF Apply
<1>1. /\ log \in [Groups -> Seq(Commands)] /\ eng \in [Nodes -> EngineType]
      /\ applied \in [Nodes -> [Groups -> Nat]] /\ floor \in [Nodes -> [Groups -> Nat]]
  BY <1>a, PlaceTypes, Zenon
<1>2. \A h \in Groups : /\ floor[n][h] \in Nat /\ applied[n][h] \in Nat /\ Len(log[h]) \in Nat
                        /\ floor[n][h] <= applied[n][h] /\ applied[n][h] <= Len(log[h])
  BY <1>a, PlaceTypes, Zenon
<1>3. k \in 1..Len(log[g]) /\ k \in Nat /\ cmd \in Commands /\ DOMAIN log[g] = 1..Len(log[g])
  BY <1>1, <1>2, <1>b, SMTT(30)
<1>4. InLog(g, cmd)
  BY <1>3, Zenon DEF InLog, Range
<1>5. e \in EngineType /\ (cmd = "TxnPrepare" => g \in Participants)
  BY <1>1, <1>4, <1>a, Zenon DEF TwoPhaseInv, PlaceInv, Sent
<1>6. f \in States(e, apply_command(e, g, cmd))
  BY <1>3, <1>5, CommandWrites, FinalIsState, Zenon
<1>7. Turns(e, g, cmd, f) /\ Ends(e, g, cmd, f)
  BY <1>3, <1>5, <1>6, CommandTurns, Zenon
<1>8. /\ eng' = [eng EXCEPT ![n] = f]
      /\ applied' = [applied EXCEPT ![n][g] = k]
      /\ floor' = [floor EXCEPT ![n][g] = IF Refused(e, cmd) THEN @ ELSE k]
  BY <1>1, Zenon DEF Apply
<1>9. NotAborted => e.user \union e.intents \subseteq f.user \union f.intents
  BY <1>7, <1>a, <1>b, EntryKeeps, Zenon
<1>10. /\ Tidy(e) /\ e.rec \notin {"Preparing", "Committing"} /\ FloorInv(n) /\ AheadInv(n)
       /\ KeptInv(n)
  BY <1>a, <1>b, Zenon DEF NodeInv, SettledInv
<1> HIDE DEF f, cmd, e
<1>11. /\ eng'[n] = f /\ applied'[n][g] = k
       /\ floor'[n][g] \in {floor[n][g], k} /\ (~Refused(e, cmd) => floor'[n][g] = k)
       /\ \A h \in Groups : h # g => applied'[n][h] = applied[n][h] /\ floor'[n][h] = floor[n][h]
       /\ \A m \in Nodes : m # n => /\ eng'[m] = eng[m]
                                    /\ applied'[m] = applied[m] /\ floor'[m] = floor[m]
  BY <1>1, <1>8, Zenon
<1>12. cmd = "TxnPrepare" => ~Refused(e, cmd)
  BY Zenon DEF Refused, Decisions
<1>13. Tidy(eng[n])' /\ SettledInv(n)' /\ LostInv(n)'
  <2>1. f.rec \notin {"Preparing", "Committing"}
    BY <1>7, <1>10, Zenon DEF Ends
  <2>2. SameRecord(e, f) \/ Stages(e, g, f) \/ Commits(e, f) \/ Aborts(e, f)
    BY <1>7, Zenon DEF Turns
  <2>3. Tidy(f)
    BY <1>10, <2>2, TidyTurns, Zenon
  <2> QED
    BY <1>11, <2>1, <2>3, Zenon DEF Tidy, SettledInv, LostInv
<1>14. FloorInv(n)'
  <2> SUFFICES ASSUME NEW h \in Groups, NEW i \in floor'[n][h] + 1 .. applied'[n][h]
               PROVE  log[h][i] # "TxnPrepare"
    BY <1>b, Zenon DEF FloorInv
  <2>1. CASE h # g
    BY <1>10, <1>11, <2>1, Zenon DEF FloorInv
  <2>2. CASE h = g /\ ~Refused(e, cmd)
    BY <1>3, <1>11, <2>2, SMTT(30)
  <2>3. CASE h = g /\ Refused(e, cmd)
    <3>1. CASE i = k
      BY <1>12, <2>3, <3>1, Zenon DEF cmd
    <3>2. CASE i # k
      <4>1. i \in floor[n][g] + 1 .. applied[n][g]
        BY <1>2, <1>3, <1>11, <2>3, <3>2, SMTT(30)
      <4> QED
        BY <1>10, <2>3, <4>1, Zenon DEF FloorInv
    <3> QED
      BY <3>1, <3>2, Zenon
  <2> QED
    BY <2>1, <2>2, <2>3, Zenon
<1>15. AheadInv(n)'
  <2> SUFFICES ASSUME f.rec = "Prepared"
               PROVE  \E h \in Participants : \A i \in 1..applied'[n][h] : log[h][i] # "TxnCommit2pc"
    BY <1>b, <1>11, Zenon DEF AheadInv
  <2>1. CASE cmd = "TxnPrepare"
    <3>1. \A i \in 1..k : log[g][i] # "TxnCommit2pc"
      <4> SUFFICES ASSUME NEW i \in 1..k, log[g][i] = "TxnCommit2pc" PROVE FALSE
        BY Zenon
      <4>1. i \in 1..Len(log[g]) /\ ~(k < i)
        BY <1>2, <1>3, SMTT(30)
      <4>2. log[g][k] = "TxnPrepare"
        BY <2>1, Zenon DEF cmd
      <4> QED
        BY <1>3, <1>a, <4>1, <4>2, Zenon DEF OrderInv
    <3> QED
      BY <1>5, <1>11, <2>1, <3>1, Zenon
  <2>2. CASE cmd # "TxnPrepare"
    <3>1. cmd # "TxnCommit2pc" /\ e.rec = "Prepared"
      BY <1>7, <2>2, Zenon DEF Ends, Turns, SameRecord, Commits, Aborts
    <3>2. PICK h \in Participants : \A i \in 1..applied[n][h] : log[h][i] # "TxnCommit2pc"
      BY <1>10, <3>1, Zenon DEF AheadInv, e
    <3>3. ASSUME NEW i \in 1..applied'[n][h] PROVE log[h][i] # "TxnCommit2pc"
      <4>1. CASE i \in 1..applied[n][h]
        BY <3>2, <4>1, Zenon
      <4>2. CASE i \notin 1..applied[n][h]
        <5>1. h = g /\ i = k
          BY <1>2, <1>3, <1>11, <3>3, <4>2, GroupFacts, SMTT(30)
        <5> QED
          BY <3>1, <5>1, Zenon DEF cmd
      <4> QED
        BY <4>1, <4>2, Zenon
    <3> QED
      BY <3>3, Zenon
  <2> QED
    BY <2>1, <2>2, Zenon
<1>16. KeptInv(n)'
  <2>1. (NotAborted' <=> NotAborted) /\ \A h : InLog(h, "TxnPrepare")' <=> InLog(h, "TxnPrepare")
    BY <1>b, Zenon DEF NotAborted, Decided, InLog
  <2> SUFFICES ASSUME NotAborted, NEW h \in Participants, InLog(h, "TxnPrepare"),
                      h \notin f.user \union f.intents
               PROVE  Pending(n, h)'
    BY <1>11, <2>1, Zenon DEF KeptInv
  <2>2. Pending(n, h)
    BY <1>9, <1>10, Zenon DEF KeptInv, e
  <2>3. PICK i \in floor[n][h] + 1 .. Len(log[h]) : log[h][i] = "TxnPrepare"
    BY <2>2, Zenon DEF Pending
  <2>4. i \in floor'[n][h] + 1 .. Len(log[h])
    <3>1. CASE h # g
      BY <1>11, <3>1, GroupFacts, Zenon
    <3>2. CASE h = g
      <4>1. i \notin floor[n][g] + 1 .. applied[n][g]
        BY <1>10, <2>3, <3>2, Zenon DEF FloorInv
      <4>2. i # k
        <5>1. ASSUME i = k PROVE FALSE
          <6>1. cmd = "TxnPrepare"
            BY <2>3, <3>2, <5>1, Zenon DEF cmd
          <6>2. g \in f.intents
            BY <1>7, <6>1, Zenon DEF Ends, Stages
          <6> QED
            BY <3>2, <6>2, Zenon
        <5> QED
          BY <5>1, Zenon
      <4> QED
        BY <1>2, <1>3, <1>11, <2>3, <3>2, <4>1, <4>2, SMTT(30)
    <3> QED
      BY <3>1, <3>2, Zenon
  <2> QED
    BY <1>b, <2>3, <2>4, Zenon DEF Pending
<1>17. NodeInv(n)'
  BY <1>13, <1>14, <1>15, <1>16, Zenon DEF NodeInv
<1> QED
  BY <1>11, <1>17, <1>a, <1>b, OneNodeMoves, Zenon DEF AllOrNothingInv

\* A node crashes inside an entry, not inside a prepare on top of another group's.
LEMMA CrashInApplyKeepsNode ==
    ASSUME NatWellOrdered, AllOrNothingInv, NEW n \in Nodes, NEW g \in Groups, CrashInApply(n, g),
           ~config.tornPrepare
    PROVE  \A m \in Nodes : NodeInv(m)'
<1> DEFINE e == eng[n]
           k == applied[n][g] + 1
           cmd == log[g][k]
           w == apply_command(e, g, cmd)
<1>a. TwoPhaseInv /\ OrderInv /\ NodeInv(n)
  BY Zenon DEF AllOrNothingInv
<1>b. applied[n][g] < Len(log[g]) /\ n \in up /\ Down(n)
  BY Zenon DEF CrashInApply
<1>c. log' = log /\ up' = up \ {n} /\ applied' = applied /\ floor' = floor
  BY <1>b, Zenon DEF Down
<1>1. PICK f \in States(e, w) :
         /\ eng' = [eng EXCEPT ![n] = f]
         /\ cmd # "TxnPrepare" \/ e.rec \in {"None", "Aborted"} \/ f = Final(e, w)
  BY Zenon DEF CrashInApply
<1>2. /\ eng \in [Nodes -> EngineType] /\ log[g] \in Seq(Commands) /\ Len(log[g]) \in Nat
      /\ floor[n][g] \in Nat /\ applied[n][g] \in Nat /\ floor[n][g] <= applied[n][g]
      /\ DOMAIN log[g] = 1..Len(log[g])
  BY <1>a, PlaceTypes, Zenon
<1>3. k \in 1..Len(log[g]) /\ k \in floor[n][g] + 1 .. Len(log[g]) /\ cmd \in Commands
  <2>1. k \in 1..Len(log[g]) /\ k \in floor[n][g] + 1 .. Len(log[g])
    BY <1>2, <1>b, SMTT(30)
  <2>2. log[g][k] \in Commands
    BY <1>2, <2>1, SMTT(30)
  <2> QED
    BY <2>1, <2>2, Zenon
<1>4. InLog(g, cmd)
  BY <1>2, <1>3, Zenon DEF InLog, Range
<1>5. e \in EngineType /\ (cmd = "TxnPrepare" => g \in Participants)
  BY <1>2, <1>4, <1>a, Zenon DEF TwoPhaseInv, PlaceInv, Sent
<1>6. Turns(e, g, cmd, f) /\ Ends(e, g, cmd, Final(e, w))
  BY <1>1, <1>3, <1>5, CommandTurns, Zenon
<1>7. NotAborted => e.user \union e.intents \subseteq f.user \union f.intents
  BY <1>6, <1>a, <1>b, EntryKeeps, Zenon
<1>8. /\ Tidy(e) /\ e.rec \notin {"Preparing", "Committing"} /\ FloorInv(n) /\ AheadInv(n)
      /\ KeptInv(n)
  BY <1>a, <1>b, Zenon DEF NodeInv, SettledInv
<1>9. eng'[n] = f /\ \A m \in Nodes : m # n => eng'[m] = eng[m]
  BY <1>1, <1>2, Zenon
<1> HIDE DEF w, cmd, e
<1>10. SameRecord(e, f) \/ Stages(e, g, f) \/ Commits(e, f) \/ Aborts(e, f)
  BY <1>6, Zenon DEF Turns
<1>11. \A h : (Pending(n, h)' <=> Pending(n, h)) /\ (InLog(h, "TxnPrepare")' <=> InLog(h, "TxnPrepare"))
  BY <1>c, Zenon DEF Pending, InLog
<1>12. NotAborted' <=> NotAborted
  BY <1>c, Zenon DEF NotAborted, Decided, InLog
<1>13. Tidy(eng[n])' /\ SettledInv(n)' /\ FloorInv(n)'
  <2>1. Tidy(f)
    BY <1>8, <1>10, TidyTurns, Zenon
  <2> QED
    BY <1>8, <1>9, <1>c, <2>1, Zenon DEF Tidy, SettledInv, FloorInv
<1>14. LostInv(n)'
  <2> SUFFICES ASSUME f.rec = "Preparing", NEW h \in f.intents PROVE Pending(n, h)
    BY <1>9, <1>11, Zenon DEF LostInv
  <2>1. cmd = "TxnPrepare" /\ Stages(e, g, f)
    BY <1>6, <1>8, Zenon DEF Turns, SameRecord, Commits, Aborts
  <2>2. e.rec \in {"None", "Aborted"}
    BY <1>1, <1>6, <2>1, Zenon DEF Ends
  <2>3. h = g
    BY <1>8, <2>1, <2>2, Zenon DEF Stages, Tidy
  <2> QED
    BY <1>3, <2>1, <2>3, Zenon DEF Pending, cmd
<1>15. AheadInv(n)'
  <2> SUFFICES ASSUME f.rec = "Prepared"
               PROVE  \E h \in Participants : \A i \in 1..applied[n][h] : log[h][i] # "TxnCommit2pc"
    BY <1>9, <1>c, Zenon DEF AheadInv
  <2>1. CASE e.rec = "Prepared"
    BY <1>8, <2>1, Zenon DEF AheadInv, e
  <2>2. CASE e.rec # "Prepared"
    <3>1. cmd = "TxnPrepare"
      BY <1>6, <2>2, Zenon DEF Turns, SameRecord, Commits, Aborts
    <3>2. ASSUME NEW i \in 1..applied[n][g], log[g][i] = "TxnCommit2pc" PROVE FALSE
      <4>1. i \in 1..Len(log[g]) /\ ~(k < i)
        BY <1>2, <1>3, SMTT(30)
      <4>2. log[g][k] = "TxnPrepare"
        BY <3>1, Zenon DEF cmd
      <4> QED
        BY <1>3, <1>a, <3>2, <4>1, <4>2, Zenon DEF OrderInv
    <3> QED
      BY <1>5, <3>1, <3>2, Zenon
  <2> QED
    BY <2>1, <2>2, Zenon
<1>16. KeptInv(n)'
  BY <1>7, <1>8, <1>9, <1>11, <1>12, Zenon DEF KeptInv, e
<1>17. NodeInv(n)'
  BY <1>13, <1>14, <1>15, <1>16, Zenon DEF NodeInv
<1> QED
  BY <1>9, <1>17, <1>a, <1>c, OneNodeMoves, Zenon DEF AllOrNothingInv

\* Opening the engine, to its end or to a crash: what is given up is applied again.
LEMMA RecoveryKeepsNode ==
    ASSUME AllOrNothingInv, NEW n \in Nodes, Restart(n) \/ CrashInRestart(n)
    PROVE  \A m \in Nodes : NodeInv(m)'
<1> DEFINE e == eng[n]
           w == recover_incomplete_2pc(e)
<1>a. TwoPhaseInv /\ NodeInv(n)
  BY Zenon DEF AllOrNothingInv
<1>1. /\ eng \in [Nodes -> EngineType]
      /\ applied \in [Nodes -> [Groups -> Nat]] /\ floor \in [Nodes -> [Groups -> Nat]]
      /\ \A h \in Groups : /\ floor[n][h] \in Nat /\ applied[n][h] \in Nat
                           /\ floor[n][h] <= applied[n][h]
  BY <1>a, PlaceTypes, Zenon
<1>2. e \in EngineType
  BY <1>1, Zenon
<1>3. /\ \A f \in States(e, w) :
            \/ SameRecord(e, f)
            \/ Commits(e, f)
            \/ Aborts(e, f) /\ (e.dec = "DecideAbort" \/ e.rec = "Preparing")
      /\ Final(e, w).rec \notin {"Preparing", "Committing"}
  BY <1>2, RecoveryTurns, Zenon
<1>4. Final(e, w) \in States(e, w)
  BY <1>a, RecoveryMoves, Zenon
<1>5. PICK f \in States(e, w) :
         /\ eng' = [eng EXCEPT ![n] = f]
         /\ n \in up' => f.rec \notin {"Preparing", "Committing"}
  <2>1. CASE Restart(n)
    BY <1>3, <1>4, <2>1, Zenon DEF Restart
  <2>2. CASE CrashInRestart(n)
    <3>1. n \notin up'
      BY <2>2, Zenon DEF CrashInRestart, Down
    <3> QED
      BY <2>2, <3>1, Zenon DEF CrashInRestart
  <2> QED
    BY <2>1, <2>2, Zenon
<1>6. /\ log' = log /\ floor' = floor /\ \A m \in Nodes : m \in up' => m \in up \/ m = n
      /\ applied' \in {applied, [applied EXCEPT ![n] = floor[n]]}
  BY Zenon DEF Restart, CrashInRestart, Down
<1>7. /\ eng'[n] = f /\ \A m \in Nodes : m # n => eng'[m] = eng[m] /\ applied'[m] = applied[m]
      /\ \A h \in Groups : applied'[n][h] \in Nat /\ applied'[n][h] <= applied[n][h]
  BY <1>1, <1>5, <1>6, SMTT(30)
<1>8. /\ Tidy(e) /\ FloorInv(n) /\ LostInv(n) /\ AheadInv(n) /\ KeptInv(n)
      /\ e.dec \in {"None", Decided}
  BY <1>a, Zenon DEF NodeInv, TwoPhaseInv, DecisionIsFinal
<1> HIDE DEF w, e
<1>9. \/ SameRecord(e, f)
      \/ Commits(e, f)
      \/ Aborts(e, f) /\ (e.dec = "DecideAbort" \/ e.rec = "Preparing")
  BY <1>3, Zenon
<1>10. \A h : (Pending(n, h)' <=> Pending(n, h)) /\ (InLog(h, "TxnPrepare")' <=> InLog(h, "TxnPrepare"))
  BY <1>6, Zenon DEF Pending, InLog
<1>11. NotAborted' <=> NotAborted
  BY <1>6, Zenon DEF NotAborted, Decided, InLog
<1>12. Tidy(eng[n])' /\ SettledInv(n)'
  <2>1. Tidy(f)
    BY <1>8, <1>9, TidyTurns, Zenon
  <2> QED
    BY <1>5, <1>7, <2>1, Zenon DEF Tidy, SettledInv
<1>13. FloorInv(n)'
  <2>1. \A h \in Groups : floor[n][h] + 1 .. applied'[n][h] \subseteq floor[n][h] + 1 .. applied[n][h]
    BY <1>1, <1>7, SMTT(30)
  <2> QED
    BY <1>6, <1>8, <2>1, Zenon DEF FloorInv
<1>14. LostInv(n)'
  <2>1. f.rec = "Preparing" => e.rec = "Preparing" /\ f.intents \subseteq e.intents
    BY <1>9, Zenon DEF SameRecord, Commits, Aborts
  <2> QED
    BY <1>7, <1>8, <1>10, <2>1, Zenon DEF LostInv, e
<1>15. AheadInv(n)'
  <2>1. f.rec = "Prepared" => e.rec = "Prepared"
    BY <1>9, Zenon DEF SameRecord, Commits, Aborts
  <2>2. \A h \in Groups : 1..applied'[n][h] \subseteq 1..applied[n][h]
    BY <1>1, <1>7, SMTT(30)
  <2> QED
    BY <1>6, <1>7, <1>8, <2>1, <2>2, GroupFacts, Zenon DEF AheadInv, e
<1>16. KeptInv(n)'
  <2> SUFFICES ASSUME NotAborted, NEW h \in Participants, InLog(h, "TxnPrepare"),
                      h \notin f.user \union f.intents
               PROVE  Pending(n, h)
    BY <1>7, <1>10, <1>11, Zenon DEF KeptInv
  <2>1. CASE h \in e.user \union e.intents
    <3>1. Aborts(e, f) /\ h \in e.intents
      BY <1>9, <2>1, Zenon DEF SameRecord, Commits, Aborts
    <3>2. e.rec = "Preparing"
      BY <1>8, <1>9, <2>1, Zenon DEF SameRecord, Commits, NotAborted
    <3> QED
      BY <1>8, <3>1, <3>2, Zenon DEF LostInv, e
  <2>2. CASE h \notin e.user \union e.intents
    BY <1>8, <2>2, Zenon DEF KeptInv, e
  <2> QED
    BY <2>1, <2>2, Zenon
<1>17. NodeInv(n)'
  BY <1>12, <1>13, <1>14, <1>15, <1>16, Zenon DEF NodeInv
<1> QED
  BY <1>6, <1>7, <1>17, <1>a, OneNodeMoves, Zenon DEF AllOrNothingInv

\* A step that touches no node, except that it may end one.
LEMMA QuietNodes ==
    ASSUME \A m \in Nodes : NodeInv(m), log' = log, eng' = eng, applied' = applied,
           floor' = floor, up' \subseteq up
    PROVE  \A m \in Nodes : NodeInv(m)'
<1> SUFFICES ASSUME NEW m \in Nodes PROVE NodeInv(m)'
  BY Zenon
<1>1. NodeInv(m)
  BY Zenon
<1>2. NotAborted' <=> NotAborted
  BY Zenon DEF NotAborted, Decided, InLog
<1>3. \A g : (Pending(m, g)' <=> Pending(m, g)) /\ (InLog(g, "TxnPrepare")' <=> InLog(g, "TxnPrepare"))
  BY Zenon DEF Pending, InLog
<1> QED
  BY <1>1, <1>2, <1>3, Zenon DEF NodeInv, Tidy, SettledInv, FloorInv, LostInv, AheadInv, KeptInv

\* The commit of a proposal: a prepare that is new to the log is behind no apply index.
LEMMA ReplicateKeepsNodes ==
    ASSUME NatWellOrdered, AllOrNothingInv, NEW g \in Groups, NEW cmd \in Commands, Replicate(g, cmd)
    PROVE  \A m \in Nodes : NodeInv(m)'
<1> SUFFICES ASSUME NEW n \in Nodes PROVE NodeInv(n)'
  BY Zenon
<1>a. TwoPhaseInv /\ NodeInv(n)
  BY Zenon DEF AllOrNothingInv
<1>1. eng' = eng /\ applied' = applied /\ floor' = floor /\ up' = up
  BY Zenon DEF Replicate
<1>2. /\ log' \in [Groups -> Seq(Commands)]
      /\ \A h \in Groups : /\ Len(log[h]) <= Len(log'[h])
                           /\ \A i \in 1..Len(log[h]) : log'[h][i] = log[h][i]
      /\ Decided # "None" => Decided' = Decided
      /\ \A h \in Groups : \A c : InLog(h, c)' <=> InLog(h, c) \/ (h = g /\ c = cmd)
  BY <1>a, ReplicateGrows, Zenon
<1>3. \A h \in Groups :
         /\ Len(log[h]) \in Nat /\ Len(log'[h]) \in Nat
         /\ floor[n][h] \in Nat /\ applied[n][h] \in Nat
         /\ floor[n][h] <= applied[n][h] /\ applied[n][h] <= Len(log[h])
  BY <1>2, <1>a, PlaceTypes, SMTT(30)
<1>4. ASSUME NEW h \in Groups
      PROVE  /\ 1..applied[n][h] \subseteq 1..Len(log[h])
             /\ floor[n][h] + 1 .. applied[n][h] \subseteq 1..Len(log[h])
             /\ floor[n][h] + 1 .. Len(log[h]) \subseteq 1..Len(log[h])
             /\ floor[n][h] + 1 .. Len(log[h]) \subseteq floor[n][h] + 1 .. Len(log'[h])
  <2>1. /\ Len(log[h]) \in Nat /\ Len(log'[h]) \in Nat
        /\ floor[n][h] \in Nat /\ applied[n][h] \in Nat
        /\ floor[n][h] <= applied[n][h] /\ applied[n][h] <= Len(log[h])
        /\ Len(log[h]) <= Len(log'[h])
    BY <1>2, <1>3, Zenon
  <2>2. ASSUME NEW f \in Nat, NEW a \in Nat, NEW b \in Nat, NEW c \in Nat,
               f <= a, a <= b, b <= c
        PROVE  /\ 1..a \subseteq 1..b
               /\ f + 1 .. a \subseteq 1..b
               /\ f + 1 .. b \subseteq 1..b
               /\ f + 1 .. b \subseteq f + 1 .. c
    BY <2>2, SMTT(30)
  <2> QED
    BY <2>1, <2>2, Zenon
<1>5. \A h \in Groups : Pending(n, h) => Pending(n, h)'
  BY <1>1, <1>2, <1>4, Zenon DEF Pending
<1>6. NotAborted' => NotAborted
  BY <1>2, Zenon DEF NotAborted
<1>7. Tidy(eng[n])' /\ SettledInv(n)'
  BY <1>1, <1>a, Zenon DEF NodeInv, Tidy, SettledInv
<1>8. FloorInv(n)' /\ AheadInv(n)'
  <2>1. \A h \in Groups : \A i \in floor[n][h] + 1 .. applied[n][h] : log'[h][i] # "TxnPrepare"
    BY <1>2, <1>4, <1>a, Zenon DEF NodeInv, FloorInv
  <2>2. ASSUME NEW h \in Participants, \A i \in 1..applied[n][h] : log[h][i] # "TxnCommit2pc"
        PROVE  \A i \in 1..applied[n][h] : log'[h][i] # "TxnCommit2pc"
    BY <1>2, <1>4, <2>2, GroupFacts, Zenon
  <2>3. AheadInv(n)
    BY <1>a, Zenon DEF NodeInv
  <2> QED
    BY <1>1, <2>1, <2>2, <2>3, Zenon DEF FloorInv, AheadInv
<1>9. LostInv(n)'
  <2>1. eng[n].intents \subseteq Groups
    BY <1>a, PlaceTypes, GroupFacts, Zenon DEF EngineType
  <2> QED
    BY <1>1, <1>5, <1>a, <2>1, Zenon DEF NodeInv, LostInv
<1>10. KeptInv(n)'
  <2> SUFFICES ASSUME NotAborted', NEW h \in Participants, InLog(h, "TxnPrepare")'
               PROVE  h \in eng[n].user \union eng[n].intents \/ Pending(n, h)'
    BY <1>1, Zenon DEF KeptInv
  <2>1. h \in Groups
    BY GroupFacts, Zenon
  <2>2. CASE InLog(h, "TxnPrepare")
    BY <1>5, <1>6, <1>a, <2>1, <2>2, Zenon DEF NodeInv, KeptInv
  <2>3. CASE ~InLog(h, "TxnPrepare")
    <3>1. h = g /\ cmd = "TxnPrepare"
      BY <1>2, <2>1, <2>3, Zenon
    <3>2. log[g] \in Seq(Commands) /\ log \in [Groups -> Seq(Commands)]
      BY <1>a, PlaceTypes, Zenon
    <3>3. Len(log'[g]) = Len(log[g]) + 1 /\ log'[g][Len(log[g]) + 1] = cmd
      BY <3>2, SMTT(30) DEF Replicate
    <3>4. Len(log'[g]) \in floor[n][g] + 1 .. Len(log'[g])
      BY <1>3, <3>3, SMTT(30)
    <3> QED
      BY <1>1, <3>1, <3>3, <3>4, Zenon DEF Pending
  <2> QED
    BY <2>2, <2>3, Zenon
<1> QED
  BY <1>7, <1>8, <1>9, <1>10, Zenon DEF NodeInv

\* Every step keeps the invariant, if no node dies inside a prepare on top of another group's.
LEMMA AllOrNothingNext ==
    ASSUME NatWellOrdered, \A c \in Configs : ~c.tornPrepare, AllOrNothingInv, [Next]_vars
    PROVE  AllOrNothingInv'
<1>1. TwoPhaseInv /\ OrderInv /\ \A m \in Nodes : NodeInv(m)
  BY Zenon DEF AllOrNothingInv
<1>2. ~config.tornPrepare
  BY <1>1, Zenon DEF TwoPhaseInv, TwoPhaseTypeOK
<1>3. TwoPhaseInv'
  BY <1>1, TwoPhaseInvNext, Zenon
<1>4. OrderInv'
  BY <1>1, OrderInvNext, Zenon
<1>5. \A m \in Nodes : NodeInv(m)'
  <2>1. CASE \/ \E n \in Nodes : Begin(n)
             \/ PrepareDone \/ DecideDone \/ UndecideDone \/ ReleaseDone \/ CommitDone
             \/ \E g \in Groups : Timeout(g)
             \/ \E g \in Groups, cmd \in Commands : Lose(g, cmd)
    <3>1. UnchangedReplicas
      BY <2>1, Zenon DEF Begin, PrepareDone, DecideDone, UndecideDone, ReleaseDone, CommitDone,
                         Timeout, Lose
    <3> QED
      BY <1>1, <3>1, QuietNodes, Zenon DEF UnchangedReplicas
  <2>2. CASE \E g \in Groups, cmd \in Commands : Replicate(g, cmd)
    BY <2>2, ReplicateKeepsNodes, Zenon
  <2>3. CASE \E n \in Nodes, g \in Groups : Apply(n, g)
    BY <2>3, ApplyKeepsNode, Zenon
  <2>4. CASE \E n \in Nodes : Crash(n)
    <3>1. log' = log /\ eng' = eng /\ applied' = applied /\ floor' = floor /\ up' \subseteq up
      BY <2>4, Zenon DEF Crash, Down
    <3> QED
      BY <1>1, <3>1, QuietNodes, Zenon
  <2>5. CASE \E n \in Nodes, g \in Groups : CrashInApply(n, g)
    BY <1>2, <2>5, CrashInApplyKeepsNode, Zenon
  <2>6. CASE \E n \in Nodes : Restart(n) \/ CrashInRestart(n)
    BY <2>6, RecoveryKeepsNode, Zenon
  <2>7. CASE (\E n \in Nodes : abort_orphaned_prepares(n)) \/ UNCHANGED vars
    <3>1. log' = log /\ eng' = eng /\ applied' = applied /\ floor' = floor /\ up' \subseteq up
      BY <2>7, Zenon DEF abort_orphaned_prepares, vars
    <3> QED
      BY <1>1, <3>1, QuietNodes, Zenon
  <2> QED
    BY <2>1, <2>2, <2>3, <2>4, <2>5, <2>6, <2>7, Zenon DEF Next
<1> QED
  BY <1>3, <1>4, <1>5, Zenon DEF AllOrNothingInv

\* The invariant holds at the start.
LEMMA AllOrNothingInit ==
    Init => AllOrNothingInv
<1> SUFFICES ASSUME Init PROVE AllOrNothingInv
  BY Zenon
<1>1. /\ phase = "idle" /\ flight = {} /\ \A g \in Groups : log[g] = <<>>
      /\ \A n \in Nodes : eng[n] = EmptyEngine /\ \A g \in Groups : applied[n][g] = 0
      /\ \A n \in Nodes : \A g \in Groups : floor[n][g] = 0
  BY Zenon DEF Init
<1>2. \A g \in Groups : \A c : ~InLog(g, c) /\ ~Sent(g, c)
  <2>1. Range(<<>>) = {}
    BY SMTT(30) DEF Range
  <2> QED
    BY <1>1, <2>1, Zenon DEF InLog, Sent
<1>3. OrderInv
  BY <1>1, <1>2, SMTT(30) DEF OrderInv
<1>4. ASSUME NEW n \in Nodes PROVE NodeInv(n)
  <2>1. eng[n].rec = "None" /\ eng[n].intents = {}
    BY <1>1, SMTT(30) DEF EmptyEngine
  <2>2. Tidy(eng[n]) /\ SettledInv(n) /\ LostInv(n) /\ AheadInv(n)
    BY <2>1, Zenon DEF Tidy, SettledInv, LostInv, AheadInv
  <2>3. FloorInv(n)
    BY <1>1, SMTT(30) DEF FloorInv
  <2>4. KeptInv(n)
    BY <1>2, GroupFacts, Zenon DEF KeptInv
  <2> QED
    BY <2>2, <2>3, <2>4, Zenon DEF NodeInv
<1> QED
  BY <1>3, <1>4, TwoPhaseInvInit, Zenon DEF AllOrNothingInv

\* What the invariant says of a node that is caught up.
LEMMA AllOrNothingImplies ==
    ASSUME NatWellOrdered, AllOrNothingInv PROVE CaughtUpReplicasAgree
<1> SUFFICES ASSUME NEW n \in Nodes, CaughtUp(n)
             PROVE  /\ Decided = "DecideAbort" => eng[n].user = {}
                    /\ (\A g \in Participants : "TxnCommit2pc" \in Range(log[g]))
                          => eng[n].user = Participants
  BY Zenon DEF CaughtUpReplicasAgree
<1>1. TwoPhaseInv /\ OrderInv /\ NodeInv(n)
  BY Zenon DEF AllOrNothingInv
<1>2. Decided = "DecideAbort" => eng[n].user = {}
  BY <1>1, Zenon DEF TwoPhaseInv, CommitInv, Exposes
<1>3. ASSUME \A g \in Participants : InLog(g, "TxnCommit2pc") PROVE eng[n].user = Participants
  <2>1. eng[n] \in EngineType /\ \A g \in Groups : log[g] \in Seq(Commands)
                                                   /\ DOMAIN log[g] = 1..Len(log[g])
    BY <1>1, PlaceTypes, Zenon
  <2>2. n \in up /\ \A g \in Groups : applied[n][g] = Len(log[g])
    BY Zenon DEF CaughtUp
  <2>3. CASE Participants = {}
    BY <2>1, <2>3, Zenon DEF EngineType
  <2>4. CASE Participants # {}
    <3>1. PICK p \in Participants : InLog(p, "TxnCommit2pc")
      BY <1>3, <2>4, Zenon
    <3>2. Decided = "DecideCommit" /\ \A g \in Groups : ~Sent(g, "TxnAbort2pc")
      BY <1>1, <3>1, GroupFacts, Zenon DEF TwoPhaseInv, CommitInv, OrderInv, Sent
    <3>3. NotAborted
      BY <3>2, Zenon DEF NotAborted, Sent
    <3>4. InLog(DECISION_GROUP, "DecideCommit")
      BY <2>1, <3>2, FirstDecisionIsInLog, GroupFacts, Zenon DEF Decided, InLog
    <3>5. \A g \in Participants : InLog(g, "TxnPrepare")
      BY <1>1, <3>4, Zenon DEF TwoPhaseInv, HeardInv, Sent
    <3>6. \A g \in Groups : ~Pending(n, g)
      BY <1>1, <2>2, Zenon DEF NodeInv, FloorInv, Pending
    <3>7. Participants \subseteq eng[n].user \union eng[n].intents
      BY <1>1, <3>3, <3>5, <3>6, GroupFacts, Zenon DEF NodeInv, KeptInv
    <3>8. \A g \in Participants : \E i \in 1..Len(log[g]) : log[g][i] = "TxnCommit2pc"
      BY <1>3, <2>1, GroupFacts, Zenon DEF InLog, Range
    <3>9. eng[n].rec # "Prepared"
      BY <1>1, <2>2, <3>8, GroupFacts, Zenon DEF NodeInv, AheadInv
    <3>10. eng[n].intents = {}
      BY <1>1, <2>1, <2>2, <3>9, Zenon DEF NodeInv, SettledInv, Tidy, EngineType, Txn2pcState
    <3> QED
      BY <2>1, <3>7, <3>10, Zenon DEF EngineType
  <2> QED
    BY <2>3, <2>4, Zenon
<1> QED
  BY <1>2, <1>3, Zenon DEF InLog

-----------------------------------------------------------------------------
(***************************************************************************)
(* The engine of a replica holds a prefix of the committed entries, for    *)
(* any keys, any number of entries and of stops.  The property alone is    *)
(* not inductive: it does not say which entry comes next.  The invariant   *)
(* below does: the engine's log is 1, ..., last with repetitions only in   *)
(* place, at most the last of them is not recorded, and a write that a     *)
(* power loss may take is never behind a recorded one.                     *)
(***************************************************************************)

\* The last entry the engine has executed.
LastWrite == IF writes = << >> THEN 0 ELSE writes[Len(writes)]

ReplicaInv ==
    /\ committed \in Seq(ReplicaKeys)
    /\ writes \in Seq(Nat)
    /\ synced \in 0..Len(writes)
    /\ durability \in {Strict, Relaxed}
    /\ durability = Strict => synced = Len(writes)
    /\ \A i \in 1..Len(writes) : writes[i] >= 1
    /\ \A i, j \in 1..Len(writes) : i <= j => writes[i] <= writes[j]
    /\ \A e \in 1..LastWrite : \E i \in 1..Len(writes) : writes[i] = e
    /\ LastWrite <= Len(committed)
    /\ last_applied \in Nat
    /\ last_applied = LastWrite \/ last_applied + 1 = LastWrite
    /\ \/ unrecorded = {} /\ recorded = 1..last_applied
       \/ unrecorded = {last_applied} /\ last_applied = LastWrite /\ last_applied >= 1 /\ recorded = 1..(last_applied - 1)

-----------------------------------------------------------------------------
\* The largest number of an interval that starts at 1.
LEMMA MaxInterval ==
    ASSUME NatWellOrdered, NEW n \in Nat, n # 0
    PROVE  Max(1..n) = n
<1>1. 1..n \subseteq Nat /\ 1..n # {} /\ \A y \in 1..n : y <= n
  BY SMTT(30)
<1>2. Max(1..n) \in 1..n /\ \A y \in 1..n : Max(1..n) >= y
  BY <1>1, MaxNat, Zenon
<1>3. n \in 1..n
  BY SMTT(30)
<1> QED
  BY <1>2, <1>3, SMTT(30)

\* A restart goes on behind the last recorded entry.
LEMMA FloorOfInterval ==
    ASSUME NatWellOrdered, NEW n \in Nat, recorded = 1..n
    PROVE  ApplyFloor = n
<1>1. CASE n = 0
  BY <1>1, SMTT(30) DEF ApplyFloor
<1>2. CASE n # 0
  <2>1. 1 \in 1..n
    BY <1>2, SMTT(30)
  <2> QED
    BY <1>2, <2>1, MaxInterval, Zenon DEF ApplyFloor
<1> QED
  BY <1>1, <1>2, Zenon

\* The last write is one of the writes.
LEMMA LastWriteType ==
    ASSUME writes \in Seq(Nat)
    PROVE  /\ LastWrite \in Nat
           /\ writes # << >> => Len(writes) \in 1..Len(writes) /\ LastWrite = writes[Len(writes)]
<1>1. CASE writes = << >>
  BY <1>1, Zenon DEF LastWrite
<1>2. CASE writes # << >>
  <2>1. Len(writes) \in 1..Len(writes)
    BY <1>2, SMTT(30)
  <2>2. writes[Len(writes)] \in Nat
    BY <2>1, SMTT(30)
  <2> QED
    BY <1>2, <2>1, <2>2, Zenon DEF LastWrite
<1> QED
  BY <1>1, <1>2, Zenon

\* Every write is of an entry up to the last.
LEMMA WritesInRange ==
    ASSUME ReplicaInv
    PROVE  \A i \in 1..Len(writes) : writes[i] \in 1..LastWrite
<1> SUFFICES ASSUME NEW i \in 1..Len(writes) PROVE writes[i] \in 1..LastWrite
  BY Zenon
<1>1. writes \in Seq(Nat) /\ Len(writes) \in Nat /\ writes[i] \in Nat /\ writes[i] >= 1
  BY SMTT(30) DEF ReplicaInv
<1>2. writes # << >>
  BY <1>1, SMTT(30)
<1>3. Len(writes) \in 1..Len(writes) /\ LastWrite = writes[Len(writes)] /\ LastWrite \in Nat
  BY <1>1, <1>2, LastWriteType, Zenon
<1>4. i <= Len(writes)
  BY <1>1, SMTT(30)
<1>5. writes[i] <= writes[Len(writes)]
  BY <1>3, <1>4, Zenon DEF ReplicaInv
<1> QED
  BY <1>1, <1>3, <1>5, SMTT(30)

\* A group starts with nothing committed and nothing executed.
LEMMA InvInitially ==
    ASSUME Durabilities \subseteq {Strict, Relaxed}, ReplicaInit
    PROVE  ReplicaInv
<1>1. writes = << >> /\ LastWrite = 0 /\ Len(writes) = 0
  BY Zenon DEF ReplicaInit, LastWrite
<1>2. 1..0 = {}
  BY SMTT(30)
<1> QED
  BY <1>1, <1>2, SMTT(30) DEF ReplicaInit, ReplicaInv

\* Executing an entry, also one that was executed before the last stop.
LEMMA ApplyEntryKeepsInv ==
    ASSUME ReplicaInv, ApplyEntry
    PROVE  ReplicaInv'
<1> DEFINE n == last_applied + 1
<1>1. /\ writes' = Append(writes, n) /\ writes' \in Seq(Nat) /\ writes' # << >>
      /\ Len(writes') = Len(writes) + 1
      /\ \A i \in 1..Len(writes) : writes'[i] = writes[i]
      /\ writes'[Len(writes) + 1] = n
  <2>1. n \in Nat /\ writes \in Seq(Nat) /\ writes' = Append(writes, n)
    BY SMTT(30) DEF ReplicaInv, ApplyEntry
  <2> QED
    BY <2>1, SMTT(30)
<1>2. LastWrite' = n /\ Len(writes) \in Nat
  BY <1>1, SMTT(30) DEF LastWrite, ReplicaInv
<1>3. last_applied' = n /\ unrecorded' = {n} /\ recorded' = 1..(n - 1) /\ n \in Nat /\ n >= 1
  BY SMTT(30) DEF ApplyEntry, ReplicaInv
<1>4. n <= Len(committed) /\ committed' = committed
  BY SMTT(30) DEF ApplyEntry, ReplicaInv
<1>5. LastWrite \in Nat /\ (n = LastWrite \/ n = LastWrite + 1)
  BY LastWriteType, Zenon DEF ReplicaInv
<1>6. \A i \in 1..Len(writes) : writes[i] \in 1..LastWrite
  BY WritesInRange, Zenon
<1>7. \A i \in 1..Len(writes') : writes'[i] >= 1
  BY <1>1, <1>2, <1>3, SMTT(30) DEF ReplicaInv
<1>8. \A i, j \in 1..Len(writes') : i <= j => writes'[i] <= writes'[j]
  <2> SUFFICES ASSUME NEW i \in 1..Len(writes'), NEW j \in 1..Len(writes'), i <= j
               PROVE  writes'[i] <= writes'[j]
    BY Zenon
  <2>1. CASE j \in 1..Len(writes)
    <3>1. i \in 1..Len(writes)
      BY <2>1, <1>2, SMTT(30)
    <3> QED
      BY <1>1, <2>1, <3>1, Zenon DEF ReplicaInv
  <2>2. CASE j = Len(writes) + 1 /\ i = j
    BY <1>1, <1>3, <2>2, SMTT(30)
  <2>3. CASE j = Len(writes) + 1 /\ i \in 1..Len(writes)
    BY <1>1, <1>3, <1>5, <1>6, <2>3, SMTT(30)
  <2> QED
    BY <1>1, <1>2, <2>1, <2>2, <2>3, SMTT(30)
<1>9. \A e \in 1..n : \E i \in 1..Len(writes') : writes'[i] = e
  <2> SUFFICES ASSUME NEW e \in 1..n
               PROVE  \E i \in 1..Len(writes') : writes'[i] = e
    BY Zenon
  <2>1. CASE e = n
    <3>1. Len(writes) + 1 \in 1..Len(writes')
      BY <1>1, <1>2, SMTT(30)
    <3> QED
      BY <1>1, <2>1, <3>1, Zenon
  <2>2. CASE e # n
    <3>1. e \in 1..LastWrite
      BY <1>3, <1>5, <2>2, SMTT(30)
    <3>2. PICK i \in 1..Len(writes) : writes[i] = e
      BY <3>1, Zenon DEF ReplicaInv
    <3> QED
      BY <1>1, <1>2, <3>2, SMTT(30)
  <2> QED
    BY <2>1, <2>2, Zenon
<1>10. synced' \in 0..Len(writes') /\ durability' = durability
       /\ (durability = Strict => synced' = Len(writes'))
  BY <1>1, <1>2, SMTT(30) DEF ApplyEntry, ReplicaInv, Strict, Relaxed
<1> HIDE DEF n
<1> QED
  BY <1>1, <1>2, <1>3, <1>4, <1>7, <1>8, <1>9, <1>10, Zenon DEF ReplicaInv

\* The line of the apply index is written.
LEMMA RecordKeepsInv ==
    ASSUME ReplicaInv, RecordEntry
    PROVE  ReplicaInv'
<1>1. unrecorded = {last_applied} /\ last_applied = LastWrite /\ last_applied >= 1 /\ recorded = 1..(last_applied - 1)
      /\ last_applied \in Nat
  BY Zenon DEF ReplicaInv, RecordEntry
<1>2. recorded' = 1..last_applied
  <2>1. (1..(last_applied - 1)) \cup {last_applied} = 1..last_applied
    BY <1>1, SMTT(30)
  <2> QED
    BY <1>1, <2>1, Zenon DEF RecordEntry
<1>3. unrecorded' = {} /\ last_applied' = last_applied /\ LastWrite' = LastWrite
      /\ UNCHANGED <<committed, writes, synced, durability>>
  BY Zenon DEF RecordEntry, LastWrite
<1> QED
  BY <1>2, <1>3, Zenon DEF ReplicaInv

\* A stop that leaves the engine's log as it is: last_applied falls back to the entries
\* that have a line, at most by one.
LEMMA StopKeepsInv ==
    ASSUME NatWellOrdered, ReplicaInv, Stop, writes' = writes, synced' = synced
    PROVE  ReplicaInv'
<1>1. LastWrite \in Nat /\ LastWrite' = LastWrite /\ last_applied \in Nat
  BY LastWriteType, Zenon DEF ReplicaInv, LastWrite
<1>2. \E n \in Nat : /\ recorded = 1..n /\ last_applied' = n
                     /\ n = LastWrite \/ n + 1 = LastWrite
  <2>1. CASE unrecorded = {} /\ recorded = 1..last_applied
    BY <1>1, <2>1, FloorOfInterval, Zenon DEF ReplicaInv, Stop
  <2>2. CASE unrecorded = {last_applied} /\ last_applied = LastWrite /\ last_applied >= 1
             /\ recorded = 1..(last_applied - 1)
    <3>1. last_applied - 1 \in Nat
      BY <1>1, <2>2, SMTT(30)
    <3>2. ApplyFloor = last_applied - 1
      BY <2>2, <3>1, FloorOfInterval, Zenon
    <3> QED
      BY <1>1, <2>2, <3>1, <3>2, SMTT(30) DEF Stop
  <2> QED
    BY <2>1, <2>2, Zenon DEF ReplicaInv
<1>3. unrecorded' = {} /\ recorded' = recorded /\ committed' = committed
      /\ durability' = durability
  BY Zenon DEF Stop
<1> QED
  BY <1>1, <1>2, <1>3, Zenon DEF ReplicaInv

\* Every step keeps the invariant.  A power loss meets strict writes only, which are all
\* synced, so that it takes nothing.
LEMMA InvKept ==
    ASSUME NatWellOrdered, ReplicaInv, [ReplicaNext]_replicaVars
    PROVE  ReplicaInv'
<1>1. ASSUME NEW k \in ReplicaKeys, CommitEntry(k) PROVE ReplicaInv'
  <2>1. committed \in Seq(ReplicaKeys)
    BY Zenon DEF ReplicaInv
  <2>2. committed' \in Seq(ReplicaKeys) /\ Len(committed') = Len(committed) + 1
    BY <1>1, <2>1, SMTT(30) DEF CommitEntry
  <2>3. LastWrite' = LastWrite /\ LastWrite \in Nat /\ Len(committed) \in Nat
    BY <1>1, <2>1, LastWriteType, SMTT(30) DEF CommitEntry, LastWrite, ReplicaInv
  <2>4. LastWrite' <= Len(committed')
    BY <2>2, <2>3, SMTT(30) DEF ReplicaInv
  <2> QED
    BY <1>1, <2>2, <2>3, <2>4, Zenon DEF CommitEntry, ReplicaInv
<1>2. CASE ApplyEntry
  BY <1>2, ApplyEntryKeepsInv, Zenon
<1>3. CASE RecordEntry
  BY <1>3, RecordKeepsInv, Zenon
<1>4. CASE WriteBack
  <2>1. LastWrite' = LastWrite /\ synced' \in 0..Len(writes)
    BY <1>4, SMTT(30) DEF WriteBack, LastWrite, ReplicaInv
  <2> QED
    BY <1>4, <2>1, Zenon DEF WriteBack, ReplicaInv
<1>5. CASE ProcessStops
  BY <1>5, StopKeepsInv, Zenon DEF ProcessStops
<1>6. CASE PowerLoss
  <2>1. durability = Strict /\ synced = Len(writes) /\ writes \in Seq(Nat)
    BY <1>6, SMTT(30) DEF PowerLoss, ReplicaInv, Relaxed
  <2>2. PICK kept \in synced..Len(writes) : writes' = SubSeq(writes, 1, kept) /\ synced' = kept
    BY <1>6, Zenon DEF PowerLoss
  <2>3. kept = Len(writes)
    BY <2>1, <2>2, SMTT(30)
  <2>4. writes' = writes /\ synced' = synced
    BY <2>1, <2>2, <2>3, SMTT(30)
  <2> QED
    BY <1>6, <2>4, StopKeepsInv, Zenon DEF PowerLoss
<1>7. CASE UNCHANGED replicaVars
  BY <1>7, Zenon DEF replicaVars, ReplicaInv, LastWrite
<1> QED
  BY <1>1, <1>2, <1>3, <1>4, <1>5, <1>6, <1>7, Zenon DEF ReplicaNext

-----------------------------------------------------------------------------
\* The last write of a key in the engine's log is the last entry of the key among those
\* executed: the writes run through them in order.
LEMMA LastWritesAgree ==
    ASSUME NatWellOrdered, ReplicaInv, NEW k
    PROVE  Value(k) = PrefixValue(k, LastWrite)
<1> DEFINE D == {i \in DOMAIN writes : committed[writes[i]] = k}
           E == {e \in 1..LastWrite : committed[e] = k}
<1>1. writes \in Seq(Nat) /\ DOMAIN writes = 1..Len(writes) /\ Len(writes) \in Nat
      /\ LastWrite \in Nat
  BY LastWriteType, SMTT(30) DEF ReplicaInv
<1>2. \A i \in 1..Len(writes) : writes[i] \in 1..LastWrite
  BY WritesInRange, Zenon
<1>3. D = {} <=> E = {}
  <2>1. \A i \in D : writes[i] \in E
    BY <1>1, <1>2, Zenon
  <2>2. \A e \in E : \E i \in D : writes[i] = e
    <3> SUFFICES ASSUME NEW e \in E PROVE \E i \in D : writes[i] = e
      BY Zenon
    <3>1. PICK i \in 1..Len(writes) : writes[i] = e
      BY Zenon DEF ReplicaInv
    <3> QED
      BY <1>1, <3>1, Zenon
  <2> QED
    BY <2>1, <2>2, Zenon
<1>4. Value(k) = IF LastOf(D) = 0 THEN 0 ELSE writes[LastOf(D)]
  BY Zenon DEF Value
<1>5. PrefixValue(k, LastWrite) = LastOf(E)
  BY Zenon DEF PrefixValue
<1>6. CASE D = {}
  BY <1>3, <1>4, <1>5, <1>6, Zenon DEF LastOf
<1>7. CASE D # {}
  <2>1. D \subseteq Nat /\ E \subseteq Nat /\ E # {}
    BY <1>1, <1>3, <1>7, SMTT(30)
  <2>2. (\A i \in D : i <= Len(writes)) /\ (\A e \in E : e <= LastWrite)
    BY <1>1, SMTT(30)
  <2>3. Max(D) \in D /\ \A i \in D : Max(D) >= i
    <3> HIDE DEF D
    <3> QED
      BY <1>1, <1>7, <2>1, <2>2, MaxNat, Zenon
  <2>4. Max(E) \in E /\ \A e \in E : Max(E) >= e
    <3> HIDE DEF E
    <3> QED
      BY <1>1, <2>1, <2>2, MaxNat, Zenon
  <2> DEFINE p == Max(D)
             m == Max(E)
  <2>5. p \in 1..Len(writes) /\ writes[p] \in E
    BY <1>1, <1>2, <2>3, Zenon
  <2>6. m >= writes[p]
    BY <2>4, <2>5, Zenon
  <2>7. PICK i \in 1..Len(writes) : writes[i] = m
    <3>1. m \in 1..LastWrite
      BY <2>4, Zenon
    <3> HIDE DEF m
    <3> QED
      BY <3>1, Zenon DEF ReplicaInv
  <2>8. i \in D
    BY <1>1, <2>4, <2>7, Zenon
  <2>9. m <= writes[p]
    <3>1. i <= p
      BY <2>3, <2>5, <2>8, Zenon
    <3> HIDE DEF p, m
    <3> QED
      BY <2>5, <2>7, <3>1, Zenon DEF ReplicaInv
  <2>10. m = writes[p] /\ p # 0
    <3>1. m \in Nat /\ writes[p] \in Nat
      BY <2>1, <2>4, <2>5, Zenon
    <3> QED
      BY <2>5, <2>6, <2>9, <3>1, SMTT(30)
  <2> QED
    BY <1>3, <1>4, <1>5, <1>7, <2>10, Zenon DEF LastOf
<1> QED
  BY <1>6, <1>7, Zenon

-----------------------------------------------------------------------------
(***************************************************************************)
(* The sequence numbers an engine takes from its hybrid clock increase,    *)
(* and the clock stays within the uncertainty bound of a wall clock that   *)
(* is not set back, for every width of the logical part and every bound.   *)
(***************************************************************************)

ClockType == [physical : Nat, logical : Nat]

\* The clock leads the wall clock by what checked_update lets through at most, so that the
\* sleep of prepare_hlc_write_sequence, which is capped there, is never cut short.
LeadIsBounded == ~setBack => hlc.physical <= wall + MaxOffset

ClockInv ==
    /\ wall \in Nat
    /\ setBack \in BOOLEAN
    /\ hlc \in ClockType
    /\ nextSequence \in Nat
    /\ commits \in Seq(Nat)
    /\ \A i \in 1..Len(commits) : commits[i] < nextSequence
    /\ TimestampsIncrease
    /\ LeadIsBounded

-----------------------------------------------------------------------------
\* The largest of three numbers.
LEMMA MaxTriple ==
    ASSUME NatWellOrdered, NEW a \in Nat, NEW b \in Nat, NEW c \in Nat
    PROVE  /\ Max({a, b, c}) \in {a, b, c}
           /\ Max({a, b, c}) >= a /\ Max({a, b, c}) >= b /\ Max({a, b, c}) >= c
<1> DEFINE S == {a, b, c}
<1>1. S \subseteq Nat /\ S # {} /\ a + b + c \in Nat /\ \A y \in S : y <= a + b + c
  BY SMTT(30)
<1>2. a \in S /\ b \in S /\ c \in S
  BY Zenon
<1> HIDE DEF S
<1>3. Max(S) \in S /\ \A y \in S : Max(S) >= y
  BY <1>1, MaxNat, Zenon
<1>4. Max(S) >= a /\ Max(S) >= b /\ Max(S) >= c
  BY <1>2, <1>3, Zenon
<1> QED
  BY <1>3, <1>4, Zenon DEF S

\* The merge rule gives a clock whose physical part is the largest of the three.
LEMMA UpdateType ==
    ASSUME NatWellOrdered, LogicalMax \in Nat, NEW clock \in ClockType, NEW remote \in ClockType, NEW now \in Nat
    PROVE  /\ Update(clock, now, remote) \in ClockType
           /\ Update(clock, now, remote).physical \in {now, clock.physical, remote.physical}
<1> DEFINE pt == Max({now, clock.physical, remote.physical})
           ll == Max({clock.logical, remote.logical})
<1>1. clock.physical \in Nat /\ remote.physical \in Nat /\ clock.logical \in Nat
      /\ remote.logical \in Nat
  BY Zenon DEF ClockType
<1>2. pt \in {now, clock.physical, remote.physical} /\ pt \in Nat
  BY <1>1, MaxTriple, SMTT(30)
<1>3. ll \in Nat
  BY <1>1, MaxPair, SMTT(30)
<1>4. \A l \in Nat : SaturatingAdd(l) \in Nat
  BY SMTT(30) DEF SaturatingAdd
<1>5. Update(clock, now, remote).physical = pt
  BY Zenon DEF Update
<1>6. Update(clock, now, remote) \in ClockType
  <2> HIDE DEF pt, ll
  <2>1. SaturatingAdd(ll) \in Nat /\ SaturatingAdd(clock.logical) \in Nat
        /\ SaturatingAdd(remote.logical) \in Nat /\ 0 \in Nat
    BY <1>1, <1>3, <1>4, Zenon
  <2>2. PICK l \in Nat : Update(clock, now, remote) = [physical |-> pt, logical |-> l]
    BY <2>1, Zenon DEF Update, pt, ll
  <2> QED
    BY <1>2, <2>2, SMTT(30) DEF ClockType
<1> QED
  BY <1>2, <1>5, <1>6, Zenon

\* The packed clock is a number, and a positive one where the code takes the maximum with 1.
LEMMA ToU64Type ==
    ASSUME LogicalMax \in Nat, NEW clock \in ClockType
    PROVE  Max({ToU64(clock), 1}) \in Nat
<1>1. clock.physical \in Nat /\ clock.logical \in Nat
  BY Zenon DEF ClockType
<1>2. clock.physical * (LogicalMax + 1) \in Nat
  BY <1>1, SMTT(30)
<1>3. ToU64(clock) \in Nat
  BY <1>1, <1>2, SMTT(30) DEF ToU64
<1> HIDE DEF ToU64
<1> QED
  BY <1>3, MaxPair, SMTT(30)

\* ensure_min_sequence never lowers the next sequence number.
LEMMA EnsureMinSequenceRaises ==
    ASSUME NEW ts \in Nat, nextSequence \in Nat
    PROVE  EnsureMinSequence(ts) \in Nat /\ EnsureMinSequence(ts) >= nextSequence
BY SMTT(30) DEF EnsureMinSequence

\* A sample is merged: the next sequence number rises, and the bound holds because the
\* sample was within it.
LEMMA SyncKeepsInv ==
    ASSUME NatWellOrdered, LogicalMax \in Nat, MaxOffset \in Nat, ClockInv,
           NEW remote \in ClockType, SyncClock(remote)
    PROVE  ClockInv'
<1>1. hlc \in ClockType /\ wall \in Nat /\ nextSequence \in Nat /\ hlc' = Update(hlc, wall, remote)
  BY Zenon DEF ClockInv, SyncClock
<1>2. hlc' \in ClockType /\ hlc'.physical \in {wall, hlc.physical, remote.physical}
  BY <1>1, UpdateType, Zenon
<1>3. nextSequence' \in Nat /\ nextSequence' >= nextSequence
  BY <1>1, <1>2, ToU64Type, EnsureMinSequenceRaises, Zenon DEF SyncClock
<1>4. UNCHANGED <<wall, setBack, commits>> /\ remote.physical <= wall + MaxOffset
  BY Zenon DEF SyncClock, WithinBound
<1>5. LeadIsBounded'
  BY <1>1, <1>2, <1>4, SMTT(30) DEF ClockInv, LeadIsBounded
<1>6. TimestampsIncrease'
  BY <1>4, Zenon DEF ClockInv, TimestampsIncrease
<1>7. \A i \in 1..Len(commits') : commits'[i] < nextSequence'
  BY <1>1, <1>3, <1>4, SMTT(30) DEF ClockInv
<1> QED
  BY <1>1, <1>2, <1>3, <1>4, <1>5, <1>6, <1>7, Zenon DEF ClockInv

\* A write takes a number that is at least the next one, and moves the next one behind it.
LEMMA CommitKeepsInv ==
    ASSUME NatWellOrdered, LogicalMax \in Nat, MaxOffset \in Nat, ClockInv, Commit
    PROVE  ClockInv'
<1> DEFINE seq == EnsureMinSequence(Max({ToU64(hlc'), 1}))
<1>1. /\ hlc \in ClockType /\ wall \in Nat /\ nextSequence \in Nat /\ commits \in Seq(Nat)
      /\ hlc' = Update(hlc, wall, Zero) /\ wall' = wall + Wait(hlc')
      /\ commits' = Append(commits, seq) /\ nextSequence' = seq + 1 /\ setBack' = setBack
  BY Zenon DEF ClockInv, Commit, Tick
<1>2. Zero \in ClockType /\ Zero.physical = 0
  BY Zenon DEF Zero, ClockType
<1>3. hlc' \in ClockType /\ hlc'.physical \in {wall, hlc.physical, 0}
  BY <1>1, <1>2, UpdateType, Zenon
<1>4. seq \in Nat /\ seq >= nextSequence
  BY <1>1, <1>3, ToU64Type, EnsureMinSequenceRaises, Zenon
<1>5. Wait(hlc') \in Nat
  <2>1. LeadOverWall(hlc', wall) \in Nat
    BY <1>1, <1>3, SMTT(30) DEF LeadOverWall, ClockType
  <2> HIDE DEF LeadOverWall
  <2> QED
    BY <2>1, MinPair, SMTT(30) DEF Wait
<1> HIDE DEF seq
<1>6. /\ commits' \in Seq(Nat) /\ Len(commits') = Len(commits) + 1 /\ Len(commits) \in Nat
      /\ \A i \in 1..Len(commits) : commits'[i] = commits[i] /\ commits[i] \in Nat
      /\ commits'[Len(commits) + 1] = seq
  BY <1>1, <1>4, SMTT(30)
<1>7. \A i \in 1..Len(commits) : commits[i] < seq
  BY <1>1, <1>4, <1>6, SMTT(30) DEF ClockInv
<1>8. \A i \in 1..Len(commits') : commits'[i] < nextSequence'
  <2> SUFFICES ASSUME NEW i \in 1..Len(commits') PROVE commits'[i] < nextSequence'
    BY Zenon
  <2>1. CASE i = Len(commits) + 1
    BY <1>1, <1>4, <1>6, <2>1, SMTT(30)
  <2>2. CASE i \in 1..Len(commits)
    BY <1>1, <1>4, <1>6, <1>7, <2>2, SMTT(30)
  <2> QED
    BY <1>6, <2>1, <2>2, SMTT(30)
<1>9. TimestampsIncrease'
  <2> SUFFICES ASSUME NEW i \in 1..Len(commits'), NEW j \in 1..Len(commits'), i < j
               PROVE  commits'[i] < commits'[j]
    BY Zenon DEF TimestampsIncrease
  <2>1. i \in 1..Len(commits)
    BY <1>6, SMTT(30)
  <2>2. CASE j = Len(commits) + 1
    BY <1>6, <1>7, <2>1, <2>2, Zenon
  <2>3. CASE j \in 1..Len(commits)
    BY <1>6, <2>1, <2>3, Zenon DEF ClockInv, TimestampsIncrease
  <2> QED
    BY <1>6, <2>2, <2>3, SMTT(30)
<1>10. LeadIsBounded'
  <2>1. hlc'.physical \in Nat /\ hlc.physical \in Nat
    BY <1>1, <1>3, Zenon DEF ClockType
  <2> QED
    BY <1>1, <1>3, <1>5, <2>1, SMTT(30) DEF ClockInv, LeadIsBounded
<1>11. wall' \in Nat /\ nextSequence' \in Nat /\ setBack' \in BOOLEAN
  BY <1>1, <1>4, <1>5, SMTT(30) DEF ClockInv
<1> QED
  BY <1>3, <1>6, <1>8, <1>9, <1>10, <1>11, Zenon DEF ClockInv

\* Reopening forgets the clock, not the sequence number of the last write.
LEMMA ReopenKeepsInv ==
    ASSUME LogicalMax \in Nat, MaxOffset \in Nat, ClockInv, Reopen
    PROVE  ClockInv'
<1>1. hlc' \in ClockType /\ hlc'.physical = 0 /\ UNCHANGED <<wall, setBack, commits>>
  BY Zenon DEF Reopen, Zero, ClockType
<1>2. commits \in Seq(Nat) /\ Len(commits) \in Nat /\ wall \in Nat
  BY SMTT(30) DEF ClockInv
<1>3. nextSequence' \in Nat /\ \A i \in 1..Len(commits) : commits[i] < nextSequence'
  <2>1. CASE commits = << >>
    BY <2>1, SMTT(30) DEF Reopen
  <2>2. CASE commits # << >>
    <3>1. Len(commits) \in 1..Len(commits)
      BY <1>2, <2>2, SMTT(30)
    <3>2. commits[Len(commits)] \in Nat /\ nextSequence' = commits[Len(commits)] + 1
      BY <1>2, <2>2, <3>1, SMTT(30) DEF Reopen
    <3>3. \A i \in 1..Len(commits) : commits[i] \in Nat
                                     /\ (i < Len(commits) => commits[i] < commits[Len(commits)])
      BY <1>2, <3>1, SMTT(30) DEF ClockInv, TimestampsIncrease
    <3> QED
      BY <1>2, <3>2, <3>3, SMTT(30)
  <2> QED
    BY <2>1, <2>2, Zenon
<1> QED
  BY <1>1, <1>2, <1>3, SMTT(30) DEF ClockInv, TimestampsIncrease, LeadIsBounded

-----------------------------------------------------------------------------
(***************************************************************************)
(* The results.  The lemmas above take the order of the naturals as a      *)
(* hypothesis; it is discharged here.                                      *)
(***************************************************************************)
LOCAL INSTANCE WellFoundedInduction

\* Every set of naturals that is not empty has a least member.
LEMMA WellOrder == NatWellOrdered
<1> SUFFICES ASSUME NEW S, S \subseteq Nat, S # {} PROVE \E x \in S : \A y \in S : x <= y
  BY Zenon DEF NatWellOrdered
<1>1. PICK x \in S : \A y \in S : ~(<<y, x>> \in OpToRel(<, Nat))
  BY NatLessThanWellFounded, WFMin, Zenon
<1>2. \A y \in S : ~(y < x)
  BY <1>1, Zenon DEF OpToRel
<1> QED
  BY <1>2, SMTT(30)

\* TXN-2PC-1, TXN-2PC-6, TXN-2PC-7: whatever crashes, wherever in a handler of txn2pc.rs, and
\* whatever the coordinator gives up on, the nodes that know a decision know the first one of
\* the meta group's log, and a key of the transaction shows on a node only once that decision
\* is to commit and every participant's prepare is in its log.
THEOREM DecisionComesFirst ==
    Spec => [](TwoPhaseTypeOK /\ DecisionIsFinal /\ CommitNeedsDecision)
<1>1. Init => TwoPhaseInv
  BY TwoPhaseInvInit, Zenon
<1>2. TwoPhaseInv /\ [Next]_vars => TwoPhaseInv'
  BY WellOrder, TwoPhaseInvNext, Zenon
<1>3. TwoPhaseInv => TwoPhaseTypeOK /\ DecisionIsFinal /\ CommitNeedsDecision
  BY WellOrder, TwoPhaseInvImplies, Zenon
<1> QED
  BY <1>1, <1>2, <1>3, PTL DEF Spec

\* What commit_cross_group returns is what happened, if it never gives up on a decision that is
\* still under way: after a success the decision is to commit and every log carries the commit,
\* after a failure no node will ever show a key of the transaction.
THEOREM AnswersAreTrue ==
    ASSUME \A c \in Configs : ~c.lateDecision
    PROVE  Spec => []AnswerIsTrue
<1>1. Init => TwoPhaseInv /\ GivenUpInv
  <2> SUFFICES ASSUME Init PROVE TwoPhaseInv /\ GivenUpInv
    BY Zenon
  <2>1. ~Sent(DECISION_GROUP, "DecideCommit")
    <3>1. Range(<<>>) = {}
      BY SMTT(30) DEF Range
    <3> QED
      BY <3>1, GroupFacts, Zenon DEF Init, Sent, InLog
  <2> QED
    BY <2>1, TwoPhaseInvInit, Zenon DEF Init, GivenUpInv
<1>2. TwoPhaseInv /\ GivenUpInv /\ [Next]_vars => TwoPhaseInv' /\ GivenUpInv'
  BY WellOrder, TwoPhaseInvNext, GivenUpInvNext, Zenon
<1>3. TwoPhaseInv /\ GivenUpInv => AnswerIsTrue
  <2> SUFFICES ASSUME TwoPhaseInv, GivenUpInv PROVE AnswerIsTrue
    BY Zenon
  <2>1. phase = "ok" => /\ Decided = "DecideCommit"
                        /\ \A g \in Participants : "TxnCommit2pc" \in Range(log[g])
    BY Zenon DEF TwoPhaseInv, CommitInv, HeardInv, InLog
  <2>2. log[DECISION_GROUP] \in Seq(Commands)
    BY GroupFacts, Zenon DEF TwoPhaseInv, TwoPhaseTypeOK
  <2>3. Decided = "DecideCommit" => Sent(DECISION_GROUP, "DecideCommit")
    BY WellOrder, <2>2, FirstDecisionIsInLog, Zenon DEF Decided, Sent, InLog
  <2>4. phase = "failed" => Decided # "DecideCommit"
    BY <2>3, Zenon DEF GivenUpInv
  <2>5. \A n \in Nodes : eng[n].user # {} => Decided = "DecideCommit"
    BY Zenon DEF TwoPhaseInv, CommitInv, Exposes
  <2> QED
    BY <2>1, <2>4, <2>5, Zenon DEF AnswerIsTrue
<1> QED
  BY <1>1, <1>2, <1>3, PTL DEF Spec

\* All or nothing, on every replica, wherever the nodes crash in the handlers of txn2pc.rs: a node
\* that has applied every committed entry has every key of the transaction once the logs carry
\* the commits, and none of them when the decision was to abort.  The one crash left out is the
\* one inside the prepare of a group whose node already holds the prepare of another: the record
\* is shared, and recovery then drops an intent that no entry brings back.
THEOREM ReplicasAgree ==
    ASSUME \A c \in Configs : ~c.tornPrepare
    PROVE  Spec => []CaughtUpReplicasAgree
<1>1. Init => AllOrNothingInv
  BY AllOrNothingInit, Zenon
<1>2. AllOrNothingInv /\ [Next]_vars => AllOrNothingInv'
  BY WellOrder, AllOrNothingNext, Zenon
<1>3. AllOrNothingInv => CaughtUpReplicasAgree
  BY WellOrder, AllOrNothingImplies, Zenon
<1> QED
  BY <1>1, <1>2, <1>3, PTL DEF Spec

\* State machine safety of one replica: with relaxed writes and processes that are killed,
\* or with strict writes and power losses, the engine always holds what a prefix of the
\* committed entries makes of every key (drain_and_apply, RaftApplyIndex).
THEOREM EngineIsPrefix ==
    ASSUME Durabilities \subseteq {Strict, Relaxed}
    PROVE  ReplicaSpec => []ReplicaIsLogPrefix
<1>1. ReplicaInit => ReplicaInv
  BY InvInitially, Zenon
<1>2. ReplicaInv /\ [ReplicaNext]_replicaVars => ReplicaInv'
  BY WellOrder, InvKept, Zenon
<1>3. ReplicaInv => ReplicaIsLogPrefix
  <2> SUFFICES ASSUME ReplicaInv PROVE ReplicaIsLogPrefix
    BY Zenon
  <2>1. LastWrite \in last_applied..Len(committed)
    BY WellOrder, LastWriteType, SMTT(30) DEF ReplicaInv
  <2>2. \A k \in ReplicaKeys : Value(k) = PrefixValue(k, LastWrite)
    BY WellOrder, LastWritesAgree, Zenon
  <2> QED
    BY <2>1, <2>2, Zenon DEF ReplicaIsLogPrefix
<1> QED
  BY <1>1, <1>2, <1>3, PTL DEF ReplicaSpec

\* Later writes get larger sequence numbers, whatever samples arrive, when the wall clock
\* is set back, when the logical part is saturated and across restarts, and the clock of a
\* node whose wall clock is not set back stays within the uncertainty bound
\* (sync_clock, prepare_hlc_write_sequence, ensure_min_sequence).
THEOREM CommitTimestampsIncrease ==
    ASSUME LogicalMax \in Nat, MaxOffset \in Nat, MaxWall \in Nat, RemoteLogicals \subseteq Nat
    PROVE  ClockSpec => [](TimestampsIncrease /\ LeadIsBounded)
<1>1. ClockInit => ClockInv
  <2> SUFFICES ASSUME ClockInit PROVE ClockInv
    BY Zenon
  <2>1. Zero \in ClockType /\ Zero.physical = 0
    BY Zenon DEF Zero, ClockType
  <2>2. commits = << >> /\ Len(commits) = 0 /\ commits \in Seq(Nat)
    BY SMTT(30) DEF ClockInit
  <2>3. TimestampsIncrease /\ \A i \in 1..Len(commits) : commits[i] < nextSequence
    BY <2>2, SMTT(30) DEF TimestampsIncrease
  <2>4. LeadIsBounded
    BY <2>1, SMTT(30) DEF ClockInit, LeadIsBounded
  <2> QED
    BY <2>1, <2>2, <2>3, <2>4, Zenon DEF ClockInit, ClockInv
<1>2. ClockInv /\ [ClockNext]_clockVars => ClockInv'
  <2> SUFFICES ASSUME ClockInv, [ClockNext]_clockVars PROVE ClockInv'
    BY Zenon
  <2>1. ASSUME NEW remote \in Samples, SyncClock(remote) PROVE ClockInv'
    <3>1. remote.physical \in 0..(MaxWall + MaxOffset) /\ remote.logical \in Nat
      BY Zenon DEF Samples
    <3>2. remote = [physical |-> remote.physical, logical |-> remote.logical]
      BY Zenon DEF Samples
    <3>3. remote \in ClockType
      BY <3>1, <3>2, SMTT(30) DEF ClockType
    <3> QED
      BY WellOrder, <2>1, <3>3, SyncKeepsInv, Zenon
  <2>2. CASE Commit
    BY WellOrder, <2>2, CommitKeepsInv, Zenon
  <2>3. CASE Reopen
    BY <2>3, ReopenKeepsInv, Zenon
  <2>4. CASE WallAdvances
    <3>1. wall' = wall + 1 /\ UNCHANGED <<setBack, hlc, nextSequence, commits>>
      BY <2>4, Zenon DEF WallAdvances
    <3>2. hlc.physical \in Nat
      BY Zenon DEF ClockInv, ClockType
    <3> QED
      BY <3>1, <3>2, SMTT(30) DEF ClockInv, TimestampsIncrease, LeadIsBounded
  <2>5. CASE WallSetBack
    <3>1. wall' \in Nat /\ setBack' = TRUE /\ UNCHANGED <<hlc, nextSequence, commits>>
      BY <2>5, SMTT(30) DEF WallSetBack
    <3> QED
      BY <3>1, Zenon DEF ClockInv, TimestampsIncrease, LeadIsBounded
  <2>6. CASE UNCHANGED clockVars
    BY <2>6, Zenon DEF clockVars, ClockInv, TimestampsIncrease, LeadIsBounded
  <2> QED
    BY <2>1, <2>2, <2>3, <2>4, <2>5, <2>6, Zenon DEF ClockNext
<1>3. ClockInv => TimestampsIncrease /\ LeadIsBounded
  BY Zenon DEF ClockInv
<1> QED
  BY <1>1, <1>2, <1>3, PTL DEF ClockSpec

=============================================================================
