----------------------------- MODULE OutcomeProofs -----------------------------
(***************************************************************************)
(* What becomes of requests: every operation is attended to; and of        *)
(* managed processes: there is one, and the records know of it.            *)
(***************************************************************************)
EXTENDS TransactionProofs

(***************************************************************************)
(* The blocks of tasks and of recovery, as the sets of their writes.       *)
(***************************************************************************)
Settling(o, s) == IF operations[o].status = "active" THEN {Ended(o, s)} ELSE {}
Repairing(o) ==
  IF ledger[o].state = "in-progress" THEN {PutLedger(o, ledger[o].method, "ok")} ELSE {}
Erring(o) ==
  IF journals[o].kind = "create"
    THEN {PutEnvironment(journals[o].env, Errored(journals[o].env))} ELSE {}
Removed(o) == PutJournal(o, NoJournal)
MarkedCommitted(o) == PutJournal(o, [journals[o] EXCEPT !.phase = "committed"])

UndoSet(o) ==
  Settling(o, "failed") \cup Erring(o) \cup {PutGeneration(o, "absent"), Removed(o)}
CommitSet(o) ==
  Settling(o, "succeeded")
  \cup {PutGeneration(o, "recorded"),
        PutEnvironment(journals[o].env, Committing(journals[o].env, o)),
        MarkedCommitted(o), Removed(o)}
RollbackSet(o) ==
  Settling(o, "failed") \cup Repairing(o) \cup {PutGeneration(o, "absent"), Removed(o)}
CancelSet(o) == {PutGeneration(o, "absent"), Removed(o)}
PublishSet(o) ==
  CommitSet(o) \cup Repairing(o) \cup {PutPlan(journals[o].plan, o)}
FinalizeSet(o) ==
  (IF operations[o].status \in {"active", "cancelled"}
     THEN {Ended(o, "succeeded")} ELSE {})
  \cup Repairing(o) \cup {Removed(o)}
Consuming(o) ==
  IF journals[o].kind = "apply" /\ plans[journals[o].plan] = None
    THEN {PutPlan(journals[o].plan, o)} ELSE {}
MarkSet(o) ==
  IF operations[o].status \in {"absent", "failed"} THEN {} ELSE
    (IF operations[o].status = "succeeded" THEN {} ELSE {Ended(o, "succeeded")})
    \cup Repairing(o)

LEMMA Chain3 ==
  ASSUME NEW a \in Script, NEW b \in Script, NEW c \in Script
  PROVE  /\ a \o b \o c \in Script
         /\ ToSet(a \o b \o c) = ToSet(a) \cup ToSet(b) \cup ToSet(c)
<1>1. a \o b \in Script /\ ToSet(a \o b) = ToSet(a) \cup ToSet(b)
  BY Joined, JoinedWrites
<1>2. a \o b \o c \in Script /\ ToSet(a \o b \o c) = ToSet(a \o b) \cup ToSet(c)
  BY <1>1, Joined, JoinedWrites
<1> QED BY <1>1, <1>2

LEMMA Chain4 ==
  ASSUME NEW a \in Script, NEW b \in Script, NEW c \in Script, NEW d \in Script
  PROVE  /\ a \o b \o c \o d \in Script
         /\ ToSet(a \o b \o c \o d) = ToSet(a) \cup ToSet(b) \cup ToSet(c) \cup ToSet(d)
<1>1. a \o b \o c \in Script
      /\ ToSet(a \o b \o c) = ToSet(a) \cup ToSet(b) \cup ToSet(c)
  BY Chain3
<1>2. a \o b \o c \o d \in Script
      /\ ToSet(a \o b \o c \o d) = ToSet(a \o b \o c) \cup ToSet(d)
  BY <1>1, Joined, JoinedWrites
<1> QED BY <1>1, <1>2

LEMMA Chain5 ==
  ASSUME NEW a \in Script, NEW b \in Script, NEW c \in Script, NEW d \in Script,
         NEW e \in Script
  PROVE  ToSet(a \o b \o c \o d \o e) =
           ToSet(a) \cup ToSet(b) \cup ToSet(c) \cup ToSet(d) \cup ToSet(e)
<1>1. a \o b \o c \o d \in Script
      /\ ToSet(a \o b \o c \o d) = ToSet(a) \cup ToSet(b) \cup ToSet(c) \cup ToSet(d)
  BY Chain4
<1>2. ToSet(a \o b \o c \o d \o e) = ToSet(a \o b \o c \o d) \cup ToSet(e)
  BY <1>1, JoinedWrites
<1> QED BY <1>1, <1>2

\* The parts of these blocks.
LEMMA Parts ==
  ASSUME TypeOK, NEW o \in Op
  PROVE  /\ \A s \in Terminal : /\ Settle(o, s) \in Script
                               /\ ToSet(Settle(o, s)) = Settling(o, s)
         /\ RepairLedger(o) \in Script /\ ToSet(RepairLedger(o)) = Repairing(o)
         /\ << Removed(o) >> \in Script /\ ToSet(<< Removed(o) >>) = {Removed(o)}
         /\ \A s \in GenerationStates : << PutGeneration(o, s) >> \in Script
<1>1. \A s \in Terminal : Settle(o, s) \in Script /\ ToSet(Settle(o, s)) = Settling(o, s)
  BY Settled, SettleWrites DEF Settling
<1>2. RepairLedger(o) \in Script /\ ToSet(RepairLedger(o)) = Repairing(o)
  BY LedgerRepaired, RepairWrites DEF Repairing
<1>3. << Removed(o) >> \in Script /\ ToSet(<< Removed(o) >>) = {Removed(o)}
  BY JournalClosed, FewWrites DEF Removed
<1>4. \A s \in GenerationStates : << PutGeneration(o, s) >> \in Script
  BY OtherWrites, Singletons
<1> QED BY <1>1, <1>2, <1>3, <1>4

LEMMA EnvironmentPuts ==
  ASSUME TypeOK, NEW e \in Env
  PROVE  /\ PutEnvironment(e, Errored(e)) \in WriteRecord
         /\ \A g \in Op : PutEnvironment(e, Committing(e, g)) \in WriteRecord
<1>1. Errored(e) \in EnvironmentRecord /\ \A g \in Op : Committing(e, g) \in EnvironmentRecord
  BY EnvironmentRecords, Zenon
<1> QED BY <1>1, EnvironmentWrites

LEMMA UndoWaits ==
  ASSUME TypeOK, NEW o \in Op, journals[o].kind \in CoreTransactions
  PROVE  /\ ToSet(UndoScript(o, <<>>)) = UndoSet(o)
         /\ ToSet(UndoScript(o, RepairLedger(o))) = UndoSet(o) \cup Repairing(o)
<1>1. PICK E \in Env : E = journals[o].env
  BY JournalFields DEF Built
<1> DEFINE mark == IF journals[o].kind = "create"
                     THEN << PutEnvironment(E, Errored(E)) >> ELSE <<>>
           absent == << PutGeneration(o, "absent") >>
           closing == << Removed(o) >>
           settle == Settle(o, "failed")
<1>2. mark \in Script /\ ToSet(mark) = Erring(o)
  <2>1. PutEnvironment(E, Errored(E)) \in WriteRecord
    BY EnvironmentPuts
  <2> QED BY <1>1, <2>1, Singletons, FewWrites DEF Erring
<1>3. /\ settle \in Script /\ ToSet(settle) = Settling(o, "failed")
      /\ absent \in Script /\ ToSet(absent) = {PutGeneration(o, "absent")}
      /\ RepairLedger(o) \in Script /\ ToSet(RepairLedger(o)) = Repairing(o)
      /\ <<>> \in Script /\ ToSet(<<>>) = {}
      /\ closing \in Script /\ ToSet(closing) = {Removed(o)}
  BY Parts, FewWrites, Singletons DEF Terminal, GenerationStates
<1>4. \A repair : UndoScript(o, repair) =
        settle \o mark \o absent \o repair \o closing
  BY <1>1 DEF UndoScript, Removed
<1> HIDE DEF mark, absent, closing, settle
<1>5. ASSUME NEW repair \in Script
      PROVE  ToSet(UndoScript(o, repair)) = UndoSet(o) \cup ToSet(repair)
  <2>1. ToSet(settle \o mark \o absent \o repair \o closing) =
          Settling(o, "failed") \cup Erring(o) \cup {PutGeneration(o, "absent")}
          \cup ToSet(repair) \cup {Removed(o)}
    <3>1. settle \in Script /\ mark \in Script /\ absent \in Script /\ closing \in Script
      BY <1>2, <1>3
    <3>2. ToSet(settle \o mark \o absent \o repair \o closing) =
            ToSet(settle) \cup ToSet(mark) \cup ToSet(absent)
            \cup ToSet(repair) \cup ToSet(closing)
      BY <3>1, Chain5
    <3> QED BY <1>2, <1>3, <3>2
  <2>2. UndoScript(o, repair) =
          settle \o mark \o absent \o repair \o closing
    BY <1>4
  <2> QED BY <2>1, <2>2 DEF UndoSet
<1> QED BY <1>3, <1>5, Zenon

LEMMA CommitWaits ==
  ASSUME TypeOK, NEW o \in Op, journals[o].kind \in CoreTransactions
  PROVE  ToSet(CommitScript(o)) = CommitSet(o)
<1>1. OpenJournal(o) /\ journals[o].env \in Env
  BY JournalFields DEF Built, OpenJournal, CoreTransactions
<1>0. PICK E \in Env : E = journals[o].env
  BY <1>1
<1> DEFINE move == << PutGeneration(o, "recorded"), PutEnvironment(E, Committing(E, o)) >>
           closing == << MarkedCommitted(o), Removed(o) >>
<1>2. move \in Script /\ closing \in Script
  <2>1. move \in Script
    BY OtherWrites, EnvironmentPuts, Pairs DEF GenerationStates
  <2>2. MarkedCommitted(o) \in WriteRecord /\ Removed(o) \in WriteRecord
    BY <1>1, JournalRecords, JournalWrites DEF OpenJournal, MarkedCommitted, Removed
  <2> QED BY <2>1, <2>2, Pairs
<1>3. /\ ToSet(move) = {PutGeneration(o, "recorded"), PutEnvironment(E, Committing(E, o))}
      /\ ToSet(closing) = {MarkedCommitted(o), Removed(o)}
  BY FewWrites
<1>4. Settle(o, "succeeded") \in Script
      /\ ToSet(Settle(o, "succeeded")) = Settling(o, "succeeded")
  BY Parts DEF Terminal
<1>5. CommitScript(o) = move \o Settle(o, "succeeded") \o closing
  BY <1>0 DEF CommitScript, MarkedCommitted, Removed
<1> HIDE DEF move, closing
<1>6. ToSet(move \o Settle(o, "succeeded") \o closing) =
        ToSet(move) \cup Settling(o, "succeeded") \cup ToSet(closing)
  BY <1>2, <1>4, Chain3
<1> QED BY <1>0, <1>3, <1>5, <1>6 DEF CommitSet

LEMMA RollbackWaits ==
  ASSUME TypeOK, NEW o \in Op PROVE ToSet(RollbackScript(o)) = RollbackSet(o)
<1> DEFINE absent == << PutGeneration(o, "absent") >>
<1>1. /\ Settle(o, "failed") \in Script /\ ToSet(Settle(o, "failed")) = Settling(o, "failed")
      /\ absent \in Script /\ ToSet(absent) = {PutGeneration(o, "absent")}
      /\ RepairLedger(o) \in Script /\ ToSet(RepairLedger(o)) = Repairing(o)
      /\ << Removed(o) >> \in Script /\ ToSet(<< Removed(o) >>) = {Removed(o)}
  BY Parts, FewWrites DEF Terminal, GenerationStates
<1>2. RollbackScript(o) =
        Settle(o, "failed") \o absent \o RepairLedger(o) \o << Removed(o) >>
  BY DEF RollbackScript, Removed
<1> HIDE DEF absent
<1>3. ToSet(RollbackScript(o)) =
        Settling(o, "failed") \cup {PutGeneration(o, "absent")} \cup Repairing(o)
        \cup {Removed(o)}
  BY <1>1, <1>2, Chain4
<1> QED BY <1>3 DEF RollbackSet

LEMMA CancelWaits == \A o : ToSet(CancelScript(o)) = CancelSet(o)
  BY FewWrites DEF CancelScript, CancelSet, Removed

LEMMA PublishWaits ==
  ASSUME TypeOK, NEW o \in Op, journals[o].kind = "apply"
  PROVE  ToSet(PublishScript(o)) =
           IF environments[journals[o].env].revision # expected[o]
             THEN {PutGeneration(o, "recorded")} \cup RollbackSet(o) ELSE PublishSet(o)
<1>0. OpenJournal(o) /\ journals[o].env \in Env /\ journals[o].plan \in Plan
  BY JournalRecords DEF OpenJournal
<1>6. PICK E \in Env, p \in Plan : E = journals[o].env /\ p = journals[o].plan
  BY <1>0
<1> DEFINE record == << PutGeneration(o, "recorded") >>
           move == PutEnvironment(E, Committing(E, o))
           moves == << move, MarkedCommitted(o), PutPlan(p, o) >>
           settle == Settle(o, "succeeded")
           repair == RepairLedger(o)
           closing == << Removed(o) >>
<1>1. record \in Script /\ ToSet(record) = {PutGeneration(o, "recorded")}
  BY Parts, FewWrites DEF GenerationStates
<1>2. moves \in Script /\ ToSet(moves) = {move, MarkedCommitted(o), PutPlan(p, o)}
  <2>1. move \in WriteRecord /\ MarkedCommitted(o) \in WriteRecord
        /\ PutPlan(p, o) \in WriteRecord
    BY <1>0, EnvironmentPuts, JournalRecords, JournalWrites, OtherWrites
       DEF OpenJournal, MarkedCommitted
  <2> QED BY <2>1, Triples, FewWrites
<1>3. /\ settle \in Script /\ ToSet(settle) = Settling(o, "succeeded")
      /\ repair \in Script /\ ToSet(repair) = Repairing(o)
      /\ closing \in Script /\ ToSet(closing) = {Removed(o)}
  BY Parts DEF Terminal
<1>4. CASE environments[E].revision # expected[o]
  <2>1. PublishScript(o) = record \o RollbackScript(o)
    BY <1>4, <1>6 DEF PublishScript
  <2>2. RollbackScript(o) \in Script
    BY RolledBack
  <2> HIDE DEF record
  <2> QED BY <1>1, <1>4, <1>6, <2>1, <2>2, JoinedWrites, RollbackWaits
<1>5. CASE environments[E].revision = expected[o]
  <2>1. PublishScript(o) = record \o (moves \o settle \o repair \o closing)
    BY <1>5, <1>6 DEF PublishScript, Committing, MarkedCommitted, Removed
  <2> HIDE DEF record, moves, settle, repair, closing
  <2>2. moves \o settle \o repair \o closing \in Script
    BY <1>2, <1>3, Joined
  <2>3. ToSet(moves \o settle \o repair \o closing) =
          ToSet(moves) \cup Settling(o, "succeeded") \cup Repairing(o) \cup {Removed(o)}
    BY <1>2, <1>3, Chain4
  <2>4. ToSet(PublishScript(o)) =
          {PutGeneration(o, "recorded")} \cup ToSet(moves) \cup Settling(o, "succeeded")
          \cup Repairing(o) \cup {Removed(o)}
    BY <1>1, <2>1, <2>2, <2>3, JoinedWrites
  <2> QED BY <1>2, <1>5, <1>6, <2>4 DEF PublishSet, CommitSet
<1> QED BY <1>4, <1>5

LEMMA FinalizeWaits ==
  ASSUME TypeOK, NEW o \in Op PROVE ToSet(FinalizeScript(o)) = FinalizeSet(o)
<1> DEFINE end == IF operations[o].status \in {"active", "cancelled"}
                    THEN << Ended(o, "succeeded") >> ELSE <<>>
<1>1. end \in Script
  BY OperationRecords, OperationWrites, Singletons DEF Ended, Terminal
<1>2. /\ RepairLedger(o) \in Script /\ ToSet(RepairLedger(o)) = Repairing(o)
      /\ << Removed(o) >> \in Script /\ ToSet(<< Removed(o) >>) = {Removed(o)}
  BY Parts
<1>3. FinalizeScript(o) = end \o RepairLedger(o) \o << Removed(o) >>
  BY DEF FinalizeScript, Removed
<1>4. ToSet(end) = IF operations[o].status \in {"active", "cancelled"}
                     THEN {Ended(o, "succeeded")} ELSE {}
  BY FewWrites
<1> HIDE DEF end
<1>5. ToSet(FinalizeScript(o)) = ToSet(end) \cup Repairing(o) \cup {Removed(o)}
  BY <1>1, <1>2, <1>3, Chain3
<1> QED BY <1>4, <1>5 DEF FinalizeSet

LEMMA RecoverChangeWaits ==
  ASSUME TypeOK, NEW o \in Op, RecoverChange(o)
  PROVE  Waiting' =
           IF environments[journals[o].env].gen = journals[o].gen
             THEN MarkSet(o) \cup Consuming(o) \cup {Removed(o)}
             ELSE IF journals[o].kind = "restore"
               THEN Settling(o, "failed") \cup Repairing(o) \cup {Removed(o)}
               ELSE RollbackSet(o)
<1> DEFINE j == journals[o]
           plan == IF j.kind = "apply" /\ plans[j.plan] = None
                     THEN << PutPlan(j.plan, o) >> ELSE <<>>
<1>0. /\ RepairLedger(o) \in Script /\ ToSet(RepairLedger(o)) = Repairing(o)
      /\ << Removed(o) >> \in Script /\ ToSet(<< Removed(o) >>) = {Removed(o)}
      /\ Settle(o, "failed") \in Script /\ ToSet(Settle(o, "failed")) = Settling(o, "failed")
  BY Parts DEF Terminal
<1>1. CASE environments[j.env].gen = j.gen
  <2>1. todo' = MarkSucceeded(o) \o plan \o << Removed(o) >>
    BY <1>1 DEF RecoverChange, Run, Removed
  <2>2. plan \in Script /\ ToSet(plan) = Consuming(o)
    BY JournalRecords, OtherWrites, Singletons, FewWrites DEF Consuming
  <2>3. MarkSucceeded(o) \in Script /\ ToSet(MarkSucceeded(o)) = MarkSet(o)
    <3>1. MarkSucceeded(o) \in Script
      BY MarkedSucceeded
    <3> DEFINE end == IF operations[o].status = "succeeded" THEN <<>>
                      ELSE << Ended(o, "succeeded") >>
    <3>2. CASE operations[o].status \in {"absent", "failed"}
      BY <3>1, <3>2, FewWrites DEF MarkSucceeded, MarkSet
    <3>3. CASE operations[o].status \notin {"absent", "failed"}
      <4>1. end \in Script
        BY <3>3, OperationRecords, OperationWrites, Singletons DEF Ended, Terminal
      <4>2. MarkSucceeded(o) = end \o RepairLedger(o)
        BY <3>3 DEF MarkSucceeded
      <4>3. ToSet(end) = IF operations[o].status = "succeeded" THEN {} ELSE {Ended(o, "succeeded")}
        BY FewWrites
      <4> HIDE DEF end
      <4>4. ToSet(MarkSucceeded(o)) = ToSet(end) \cup Repairing(o)
        BY <1>0, <4>1, <4>2, JoinedWrites
      <4> QED BY <3>1, <3>3, <4>3, <4>4 DEF MarkSet
    <3> QED BY <3>2, <3>3
  <2> HIDE DEF plan
  <2>4. Waiting' = MarkSet(o) \cup Consuming(o) \cup {Removed(o)}
    <3>1. ToSet(MarkSucceeded(o) \o plan \o << Removed(o) >>) =
            MarkSet(o) \cup Consuming(o) \cup {Removed(o)}
      BY <1>0, <2>2, <2>3, Chain3
    <3> QED BY <2>1, <3>1 DEF Waiting
  <2> QED BY <1>1, <2>4
<1>2. CASE environments[j.env].gen # j.gen /\ j.kind = "restore"
  <2>1. todo' = Settle(o, "failed") \o RepairLedger(o) \o << Removed(o) >>
    BY <1>2 DEF RecoverChange, Run, Removed
  <2>2. Waiting' = Settling(o, "failed") \cup Repairing(o) \cup {Removed(o)}
    BY <1>0, <2>1, Chain3 DEF Waiting
  <2> QED BY <1>2, <2>2
<1>3. CASE environments[j.env].gen # j.gen /\ j.kind # "restore"
  <2>1. todo' = RollbackScript(o)
    BY <1>3 DEF RecoverChange, Run
  <2> QED BY <1>3, <2>1, RollbackWaits DEF Waiting
<1> QED BY <1>1, <1>2, <1>3

(***************************************************************************)
(* The blocks of processes.                                                *)
(***************************************************************************)
Reverting(o) ==
  LET e == operations[o].env
      kind == operations[o].kind
  IN IF environments[e].state = During(kind) THEN {PutState(e, Reverted(kind))} ELSE {}
Failing(o) ==
  (IF o \in aborted THEN {} ELSE Settling(o, "failed")) \cup Reverting(o)
Stopping(o) ==
  IF o \in aborted THEN Failing(o)
  ELSE Settling(o, "succeeded") \cup {PutState(operations[o].env, "stopped")}

LEMMA FailWaits ==
  ASSUME TypeOK, NEW o \in Op, OfKind(o, {"start", "stop"})
  PROVE  ToSet(FailScript(o)) = Failing(o) /\ FailScript(o) \in Script
<1> DEFINE k == operations[o].kind
           e == operations[o].env
           first == IF o \in aborted THEN <<>> ELSE Settle(o, "failed")
           second == PutStateIf(e, During(k), Reverted(k))
<1>1. e \in Env
  BY OperationRecords DEF OfKind
<1>2. first \in Script
      /\ ToSet(first) = IF o \in aborted THEN {} ELSE Settling(o, "failed")
  BY Parts, FewWrites, Singletons DEF Terminal
<1>3. second \in Script /\ ToSet(second) = Reverting(o)
  <2>1. second \in Script
    BY <1>1, StateWrites DEF During, Reverted, EnvironmentStates
  <2> QED BY <2>1, FewWrites DEF PutStateIf, Reverting
<1>4. FailScript(o) = first \o second
  BY DEF FailScript
<1> HIDE DEF first, second
<1>5. ToSet(FailScript(o)) = ToSet(first) \cup ToSet(second)
  BY <1>2, <1>3, <1>4, JoinedWrites
<1> QED BY <1>2, <1>3, <1>5, FailedStartOrStop DEF Failing

LEMMA ReadyWaits ==
  ASSUME TypeOK, NEW o \in Op, Ready(o)
  PROVE  LET e == operations[o].env
         IN  Waiting' = {Marked(e, "running"), PutState(e, "running")}
                          \cup Settling(o, "succeeded")
<1>1. PICK e \in Env : e = operations[o].env
  BY OperationRecords DEF Ready, Spawned, TaskOf, OfKind
<1> DEFINE mark == << Marked(e, "running") >>
           settle == Settle(o, "succeeded")
           put == << PutState(e, "running") >>
<1>2. /\ mark \in Script /\ settle \in Script /\ put \in Script
      /\ ToSet(settle) = Settling(o, "succeeded")
      /\ ToSet(mark) = {Marked(e, "running")} /\ ToSet(put) = {PutState(e, "running")}
  BY LaunchMarks, StateWrites, Singletons, Parts, FewWrites DEF Terminal, EnvironmentStates
<1>3. todo' = mark \o settle \o put
  BY <1>1 DEF Ready, Run
<1> HIDE DEF mark, settle, put
<1>4. ToSet(mark \o settle \o put) = ToSet(mark) \cup ToSet(settle) \cup ToSet(put)
  BY <1>2, Chain3
<1> QED BY <1>1, <1>2, <1>3, <1>4 DEF Waiting

LEMMA StartFailsWaits ==
  ASSUME TypeOK, NEW o \in Op, StartFails(o)
  PROVE  LET e == operations[o].env
         IN  Waiting' = Failing(o) \cup IF Previous(o, e) THEN {} ELSE {Marked(e, "ended")}
<1>0. OfKind(o, {"start", "stop"})
  BY DEF StartFails, TaskOf, OfKind
<1>1. PICK e \in Env : e = operations[o].env
  BY OperationRecords DEF StartFails, TaskOf, OfKind
<1> DEFINE mark == IF Previous(o, e) THEN <<>> ELSE << Marked(e, "ended") >>
<1>2. mark \in Script /\ ToSet(mark) = IF Previous(o, e) THEN {} ELSE {Marked(e, "ended")}
  BY LaunchMarks, Singletons, FewWrites
<1>3. todo' = mark \o FailScript(o)
  BY <1>1 DEF StartFails, Run
<1>4. FailScript(o) \in Script /\ ToSet(FailScript(o)) = Failing(o)
  BY <1>0, FailWaits
<1> HIDE DEF mark
<1>5. Waiting' = ToSet(mark) \cup Failing(o)
  BY <1>2, <1>3, <1>4, JoinedWrites DEF Waiting
<1> QED BY <1>1, <1>2, <1>5

LEMMA StopTaskWaits ==
  ASSUME TypeOK, NEW o \in Op
  PROVE  /\ StopReturns(o) =>
              Waiting' = {Marked(operations[o].env, "ended")} \cup Stopping(o)
         /\ StopUnconfirmed(o) =>
              Waiting' = {Marked(operations[o].env, "unverifiable")} \cup Failing(o)
<1> SUFFICES ASSUME OfKind(o, {"stop"})
             PROVE  /\ StopReturns(o) =>
                         Waiting' = {Marked(operations[o].env, "ended")} \cup Stopping(o)
                    /\ StopUnconfirmed(o) =>
                         Waiting' = {Marked(operations[o].env, "unverifiable")} \cup Failing(o)
  BY DEF StopReturns, StopUnconfirmed, TaskOf
<1>0. OfKind(o, {"start", "stop"})
  BY DEF OfKind
<1>1. PICK e \in Env : e = operations[o].env
  BY OperationRecords DEF OfKind
<1> DEFINE done == Settle(o, "succeeded") \o << PutState(e, "stopped") >>
<1>2. FailScript(o) \in Script /\ ToSet(FailScript(o)) = Failing(o)
  BY <1>0, FailWaits
<1>3. done \in Script
      /\ ToSet(done) = Settling(o, "succeeded") \cup {PutState(e, "stopped")}
  <2> DEFINE put == << PutState(e, "stopped") >>
  <2>1. /\ put \in Script /\ ToSet(put) = {PutState(e, "stopped")}
        /\ Settle(o, "succeeded") \in Script
        /\ ToSet(Settle(o, "succeeded")) = Settling(o, "succeeded")
    BY StateWrites, Singletons, FewWrites, Parts DEF EnvironmentStates, Terminal
  <2> HIDE DEF put
  <2>2. Settle(o, "succeeded") \o put \in Script
        /\ ToSet(Settle(o, "succeeded") \o put) =
             Settling(o, "succeeded") \cup {PutState(e, "stopped")}
    BY <2>1, Joined, JoinedWrites
  <2> QED BY <2>2 DEF put
<1> DEFINE ending == << Marked(e, "ended") >>
           lost == << Marked(e, "unverifiable") >>
           rest == IF o \in aborted THEN FailScript(o) ELSE done
<1>4. /\ ending \in Script /\ ToSet(ending) = {Marked(e, "ended")}
      /\ lost \in Script /\ ToSet(lost) = {Marked(e, "unverifiable")}
  BY LaunchMarks, Singletons, FewWrites
<1>5. rest \in Script /\ ToSet(rest) = Stopping(o)
  BY <1>1, <1>2, <1>3 DEF Stopping
<1>6. StopReturns(o) => todo' = ending \o rest
  BY <1>1 DEF StopReturns, Run
<1>7. StopUnconfirmed(o) => todo' = lost \o FailScript(o)
  BY <1>1 DEF StopUnconfirmed, Run
<1> HIDE DEF ending, lost, rest, done
<1>8. /\ ToSet(ending \o rest) = ToSet(ending) \cup ToSet(rest)
      /\ ToSet(lost \o FailScript(o)) = ToSet(lost) \cup ToSet(FailScript(o))
  BY <1>2, <1>4, <1>5, JoinedWrites
<1>9. StopReturns(o) => Waiting' = {Marked(e, "ended")} \cup Stopping(o)
  BY <1>4, <1>5, <1>6, <1>8 DEF Waiting
<1>10. StopUnconfirmed(o) => Waiting' = {Marked(e, "unverifiable")} \cup Failing(o)
  BY <1>2, <1>4, <1>7, <1>8 DEF Waiting
<1> QED BY <1>1, <1>9, <1>10

\* An enumeration of a set lists all of it.
LEMMA AllListed ==
  ASSUME NEW S, IsFiniteSet(S), NEW f \in SetToSeqs(S)
  PROVE  \A x \in S : \E i \in DOMAIN f : f[i] = x
<1> DEFINE D == 1..Cardinality(S)
<1>1. Cardinality(S) \in Nat
  BY FS_CardinalityType
<1>2. IsFiniteSet(D) /\ Cardinality(D) = Cardinality(S)
  BY <1>1, FS_Interval
<1>3. f \in [D -> S] /\ \A i, j \in D : i # j => f[i] # f[j]
  BY DEF SetToSeqs
<1>4. f \in Injection(D, S)
  BY <1>3 DEF Injection, IsInjective
<1>5. f \in Surjection(D, S)
  BY <1>2, <1>4, FS_Injection
<1> QED BY <1>3, <1>5 DEF Surjection

LEMMA FailuresWaits ==
  ASSUME TypeOK, NEW S \in SUBSET {q \in Op : Pending(q, {"start", "stop"})},
         NEW order \in SetToSeqs(S)
  PROVE  Failures(order) \in Script /\ ToSet(Failures(order)) = {Ended(q, "failed") : q \in S}
<1>1. IsFiniteSet(S)
  BY FiniteAssumption, FS_Subset
<1>2. /\ \A i \in DOMAIN order : order[i] \in S
      /\ \A q \in S : \E i \in DOMAIN order : order[i] = q
      /\ DOMAIN order = 1..Cardinality(S) /\ Cardinality(S) \in Nat
  BY <1>1, Enumerations, AllListed
<1>3. Failures(order) \in Script
  BY FailuresSlightly
<1>4. ToSet(Failures(order)) = {Ended(order[i], "failed") : i \in DOMAIN order}
  BY <1>2 DEF Failures, ToSet
<1> QED BY <1>2, <1>3, <1>4

Strays(o, e) ==
  IF launches[e].state # "running" \/ launches[e].by # o THEN {} ELSE
    {Marked(e, "ended")} \cup
    IF mode = "closing" THEN {} ELSE
      {Ended(q, "failed") : q \in StrayStarts(e)}
      \cup IF environments[e].state \in {"running", "starting"}
             THEN {PutState(e, "stopped")} ELSE {}

LEMMA ExitWaits ==
  ASSUME TypeOK, NEW o \in Op, NEW e \in Env, ExitCallback(o, e)
  PROVE  Waiting' = Strays(o, e)
<1> DEFINE mark == << Marked(e, "ended") >>
           put == IF environments[e].state \in {"running", "starting"}
                     THEN << PutState(e, "stopped") >> ELSE <<>>
           quiet == launches[e].state # "running" \/ launches[e].by # o
<1>1. PICK strays \in SetToSeqs(StrayStarts(e)) :
        todo' = IF quiet THEN <<>> ELSE
             mark \o (IF mode = "closing" THEN <<>> ELSE put \o Failures(strays))
  BY DEF ExitCallback, Run
<1>2. StrayStarts(e) \in SUBSET {q \in Op : Pending(q, {"start", "stop"})}
  BY DEF StrayStarts, Pending
<1>3. Failures(strays) \in Script
      /\ ToSet(Failures(strays)) = {Ended(q, "failed") : q \in StrayStarts(e)}
  BY <1>2, FailuresWaits
<1>4. /\ mark \in Script /\ put \in Script /\ ToSet(mark) = {Marked(e, "ended")}
      /\ ToSet(put) = IF environments[e].state \in {"running", "starting"}
                        THEN {PutState(e, "stopped")} ELSE {}
  BY LaunchMarks, StateWrites, Singletons, FewWrites DEF EnvironmentStates
<1>5. <<>> \in Script /\ ToSet(<<>>) = {}
  BY Singletons, FewWrites
<1> HIDE DEF mark, put, quiet
<1>6. put \o Failures(strays) \in Script
      /\ ToSet(put \o Failures(strays)) = ToSet(put) \cup ToSet(Failures(strays))
  BY <1>3, <1>4, Joined, JoinedWrites
<1>7. /\ ToSet(mark \o (put \o Failures(strays))) =
           ToSet(mark) \cup ToSet(put \o Failures(strays))
      /\ ToSet(mark \o <<>>) = ToSet(mark)
  BY <1>4, <1>5, <1>6, JoinedWrites
<1>8. CASE quiet
  BY <1>1, <1>5, <1>8 DEF Waiting, Strays, quiet
<1>9. CASE ~quiet /\ mode = "closing"
  BY <1>1, <1>4, <1>7, <1>9 DEF Waiting, Strays, quiet
<1>10. CASE ~quiet /\ mode # "closing"
  BY <1>1, <1>3, <1>4, <1>6, <1>7, <1>10 DEF Waiting, Strays, quiet
<1> QED BY <1>8, <1>9, <1>10

LEMMA ReconcileLaunchWaits ==
  ASSUME NEW e \in Env, ReconcileLaunch(e)
  PROVE  \A w \in Waiting' : \E s : w = Marked(e, s)
<1>1. PICK resolution \in {"adopted", "stopped", "unverifiable"}, script \in
        { <<>>, << Marked(e, "unverifiable") >>, << Marked(e, "ended") >>,
          << Marked(e, "stopping"), Marked(e, "ended") >>,
          << Marked(e, "stopping"), Marked(e, "unverifiable") >> } :
        Resolve(e, resolution, script)
  BY DEF ReconcileLaunch
<1> QED BY <1>1, FewWrites DEF Resolve, Run, Waiting

Stale == {e \in Env : entries[e] # "none" /\ environments[e].state # Reconciled(e)}
Interrupted == {o \in Op : Pending(o, {"start", "stop"})}

LEMMA ReconciledWaits ==
  ASSUME TypeOK, ProcessesReconciled
  PROVE  Waiting' = {PutState(e, Reconciled(e)) : e \in Stale}
                      \cup {Ended(o, "failed") : o \in Interrupted}
<1> DEFINE Corrections(order) ==
             [i \in DOMAIN order |-> PutState(order[i], Reconciled(order[i]))]
<1>1. PICK states \in SetToSeqs(Stale), interrupted \in SetToSeqs(Interrupted) :
        todo' = Corrections(states) \o Failures(interrupted)
  BY DEF ProcessesReconciled, Run, Stale, Interrupted
<1>2. Failures(interrupted) \in Script
      /\ ToSet(Failures(interrupted)) = {Ended(o, "failed") : o \in Interrupted}
  BY FailuresWaits DEF Interrupted
<1>3. IsFiniteSet(Stale)
  BY FiniteAssumption, FS_Subset DEF Stale
<1>4. /\ DOMAIN states = 1..Cardinality(Stale) /\ Cardinality(Stale) \in Nat
      /\ \A i \in DOMAIN states : states[i] \in Stale
      /\ \A e \in Stale : \E i \in DOMAIN states : states[i] = e
  BY <1>3, Enumerations, AllListed
<1>5. \A i \in DOMAIN states : PutState(states[i], Reconciled(states[i])) \in WriteRecord
  BY <1>4, StateWrites DEF Stale, Reconciled, EnvironmentStates
<1>6. Corrections(states) \in Script
  BY <1>4, <1>5, Mapped
<1>7. ToSet(Corrections(states)) =
        {PutState(states[i], Reconciled(states[i])) : i \in DOMAIN states}
  BY <1>4 DEF ToSet
<1>8. ToSet(Corrections(states)) = {PutState(e, Reconciled(e)) : e \in Stale}
  BY <1>4, <1>7
<1> HIDE DEF Corrections
<1>9. Waiting' = ToSet(Corrections(states)) \cup ToSet(Failures(interrupted))
  BY <1>1, <1>2, <1>6, JoinedWrites DEF Waiting
<1> QED BY <1>2, <1>8, <1>9

LEMMA RecoverOrphanWaits ==
  ASSUME TypeOK, NEW o \in Op, RecoverOrphan(o)
  PROVE  LET e == operations[o].env
         IN  /\ e \in Env /\ operations[o].kind \in CoreTransactions
             /\ Waiting' = Settling(o, "failed")
                  \cup IF operations[o].kind = "create"
                         THEN {PutEnvironment(e, Errored(e))} ELSE {}
<1>1. operations[o].kind \in CoreTransactions
  BY DEF RecoverOrphan, OrphanTransactions, Pending
<1>2. PICK e \in Env : e = operations[o].env
  BY <1>1, OperationRecords DEF CoreTransactions
<1> DEFINE mark == IF operations[o].kind = "create"
                     THEN << PutEnvironment(e, Errored(e)) >> ELSE <<>>
<1>3. todo' = Settle(o, "failed") \o mark
  BY <1>2 DEF RecoverOrphan, Run
<1>4. /\ Settle(o, "failed") \in Script /\ mark \in Script
      /\ ToSet(Settle(o, "failed")) = Settling(o, "failed")
      /\ ToSet(mark) = IF operations[o].kind = "create"
                         THEN {PutEnvironment(e, Errored(e))} ELSE {}
  BY Parts, EnvironmentPuts, Singletons, FewWrites DEF Terminal
<1> HIDE DEF mark
<1>5. Waiting' = ToSet(Settle(o, "failed")) \cup ToSet(mark)
  BY <1>3, <1>4, JoinedWrites DEF Waiting
<1> QED BY <1>1, <1>2, <1>4, <1>5

LEMMA LedgerWaits ==
  ASSUME NEW o \in Op, SettleSwitchLedger(o) \/ SweepChangeLedger(o) \/ RecoverOrphanChange(o)
  PROVE  \/ /\ Waiting' = {PutLedger(o, ledger[o].method, "failed")}
            /\ ledger[o].state = "in-progress"
         \/ /\ Waiting' = Settling(o, "failed") /\ Pending(o, ChangeTransactions)
            /\ ~OpenJournal(o)
<1>1. CASE SettleSwitchLedger(o)
  BY <1>1, FewWrites DEF SettleSwitchLedger, OrphanSwitchLedgers, Run, Waiting
<1>2. CASE SweepChangeLedger(o)
  BY <1>2, FewWrites DEF SweepChangeLedger, OrphanChangeLedgers, Run, Waiting
<1>3. CASE RecoverOrphanChange(o)
  BY <1>3, SettleWrites DEF RecoverOrphanChange, OrphanChanges, Run, Waiting, Settling
<1> QED BY <1>1, <1>2, <1>3

(***************************************************************************)
(* Every request is attended to: the inductive invariant.                  *)
(***************************************************************************)
Becomes(o, s) ==
  \E w \in Waiting : w.store = "operations" /\ w.key = o /\ w.val.status = s
Ends(o) == \E s \in Terminal : Becomes(o, s)
Unfinished(o) == operations[o].status = "active" \/ Becomes(o, "active")
Known(o) == operations[o].status # "absent"
Leaves(e) ==
  \E w \in Waiting : w.store = "environments" /\ w.key = e /\ w.val.state # "creating"
Creates(e) == \E o \in Op : Live(o) /\ Belongs(o, "create", e)

\* While the instance serves requests, an unfinished operation has a task, or
\* its end is about to be written.
StaysKnown == \A o \in Op : ~Becomes(o, "absent")
Attended == mode = "ready" => \A o \in Op : Unfinished(o) => Live(o) \/ Ends(o)

\* Only a live task is aborted, and its operation was settled by the canceller.
AbortedEnds ==
  /\ \A o \in aborted : controllers[o]
  /\ mode = "ready" => \A o \in aborted : Unfinished(o) => Ends(o)

\* An environment that is `creating` has a creation, or leaves that state.
CreationAttended ==
  mode = "ready" => \A e \in Env :
    /\ environments[e].state = "creating" => Creates(e) \/ Leaves(e)
    /\ \A w \in Waiting : w.store = "environments" /\ w.key = e /\ w.val.state = "creating"
                            => Creates(e)

\* Recovery begins nothing, and finishes the changes first, then the starts and
\* stops, and then the creations and switches.
NothingBegins == ~Serving => \A o \in Op : ~Becomes(o, "active")
ChangesEnded ==
  mode \in {"recoverProcesses", "recoverCore"} =>
    \A o \in Op : ~Pending(o, ChangeTransactions)
ProcessesEnded ==
  mode = "recoverCore" => \A o \in Op : Pending(o, {"start", "stop"}) => Ends(o)
LedgerSwept ==
  ~Serving =>
    /\ \A w \in Waiting : w.store = "ledger" => w.val.state # "in-progress"
    /\ mode \in {"recoverProcesses", "recoverCore"} =>
         \A o \in Op : ledger[o].method \in ChangeTransactions
                         => ledger[o].state # "in-progress"

\* A request is answered with an operation that exists, or will when the answer
\* is written, and so does the operation of every journal that builds.
Answers(w) == w.store = "ledger" /\ w.val.state = "ok" /\ w.val.method # "restore"
AnsweredKnown ==
  \A o \in Op :
    /\ ledger[o].state = "ok" /\ ledger[o].method # "restore" => Known(o)
    /\ \A w \in Waiting : Answers(w) /\ w.key = o => Known(o) \/ Becomes(o, "active")
BuiltKnown ==
  \A o \in Op :
    /\ journals[o].kind \in Built => Known(o)
    /\ \A w \in Waiting : w.store = "journals" /\ w.key = o /\ w.val.kind \in Built
                            => Known(o) \/ Becomes(o, "active")
RestoreNamed ==
  \A o \in Op, e \in Env : Keeps(o, "restore", e) =>
    /\ ledger[o].state = "none" \/ ledger[o].method = "restore"
    /\ \A w \in Waiting : w.store = "ledger" /\ w.key = o => w.val.method = "restore"

AttendedInv ==
  /\ StaysKnown /\ Attended /\ AbortedEnds /\ CreationAttended
  /\ NothingBegins /\ ChangesEnded /\ ProcessesEnded /\ LedgerSwept
  /\ AnsweredKnown /\ BuiltKnown /\ RestoreNamed

LEMMA AttendedInit == Init => AttendedInv
<1> SUFFICES ASSUME Init PROVE AttendedInv
  OBVIOUS
<1>1. Waiting = {} /\ mode = "down" /\ aborted = {}
  BY NothingWaits DEF Init
<1>2. /\ \A o \in Op : journals[o].kind = "none" /\ ledger[o].state = "none"
  BY DEF Init, NoJournal, NoLedger
<1> QED BY <1>1, <1>2
   DEF AttendedInv, StaysKnown, Attended, AbortedEnds, CreationAttended, NothingBegins,
       ChangesEnded, ProcessesEnded, LedgerSwept, AnsweredKnown, BuiltKnown, RestoreNamed,
       Becomes, Keeps, Serving, Built, CoreTransactions

(***************************************************************************)
(* The writes reach their stores.                                          *)
(***************************************************************************)
LEMMA OperationLands ==
  ASSUME StaysKnown, NEW w, Lands(w), NEW o \in Op
  PROVE  /\ \A s : Becomes(o, s)' => Becomes(o, s)
         /\ operations'[o] = operations[o] =>
              \A s : Becomes(o, s) => Becomes(o, s)' \/ operations[o].status = s
         /\ operations'[o] # operations[o] =>
              /\ w.store = "operations" /\ w.key = o /\ operations'[o] = w.val
              /\ w.val \in OperationRecord /\ w.val.status # "absent"
              /\ Becomes(o, w.val.status)
              /\ \A s : Becomes(o, s) => Becomes(o, s)' \/ s = w.val.status
         /\ Unfinished(o)' => Unfinished(o)
         /\ Known(o) => Known(o)'
         /\ Becomes(o, "active") => Becomes(o, "active")' \/ Known(o)'
         /\ Unfinished(o)' /\ Ends(o) => Ends(o)'
<1>1. \A s : Becomes(o, s)' => Becomes(o, s)
  BY DEF Becomes, Lands
<1>2. ASSUME operations'[o] # operations[o]
      PROVE  /\ w.store = "operations" /\ w.key = o /\ operations'[o] = w.val
             /\ w.val \in OperationRecord /\ w.val.status # "absent"
             /\ Becomes(o, w.val.status)
             /\ \A s : Becomes(o, s) => Becomes(o, s)' \/ s = w.val.status
  <2>1. w.store = "operations" /\ w.key = o /\ operations'[o] = w.val /\ w \in Waiting
    BY <1>2, Effect
  <2>2. Becomes(o, w.val.status)
    BY <2>1 DEF Becomes
  <2>3. w.val \in OperationRecord
    BY <2>1, WriteFields DEF Lands
  <2>4. \A s : Becomes(o, s) => Becomes(o, s)' \/ s = w.val.status
    BY DEF Becomes, Lands
  <2> QED BY <2>1, <2>2, <2>3, <2>4 DEF StaysKnown
<1>3. ASSUME operations'[o] = operations[o], NEW s, Becomes(o, s), ~Becomes(o, s)'
      PROVE  operations[o].status = s
  <2>1. w.store = "operations" /\ w.key = o /\ w.val.status = s
    BY <1>3 DEF Becomes, Lands
  <2>2. operations'[o] = w.val
    BY <2>1 DEF Lands
  <2> QED BY <1>3, <2>1, <2>2
<1>4. Unfinished(o)' => Unfinished(o)
  BY <1>1, <1>2 DEF Unfinished
<1>5. (Known(o) => Known(o)')
      /\ (Becomes(o, "active") => Becomes(o, "active")' \/ Known(o)')
  BY <1>2, <1>3 DEF Known
<1>6. ASSUME Unfinished(o)', NEW s \in Terminal, Becomes(o, s), ~Becomes(o, s)'
      PROVE  FALSE
  <2>1. w.store = "operations" /\ w.key = o /\ w.val.status = s /\ operations'[o] = w.val
    BY <1>6, Zenon DEF Becomes, Lands
  <2>2. Becomes(o, "active")'
    BY <1>6, <2>1 DEF Unfinished, Terminal
  <2>3. PICK v \in Waiting' : v.store = "operations" /\ v.key = o /\ v.val.status = "active"
    BY <2>2 DEF Becomes
  <2>4. Before(w, v)
    BY DEF Lands
  <2> QED BY <2>1, <2>3, <2>4 DEF Before, Terminal
<1> QED BY <1>1, <1>2, <1>3, <1>4, <1>5, <1>6 DEF Ends

\* A creation goes on being one.
LEMMA BelongsLands ==
  ASSUME StoresInv, StaysKnown, NEW w, Lands(w), NEW o \in Op, NEW k \in Kinds, NEW e \in Env,
         Belongs(o, k, e)
  PROVE  Belongs(o, k, e)'
<1>1. CASE operations'[o] = operations[o]
  <2>1. CASE operations[o].kind = k /\ operations[o].env = e
    BY <1>1, <2>1 DEF Belongs
  <2>2. CASE ~(operations[o].kind = k /\ operations[o].env = e)
    <3>1. PICK v \in Waiting : v.store = "operations" /\ v.key = o /\ v.val.kind = k
                               /\ v.val.env = e
      BY <2>2 DEF Belongs
    <3>2. v = w => operations'[o] = v.val
      BY <3>1, Zenon DEF Lands
    <3>3. v # w
      BY <1>1, <2>2, <3>1, <3>2
    <3> QED BY <3>1, <3>3 DEF Lands, Belongs
  <2> QED BY <2>1, <2>2
<1>2. CASE operations'[o] # operations[o]
  <2>1. /\ w.store = "operations" /\ w.key = o /\ operations'[o] = w.val /\ w \in Waiting
        /\ w.val \in OperationRecord /\ w.val.status # "absent"
    BY <1>2, OperationLands, Effect
  <2>2. w.val.kind \in Kinds /\ w.val.env \in Env
    BY <2>1 DEF OperationRecord, NoOperation
  <2>3. Belongs(o, w.val.kind, w.val.env)
    BY <2>1 DEF Belongs
  <2>4. w.val.kind = k /\ w.val.env = e
    BY <2>2, <2>3 DEF StoresInv, OneHome, Claims
  <2> QED BY <2>1, <2>4 DEF Belongs
<1> QED BY <1>1, <1>2

LEMMA AttendedPersist ==
  ASSUME TypeOK, StoresInv, AttendedInv, Persist PROVE AttendedInv'
<1> DEFINE w == Head(todo)
<1>1. Lands(w)
  BY Landing DEF StoresInv
<1>2. UNCHANGED << mode, aborted >>
  BY DEF Persist, volatile
<1>3. \A o \in Op :
        /\ \A s : Becomes(o, s)' => Becomes(o, s)
        /\ Unfinished(o)' => Unfinished(o)
        /\ Known(o) => Known(o)'
        /\ Becomes(o, "active") => Becomes(o, "active")' \/ Known(o)'
        /\ Unfinished(o)' /\ Ends(o) => Ends(o)'
  BY <1>1, OperationLands DEF AttendedInv
<1>4. \A o \in Op : (Live(o)' <=> Live(o)) /\ (controllers[o] => controllers'[o])
  <2>1. \A o \in Op : Live(o)' <=> Live(o)
    BY <1>1, Shrinks
  <2>2. \A o \in Op : controllers'[o] = TRUE \/ controllers'[o] = controllers[o]
    BY <1>1 DEF Lands
  <2> QED BY <2>1, <2>2
<1> HIDE DEF w
<1>5. StaysKnown' /\ Attended' /\ AbortedEnds' /\ NothingBegins'
  <2>1. StaysKnown' /\ NothingBegins'
    BY <1>2, <1>3 DEF AttendedInv, StaysKnown, NothingBegins, Serving
  <2>2. Attended'
    BY <1>2, <1>3, <1>4 DEF AttendedInv, Attended
  <2>3. AbortedEnds'
    <3>1. aborted \subseteq Op
      BY DEF TypeOK
    <3> QED BY <1>2, <1>3, <1>4, <3>1 DEF AttendedInv, AbortedEnds
  <2> QED BY <2>1, <2>2, <2>3
<1>6. CreationAttended'
  <2> SUFFICES ASSUME mode = "ready", NEW e \in Env
               PROVE  /\ environments'[e].state = "creating" => Creates(e)' \/ Leaves(e)'
                      /\ \A v \in Waiting' : v.store = "environments" /\ v.key = e
                                               /\ v.val.state = "creating" => Creates(e)'
    BY <1>2 DEF CreationAttended
  <2>1. Creates(e) => Creates(e)'
    BY <1>1, <1>4, BelongsLands DEF AttendedInv, Creates, Kinds
  <2>2. \A v \in Waiting' : v \in Waiting
    BY <1>1 DEF Lands
  <2>3. environments'[e].state = "creating" => Creates(e)' \/ Leaves(e)'
    <3>1. CASE w.store = "environments" /\ w.key = e
      BY <1>1, <2>1, <3>1 DEF Lands, AttendedInv, CreationAttended
    <3>2. CASE ~(w.store = "environments" /\ w.key = e)
      <4>1. environments'[e] = environments[e] /\ (Leaves(e) => Leaves(e)')
        BY <1>1, <3>2 DEF Lands, Leaves
      <4> QED BY <2>1, <4>1 DEF AttendedInv, CreationAttended
    <3> QED BY <3>1, <3>2
  <2> QED BY <2>1, <2>2, <2>3 DEF AttendedInv, CreationAttended
<1>7. ChangesEnded' /\ ProcessesEnded'
  <2>1. mode \in {"recoverProcesses", "recoverCore"} => ~Serving
    BY DEF Serving
  <2>2. ASSUME NEW o \in Op, NEW K, Pending(o, K)', ~Serving PROVE Pending(o, K) /\ Unfinished(o)'
    <3>1. ~Becomes(o, "active")
      BY <2>2 DEF AttendedInv, NothingBegins
    <3>2. operations'[o] = operations[o]
      <4>1. operations'[o] # operations[o] =>
              operations'[o] = w.val /\ Becomes(o, w.val.status)
        BY <1>1, OperationLands DEF AttendedInv
      <4> QED BY <2>2, <3>1, <4>1 DEF Pending
    <3> QED BY <2>2, <3>2 DEF Pending, Unfinished
  <2> QED BY <1>2, <1>3, <2>1, <2>2 DEF AttendedInv, ChangesEnded, ProcessesEnded
<1>8. LedgerSwept'
  <2>1. \A o \in Op : ledger'[o] # ledger[o] => w.store = "ledger" /\ ledger'[o] = w.val
    BY <1>1, Effect
  <2>2. w \in Waiting /\ \A v \in Waiting' : v \in Waiting
    BY <1>1 DEF Lands
  <2> QED BY <1>2, <2>1, <2>2 DEF AttendedInv, LedgerSwept, Serving
<1>9. AnsweredKnown'
  <2>1. ASSUME NEW o \in Op, NEW v \in Waiting', Answers(v), v.key = o
        PROVE  Known(o)' \/ Becomes(o, "active")'
    BY <1>1, <1>3, <2>1 DEF Lands, AttendedInv, AnsweredKnown
  <2>2. ASSUME NEW o \in Op, ledger'[o].state = "ok", ledger'[o].method # "restore"
        PROVE  Known(o)'
    <3>1. CASE ledger'[o] = ledger[o]
      BY <1>3, <2>2, <3>1 DEF AttendedInv, AnsweredKnown
    <3>2. CASE ledger'[o] # ledger[o]
      <4>1. w.store = "ledger" /\ w.key = o /\ ledger'[o] = w.val /\ w \in Waiting
        BY <1>1, <3>2, Effect
      <4>2. Answers(w)
        BY <2>2, <4>1 DEF Answers
      <4>3. Known(o) \/ Becomes(o, "active")
        BY <4>1, <4>2 DEF AttendedInv, AnsweredKnown
      <4>4. ~Becomes(o, "active")'
        BY <1>1, <4>2 DEF Becomes, Lands, Before, Answers
      <4> QED BY <1>3, <4>3, <4>4
    <3> QED BY <3>1, <3>2
  <2> QED BY <2>1, <2>2 DEF AnsweredKnown
<1>10. BuiltKnown'
  <2>1. ASSUME NEW o \in Op, NEW v \in Waiting', v.store = "journals", v.key = o,
               v.val.kind \in Built
        PROVE  Known(o)' \/ Becomes(o, "active")'
    BY <1>1, <1>3, <2>1 DEF Lands, AttendedInv, BuiltKnown
  <2>2. ASSUME NEW o \in Op, journals'[o].kind \in Built PROVE Known(o)'
    <3>1. CASE journals'[o] = journals[o]
      BY <1>3, <2>2, <3>1 DEF AttendedInv, BuiltKnown
    <3>2. CASE journals'[o] # journals[o]
      <4>1. w.store = "journals" /\ w.key = o /\ journals'[o] = w.val /\ w \in Waiting
        BY <1>1, <3>2, Effect
      <4>2. Known(o) \/ Becomes(o, "active")
        BY <2>2, <4>1 DEF AttendedInv, BuiltKnown
      <4>3. ~Becomes(o, "active")'
        BY <1>1, <2>2, <4>1 DEF Becomes, Lands, Before
      <4> QED BY <1>3, <4>2, <4>3
    <3> QED BY <3>1, <3>2
  <2> QED BY <2>1, <2>2 DEF BuiltKnown
<1>11. RestoreNamed'
  <2> SUFFICES ASSUME NEW o \in Op, NEW e \in Env, Keeps(o, "restore", e)'
               PROVE  /\ ledger'[o].state = "none" \/ ledger'[o].method = "restore"
                      /\ \A v \in Waiting' : v.store = "ledger" /\ v.key = o
                                               => v.val.method = "restore"
    BY DEF RestoreNamed
  <2>1. Keeps(o, "restore", e)
    BY <1>1, Shrinks DEF Kinds
  <2>2. ledger'[o] # ledger[o] => w.store = "ledger" /\ w.key = o /\ ledger'[o] = w.val
    BY <1>1, Effect
  <2>3. w \in Waiting /\ \A v \in Waiting' : v \in Waiting
    BY <1>1 DEF Lands
  <2> QED BY <2>1, <2>2, <2>3 DEF AttendedInv, RestoreNamed
<1> QED BY <1>5, <1>6, <1>7, <1>8, <1>9, <1>10, <1>11 DEF AttendedInv

(***************************************************************************)
(* A block begins.                                                         *)
(***************************************************************************)

\* A write that begins nothing.
Modest(w) ==
  /\ w.store = "operations" => w.val.status \in Terminal
  /\ w.store = "environments" => w.val.state # "creating"
  /\ w.store = "ledger" =>
       /\ ledger[w.key].state # "none" /\ w.val.method = ledger[w.key].method
       /\ w.val.state # "in-progress"
       /\ Answers(w) => Known(w.key)
  /\ w.store = "journals" =>
       w.val.kind = "none" \/ (w.val.kind \in Built /\ Known(w.key))

\* What the start of a block owes to the operations and environments: it ends
\* the operation of the task that it finishes.
Attends ==
  /\ todo = <<>> /\ UNCHANGED Stores /\ aborted' \subseteq Op
  /\ mode' = mode \/ (mode = "recoverProcesses" /\ mode' = "recoverCore")
  /\ \A o \in Op :
       /\ ~Becomes(o, "absent")'
       /\ Becomes(o, "active")' =>
            mode = "ready" /\ (Live(o)' \/ Ends(o)') /\ o \notin aborted'
       /\ mode = "ready" /\ controllers[o] /\ ~Live(o)' =>
            /\ operations[o].status = "active" => Ends(o)'
            /\ operations[o].kind = "create" => Leaves(operations[o].env)'
       /\ o \in aborted' =>
            /\ controllers'[o]
            /\ mode = "ready" /\ operations[o].status = "active" => o \in aborted \/ Ends(o)'
       /\ mode' # mode /\ Pending(o, {"start", "stop"}) => Ends(o)'
       /\ \A w \in Waiting' : Answers(w) /\ w.key = o => Known(o) \/ Becomes(o, "active")'
       /\ \A w \in Waiting' : w.store = "journals" /\ w.key = o /\ w.val.kind \in Built =>
            Known(o) \/ Becomes(o, "active")'
       /\ \A w \in Waiting' : w.store = "journals" /\ w.key = o /\ w.val.kind = "restore" =>
            ledger[o].state = "none"
       /\ \A w \in Waiting' : w.store = "ledger" /\ w.key = o =>
            \/ ledger[o].state # "none" /\ w.val.method = ledger[o].method
            \/ /\ ledger[o].state = "none"
               /\ \A e \in Env : Keeps(o, "restore", e)' => w.val.method = "restore"
  /\ \A w \in Waiting' :
       mode = "ready" /\ w.store = "environments" /\ w.val.state = "creating" =>
         Creates(w.key)'
  /\ \A w \in Waiting' : w.store = "ledger" /\ w.val.state = "in-progress" => Serving

LEMMA AttendedStep ==
  ASSUME TypeOK, StoresInv, AttendedInv, Attends PROVE AttendedInv'
<1>1. Waiting = {} /\ UNCHANGED << environments, operations, journals, ledger >>
  BY NothingWaits DEF Attends, Stores
<1>2. \A o \in Op : ~Ends(o) /\ \A s : ~Becomes(o, s)
  BY <1>1 DEF Becomes, Ends
<1>3. \A o \in Op : Live(o) <=> controllers[o]
  BY <1>1 DEF Live
<1>4. mode' = "ready" => mode = "ready"
  BY DEF Attends
<1>5. StaysKnown' /\ Attended' /\ AbortedEnds' /\ NothingBegins'
  <2>1. StaysKnown' /\ NothingBegins'
    BY DEF Attends, StaysKnown, NothingBegins, Serving
  <2>2. Attended'
    BY <1>1, <1>2, <1>3, <1>4 DEF Attends, Unfinished, AttendedInv, Attended
  <2>3. AbortedEnds'
    <3>1. \A o \in aborted' : o \in Op
      BY DEF Attends
    <3> QED BY <1>1, <1>2, <1>4, <3>1 DEF Attends, Unfinished, AttendedInv, AbortedEnds
  <2> QED BY <2>1, <2>2, <2>3
<1>6. CreationAttended'
  <2>1. ASSUME mode = "ready", NEW e \in Env, Creates(e) PROVE Creates(e)' \/ Leaves(e)'
    <3>1. PICK o \in Op : Live(o) /\ Belongs(o, "create", e)
      BY <2>1 DEF Creates
    <3>2. controllers[o] /\ operations[o].kind = "create" /\ operations[o].env = e
      BY <1>1, <1>3, <3>1 DEF Belongs
    <3>3. Live(o)' => Creates(e)'
      BY <1>1, <3>2 DEF Creates, Belongs
    <3>4. ~Live(o)' => Leaves(e)'
      BY <1>1, <2>1, <3>2 DEF Attends
    <3> QED BY <3>3, <3>4
  <2>2. mode = "ready" =>
          \A e \in Env : environments[e].state = "creating" => Creates(e)
    BY <1>1 DEF AttendedInv, CreationAttended, Leaves
  <2>3. mode = "ready" =>
          \A w \in Waiting' : w.store = "environments" /\ w.val.state = "creating"
                                => Creates(w.key)'
    BY DEF Attends
  <2> QED BY <1>1, <1>4, <2>1, <2>2, <2>3 DEF CreationAttended
<1>7. ChangesEnded' /\ ProcessesEnded'
  BY <1>1, <1>2 DEF Attends, AttendedInv, ChangesEnded, ProcessesEnded, Pending
<1>8. LedgerSwept'
  BY <1>1 DEF Attends, AttendedInv, LedgerSwept, Serving
<1>9. AnsweredKnown' /\ BuiltKnown'
  BY <1>1 DEF Attends, AttendedInv, AnsweredKnown, BuiltKnown, Known
<1>10. RestoreNamed'
  BY <1>1 DEF Attends, AttendedInv, RestoreNamed, Keeps
<1> QED BY <1>5, <1>6, <1>7, <1>8, <1>9, <1>10 DEF AttendedInv

\* A block of modest writes, with which only the task of o may end.
LEMMA ModestAttends ==
  ASSUME TypeOK, StoresInv, AttendedInv, todo = <<>>, UNCHANGED Stores,
         mode' = mode \/ (mode = "recoverProcesses" /\ mode' = "recoverCore"),
         \A w \in Waiting' : Modest(w), NEW o,
         \A q \in Op \ {o} : controllers'[q] = controllers[q],
         \A q \in aborted' : q \in aborted \/ (q = o /\ o \in Op),
         \A q \in Op : mode' # mode /\ Pending(q, {"start", "stop"}) => Ends(q)',
         o \in Op /\ mode = "ready" /\ controllers[o] /\ ~controllers'[o] =>
           /\ operations[o].status = "active" => Ends(o)'
           /\ operations[o].kind = "create" => Leaves(operations[o].env)',
         o \in Op /\ o \in aborted' =>
           /\ controllers'[o]
           /\ mode = "ready" /\ operations[o].status = "active" => Ends(o)'
  PROVE  AttendedInv'
<1>1. \A q \in aborted : q \in Op /\ controllers[q]
  BY DEF TypeOK, AttendedInv, AbortedEnds
<1>2. \A q \in Op : ~Becomes(q, "absent")' /\ ~Becomes(q, "active")'
  BY DEF Becomes, Modest, Terminal
<1>3. \A q \in Op : mode = "ready" /\ controllers[q] /\ ~Live(q)' =>
        /\ operations[q].status = "active" => Ends(q)'
        /\ operations[q].kind = "create" => Leaves(operations[q].env)'
  BY DEF Live
<1>4. \A q \in Op :
        /\ \A w \in Waiting' : Answers(w) /\ w.key = q => Known(q) \/ Becomes(q, "active")'
        /\ \A w \in Waiting' : w.store = "journals" /\ w.key = q /\ w.val.kind \in Built =>
             Known(q) \/ Becomes(q, "active")'
        /\ \A w \in Waiting' : w.store = "journals" /\ w.key = q /\ w.val.kind = "restore" =>
             ledger[q].state = "none"
        /\ \A w \in Waiting' : w.store = "ledger" /\ w.key = q =>
             ledger[q].state # "none" /\ w.val.method = ledger[q].method
  BY DEF Modest, Answers, Built, CoreTransactions
<1>5. \A q \in Op : q \in aborted' =>
        /\ controllers'[q]
        /\ mode = "ready" /\ operations[q].status = "active" => q \in aborted \/ Ends(q)'
  BY <1>1
<1>6. aborted' \subseteq Op
  BY <1>1
<1>7. /\ \A w \in Waiting' : ~(w.store = "environments" /\ w.val.state = "creating")
      /\ \A w \in Waiting' : ~(w.store = "ledger" /\ w.val.state = "in-progress")
  BY DEF Modest
<1>8. Attends
  BY <1>2, <1>3, <1>4, <1>5, <1>6, <1>7 DEF Attends
<1> QED BY <1>8, AttendedStep

\* A block of modest writes outside the tasks.
LEMMA ModestStep ==
  ASSUME TypeOK, StoresInv, AttendedInv, todo = <<>>, UNCHANGED Stores,
         UNCHANGED << mode, controllers, aborted >>, \A w \in Waiting' : Modest(w)
  PROVE  AttendedInv'
<1>1. None \notin Op
  BY NoneAssumption
<1> QED BY <1>1, ModestAttends

LEMMA EndIsWritten ==
  ASSUME TypeOK, NEW o \in Op, NEW s \in Terminal
  PROVE  /\ Ended(o, s) \in Waiting' => Ends(o)'
         /\ Settling(o, s) \subseteq Waiting' /\ operations[o].status = "active" => Ends(o)'
<1>1. /\ Ended(o, s).store = "operations" /\ Ended(o, s).key = o
      /\ Ended(o, s).val.status = s
  BY EndedFields
<1> QED BY <1>1 DEF Ends, Becomes, Settling

LEMMA ModestWrites ==
  ASSUME TypeOK, AttendedInv, NEW o \in Op
  PROVE  /\ \A s \in Terminal : /\ Modest(Ended(o, s))
                               /\ \A w \in Settling(o, s) : Modest(w)
         /\ Modest(Removed(o)) /\ \A s : Modest(PutGeneration(o, s))
         /\ \A p : Modest(PutPlan(p, o))
         /\ Known(o) \/ ledger[o].method = "restore" => \A w \in Repairing(o) : Modest(w)
         /\ journals[o].kind \in Built => Modest(MarkedCommitted(o)) /\ Known(o)
<1>1. \A s \in Terminal : Modest(Ended(o, s))
  BY EndedFields DEF Modest
<1>2. Modest(Removed(o)) /\ (\A s : Modest(PutGeneration(o, s)))
      /\ \A p : Modest(PutPlan(p, o))
  BY DEF Modest, Removed, PutJournal, PutGeneration, PutPlan, Write, NoJournal
<1>3. Known(o) \/ ledger[o].method = "restore" => \A w \in Repairing(o) : Modest(w)
  BY DEF Repairing, PutLedger, Write, Modest, Answers
<1>4. journals[o].kind \in Built => Modest(MarkedCommitted(o)) /\ Known(o)
  <2>1. journals[o].kind \in Built => Known(o)
    BY DEF AttendedInv, BuiltKnown
  <2>2. journals[o].kind \in Built =>
          LET w == MarkedCommitted(o)
          IN  w.store = "journals" /\ w.key = o /\ w.val.kind = journals[o].kind
    BY JournalFields DEF MarkedCommitted
  <2> QED BY <2>1, <2>2 DEF Modest
<1> QED BY <1>1, <1>2, <1>3, <1>4 DEF Settling

LEMMA ModestPuts ==
  ASSUME TypeOK, NEW e \in Env
  PROVE  /\ Modest(PutEnvironment(e, Errored(e)))
         /\ \A g : /\ Modest(PutEnvironment(e, Committing(e, g)))
                   /\ Modest(Spawning(e, g))
         /\ \A s : Modest(Marked(e, s))
         /\ \A s : s # "creating" => Modest(PutState(e, s))
         /\ PutEnvironment(e, Errored(e)) \in Waiting' => Leaves(e)'
         /\ \A g : PutEnvironment(e, Committing(e, g)) \in Waiting' => Leaves(e)'
<1>1. /\ LET w == PutEnvironment(e, Errored(e))
         IN  w.store = "environments" /\ w.key = e /\ w.val.state = "error"
      /\ \A g : LET w == PutEnvironment(e, Committing(e, g))
                IN  w.store = "environments" /\ w.key = e /\ w.val.state = "stopped"
  BY EnvironmentFields
<1>2. \A s : Modest(Marked(e, s))
  BY DEF Marked, Write, Modest
<1>3. \A g : Modest(Spawning(e, g))
  BY DEF Spawning, PutLaunch, Write, Modest
<1>4. \A s : s # "creating" => Modest(PutState(e, s))
  <2>1. environments[e] \in EnvironmentRecord
    BY DEF TypeOK
  <2> QED BY <2>1 DEF PutState, PutEnvironment, Write, EnvironmentRecord, Modest
<1> QED BY <1>1, <1>2, <1>3, <1>4 DEF Modest, Leaves

\* A journal that builds is the one of its operation.
LEMMA JournalOfOperation ==
  ASSUME TypeOK, StoresInv, AttendedInv, NEW o \in Op, journals[o].kind \in Built
  PROVE  /\ operations[o].kind = journals[o].kind /\ operations[o].env = journals[o].env
         /\ journals[o].env \in Env
<1>1. journals[o].kind \in Kinds /\ journals[o].env \in Env
  BY JournalFields DEF Built, CoreTransactions, Kinds
<1>2. operations[o].kind \in Kinds /\ operations[o].env \in Env
  BY DEF TypeOK, OperationRecord, NoOperation, AttendedInv, BuiltKnown, Known
<1> QED BY <1>1, <1>2 DEF StoresInv, OneHome, Claims, Belongs, Keeps

LEMMA AttendedInstallReturns ==
  ASSUME TypeOK, StoresInv, AttendedInv, NEW o \in Op, InstallReturns(o) PROVE AttendedInv'
<1>1. /\ todo = <<>> /\ UNCHANGED << Stores, mode >> /\ journals[o].kind \in CoreTransactions
      /\ controllers' = [controllers EXCEPT ![o] = FALSE] /\ aborted' = aborted \ {o}
  BY DEF InstallReturns, TaskReturns, Finished, durable, Stores
<1>2. journals[o].kind \in Built
  BY <1>1 DEF Built
<1>3. PICK e \in Env : e = journals[o].env /\ e = operations[o].env
      /\ operations[o].kind = journals[o].kind
  BY <1>2, JournalOfOperation
<1>4. Waiting' = CommitSet(o) \/ Waiting' = UndoSet(o)
  BY <1>1, CommitWaits, UndoWaits DEF InstallReturns, Run, Waiting
<1>5. \A w \in Waiting' : Modest(w)
  <2>1. \A w \in CommitSet(o) : Modest(w)
    BY <1>2, <1>3, ModestWrites, ModestPuts DEF CommitSet, Terminal
  <2>2. \A w \in UndoSet(o) : Modest(w)
    BY <1>2, <1>3, ModestWrites, ModestPuts DEF UndoSet, Erring, Terminal
  <2> QED BY <1>4, <2>1, <2>2
<1>6. operations[o].status = "active" => Ends(o)'
  BY <1>4, EndIsWritten DEF CommitSet, UndoSet, Terminal
<1>7. operations[o].kind = "create" => Leaves(e)'
  BY <1>3, <1>4, ModestPuts DEF CommitSet, UndoSet, Erring
<1>8. operations[o].kind = "create" => Leaves(operations[o].env)'
  BY <1>1, <1>3, <1>7 DEF Stores
<1>9. controllers \in [Op -> BOOLEAN]
  BY DEF TypeOK
<1> HIDE DEF AttendedInv, Modest
<1> QED BY <1>1, <1>5, <1>6, <1>8, <1>9, ModestAttends

LEMMA AttendedStageReturns ==
  ASSUME TypeOK, StoresInv, AttendedInv, NEW o \in Op, StageReturns(o) PROVE AttendedInv'
<1>1. /\ todo = <<>> /\ UNCHANGED << Stores, mode >> /\ journals[o].kind = "apply"
      /\ controllers' = [controllers EXCEPT ![o] = FALSE] /\ aborted' = aborted \ {o}
  BY DEF StageReturns, TaskReturns, Finished, durable, Stores
<1>2. journals[o].kind \in Built
  BY <1>1 DEF Built
<1>3. PICK e \in Env : e = journals[o].env
  BY <1>2, JournalOfOperation
<1>4. operations[o].kind # "create"
  BY <1>1, <1>2, JournalOfOperation
<1>5. \/ Waiting' = RollbackSet(o)
      \/ Waiting' = CancelSet(o) /\ o \in aborted
      \/ Waiting' = PublishSet(o)
      \/ Waiting' = {PutGeneration(o, "recorded")} \cup RollbackSet(o)
  <2>1. \/ todo' = RollbackScript(o)
        \/ todo' = CancelScript(o) /\ o \in aborted
        \/ todo' = PublishScript(o)
    BY DEF StageReturns, Run
  <2> QED BY <1>1, <2>1, RollbackWaits, CancelWaits, PublishWaits DEF Waiting
<1>6. \A w \in Waiting' : Modest(w)
  <2>1. \A w \in RollbackSet(o) \cup {PutGeneration(o, "recorded")} : Modest(w)
    BY <1>2, ModestWrites DEF RollbackSet, Terminal
  <2>2. \A w \in CancelSet(o) : Modest(w)
    BY ModestWrites DEF CancelSet
  <2>3. \A w \in PublishSet(o) : Modest(w)
    BY <1>2, <1>3, ModestWrites, ModestPuts DEF PublishSet, CommitSet, Terminal
  <2> QED BY <1>5, <2>1, <2>2, <2>3
<1>7. mode = "ready" /\ operations[o].status = "active" => Ends(o)'
  <2>1. mode = "ready" /\ o \in aborted => operations[o].status # "active"
    BY <1>1, NothingWaits DEF AttendedInv, AbortedEnds, Unfinished, Ends, Becomes
  <2> QED BY <1>5, <2>1, EndIsWritten DEF RollbackSet, PublishSet, CommitSet, Terminal
<1>8. controllers \in [Op -> BOOLEAN]
  BY DEF TypeOK
<1> HIDE DEF AttendedInv, Modest
<1> QED BY <1>1, <1>4, <1>6, <1>7, <1>8, ModestAttends

LEMMA AttendedCancels ==
  ASSUME TypeOK, StoresInv, AttendedInv, NEW o \in Op, CancelOperation(o) \/ CancelApply(o)
  PROVE  AttendedInv'
<1>1. /\ todo = <<>> /\ UNCHANGED << Stores, mode, controllers >>
      /\ operations[o].status = "active" /\ todo' = Settle(o, "cancelled")
      /\ aborted' = IF controllers[o] THEN aborted \cup {o} ELSE aborted
  BY DEF CancelOperation, CancelApply, Idle, Pending, Run, durable, Stores
<1>2. Waiting' = Settling(o, "cancelled")
  BY <1>1, SettleWrites DEF Waiting, Settling
<1>3. \A w \in Waiting' : Modest(w)
  BY <1>2, ModestWrites DEF Terminal
<1>4. Ends(o)'
  BY <1>1, <1>2, EndIsWritten DEF Terminal
<1>5. o \in aborted => controllers[o]
  BY DEF AttendedInv, AbortedEnds
<1> HIDE DEF AttendedInv, Modest
<1> QED BY <1>1, <1>3, <1>4, <1>5, ModestAttends

LEMMA AttendedStartTask ==
  ASSUME TypeOK, StoresInv, AttendedInv, NEW o \in Op,
         LaunchIntent(o) \/ Identify(o) \/ Ready(o) \/ StartFails(o)
  PROVE  AttendedInv'
<1>0. /\ todo = <<>> /\ UNCHANGED << Stores, mode >> /\ operations[o].kind = "start"
      /\ controllers[o] /\ controllers \in [Op -> BOOLEAN]
  BY DEF LaunchIntent, Identify, Ready, StartFails, Spawned, TaskOf, TaskReturns, OfKind,
         durable, files, Stores, TypeOK
<1>1. PICK e \in Env : e = operations[o].env
  BY <1>0, OperationRecords
<1>2. mode = "ready" /\ o \in aborted => operations[o].status # "active"
  BY <1>0, NothingWaits DEF AttendedInv, AbortedEnds, Unfinished, Ends, Becomes
<1>3. CASE LaunchIntent(o) \/ Identify(o)
  <2>1. UNCHANGED << controllers, aborted >>
    BY <1>3 DEF LaunchIntent, Identify, volatile
  <2>2. \A w \in Waiting' : Modest(w)
    <3>1. PICK g, r : todo' = << Spawning(e, g) >> \/ todo' = << PutLaunch(e, r) >>
      BY <1>1, <1>3 DEF LaunchIntent, Identify, Run
    <3>2. Modest(Spawning(e, g)) /\ Modest(PutLaunch(e, r))
      BY DEF Modest, Spawning, PutLaunch, Write
    <3> QED BY <3>1, <3>2, FewWrites DEF Waiting
  <2> HIDE DEF AttendedInv, Modest
  <2> QED BY <1>0, <2>1, <2>2, ModestStep
<1>4. CASE Ready(o)
  <2>1. controllers' = [controllers EXCEPT ![o] = FALSE] /\ UNCHANGED aborted
        /\ o \notin aborted
    BY <1>4 DEF Ready, Finished
  <2>2. Waiting' = {Marked(e, "running"), PutState(e, "running")} \cup Settling(o, "succeeded")
    BY <1>1, <1>4, ReadyWaits
  <2>3. \A w \in Waiting' : Modest(w)
    BY <2>2, ModestWrites, ModestPuts DEF Terminal
  <2>4. operations[o].status = "active" => Ends(o)'
    BY <2>2, EndIsWritten DEF Terminal
  <2> HIDE DEF AttendedInv, Modest
  <2> QED BY <1>0, <2>1, <2>3, <2>4, ModestAttends
<1>5. CASE StartFails(o)
  <2>1. controllers' = [controllers EXCEPT ![o] = FALSE] /\ aborted' = aborted \ {o}
    BY <1>5 DEF StartFails, Finished
  <2>2. Waiting' = Failing(o) \cup IF Previous(o, e) THEN {} ELSE {Marked(e, "ended")}
    BY <1>1, <1>5, StartFailsWaits
  <2>3. \A w \in Waiting' : Modest(w)
    <3>1. \A w \in Failing(o) : Modest(w)
      BY <1>0, <1>1, ModestWrites, ModestPuts DEF Failing, Reverting, Reverted, Terminal
    <3> QED BY <2>2, <3>1, ModestPuts
  <2>4. mode = "ready" /\ operations[o].status = "active" => Ends(o)'
    BY <1>2, <2>2, EndIsWritten DEF Failing, Terminal
  <2> HIDE DEF AttendedInv, Modest
  <2> QED BY <1>0, <2>1, <2>3, <2>4, ModestAttends
<1> QED BY <1>3, <1>4, <1>5

LEMMA AttendedStopTask ==
  ASSUME TypeOK, StoresInv, AttendedInv, NEW o \in Op, StopReturns(o) \/ StopUnconfirmed(o)
  PROVE  AttendedInv'
<1>0. /\ todo = <<>> /\ UNCHANGED << Stores, mode >> /\ operations[o].kind = "stop"
      /\ controllers[o] /\ controllers \in [Op -> BOOLEAN]
      /\ controllers' = [controllers EXCEPT ![o] = FALSE] /\ aborted' = aborted \ {o}
  BY DEF StopReturns, StopUnconfirmed, TaskOf, TaskReturns, OfKind, Finished,
         durable, files, Stores, TypeOK
<1>1. PICK e \in Env : e = operations[o].env
  BY <1>0, OperationRecords
<1>2. mode = "ready" /\ o \in aborted => operations[o].status # "active"
  BY <1>0, NothingWaits DEF AttendedInv, AbortedEnds, Unfinished, Ends, Becomes
<1>3. PICK s : Waiting' = {Marked(e, s)} \cup Stopping(o)
               \/ Waiting' = {Marked(e, s)} \cup Failing(o)
  BY <1>1, StopTaskWaits
<1>4. \A w \in Waiting' : Modest(w)
  <2>1. \A w \in Failing(o) : Modest(w)
    BY <1>0, <1>1, ModestWrites, ModestPuts DEF Failing, Reverting, Reverted, Terminal
  <2>2. \A w \in Stopping(o) : Modest(w)
    BY <1>1, <2>1, ModestWrites, ModestPuts DEF Stopping, Terminal
  <2> QED BY <1>3, <2>1, <2>2, ModestPuts
<1>5. mode = "ready" /\ operations[o].status = "active" => Ends(o)'
  BY <1>2, <1>3, EndIsWritten DEF Failing, Stopping, Terminal
<1> HIDE DEF AttendedInv, Modest
<1> QED BY <1>0, <1>4, <1>5, ModestAttends

LEMMA AttendedExitCallback ==
  ASSUME TypeOK, StoresInv, AttendedInv, NEW o \in Op, NEW e \in Env, ExitCallback(o, e)
  PROVE  AttendedInv'
<1>1. todo = <<>> /\ UNCHANGED << Stores, mode, controllers, aborted >>
  BY DEF ExitCallback, durable, Stores
<1>2. Waiting' = Strays(o, e)
  BY ExitWaits
<1>3. StrayStarts(e) \subseteq Op
  BY DEF StrayStarts
<1>4. \A w \in Waiting' : Modest(w)
  <2>1. \A q \in StrayStarts(e) : Modest(Ended(q, "failed"))
    BY <1>3, ModestWrites DEF Terminal
  <2> QED BY <1>2, <2>1, ModestPuts DEF Strays
<1> HIDE DEF AttendedInv, Modest
<1> QED BY <1>1, <1>4, ModestStep

LEMMA AttendedRecoverChange ==
  ASSUME TypeOK, StoresInv, AttendedInv, NEW o \in Op, RecoverChange(o) PROVE AttendedInv'
<1>1. /\ todo = <<>> /\ UNCHANGED << Stores, mode, controllers, aborted >>
      /\ journals[o].kind \in {"apply", "restore"}
  BY DEF RecoverChange, ChangeJournals, ChangeTransactions, durable, Stores, volatile
<1>2. journals[o].kind = "apply" => Known(o)
  BY DEF Built, AttendedInv, BuiltKnown
<1>3. journals[o].kind = "restore" => ledger[o].state = "none" \/ ledger[o].method = "restore"
  <2>1. journals[o].env \in Env
    BY <1>1, JournalRecords
  <2> QED BY <2>1 DEF AttendedInv, RestoreNamed, Keeps
<1>4. \A w \in Repairing(o) : Modest(w)
  <2>1. Known(o) \/ ledger[o].method = "restore" => \A w \in Repairing(o) : Modest(w)
    BY ModestWrites
  <2>2. ledger[o].state = "none" => Repairing(o) = {}
    BY DEF Repairing
  <2> QED BY <1>1, <1>2, <1>3, <2>1, <2>2
<1>5. \A w \in Waiting' : Modest(w)
  <2>1. \A w \in MarkSet(o) \cup Consuming(o) \cup {Removed(o)} : Modest(w)
    BY <1>4, ModestWrites DEF MarkSet, Consuming, Terminal
  <2>2. \A w \in Settling(o, "failed") \cup Repairing(o) \cup {Removed(o)} : Modest(w)
    BY <1>4, ModestWrites DEF Terminal
  <2>3. \A w \in RollbackSet(o) : Modest(w)
    BY <2>2, ModestWrites DEF RollbackSet
  <2> QED BY <2>1, <2>2, <2>3, RecoverChangeWaits
<1> HIDE DEF AttendedInv, Modest
<1> QED BY <1>1, <1>5, ModestStep

LEMMA AttendedRecoverJournal ==
  ASSUME TypeOK, StoresInv, AttendedInv, NEW o \in Op, RecoverJournal(o) PROVE AttendedInv'
<1>1. /\ todo = <<>> /\ UNCHANGED << Stores, mode, controllers, aborted >>
      /\ journals[o].kind \in CoreTransactions
  BY DEF RecoverJournal, Recovering, CoreJournals, durable, Stores, volatile
<1>2. journals[o].kind \in Built
  BY <1>1 DEF Built
<1>3. PICK e \in Env : e = journals[o].env
  BY <1>2, JournalOfOperation
<1>4. Waiting' = FinalizeSet(o) \/ Waiting' = UndoSet(o) \cup Repairing(o)
  BY <1>1, FinalizeWaits, UndoWaits DEF RecoverJournal, Run, Waiting
<1>5. \A w \in Repairing(o) : Modest(w)
  BY <1>2, ModestWrites
<1>6. \A w \in FinalizeSet(o) : Modest(w)
  BY <1>5, ModestWrites DEF FinalizeSet, Terminal
<1>7. \A w \in UndoSet(o) : Modest(w)
  BY <1>3, ModestWrites, ModestPuts DEF UndoSet, Erring, Terminal
<1>8. \A w \in Waiting' : Modest(w)
  BY <1>4, <1>5, <1>6, <1>7
<1> HIDE DEF AttendedInv, Modest
<1> QED BY <1>1, <1>8, ModestStep

LEMMA AttendedRecoverOrphans ==
  ASSUME TypeOK, StoresInv, AttendedInv,
         \/ \E o \in Op : \/ RecoverOrphan(o) \/ RecoverOrphanChange(o)
                          \/ SettleSwitchLedger(o) \/ SweepChangeLedger(o)
         \/ \E e \in Env : RecoverCreating(e)
  PROVE  AttendedInv'
<1>1. todo = <<>> /\ UNCHANGED << Stores, mode, controllers, aborted >>
  BY DEF RecoverOrphan, RecoverOrphanChange, SettleSwitchLedger, SweepChangeLedger,
         RecoverCreating, Recovering, durable, Stores, volatile
<1>2. \A w \in Waiting' : Modest(w)
  <2>1. ASSUME NEW o \in Op, RecoverOrphan(o) PROVE \A w \in Waiting' : Modest(w)
    <3>1. PICK e \in Env : e = operations[o].env
      BY <2>1, RecoverOrphanWaits
    <3> QED BY <2>1, <3>1, RecoverOrphanWaits, ModestWrites, ModestPuts DEF Terminal
  <2>2. ASSUME NEW o \in Op,
               RecoverOrphanChange(o) \/ SettleSwitchLedger(o) \/ SweepChangeLedger(o)
        PROVE  \A w \in Waiting' : Modest(w)
    <3>1. ledger[o].state = "in-progress" => Modest(PutLedger(o, ledger[o].method, "failed"))
      BY DEF Modest, Answers, PutLedger, Write
    <3> QED BY <2>2, <3>1, LedgerWaits, ModestWrites DEF Terminal
  <2>3. ASSUME NEW e \in Env, RecoverCreating(e) PROVE \A w \in Waiting' : Modest(w)
    <3>1. Waiting' = {PutEnvironment(e, Errored(e))}
      BY <2>3, FewWrites DEF RecoverCreating, Run, Waiting
    <3> QED BY <3>1, ModestPuts
  <2> QED BY <2>1, <2>2, <2>3
<1> HIDE DEF AttendedInv, Modest
<1> QED BY <1>1, <1>2, ModestStep

LEMMA AttendedReconciliation ==
  ASSUME TypeOK, StoresInv, AttendedInv, ProcessesReconciled \/ \E e \in Env : ReconcileLaunch(e)
  PROVE  AttendedInv'
<1>1. /\ todo = <<>> /\ UNCHANGED << Stores, controllers, aborted >>
      /\ mode' = mode \/ (mode = "recoverProcesses" /\ mode' = "recoverCore")
  BY DEF ProcessesReconciled, ReconcileLaunch, durable, files, Stores
<1>2. \A w \in Waiting' : Modest(w)
  <2>1. ASSUME NEW e \in Env, ReconcileLaunch(e) PROVE \A w \in Waiting' : Modest(w)
    BY <2>1, ReconcileLaunchWaits, ModestPuts
  <2>2. ASSUME ProcessesReconciled PROVE \A w \in Waiting' : Modest(w)
    <3>1. \A e \in Stale : Modest(PutState(e, Reconciled(e)))
      BY ModestPuts DEF Stale, Reconciled
    <3>2. \A o \in Interrupted : Modest(Ended(o, "failed"))
      BY ModestWrites DEF Interrupted, Terminal
    <3> QED BY <2>2, <3>1, <3>2, ReconciledWaits
  <2> QED BY <2>1, <2>2
<1>3. \A q \in Op : mode' # mode /\ Pending(q, {"start", "stop"}) => Ends(q)'
  <2> SUFFICES ASSUME NEW q \in Op, ProcessesReconciled, Pending(q, {"start", "stop"})
               PROVE  Ends(q)'
    BY DEF ReconcileLaunch
  <2>1. Ended(q, "failed") \in Waiting'
    BY ReconciledWaits DEF Interrupted
  <2> QED BY <2>1, EndIsWritten DEF Terminal
<1>4. None \notin Op
  BY NoneAssumption
<1> HIDE DEF AttendedInv, Modest
<1> QED BY <1>1, <1>2, <1>3, <1>4, ModestAttends


(***************************************************************************)
(* The blocks of requests, as the sets of their writes.                    *)
(***************************************************************************)
Answering(o, k) == {PutLedger(o, k, "in-progress"), PutLedger(o, k, "ok")}
Building(o, k, e, p) ==
  {PutOperation(o, k, e, "active"),
   PutJournal(o, [kind |-> k, env |-> e, gen |-> o, plan |-> p, phase |-> "open"]),
   Register(o), PutGeneration(o, "staged")}
Departing(o, k, e) == {PutOperation(o, k, e, "active"), PutState(e, During(k))}
Restoring(o, e, g) ==
  {PutJournal(o, [kind |-> "restore", env |-> e, gen |-> g, plan |-> None,
                  phase |-> "committed"]),
   PutOperation(o, "restore", e, "active"),
   PutEnvironment(e, [environments[e] EXCEPT !.gen = g, !.revision = @ + 1]),
   PutOperation(o, "restore", e, "succeeded"), PutLedger(o, "restore", "ok"),
   PutJournal(o, NoJournal)}
Refusing(o, k, e) == {PutOperation(o, k, e, "failed"), PutState(e, Reverted(k))}

LEMMA EffectWaits ==
  ASSUME NEW o \in Op, NEW k \in Kinds, NEW effect \in Script, todo' = Dispatched(o, k, effect)
  PROVE  Waiting' = Answering(o, k) \cup ToSet(effect)
<1>1. todo' = Dispatched(o, k, effect) \o <<>> /\ <<>> \in Script /\ ToSet(<<>>) = {}
  BY WithoutRest
<1>2. Waiting' = {PutLedger(o, k, "in-progress"), PutLedger(o, k, "ok")}
                   \cup ToSet(effect) \cup ToSet(<<>>)
  BY <1>1, RequestWaiting, Zenon
<1> QED BY <1>1, <1>2 DEF Answering

LEMMA CreateWaits ==
  ASSUME TypeOK, NEW o \in Op, NEW e \in Env, CreateEnvironment(o, e)
  PROVE  Waiting' = Answering(o, "create") \cup Building(o, "create", e, None)
                      \cup {PutEnvironment(e, [NoEnvironment EXCEPT !.state = "creating"])}
<1> DEFINE put == PutEnvironment(e, [NoEnvironment EXCEPT !.state = "creating"])
           prepared == Prepared(o, "create", e)
<1>1. todo' = Dispatched(o, "create", << put >> \o prepared) /\ "create" \in Kinds
  BY DEF CreateEnvironment, Run, Kinds
<1>2. put \in WriteRecord
  <2>1. [NoEnvironment EXCEPT !.state = "creating"] \in EnvironmentRecord
    BY DEF NoEnvironment, EnvironmentRecord, EnvironmentStates
  <2> QED BY <2>1, EnvironmentWrites
<1>3. prepared \in Script /\ << put >> \in Script /\ ToSet(<< put >>) = {put}
  BY <1>2, PreparedWrites, Singletons, FewWrites DEF CoreTransactions
<1>4. ToSet(prepared) = Building(o, "create", e, None)
  BY FourWrites DEF Prepared, Building
<1> HIDE DEF put, prepared
<1>5. << put >> \o prepared \in Script
      /\ ToSet(<< put >> \o prepared) = {put} \cup Building(o, "create", e, None)
  BY <1>3, <1>4, Joined, JoinedWrites
<1>6. Waiting' = Answering(o, "create") \cup {put} \cup Building(o, "create", e, None)
  BY <1>1, <1>5, EffectWaits
<1> QED BY <1>6 DEF put

LEMMA SwitchWaits ==
  ASSUME TypeOK, NEW o \in Op, NEW e \in Env, SwitchCombination(o, e)
  PROVE  Waiting' = Answering(o, "switch") \cup Building(o, "switch", e, None)
<1>1. todo' = Dispatched(o, "switch", Prepared(o, "switch", e)) /\ "switch" \in Kinds
  BY DEF SwitchCombination, Run, Kinds
<1>2. Prepared(o, "switch", e) \in Script
  BY PreparedWrites DEF CoreTransactions
<1>3. ToSet(Prepared(o, "switch", e)) = Building(o, "switch", e, None)
  BY FourWrites DEF Prepared, Building
<1> QED BY <1>1, <1>2, <1>3, EffectWaits

LEMMA NoopWaits ==
  ASSUME TypeOK, NEW o \in Op, NEW e \in Env, NoopSwitch(o, e)
  PROVE  Waiting' = Answering(o, "switch") \cup {PutOperation(o, "switch", e, "active"),
                                                 PutOperation(o, "switch", e, "succeeded")}
<1> DEFINE begin == PutOperation(o, "switch", e, "active")
           done == PutOperation(o, "switch", e, "succeeded")
<1>1. todo' = Dispatched(o, "switch", << begin, done >>) /\ "switch" \in Kinds
  BY DEF NoopSwitch, Run, Kinds
<1>2. << begin, done >> \in Script
  BY <1>1, OperationWrites, Pairs DEF Terminal
<1>3. ToSet(<< begin, done >>) = {begin, done}
  BY FewWrites
<1> HIDE DEF begin, done
<1>4. Waiting' = Answering(o, "switch") \cup {begin, done}
  BY <1>1, <1>2, <1>3, EffectWaits
<1> QED BY <1>4 DEF begin, done

LEMMA ApplyWaits ==
  ASSUME TypeOK, NEW o \in Op, NEW e \in Env, NEW p \in Plan, ApplyChange(o, e, p)
  PROVE  Waiting' = Answering(o, "apply") \cup Building(o, "apply", e, p)
<1> DEFINE begin == PutOperation(o, "apply", e, "active")
           open == PutJournal(o, [kind |-> "apply", env |-> e, gen |-> o, plan |-> p,
                                  phase |-> "open"])
           register == Register(o)
           stage == PutGeneration(o, "staged")
           effect == << begin, register, open, stage >>
<1>1. todo' = Dispatched(o, "apply", effect) /\ "apply" \in Kinds
  BY DEF ApplyChange, Run, Kinds
<1>2. effect \in Script
  <2>1. [kind |-> "apply", env |-> e, gen |-> o, plan |-> p, phase |-> "open"] \in JournalRecord
    BY DEF JournalRecord
  <2> QED BY <2>1, OperationWrites, JournalWrites, OtherWrites, Quadruples
          DEF Kinds, GenerationStates
<1>3. ToSet(effect) = Building(o, "apply", e, p)
  BY FourWrites DEF Building
<1> HIDE DEF effect
<1> QED BY <1>1, <1>2, <1>3, EffectWaits

LEMMA MovedWrites ==
  ASSUME TypeOK, NEW e \in Env, NEW g \in Op
  PROVE  PutEnvironment(e, [environments[e] EXCEPT !.gen = g, !.revision = @ + 1]) \in WriteRecord
<1>1. environments[e] \in EnvironmentRecord
  BY DEF TypeOK
<1>2. environments[e].revision + 1 \in Nat
  BY <1>1 DEF EnvironmentRecord
<1>3. [environments[e] EXCEPT !.gen = g, !.revision = @ + 1] \in EnvironmentRecord
  BY <1>1, <1>2 DEF EnvironmentRecord
<1> QED BY <1>3, EnvironmentWrites

LEMMA RestoreWaits ==
  ASSUME TypeOK, NEW o \in Op, NEW e \in Env, NEW g \in Op, RestoreGeneration(o, e, g)
  PROVE  Waiting' = Answering(o, "restore") \cup Restoring(o, e, g)
<1> DEFINE open == PutJournal(o, [kind |-> "restore", env |-> e, gen |-> g, plan |-> None,
                                  phase |-> "committed"])
           begin == PutOperation(o, "restore", e, "active")
           moved == [environments[e] EXCEPT !.gen = g, !.revision = @ + 1]
           move == PutEnvironment(e, moved)
           done == PutOperation(o, "restore", e, "succeeded")
           answer == PutLedger(o, "restore", "ok")
           close == PutJournal(o, NoJournal)
           effect == << open, begin, move, done, answer, close >>
<1>1. todo' = Dispatched(o, "restore", effect) /\ "restore" \in Kinds
  BY DEF RestoreGeneration, Run, Kinds
<1>2. effect \in Script
  <2>1. [kind |-> "restore", env |-> e, gen |-> g, plan |-> None, phase |-> "committed"]
          \in JournalRecord
    BY DEF JournalRecord
  <2>2. open \in WriteRecord /\ close \in WriteRecord
    BY <2>1, JournalRecords, JournalWrites
  <2>3. begin \in WriteRecord /\ done \in WriteRecord /\ answer \in WriteRecord
    BY <1>1, OperationWrites, LedgerWrites DEF Terminal
  <2>4. move \in WriteRecord
    BY MovedWrites, Zenon
  <2> HIDE DEF open, begin, move, done, answer, close
  <2> QED BY <2>2, <2>3, <2>4, Sextuples
<1>3. ToSet(effect) = Restoring(o, e, g)
  BY SixWrites DEF Restoring
<1> HIDE DEF effect
<1> QED BY <1>1, <1>2, <1>3, EffectWaits

LEMMA RestoreActiveWaits ==
  ASSUME TypeOK, NEW o \in Op, NEW e \in Env, RestoreActive(o, e)
  PROVE  Waiting' = Answering(o, "restore") \cup {PutOperation(o, "restore", e, "active"),
                                                  PutOperation(o, "restore", e, "succeeded")}
<1> DEFINE begin == PutOperation(o, "restore", e, "active")
           done == PutOperation(o, "restore", e, "succeeded")
           answer == PutLedger(o, "restore", "ok")
           effect == << begin, done, answer >>
<1>1. todo' = Dispatched(o, "restore", effect) /\ "restore" \in Kinds
  BY DEF RestoreActive, Run, Kinds
<1>2. effect \in Script
  BY <1>1, OperationWrites, LedgerWrites, Triples DEF Terminal
<1>3. ToSet(effect) = {begin, done, answer} /\ answer \in Answering(o, "restore")
  BY FewWrites DEF Answering
<1> HIDE DEF effect, begin, done, answer
<1>4. Waiting' = Answering(o, "restore") \cup {begin, done, answer}
  BY <1>1, <1>2, <1>3, EffectWaits
<1>5. Waiting' = Answering(o, "restore") \cup {begin, done}
  BY <1>3, <1>4
<1> QED BY <1>5 DEF begin, done

\* A start or a stop whose block goes on with more, and with rest once the
\* request is answered.
LEMMA BeginningWaits ==
  ASSUME TypeOK, NEW o \in Op, NEW e \in Env, NEW k \in {"start", "stop"},
         NEW more \in Script, NEW rest \in Script,
         todo' = Dispatched(o, k,
                   << PutOperation(o, k, e, "active"), PutState(e, During(k)) >> \o more) \o rest
  PROVE  Waiting' = Answering(o, k) \cup Departing(o, k, e) \cup ToSet(more) \cup ToSet(rest)
<1> DEFINE begin == << PutOperation(o, k, e, "active"), PutState(e, During(k)) >>
<1>1. k \in Kinds /\ During(k) \in EnvironmentStates
  BY DEF Kinds, During, EnvironmentStates
<1>2. begin \in Script
  BY <1>1, OperationWrites, StateWrites, Pairs
<1>3. ToSet(begin) = Departing(o, k, e)
  BY FewWrites DEF Departing
<1> HIDE DEF begin
<1>4. begin \o more \in Script /\ ToSet(begin \o more) = Departing(o, k, e) \cup ToSet(more)
  BY <1>2, <1>3, Joined, JoinedWrites
<1>5. todo' = Dispatched(o, k, begin \o more) \o rest
  BY DEF begin
<1>6. Waiting' = Answering(o, k) \cup ToSet(begin \o more) \cup ToSet(rest)
  BY <1>1, <1>4, <1>5, RequestWaiting, Zenon DEF Answering
<1> QED BY <1>4, <1>6

LEMMA StartWaits ==
  ASSUME TypeOK, NEW o \in Op, NEW e \in Env, Start(o, e)
  PROVE  \/ /\ Waiting' = Answering(o, "start") \cup Departing(o, "start", e)
                            \cup Refusing(o, "start", e)
            /\ UNCHANGED requested
         \/ /\ Waiting' = Answering(o, "start") \cup Departing(o, "start", e)
                 \cup {Register(o)}
                 \cup IF launches[e].by = None THEN {Spawning(e, environments[e].gen)} ELSE {}
            /\ ~Busy(e) /\ ~Owned(e)
            /\ requested' = [requested EXCEPT ![o] = environments[e].gen]
<1> DEFINE begin == << PutOperation(o, "start", e, "active"), PutState(e, "starting") >>
           g == environments[e].gen
           intent == IF launches[e].by = None THEN << Spawning(e, g) >> ELSE <<>>
           register == << Register(o) >>
           intended == IF launches[e].by = None THEN {Spawning(e, g)} ELSE {}
<1>1. \/ todo' = Dispatched(o, "start", begin) \o Refused(o, "start", e) /\ UNCHANGED requested
      \/ /\ todo' = Dispatched(o, "start", begin \o register \o intent)
         /\ ~Busy(e) /\ ~Owned(e)
         /\ requested' = [requested EXCEPT ![o] = g]
  BY DEF Start, Run
<1>2. begin \in Script /\ "start" \in {"start", "stop"} /\ During("start") = "starting"
  BY OperationWrites, StateWrites, Pairs DEF Kinds, EnvironmentStates, During
<1>3. g \in Op \cup {None}
  BY DEF TypeOK, EnvironmentRecord
<1>4. intent \in Script /\ register \in Script /\ Refused(o, "start", e) \in Script
  BY <1>2, <1>3, FollowUps, Zenon DEF FollowUp
<1>5. ToSet(intent) = intended /\ ToSet(register) = {Register(o)} /\ ToSet(<<>>) = {}
      /\ ToSet(Refused(o, "start", e)) = Refusing(o, "start", e) /\ <<>> \in Script
  BY FewWrites, Singletons DEF Refused, Refusing
<1> HIDE DEF intent, register, g, intended
<1>0. "start" \in Kinds
  BY DEF Kinds
<1>6. register \o intent \in Script /\ ToSet(register \o intent) = {Register(o)} \cup intended
  BY <1>4, <1>5, Joined, JoinedWrites, Zenon
<1>7. begin \o <<>> = begin /\ begin \o register \o intent = begin \o (register \o intent)
  BY <1>2, <1>4, Regrouped
<1>8. ASSUME todo' = Dispatched(o, "start", begin) \o Refused(o, "start", e)
      PROVE  Waiting' = Answering(o, "start") \cup Departing(o, "start", e)
                          \cup Refusing(o, "start", e)
  <2>1. todo' = Dispatched(o, "start", begin \o <<>>) \o Refused(o, "start", e)
    BY <1>7, <1>8
  <2>2. Waiting' = Answering(o, "start") \cup Departing(o, "start", e) \cup ToSet(<<>>)
                     \cup ToSet(Refused(o, "start", e))
    BY <1>2, <1>4, <1>5, <2>1, BeginningWaits, Zenon
  <2> QED BY <1>5, <2>2
<1>9. ASSUME todo' = Dispatched(o, "start", begin \o register \o intent)
      PROVE  Waiting' = Answering(o, "start") \cup Departing(o, "start", e)
                          \cup {Register(o)} \cup intended
  <2> DEFINE more == register \o intent
  <2>0. more \in Script
    BY <1>6
  <2>1. begin \o more \in Script /\ todo' = Dispatched(o, "start", begin \o more)
    BY <1>2, <1>6, <1>7, <1>9, Joined
  <2> HIDE DEF more
  <2>2. todo' = Dispatched(o, "start", begin \o more) \o <<>>
    BY <1>0, <2>1, WithoutRest
  <2>3. Waiting' = Answering(o, "start") \cup Departing(o, "start", e)
                     \cup ToSet(more) \cup ToSet(<<>>)
    BY <1>2, <1>5, <2>0, <2>2, BeginningWaits, Zenon
  <2>4. ToSet(more) = {Register(o)} \cup intended
    BY <1>6 DEF more
  <2> QED BY <1>5, <2>3, <2>4
<1> QED BY <1>1, <1>8, <1>9 DEF g, intended

LEMMA StopWaits ==
  ASSUME TypeOK, NEW o \in Op, NEW e \in Env, Stop(o, e)
  PROVE  \/ Waiting' = Answering(o, "stop") \cup Departing(o, "stop", e)
                         \cup Refusing(o, "stop", e)
         \/ /\ Waiting' = Answering(o, "stop") \cup Departing(o, "stop", e)
                           \cup {Marked(e, "unverifiable")} \cup Refusing(o, "stop", e)
            /\ ~Busy(e) /\ Unidentified(e) /\ Candidate(e)
         \/ /\ Waiting' = Answering(o, "stop") \cup Departing(o, "stop", e)
                           \cup {Marked(e, "ended")}
                           \cup {PutOperation(o, "stop", e, "succeeded"), PutState(e, "stopped")}
            /\ ~Busy(e) /\ Unidentified(e) /\ ~Candidate(e)
         \/ /\ Waiting' = Answering(o, "stop") \cup Departing(o, "stop", e)
                           \cup {Register(o), Marked(e, "stopping")}
            /\ ~Busy(e) /\ Owned(e)
         \/ /\ Waiting' = Answering(o, "stop") \cup Departing(o, "stop", e) \cup {Register(o)}
            /\ ~Busy(e) /\ launches[e].by # None /\ ~Owned(e)
<1> DEFINE begin == << PutOperation(o, "stop", e, "active"), PutState(e, "stopping") >>
           done == << PutOperation(o, "stop", e, "succeeded"), PutState(e, "stopped") >>
           register == << Register(o) >>
           carry == << Register(o), Marked(e, "stopping") >>
           lose == << Marked(e, "unverifiable") >>
           end == << Marked(e, "ended") >>
           refuse == Refused(o, "stop", e)
<1>1. \/ todo' = Dispatched(o, "stop", begin) \o refuse
      \/ /\ todo' = Dispatched(o, "stop", begin \o lose) \o refuse
         /\ ~Busy(e) /\ Unidentified(e) /\ Candidate(e)
      \/ /\ todo' = Dispatched(o, "stop", begin \o end) \o done
         /\ ~Busy(e) /\ Unidentified(e) /\ ~Candidate(e)
      \/ todo' = Dispatched(o, "stop", begin \o carry) /\ ~Busy(e) /\ Owned(e)
      \/ /\ todo' = Dispatched(o, "stop", begin \o register)
         /\ ~Busy(e) /\ launches[e].by # None /\ ~Owned(e)
  BY DEF Stop, Run
<1>2. /\ begin \in Script /\ "stop" \in {"start", "stop"} /\ "stop" \in Kinds
      /\ During("stop") = "stopping"
  BY OperationWrites, StateWrites, Pairs DEF Kinds, EnvironmentStates, During
<1>3. carry = register \o << Marked(e, "stopping") >>
  BY OtherWrites, LaunchMarks, PairSplit
<1>4. FollowUp(o, "stop", e, done) /\ FollowUp(o, "stop", e, register)
      /\ FollowUp(o, "stop", e, lose) /\ FollowUp(o, "stop", e, end)
      /\ FollowUp(o, "stop", e, carry) /\ FollowUp(o, "stop", e, refuse)
  BY <1>3, FollowUps
<1>5. /\ done \in Script /\ register \in Script /\ lose \in Script /\ end \in Script
      /\ carry \in Script /\ refuse \in Script /\ <<>> \in Script
  BY <1>4, Singletons DEF FollowUp
<1>6. /\ ToSet(done) = {PutOperation(o, "stop", e, "succeeded"), PutState(e, "stopped")}
      /\ ToSet(register) = {Register(o)} /\ ToSet(lose) = {Marked(e, "unverifiable")}
      /\ ToSet(end) = {Marked(e, "ended")} /\ ToSet(carry) = {Register(o), Marked(e, "stopping")}
      /\ ToSet(refuse) = Refusing(o, "stop", e) /\ ToSet(<<>>) = {}
  BY FewWrites DEF Refused, Refusing
<1>7. begin \o <<>> = begin
  BY <1>2, Regrouped
<1>8. ASSUME NEW more \in Script, NEW rest \in Script,
             \/ todo' = Dispatched(o, "stop", begin \o more) \o rest
             \/ todo' = Dispatched(o, "stop", begin \o more) /\ rest = <<>>
      PROVE  Waiting' = Answering(o, "stop") \cup Departing(o, "stop", e)
                          \cup ToSet(more) \cup ToSet(rest)
  <2>1. begin \o more \in Script
    BY <1>2, Joined
  <2>2. todo' = Dispatched(o, "stop", begin \o more) \o rest
    BY <1>2, <1>8, <2>1, WithoutRest
  <2> QED BY <1>2, <2>2, BeginningWaits, Zenon
<1> HIDE DEF begin, done, register, carry, lose, end, refuse
<1>9. CASE todo' = Dispatched(o, "stop", begin) \o refuse
  <2>1. Waiting' = Answering(o, "stop") \cup Departing(o, "stop", e) \cup ToSet(<<>>)
                     \cup ToSet(refuse)
    BY <1>5, <1>7, <1>8, <1>9
  <2> QED BY <1>6, <2>1
<1>10. CASE /\ todo' = Dispatched(o, "stop", begin \o lose) \o refuse
            /\ ~Busy(e) /\ Unidentified(e) /\ Candidate(e)
  <2>1. Waiting' = Answering(o, "stop") \cup Departing(o, "stop", e) \cup ToSet(lose)
                     \cup ToSet(refuse)
    BY <1>5, <1>8, <1>10
  <2> QED BY <1>6, <1>10, <2>1
<1>11. CASE /\ todo' = Dispatched(o, "stop", begin \o end) \o done
            /\ ~Busy(e) /\ Unidentified(e) /\ ~Candidate(e)
  <2>1. Waiting' = Answering(o, "stop") \cup Departing(o, "stop", e) \cup ToSet(end)
                     \cup ToSet(done)
    BY <1>5, <1>8, <1>11
  <2> QED BY <1>6, <1>11, <2>1
<1>12. CASE todo' = Dispatched(o, "stop", begin \o carry) /\ ~Busy(e) /\ Owned(e)
  <2>1. Waiting' = Answering(o, "stop") \cup Departing(o, "stop", e) \cup ToSet(carry)
                     \cup ToSet(<<>>)
    BY <1>5, <1>8, <1>12
  <2> QED BY <1>6, <1>12, <2>1
<1>13. CASE /\ todo' = Dispatched(o, "stop", begin \o register)
            /\ ~Busy(e) /\ launches[e].by # None /\ ~Owned(e)
  <2>1. Waiting' = Answering(o, "stop") \cup Departing(o, "stop", e) \cup ToSet(register)
                     \cup ToSet(<<>>)
    BY <1>5, <1>8, <1>13
  <2> QED BY <1>6, <1>13, <2>1
<1> QED BY <1>1, <1>9, <1>10, <1>11, <1>12, <1>13

(***************************************************************************)
(* A request begins an operation, and a task of it or its end.             *)
(***************************************************************************)
LEMMA AnswerFields ==
  ASSUME NEW o, NEW k, NEW w \in Answering(o, k)
  PROVE  w.store = "ledger" /\ w.key = o /\ w.val.method = k
  BY DEF Answering, PutLedger, Write

LEMMA BuildingFields ==
  ASSUME NEW o, NEW k, NEW e, NEW p, NEW w \in Building(o, k, e, p)
  PROVE  \/ /\ w = PutOperation(o, k, e, "active") /\ w.store = "operations" /\ w.key = o
            /\ w.val.kind = k /\ w.val.env = e /\ w.val.status = "active"
         \/ /\ w.store = "journals" /\ w.key = o /\ w.val.kind = k /\ w.val.env = e
            /\ w.val.gen = o /\ w.val.plan = p /\ w.val.phase = "open"
         \/ w = Register(o) /\ w.store = "controllers" /\ w.key = o
         \/ w.store = "generations" /\ w.key = o /\ w.val = "staged"
  BY DEF Building, PutOperation, PutJournal, Register, PutGeneration, Write

LEMMA OperationFields ==
  ASSUME NEW o, NEW k, NEW e, NEW s
  PROVE  LET w == PutOperation(o, k, e, s)
         IN  /\ w.store = "operations" /\ w.key = o /\ w.val.kind = k /\ w.val.env = e
             /\ w.val.status = s
  BY DEF PutOperation, Write

LEMMA StateFields ==
  ASSUME TypeOK, NEW e \in Env, NEW s
  PROVE  LET w == PutState(e, s)
         IN  /\ w.store = "environments" /\ w.key = e /\ w.val.state = s
             /\ w.val.gen = environments[e].gen /\ w.val.revision = environments[e].revision
<1>1. environments[e] \in EnvironmentRecord
  BY DEF TypeOK
<1> QED BY <1>1 DEF PutState, PutEnvironment, Write, EnvironmentRecord

LEMMA RequestAttends ==
  ASSUME TypeOK, StoresInv, AttendedInv, NEW o \in Op, NEW k, NEW e \in Env,
         Idle, UNCHANGED Stores, UNCHANGED << mode, controllers, aborted >>,
         ledger[o].state = "none",
         NEW E, Waiting' = Answering(o, k) \cup E, PutOperation(o, k, e, "active") \in E,
         Register(o) \in E \/ \E s \in Terminal : PutOperation(o, k, e, s) \in E,
         \A w \in E :
           /\ w.store = "operations" => w.key = o /\ w.val.status # "absent"
           /\ w.store = "environments" /\ w.val.state = "creating" => Creates(w.key)'
           /\ w.store = "journals" => w.key = o /\ (w.val.kind = "restore" => k = "restore")
           /\ w.store = "ledger" => w.key = o /\ w.val.method = k
  PROVE  AttendedInv'
<1>1. Waiting = {} /\ todo = <<>> /\ mode = "ready" /\ Serving
  BY NothingWaits DEF Idle, Serving
<1>2. \A w \in Waiting' :
        /\ w.store = "operations" => w.key = o /\ w.val.status # "absent"
        /\ w.store = "environments" /\ w.val.state = "creating" => Creates(w.key)'
        /\ w.store = "journals" => w.key = o /\ (w.val.kind = "restore" => k = "restore")
        /\ w.store = "ledger" => w.key = o /\ w.val.method = k
  BY AnswerFields
<1>3. Becomes(o, "active")'
  BY OperationFields DEF Becomes
<1>4. Live(o)' \/ Ends(o)'
  <2>1. Register(o).store = "controllers" /\ Register(o).key = o
    BY DEF Register, Write
  <2>2. Register(o) \in E => Live(o)'
    BY <2>1 DEF Live
  <2>3. ASSUME NEW s \in Terminal, PutOperation(o, k, e, s) \in E PROVE Ends(o)'
    BY <2>3, OperationFields DEF Ends, Becomes
  <2> QED BY <2>2, <2>3
<1>5. o \notin aborted /\ journals[o].kind # "restore" /\ aborted \subseteq Op
  BY DEF StoresInv, Fresh, Blank, Kinds, AttendedInv, AbortedEnds, TypeOK
<1>6. \A q \in Op : ~Becomes(q, "absent")' /\ (Becomes(q, "active")' => q = o)
  BY <1>2 DEF Becomes
<1>7. \A q \in Op : controllers[q] => Live(q)'
  BY DEF Live
<1>8. \A q \in aborted' : q \in aborted /\ controllers'[q]
  BY DEF AttendedInv, AbortedEnds
<1>9. \A d \in Env : Keeps(o, "restore", d)' => k = "restore"
  BY <1>2, <1>5 DEF Keeps, Stores
<1>10. \A q \in Op, w \in Waiting' :
         /\ Answers(w) /\ w.key = q => q = o
         /\ w.store = "journals" /\ w.key = q => q = o
         /\ w.store = "ledger" /\ w.key = q => q = o /\ w.val.method = k
  BY <1>2 DEF Answers
<1>11. \A q \in Op :
         /\ ~Becomes(q, "absent")'
         /\ Becomes(q, "active")' => (Live(q)' \/ Ends(q)') /\ q \notin aborted'
         /\ ~(controllers[q] /\ ~Live(q)')
         /\ q \in aborted' => controllers'[q] /\ q \in aborted
  BY <1>4, <1>5, <1>6, <1>7, <1>8
<1>12. \A q \in Op, w \in Waiting' :
         /\ Answers(w) /\ w.key = q => Becomes(q, "active")'
         /\ w.store = "journals" /\ w.key = q /\ w.val.kind \in Built => Becomes(q, "active")'
         /\ w.store = "journals" /\ w.key = q /\ w.val.kind = "restore" =>
              ledger[q].state = "none"
         /\ w.store = "ledger" /\ w.key = q =>
              ledger[q].state = "none"
              /\ \A d \in Env : Keeps(q, "restore", d)' => w.val.method = "restore"
  BY <1>3, <1>9, <1>10
<1>13. aborted' \subseteq Op /\ mode' = mode
  BY <1>5
<1>14. Attends
  BY <1>1, <1>2, <1>11, <1>12, <1>13 DEF Attends
<1> QED BY <1>14, AttendedStep

LEMMA AttendedBuild ==
  ASSUME TypeOK, StoresInv, AttendedInv, NEW o \in Op, NEW e \in Env, NEW k \in Built,
         Idle, UNCHANGED Stores, UNCHANGED << mode, controllers, aborted >>,
         ledger[o].state = "none",
         NEW p, NEW E, Waiting' = Answering(o, k) \cup Building(o, k, e, p) \cup E,
         \A w \in E : /\ w.store = "environments"
                      /\ w.val.state = "creating" => w.key = e /\ k = "create"
  PROVE  AttendedInv'
<1>1. Register(o) \in Building(o, k, e, p) /\ PutOperation(o, k, e, "active") \in Building(o, k, e, p)
  BY DEF Building
<1>2. Live(o)' /\ Belongs(o, k, e)'
  <2>1. Register(o) \in Waiting' /\ PutOperation(o, k, e, "active") \in Waiting'
    BY <1>1
  <2>2. Register(o).store = "controllers" /\ Register(o).key = o
    BY DEF Register, Write
  <2> QED BY <2>1, <2>2, OperationFields DEF Live, Belongs
<1>3. \A w \in E : w.val.state = "creating" => Creates(w.key)'
  BY <1>2 DEF Creates
<1>4. k # "restore"
  BY DEF Built, CoreTransactions
<1> DEFINE F == Building(o, k, e, p) \cup E
<1>5. \A w \in F :
        /\ w.store = "operations" => w.key = o /\ w.val.status # "absent"
        /\ w.store = "environments" /\ w.val.state = "creating" => Creates(w.key)'
        /\ w.store = "journals" => w.key = o /\ (w.val.kind = "restore" => k = "restore")
        /\ w.store = "ledger" => w.key = o /\ w.val.method = k
  BY <1>3, <1>4, BuildingFields
<1>6. /\ Waiting' = Answering(o, k) \cup F /\ PutOperation(o, k, e, "active") \in F
      /\ Register(o) \in F
  BY <1>1
<1> HIDE DEF AttendedInv, F
<1> QED BY <1>5, <1>6, RequestAttends

LEMMA AttendedBuildRequests ==
  ASSUME TypeOK, StoresInv, AttendedInv, NEW o \in Op, NEW e \in Env,
         \/ CreateEnvironment(o, e) \/ SwitchCombination(o, e)
         \/ \E p \in Plan : ApplyChange(o, e, p)
  PROVE  AttendedInv'
<1>1. /\ Idle /\ UNCHANGED Stores /\ UNCHANGED << mode, controllers, aborted >>
      /\ ledger[o].state = "none"
  BY DEF CreateEnvironment, SwitchCombination, ApplyChange, MaySwitch, NewRequest,
         durable, Stores, volatile
<1>2. "create" \in Built /\ "switch" \in Built /\ "apply" \in Built
  BY DEF Built, CoreTransactions
<1>3. CASE CreateEnvironment(o, e)
  <2> DEFINE put == PutEnvironment(e, [NoEnvironment EXCEPT !.state = "creating"])
  <2>1. put.store = "environments" /\ put.key = e
    BY DEF PutEnvironment, Write
  <2> DEFINE E == {put}
  <2>2. Waiting' = Answering(o, "create") \cup Building(o, "create", e, None) \cup E
    BY <1>3, CreateWaits
  <2>3. \A w \in E : w.store = "environments" /\ w.key = e
    BY <2>1
  <2> HIDE DEF E, AttendedInv
  <2> QED BY <1>1, <1>2, <2>2, <2>3, AttendedBuild
<1>4. CASE SwitchCombination(o, e)
  <2> DEFINE E == {}
  <2>1. Waiting' = Answering(o, "switch") \cup Building(o, "switch", e, None) \cup E
    BY <1>4, SwitchWaits
  <2>2. \A w \in E : FALSE
    OBVIOUS
  <2> HIDE DEF E, AttendedInv
  <2> QED BY <1>1, <1>2, <2>1, <2>2, AttendedBuild
<1>5. ASSUME NEW p \in Plan, ApplyChange(o, e, p) PROVE AttendedInv'
  <2> DEFINE E == {}
  <2>1. Waiting' = Answering(o, "apply") \cup Building(o, "apply", e, p) \cup E
    BY <1>5, ApplyWaits
  <2>2. \A w \in E : FALSE
    OBVIOUS
  <2> HIDE DEF E, AttendedInv
  <2> QED BY <1>1, <1>2, <2>1, <2>2, AttendedBuild
<1> QED BY <1>3, <1>4, <1>5

LEMMA AttendedRestore ==
  ASSUME TypeOK, StoresInv, AttendedInv, NEW o \in Op, NEW e \in Env, NEW g \in Op,
         RestoreGeneration(o, e, g)
  PROVE  AttendedInv'
<1>1. /\ Idle /\ UNCHANGED Stores /\ UNCHANGED << mode, controllers, aborted >>
      /\ ledger[o].state = "none"
  BY DEF RestoreGeneration, NewRequest, durable, Stores, volatile
<1>2. Waiting' = Answering(o, "restore") \cup Restoring(o, e, g)
  BY RestoreWaits
<1> DEFINE moved == [environments[e] EXCEPT !.gen = g, !.revision = @ + 1]
<1>3. moved.state = environments[e].state
  <2>1. environments[e] \in EnvironmentRecord
    BY DEF TypeOK
  <2> QED BY <2>1 DEF EnvironmentRecord
<1>4. environments[e].state = "creating" => Creates(e)'
  <2>1. environments[e].state = "creating" => Creates(e)
    BY <1>1, NothingWaits DEF Idle, AttendedInv, CreationAttended, Leaves
  <2>2. Creates(e) => Creates(e)'
    BY <1>1, NothingWaits DEF Idle, Creates, Live, Belongs, Stores
  <2> QED BY <2>1, <2>2
<1> DEFINE w1 == PutJournal(o, [kind |-> "restore", env |-> e, gen |-> g, plan |-> None,
                                phase |-> "committed"])
           w2 == PutOperation(o, "restore", e, "active")
           w3 == PutEnvironment(e, moved)
           w4 == PutOperation(o, "restore", e, "succeeded")
           w5 == PutLedger(o, "restore", "ok")
           w6 == PutJournal(o, NoJournal)
<1>5. /\ w1.store = "journals" /\ w1.key = o
      /\ w3.store = "environments" /\ w3.key = e /\ w3.val = moved
      /\ w5.store = "ledger" /\ w5.key = o /\ w5.val.method = "restore"
      /\ w6.store = "journals" /\ w6.key = o
  BY DEF PutJournal, PutEnvironment, PutLedger, Write
<1>6. /\ w2.store = "operations" /\ w2.key = o /\ w2.val.status = "active"
      /\ w4.store = "operations" /\ w4.key = o /\ w4.val.status = "succeeded"
  BY OperationFields
<1>7. Restoring(o, e, g) = {w1, w2, w3, w4, w5, w6} /\ "succeeded" \in Terminal
  BY DEF Restoring, Terminal
<1> HIDE DEF w1, w3, w5, w6, moved
<1>8. /\ PutOperation(o, "restore", e, "active") \in Restoring(o, e, g)
      /\ PutOperation(o, "restore", e, "succeeded") \in Restoring(o, e, g)
  BY <1>7
<1> HIDE DEF w2, w4
<1>9. \A w \in Restoring(o, e, g) :
        /\ w.store = "operations" => w.key = o /\ w.val.status # "absent"
        /\ w.store = "environments" /\ w.val.state = "creating" => Creates(w.key)'
        /\ w.store = "journals" => w.key = o
        /\ w.store = "ledger" => w.key = o /\ w.val.method = "restore"
  BY <1>3, <1>4, <1>5, <1>6, <1>7
<1> HIDE DEF AttendedInv
<1> QED BY <1>1, <1>2, <1>7, <1>8, <1>9, RequestAttends

\* A switch to the active combination and a restore of the active generation.
LEMMA AttendedNothingToDo ==
  ASSUME TypeOK, StoresInv, AttendedInv, NEW o \in Op, NEW e \in Env,
         NoopSwitch(o, e) \/ RestoreActive(o, e)
  PROVE  AttendedInv'
<1>1. /\ Idle /\ UNCHANGED Stores /\ UNCHANGED << mode, controllers, aborted >>
      /\ ledger[o].state = "none"
  BY DEF NoopSwitch, MaySwitch, RestoreActive, NewRequest, durable, Stores, volatile
<1>2. PICK k : Waiting' = Answering(o, k) \cup {PutOperation(o, k, e, "active"),
                                                PutOperation(o, k, e, "succeeded")}
  BY NoopWaits, RestoreActiveWaits
<1> DEFINE E == {PutOperation(o, k, e, "active"), PutOperation(o, k, e, "succeeded")}
<1>3. /\ Waiting' = Answering(o, k) \cup E /\ PutOperation(o, k, e, "active") \in E
      /\ PutOperation(o, k, e, "succeeded") \in E /\ "succeeded" \in Terminal
  BY <1>2 DEF Terminal
<1>4. \A w \in E : w.store = "operations" /\ w.key = o /\ w.val.status # "absent"
  BY OperationFields
<1> HIDE DEF AttendedInv, E
<1> QED BY <1>1, <1>3, <1>4, RequestAttends

LEMMA AttendedProcessRequests ==
  ASSUME TypeOK, StoresInv, AttendedInv, NEW o \in Op, NEW e \in Env,
         Start(o, e) \/ Stop(o, e)
  PROVE  AttendedInv'
<1>1. /\ Idle /\ UNCHANGED Stores /\ UNCHANGED << mode, controllers, aborted >>
      /\ ledger[o].state = "none"
  BY DEF Start, Stop, NewRequest, durable, Stores, volatile
<1> DEFINE Good(k, w) ==
             /\ w.store = "operations" => w.key = o /\ w.val.status # "absent"
             /\ w.store = "environments" => w.val.state # "creating"
             /\ w.store # "journals" /\ w.store # "ledger"
<1>2. \A k : /\ \A s : s # "absent" => Good(k, PutOperation(o, k, e, s))
             /\ \A s : s # "creating" => Good(k, PutState(e, s))
             /\ \A s : Good(k, Marked(e, s))
             /\ \A g : Good(k, Spawning(e, g))
             /\ Good(k, Register(o))
  <2>1. \A k, s : s # "absent" => Good(k, PutOperation(o, k, e, s))
    BY OperationFields
  <2>2. \A k, s : s # "creating" => Good(k, PutState(e, s))
    BY StateFields
  <2>3. \A k : /\ \A s : Good(k, Marked(e, s))
               /\ \A g : Good(k, Spawning(e, g))
               /\ Good(k, Register(o))
    BY DEF Marked, Spawning, PutLaunch, Register, Write
  <2> QED BY <2>1, <2>2, <2>3
<1> HIDE DEF Good
<1>3. \A k \in {"start", "stop"} :
        /\ \A w \in Departing(o, k, e) : Good(k, w)
        /\ \A w \in Refusing(o, k, e) : Good(k, w)
        /\ PutOperation(o, k, e, "active") \in Departing(o, k, e)
        /\ PutOperation(o, k, e, "failed") \in Refusing(o, k, e)
  BY <1>2 DEF Departing, Refusing, During, Reverted
<1>4. PICK k, more :
        /\ k \in {"start", "stop"}
        /\ Waiting' = Answering(o, k) \cup Departing(o, k, e) \cup more
        /\ \A w \in more : Good(k, w)
        /\ Register(o) \in more \/ \E s \in Terminal : PutOperation(o, k, e, s) \in more
  <2>1. CASE Start(o, e)
    <3>1. CASE Waiting' = Answering(o, "start") \cup Departing(o, "start", e)
                            \cup Refusing(o, "start", e)
      BY <1>3, <3>1 DEF Terminal
    <3>2. CASE Waiting' = Answering(o, "start") \cup Departing(o, "start", e)
                 \cup {Register(o)}
                 \cup IF launches[e].by = None THEN {Spawning(e, environments[e].gen)} ELSE {}
      <4> DEFINE more == {Register(o)}
                 \cup IF launches[e].by = None THEN {Spawning(e, environments[e].gen)} ELSE {}
      <4>1. \A w \in more : Good("start", w)
        BY <1>2
      <4>2. /\ Waiting' = Answering(o, "start") \cup Departing(o, "start", e) \cup more
            /\ Register(o) \in more
        BY <3>2
      <4> HIDE DEF more
      <4> QED BY <4>1, <4>2
    <3> QED BY <2>1, <3>1, <3>2, StartWaits
  <2>2. CASE Stop(o, e)
    <3> DEFINE done == {PutOperation(o, "stop", e, "succeeded"), PutState(e, "stopped")}
    <3>1. PICK more :
            /\ Waiting' = Answering(o, "stop") \cup Departing(o, "stop", e) \cup more
            /\ \/ more = Refusing(o, "stop", e)
               \/ more = {Marked(e, "unverifiable")} \cup Refusing(o, "stop", e)
               \/ more = {Marked(e, "ended")} \cup done
               \/ more = {Register(o), Marked(e, "stopping")}
               \/ more = {Register(o)}
      <4> DEFINE base == Answering(o, "stop") \cup Departing(o, "stop", e)
                 m2 == {Marked(e, "unverifiable")} \cup Refusing(o, "stop", e)
                 m3 == {Marked(e, "ended")} \cup done
                 m4 == {Register(o), Marked(e, "stopping")}
      <4>1. \/ Waiting' = base \cup Refusing(o, "stop", e)
            \/ Waiting' = base \cup m2 \/ Waiting' = base \cup m3
            \/ Waiting' = base \cup m4 \/ Waiting' = base \cup {Register(o)}
        BY <2>2, StopWaits
      <4> QED BY <4>1
    <3>2. \A w \in done : Good("stop", w)
      BY <1>2
    <3>3. \A w \in more : Good("stop", w)
      BY <1>2, <1>3, <3>1, <3>2
    <3>4. Register(o) \in more \/ \E s \in Terminal : PutOperation(o, "stop", e, s) \in more
      BY <1>3, <3>1 DEF Terminal
    <3> QED BY <3>1, <3>3, <3>4
  <2> QED BY <2>1, <2>2
<1> DEFINE E == Departing(o, k, e) \cup more
<1>5. /\ Waiting' = Answering(o, k) \cup E /\ PutOperation(o, k, e, "active") \in E
      /\ Register(o) \in E \/ \E s \in Terminal : PutOperation(o, k, e, s) \in E
      /\ \A w \in E : Good(k, w)
  BY <1>3, <1>4
<1>6. \A w \in E :
        /\ w.store = "operations" => w.key = o /\ w.val.status # "absent"
        /\ w.store = "environments" => w.val.state # "creating"
        /\ w.store # "journals" /\ w.store # "ledger"
  BY <1>5 DEF Good
<1> HIDE DEF AttendedInv, E
<1> QED BY <1>1, <1>5, <1>6, RequestAttends

(***************************************************************************)
(* The whole instance.                                                     *)
(***************************************************************************)

\* What the end of a recovery finds.
LEMMA RecoveryIsComplete ==
  ASSUME TypeOK, StoresInv, AttendedInv, CoreRecovered
  PROVE  /\ Waiting = {} /\ mode = "recoverCore" /\ mode' = "ready"
         /\ \A o \in Op : /\ ~OpenJournal(o) /\ generations[o] # "staged"
                          /\ operations[o].status # "active"
                          /\ ledger[o].method \in ChangeTransactions
                               => ledger[o].state # "in-progress"
         /\ \A e \in Env : environments[e].state # "creating"
<1>1. /\ Waiting = {} /\ mode = "recoverCore" /\ mode' = "ready" /\ ~Serving
      /\ CoreJournals = {} /\ OrphanTransactions = {} /\ OrphanCreations = {}
  BY NothingWaits DEF CoreRecovered, Recovering, Serving
<1>2. \A o \in Op : ~OpenJournal(o)
  <2> SUFFICES ASSUME NEW o \in Op, OpenJournal(o) PROVE FALSE
    OBVIOUS
  <2>1. journals[o].kind \in CoreTransactions \/ journals[o].kind \in ChangeTransactions
    BY DEF OpenJournal, TypeOK, JournalRecord, NoJournal, ChangeTransactions
  <2>2. journals[o].kind \notin CoreTransactions
    BY <1>1 DEF CoreJournals
  <2>3. journals[o].kind \notin ChangeTransactions
    BY <1>1 DEF StoresInv, NoChangeJournal
  <2> QED BY <2>1, <2>2, <2>3
<1>3. \A o \in Op : generations[o] # "staged"
  BY <1>2 DEF StoresInv, StagedHasJournal, OpenJournal, Built, CoreTransactions
<1>4. \A o \in Op : operations[o].status # "active"
  <2> SUFFICES ASSUME NEW o \in Op, operations[o].status = "active" PROVE FALSE
    OBVIOUS
  <2>1. operations[o].kind \in Kinds
    BY DEF TypeOK, OperationRecord, NoOperation
  <2>2. \/ Pending(o, CoreTransactions) \/ Pending(o, ChangeTransactions)
        \/ Pending(o, {"start", "stop"})
    BY <2>1 DEF Pending, Kinds, CoreTransactions, ChangeTransactions
  <2>3. ~Pending(o, CoreTransactions)
    BY <1>1, <1>2 DEF OrphanTransactions
  <2>4. ~Pending(o, ChangeTransactions)
    BY <1>1 DEF AttendedInv, ChangesEnded
  <2>5. ~Pending(o, {"start", "stop"})
    BY <1>1 DEF AttendedInv, ProcessesEnded, Ends, Becomes
  <2> QED BY <2>2, <2>3, <2>4, <2>5
<1>5. \A o \in Op : ledger[o].method \in ChangeTransactions => ledger[o].state # "in-progress"
  BY <1>1 DEF AttendedInv, LedgerSwept
<1>6. \A e \in Env : environments[e].state # "creating"
  BY <1>1, <1>4 DEF OrphanCreations
<1> QED BY <1>1, <1>2, <1>3, <1>4, <1>5, <1>6

\* The steps that write nothing leave every record and every waiting write.
LEMMA AttendedStill ==
  ASSUME AttendedInv, UNCHANGED Stores, UNCHANGED << todo, controllers >>
  PROVE  /\ StaysKnown' /\ AnsweredKnown' /\ BuiltKnown' /\ RestoreNamed'
         /\ UNCHANGED << environments, operations, ledger >> /\ Waiting' = Waiting
         /\ \A o \in Op : (Live(o)' <=> Live(o)) /\ (Ends(o)' <=> Ends(o))
                          /\ (Unfinished(o)' <=> Unfinished(o))
                          /\ \A s : Becomes(o, s)' <=> Becomes(o, s)
         /\ \A e \in Env : (Creates(e)' <=> Creates(e)) /\ (Leaves(e)' <=> Leaves(e))
<1>1. /\ UNCHANGED << environments, operations, journals, ledger, controllers >>
      /\ Waiting' = Waiting
  BY DEF Stores, Waiting
<1>2. /\ \A o \in Op : (Live(o)' <=> Live(o)) /\ (Ends(o)' <=> Ends(o))
                       /\ (Unfinished(o)' <=> Unfinished(o))
                       /\ \A s : Becomes(o, s)' <=> Becomes(o, s)
      /\ \A e \in Env : (Creates(e)' <=> Creates(e)) /\ (Leaves(e)' <=> Leaves(e))
  BY <1>1 DEF Live, Ends, Unfinished, Becomes, Creates, Belongs, Leaves
<1>3. StaysKnown' /\ AnsweredKnown' /\ BuiltKnown' /\ RestoreNamed'
  BY <1>1, <1>2 DEF AttendedInv, StaysKnown, AnsweredKnown, BuiltKnown, RestoreNamed, Known,
                    Keeps, Answers
<1> QED BY <1>1, <1>2, <1>3

LEMMA AttendedModeStep ==
  ASSUME TypeOK, StoresInv, AttendedInv,
         Boot \/ BeginClose \/ ChangesRecovered \/ CoreRecovered
         \/ (\E o \in Op : Spawn(o)) \/ (\E p \in Alive : ProcessDies(p))
         \/ UNCHANGED vars
  PROVE  AttendedInv'
<1>0. UNCHANGED Stores /\ UNCHANGED << todo, controllers >>
  BY DEF Stores, Boot, BeginClose, ChangesRecovered, CoreRecovered, Spawn,
         ProcessDies, durable, files, volatile, vars
<1>1. /\ StaysKnown' /\ AnsweredKnown' /\ BuiltKnown' /\ RestoreNamed'
      /\ UNCHANGED << environments, operations, ledger, controllers >> /\ Waiting' = Waiting
      /\ \A o \in Op : (Live(o)' <=> Live(o)) /\ (Ends(o)' <=> Ends(o))
                       /\ (Unfinished(o)' <=> Unfinished(o))
                       /\ \A s : Becomes(o, s)' <=> Becomes(o, s)
      /\ \A e \in Env : (Creates(e)' <=> Creates(e)) /\ (Leaves(e)' <=> Leaves(e))
  BY <1>0, AttendedStill
<1>2. \A K : \A o \in Op : Pending(o, K)' <=> Pending(o, K)
  BY <1>1 DEF Pending
<1>3. CASE UNCHANGED << mode, aborted >>
  <2>1. aborted \subseteq Op
    BY DEF TypeOK
  <2> QED BY <1>1, <1>2, <1>3, <2>1
      DEF AttendedInv, Attended, AbortedEnds, CreationAttended, NothingBegins, ChangesEnded,
          ProcessesEnded, LedgerSwept, Serving
<1>4. CASE Boot
  <2>1. mode = "down" /\ mode' = "recoverChanges" /\ aborted' = aborted /\ aborted \subseteq Op
    BY <1>4 DEF Boot, volatile, TypeOK
  <2> QED BY <1>1, <2>1
      DEF AttendedInv, Attended, AbortedEnds, CreationAttended, NothingBegins, ChangesEnded,
          ProcessesEnded, LedgerSwept, Serving
<1>5. CASE BeginClose
  <2>1. mode = "ready" /\ mode' = "closing" /\ aborted' = aborted \cup CoreTasks
        /\ aborted \subseteq Op /\ \A o \in CoreTasks : o \in Op /\ controllers[o]
    BY <1>5 DEF BeginClose, Idle, CoreTasks, TypeOK
  <2>2. \A o \in aborted' : controllers'[o]
    BY <1>1, <2>1 DEF AttendedInv, AbortedEnds
  <2> QED BY <1>1, <2>1, <2>2
      DEF AttendedInv, Attended, AbortedEnds, CreationAttended, NothingBegins, ChangesEnded,
          ProcessesEnded, LedgerSwept, Serving
<1>6. CASE ChangesRecovered
  <2>1. /\ mode = "recoverChanges" /\ mode' = "recoverProcesses" /\ aborted' = aborted
        /\ Waiting = {} /\ aborted \subseteq Op
        /\ ChangeJournals = {} /\ OrphanChanges = {} /\ OrphanChangeLedgers = {}
    BY <1>6, NothingWaits DEF ChangesRecovered, volatile, TypeOK
  <2>2. ASSUME NEW o \in Op, Pending(o, ChangeTransactions) PROVE FALSE
    <3>1. OpenJournal(o) /\ journals[o].kind \notin ChangeTransactions
      BY <2>1, <2>2 DEF OrphanChanges, ChangeJournals
    <3>2. journals[o].kind \in CoreTransactions
      BY <3>1 DEF OpenJournal, TypeOK, JournalRecord, NoJournal, ChangeTransactions
    <3>3. operations[o].kind \in CoreTransactions
      BY <3>2, JournalOfOperation DEF Built
    <3> QED BY <2>2, <3>3 DEF Pending, CoreTransactions, ChangeTransactions
  <2>3. \A o \in Op : ledger[o].method \in ChangeTransactions
                        => ledger[o].state # "in-progress"
    BY <2>1 DEF OrphanChangeLedgers
  <2> QED BY <1>1, <1>2, <2>1, <2>2, <2>3
      DEF AttendedInv, Attended, AbortedEnds, CreationAttended, NothingBegins, ChangesEnded,
          ProcessesEnded, LedgerSwept, Serving
<1>7. CASE CoreRecovered
  <2>1. /\ mode = "recoverCore" /\ mode' = "ready" /\ Waiting = {}
        /\ \A o \in Op : operations[o].status # "active"
        /\ \A e \in Env : environments[e].state # "creating"
    BY <1>7, RecoveryIsComplete
  <2>2. aborted' = aborted /\ aborted \subseteq Op
    BY <1>7 DEF CoreRecovered, volatile, TypeOK
  <2>3. \A o \in aborted : FALSE
    BY <2>1, <2>2 DEF AttendedInv, AbortedEnds, StoresInv, NobodyLive, Serving, Live
  <2>4. \A o \in Op : ~Unfinished(o)
    BY <2>1 DEF Unfinished, Becomes
  <2> QED BY <1>1, <2>1, <2>2, <2>3, <2>4
      DEF AttendedInv, Attended, AbortedEnds, CreationAttended, NothingBegins, ChangesEnded,
          ProcessesEnded, LedgerSwept, Serving
<1>8. Boot \/ BeginClose \/ ChangesRecovered \/ CoreRecovered \/ UNCHANGED << mode, aborted >>
  BY DEF Spawn, ProcessDies, vars, volatile
<1> QED BY <1>3, <1>4, <1>5, <1>6, <1>7, <1>8

LEMMA AttendedGone ==
  ASSUME TypeOK, AttendedInv, Crash \/ FinishClose PROVE AttendedInv'
<1>1. /\ UNCHANGED << environments, operations, journals, ledger >>
      /\ mode' = "down" /\ todo' = <<>> /\ aborted' = {}
  BY DEF Crash, FinishClose, LoseMemory, Run, durable
<1>2. Waiting' = {}
  BY <1>1, FewWrites DEF Waiting
<1> QED BY <1>1, <1>2
    DEF AttendedInv, StaysKnown, Attended, AbortedEnds, CreationAttended, NothingBegins,
        ChangesEnded, ProcessesEnded, LedgerSwept, AnsweredKnown, BuiltKnown, RestoreNamed,
        Becomes, Keeps, Known, Serving

LEMMA AttendedNext ==
  ASSUME TypeOK, StoresInv, AttendedInv, [Next]_vars, ~WriteFails PROVE AttendedInv'
<1>1. CASE Requests
  BY <1>1, AttendedBuildRequests, AttendedRestore, AttendedNothingToDo, AttendedProcessRequests
     DEF Requests
<1>2. CASE Cancels
  BY <1>2, AttendedCancels DEF Cancels
<1>3. CASE Surroundings
  BY <1>3, AttendedGone, AttendedModeStep, AttendedExitCallback DEF Surroundings
<1>4. CASE Boot \/ FinishClose \/ Persist \/ UNCHANGED vars
  BY <1>4, AttendedModeStep, AttendedGone, AttendedPersist
<1>5. CASE RecoverySteps
  BY <1>5, AttendedRecoverChange, AttendedRecoverJournal, AttendedRecoverOrphans,
     AttendedReconciliation, AttendedModeStep
     DEF RecoverySteps
<1>6. CASE \E o \in Op : TaskSteps(o)
  BY <1>6, AttendedInstallReturns, AttendedStageReturns, AttendedStartTask, AttendedStopTask,
     AttendedModeStep
     DEF TaskSteps
<1> QED BY <1>1, <1>2, <1>3, <1>4, <1>5, <1>6 DEF Next

\* The invariant, until the disk refuses a write.
AttendedSound == faults = 0 => StoresInv /\ AttendedInv

LEMMA AttendedUnrefused == TypeOK /\ AttendedSound /\ [Next]_vars => AttendedSound'
<1> SUFFICES ASSUME TypeOK, AttendedSound, [Next]_vars, faults' = 0
             PROVE  StoresInv' /\ AttendedInv'
  BY DEF AttendedSound
<1>1. TypeOK'
  BY TypeStep
<1>2. faults = 0 /\ ~WriteFails
  <2>1. WriteFails => faults' # 0
    BY DEF WriteFails, TypeOK
  <2>2. ~WriteFails => faults' = faults
    BY FaultsKept
  <2> QED BY <2>1, <2>2
<1> QED BY <1>1, <1>2, StoresStep, AttendedNext DEF AttendedSound

\* Every unfinished operation has a task or is about to be ended, every answer
\* and every journal names an operation, and recovery finishes the operations it
\* has passed, in every state that is reached without a refused write.
THEOREM AttendedInvariant == Spec => []AttendedSound
<1>1. Init => AttendedSound
  BY StoresInit, AttendedInit DEF AttendedSound
<1> QED BY <1>1, AttendedUnrefused, TypeCorrect, PTL DEF Spec

\* At rest an unfinished create, switch, apply or restore has a live task, and so
\* has an environment that is `creating`: no crash, cancellation or failure leaves
\* a client waiting for an operation that nobody works on.
THEOREM UnfinishedStaysLive == Spec => [](faults = 0 => UnfinishedIsLive)
<1>1. TypeOK /\ AttendedSound => (faults = 0 => UnfinishedIsLive)
  <2> SUFFICES ASSUME TypeOK, StoresInv, AttendedInv, Idle PROVE UnfinishedIsLive
    BY DEF AttendedSound, UnfinishedIsLive
  <2>1. Waiting = {} /\ mode = "ready"
    BY NothingWaits DEF Idle
  <2>2. \A o \in Op : operations[o].status = "active" => controllers[o]
    BY <2>1 DEF AttendedInv, Attended, Unfinished, Ends, Becomes, Live
  <2>3. \A e \in Env : environments[e].state = "creating" =>
          \E o \in Op : controllers[o] /\ operations[o].env = e
    BY <2>1 DEF AttendedInv, CreationAttended, Creates, Leaves, Live, Belongs
  <2> QED BY <2>2, <2>3 DEF UnfinishedIsLive, Pending
<1> QED BY <1>1, AttendedInvariant, TypeCorrect, PTL

\* At rest an unfinished start or stop has a live task: what recovery, an exit
\* callback or a failed task leave of it is a final status.
THEOREM ProcessOperationStaysLive == Spec => [](faults = 0 => ProcessOperationIsLive)
<1>1. TypeOK /\ AttendedSound => (faults = 0 => ProcessOperationIsLive)
  <2> SUFFICES ASSUME TypeOK, StoresInv, AttendedInv, Idle PROVE ProcessOperationIsLive
    BY DEF AttendedSound, ProcessOperationIsLive
  <2>1. Waiting = {} /\ mode = "ready"
    BY NothingWaits DEF Idle
  <2>2. \A o \in Op : operations[o].status = "active" => controllers[o]
    BY <2>1 DEF AttendedInv, Attended, Unfinished, Ends, Becomes, Live
  <2> QED BY <2>2 DEF ProcessOperationIsLive, Pending
<1> QED BY <1>1, AttendedInvariant, TypeCorrect, PTL

\* At rest a recorded outcome names an operation that exists, also where recovery
\* recorded it: a replay of a create, a switch, an apply, a start or a stop is
\* answered with something that can be read.
THEOREM ReplayAlwaysNames == Spec => [](faults = 0 => ReplayNamesOperation)
<1>1. AttendedSound => (faults = 0 => ReplayNamesOperation)
  BY DEF AttendedSound, AttendedInv, AnsweredKnown, Known, ReplayNamesOperation
<1> QED BY <1>1, AttendedInvariant, PTL

\* Whatever any number of crashes left, the end of a recovery finds no journal, no
\* half-built generation, no unfinished operation, no environment that is
\* `creating` and no change request in-progress.
THEOREM RestartAlwaysConverges == Spec /\ [](faults = 0) => RestartConverges
<1> DEFINE Converges ==
      mode = "recoverCore" /\ mode' = "ready" =>
        /\ \A o \in Op : /\ ~OpenJournal(o)
                         /\ generations[o] # "staged"
                         /\ operations[o].status # "active"
                         /\ ledger[o].method \in ChangeTransactions
                              => ledger[o].state # "in-progress"
        /\ \A e \in Env : environments[e].state # "creating"
<1>1. TypeOK /\ AttendedSound /\ faults = 0 /\ [Next]_vars => [Converges]_vars
  <2> SUFFICES ASSUME TypeOK, StoresInv, AttendedInv, Next, mode = "recoverCore", mode' = "ready"
               PROVE  CoreRecovered
    BY RecoveryIsComplete DEF AttendedSound
  <2>1. ~Requests /\ ~Cancels /\ ~Surroundings
    <3>1. ~Requests
      BY DEF Requests, CreateEnvironment, SwitchCombination, NoopSwitch, MaySwitch, ApplyChange,
             RestoreGeneration, RestoreActive, Start, Stop, Idle
    <3>2. ~Cancels
      BY DEF Cancels, CancelOperation, CancelApply, Idle
    <3>3. ~Surroundings
      BY DEF Surroundings, Crash, LoseMemory, WriteFails, ProcessDies, ExitCallback, BeginClose,
             Idle
    <3> QED BY <3>1, <3>2, <3>3
  <2>2. ~Boot /\ ~FinishClose /\ ~Persist
    BY DEF Boot, FinishClose, Persist
  <2>3. \A o \in Op : ~TaskSteps(o)
    BY DEF TaskSteps, InstallReturns, StageReturns, LaunchIntent, Spawn, Identify, Ready,
           StartFails, StopReturns, StopUnconfirmed, Spawned, TaskOf, TaskReturns
  <2>4. CASE RecoverySteps
    BY <2>4 DEF RecoverySteps, RecoverChange, RecoverOrphanChange, SweepChangeLedger,
       ChangesRecovered, ReconcileLaunch, ProcessesReconciled, RecoverJournal, RecoverOrphan,
       SettleSwitchLedger, RecoverCreating
  <2> QED BY <2>1, <2>2, <2>3, <2>4 DEF Next
<1>2. RestartConverges <=> [][Converges]_vars
  BY DEF RestartConverges
<1> HIDE DEF Converges
<1> QED BY <1>1, <1>2, AttendedInvariant, TypeCorrect, PTL DEF Spec
(***************************************************************************)
(* The managed processes.                                                  *)
(***************************************************************************)

\* Request o is a start or a stop of environment e that is under way.
Works(o, e) == Live(o) /\ (Belongs(o, "start", e) \/ Belongs(o, "stop", e))

\* The launch records of e that wait to be written, and with them the present one.
Upcoming(e) == {w.val : w \in {v \in Waiting : v.store = "launches" /\ v.key = e}}
Records(e) == {launches[e]} \cup Upcoming(e)

\* A start of e whose child is not there yet.
Awaits(o, e) == requested[o] # None /\ Belongs(o, "start", e)

\* An environment has one process, apart from those of failed starts.
OneRunning == \A p, q \in processes : p.env = q.env => p = q

\* One start or stop is under way in an environment.
OneWorker == \A o, q \in Op, e \in Env : Works(o, e) /\ Works(q, e) => o = q
AwaitsLive ==
  \A o \in Op : requested[o] # None => Live(o) /\ \E e \in Env : Belongs(o, "start", e)

\* A process belongs to a start of its environment, and every launch record of
\* that environment names it or, before it is identified, its generation.
OwnProcess ==
  \A p \in processes : operations[p.by].kind = "start" /\ operations[p.by].env = p.env
Fits(r, p) == IF r.by = None THEN r.gen = p.gen /\ r.state # "none" ELSE r.by = p.by
RecordsFit == \A p \in processes : \A r \in Records(p.env) : Fits(r, p)

\* Before a start spawns its child there is no process, and the launch record
\* is that of an earlier start or its intent.
Intent(r, g) == r.gen = g /\ r.state # "none"
VacantUntilSpawn ==
  \A o \in Op, e \in Env : Awaits(o, e) =>
    /\ \A p \in processes : p.env # e
    /\ \A r \in Upcoming(e) : r.by = None => Intent(r, requested[o])
    /\ launches[e].by = None => Intent(launches[e], requested[o]) \/ Upcoming(e) # {}
OwnIntent ==
  \A o \in Op, e \in Env :
    Live(o) /\ Belongs(o, "start", e) /\ requested[o] = None =>
      \A r \in Records(e) : r.by \in {None, o}

\* A process without an identity has its start, or recovery has yet to look at
\* its environment, or has reported that it cannot verify it.
Unresolved(e) ==
  \/ entries[e] = "unverifiable"
  \/ entries[e] = "none" /\ mode \in {"down", "recoverChanges", "recoverProcesses"}
Attached ==
  \A p \in processes : \A r \in Records(p.env) :
    r.by = None => Live(p.by) \/ Unresolved(p.env)

ProcessInv ==
  /\ OneRunning /\ OneWorker /\ AwaitsLive /\ OwnProcess /\ RecordsFit
  /\ VacantUntilSpawn /\ OwnIntent /\ Attached

LEMMA ProcessFields ==
  ASSUME TypeOK, NEW p \in Alive PROVE p.env \in Env /\ p.by \in Op /\ p.gen \in Op
BY DEF TypeOK, Process, Alive

LEMMA ProcessesAlive == \A p \in processes : p \in Alive
BY DEF Alive

LEMMA ProcessInit == Init => ProcessInv
<1> SUFFICES ASSUME Init PROVE ProcessInv
  OBVIOUS
<1>1. /\ processes = {} /\ Waiting = {} /\ \A o \in Op : requested[o] = None /\ ~controllers[o]
  BY FewWrites DEF Init, Waiting
<1> QED BY <1>1
    DEF ProcessInv, OneRunning, OneWorker, AwaitsLive, OwnProcess, RecordsFit, VacantUntilSpawn,
        OwnIntent, Attached, Works, Awaits, Live

\* The launch records of an environment, when the writes of a step are known.
LEMMA RecordsLand ==
  ASSUME NEW w, Lands(w), NEW e \in Env
  PROVE  /\ \A r \in Records(e)' : r \in Records(e)
         /\ \A r \in Upcoming(e)' : r \in Upcoming(e)
         /\ launches'[e] = launches[e] /\ Upcoming(e) # {} => Upcoming(e)' # {}
                                                    \/ launches'[e] \in Upcoming(e)
         /\ launches'[e] = launches[e] \/ launches'[e] \in Upcoming(e)
<1>1. \A v \in Waiting' : v \in Waiting
  BY DEF Lands
<1>2. \A r \in Upcoming(e)' : r \in Upcoming(e)
  BY <1>1 DEF Upcoming
<1>3. CASE w.store = "launches" /\ w.key = e
  <2>1. launches'[e] = w.val /\ w \in Waiting
    BY <1>3 DEF Lands
  <2>2. w.val \in Upcoming(e)
    BY <1>3, <2>1 DEF Upcoming
  <2> QED BY <1>2, <2>1, <2>2 DEF Records
<1>4. CASE ~(w.store = "launches" /\ w.key = e)
  <2>1. launches'[e] = launches[e]
    BY <1>4 DEF Lands
  <2>2. ASSUME Upcoming(e) # {} PROVE Upcoming(e)' # {}
    <3>1. PICK v \in Waiting : v.store = "launches" /\ v.key = e
      BY <2>2 DEF Upcoming
    <3>2. v \in Waiting'
      BY <1>4, <3>1 DEF Lands
    <3> QED BY <3>1, <3>2 DEF Upcoming
  <2> QED BY <1>2, <2>1, <2>2 DEF Records
<1> QED BY <1>3, <1>4

LEMMA ProcessPersist ==
  ASSUME TypeOK, StoresInv, AttendedInv, ProcessInv, Persist PROVE ProcessInv'
<1> DEFINE w == Head(todo)
<1>1. Lands(w)
  BY Landing DEF StoresInv
<1>2. UNCHANGED << processes, requested, mode, entries >>
  BY DEF Persist, volatile
<1> HIDE DEF w
<1>3. StaysKnown
  BY DEF AttendedInv
<1>4. \A o \in Op : Live(o)' <=> Live(o)
  BY <1>1, Shrinks
<1>5. \A o \in Op, k \in Kinds, e \in Env : Belongs(o, k, e)' <=> Belongs(o, k, e)
  BY <1>1, <1>3, Shrinks, BelongsLands
<1>6. "start" \in Kinds /\ "stop" \in Kinds
  BY DEF Kinds
<1>7. /\ \A o \in Op, e \in Env : Works(o, e)' <=> Works(o, e)
      /\ \A o \in Op, e \in Env : Awaits(o, e)' <=> Awaits(o, e)
  BY <1>2, <1>4, <1>5, <1>6 DEF Works, Awaits
<1>8. \A e \in Env :
        /\ \A r \in Records(e)' : r \in Records(e)
        /\ \A r \in Upcoming(e)' : r \in Upcoming(e)
        /\ launches'[e] = launches[e] /\ Upcoming(e) # {} => Upcoming(e)' # {}
                                                   \/ launches'[e] \in Upcoming(e)
        /\ launches'[e] = launches[e] \/ launches'[e] \in Upcoming(e)
  BY <1>1, RecordsLand
<1>9. \A p \in processes : p.env \in Env /\ p.by \in Op
  BY ProcessFields, ProcessesAlive
<1>10. OneRunning' /\ OneWorker'
  BY <1>2, <1>7 DEF ProcessInv, OneRunning, OneWorker
<1>11. AwaitsLive'
  BY <1>2, <1>4, <1>5, <1>6 DEF ProcessInv, AwaitsLive
<1>12. OwnProcess'
  <2> SUFFICES ASSUME NEW p \in processes
               PROVE  operations'[p.by].kind = "start" /\ operations'[p.by].env = p.env
    BY <1>2 DEF OwnProcess
  <2>1. operations[p.by].kind = "start" /\ operations[p.by].env = p.env
    BY DEF ProcessInv, OwnProcess
  <2>2. CASE operations'[p.by] # operations[p.by]
    <3>1. /\ w.store = "operations" /\ w.key = p.by /\ operations'[p.by] = w.val
          /\ w.val \in OperationRecord /\ w.val.status # "absent" /\ w \in Waiting
      BY <1>1, <1>3, <1>9, <2>2, OperationLands, Effect
    <3>2. w.val.kind \in Kinds /\ w.val.env \in Env
      BY <3>1 DEF OperationRecord, NoOperation
    <3>3. Belongs(p.by, w.val.kind, w.val.env) /\ Belongs(p.by, "start", p.env)
      BY <2>1, <3>1 DEF Belongs
    <3>4. w.val.kind = "start" /\ w.val.env = p.env
      BY <1>6, <1>9, <3>2, <3>3 DEF StoresInv, OneHome, Claims
    <3> QED BY <3>1, <3>4
  <2> QED BY <2>1, <2>2
<1>13. RecordsFit'
  BY <1>2, <1>8, <1>9 DEF ProcessInv, RecordsFit
<1>14. VacantUntilSpawn'
  <2> SUFFICES ASSUME NEW o \in Op, NEW e \in Env, Awaits(o, e)
               PROVE  /\ \A p \in processes : p.env # e
                      /\ \A r \in Upcoming(e)' : r.by = None => Intent(r, requested[o])
                      /\ launches'[e].by = None =>
                           Intent(launches'[e], requested[o]) \/ Upcoming(e)' # {}
    BY <1>2, <1>7 DEF VacantUntilSpawn, Intent
  <2>1. /\ \A p \in processes : p.env # e
        /\ \A r \in Upcoming(e) : r.by = None => Intent(r, requested[o])
        /\ launches[e].by = None => Intent(launches[e], requested[o]) \/ Upcoming(e) # {}
    BY DEF ProcessInv, VacantUntilSpawn
  <2> QED BY <1>8, <2>1
<1>15. OwnIntent'
  BY <1>2, <1>4, <1>5, <1>6, <1>8 DEF ProcessInv, OwnIntent
<1>16. Attached'
  <2>1. \A e \in Env : Unresolved(e) => Unresolved(e)'
    BY <1>2 DEF Unresolved
  <2> QED BY <1>2, <1>4, <1>8, <1>9, <2>1 DEF ProcessInv, Attached
<1> QED BY <1>10, <1>11, <1>12, <1>13, <1>14, <1>15, <1>16 DEF ProcessInv

(***************************************************************************)
(* Steps that add no process.                                              *)
(***************************************************************************)

\* A launch write that marks the present record.
Marks(w) ==
  w.store = "launches" => /\ w.val.by = launches[w.key].by /\ w.val.gen = launches[w.key].gen
                          /\ w.val.state # "none"

LEMMA MarkedRecords ==
  ASSUME todo = <<>>, UNCHANGED launches, \A w \in Waiting' : Marks(w), NEW e \in Env
  PROVE  /\ Waiting = {} /\ Upcoming(e) = {} /\ Records(e) = {launches[e]}
         /\ \A r \in Upcoming(e)' : r.by = launches[e].by /\ r.gen = launches[e].gen
                                     /\ r.state # "none"
         /\ \A r \in Records(e)' :
              r = launches[e] \/ (r.by = launches[e].by /\ r.gen = launches[e].gen
                                    /\ r.state # "none")
<1>1. Waiting = {}
  BY NothingWaits
<1>2. \A r \in Upcoming(e)' : r.by = launches[e].by /\ r.gen = launches[e].gen /\ r.state # "none"
  BY DEF Upcoming, Marks
<1> QED BY <1>1, <1>2 DEF Upcoming, Records

LEMMA ProcessesSteady ==
  ASSUME TypeOK, ProcessInv, todo = <<>>, UNCHANGED << operations, launches >>,
         processes' \subseteq processes, \A w \in Waiting' : Marks(w),
         \A o, q \in Op, e \in Env : Works(o, e)' /\ Works(q, e)' => o = q,
         \A o \in Op : requested'[o] # None =>
           /\ requested'[o] = requested[o] /\ Live(o)'
           /\ \A e \in Env : Belongs(o, "start", e)' <=> Belongs(o, "start", e),
         \A o \in Op, e \in Env :
           Live(o)' /\ Belongs(o, "start", e)' /\ requested'[o] = None =>
             Live(o) /\ Belongs(o, "start", e) /\ requested[o] = None,
         \A p \in processes' : launches[p.env].by = None =>
           /\ Live(p.by) => Live(p.by)'
           /\ Unresolved(p.env) => Unresolved(p.env)'
  PROVE  ProcessInv'
<1>1. \A e \in Env :
        /\ Waiting = {} /\ Upcoming(e) = {} /\ Records(e) = {launches[e]}
        /\ \A r \in Upcoming(e)' : r.by = launches[e].by /\ r.gen = launches[e].gen
                                    /\ r.state # "none"
        /\ \A r \in Records(e)' :
             r = launches[e] \/ (r.by = launches[e].by /\ r.gen = launches[e].gen
                                   /\ r.state # "none")
  BY MarkedRecords
<1>2. \A p \in processes' : p \in processes /\ p.env \in Env
  BY ProcessFields, ProcessesAlive
<1>3. OneRunning' /\ OneWorker' /\ AwaitsLive' /\ OwnProcess'
  BY <1>2 DEF ProcessInv, OneRunning, OneWorker, AwaitsLive, OwnProcess
<1>4. RecordsFit'
  BY <1>1, <1>2 DEF ProcessInv, RecordsFit, Fits
<1>5. VacantUntilSpawn'
  <2> SUFFICES ASSUME NEW o \in Op, NEW e \in Env, Awaits(o, e)'
               PROVE  /\ \A p \in processes' : p.env # e
                      /\ \A r \in Upcoming(e)' : r.by = None => Intent(r, requested'[o])
                      /\ launches'[e].by = None => Intent(launches'[e], requested'[o])
    BY DEF VacantUntilSpawn, Intent
  <2>1. Awaits(o, e) /\ requested'[o] = requested[o]
    BY DEF Awaits
  <2>2. /\ \A p \in processes : p.env # e
        /\ launches[e].by = None => Intent(launches[e], requested[o])
    BY <1>1, <2>1 DEF ProcessInv, VacantUntilSpawn
  <2> QED BY <1>1, <1>2, <2>1, <2>2 DEF Intent
<1>6. OwnIntent'
  BY <1>1 DEF ProcessInv, OwnIntent
<1>7. Attached'
  BY <1>1, <1>2 DEF ProcessInv, Attached
<1> QED BY <1>3, <1>4, <1>5, <1>6, <1>7 DEF ProcessInv

\* A write that begins no operation and no task.
Harmless(w) ==
  /\ Marks(w)
  /\ w.store # "controllers"
  /\ w.store = "operations" => /\ w.val.kind = operations[w.key].kind
                               /\ w.val.env = operations[w.key].env

LEMMA HarmlessClaims ==
  ASSUME todo = <<>>, UNCHANGED operations, \A w \in Waiting' : Harmless(w)
  PROVE  /\ \A o, k, e : Belongs(o, k, e)' <=> Belongs(o, k, e)
         /\ \A o : (Live(o) <=> controllers[o]) /\ (Live(o)' <=> controllers'[o])
<1>1. Waiting = {}
  BY NothingWaits
<1> QED BY <1>1 DEF Belongs, Live, Harmless

\* A block of harmless writes, with which only the task of o may end.
LEMMA ProcessesHarmless ==
  ASSUME TypeOK, ProcessInv, todo = <<>>, UNCHANGED << Stores, launches, entries, mode >>,
         processes' \subseteq processes, \A w \in Waiting' : Harmless(w), NEW o,
         \A q \in Op \ {o} : controllers'[q] = controllers[q] /\ requested'[q] = requested[q],
         o \in Op =>
           \/ controllers'[o] = controllers[o] /\ requested'[o] = requested[o]
           \/ /\ ~controllers'[o] /\ requested'[o] = None
              /\ \A p \in processes' : launches[p.env].by = None => p.by # o
  PROVE  ProcessInv'
<1>1. UNCHANGED operations
  BY DEF Stores
<1>2. /\ \A q, k, e : Belongs(q, k, e)' <=> Belongs(q, k, e)
      /\ \A q : (Live(q) <=> controllers[q]) /\ (Live(q)' <=> controllers'[q])
  BY <1>1, HarmlessClaims
<1>3. \A q \in Op : Live(q)' => Live(q) /\ requested'[q] = requested[q]
  BY <1>2
<1>4. \A q \in Op, e \in Env : Works(q, e)' => Works(q, e)
  BY <1>2, <1>3 DEF Works
<1>5. \A q, r \in Op, e \in Env : Works(q, e)' /\ Works(r, e)' => q = r
  BY <1>4 DEF ProcessInv, OneWorker
<1>6. \A q \in Op : requested'[q] # None =>
        /\ requested'[q] = requested[q] /\ Live(q)'
        /\ \A e \in Env : Belongs(q, "start", e)' <=> Belongs(q, "start", e)
  BY <1>2 DEF ProcessInv, AwaitsLive
<1>7. \A q \in Op, e \in Env :
        Live(q)' /\ Belongs(q, "start", e)' /\ requested'[q] = None =>
          Live(q) /\ Belongs(q, "start", e) /\ requested[q] = None
  BY <1>2, <1>3
<1>8. \A p \in processes' : launches[p.env].by = None =>
        /\ Live(p.by) => Live(p.by)'
        /\ Unresolved(p.env) => Unresolved(p.env)'
  <2>1. \A p \in processes' : p.by \in Op
    BY ProcessFields, ProcessesAlive
  <2> QED BY <1>2, <2>1 DEF Unresolved
<1>9. \A w \in Waiting' : Marks(w)
  BY DEF Harmless
<1> HIDE DEF ProcessInv
<1> QED BY <1>1, <1>5, <1>6, <1>7, <1>8, <1>9, ProcessesSteady

LEMMA ProcessesBeside ==
  ASSUME TypeOK, ProcessInv, todo = <<>>,
         UNCHANGED << Stores, launches, entries, mode, processes, controllers, requested >>,
         \A w \in Waiting' : Harmless(w)
  PROVE  ProcessInv'
<1>1. \A q \in Op \ {None} : controllers'[q] = controllers[q] /\ requested'[q] = requested[q]
  OBVIOUS
<1>2. None \in Op => controllers'[None] = controllers[None] /\ requested'[None] = requested[None]
  OBVIOUS
<1> HIDE DEF ProcessInv, Harmless
<1> QED BY <1>1, <1>2, ProcessesHarmless

LEMMA HarmlessWrites ==
  ASSUME TypeOK, NEW o \in Op
  PROVE  /\ \A s : /\ Harmless(Ended(o, s)) /\ \A w \in Settling(o, s) : Harmless(w)
                   /\ Harmless(PutGeneration(o, s))
         /\ \A r : Harmless(PutJournal(o, r))
         /\ Harmless(Removed(o)) /\ Harmless(MarkedCommitted(o))
         /\ \A w \in Repairing(o) : Harmless(w)
         /\ \A w \in Erring(o) : Harmless(w)
         /\ \A p : Harmless(PutPlan(p, o))
         /\ \A k, s : Harmless(PutLedger(o, k, s))
         /\ \A e, r : Harmless(PutEnvironment(e, r))
<1>1. \A s : Harmless(Ended(o, s))
  BY EndedFields DEF Harmless, Marks
<1>2. /\ \A s : Harmless(PutGeneration(o, s))
      /\ \A r : Harmless(PutJournal(o, r))
      /\ \A p : Harmless(PutPlan(p, o))
      /\ \A k, s : Harmless(PutLedger(o, k, s))
      /\ \A e, r : Harmless(PutEnvironment(e, r))
  BY DEF Harmless, Marks, PutGeneration, PutJournal, PutPlan, PutLedger, PutEnvironment, Write
<1> HIDE DEF Harmless
<1> QED BY <1>1, <1>2 DEF Settling, Removed, MarkedCommitted, Repairing, Erring

LEMMA HarmlessPuts ==
  ASSUME TypeOK, NEW e \in Env
  PROVE  /\ \A s : Harmless(PutState(e, s))
         /\ \A s : s # "none" => Harmless(Marked(e, s))
<1>1. \A s : Harmless(PutState(e, s))
  BY StateFields DEF Harmless, Marks
<1>2. ASSUME NEW s, s # "none" PROVE Harmless(Marked(e, s))
  <2>1. launches[e] \in LaunchRecord
    BY DEF TypeOK
  <2> DEFINE r == [launches[e] EXCEPT !.state = s]
  <2>2. r.state = s /\ r.by = launches[e].by /\ r.gen = launches[e].gen
    BY <2>1 DEF LaunchRecord
  <2>3. Marked(e, s) = [store |-> "launches", key |-> e, val |-> r]
    BY DEF Marked, Write
  <2> HIDE DEF r
  <2> QED BY <1>2, <2>2, <2>3 DEF Harmless, Marks
<1> QED BY <1>1, <1>2

(***************************************************************************)
(* The tasks.                                                              *)
(***************************************************************************)
LEMMA AtRest ==
  ASSUME ProcessInv, todo = <<>>
  PROVE  /\ Waiting = {}
         /\ \A o, k, e : Belongs(o, k, e) <=> operations[o].kind = k /\ operations[o].env = e
         /\ \A o : Live(o) <=> controllers[o]
         /\ \A e : Upcoming(e) = {} /\ Records(e) = {launches[e]}
         /\ \A o \in Op : requested[o] # None => controllers[o] /\ operations[o].kind = "start"
<1>1. Waiting = {}
  BY NothingWaits
<1>2. /\ \A o, k, e : Belongs(o, k, e) <=> operations[o].kind = k /\ operations[o].env = e
      /\ \A o : Live(o) <=> controllers[o]
      /\ \A e : Upcoming(e) = {} /\ Records(e) = {launches[e]}
  BY <1>1 DEF Belongs, Live, Upcoming, Records
<1> QED BY <1>1, <1>2 DEF ProcessInv, AwaitsLive

\* The task of a transaction has no process.
LEMMA ProcessesTransaction ==
  ASSUME TypeOK, ProcessInv, NEW o \in Op, todo = <<>>, Finished(o),
         operations[o].kind # "start",
         UNCHANGED << Stores, launches, entries, mode, processes, requested >>,
         \A w \in Waiting' : Harmless(w)
  PROVE  ProcessInv'
<1>1. requested'[o] = None
  BY AtRest
<1>2. \A p \in processes' : p.by # o
  BY DEF ProcessInv, OwnProcess
<1>3. ~controllers'[o] /\ \A q \in Op \ {o} : controllers'[q] = controllers[q]
  BY TaskEnded
<1> HIDE DEF ProcessInv, Harmless
<1> QED BY <1>1, <1>2, <1>3, ProcessesHarmless

LEMMA ProcessInstallReturns ==
  ASSUME TypeOK, StoresInv, AttendedInv, ProcessInv, NEW o \in Op, InstallReturns(o)
  PROVE  ProcessInv'
<1>1. /\ todo = <<>> /\ UNCHANGED << Stores, launches, entries, mode, processes, requested >>
      /\ journals[o].kind \in CoreTransactions /\ Finished(o)
  BY DEF InstallReturns, TaskReturns, durable, Stores
<1>2. operations[o].kind # "start"
  <2>1. journals[o].kind \in Built /\ journals[o].kind # "start"
    BY <1>1 DEF Built, CoreTransactions
  <2> QED BY <2>1, JournalOfOperation
<1>3. Waiting' = CommitSet(o) \/ Waiting' = UndoSet(o)
  BY <1>1, CommitWaits, UndoWaits DEF InstallReturns, Run, Waiting
<1>4. \A w \in Waiting' : Harmless(w)
  BY <1>3, HarmlessWrites DEF CommitSet, UndoSet
<1> HIDE DEF ProcessInv, Harmless
<1> QED BY <1>1, <1>2, <1>4, ProcessesTransaction

LEMMA ProcessStageReturns ==
  ASSUME TypeOK, StoresInv, AttendedInv, ProcessInv, NEW o \in Op, StageReturns(o)
  PROVE  ProcessInv'
<1>1. /\ todo = <<>> /\ UNCHANGED << Stores, launches, entries, mode, processes, requested >>
      /\ journals[o].kind = "apply" /\ Finished(o)
  BY DEF StageReturns, TaskReturns, durable, Stores
<1>2. operations[o].kind # "start"
  <2>1. journals[o].kind \in Built
    BY <1>1 DEF Built
  <2> QED BY <1>1, <2>1, JournalOfOperation
<1>3. \/ Waiting' = RollbackSet(o) \/ Waiting' = CancelSet(o) \/ Waiting' = PublishSet(o)
      \/ Waiting' = {PutGeneration(o, "recorded")} \cup RollbackSet(o)
  <2>1. \/ todo' = RollbackScript(o) \/ todo' = CancelScript(o) \/ todo' = PublishScript(o)
    BY DEF StageReturns, Run
  <2> QED BY <1>1, <2>1, RollbackWaits, CancelWaits, PublishWaits DEF Waiting
<1>4. \A w \in Waiting' : Harmless(w)
  BY <1>3, HarmlessWrites DEF RollbackSet, CancelSet, PublishSet, CommitSet, Removed
<1> HIDE DEF ProcessInv, Harmless
<1> QED BY <1>1, <1>2, <1>4, ProcessesTransaction

LEMMA HarmlessEnds ==
  ASSUME TypeOK, NEW o \in Op, operations[o].env \in Env
  PROVE  /\ \A w \in Failing(o) : Harmless(w)
         /\ \A w \in Stopping(o) : Harmless(w)
<1>1. \A w \in Failing(o) : Harmless(w)
  BY HarmlessWrites, HarmlessPuts DEF Failing, Reverting
<1> QED BY <1>1, HarmlessWrites, HarmlessPuts DEF Stopping

LEMMA ProcessReady ==
  ASSUME TypeOK, ProcessInv, NEW o \in Op, Ready(o) PROVE ProcessInv'
<1>1. /\ todo = <<>> /\ UNCHANGED << Stores, launches, entries, mode, processes, requested >>
      /\ operations[o].kind = "start" /\ requested[o] = None /\ Finished(o)
      /\ Owned(operations[o].env)
  BY DEF Ready, Spawned, TaskOf, TaskReturns, OfKind, durable, Stores
<1>2. PICK e \in Env : e = operations[o].env
  BY <1>1, OperationRecords
<1>3. \A w \in Waiting' : Harmless(w)
  BY <1>2, ReadyWaits, HarmlessWrites, HarmlessPuts
<1>4. launches[e].by # None
  BY <1>1, <1>2, ProcessFields, NoneAssumption DEF Owned
<1>5. \A p \in processes' : launches[p.env].by = None => p.by # o
  BY <1>1, <1>2, <1>4 DEF ProcessInv, OwnProcess
<1>6. ~controllers'[o] /\ \A q \in Op \ {o} : controllers'[q] = controllers[q]
  BY <1>1, TaskEnded
<1> HIDE DEF ProcessInv, Harmless
<1> QED BY <1>1, <1>3, <1>5, <1>6, ProcessesHarmless

LEMMA ProcessStartFails ==
  ASSUME TypeOK, ProcessInv, NEW o \in Op, StartFails(o) PROVE ProcessInv'
<1>1. /\ todo = <<>> /\ UNCHANGED << Stores, launches, entries, mode >>
      /\ operations[o].kind = "start" /\ Finished(o)
      /\ processes' = {p \in processes : p.by # o}
      /\ requested' = [requested EXCEPT ![o] = None]
  BY DEF StartFails, TaskOf, TaskReturns, OfKind, Killed, Outlived, files, Stores
<1>2. PICK e \in Env : e = operations[o].env
  BY <1>1, OperationRecords
<1>3. \A w \in Waiting' : Harmless(w)
  BY <1>2, StartFailsWaits, HarmlessEnds, HarmlessPuts
<1>4. ~controllers'[o] /\ \A q \in Op \ {o} : controllers'[q] = controllers[q]
  BY <1>1, TaskEnded
<1>5. requested'[o] = None /\ \A q \in Op \ {o} : requested'[q] = requested[q]
  BY <1>1 DEF TypeOK
<1>6. processes' \subseteq processes /\ \A p \in processes' : p.by # o
  BY <1>1
<1> HIDE DEF ProcessInv, Harmless
<1> QED BY <1>1, <1>3, <1>4, <1>5, <1>6, ProcessesHarmless

LEMMA ProcessStopTask ==
  ASSUME TypeOK, ProcessInv, NEW o \in Op, StopReturns(o) \/ StopUnconfirmed(o)
  PROVE  ProcessInv'
<1>1. /\ todo = <<>> /\ UNCHANGED << Stores, launches, entries, mode, requested >>
      /\ operations[o].kind = "stop" /\ Finished(o) /\ processes' \subseteq processes
  BY DEF StopReturns, StopUnconfirmed, TaskOf, TaskReturns, OfKind, Killed, durable, files,
         Stores
<1>2. PICK e \in Env : e = operations[o].env
  BY <1>1, OperationRecords
<1>3. \A w \in Waiting' : Harmless(w)
  BY <1>2, StopTaskWaits, HarmlessEnds, HarmlessPuts
<1>4. ~controllers'[o] /\ \A q \in Op \ {o} : controllers'[q] = controllers[q]
  BY <1>1, TaskEnded
<1>5. requested'[o] = None
  BY <1>1, AtRest
<1>6. \A p \in processes' : p.by # o
  BY <1>1 DEF ProcessInv, OwnProcess
<1> HIDE DEF ProcessInv, Harmless
<1> QED BY <1>1, <1>3, <1>4, <1>5, <1>6, ProcessesHarmless

\* A task writes the launch record of its environment.
LEMMA ProcessesRewritten ==
  ASSUME TypeOK, ProcessInv, NEW e \in Env, NEW r,
         todo = <<>>, todo' = << PutLaunch(e, r) >>,
         UNCHANGED << operations, launches, controllers, requested, processes, entries, mode >>,
         \A p \in processes : p.env = e => r.by = p.by /\ r.by # None,
         \A q \in Op : Awaits(q, e) /\ r.by = None => Intent(r, requested[q]),
         \A q \in Op : controllers[q] /\ Belongs(q, "start", e) /\ requested[q] = None
                         => r.by \in {None, q}
  PROVE  ProcessInv'
<1>1. /\ Waiting = {}
      /\ \A o, k, f : Belongs(o, k, f) <=> operations[o].kind = k /\ operations[o].env = f
      /\ \A o : Live(o) <=> controllers[o]
      /\ \A f : Upcoming(f) = {} /\ Records(f) = {launches[f]}
  BY AtRest
<1> DEFINE w == PutLaunch(e, r)
<1>2. w.store = "launches" /\ w.key = e /\ w.val = r
  BY DEF PutLaunch, Write
<1>3. Waiting' = {w}
  BY FewWrites DEF Waiting
<1> HIDE DEF w
<1>4. /\ \A o, k, f : Belongs(o, k, f)' <=> Belongs(o, k, f)
      /\ \A o : Live(o)' <=> Live(o)
  BY <1>1, <1>2, <1>3 DEF Belongs, Live
<1>5. Upcoming(e)' = {r} /\ \A f : f # e => Upcoming(f)' = {}
  BY <1>2, <1>3 DEF Upcoming
<1>6. /\ \A f \in Env : \A s \in Records(f)' : s = launches[f] \/ (f = e /\ s = r)
      /\ \A f \in Env : \A s \in Upcoming(f)' : f = e /\ s = r
  BY <1>5 DEF Records
<1>7. \A p \in processes : p.env \in Env /\ p.by \in Op
  BY ProcessFields, ProcessesAlive
<1>8. OneRunning' /\ OneWorker' /\ AwaitsLive' /\ OwnProcess'
  BY <1>4 DEF ProcessInv, OneRunning, OneWorker, AwaitsLive, OwnProcess, Works
<1>9. RecordsFit'
  BY <1>1, <1>6, <1>7 DEF ProcessInv, RecordsFit, Fits
<1>10. VacantUntilSpawn'
  BY <1>1, <1>4, <1>6 DEF ProcessInv, VacantUntilSpawn, Awaits, Intent
<1>11. OwnIntent'
  BY <1>1, <1>4, <1>6 DEF ProcessInv, OwnIntent
<1>12. Attached'
  <2>1. \A f \in Env : Unresolved(f)' <=> Unresolved(f)
    BY DEF Unresolved
  <2> QED BY <1>1, <1>4, <1>6, <1>7, <2>1 DEF ProcessInv, Attached
<1> QED BY <1>8, <1>9, <1>10, <1>11, <1>12 DEF ProcessInv

LEMMA ProcessLaunchIntent ==
  ASSUME TypeOK, ProcessInv, NEW o \in Op, LaunchIntent(o) PROVE ProcessInv'
<1> DEFINE e == operations[o].env
           r == [state |-> "spawning", gen |-> requested[o], by |-> None]
<1>1. /\ todo = <<>> /\ todo' = << PutLaunch(e, r) >> /\ controllers[o]
      /\ operations[o].kind = "start" /\ launches[e].by # None /\ launches[e].by # o
      /\ UNCHANGED << operations, launches, controllers, requested, processes, entries, mode >>
  BY DEF LaunchIntent, TaskOf, TaskReturns, OfKind, Previous, Run, Spawning, durable, volatile
<1>2. e \in Env
  BY <1>1, OperationRecords
<1>3. r.by = None /\ r.gen = requested[o] /\ r.state # "none"
  OBVIOUS
<1>4. Belongs(o, "start", e) /\ Live(o) /\ Works(o, e)
  BY <1>1 DEF Belongs, Live, Works
<1>5. requested[o] # None
  BY <1>1, <1>2, <1>4 DEF ProcessInv, OwnIntent, Records
<1>6. \A p \in processes : p.env # e
  BY <1>2, <1>4, <1>5 DEF ProcessInv, VacantUntilSpawn, Awaits
<1>7. \A q \in Op : controllers[q] /\ Belongs(q, "start", e) => q = o
  BY <1>2, <1>4 DEF ProcessInv, OneWorker, Works, Live
<1>8. \A q \in Op : Awaits(q, e) => q = o
  BY <1>1, <1>7, AtRest DEF Awaits
<1> HIDE DEF ProcessInv, e, r
<1> QED BY <1>1, <1>2, <1>3, <1>6, <1>7, <1>8, ProcessesRewritten DEF Intent

LEMMA ProcessIdentify ==
  ASSUME TypeOK, ProcessInv, NEW o \in Op, Identify(o) PROVE ProcessInv'
<1> DEFINE e == operations[o].env
           r == [launches[e] EXCEPT !.state = "starting", !.by = o]
<1>1. /\ todo = <<>> /\ todo' = << PutLaunch(e, r) >> /\ controllers[o]
      /\ operations[o].kind = "start" /\ \E p \in processes : p.by = o
      /\ UNCHANGED << operations, launches, controllers, requested, processes, entries, mode >>
  BY DEF Identify, Spawned, TaskOf, TaskReturns, OfKind, Run, durable, volatile
<1>2. e \in Env
  BY <1>1, OperationRecords
<1>3. r.by = o /\ o # None
  <2>1. launches[e] \in LaunchRecord
    BY <1>2 DEF TypeOK
  <2> QED BY <2>1, NoneAssumption DEF LaunchRecord
<1>4. PICK p \in processes : p.by = o /\ p.env = e
  BY <1>1 DEF ProcessInv, OwnProcess
<1>5. \A q \in processes : q.env = e => q.by = o
  BY <1>4 DEF ProcessInv, OneRunning
<1>6. \A q \in Op : ~Awaits(q, e)
  BY <1>2, <1>4 DEF ProcessInv, VacantUntilSpawn
<1>7. Belongs(o, "start", e) /\ Live(o) /\ Works(o, e)
  BY <1>1 DEF Belongs, Live, Works
<1>8. \A q \in Op : controllers[q] /\ Belongs(q, "start", e) => q = o
  BY <1>2, <1>7 DEF ProcessInv, OneWorker, Works, Live
<1> HIDE DEF ProcessInv, e, r
<1> QED BY <1>1, <1>2, <1>3, <1>5, <1>6, <1>8, ProcessesRewritten

LEMMA ProcessSpawn ==
  ASSUME TypeOK, ProcessInv, NEW o \in Op, Spawn(o) PROVE ProcessInv'
<1> DEFINE e == operations[o].env
           new == [env |-> e, by |-> o, gen |-> requested[o]]
<1>1. /\ todo = <<>> /\ controllers[o] /\ operations[o].kind = "start"
      /\ launches[e].by \in {None, o} /\ requested[o] # None
      /\ processes' = processes \cup {new}
      /\ requested' = [requested EXCEPT ![o] = None]
      /\ UNCHANGED << operations, launches, controllers, entries, mode, todo >>
  BY DEF Spawn, TaskOf, TaskReturns, OfKind, Previous, durable
<1>2. e \in Env
  BY <1>1, OperationRecords
<1>3. new.env = e /\ new.by = o /\ new.gen = requested[o]
  OBVIOUS
<1>4. /\ Waiting = {}
      /\ \A q, k, f : Belongs(q, k, f) <=> operations[q].kind = k /\ operations[q].env = f
      /\ \A q : Live(q) <=> controllers[q]
      /\ \A f : Upcoming(f) = {} /\ Records(f) = {launches[f]}
  BY <1>1, AtRest
<1>5. UNCHANGED Waiting
  BY <1>1 DEF Waiting
<1>6. /\ \A q, k, f : Belongs(q, k, f)' <=> Belongs(q, k, f)
      /\ \A q : Live(q)' <=> Live(q)
      /\ \A f : Upcoming(f)' = {} /\ Records(f)' = {launches[f]}
  BY <1>1, <1>4, <1>5 DEF Belongs, Live, Upcoming, Records
<1>7. requested'[o] = None /\ \A q \in Op \ {o} : requested'[q] = requested[q]
  BY <1>1 DEF TypeOK
<1>8. Belongs(o, "start", e) /\ Live(o) /\ Awaits(o, e) /\ Works(o, e)
  BY <1>1, <1>4 DEF Awaits, Works
<1>9. /\ \A p \in processes : p.env # e
      /\ launches[e].by = None => Intent(launches[e], requested[o])
  BY <1>2, <1>4, <1>8 DEF ProcessInv, VacantUntilSpawn
<1> HIDE DEF new
<1>10. \A p \in processes' : p = new \/ p \in processes
  BY <1>1
<1>11. \A p \in processes : p.env \in Env /\ p.by \in Op
  BY ProcessFields, ProcessesAlive
<1>12. OneRunning'
  BY <1>3, <1>9, <1>10 DEF ProcessInv, OneRunning
<1>13. OneWorker' /\ AwaitsLive'
  BY <1>6, <1>7 DEF ProcessInv, OneWorker, AwaitsLive, Works
<1>14. OwnProcess'
  BY <1>1, <1>3, <1>10 DEF ProcessInv, OwnProcess
<1>15. RecordsFit'
  <2>1. Fits(launches[e], new)
    BY <1>1, <1>3, <1>9 DEF Fits, Intent
  <2> QED BY <1>3, <1>4, <1>6, <1>10, <2>1 DEF ProcessInv, RecordsFit
<1>16. VacantUntilSpawn'
  <2> SUFFICES ASSUME NEW q \in Op, NEW f \in Env, Awaits(q, f)'
               PROVE  /\ \A p \in processes' : p.env # f
                      /\ launches[f].by = None => Intent(launches[f], requested'[q])
    BY <1>1, <1>6 DEF VacantUntilSpawn, Intent
  <2>1. q # o /\ requested'[q] = requested[q] /\ Awaits(q, f)
    BY <1>6, <1>7 DEF Awaits
  <2>2. Works(q, f)
    BY <2>1 DEF ProcessInv, AwaitsLive, Awaits, Works
  <2>3. f # e
    BY <1>8, <2>1, <2>2 DEF ProcessInv, OneWorker
  <2>4. /\ \A p \in processes : p.env # f
        /\ launches[f].by = None => Intent(launches[f], requested[q])
    BY <1>4, <2>1 DEF ProcessInv, VacantUntilSpawn
  <2> QED BY <1>3, <1>10, <2>1, <2>3, <2>4
<1>17. OwnIntent'
  <2> SUFFICES ASSUME NEW q \in Op, NEW f \in Env, Live(q), Belongs(q, "start", f),
                      requested'[q] = None
               PROVE  launches[f].by \in {None, q}
    BY <1>6 DEF OwnIntent
  <2>1. CASE q = o
    BY <1>1, <1>4, <2>1
  <2>2. CASE q # o
    BY <1>4, <1>7, <2>2 DEF ProcessInv, OwnIntent
  <2> QED BY <2>1, <2>2
<1>18. Attached'
  <2>1. \A f \in Env : Unresolved(f)' <=> Unresolved(f)
    BY <1>1 DEF Unresolved
  <2> QED BY <1>3, <1>4, <1>6, <1>8, <1>10, <1>11, <2>1 DEF ProcessInv, Attached
<1> QED BY <1>12, <1>13, <1>14, <1>15, <1>16, <1>17, <1>18 DEF ProcessInv

(***************************************************************************)
(* Recovery, and what goes on around the requests.                         *)
(***************************************************************************)
LEMMA ProcessesResolved ==
  ASSUME TypeOK, ProcessInv, todo = <<>>,
         UNCHANGED << Stores, launches, controllers, requested >>,
         processes' \subseteq processes, \A w \in Waiting' : Harmless(w),
         \A p \in processes' : launches[p.env].by = None =>
           (Unresolved(p.env) => Unresolved(p.env)')
  PROVE  ProcessInv'
<1>1. UNCHANGED operations
  BY DEF Stores
<1>2. /\ \A q, k, e : Belongs(q, k, e)' <=> Belongs(q, k, e)
      /\ \A q : Live(q)' <=> Live(q)
  BY <1>1, HarmlessClaims
<1>3. \A q, r \in Op, e \in Env : Works(q, e)' /\ Works(r, e)' => q = r
  BY <1>2 DEF ProcessInv, OneWorker, Works
<1>4. \A q \in Op : requested'[q] # None =>
        /\ requested'[q] = requested[q] /\ Live(q)'
        /\ \A e \in Env : Belongs(q, "start", e)' <=> Belongs(q, "start", e)
  BY <1>2 DEF ProcessInv, AwaitsLive
<1>5. \A q \in Op, e \in Env :
        Live(q)' /\ Belongs(q, "start", e)' /\ requested'[q] = None =>
          Live(q) /\ Belongs(q, "start", e) /\ requested[q] = None
  BY <1>2
<1>6. \A p \in processes' : launches[p.env].by = None =>
        /\ Live(p.by) => Live(p.by)'
        /\ Unresolved(p.env) => Unresolved(p.env)'
  BY <1>2
<1>7. \A w \in Waiting' : Marks(w)
  BY DEF Harmless
<1> HIDE DEF ProcessInv, Unresolved
<1> QED BY <1>1, <1>3, <1>4, <1>5, <1>6, <1>7, ProcessesSteady

LEMMA ProcessReconcileLaunch ==
  ASSUME TypeOK, ProcessInv, NEW e \in Env, ReconcileLaunch(e) PROVE ProcessInv'
<1>1. /\ todo = <<>> /\ UNCHANGED << Stores, launches, controllers, requested, mode >>
      /\ processes' \subseteq processes
  BY DEF ReconcileLaunch, Killed, files, Stores
<1>2. \A w \in Waiting' : Harmless(w)
  <2> DEFINE m == Marked(e, "unverifiable")
             n == Marked(e, "ended")
             t == Marked(e, "stopping")
  <2>1. Harmless(m) /\ Harmless(n) /\ Harmless(t)
    BY HarmlessPuts
  <2>2. todo' \in {<<>>, << m >>, << n >>, << t, n >>, << t, m >>}
    BY DEF ReconcileLaunch, Resolve, Run
  <2> HIDE DEF m, n, t, Harmless
  <2>3. Waiting' \subseteq {m, n, t}
    BY <2>2, FewWrites DEF Waiting
  <2> QED BY <2>1, <2>3
<1>3. \A f \in Env \ {e} : entries'[f] = entries[f]
  BY DEF ReconcileLaunch, Resolve, TypeOK
<1>4. Owned(e) => launches[e].by # None
  BY ProcessFields, NoneAssumption DEF Owned
<1>5. ASSUME NEW p \in processes', launches[p.env].by = None, p.env = e
      PROVE  entries'[e] = "unverifiable"
  <2>1. p \in processes
    BY <1>1
  <2>2. Fits(launches[e], p)
    BY <1>1, <1>5, <2>1, AtRest DEF ProcessInv, RecordsFit
  <2>3. Unidentified(e) /\ Candidate(e)
    BY <1>5, <2>1, <2>2 DEF Fits, Unidentified, Candidate, Alive
  <2>4. \E s : entries' = [entries EXCEPT ![e] = "unverifiable"]
    BY <1>4, <1>5, <2>3 DEF ReconcileLaunch, Resolve
  <2> QED BY <2>4 DEF TypeOK
<1>6. \A p \in processes' : launches[p.env].by = None =>
        (Unresolved(p.env) => Unresolved(p.env)')
  <2> SUFFICES ASSUME NEW p \in processes', launches[p.env].by = None, Unresolved(p.env)
               PROVE  Unresolved(p.env)'
    OBVIOUS
  <2>1. p.env \in Env
    BY <1>1, ProcessFields, ProcessesAlive
  <2>2. CASE p.env = e
    BY <1>5, <2>2 DEF Unresolved
  <2>3. CASE p.env # e
    BY <1>1, <1>3, <2>1, <2>3 DEF Unresolved
  <2> QED BY <2>2, <2>3
<1> HIDE DEF ProcessInv, Harmless, Unresolved
<1> QED BY <1>1, <1>2, <1>6, ProcessesResolved

LEMMA ProcessReconciled ==
  ASSUME TypeOK, ProcessInv, ProcessesReconciled PROVE ProcessInv'
<1>1. /\ todo = <<>> /\ UNCHANGED << Stores, launches, controllers, requested >>
      /\ UNCHANGED << entries, processes >> /\ Unreconciled = {}
  BY DEF ProcessesReconciled, durable, Stores
<1>2. \A w \in Waiting' : Harmless(w)
  <2>1. Stale \subseteq Env /\ Interrupted \subseteq Op
    BY DEF Stale, Interrupted
  <2>2. /\ \A e \in Env : Harmless(PutState(e, Reconciled(e)))
        /\ \A o \in Op : Harmless(Ended(o, "failed"))
    BY HarmlessWrites, HarmlessPuts
  <2> HIDE DEF Harmless
  <2> QED BY <2>1, <2>2, ReconciledWaits
<1>3. \A p \in processes' : launches[p.env].by = None =>
        (Unresolved(p.env) => Unresolved(p.env)')
  <2> SUFFICES ASSUME NEW p \in processes, launches[p.env].by = None, Unresolved(p.env)
               PROVE  Unresolved(p.env)'
    BY <1>1
  <2>1. Fits(launches[p.env], p)
    BY <1>1, AtRest DEF ProcessInv, RecordsFit
  <2>2. launches[p.env].state # "none" /\ p.env \in Env
    BY <2>1, ProcessFields, ProcessesAlive DEF Fits
  <2>3. entries[p.env] # "none"
    BY <1>1, <2>2 DEF Unreconciled
  <2> QED BY <1>1, <2>3 DEF Unresolved
<1> HIDE DEF ProcessInv, Harmless, Unresolved
<1> QED BY <1>1, <1>2, <1>3, ProcessesResolved

LEMMA ProcessRecovers ==
  ASSUME TypeOK, ProcessInv, NEW o \in Op,
         RecoverChange(o) \/ RecoverOrphanChange(o) \/ SweepChangeLedger(o)
         \/ RecoverJournal(o) \/ RecoverOrphan(o) \/ SettleSwitchLedger(o)
  PROVE  ProcessInv'
<1>1. /\ todo = <<>>
      /\ UNCHANGED << Stores, launches, entries, mode, processes, controllers, requested >>
  BY DEF RecoverChange, RecoverOrphanChange, SweepChangeLedger, RecoverJournal, RecoverOrphan,
         SettleSwitchLedger, Recovering, durable, volatile, Stores
<1>2. /\ \A w \in MarkSet(o) \cup Consuming(o) \cup {Removed(o)} : Harmless(w)
      /\ \A w \in Settling(o, "failed") \cup Repairing(o) \cup {Removed(o)} : Harmless(w)
      /\ \A w \in RollbackSet(o) : Harmless(w)
      /\ \A w \in FinalizeSet(o) : Harmless(w)
      /\ \A w \in UndoSet(o) \cup Repairing(o) : Harmless(w)
  BY HarmlessWrites DEF MarkSet, Consuming, RollbackSet, FinalizeSet, UndoSet
<1> HIDE DEF Harmless, ProcessInv
<1>3. \A w \in Waiting' : Harmless(w)
  <2>1. CASE RecoverChange(o)
    BY <1>2, <2>1, RecoverChangeWaits
  <2>2. CASE RecoverJournal(o)
    <3>1. journals[o].kind \in CoreTransactions
      BY <2>2 DEF RecoverJournal, CoreJournals
    <3>2. Waiting' = FinalizeSet(o) \/ Waiting' = UndoSet(o) \cup Repairing(o)
      BY <2>2, <3>1, FinalizeWaits, UndoWaits DEF RecoverJournal, Run, Waiting
    <3> QED BY <1>2, <3>2
  <2>3. CASE RecoverOrphan(o)
    BY <2>3, RecoverOrphanWaits, HarmlessWrites
  <2>4. CASE RecoverOrphanChange(o) \/ SweepChangeLedger(o) \/ SettleSwitchLedger(o)
    BY <2>4, LedgerWaits, HarmlessWrites
  <2> QED BY <2>1, <2>2, <2>3, <2>4
<1> QED BY <1>1, <1>3, ProcessesBeside

LEMMA ProcessRecoverCreating ==
  ASSUME TypeOK, ProcessInv, NEW e \in Env, RecoverCreating(e) PROVE ProcessInv'
<1>1. /\ todo = <<>> /\ todo' = << PutEnvironment(e, Errored(e)) >>
      /\ UNCHANGED << Stores, launches, entries, mode, processes, controllers, requested >>
  BY DEF RecoverCreating, Recovering, Run, durable, volatile, Stores
<1>2. Harmless(PutEnvironment(e, Errored(e)))
  BY DEF Harmless, Marks, PutEnvironment, Write
<1>3. Waiting' = {PutEnvironment(e, Errored(e))}
  BY <1>1, FewWrites DEF Waiting
<1> HIDE DEF Harmless, ProcessInv
<1> QED BY <1>1, <1>2, <1>3, ProcessesBeside

LEMMA ProcessCancels ==
  ASSUME TypeOK, ProcessInv, NEW o \in Op, CancelOperation(o) \/ CancelApply(o)
  PROVE  ProcessInv'
<1>1. /\ todo = <<>> /\ todo' = Settle(o, "cancelled")
      /\ UNCHANGED << Stores, launches, entries, mode, processes, controllers, requested >>
  BY DEF CancelOperation, CancelApply, Idle, Run, durable, Stores
<1>2. Waiting' = Settling(o, "cancelled")
  BY <1>1, SettleWrites DEF Waiting, Settling
<1>3. \A w \in Waiting' : Harmless(w)
  BY <1>2, HarmlessWrites
<1> HIDE DEF Harmless, ProcessInv
<1> QED BY <1>1, <1>3, ProcessesBeside

LEMMA ProcessExitCallback ==
  ASSUME TypeOK, ProcessInv, NEW o \in Op, NEW e \in Env, ExitCallback(o, e) PROVE ProcessInv'
<1>1. /\ todo = <<>>
      /\ UNCHANGED << Stores, launches, entries, mode, processes, controllers, requested >>
  BY DEF ExitCallback, durable, Stores
<1>2. StrayStarts(e) \subseteq Op
  BY DEF StrayStarts
<1>3. \A w \in Strays(o, e) : Harmless(w)
  BY <1>2, HarmlessWrites, HarmlessPuts DEF Strays
<1>4. \A w \in Waiting' : Harmless(w)
  BY <1>3, ExitWaits
<1> HIDE DEF Harmless, ProcessInv
<1> QED BY <1>1, <1>4, ProcessesBeside

\* Nothing but the mode changes, or a process dies.
LEMMA ProcessesStill ==
  ASSUME TypeOK, ProcessInv,
         UNCHANGED << operations, launches, todo, controllers, requested >>,
         processes' \subseteq processes,
         \A e \in Env : Unresolved(e) => Unresolved(e)'
  PROVE  ProcessInv'
<1>1. /\ \A q, k, e : Belongs(q, k, e)' <=> Belongs(q, k, e)
      /\ \A q : Live(q)' <=> Live(q)
      /\ \A e : Upcoming(e)' = Upcoming(e) /\ Records(e)' = Records(e)
  BY DEF Belongs, Live, Upcoming, Records, Waiting
<1>2. \A p \in processes' : p \in processes /\ p.env \in Env
  BY ProcessFields, ProcessesAlive
<1>3. OneRunning' /\ OneWorker' /\ AwaitsLive' /\ OwnProcess'
  BY <1>1, <1>2 DEF ProcessInv, OneRunning, OneWorker, AwaitsLive, OwnProcess, Works
<1>4. RecordsFit' /\ OwnIntent'
  BY <1>1, <1>2 DEF ProcessInv, RecordsFit, OwnIntent
<1>5. VacantUntilSpawn'
  BY <1>1, <1>2 DEF ProcessInv, VacantUntilSpawn, Awaits
<1>6. Attached'
  BY <1>1, <1>2 DEF ProcessInv, Attached
<1> QED BY <1>3, <1>4, <1>5, <1>6 DEF ProcessInv

LEMMA ProcessModeStep ==
  ASSUME TypeOK, ProcessInv,
         Boot \/ BeginClose \/ ChangesRecovered \/ CoreRecovered
         \/ (\E p \in Alive : ProcessDies(p)) \/ UNCHANGED vars
  PROVE  ProcessInv'
<1>1. /\ UNCHANGED << operations, launches, todo, controllers, requested, entries >>
      /\ processes' \subseteq processes
  BY DEF Boot, BeginClose, ChangesRecovered, CoreRecovered, ProcessDies, vars, durable, files,
         volatile
<1>2. \/ mode' = mode
      \/ mode \in {"recoverCore", "ready"}
      \/ mode' \in {"recoverChanges", "recoverProcesses"}
  BY DEF Boot, BeginClose, ChangesRecovered, CoreRecovered, ProcessDies, vars, durable, volatile,
         Idle, Recovering
<1>3. \A e \in Env : Unresolved(e) => Unresolved(e)'
  BY <1>1, <1>2 DEF Unresolved
<1> HIDE DEF ProcessInv, Unresolved
<1> QED BY <1>1, <1>3, ProcessesStill

LEMMA ProcessGone ==
  ASSUME TypeOK, ProcessInv, Crash \/ FinishClose PROVE ProcessInv'
<1>1. /\ UNCHANGED operations /\ processes' \subseteq processes /\ todo' = <<>>
      /\ mode' = "down" /\ entries' = [e \in Env |-> "none"]
      /\ controllers' = [o \in Op |-> FALSE] /\ requested' = [o \in Op |-> None]
  BY DEF Crash, FinishClose, LoseMemory, Run, durable
<1>2. \A e \in Env : launches'[e] = launches[e]
                     \/ /\ launches'[e].by = launches[e].by /\ launches'[e].gen = launches[e].gen
                        /\ launches'[e].state # "none"
  <2>1. CASE Crash
    BY <2>1 DEF Crash, durable
  <2>2. CASE FinishClose
    <3>1. \A e \in Env : launches[e] \in LaunchRecord
      BY DEF TypeOK
    <3>2. \A e \in Env : \/ launches'[e] = launches[e]
                         \/ launches'[e] = [launches[e] EXCEPT !.state = "ended"]
      BY <2>2 DEF FinishClose
    <3> QED BY <3>1, <3>2 DEF LaunchRecord
  <2> QED BY <2>1, <2>2
<1>3. Waiting' = {}
  BY <1>1, FewWrites DEF Waiting
<1>4. /\ \A o \in Op : ~Live(o)'
      /\ \A e \in Env : Upcoming(e)' = {} /\ Records(e)' = {launches'[e]}
      /\ \A e \in Env : Unresolved(e)'
  BY <1>1, <1>3 DEF Live, Upcoming, Records, Unresolved
<1>5. \A p \in processes' : p \in processes /\ p.env \in Env
  BY <1>1, ProcessFields, ProcessesAlive
<1>6. OneRunning' /\ OneWorker' /\ AwaitsLive' /\ OwnProcess'
  BY <1>1, <1>4, <1>5 DEF ProcessInv, OneRunning, OneWorker, AwaitsLive, OwnProcess, Works
<1>7. RecordsFit'
  <2>1. \A p \in processes' : Fits(launches[p.env], p)
    BY <1>5 DEF ProcessInv, RecordsFit, Records
  <2> QED BY <1>2, <1>4, <1>5, <2>1 DEF RecordsFit, Fits
<1>8. VacantUntilSpawn' /\ OwnIntent' /\ Attached'
  BY <1>1, <1>4, <1>5 DEF VacantUntilSpawn, OwnIntent, Attached, Awaits
<1> QED BY <1>6, <1>7, <1>8 DEF ProcessInv

(***************************************************************************)
(* The requests.                                                           *)
(***************************************************************************)

\* A write of a request of kind k about e, apart from a start that is not refused.
Regular(w, o, k, e) ==
  /\ Marks(w)
  /\ w.store = "operations" => w.key = o /\ w.val.kind = k /\ w.val.env = e
  /\ w.store = "controllers" => w.key = o /\ k # "start" /\ (k = "stop" => ~Busy(e))

LEMMA FreshRequest ==
  ASSUME TypeOK, StoresInv, todo = <<>>, NEW o \in Op, ledger[o].state = "none"
  PROVE  operations[o].kind \notin Kinds /\ ~controllers[o]
<1>1. ~Begins(o)
  BY DEF Begins
<1> QED BY <1>1 DEF StoresInv, Fresh, Blank

LEMMA ProcessesAside ==
  ASSUME TypeOK, StoresInv, ProcessInv, NEW o \in Op, NEW k \in Kinds, NEW e \in Env,
         Idle, UNCHANGED << Stores, launches, entries, mode, processes, controllers, requested >>,
         ledger[o].state = "none", \A w \in Waiting' : Regular(w, o, k, e)
  PROVE  ProcessInv'
<1>1. todo = <<>> /\ UNCHANGED << operations, launches >>
  BY DEF Idle, Stores
<1>2. /\ Waiting = {}
      /\ \A q, l, f : Belongs(q, l, f) <=> operations[q].kind = l /\ operations[q].env = f
      /\ \A q : Live(q) <=> controllers[q]
      /\ \A q \in Op : requested[q] # None => controllers[q] /\ operations[q].kind = "start"
  BY <1>1, AtRest
<1>3. operations[o].kind \notin Kinds /\ ~controllers[o]
  BY <1>1, FreshRequest
<1>4. "start" \in Kinds /\ "stop" \in Kinds
  BY DEF Kinds
<1>5. \A q \in Op \ {o} : /\ Live(q)' <=> Live(q)
                          /\ \A l, f : Belongs(q, l, f)' <=> Belongs(q, l, f)
  BY <1>1, <1>2 DEF Live, Belongs, Regular
<1>6. /\ \A l, f : Belongs(o, l, f)' => (l = k /\ f = e) \/ operations[o].kind = l
      /\ Live(o)' => k # "start" /\ (k = "stop" => ~Busy(e))
  BY <1>1, <1>2, <1>3 DEF Live, Belongs, Regular
<1>7. ASSUME NEW q \in Op, NEW f \in Env, Works(q, f)'
      PROVE  Works(q, f) \/ (q = o /\ f = e /\ ~Busy(e))
  BY <1>3, <1>4, <1>5, <1>6, <1>7 DEF Works
<1>8. ASSUME NEW q \in Op, Works(q, e), ~Busy(e) PROVE FALSE
  BY <1>2, <1>8 DEF Works, Busy, OfKind
<1>9. ASSUME NEW q \in Op, NEW r \in Op, NEW f \in Env, Works(q, f)', Works(r, f)'
      PROVE  q = r
  BY <1>7, <1>8, <1>9 DEF ProcessInv, OneWorker
<1>10. \A q \in Op : requested'[q] # None =>
        /\ requested'[q] = requested[q] /\ Live(q)'
        /\ \A f \in Env : Belongs(q, "start", f)' <=> Belongs(q, "start", f)
  BY <1>2, <1>3, <1>5
<1>11. \A q \in Op, f \in Env :
        Live(q)' /\ Belongs(q, "start", f)' /\ requested'[q] = None =>
          Live(q) /\ Belongs(q, "start", f) /\ requested[q] = None
  BY <1>3, <1>4, <1>5, <1>6
<1>12. \A p \in processes' : launches[p.env].by = None =>
        /\ Live(p.by) => Live(p.by)'
        /\ Unresolved(p.env) => Unresolved(p.env)'
  <2>1. \A p \in processes : p.by \in Op /\ p.by # o
    BY <1>3, <1>4, ProcessFields, ProcessesAlive DEF ProcessInv, OwnProcess
  <2> QED BY <1>5, <2>1 DEF Unresolved
<1>13. \A w \in Waiting' : Marks(w)
  BY DEF Regular
<1> HIDE DEF ProcessInv, Unresolved
<1> QED BY <1>1, <1>9, <1>10, <1>11, <1>12, <1>13, ProcessesSteady

LEMMA RegularWrites ==
  ASSUME TypeOK, NEW o \in Op, NEW k \in Kinds, NEW e \in Env
  PROVE  /\ \A w \in Answering(o, k) : Regular(w, o, k, e)
         /\ \A s : Regular(PutOperation(o, k, e, s), o, k, e)
         /\ \A r : Regular(PutJournal(o, r), o, k, e)
         /\ \A r : Regular(PutEnvironment(e, r), o, k, e)
         /\ \A m, s : Regular(PutLedger(o, m, s), o, k, e)
         /\ \A s : Regular(PutState(e, s), o, k, e)
         /\ \A s : s # "none" => Regular(Marked(e, s), o, k, e)
         /\ k # "start" /\ (k = "stop" => ~Busy(e)) => Regular(Register(o), o, k, e)
<1>1. \A s : Regular(PutOperation(o, k, e, s), o, k, e)
  BY OperationFields DEF Regular, Marks
<1>2. /\ \A r : Regular(PutJournal(o, r), o, k, e)
      /\ \A r : Regular(PutEnvironment(e, r), o, k, e)
      /\ \A m, s : Regular(PutLedger(o, m, s), o, k, e)
  BY DEF Regular, Marks, PutJournal, PutLedger, PutEnvironment, Write
<1>3. \A s : Regular(PutState(e, s), o, k, e)
  BY StateFields DEF Regular, Marks
<1>4. \A s : s # "none" => Regular(Marked(e, s), o, k, e)
  <2>1. \A s : Marked(e, s).store = "launches"
    BY DEF Marked, Write
  <2> QED BY <2>1, HarmlessPuts DEF Regular, Harmless
<1>5. k # "start" /\ (k = "stop" => ~Busy(e)) => Regular(Register(o), o, k, e)
  BY DEF Regular, Marks, Register, Write
<1> HIDE DEF Regular
<1> QED BY <1>1, <1>2, <1>3, <1>4, <1>5 DEF Answering

LEMMA RegularParts ==
  ASSUME TypeOK, NEW o \in Op, NEW k \in Kinds, NEW e \in Env
  PROVE  /\ k \in Built => \A p : \A w \in Building(o, k, e, p) : Regular(w, o, k, e)
         /\ \A w \in Departing(o, k, e) : Regular(w, o, k, e)
         /\ \A w \in Refusing(o, k, e) : Regular(w, o, k, e)
         /\ k = "restore" => \A g : \A w \in Restoring(o, e, g) : Regular(w, o, k, e)
<1>1. \A s : Regular(PutGeneration(o, s), o, k, e)
  BY DEF Regular, Marks, PutGeneration, Write
<1>2. k \in Built => k # "start" /\ k # "stop"
  BY DEF Built, CoreTransactions
<1> HIDE DEF Regular
<1>3. k \in Built => \A p : \A w \in Building(o, k, e, p) : Regular(w, o, k, e)
  BY <1>1, <1>2, RegularWrites DEF Building
<1>4. k = "restore" => \A g : \A w \in Restoring(o, e, g) : Regular(w, o, k, e)
  BY RegularWrites DEF Restoring
<1> QED BY <1>3, <1>4, RegularWrites DEF Departing, Refusing

LEMMA ProcessRequests ==
  ASSUME TypeOK, StoresInv, ProcessInv, NEW o \in Op, NEW e \in Env,
         \/ CreateEnvironment(o, e) \/ SwitchCombination(o, e) \/ NoopSwitch(o, e)
         \/ (\E p \in Plan : ApplyChange(o, e, p))
         \/ (\E g \in Op : RestoreGeneration(o, e, g)) \/ RestoreActive(o, e)
  PROVE  ProcessInv'
<1>1. /\ Idle /\ ledger[o].state = "none"
      /\ UNCHANGED << Stores, launches, entries, mode, processes, controllers, requested >>
  <2>1. CASE CreateEnvironment(o, e) \/ RestoreActive(o, e)
    BY <2>1 DEF CreateEnvironment, RestoreActive, NewRequest, durable, volatile, Stores
  <2>2. CASE SwitchCombination(o, e) \/ NoopSwitch(o, e)
    BY <2>2 DEF SwitchCombination, NoopSwitch, MaySwitch, NewRequest, durable, volatile, Stores
  <2>3. CASE \E p \in Plan : ApplyChange(o, e, p)
    BY <2>3 DEF ApplyChange, NewRequest, durable, Stores
  <2>4. CASE \E g \in Op : RestoreGeneration(o, e, g)
    <3>1. PICK g \in Op : RestoreGeneration(o, e, g)
      BY <2>4
    <3>2. Idle /\ ledger[o].state = "none" /\ UNCHANGED durable
      BY <3>1, Zenon DEF RestoreGeneration, NewRequest
    <3>3. UNCHANGED << processes, mode, controllers, volatile >>
      BY <3>1, Zenon DEF RestoreGeneration
    <3> QED BY <3>2, <3>3 DEF durable, volatile, Stores
  <2> QED BY <2>1, <2>2, <2>3, <2>4
<1>2. {"create", "switch", "apply"} \subseteq Built /\ {"create", "switch", "apply", "restore"}
        \subseteq Kinds
  BY DEF Built, CoreTransactions, Kinds
<1>3. PICK k \in Kinds : \A w \in Waiting' : Regular(w, o, k, e)
  <2>1. CASE CreateEnvironment(o, e)
    BY <1>2, <2>1, CreateWaits, RegularWrites, RegularParts
  <2>2. CASE SwitchCombination(o, e)
    BY <1>2, <2>2, SwitchWaits, RegularWrites, RegularParts
  <2>3. CASE NoopSwitch(o, e)
    BY <1>2, <2>3, NoopWaits, RegularWrites
  <2>4. CASE \E p \in Plan : ApplyChange(o, e, p)
    BY <1>2, <2>4, ApplyWaits, RegularWrites, RegularParts
  <2>5. CASE \E g \in Op : RestoreGeneration(o, e, g)
    BY <1>2, <2>5, RestoreWaits, RegularWrites, RegularParts
  <2>6. CASE RestoreActive(o, e)
    BY <1>2, <2>6, RestoreActiveWaits, RegularWrites
  <2> QED BY <2>1, <2>2, <2>3, <2>4, <2>5, <2>6
<1> HIDE DEF ProcessInv, Regular
<1> QED BY <1>1, <1>3, ProcessesAside

LEMMA ProcessStop ==
  ASSUME TypeOK, StoresInv, ProcessInv, NEW o \in Op, NEW e \in Env, Stop(o, e)
  PROVE  ProcessInv'
<1>1. /\ Idle /\ ledger[o].state = "none"
      /\ UNCHANGED << Stores, launches, entries, mode, processes, controllers, requested >>
  BY DEF Stop, NewRequest, durable, volatile, Stores
<1>2. "stop" \in Kinds
  BY DEF Kinds
<1>3. \A w \in Waiting' : Regular(w, o, "stop", e)
  BY <1>2, StopWaits, RegularWrites, RegularParts
<1> HIDE DEF ProcessInv, Regular
<1> QED BY <1>1, <1>2, <1>3, ProcessesAside

\* Where neither a task is under way nor the record names a process, there is none.
LEMMA Vacant ==
  ASSUME TypeOK, ProcessInv, Idle, ~blocked, NEW e \in Env, ~Busy(e), ~Owned(e),
         NEW p \in processes
  PROVE  p.env # e
<1> SUFFICES ASSUME p.env = e PROVE FALSE
  OBVIOUS
<1>1. /\ \A o : Live(o) <=> controllers[o]
      /\ Records(e) = {launches[e]}
  BY AtRest DEF Idle
<1>2. Fits(launches[e], p)
  BY <1>1 DEF ProcessInv, RecordsFit
<1>3. launches[e].by = None
  BY <1>2 DEF Fits, Owned, Alive
<1>4. Live(p.by) \/ Unresolved(e)
  BY <1>1, <1>3 DEF ProcessInv, Attached
<1>5. ~Live(p.by)
  BY <1>1, ProcessFields, ProcessesAlive DEF ProcessInv, OwnProcess, Busy, OfKind
<1>6. ~Unresolved(e)
  BY DEF Unresolved, blocked, Idle
<1> QED BY <1>4, <1>5, <1>6

LEMMA ProcessStart ==
  ASSUME TypeOK, StoresInv, ProcessInv, NEW o \in Op, NEW e \in Env, Start(o, e)
  PROVE  ProcessInv'
<1>1. /\ Idle /\ todo = <<>> /\ ledger[o].state = "none" /\ ~blocked
      /\ UNCHANGED << Stores, launches, entries, mode, processes, controllers >>
      /\ UNCHANGED operations /\ environments[e].gen # None
  BY DEF Start, Idle, NewRequest, Installed, durable, Stores
<1>2. "start" \in Kinds
  BY DEF Kinds
<1>3. CASE /\ Waiting' = Answering(o, "start") \cup Departing(o, "start", e)
                           \cup Refusing(o, "start", e)
           /\ UNCHANGED requested
  <2>1. \A w \in Waiting' : Regular(w, o, "start", e)
    BY <1>2, <1>3, RegularWrites, RegularParts
  <2> HIDE DEF ProcessInv, Regular
  <2> QED BY <1>1, <1>2, <1>3, <2>1, ProcessesAside
<1>4. CASE /\ Waiting' = Answering(o, "start") \cup Departing(o, "start", e)
                \cup {Register(o)}
                \cup IF launches[e].by = None THEN {Spawning(e, environments[e].gen)} ELSE {}
           /\ ~Busy(e) /\ ~Owned(e)
           /\ requested' = [requested EXCEPT ![o] = environments[e].gen]
  <2> DEFINE g == environments[e].gen
             r == [state |-> "spawning", gen |-> g, by |-> None]
  <2>1. /\ Waiting = {}
        /\ \A q, l, f : Belongs(q, l, f) <=> operations[q].kind = l /\ operations[q].env = f
        /\ \A q : Live(q) <=> controllers[q]
        /\ \A f : Upcoming(f) = {} /\ Records(f) = {launches[f]}
        /\ \A q \in Op : requested[q] # None => controllers[q] /\ operations[q].kind = "start"
    BY <1>1, AtRest
  <2>2. operations[o].kind \notin Kinds /\ ~controllers[o]
    BY <1>1, FreshRequest
  <2>3. \A p \in processes : p.env # e
    BY <1>1, <1>4, Vacant
  <2>4. \A w \in Waiting' :
          \/ Regular(w, o, "start", e) /\ w.store # "launches" /\ w.store # "controllers"
          \/ w = Register(o)
          \/ w = Spawning(e, g) /\ launches[e].by = None
    <3>1. \A w \in Answering(o, "start") : w.store = "ledger"
      BY AnswerFields
    <3>2. \A s : /\ PutOperation(o, "start", e, s).store = "operations"
                 /\ PutState(e, s).store = "environments"
      BY OperationFields, StateFields
    <3>3. \A w \in Departing(o, "start", e) : w.store \in {"operations", "environments"}
      BY <3>2 DEF Departing
    <3>4. \A w \in Answering(o, "start") \cup Departing(o, "start", e) : Regular(w, o, "start", e)
      BY <1>2, RegularWrites, RegularParts
    <3> QED BY <1>4, <3>1, <3>3, <3>4
  <2>5. /\ Register(o).store = "controllers" /\ Register(o).key = o
        /\ Spawning(e, g).store = "launches" /\ Spawning(e, g).key = e
        /\ Spawning(e, g).val = r
        /\ PutOperation(o, "start", e, "active") \in Waiting' /\ Register(o) \in Waiting'
        /\ launches[e].by = None => Spawning(e, g) \in Waiting'
    BY <1>4 DEF Register, Spawning, PutLaunch, Write, Departing
  <2>6. r.by = None /\ r.gen = g /\ r.state # "none"
    OBVIOUS
  <2>7. g # None /\ requested'[o] = g /\ \A q \in Op \ {o} : requested'[q] = requested[q]
    BY <1>1, <1>4 DEF TypeOK
  <2> HIDE DEF r, g
  <2>8. /\ \A f \in Env : \A s \in Upcoming(f)' : f = e /\ s = r /\ launches[e].by = None
        /\ launches[e].by = None => Upcoming(e)' # {}
        /\ \A f \in Env : \A s \in Records(f)' :
             s = launches[f] \/ (f = e /\ s = r /\ launches[e].by = None)
    <3>1. \A f \in Env : \A s \in Upcoming(f)' : f = e /\ s = r /\ launches[e].by = None
      BY <2>4, <2>5 DEF Upcoming
    <3>2. launches[e].by = None => Upcoming(e)' # {}
      BY <2>5 DEF Upcoming
    <3> QED BY <1>1, <3>1, <3>2 DEF Records
  <2>9. /\ Live(o)' /\ Belongs(o, "start", e)'
        /\ \A l \in Kinds, f \in Env : Belongs(o, l, f)' => l = "start" /\ f = e
    <3>1. Live(o)' /\ Belongs(o, "start", e)'
      BY <2>5, OperationFields DEF Live, Belongs
    <3> QED BY <1>1, <2>2, <2>4, <2>5, <3>1 DEF Belongs, Regular
  <2>10. \A q \in Op \ {o} : /\ Live(q)' <=> Live(q)
                             /\ \A l, f : Belongs(q, l, f)' <=> Belongs(q, l, f)
    BY <1>1, <2>1, <2>4, <2>5 DEF Live, Belongs, Regular
  <2>11. "stop" \in Kinds /\ \A p \in processes : p.env \in Env /\ p.by \in Op \ {o}
    BY <1>2, <2>2, ProcessFields, ProcessesAlive DEF ProcessInv, OwnProcess, Kinds
  <2>12. ASSUME NEW q \in Op, q # o PROVE ~Works(q, e)'
    BY <1>4, <2>1, <2>10, <2>12 DEF Works, Busy, OfKind
  <2>13. ASSUME NEW q \in Op, NEW f \in Env, Works(q, f)'
         PROVE  (q = o /\ f = e) \/ (q # o /\ f # e /\ Works(q, f))
    BY <1>2, <2>9, <2>10, <2>11, <2>12, <2>13 DEF Works
  <2>14. OneRunning' /\ OwnProcess'
    BY <1>1 DEF ProcessInv, OneRunning, OwnProcess
  <2>15. OneWorker'
    BY <2>13 DEF ProcessInv, OneWorker
  <2>16. AwaitsLive'
    BY <1>2, <2>7, <2>9, <2>10 DEF ProcessInv, AwaitsLive
  <2>17. RecordsFit'
    BY <1>1, <2>1, <2>3, <2>8, <2>11 DEF ProcessInv, RecordsFit
  <2>18. VacantUntilSpawn'
    <3> SUFFICES ASSUME NEW q \in Op, NEW f \in Env, Awaits(q, f)'
                 PROVE  /\ \A p \in processes : p.env # f
                        /\ \A s \in Upcoming(f)' : s.by = None => Intent(s, requested'[q])
                        /\ launches[f].by = None =>
                             Intent(launches[f], requested'[q]) \/ Upcoming(f)' # {}
      BY <1>1 DEF VacantUntilSpawn, Intent
    <3>1. CASE q = o
      <4>1. f = e
        BY <1>2, <2>9, <3>1 DEF Awaits
      <4> QED BY <2>3, <2>6, <2>7, <2>8, <3>1, <4>1 DEF Intent
    <3>2. CASE q # o
      <4>1. Awaits(q, f) /\ requested'[q] = requested[q]
        BY <2>7, <2>10, <3>2 DEF Awaits
      <4>2. Works(q, f)'
        BY <2>10, <3>2, <4>1 DEF ProcessInv, AwaitsLive, Awaits, Works
      <4>3. f # e
        BY <2>13, <3>2, <4>2
      <4> QED BY <2>1, <2>8, <4>1, <4>3 DEF ProcessInv, VacantUntilSpawn
    <3> QED BY <3>1, <3>2
  <2>19. OwnIntent'
    <3> SUFFICES ASSUME NEW q \in Op, NEW f \in Env, Live(q)', Belongs(q, "start", f)',
                        requested'[q] = None
                 PROVE  \A s \in Records(f)' : s.by \in {None, q}
      BY DEF OwnIntent
    <3>1. q # o
      BY <2>7
    <3>2. f # e
      BY <2>12, <3>1 DEF Works
    <3> QED BY <2>1, <2>7, <2>8, <2>10, <3>1, <3>2 DEF ProcessInv, OwnIntent
  <2>20. Attached'
    <3>1. \A f \in Env : Unresolved(f)' <=> Unresolved(f)
      BY <1>1 DEF Unresolved
    <3> QED BY <1>1, <2>1, <2>3, <2>8, <2>10, <2>11, <3>1 DEF ProcessInv, Attached
  <2> QED BY <2>14, <2>15, <2>16, <2>17, <2>18, <2>19, <2>20 DEF ProcessInv
<1> QED BY <1>3, <1>4, StartWaits

LEMMA ProcessNext ==
  ASSUME TypeOK, StoresInv, AttendedInv, ProcessInv, [Next]_vars, ~WriteFails
  PROVE  ProcessInv'
<1> HIDE DEF ProcessInv
<1>1. CASE Requests
  BY <1>1, ProcessRequests, ProcessStart, ProcessStop DEF Requests
<1>2. CASE Cancels
  BY <1>2, ProcessCancels DEF Cancels
<1>3. CASE Surroundings
  BY <1>3, ProcessGone, ProcessModeStep, ProcessExitCallback DEF Surroundings
<1>4. CASE Boot \/ FinishClose \/ Persist \/ UNCHANGED vars
  BY <1>4, ProcessModeStep, ProcessGone, ProcessPersist
<1>5. CASE RecoverySteps
  BY <1>5, ProcessRecovers, ProcessRecoverCreating, ProcessReconcileLaunch, ProcessReconciled,
     ProcessModeStep
     DEF RecoverySteps
<1>6. CASE \E o \in Op : TaskSteps(o)
  BY <1>6, ProcessInstallReturns, ProcessStageReturns, ProcessLaunchIntent, ProcessSpawn,
     ProcessIdentify, ProcessReady, ProcessStartFails, ProcessStopTask
     DEF TaskSteps
<1> QED BY <1>1, <1>2, <1>3, <1>4, <1>5, <1>6 DEF Next

\* The invariant, until the disk refuses a write.
ProcessSound == faults = 0 => ProcessInv

LEMMA ProcessUnrefused ==
  TypeOK /\ AttendedSound /\ ProcessSound /\ [Next]_vars => ProcessSound'
<1> SUFFICES ASSUME TypeOK, AttendedSound, ProcessSound, [Next]_vars, faults' = 0
             PROVE  ProcessInv'
  BY DEF ProcessSound
<1>1. faults = 0 /\ ~WriteFails
  <2>1. WriteFails => faults' # 0
    BY DEF WriteFails, TypeOK
  <2>2. ~WriteFails => faults' = faults
    BY FaultsKept
  <2> QED BY <2>1, <2>2
<1> HIDE DEF ProcessInv
<1> QED BY <1>1, ProcessNext DEF AttendedSound, ProcessSound

\* Starts, stops, processes and launch records agree in every state that is
\* reached without a refused write.
THEOREM ProcessInvariant == Spec => []ProcessSound
<1>1. Init => ProcessSound
  BY ProcessInit DEF ProcessSound
<1> QED BY <1>1, ProcessUnrefused, AttendedInvariant, TypeCorrect, PTL DEF Spec

(***************************************************************************)
(* The processes that outlived their failed start.                         *)
(***************************************************************************)

\* A survivor is the only process of its start, which is over.
SurvivorInv ==
  /\ \A s \in survivors : requested[s.by] = None /\ ledger[s.by].state # "none"
  /\ \A s \in survivors, p \in processes : s.by # p.by
  /\ \A s, t \in survivors : s.by = t.by => s = t

LEMMA SurvivorFields ==
  ASSUME TypeOK, NEW s \in survivors PROVE s.by \in Op
BY ProcessFields DEF Alive

\* Most steps let a process only die, and forget no request.
Lingers ==
  /\ survivors' \subseteq survivors /\ processes' \subseteq processes
  /\ \A o \in Op : ledger[o].state # "none" => ledger'[o].state # "none"
  /\ \A o \in Op : requested[o] = None => requested'[o] = None

LEMMA SurvivorsLinger == ASSUME TypeOK, SurvivorInv, Lingers PROVE SurvivorInv'
BY SurvivorFields DEF SurvivorInv, Lingers

LEMMA LingersUntouched == UNCHANGED << survivors, processes, ledger, requested >> => Lingers
BY DEF Lingers

LEMMA SurvivorRequests ==
  ASSUME TypeOK, SurvivorInv, Requests \/ Cancels, \A o \in Op, e \in Env : ~Start(o, e)
  PROVE  SurvivorInv'
<1>1. UNCHANGED << survivors, processes, ledger, requested >>
  <2>1. ASSUME NEW o \in Op, NEW e \in Env,
               CreateEnvironment(o, e) \/ SwitchCombination(o, e) \/ NoopSwitch(o, e)
        PROVE  UNCHANGED << survivors, processes, ledger, requested >>
    BY <2>1 DEF durable, volatile, CreateEnvironment, SwitchCombination, NoopSwitch
  <2>2. ASSUME NEW o \in Op, NEW e \in Env, NEW p \in Plan, ApplyChange(o, e, p)
        PROVE  UNCHANGED << survivors, processes, ledger, requested >>
    BY <2>2 DEF durable, ApplyChange
  <2>3. ASSUME NEW o \in Op, NEW e \in Env, NEW g \in Op,
               RestoreGeneration(o, e, g) \/ RestoreActive(o, e)
        PROVE  UNCHANGED << survivors, processes, ledger, requested >>
    <3>1. UNCHANGED << durable, processes, volatile >>
      BY <2>3, Zenon DEF RestoreGeneration, RestoreActive
    <3> QED BY <3>1 DEF durable, volatile
  <2>4. ASSUME NEW o \in Op, NEW e \in Env, Stop(o, e)
        PROVE  UNCHANGED << survivors, processes, ledger, requested >>
    BY <2>4 DEF durable, volatile, Stop
  <2>5. ASSUME NEW o \in Op, CancelOperation(o) \/ CancelApply(o)
        PROVE  UNCHANGED << survivors, processes, ledger, requested >>
    BY <2>5 DEF durable, CancelOperation, CancelApply
  <2> QED BY <2>1, <2>2, <2>3, <2>4, <2>5 DEF Requests, Cancels
<1> QED BY <1>1, LingersUntouched, SurvivorsLinger

LEMMA SurvivorStart ==
  ASSUME TypeOK, SurvivorInv, NEW o \in Op, NEW e \in Env, Start(o, e) PROVE SurvivorInv'
<1>1. /\ UNCHANGED << survivors, processes, ledger >> /\ ledger[o].state = "none"
      /\ requested' = requested \/ requested' = [requested EXCEPT ![o] = environments[e].gen]
  BY DEF Start, NewRequest, durable
<1>2. \A q \in Op \ {o} : requested'[q] = requested[q]
  BY <1>1 DEF TypeOK
<1> QED BY <1>1, <1>2, SurvivorFields DEF SurvivorInv

LEMMA SurvivorSpawn ==
  ASSUME TypeOK, SurvivorInv, NEW o \in Op, Spawn(o) PROVE SurvivorInv'
<1> DEFINE new == [env |-> operations[o].env, by |-> o, gen |-> requested[o]]
<1>1. /\ UNCHANGED << survivors, ledger >> /\ requested[o] # None
      /\ processes' = processes \cup {new}
      /\ requested' = [requested EXCEPT ![o] = None]
  BY DEF Spawn, durable
<1>2. \A q \in Op : requested[q] = None => requested'[q] = None
  BY <1>1 DEF TypeOK
<1>3. new.by = o
  OBVIOUS
<1> HIDE DEF new
<1>4. \A p \in processes' : p \in processes \/ p.by = o
  BY <1>1, <1>3
<1> QED BY <1>1, <1>2, <1>4, SurvivorFields DEF SurvivorInv

LEMMA SurvivorStartFails ==
  ASSUME TypeOK, StoresInv, ProcessInv, SurvivorInv, NEW o \in Op, StartFails(o)
  PROVE  SurvivorInv'
<1>1. /\ UNCHANGED ledger /\ controllers[o] /\ todo = <<>>
      /\ processes' = {p \in processes : p.by # o}
      /\ requested' = [requested EXCEPT ![o] = None]
      /\ \/ survivors' = {p \in survivors : p.by # o}
         \/ survivors' = survivors \cup {p \in processes : p.by = o}
  BY DEF StartFails, TaskOf, TaskReturns, Killed, Outlived, files
<1>2. \A q \in Op : requested[q] = None \/ q = o => requested'[q] = None
  BY <1>1 DEF TypeOK
<1>3. ledger[o].state # "none"
  BY <1>1, FreshRequest
<1>4. \A s \in survivors' : s \in survivors \/ (s \in processes /\ s.by = o)
  BY <1>1
<1>5. \A s \in survivors' : requested'[s.by] = None /\ ledger'[s.by].state # "none"
  BY <1>1, <1>2, <1>3, <1>4, SurvivorFields DEF SurvivorInv
<1>6. \A s \in survivors', p \in processes' : s.by # p.by
  BY <1>1, <1>4 DEF SurvivorInv
<1>7. ASSUME NEW s \in survivors', NEW t \in survivors', s.by = t.by PROVE s = t
  <2>1. CASE s \in survivors /\ t \in survivors
    BY <1>7, <2>1 DEF SurvivorInv
  <2>2. CASE s \in processes /\ t \in processes
    <3>1. s.env = t.env
      BY <1>7, <2>2 DEF ProcessInv, OwnProcess
    <3> QED BY <2>2, <3>1 DEF ProcessInv, OneRunning
  <2> QED BY <1>4, <1>7, <2>1, <2>2 DEF SurvivorInv
<1> QED BY <1>5, <1>6, <1>7 DEF SurvivorInv

LEMMA SurvivorPersist ==
  ASSUME TypeOK, StoresInv, SurvivorInv, Persist PROVE SurvivorInv'
<1>1. UNCHANGED << survivors, processes, requested >>
  BY DEF Persist, volatile
<1>2. PICK w : Lands(w)
  BY Landing DEF StoresInv
<1>3. w \in Waiting /\ \A o \in Op : ledger'[o] = IF w.store = "ledger" /\ w.key = o
                                                  THEN w.val ELSE ledger[o]
  BY <1>2 DEF Lands
<1>4. w.store = "ledger" => w.val.state # "none"
  BY <1>3 DEF StoresInv, LedgerStays
<1> QED BY <1>1, <1>3, <1>4, SurvivorsLinger DEF Lingers

LEMMA SurvivorNext ==
  ASSUME TypeOK, StoresInv, ProcessInv, SurvivorInv, [Next]_vars, ~WriteFails
  PROVE  SurvivorInv'
<1> HIDE DEF ProcessInv, SurvivorInv
<1>1. CASE Requests \/ Cancels
  BY <1>1, SurvivorRequests, SurvivorStart
<1>2. CASE Surroundings \/ Boot \/ FinishClose \/ UNCHANGED vars
  <2>1. Lingers
    BY <1>2 DEF Surroundings, Crash, ProcessDies, ExitCallback, BeginClose, Boot, FinishClose,
       LoseMemory, durable, files, volatile, vars, Lingers
  <2> QED BY <2>1, SurvivorsLinger
<1>3. CASE Persist
  BY <1>3, SurvivorPersist
<1>4. CASE RecoverySteps
  <2>1. Lingers
    BY <1>4 DEF RecoverySteps, RecoverChange, RecoverOrphanChange, SweepChangeLedger,
       ChangesRecovered, ReconcileLaunch, ProcessesReconciled, RecoverJournal, RecoverOrphan,
       SettleSwitchLedger, RecoverCreating, CoreRecovered, Recovering, Killed, durable, files,
       volatile, Lingers
  <2> QED BY <2>1, SurvivorsLinger
<1>5. ASSUME NEW o \in Op,
             \/ InstallReturns(o) \/ StageReturns(o) \/ LaunchIntent(o) \/ Identify(o) \/ Ready(o)
             \/ StopReturns(o) \/ StopUnconfirmed(o)
      PROVE  SurvivorInv'
  <2>1. Lingers
    BY <1>5 DEF InstallReturns, StageReturns, LaunchIntent, Identify, Ready, StopReturns,
       StopUnconfirmed, Killed, durable, files, volatile, Lingers
  <2> QED BY <2>1, SurvivorsLinger
<1>6. CASE \E o \in Op : TaskSteps(o)
  BY <1>5, <1>6, SurvivorSpawn, SurvivorStartFails DEF TaskSteps
<1> QED BY <1>1, <1>2, <1>3, <1>4, <1>6 DEF Next

\* The invariant, until the disk refuses a write.
SurvivorSound == faults = 0 => SurvivorInv

LEMMA SurvivorUnrefused ==
  TypeOK /\ AttendedSound /\ ProcessSound /\ SurvivorSound /\ [Next]_vars => SurvivorSound'
<1> SUFFICES ASSUME TypeOK, AttendedSound, ProcessSound, SurvivorSound, [Next]_vars, faults' = 0
             PROVE  SurvivorInv'
  BY DEF SurvivorSound
<1>1. faults = 0 /\ ~WriteFails
  <2>1. WriteFails => faults' # 0
    BY DEF WriteFails, TypeOK
  <2>2. ~WriteFails => faults' = faults
    BY FaultsKept
  <2> QED BY <2>1, <2>2
<1> HIDE DEF ProcessInv, SurvivorInv
<1> QED BY <1>1, SurvivorNext DEF AttendedSound, ProcessSound, SurvivorSound

\* In every state that is reached without a refused write.
THEOREM SurvivorInvariant == Spec => []SurvivorSound
<1>1. Init => SurvivorSound
  BY DEF Init, SurvivorSound, SurvivorInv
<1> QED BY <1>1, SurvivorUnrefused, ProcessInvariant, AttendedInvariant, TypeCorrect, PTL DEF Spec

LEMMA KnownProcessIsOne == ASSUME TypeOK, ProcessInv, SurvivorInv PROVE OneProcess
<1> DEFINE known == processes \cup {p \in survivors : launches[p.env].by = p.by}
<1> SUFFICES ASSUME NEW p \in known, NEW q \in known, p.env = q.env PROVE p = q
  BY DEF OneProcess
<1>1. CASE p \in processes /\ q \in processes
  BY <1>1 DEF ProcessInv, OneRunning
<1>2. ASSUME NEW r \in processes, NEW s \in survivors, r.env = s.env, launches[s.env].by = s.by
      PROVE  FALSE
  <2>1. Fits(launches[r.env], r)
    BY DEF ProcessInv, RecordsFit, Records
  <2>2. s.by # None
    BY SurvivorFields, NoneAssumption
  <2> QED BY <1>2, <2>1, <2>2 DEF Fits, SurvivorInv
<1>3. CASE p \in survivors /\ q \in survivors /\ p \notin processes /\ q \notin processes
  BY <1>3 DEF SurvivorInv
<1> QED BY <1>1, <1>2, <1>3

\* An environment never has two managed processes, whatever crashed between the
\* spawn, the capture of its identity and the launch record, and whoever starts,
\* stops or cancels meanwhile; those that outlived their failed start are counted
\* where the launch record names them.
THEOREM NeverTwoProcesses == Spec => [](faults = 0 => OneProcess)
<1>1. TypeOK /\ ProcessSound /\ SurvivorSound => (faults = 0 => OneProcess)
  BY KnownProcessIsOne DEF ProcessSound, SurvivorSound
<1> QED BY <1>1, ProcessInvariant, SurvivorInvariant, TypeCorrect, PTL

(***************************************************************************)
(* What the record of an environment says of its processes.                *)
(***************************************************************************)

\* What the record of e, and its launch record, are once the writes that wait
\* are done: one of those, or the present one when none waits.
OnTheMove == {"starting", "running", "stopping"}
Coming(e) == {w.val : w \in {v \in Waiting : v.store = "environments" /\ v.key = e}}
Prospects(e) == IF Coming(e) = {} THEN {environments[e]} ELSE Coming(e)
Launching(e) == IF Upcoming(e) = {} THEN {launches[e]} ELSE Upcoming(e)
Runs(r) == r.state = "running"

\* The instance serves requests, and knows the processes of e.
Verified(e) == Serving /\ entries[e] # "unverifiable"

\* An environment with a process is on the move, with the generation that the
\* process runs; so is one with a start under way, and one with a stop under way
\* is `stopping`.
ProcessMoves(e) ==
  Verified(e) => \A p \in processes : p.env = e =>
    \A v \in Prospects(e) : v.state \in OnTheMove /\ v.gen = p.gen
StartMoves(e) ==
  \A o \in Op : Live(o) /\ Belongs(o, "start", e) =>
    /\ Verified(e)
    /\ \A v \in Prospects(e) : v.state \in OnTheMove
                               /\ (requested[o] # None => v.gen = requested[o])
    /\ \A r \in Launching(e) : ~Runs(r)
StopMoves(e) ==
  Verified(e) => \A o \in Op : Live(o) /\ Belongs(o, "stop", e) =>
    \A v \in Prospects(e) : v.state = "stopping"

\* A launch record says `running` only of an environment on the move, and of
\* none that recovery could not verify.
RunningMoves(e) ==
  (\E r \in Launching(e) : Runs(r)) =>
    /\ entries[e] # "unverifiable"
    /\ Serving => \A v \in Prospects(e) : v.state \in OnTheMove

\* A creation or a switch is about an environment at rest; its task has a
\* journal; and no process was ever started in an environment being created.
CoreRests(e) ==
  Serving => \A o \in Op, k \in CoreTransactions : Keeps(o, k, e) =>
    Verified(e) /\ \A v \in Prospects(e) : v.state \notin OnTheMove
CoreKeeps(e) ==
  \A o \in Op, k \in CoreTransactions :
    Live(o) /\ Belongs(o, k, e) => Keeps(o, k, e) /\ ~Closes(o)
CreationAlone(e) ==
  \A o, q \in Op : ~(Unfinished(o) /\ Belongs(o, "create", e) /\ Belongs(q, "start", e))

\* Through crashes and recoveries: the process of a running launch record runs
\* the generation of the pointer, and a record names a start of its environment.
RunsPointer(e) ==
  (\E r \in Records(e) : Runs(r)) => \A p \in processes : p.env = e =>
    \A v \in {environments[e]} \cup Coming(e) : v.gen = p.gen
NamesStart(e) ==
  \A r \in Records(e) :
    /\ Runs(r) => r.by # None
    /\ r.by # None => /\ operations[r.by].kind = "start" /\ operations[r.by].env = e
                      /\ r.state # "none"

\* What recovery has found out about the processes.
Unknown(e) == mode \in {"down", "recoverChanges"} => entries[e] = "none"
Adopting(e) ==
  mode \in {"recoverProcesses", "recoverCore"} =>
    /\ entries[e] # "none" => \A r \in Launching(e) : Runs(r) <=> entries[e] = "adopted"
    /\ entries[e] = "stopped" => \A p \in processes : p.env # e
Adopted(e) ==
  mode = "recoverCore" =>
    /\ Upcoming(e) = {} /\ (launches[e].state # "none" => entries[e] # "none")
    /\ entries[e] = "adopted" => \A v \in Prospects(e) : v.state = "running"

\* Nobody applies a change.
NoApply ==
  /\ \A o \in Op : journals[o].kind # "apply"
  /\ \A w \in Waiting : w.store = "journals" => w.val.kind # "apply"

Movement(e) == ProcessMoves(e) /\ StartMoves(e) /\ StopMoves(e) /\ RunningMoves(e)
Cores(e) == CoreRests(e) /\ CoreKeeps(e) /\ CreationAlone(e)
Traces(e) == RunsPointer(e) /\ NamesStart(e)
Finds(e) == Unknown(e) /\ Adopting(e) /\ Adopted(e)
Agrees(e) == Movement(e) /\ Cores(e) /\ Traces(e) /\ Finds(e)
RestInv == NoApply /\ \A e \in Env : Agrees(e)

LEMMA RestInit == Init => RestInv
<1> SUFFICES ASSUME Init PROVE RestInv
  OBVIOUS
<1>1. /\ Waiting = {} /\ processes = {} /\ mode = "down" /\ \A o : Live(o) => o \notin Op
      /\ \A e \in Env : launches[e] = NoLaunch /\ entries[e] = "none"
      /\ \A o \in Op : journals[o].kind = "none" /\ operations[o].kind = "none"
  BY NothingWaits DEF Init, Live, NoJournal, NoOperation
<1>2. \A e \in Env : Upcoming(e) = {} /\ Records(e) = {launches[e]} /\ Launching(e) = {launches[e]}
  BY <1>1 DEF Upcoming, Records, Launching
<1>3. \A o \in Op : ~Live(o) /\ \A e : ~Belongs(o, "start", e)
  BY <1>1 DEF Belongs
<1> QED BY <1>1, <1>2, <1>3
    DEF RestInv, NoApply, Agrees, Movement, Cores, Traces, Finds, ProcessMoves, StartMoves,
        StopMoves, RunningMoves, CoreRests, CoreKeeps, CreationAlone, RunsPointer, NamesStart,
        Unknown, Adopting, Adopted, Serving, Runs, NoLaunch

(***************************************************************************)
(* Writes reach their stores.                                              *)
(***************************************************************************)
LEMMA ProspectsLand ==
  ASSUME NEW w, Lands(w), NEW e \in Env
  PROVE  /\ \A v \in Prospects(e)' : v \in Prospects(e)
         /\ \A v \in {environments'[e]} \cup Coming(e)' : v \in {environments[e]} \cup Coming(e)
         /\ \A r \in Launching(e)' : r \in Launching(e)
         /\ Upcoming(e) = {} => Upcoming(e)' = {} /\ launches'[e] = launches[e]
<1>1. \A v \in Waiting' : v \in Waiting
  BY DEF Lands
<1>2. \A v \in Waiting : v = w \/ v \in Waiting'
  BY DEF Lands
<1>3. (\A v \in Coming(e)' : v \in Coming(e)) /\ (\A r \in Upcoming(e)' : r \in Upcoming(e))
  BY <1>1 DEF Coming, Upcoming
<1>4. CASE w.store = "environments" /\ w.key = e
  <2>1. environments'[e] = w.val /\ launches'[e] = launches[e] /\ w \in Waiting
    BY <1>4 DEF Lands
  <2>2. w.val \in Coming(e)
    BY <1>4, <2>1 DEF Coming
  <2>3. Upcoming(e)' = Upcoming(e)
    BY <1>1, <1>2, <1>4 DEF Upcoming
  <2> QED BY <1>3, <2>1, <2>2, <2>3 DEF Prospects, Launching
<1>5. CASE w.store = "launches" /\ w.key = e
  <2>1. environments'[e] = environments[e] /\ launches'[e] = w.val /\ w \in Waiting
    BY <1>5 DEF Lands
  <2>2. w.val \in Upcoming(e)
    BY <1>5, <2>1 DEF Upcoming
  <2>3. Coming(e)' = Coming(e)
    BY <1>1, <1>2, <1>5 DEF Coming
  <2> QED BY <1>3, <2>1, <2>2, <2>3 DEF Prospects, Launching
<1>6. CASE ~(w.store \in {"environments", "launches"} /\ w.key = e)
  <2>1. environments'[e] = environments[e] /\ launches'[e] = launches[e]
    BY <1>6 DEF Lands
  <2>2. Coming(e)' = Coming(e) /\ Upcoming(e)' = Upcoming(e)
    BY <1>1, <1>2, <1>6 DEF Coming, Upcoming
  <2> QED BY <2>1, <2>2 DEF Prospects, Launching
<1> QED BY <1>4, <1>5, <1>6

LEMMA KeepsLands ==
  ASSUME StoresInv, NEW w, Lands(w), NEW o \in Op, NEW k \in Kinds, NEW e \in Env,
         Keeps(o, k, e), ~Closes(o)
  PROVE  Keeps(o, k, e)'
<1>1. CASE w.store = "journals" /\ w.key = o
  <2>1. journals'[o] = w.val /\ w \in Waiting /\ w.val \in JournalRecord
    BY <1>1, WriteFields DEF Lands
  <2>2. w.val.kind # "none"
    BY <1>1, <2>1 DEF Closes
  <2>3. w.val.kind \in Kinds /\ w.val.env \in Env
    BY <2>1, <2>2 DEF JournalRecord, NoJournal, CoreTransactions, Kinds
  <2>4. Keeps(o, w.val.kind, w.val.env)
    BY <1>1, <2>1 DEF Keeps
  <2>5. w.val.kind = k /\ w.val.env = e
    BY <2>3, <2>4 DEF StoresInv, OneHome, Claims
  <2> QED BY <2>1, <2>5 DEF Keeps
<1>2. CASE ~(w.store = "journals" /\ w.key = o)
  <2>1. journals'[o] = journals[o] /\ \A v \in Waiting : v = w \/ v \in Waiting'
    BY <1>2 DEF Lands
  <2> QED BY <1>2, <2>1 DEF Keeps
<1> QED BY <1>1, <1>2

\* An operation that is there keeps its kind and environment.
LEMMA OperationStays ==
  ASSUME StoresInv, AttendedInv, NEW w, Lands(w), NEW o \in Op,
         operations[o].kind \in Kinds, operations[o].env \in Env
  PROVE  operations'[o].kind = operations[o].kind /\ operations'[o].env = operations[o].env
<1>1. CASE operations'[o] # operations[o]
  <2>1. /\ w.store = "operations" /\ w.key = o /\ operations'[o] = w.val
        /\ w.val \in OperationRecord /\ w.val.status # "absent" /\ w \in Waiting
    BY <1>1, OperationLands, Effect DEF AttendedInv
  <2>2. w.val.kind \in Kinds /\ w.val.env \in Env
    BY <2>1 DEF OperationRecord, NoOperation
  <2>3. Belongs(o, w.val.kind, w.val.env) /\ Belongs(o, operations[o].kind, operations[o].env)
    BY <2>1 DEF Belongs
  <2> QED BY <2>1, <2>2, <2>3 DEF StoresInv, OneHome, Claims
<1> QED BY <1>1

LEMMA UpcomingTyped ==
  ASSUME TypeOK, NEW e \in Env PROVE \A r \in Upcoming(e) : r \in LaunchRecord
<1>1. \A w \in WriteRecord : w.store = "launches" => w.val \in LaunchRecord
  BY DEF WriteRecord
<1> QED BY <1>1, WaitingTyped DEF Upcoming

LEMMA RestPersist ==
  ASSUME TypeOK, StoresInv, AttendedInv, RestInv, Persist PROVE RestInv'
<1> DEFINE w == Head(todo)
<1>1. Lands(w)
  BY Landing DEF StoresInv
<1>2. UNCHANGED << processes, requested, mode, entries >>
  BY DEF Persist, volatile
<1> HIDE DEF w
<1>3. StaysKnown
  BY DEF AttendedInv
<1>4. {"start", "stop", "create"} \subseteq Kinds /\ CoreTransactions \subseteq Kinds
  BY DEF Kinds, CoreTransactions
<1>5. \A o \in Op, k \in Kinds, e \in Env :
        /\ Belongs(o, k, e)' <=> Belongs(o, k, e)
        /\ Keeps(o, k, e)' => Keeps(o, k, e)
        /\ Keeps(o, k, e) /\ ~Closes(o) => Keeps(o, k, e)'
  BY <1>1, <1>3, Shrinks, BelongsLands, KeepsLands
<1>6. \A o \in Op : /\ Live(o)' <=> Live(o)
                    /\ Closes(o)' => Closes(o)
                    /\ Unfinished(o)' => Unfinished(o)
  BY <1>1, <1>3, Shrinks, OperationLands
<1>7. \A e \in Env :
        /\ \A v \in Prospects(e)' : v \in Prospects(e)
        /\ \A v \in {environments'[e]} \cup Coming(e)' : v \in {environments[e]} \cup Coming(e)
        /\ \A r \in Launching(e)' : r \in Launching(e)
        /\ Upcoming(e) = {} => Upcoming(e)' = {} /\ launches'[e] = launches[e]
        /\ \A r \in Records(e)' : r \in Records(e)
  BY <1>1, ProspectsLand, RecordsLand
<1>8. ASSUME NEW e \in Env PROVE Agrees(e)'
  <2>1. Agrees(e)
    BY DEF RestInv
  <2>2. Verified(e)' <=> Verified(e)
    BY <1>2 DEF Verified, Serving
  <2>3. Movement(e)'
    <3>1. ProcessMoves(e)' /\ RunningMoves(e)'
      BY <1>2, <1>7, <2>1, <2>2 DEF Agrees, Movement, ProcessMoves, RunningMoves, Serving
    <3>2. StartMoves(e)'
      BY <1>2, <1>4, <1>5, <1>6, <1>7, <2>1, <2>2 DEF Agrees, Movement, StartMoves
    <3>3. StopMoves(e)'
      BY <1>2, <1>4, <1>5, <1>6, <1>7, <2>1, <2>2 DEF Agrees, Movement, StopMoves
    <3> QED BY <3>1, <3>2, <3>3 DEF Movement
  <2>4. Cores(e)'
    <3>1. CoreRests(e)'
      BY <1>2, <1>4, <1>5, <1>7, <2>1, <2>2 DEF Agrees, Cores, CoreRests, Serving
    <3>2. CoreKeeps(e)'
      BY <1>4, <1>5, <1>6, <2>1 DEF Agrees, Cores, CoreKeeps
    <3>3. CreationAlone(e)'
      BY <1>4, <1>5, <1>6, <2>1 DEF Agrees, Cores, CreationAlone
    <3> QED BY <3>1, <3>2, <3>3 DEF Cores
  <2>5. Traces(e)'
    <3>1. RunsPointer(e)'
      BY <1>2, <1>7, <2>1 DEF Agrees, Traces, RunsPointer
    <3>2. ASSUME NEW r \in Records(e)', r.by # None
          PROVE  operations'[r.by].kind = "start" /\ operations'[r.by].env = e
      <4>1. r \in Records(e)
        BY <1>7
      <4>2. operations[r.by].kind = "start" /\ operations[r.by].env = e
        BY <2>1, <3>2, <4>1 DEF Agrees, Traces, NamesStart
      <4>3. r.by \in Op
        <5>1. launches[e] \in LaunchRecord /\ \A v \in Upcoming(e) : v \in LaunchRecord
          BY UpcomingTyped DEF TypeOK
        <5>2. r \in LaunchRecord
          BY <4>1, <5>1 DEF Records
        <5> QED BY <3>2, <5>2 DEF LaunchRecord
      <4> QED BY <1>1, <1>4, <4>2, <4>3, OperationStays
    <3>3. NamesStart(e)'
      BY <1>7, <2>1, <3>2 DEF Agrees, Traces, NamesStart
    <3> QED BY <3>1, <3>3 DEF Traces
  <2>6. Finds(e)'
    BY <1>2, <1>7, <2>1 DEF Agrees, Finds, Unknown, Adopting, Adopted
  <2> QED BY <2>3, <2>4, <2>5, <2>6 DEF Agrees
<1>9. NoApply'
  <2>1. \A v \in Waiting' : v \in Waiting
    BY <1>1 DEF Lands
  <2>2. \A o \in Op : journals'[o].kind # "apply"
    <3> SUFFICES ASSUME NEW o \in Op PROVE journals'[o].kind # "apply"
      OBVIOUS
    <3>1. CASE journals'[o] = journals[o]
      BY <3>1 DEF RestInv, NoApply
    <3>2. CASE journals'[o] # journals[o]
      <4>1. w.store = "journals" /\ journals'[o] = w.val /\ w \in Waiting
        BY <1>1, <3>2, Effect
      <4> QED BY <4>1 DEF RestInv, NoApply
    <3> QED BY <3>1, <3>2
  <2> QED BY <2>1, <2>2 DEF RestInv, NoApply
<1> QED BY <1>8, <1>9 DEF RestInv

(***************************************************************************)
(* The steps that begin a block.                                           *)
(***************************************************************************)
LEMMA StoresAtRest ==
  ASSUME todo = <<>>
  PROVE  /\ Waiting = {}
         /\ \A e : /\ Coming(e) = {} /\ Prospects(e) = {environments[e]}
                   /\ Upcoming(e) = {} /\ Launching(e) = {launches[e]}
                   /\ Records(e) = {launches[e]}
         /\ \A o : /\ Live(o) <=> controllers[o]
                   /\ ~Closes(o)
                   /\ Unfinished(o) <=> operations[o].status = "active"
         /\ \A o, k, e : /\ Belongs(o, k, e) <=> operations[o].kind = k /\ operations[o].env = e
                         /\ Keeps(o, k, e) <=> journals[o].kind = k /\ journals[o].env = e
<1>1. Waiting = {}
  BY NothingWaits
<1> QED BY <1>1 DEF Coming, Prospects, Upcoming, Launching, Records, Live, Closes, Unfinished,
                    Becomes, Belongs, Keeps

\* The block writes to neither record of e.
Spares(e) == \A w \in Waiting : w.store \in {"environments", "launches"} => w.key # e

\* An environment with which a block has nothing to do.
LEMMA AgreesBeside ==
  ASSUME NEW e \in Env, Agrees(e), todo = <<>>, Spares(e)',
         UNCHANGED << environments, operations, launches, mode >>, entries'[e] = entries[e],
         \A p \in processes' : p.env = e => p \in processes,
         \A o \in Op, k \in {"start", "stop"} : Live(o)' /\ Belongs(o, k, e)' =>
           /\ Live(o) /\ Belongs(o, k, e)
           /\ requested'[o] # None => requested'[o] = requested[o],
         Serving => \A o \in Op, k \in CoreTransactions : Keeps(o, k, e)' => Keeps(o, k, e),
         CoreKeeps(e)', CreationAlone(e)'
  PROVE  Agrees(e)'
<1>1. /\ Coming(e) = {} /\ Prospects(e) = {environments[e]}
      /\ Upcoming(e) = {} /\ Launching(e) = {launches[e]} /\ Records(e) = {launches[e]}
  BY StoresAtRest
<1>2. /\ Coming(e)' = {} /\ Prospects(e)' = {environments[e]}
      /\ Upcoming(e)' = {} /\ Launching(e)' = {launches[e]} /\ Records(e)' = {launches[e]}
  <2>1. Coming(e)' = {} /\ Upcoming(e)' = {}
    BY DEF Spares, Coming, Upcoming
  <2> QED BY <2>1 DEF Prospects, Launching, Records
<1>3. Verified(e)' <=> Verified(e)
  BY DEF Verified, Serving
<1>4. ProcessMoves(e)' /\ RunningMoves(e)'
  BY <1>1, <1>2, <1>3 DEF Agrees, Movement, ProcessMoves, RunningMoves, Serving
<1>5. StartMoves(e)'
  BY <1>1, <1>2, <1>3 DEF Agrees, Movement, StartMoves
<1>6. StopMoves(e)'
  BY <1>1, <1>2, <1>3 DEF Agrees, Movement, StopMoves
<1>7. CoreRests(e)'
  BY <1>1, <1>2, <1>3 DEF Agrees, Cores, CoreRests, Serving
<1>8. Traces(e)'
  BY <1>1, <1>2 DEF Agrees, Traces, RunsPointer, NamesStart
<1>9. Finds(e)'
  BY <1>1, <1>2 DEF Agrees, Finds, Unknown, Adopting, Adopted
<1> QED BY <1>4, <1>5, <1>6, <1>7, <1>8, <1>9 DEF Agrees, Movement, Cores

\* An environment at rest has no process and no start or stop.
LEMMA Resting ==
  ASSUME NEW e \in Env, Agrees(e), todo = <<>>, Serving, environments[e].state \notin OnTheMove
  PROVE  /\ ~Runs(launches[e])
         /\ \A o \in Op : ~(Live(o) /\ Belongs(o, "start", e))
         /\ Verified(e) => /\ \A p \in processes : p.env # e
                           /\ \A o \in Op : ~(Live(o) /\ Belongs(o, "stop", e))
<1>1. Prospects(e) = {environments[e]} /\ Launching(e) = {launches[e]}
  BY StoresAtRest
<1>2. ~Runs(launches[e])
  BY <1>1 DEF Agrees, Movement, RunningMoves
<1>3. \A o \in Op : ~(Live(o) /\ Belongs(o, "start", e))
  BY <1>1 DEF Agrees, Movement, StartMoves
<1>4. Verified(e) => \A p \in processes : p.env # e
  BY <1>1 DEF Agrees, Movement, ProcessMoves
<1>5. Verified(e) => \A o \in Op : ~(Live(o) /\ Belongs(o, "stop", e))
  BY <1>1 DEF Agrees, Movement, StopMoves, OnTheMove
<1> QED BY <1>2, <1>3, <1>4, <1>5

\* An environment at rest is written to, and stays at rest.
LEMMA AgreesResting ==
  ASSUME NEW e \in Env, Agrees(e), todo = <<>>, Serving, environments[e].state \notin OnTheMove,
         UNCHANGED << environments, operations, launches, mode, entries, processes >>,
         \A w \in Waiting' : w.key = e =>
           /\ w.store # "launches"
           /\ w.store = "environments" => w.val.state \notin OnTheMove,
         \A o \in Op, k \in {"start", "stop"} :
           Live(o)' /\ Belongs(o, k, e)' => Live(o) /\ Belongs(o, k, e),
         Verified(e) \/ \A o \in Op, k \in CoreTransactions : Keeps(o, k, e)' => Keeps(o, k, e),
         CoreKeeps(e)', CreationAlone(e)'
  PROVE  Agrees(e)'
<1>1. /\ ~Runs(launches[e])
      /\ \A o \in Op : ~(Live(o) /\ Belongs(o, "start", e))
      /\ Verified(e) => /\ \A p \in processes : p.env # e
                        /\ \A o \in Op : ~(Live(o) /\ Belongs(o, "stop", e))
  BY Resting
<1>2. Upcoming(e)' = {} /\ Launching(e)' = {launches[e]} /\ Records(e)' = {launches[e]}
      /\ Records(e) = {launches[e]}
  BY StoresAtRest DEF Upcoming, Launching, Records
<1>3. \A v \in Prospects(e)' : v.state \notin OnTheMove
  BY DEF Prospects, Coming
<1>4. Verified(e)' <=> Verified(e)
  BY DEF Verified, Serving
<1>5. Movement(e)'
  BY <1>1, <1>2, <1>4 DEF Movement, ProcessMoves, StartMoves, StopMoves, RunningMoves
<1>6. CoreRests(e)'
  <2>1. ASSUME NEW o \in Op, NEW k \in CoreTransactions, Keeps(o, k, e)' PROVE Verified(e)
    BY <2>1 DEF Agrees, Cores, CoreRests
  <2> QED BY <1>3, <1>4, <2>1 DEF CoreRests
<1>7. Traces(e)'
  BY <1>1, <1>2 DEF Agrees, Traces, RunsPointer, NamesStart
<1>8. Finds(e)'
  BY DEF Finds, Unknown, Adopting, Adopted, Serving
<1> QED BY <1>5, <1>6, <1>7, <1>8 DEF Agrees, Cores

(***************************************************************************)
(* The requests.                                                           *)
(***************************************************************************)

\* A write of request o, of kind k, about e.
About(w, o, k, e) ==
  /\ w.store \in {"environments", "launches"} => w.key = e
  /\ w.store = "operations" => w.key = o /\ w.val.kind = k /\ w.val.env = e
  /\ w.store = "journals" => /\ w.key = o
                             /\ w.val.kind = "none" \/ (w.val.kind = k /\ w.val.env = e)
  /\ w.store = "controllers" => w.key = o

LEMMA RequestFacts ==
  ASSUME TypeOK, StoresInv, NEW o \in Op, NEW k \in Kinds, NEW e \in Env, todo = <<>>,
         UNCHANGED << operations, journals, controllers >>,
         ledger[o].state = "none", \A w \in Waiting' : About(w, o, k, e)
  PROVE  /\ \A q \in Op \ {o} :
              (Live(q)' <=> Live(q)) /\ (Unfinished(q)' <=> Unfinished(q)) /\ ~Closes(q)'
         /\ \A q \in Op \ {o}, l \in Kinds, f \in Env :
              (Belongs(q, l, f)' <=> Belongs(q, l, f)) /\ (Keeps(q, l, f)' <=> Keeps(q, l, f))
         /\ \A l \in Kinds, f \in Env :
              Belongs(o, l, f)' \/ Keeps(o, l, f)' => l = k /\ f = e
<1>1. /\ Waiting = {} /\ operations[o].kind \notin Kinds /\ journals[o].kind \notin Kinds
  BY NothingWaits DEF StoresInv, Fresh, Blank, Begins
<1>2. "none" \notin Kinds
  BY DEF Kinds
<1>3. ASSUME NEW q \in Op \ {o}
      PROVE  /\ Live(q)' <=> Live(q)
             /\ Unfinished(q)' <=> Unfinished(q)
             /\ ~Closes(q)'
  BY <1>1 DEF Live, Unfinished, Becomes, Closes, About
<1>4. ASSUME NEW q \in Op \ {o}, NEW l, NEW f
      PROVE  (Belongs(q, l, f)' <=> Belongs(q, l, f)) /\ (Keeps(q, l, f)' <=> Keeps(q, l, f))
  BY <1>1 DEF Belongs, Keeps, About
<1>5. ASSUME NEW l \in Kinds, NEW f, Belongs(o, l, f)' PROVE l = k /\ f = e
  BY <1>1, <1>5 DEF Belongs, About
<1>6. ASSUME NEW l \in Kinds, NEW f, Keeps(o, l, f)' PROVE l = k /\ f = e
  BY <1>1, <1>2, <1>6 DEF Keeps, About
<1> QED BY <1>3, <1>4, <1>5, <1>6

\* A request keeps the invariant when it does so in its environment.
LEMMA RestAround ==
  ASSUME TypeOK, StoresInv, RestInv, NEW o \in Op, NEW k \in Kinds \ {"apply"}, NEW e \in Env,
         todo = <<>>,
         UNCHANGED << environments, operations, journals, launches, entries, mode, processes,
                      controllers >>,
         \A q \in Op \ {o} : requested'[q] = requested[q],
         ledger[o].state = "none", \A w \in Waiting' : About(w, o, k, e),
         Agrees(e)'
  PROVE  RestInv'
<1>1. /\ \A q \in Op \ {o} :
           (Live(q)' <=> Live(q)) /\ (Unfinished(q)' <=> Unfinished(q)) /\ ~Closes(q)'
      /\ \A q \in Op \ {o}, l \in Kinds, f \in Env :
           (Belongs(q, l, f)' <=> Belongs(q, l, f)) /\ (Keeps(q, l, f)' <=> Keeps(q, l, f))
      /\ \A l \in Kinds, f \in Env :
           Belongs(o, l, f)' \/ Keeps(o, l, f)' => l = k /\ f = e
  BY RequestFacts
<1>2. {"start", "stop", "create"} \subseteq Kinds /\ CoreTransactions \subseteq Kinds
  BY DEF Kinds, CoreTransactions
<1>3. ASSUME NEW f \in Env, f # e PROVE Agrees(f)'
  <2>1. Agrees(f)
    BY DEF RestInv
  <2>2. Spares(f)'
    BY <1>3 DEF Spares, About
  <2>3. CoreKeeps(f)'
    BY <1>1, <1>2, <1>3, <2>1 DEF Agrees, Cores, CoreKeeps
  <2>4. CreationAlone(f)'
    BY <1>1, <1>2, <1>3, <2>1 DEF Agrees, Cores, CreationAlone
  <2>5. \A q \in Op, l \in {"start", "stop"} : Live(q)' /\ Belongs(q, l, f)' =>
           /\ Live(q) /\ Belongs(q, l, f)
           /\ requested'[q] # None => requested'[q] = requested[q]
    BY <1>1, <1>2, <1>3
  <2>6. \A q \in Op, l \in CoreTransactions : Keeps(q, l, f)' => Keeps(q, l, f)
    BY <1>1, <1>2, <1>3
  <2> QED BY <2>1, <2>2, <2>3, <2>4, <2>5, <2>6, AgreesBeside
<1>4. NoApply'
  <2>1. \A w \in Waiting' : w.store = "journals" => w.val.kind # "apply"
    BY DEF About
  <2> QED BY <2>1 DEF RestInv, NoApply
<1> QED BY <1>3, <1>4 DEF RestInv

\* A request about an environment at rest.
LEMMA RestRequest ==
  ASSUME TypeOK, StoresInv, RestInv, NEW o \in Op, NEW k \in {"create", "switch", "restore"},
         NEW e \in Env, Idle,
         UNCHANGED << Stores, launches, entries, mode, processes, controllers, requested >>,
         ledger[o].state = "none", environments[e].state \notin OnTheMove,
         \A w \in Waiting' :
           /\ About(w, o, k, e) /\ w.store # "launches"
           /\ w.store = "environments" => w.val.state \notin OnTheMove,
         k \in CoreTransactions =>
           Verified(e) /\ (Live(o)' => Keeps(o, k, e)' /\ ~Closes(o)'),
         k = "create" => environments[e].state = "absent"
  PROVE  RestInv'
<1>0. todo = <<>> /\ Serving /\ UNCHANGED << environments, operations, journals >>
  BY DEF Idle, Serving, Stores
<1>1. /\ \A q \in Op \ {o} :
           (Live(q)' <=> Live(q)) /\ (Unfinished(q)' <=> Unfinished(q)) /\ ~Closes(q)'
      /\ \A q \in Op \ {o}, l \in Kinds, f \in Env :
           (Belongs(q, l, f)' <=> Belongs(q, l, f)) /\ (Keeps(q, l, f)' <=> Keeps(q, l, f))
      /\ \A l \in Kinds, f \in Env :
           Belongs(o, l, f)' \/ Keeps(o, l, f)' => l = k /\ f = e
  BY <1>0, RequestFacts DEF Kinds
<1>2. {"start", "stop", "create"} \subseteq Kinds /\ CoreTransactions \subseteq Kinds
      /\ k \in Kinds \ {"apply"} /\ "restore" \notin CoreTransactions
  BY DEF Kinds, CoreTransactions
<1>3. Agrees(e)
  BY DEF RestInv
<1>4. CoreKeeps(e)'
  <2> SUFFICES ASSUME NEW q \in Op, NEW l \in CoreTransactions, Live(q)', Belongs(q, l, e)'
               PROVE  Keeps(q, l, e)' /\ ~Closes(q)'
    BY DEF CoreKeeps
  <2>1. CASE q = o
    <3>1. l = k
      BY <1>1, <1>2, <2>1
    <3> QED BY <2>1, <3>1
  <2>2. CASE q # o
    <3>1. Live(q) /\ Belongs(q, l, e)
      BY <1>1, <1>2, <2>2
    <3>2. Keeps(q, l, e)
      BY <1>3, <3>1 DEF Agrees, Cores, CoreKeeps
    <3> QED BY <1>1, <1>2, <2>2, <3>2
  <2> QED BY <2>1, <2>2
<1>5. CreationAlone(e)'
  <2> SUFFICES ASSUME NEW q \in Op, NEW r \in Op, Unfinished(q)', Belongs(q, "create", e)',
                      Belongs(r, "start", e)'
               PROVE  FALSE
    BY DEF CreationAlone
  <2>1. r # o /\ Belongs(r, "start", e)
    BY <1>1, <1>2
  <2>2. CASE q = o
    <3>1. environments[e].state = "absent" /\ operations[r].env = e
      BY <1>0, <1>1, <1>2, <2>1, <2>2, StoresAtRest
    <3> QED BY <3>1 DEF StoresInv, Present, Unused
  <2>3. CASE q # o
    BY <1>1, <1>2, <1>3, <2>1, <2>3 DEF Agrees, Cores, CreationAlone
  <2> QED BY <2>2, <2>3
<1>6. \A q \in Op, l \in {"start", "stop"} :
        Live(q)' /\ Belongs(q, l, e)' => Live(q) /\ Belongs(q, l, e)
  BY <1>1, <1>2
<1>7. Verified(e) \/ \A q \in Op, l \in CoreTransactions : Keeps(q, l, e)' => Keeps(q, l, e)
  BY <1>1, <1>2
<1>8. \A w \in Waiting' : w.key = e =>
        /\ w.store # "launches"
        /\ w.store = "environments" => w.val.state \notin OnTheMove
  OBVIOUS
<1>9. Agrees(e)'
  BY <1>0, <1>3, <1>4, <1>5, <1>6, <1>7, <1>8, AgreesResting
<1>10. \A w \in Waiting' : About(w, o, k, e)
  OBVIOUS
<1> HIDE DEF RestInv
<1> QED BY <1>0, <1>2, <1>9, <1>10, RestAround


LEMMA AboutWrites ==
  ASSUME TypeOK, NEW o \in Op, NEW k \in Kinds, NEW e \in Env
  PROVE  /\ \A w \in Answering(o, k) : About(w, o, k, e)
         /\ \A s : About(PutOperation(o, k, e, s), o, k, e)
         /\ \A r : (r.kind = "none" \/ (r.kind = k /\ r.env = e)) => About(PutJournal(o, r), o, k, e)
         /\ \A r : About(PutEnvironment(e, r), o, k, e)
         /\ \A m, s : About(PutLedger(o, m, s), o, k, e)
         /\ \A s : About(PutState(e, s), o, k, e)
         /\ \A s : About(Marked(e, s), o, k, e)
         /\ \A g : About(Spawning(e, g), o, k, e)
         /\ About(Register(o), o, k, e)
<1>1. \A w \in Answering(o, k) : About(w, o, k, e)
  BY AnswerFields DEF About
<1>2. \A s : About(PutOperation(o, k, e, s), o, k, e)
  BY OperationFields DEF About
<1>3. \A s : About(PutState(e, s), o, k, e)
  BY StateFields DEF About
<1>4. /\ \A r : (r.kind = "none" \/ (r.kind = k /\ r.env = e)) => About(PutJournal(o, r), o, k, e)
      /\ \A r : About(PutEnvironment(e, r), o, k, e)
      /\ \A m, s : About(PutLedger(o, m, s), o, k, e)
      /\ About(Register(o), o, k, e)
  BY DEF About, PutJournal, PutEnvironment, PutLedger, Register, Write
<1>5. /\ \A s : About(Marked(e, s), o, k, e)
      /\ \A g : About(Spawning(e, g), o, k, e)
  BY DEF About, Marked, Spawning, PutLaunch, Write
<1> QED BY <1>1, <1>2, <1>3, <1>4, <1>5

LEMMA AboutParts ==
  ASSUME TypeOK, NEW o \in Op, NEW k \in Kinds, NEW e \in Env
  PROVE  /\ \A p : \A w \in Building(o, k, e, p) : About(w, o, k, e)
         /\ \A w \in Departing(o, k, e) : About(w, o, k, e)
         /\ \A w \in Refusing(o, k, e) : About(w, o, k, e)
         /\ k = "restore" => \A g : \A w \in Restoring(o, e, g) : About(w, o, k, e)
<1>1. ASSUME NEW p, NEW w \in Building(o, k, e, p) PROVE About(w, o, k, e)
  BY BuildingFields DEF About
<1>2. ASSUME NEW g, k = "restore", NEW w \in Restoring(o, e, g) PROVE About(w, o, k, e)
  <2>1. NoJournal.kind = "none"
    BY DEF NoJournal
  <2> HIDE DEF About
  <2> QED BY <1>2, <2>1, AboutWrites DEF Restoring
<1> HIDE DEF About
<1>3. /\ \A w \in Departing(o, k, e) : About(w, o, k, e)
      /\ \A w \in Refusing(o, k, e) : About(w, o, k, e)
  BY AboutWrites DEF Departing, Refusing
<1> QED BY <1>1, <1>2, <1>3

\* What builds a generation registers a task, with a journal that stays open.
LEMMA BuildKeeps ==
  ASSUME TypeOK, NEW o \in Op, NEW k \in Kinds, NEW e \in Env, NEW p, NEW E,
         Waiting' = Answering(o, k) \cup Building(o, k, e, p) \cup E,
         \A w \in E : w.store = "environments"
  PROVE  Keeps(o, k, e)' /\ ~Closes(o)'
<1> DEFINE j == [kind |-> k, env |-> e, gen |-> o, plan |-> p, phase |-> "open"]
<1>1. PutJournal(o, j) \in Waiting'
  BY DEF Building
<1>2. /\ PutJournal(o, j).store = "journals" /\ PutJournal(o, j).key = o
      /\ PutJournal(o, j).val.kind = k /\ PutJournal(o, j).val.env = e
  BY DEF PutJournal, Write
<1> HIDE DEF j
<1>3. Keeps(o, k, e)'
  BY <1>1, <1>2 DEF Keeps
<1>4. \A w \in Waiting' : w.store = "journals" => w.val.kind = k
  <2>1. \A w \in Answering(o, k) : w.store = "ledger"
    BY AnswerFields
  <2>2. \A w \in Building(o, k, e, p) : w.store = "journals" => w.val.kind = k
    BY BuildingFields DEF PutOperation, Write, Register
  <2> QED BY <2>1, <2>2
<1>5. ~Closes(o)'
  BY <1>4 DEF Closes, Kinds
<1> QED BY <1>3, <1>5

LEMMA RestBuilds ==
  ASSUME TypeOK, StoresInv, RestInv, NEW o \in Op, NEW e \in Env,
         CreateEnvironment(o, e) \/ SwitchCombination(o, e)
  PROVE  RestInv'
<1>1. PICK k \in CoreTransactions :
        /\ (k = "create" /\ CreateEnvironment(o, e)) \/ (k = "switch" /\ SwitchCombination(o, e))
  BY DEF CoreTransactions
<1>2. /\ Idle /\ ledger[o].state = "none" /\ ~blocked
      /\ UNCHANGED << Stores, launches, entries, mode, processes, controllers, requested >>
      /\ environments[e].state = IF k = "create" THEN "absent" ELSE "stopped"
  BY <1>1 DEF CreateEnvironment, SwitchCombination, MaySwitch, NewRequest, durable, volatile, Stores
<1>3. k \in Kinds /\ k \in {"create", "switch", "restore"}
  BY DEF CoreTransactions, Kinds
<1>4. Verified(e)
  BY <1>2 DEF Verified, Serving, Idle, blocked
<1> DEFINE fresh == PutEnvironment(e, [NoEnvironment EXCEPT !.state = "creating"])
           E == IF k = "create" THEN {fresh} ELSE {}
<1>5. /\ Waiting' = Answering(o, k) \cup Building(o, k, e, None) \cup E
      /\ \A w \in E : w.store = "environments" /\ w.val.state = "creating" /\ About(w, o, k, e)
  <2>1. Waiting' = Answering(o, k) \cup Building(o, k, e, None) \cup E
    BY <1>1, CreateWaits, SwitchWaits
  <2>2. fresh.store = "environments" /\ fresh.val.state = "creating"
    BY DEF PutEnvironment, Write, NoEnvironment
  <2>3. About(fresh, o, k, e)
    BY <1>3, AboutWrites
  <2> HIDE DEF fresh, About
  <2> QED BY <2>1, <2>2, <2>3
<1> HIDE DEF E
<1>6. Keeps(o, k, e)' /\ ~Closes(o)'
  BY <1>3, <1>5, BuildKeeps
<1>7. ASSUME NEW w \in Waiting'
      PROVE  /\ About(w, o, k, e) /\ w.store # "launches"
             /\ w.store = "environments" => w.val.state \notin OnTheMove
  <2>1. CASE w \in Answering(o, k)
    BY <1>3, <2>1, AnswerFields, AboutWrites
  <2>2. CASE w \in Building(o, k, e, None)
    <3>1. w.store \notin {"launches", "environments"}
      BY <2>2, BuildingFields
    <3> QED BY <1>3, <2>2, <3>1, AboutParts
  <2>3. CASE w \in E
    BY <1>5, <2>3 DEF OnTheMove
  <2> QED BY <1>5, <2>1, <2>2, <2>3
<1>8. environments[e].state \notin OnTheMove
  BY <1>2 DEF OnTheMove
<1> HIDE DEF RestInv, About
<1> QED BY <1>2, <1>3, <1>4, <1>6, <1>7, <1>8, RestRequest

LEMMA RestNothingToDo ==
  ASSUME TypeOK, StoresInv, RestInv, NEW o \in Op, NEW e \in Env,
         NoopSwitch(o, e) \/ RestoreActive(o, e)
  PROVE  RestInv'
<1>1. PICK k \in {"switch", "restore"} :
        (k = "switch" /\ NoopSwitch(o, e)) \/ (k = "restore" /\ RestoreActive(o, e))
  OBVIOUS
<1>2. /\ Idle /\ ledger[o].state = "none" /\ (k = "switch" => ~blocked)
      /\ UNCHANGED << Stores, launches, entries, mode, processes, controllers, requested >>
      /\ environments[e].state \notin OnTheMove
  BY <1>1 DEF NoopSwitch, RestoreActive, MaySwitch, NewRequest, durable, volatile, Stores,
              OnTheMove, Changeable, Changing
<1>3. k \in Kinds
  BY DEF Kinds
<1>4. k \in CoreTransactions => Verified(e)
  BY <1>2 DEF Verified, Serving, Idle, blocked, CoreTransactions
<1>5. Waiting' = Answering(o, k) \cup {PutOperation(o, k, e, "active"),
                                       PutOperation(o, k, e, "succeeded")}
  BY <1>1, NoopWaits, RestoreActiveWaits
<1>6. ASSUME NEW w \in Waiting'
      PROVE  /\ About(w, o, k, e)
             /\ w.store \in {"ledger", "operations"}
             /\ w.store # "launches" /\ w.store # "environments"
  <2>1. CASE w \in Answering(o, k)
    BY <1>3, <2>1, AnswerFields, AboutWrites
  <2>2. CASE w \notin Answering(o, k)
    BY <1>3, <1>5, <2>2, OperationFields, AboutWrites
  <2> QED BY <2>1, <2>2
<1>7. ~Live(o)'
  <2>1. ~controllers[o]
    BY <1>2, FreshRequest DEF Idle
  <2> QED BY <1>2, <1>6, <2>1 DEF Live
<1>8. k \in {"create", "switch", "restore"} /\ k # "create"
  BY <1>1
<1>9. \A w \in Waiting' :
        /\ About(w, o, k, e) /\ w.store # "launches"
        /\ w.store = "environments" => w.val.state \notin OnTheMove
  BY <1>6
<1> HIDE DEF RestInv, About
<1> QED BY <1>2, <1>4, <1>7, <1>8, <1>9, RestRequest

LEMMA RestRestore ==
  ASSUME TypeOK, StoresInv, RestInv, NEW o \in Op, NEW e \in Env, NEW g \in Op,
         RestoreGeneration(o, e, g)
  PROVE  RestInv'
<1>1. /\ Idle /\ ledger[o].state = "none" /\ Changeable(e) /\ UNCHANGED durable
  BY Zenon DEF RestoreGeneration, NewRequest
<1>2. UNCHANGED << processes, mode, controllers, volatile >>
  BY Zenon DEF RestoreGeneration
<1>3. /\ UNCHANGED << Stores, launches, entries, mode, processes, controllers, requested >>
      /\ environments[e].state \notin OnTheMove
  BY <1>1, <1>2 DEF durable, volatile, Stores, OnTheMove, Changeable, Changing
<1>4. "restore" \in Kinds /\ "restore" \notin CoreTransactions
  BY DEF Kinds, CoreTransactions
<1>5. Waiting' = Answering(o, "restore") \cup Restoring(o, e, g)
  BY RestoreWaits
<1>6. ASSUME NEW w \in Waiting'
      PROVE  /\ w.store # "launches"
             /\ w.store = "environments" => w.val.state = environments[e].state
  <2>1. CASE w \in Answering(o, "restore")
    BY <2>1, AnswerFields
  <2>2. CASE w \in Restoring(o, e, g)
    <3>1. environments[e] \in EnvironmentRecord
      BY DEF TypeOK
    <3> DEFINE r == [environments[e] EXCEPT !.gen = g, !.revision = @ + 1]
    <3>2. r.state = environments[e].state
      BY <3>1 DEF EnvironmentRecord
    <3> HIDE DEF r
    <3>3. w = PutEnvironment(e, r) \/ w.store \in {"journals", "operations", "ledger"}
      BY <2>2 DEF Restoring, PutJournal, PutOperation, PutLedger, Write, r
    <3> QED BY <3>2, <3>3 DEF PutEnvironment, Write
  <2> QED BY <1>5, <2>1, <2>2
<1>7. \A w \in Waiting' : About(w, o, "restore", e)
  BY <1>4, <1>5, AboutWrites, AboutParts
<1> HIDE DEF RestInv, About
<1> QED BY <1>1, <1>3, <1>4, <1>6, <1>7, RestRequest

(***************************************************************************)
(* The tasks, and what else concerns one environment.                      *)
(***************************************************************************)

\* A write about e that begins nothing, made for request o if it is to a journal.
Within(w, o, e) ==
  /\ w.store # "controllers"
  /\ w.store \in {"environments", "launches"} => w.key = e
  /\ w.store = "operations" => /\ w.val.kind = operations[w.key].kind
                               /\ w.val.env = operations[w.key].env
                               /\ w.val.status # "active"
  /\ w.store = "journals" =>
       /\ w.key = o /\ o \in Op
       /\ w.val.kind = "none"
          \/ (w.val.kind = journals[o].kind /\ w.val.env = journals[o].env)

LEMMA TaskFacts ==
  ASSUME todo = <<>>, UNCHANGED Stores, NEW o, NEW e, \A w \in Waiting' : Within(w, o, e),
         \A q \in Op : controllers'[q] => controllers[q]
  PROVE  \A q \in Op :
           /\ Live(q)' => Live(q)
           /\ Unfinished(q)' => Unfinished(q)
           /\ Closes(q)' => q = o
           /\ \A k, f : Belongs(q, k, f)' <=> Belongs(q, k, f)
           /\ \A k \in Kinds : \A f : Keeps(q, k, f)' <=> Keeps(q, k, f)
<1>1. UNCHANGED << operations, journals >> /\ Waiting = {}
  BY NothingWaits DEF Stores
<1>2. ASSUME NEW q \in Op
      PROVE  /\ Live(q)' => Live(q)
             /\ Unfinished(q)' => Unfinished(q)
             /\ Closes(q)' => q = o
  BY <1>1 DEF Live, Unfinished, Becomes, Closes, Within
<1>3. ASSUME NEW q \in Op, NEW k, NEW f PROVE Belongs(q, k, f)' <=> Belongs(q, k, f)
  BY <1>1 DEF Belongs, Within
<1>4. ASSUME NEW q \in Op, NEW k \in Kinds, NEW f PROVE Keeps(q, k, f)' <=> Keeps(q, k, f)
  BY <1>1 DEF Keeps, Within, Kinds
<1> QED BY <1>2, <1>3, <1>4

\* What such a step leaves of the invariant.
LEMMA TaskCores ==
  ASSUME RestInv, todo = <<>>, UNCHANGED Stores, NEW o, NEW e,
         \A w \in Waiting' : Within(w, o, e),
         \A q \in Op : controllers'[q] => controllers[q], ~Live(o)' \/ ~Closes(o)'
  PROVE  \A f \in Env : CoreKeeps(f)' /\ CreationAlone(f)'
<1>1. \A q \in Op :
        /\ Live(q)' => Live(q)
        /\ Unfinished(q)' => Unfinished(q)
        /\ Closes(q)' => q = o
        /\ \A k, f : Belongs(q, k, f)' <=> Belongs(q, k, f)
        /\ \A k \in Kinds : \A f : Keeps(q, k, f)' <=> Keeps(q, k, f)
  BY TaskFacts
<1> SUFFICES ASSUME NEW f \in Env PROVE CoreKeeps(f)' /\ CreationAlone(f)'
  OBVIOUS
<1>2. CoreKeeps(f) /\ CreationAlone(f)
  BY DEF RestInv, Agrees, Cores
<1>3. CoreKeeps(f)'
  <2> SUFFICES ASSUME NEW q \in Op, NEW k \in CoreTransactions, Live(q)', Belongs(q, k, f)'
               PROVE  Keeps(q, k, f)' /\ ~Closes(q)'
    BY DEF CoreKeeps
  <2>1. k \in Kinds
    BY DEF CoreTransactions, Kinds
  <2>2. Keeps(q, k, f)
    BY <1>1, <1>2 DEF CoreKeeps
  <2> QED BY <1>1, <2>1, <2>2
<1>4. CreationAlone(f)'
  BY <1>1, <1>2 DEF CreationAlone
<1> QED BY <1>3, <1>4

LEMMA RestTask ==
  ASSUME RestInv, todo = <<>>, UNCHANGED << Stores, launches, mode >>, NEW o, NEW e,
         \A w \in Waiting' : Within(w, o, e),
         \A q \in Op : controllers'[q] => controllers[q], ~Live(o)' \/ ~Closes(o)',
         \A q \in Op : requested'[q] \in {None, requested[q]},
         \A f \in Env \ {e} : entries'[f] = entries[f],
         \A p \in processes' : p \in processes \/ p.env = e,
         e \in Env => Agrees(e)'
  PROVE  RestInv'
<1>1. \A q \in Op :
        /\ Live(q)' => Live(q)
        /\ \A k, f : Belongs(q, k, f)' <=> Belongs(q, k, f)
        /\ \A k \in Kinds : \A f : Keeps(q, k, f)' <=> Keeps(q, k, f)
  BY TaskFacts
<1>2. UNCHANGED << environments, operations, journals >>
  BY DEF Stores
<1>3. ASSUME NEW f \in Env, f # e PROVE Agrees(f)'
  <2>1. Agrees(f)
    BY DEF RestInv
  <2>2. Spares(f)'
    BY <1>3 DEF Spares, Within
  <2>3. CoreKeeps(f)' /\ CreationAlone(f)'
    BY TaskCores
  <2>4. \A q \in Op, k \in {"start", "stop"} : Live(q)' /\ Belongs(q, k, f)' =>
          /\ Live(q) /\ Belongs(q, k, f)
          /\ requested'[q] # None => requested'[q] = requested[q]
    BY <1>1
  <2>5. \A q \in Op, k \in CoreTransactions : Keeps(q, k, f)' => Keeps(q, k, f)
    BY <1>1 DEF CoreTransactions, Kinds
  <2>6. entries'[f] = entries[f] /\ \A p \in processes' : p.env = f => p \in processes
    BY <1>3
  <2> QED BY <1>2, <2>1, <2>2, <2>3, <2>4, <2>5, <2>6, AgreesBeside
<1>4. NoApply'
  <2>1. \A w \in Waiting' : w.store = "journals" =>
          o \in Op /\ w.val.kind \in {"none", journals[o].kind}
    BY DEF Within
  <2>2. \A w \in Waiting' : w.store = "journals" => w.val.kind # "apply"
    <3> SUFFICES ASSUME NEW w \in Waiting', w.store = "journals" PROVE w.val.kind # "apply"
      OBVIOUS
    <3> QED BY <2>1 DEF RestInv, NoApply
  <2> QED BY <1>2, <2>2 DEF RestInv, NoApply
<1> QED BY <1>3, <1>4 DEF RestInv

LEMMA WithinWrites ==
  ASSUME TypeOK, NEW o \in Op, NEW e
  PROVE  /\ \A q \in Op : \A s : s # "active" =>
              /\ Within(Ended(q, s), o, e) /\ \A w \in Settling(q, s) : Within(w, o, e)
         /\ \A s : Within(PutGeneration(o, s), o, e)
         /\ Within(Removed(o), o, e) /\ Within(MarkedCommitted(o), o, e)
         /\ \A w \in Repairing(o) : Within(w, o, e)
         /\ journals[o].env = e => \A w \in Erring(o) : Within(w, o, e)
         /\ \A p : Within(PutPlan(p, o), o, e)
         /\ \A k, s : Within(PutLedger(o, k, s), o, e)
         /\ \A r : Within(PutEnvironment(e, r), o, e) /\ Within(PutLaunch(e, r), o, e)
         /\ \A s : Within(PutState(e, s), o, e) /\ Within(Marked(e, s), o, e)
         /\ \A g : Within(Spawning(e, g), o, e)
<1>1. \A q \in Op : \A s : s # "active" => Within(Ended(q, s), o, e)
  BY EndedFields DEF Within
<1>2. /\ \A s : Within(PutGeneration(o, s), o, e)
      /\ \A p : Within(PutPlan(p, o), o, e)
      /\ \A k, s : Within(PutLedger(o, k, s), o, e)
      /\ \A r : Within(PutEnvironment(e, r), o, e) /\ Within(PutLaunch(e, r), o, e)
      /\ \A s : Within(PutState(e, s), o, e) /\ Within(Marked(e, s), o, e)
  BY DEF Within, PutGeneration, PutPlan, PutLedger, PutEnvironment, PutLaunch, PutState, Marked,
         Write
<1>3. Within(Removed(o), o, e)
  BY DEF Within, Removed, PutJournal, Write, NoJournal
<1>4. Within(MarkedCommitted(o), o, e)
  <2> DEFINE r == [journals[o] EXCEPT !.phase = "committed"]
  <2>1. journals[o] \in JournalRecord
    BY DEF TypeOK
  <2>2. r.kind = journals[o].kind /\ r.env = journals[o].env
    BY <2>1 DEF JournalRecord, NoJournal
  <2>3. MarkedCommitted(o) = [store |-> "journals", key |-> o, val |-> r]
    BY DEF MarkedCommitted, PutJournal, Write
  <2> HIDE DEF r
  <2> QED BY <2>2, <2>3 DEF Within
<1> HIDE DEF Within
<1> QED BY <1>1, <1>2, <1>3, <1>4 DEF Settling, Repairing, Erring, Spawning

LEMMA RestInstallReturns ==
  ASSUME TypeOK, StoresInv, AttendedInv, RestInv, NEW o \in Op, InstallReturns(o)
  PROVE  RestInv'
<1>1. /\ todo = <<>> /\ Serving /\ UNCHANGED << Stores, launches, entries, mode, processes,
                                                requested >>
      /\ journals[o].kind \in CoreTransactions /\ controllers' = [controllers EXCEPT ![o] = FALSE]
  BY DEF InstallReturns, TaskReturns, Finished, Serving, durable, Stores
<1>2. UNCHANGED << environments, operations >>
  BY <1>1 DEF Stores
<1>3. PICK e \in Env : e = journals[o].env
  BY <1>1, JournalFields DEF Built
<1>4. Verified(e) /\ environments[e].state \notin OnTheMove
  <2>1. Keeps(o, journals[o].kind, e)
    BY <1>3 DEF Keeps
  <2>2. CoreRests(e) /\ Prospects(e) = {environments[e]}
    BY <1>1, StoresAtRest DEF RestInv, Agrees, Cores
  <2> QED BY <1>1, <2>1, <2>2 DEF CoreRests
<1>5. Waiting' = CommitSet(o) \/ Waiting' = UndoSet(o)
  BY <1>1, CommitWaits, UndoWaits DEF InstallReturns, Run, Waiting
<1>6. \A w \in Waiting' : Within(w, o, e)
  <2>1. "failed" # "active" /\ "succeeded" # "active"
    OBVIOUS
  <2> HIDE DEF Within
  <2> QED BY <1>3, <1>5, <2>1, WithinWrites DEF CommitSet, UndoSet
<1>7. \A w \in Waiting' : w.store # "launches" /\ (w.store = "environments" =>
                                                     w.val.state \notin OnTheMove)
  <2>1. /\ Committing(e, o).state = "stopped" /\ Errored(e).state = "error"
    BY DEF TypeOK, EnvironmentRecord, Committing, Errored
  <2>2. \A s : \A w \in Settling(o, s) : w.store = "operations"
    BY DEF Settling, Ended, Write
  <2>3. /\ \A s : PutGeneration(o, s).store = "generations"
        /\ \A r : PutEnvironment(e, r).val = r /\ PutEnvironment(e, r).store = "environments"
        /\ MarkedCommitted(o).store = "journals" /\ Removed(o).store = "journals"
    BY DEF PutGeneration, PutEnvironment, MarkedCommitted, Removed, PutJournal, Write
  <2>4. \A w \in Erring(o) : w = PutEnvironment(e, Errored(e))
    BY <1>3 DEF Erring
  <2> QED BY <1>3, <1>5, <2>1, <2>2, <2>3, <2>4 DEF CommitSet, UndoSet, OnTheMove
<1>8. \A q \in Op : controllers'[q] => controllers[q]
  BY <1>1 DEF TypeOK
<1>9. \A q \in Op :
        /\ Live(q)' => Live(q)
        /\ \A k, f : Belongs(q, k, f)' <=> Belongs(q, k, f)
  BY <1>1, <1>6, <1>8, TaskFacts
<1>10. ~Live(o)'
  BY <1>1, <1>6 DEF Live, Within, TypeOK
<1>11. CoreKeeps(e)' /\ CreationAlone(e)'
  BY <1>1, <1>6, <1>8, <1>10, TaskCores
<1>12. Agrees(e)'
  <2>1. Agrees(e)
    BY DEF RestInv
  <2> QED BY <1>1, <1>2, <1>4, <1>7, <1>9, <1>11, <2>1, AgreesResting
<1> HIDE DEF RestInv, Within
<1> QED BY <1>1, <1>6, <1>8, <1>10, <1>12, RestTask

\* A start or stop under way in e is the only one there, and no transaction is.
LEMMA WorkFacts ==
  ASSUME TypeOK, ProcessInv, RestInv, NEW o \in Op, NEW e \in Env, todo = <<>>, Serving,
         controllers[o], operations[o].kind \in {"start", "stop"}, operations[o].env = e
  PROVE  /\ \A q \in Op : Live(q) /\ (Belongs(q, "start", e) \/ Belongs(q, "stop", e)) => q = o
         /\ \A q \in Op, k \in CoreTransactions : ~Keeps(q, k, e)
         /\ operations[o].kind = "start" =>
              /\ Verified(e) /\ environments[e].state \in OnTheMove
              /\ requested[o] # None => environments[e].gen = requested[o]
              /\ ~Runs(launches[e])
              /\ \A p \in processes : p.env = e => p.by = o /\ requested[o] = None
         /\ operations[o].kind = "stop" /\ Verified(e) =>
              /\ environments[e].state = "stopping"
              /\ \A p \in processes : p.env = e => p.by = launches[e].by
         /\ Runs(launches[e]) => Verified(e) /\ environments[e].state \in OnTheMove
         /\ Verified(e) => \A p \in processes : p.env = e => p.gen = environments[e].gen
<1>1. /\ Waiting = {} /\ Live(o)
      /\ Prospects(e) = {environments[e]} /\ Launching(e) = {launches[e]}
      /\ Records(e) = {launches[e]}
      /\ \A q, k, f : Belongs(q, k, f) <=> operations[q].kind = k /\ operations[q].env = f
  BY StoresAtRest
<1>2. ASSUME NEW q \in Op, Live(q), Belongs(q, "start", e) \/ Belongs(q, "stop", e)
      PROVE  q = o
  <2>1. Works(q, e) /\ Works(o, e)
    BY <1>1, <1>2 DEF Works
  <2> QED BY <2>1 DEF ProcessInv, OneWorker
<1>3. Agrees(e)
  BY DEF RestInv
<1>4. operations[o].kind = "start" =>
        /\ Verified(e) /\ environments[e].state \in OnTheMove
        /\ requested[o] # None => environments[e].gen = requested[o]
        /\ ~Runs(launches[e])
  BY <1>1, <1>3 DEF Agrees, Movement, StartMoves
<1>5. operations[o].kind = "stop" /\ Verified(e) => environments[e].state = "stopping"
  BY <1>1, <1>3 DEF Agrees, Movement, StopMoves
<1>6. ASSUME NEW q \in Op, NEW k \in CoreTransactions, Keeps(q, k, e) PROVE FALSE
  <2>1. Verified(e) /\ environments[e].state \notin OnTheMove
    BY <1>1, <1>3, <1>6 DEF Agrees, Cores, CoreRests
  <2> QED BY <1>4, <1>5, <2>1 DEF OnTheMove
<1>7. Runs(launches[e]) => Verified(e) /\ environments[e].state \in OnTheMove
  BY <1>1, <1>3 DEF Agrees, Movement, RunningMoves, Verified
<1>8. ASSUME Verified(e), NEW p \in processes, p.env = e
      PROVE  \/ launches[e].by = None /\ p.by = o
             \/ launches[e].by # None /\ p.by = launches[e].by
  <2>1. Fits(launches[e], p) /\ p.by \in Op
    BY <1>1, <1>8, ProcessFields, ProcessesAlive DEF ProcessInv, RecordsFit
  <2>2. CASE launches[e].by = None
    <3>1. Live(p.by)
      BY <1>1, <1>8, <2>2 DEF ProcessInv, Attached, Unresolved, Verified, Serving
    <3>2. Belongs(p.by, "start", e)
      BY <1>1, <1>8 DEF ProcessInv, OwnProcess
    <3> QED BY <1>2, <2>1, <2>2, <3>1, <3>2
  <2> QED BY <2>1, <2>2 DEF Fits
<1>9. ASSUME operations[o].kind = "start", NEW p \in processes, p.env = e
      PROVE  p.by = o /\ requested[o] = None
  <2>1. requested[o] = None
    <3>1. requested[o] # None => Awaits(o, e)
      BY <1>1, <1>9 DEF Awaits
    <3> QED BY <1>9, <3>1 DEF ProcessInv, VacantUntilSpawn
  <2>2. launches[e].by \in {None, o}
    BY <1>1, <1>9, <2>1 DEF ProcessInv, OwnIntent
  <2> QED BY <1>4, <1>8, <1>9, <2>1, <2>2
<1>10. ASSUME operations[o].kind = "stop", Verified(e), NEW p \in processes, p.env = e
       PROVE  p.by = launches[e].by
  <2>1. operations[p.by].kind = "start"
    BY DEF ProcessInv, OwnProcess
  <2> QED BY <1>8, <1>10, <2>1
<1>11. Verified(e) => \A p \in processes : p.env = e => p.gen = environments[e].gen
  BY <1>1, <1>3 DEF Agrees, Movement, ProcessMoves
<1> QED BY <1>2, <1>4, <1>5, <1>6, <1>7, <1>9, <1>10, <1>11

\* A step of a start or stop: what it must show of its environment.
LEMMA RestWork ==
  ASSUME TypeOK, ProcessInv, RestInv, NEW o \in Op, NEW e \in Env, todo = <<>>, Serving,
         controllers[o], operations[o].kind \in {"start", "stop"}, operations[o].env = e,
         UNCHANGED << Stores, launches, mode, entries >>,
         \A w \in Waiting' : Within(w, o, e) /\ w.store # "journals",
         \A q \in Op : controllers'[q] => controllers[q],
         \A q \in Op : requested'[q] \in {None, requested[q]},
         \A p \in processes' : p \in processes \/ p.env = e,
         controllers'[o] => /\ operations[o].kind = "start" /\ Coming(e)' = {}
                            /\ \A r \in Launching(e)' : ~Runs(r),
         ProcessMoves(e)', RunsPointer(e)',
         \A r \in Upcoming(e)' :
           /\ Runs(r) => /\ Verified(e) /\ r.by # None
                         /\ \A v \in Prospects(e)' : v.state \in OnTheMove
           /\ r.by # None => r.state # "none" /\ (r.by = launches[e].by
                                                  \/ (r.by = o /\ operations[o].kind = "start")),
         Runs(launches[e]) => Upcoming(e)' # {}
  PROVE  RestInv'
<1>1. /\ \A q \in Op : Live(q) /\ (Belongs(q, "start", e) \/ Belongs(q, "stop", e)) => q = o
      /\ \A q \in Op, k \in CoreTransactions : ~Keeps(q, k, e)
      /\ operations[o].kind = "start" =>
           /\ Verified(e) /\ environments[e].state \in OnTheMove
           /\ requested[o] # None => environments[e].gen = requested[o]
  BY WorkFacts
<1>2. UNCHANGED << environments, operations, journals >> /\ Agrees(e)
  BY DEF Stores, RestInv
<1>3. Waiting = {} /\ Records(e) = {launches[e]}
      /\ \A q, k, f : Belongs(q, k, f) <=> operations[q].kind = k /\ operations[q].env = f
  BY StoresAtRest
<1>4. \A q \in Op :
        /\ Live(q)' => Live(q)
        /\ \A k, f : Belongs(q, k, f)' <=> Belongs(q, k, f)
        /\ \A k \in Kinds : \A f : Keeps(q, k, f)' <=> Keeps(q, k, f)
  BY TaskFacts
<1>5. ~Closes(o)' /\ (Live(o)' => controllers'[o])
  BY DEF Closes, Live, Within
<1>6. CoreKeeps(e)' /\ CreationAlone(e)'
  BY <1>5, TaskCores
<1>7. (Verified(e)' <=> Verified(e)) /\ Serving'
  BY DEF Verified, Serving
<1>8. CoreRests(e)'
  BY <1>1, <1>4 DEF CoreRests, CoreTransactions, Kinds
<1>9. StartMoves(e)'
  <2> SUFFICES ASSUME NEW q \in Op, Live(q)', Belongs(q, "start", e)'
               PROVE  /\ Verified(e)'
                      /\ \A v \in Prospects(e)' :
                           /\ v.state \in OnTheMove
                           /\ requested'[q] # None => v.gen = requested'[q]
                      /\ \A r \in Launching(e)' : ~Runs(r)
    BY DEF StartMoves
  <2>1. q = o /\ controllers'[o]
    BY <1>1, <1>4, <1>5
  <2>2. Prospects(e)' = {environments[e]}
    BY <1>2, <2>1 DEF Prospects
  <2> QED BY <1>1, <1>7, <2>1, <2>2
<1>10. StopMoves(e)'
  <2> SUFFICES ASSUME NEW q \in Op, Live(q)', Belongs(q, "stop", e)' PROVE FALSE
    BY DEF StopMoves
  <2>1. q = o /\ controllers'[o] /\ operations[o].kind = "stop"
    BY <1>1, <1>3, <1>4, <1>5
  <2> QED BY <2>1
<1>11. RunningMoves(e)'
  <2> SUFFICES ASSUME NEW r \in Launching(e)', Runs(r)
               PROVE  Verified(e) /\ \A v \in Prospects(e)' : v.state \in OnTheMove
    BY <1>7 DEF RunningMoves, Verified
  <2>1. r \in Upcoming(e)'
    BY DEF Launching
  <2> QED BY <2>1
<1>12. NamesStart(e)'
  <2> SUFFICES ASSUME NEW r \in Records(e)'
               PROVE  /\ Runs(r) => r.by # None
                      /\ r.by # None => /\ operations[r.by].kind = "start"
                                        /\ operations[r.by].env = e /\ r.state # "none"
    BY <1>2 DEF NamesStart, Runs
  <2>1. NamesStart(e)
    BY <1>2 DEF Agrees, Traces
  <2>2. CASE r = launches[e]
    BY <1>3, <2>1, <2>2 DEF NamesStart
  <2>3. CASE r \in Upcoming(e)'
    BY <1>3, <2>1, <2>3 DEF NamesStart
  <2> QED BY <2>2, <2>3 DEF Records
<1>13. Finds(e)'
  BY <1>7 DEF Finds, Unknown, Adopting, Adopted, Serving
<1>14. Agrees(e)'
  BY <1>6, <1>8, <1>9, <1>10, <1>11, <1>12, <1>13 DEF Agrees, Movement, Cores, Traces
<1>15. \A w \in Waiting' : Within(w, o, e)
  OBVIOUS
<1> HIDE DEF RestInv, Within, ProcessInv
<1> QED BY <1>5, <1>14, <1>15, RestTask

LEMMA MarkedFields ==
  ASSUME TypeOK, NEW e \in Env, NEW s
  PROVE  LET w == Marked(e, s)
         IN  /\ w.store = "launches" /\ w.key = e /\ w.val.state = s
             /\ w.val.by = launches[e].by /\ w.val.gen = launches[e].gen
<1> DEFINE r == [launches[e] EXCEPT !.state = s]
<1>1. launches[e] \in LaunchRecord
  BY DEF TypeOK
<1>2. r.state = s /\ r.by = launches[e].by /\ r.gen = launches[e].gen
  BY <1>1 DEF LaunchRecord
<1>3. Marked(e, s) = [store |-> "launches", key |-> e, val |-> r]
  BY DEF Marked, Write
<1> HIDE DEF r
<1> QED BY <1>2, <1>3

\* The next launch record is written and nothing else.
LEMMA OneLaunch ==
  ASSUME NEW e \in Env, NEW r, todo' = << PutLaunch(e, r) >>
  PROVE  /\ Coming(e)' = {} /\ Upcoming(e)' = {r} /\ Launching(e)' = {r}
         /\ Prospects(e)' = {environments'[e]} /\ Records(e)' = {launches'[e], r}
         /\ \A w \in Waiting' : w = PutLaunch(e, r) /\ w.store = "launches"
<1>1. Waiting' = {PutLaunch(e, r)}
  BY FewWrites DEF Waiting
<1>2. PutLaunch(e, r).store = "launches" /\ PutLaunch(e, r).key = e /\ PutLaunch(e, r).val = r
  BY DEF PutLaunch, Write
<1>3. Coming(e)' = {} /\ Upcoming(e)' = {r}
  BY <1>1, <1>2 DEF Coming, Upcoming
<1> QED BY <1>1, <1>2, <1>3 DEF Prospects, Launching, Records

LEMMA RestLaunchIntent ==
  ASSUME TypeOK, ProcessInv, RestInv, NEW o \in Op, LaunchIntent(o) PROVE RestInv'
<1> DEFINE r == [state |-> "spawning", gen |-> requested[o], by |-> None]
<1>1. /\ todo = <<>> /\ Serving /\ controllers[o] /\ operations[o].kind = "start"
      /\ UNCHANGED << Stores, launches, mode, entries, controllers, requested, processes >>
  BY DEF LaunchIntent, TaskOf, TaskReturns, OfKind, Serving, durable, volatile, Stores
<1>2. PICK e \in Env : e = operations[o].env
  BY <1>1, OperationRecords
<1>3. todo' = << PutLaunch(e, r) >>
  BY <1>2 DEF LaunchIntent, Run, Spawning
<1>4. r.by = None /\ ~Runs(r)
  BY DEF Runs
<1> HIDE DEF r
<1>5. /\ Verified(e) /\ environments[e].state \in OnTheMove /\ ~Runs(launches[e])
      /\ \A p \in processes : p.env = e => p.gen = environments[e].gen
  BY <1>1, <1>2, WorkFacts
<1>6. /\ Coming(e)' = {} /\ Upcoming(e)' = {r} /\ Launching(e)' = {r}
      /\ Prospects(e)' = {environments'[e]} /\ Records(e)' = {launches'[e], r}
      /\ \A w \in Waiting' : w = PutLaunch(e, r) /\ w.store = "launches"
  BY <1>3, OneLaunch
<1>7. UNCHANGED environments
  BY <1>1 DEF Stores
<1>8. \A w \in Waiting' : Within(w, o, e) /\ w.store # "journals"
  BY <1>6, WithinWrites
<1>9. ProcessMoves(e)' /\ RunsPointer(e)'
  BY <1>1, <1>4, <1>5, <1>6, <1>7 DEF ProcessMoves, RunsPointer
<1> HIDE DEF RestInv, ProcessInv, Within
<1> QED BY <1>1, <1>2, <1>4, <1>5, <1>6, <1>8, <1>9, RestWork

LEMMA RestSpawn ==
  ASSUME TypeOK, ProcessInv, RestInv, NEW o \in Op, Spawn(o) PROVE RestInv'
<1>1. /\ todo = <<>> /\ Serving /\ controllers[o] /\ operations[o].kind = "start"
      /\ UNCHANGED << Stores, launches, mode, entries, controllers, todo >>
      /\ requested[o] # None /\ requested' = [requested EXCEPT ![o] = None]
      /\ processes' = processes \cup {[env |-> operations[o].env, by |-> o,
                                       gen |-> requested[o]]}
  BY DEF Spawn, TaskOf, TaskReturns, OfKind, Serving, durable, Stores
<1>2. PICK e \in Env : e = operations[o].env
  BY <1>1, OperationRecords
<1>3. /\ Verified(e) /\ environments[e].state \in OnTheMove /\ ~Runs(launches[e])
      /\ environments[e].gen = requested[o]
      /\ \A p \in processes : p.env = e => p.gen = environments[e].gen
  BY <1>1, <1>2, WorkFacts
<1>4. Waiting' = {}
  BY <1>1, NothingWaits DEF Waiting
<1>5. /\ Coming(e)' = {} /\ Prospects(e)' = {environments'[e]}
      /\ Upcoming(e)' = {} /\ Launching(e)' = {launches'[e]} /\ Records(e)' = {launches'[e]}
  BY <1>4 DEF Coming, Upcoming, Prospects, Launching, Records
<1>6. UNCHANGED environments
  BY <1>1 DEF Stores
<1>7. ProcessMoves(e)' /\ RunsPointer(e)'
  BY <1>1, <1>3, <1>5, <1>6 DEF ProcessMoves, RunsPointer
<1>8. \A q \in Op : requested'[q] \in {None, requested[q]}
  BY <1>1 DEF TypeOK
<1>9. \A p \in processes' : p \in processes \/ p.env = e
  BY <1>1, <1>2
<1> HIDE DEF RestInv, ProcessInv, Within
<1> QED BY <1>1, <1>2, <1>3, <1>4, <1>5, <1>7, <1>8, <1>9, RestWork

LEMMA RestIdentify ==
  ASSUME TypeOK, ProcessInv, RestInv, NEW o \in Op, Identify(o) PROVE RestInv'
<1>1. /\ todo = <<>> /\ Serving /\ controllers[o] /\ operations[o].kind = "start"
      /\ UNCHANGED << Stores, launches, mode, entries, controllers, requested, processes >>
  BY DEF Identify, Spawned, TaskOf, TaskReturns, OfKind, Serving, durable, volatile, Stores
<1>2. PICK e \in Env : e = operations[o].env
  BY <1>1, OperationRecords
<1> DEFINE r == [launches[e] EXCEPT !.state = "starting", !.by = o]
<1>3. todo' = << PutLaunch(e, r) >>
  BY <1>2 DEF Identify, Run
<1>4. r.by = o /\ r.state = "starting" /\ ~Runs(r)
  <2>1. launches[e] \in LaunchRecord
    BY DEF TypeOK
  <2> QED BY <2>1 DEF LaunchRecord, Runs
<1> HIDE DEF r
<1>5. /\ Verified(e) /\ environments[e].state \in OnTheMove /\ ~Runs(launches[e])
      /\ \A p \in processes : p.env = e => p.gen = environments[e].gen
  BY <1>1, <1>2, WorkFacts
<1>6. /\ Coming(e)' = {} /\ Upcoming(e)' = {r} /\ Launching(e)' = {r}
      /\ Prospects(e)' = {environments'[e]} /\ Records(e)' = {launches'[e], r}
      /\ \A w \in Waiting' : w = PutLaunch(e, r) /\ w.store = "launches"
  BY <1>3, OneLaunch
<1>7. UNCHANGED environments
  BY <1>1 DEF Stores
<1>8. \A w \in Waiting' : Within(w, o, e) /\ w.store # "journals"
  BY <1>6, WithinWrites
<1>9. ProcessMoves(e)' /\ RunsPointer(e)'
  BY <1>1, <1>4, <1>5, <1>6, <1>7 DEF ProcessMoves, RunsPointer
<1> HIDE DEF RestInv, ProcessInv, Within
<1> QED BY <1>1, <1>2, <1>4, <1>5, <1>6, <1>8, <1>9, RestWork

\* What the blocks of a start or stop write: they mark the launch record and change
\* the state of the environment.
Final(w, e) ==
  \/ w.store \in {"operations", "ledger", "controllers"}
  \/ \E s : w = PutState(e, s)
  \/ \E s : w = Marked(e, s)

LEMMA FinalWrites ==
  ASSUME TypeOK, NEW e \in Env, \A w \in Waiting' : Final(w, e)
  PROVE  /\ \A v \in Coming(e)' : v.gen = environments[e].gen
                                  /\ \E s : PutState(e, s) \in Waiting' /\ v.state = s
         /\ \A r \in Upcoming(e)' : r.by = launches[e].by
                                    /\ \E s : Marked(e, s) \in Waiting' /\ r.state = s
         /\ \A w \in Waiting' : w.store # "journals"
<1>1. \A s : /\ PutState(e, s).store = "environments" /\ PutState(e, s).val.state = s
             /\ PutState(e, s).val.gen = environments[e].gen
  BY StateFields
<1>2. \A s : /\ Marked(e, s).store = "launches" /\ Marked(e, s).val.state = s
             /\ Marked(e, s).val.by = launches[e].by
  BY MarkedFields
<1> QED BY <1>1, <1>2 DEF Coming, Upcoming, Final

LEMMA RestReady ==
  ASSUME TypeOK, ProcessInv, RestInv, NEW o \in Op, Ready(o) PROVE RestInv'
<1>1. /\ todo = <<>> /\ Serving /\ controllers[o] /\ operations[o].kind = "start"
      /\ UNCHANGED << Stores, launches, mode, entries, requested, processes >>
      /\ Finished(o) /\ Owned(operations[o].env)
  BY DEF Ready, Spawned, TaskOf, TaskReturns, OfKind, Serving, durable, Stores
<1>2. PICK e \in Env : e = operations[o].env
  BY <1>1, OperationRecords
<1>3. Waiting' = {Marked(e, "running"), PutState(e, "running")} \cup Settling(o, "succeeded")
  BY <1>2, ReadyWaits
<1>4. \A w \in Settling(o, "succeeded") : w.store = "operations" /\ Within(w, o, e)
  <2>1. \A w \in Settling(o, "succeeded") : w.store = "operations"
    BY EndedFields DEF Settling
  <2> QED BY <2>1, WithinWrites
<1>5. \A w \in Waiting' : Final(w, e) /\ Within(w, o, e)
  BY <1>3, <1>4, WithinWrites DEF Final
<1>6. /\ \A v \in Coming(e)' : v.gen = environments[e].gen
                               /\ \E s : PutState(e, s) \in Waiting' /\ v.state = s
      /\ \A r \in Upcoming(e)' : r.by = launches[e].by
                                 /\ \E s : Marked(e, s) \in Waiting' /\ r.state = s
      /\ \A w \in Waiting' : w.store # "journals"
  BY <1>5, FinalWrites
<1>7. /\ Verified(e) /\ environments[e].state \in OnTheMove /\ ~Runs(launches[e])
      /\ \A p \in processes : p.env = e => p.gen = environments[e].gen
  BY <1>1, <1>2, WorkFacts
<1>8. /\ \A s : PutState(e, s).store = "environments" /\ PutState(e, s).val.state = s
      /\ \A s : Marked(e, s).store = "launches" /\ Marked(e, s).val.state = s
  BY StateFields, MarkedFields
<1>9. \A v \in Prospects(e)' : v.state \in OnTheMove /\ v.gen = environments[e].gen
  <2>1. \A v \in Coming(e)' : v.state \in OnTheMove
    BY <1>3, <1>4, <1>8 DEF Coming, OnTheMove
  <2> QED BY <1>1, <1>6, <1>7, <2>1 DEF Prospects, Stores
<1>10. \A r \in Upcoming(e)' : r.by # None /\ r.state = "running"
  <2>1. launches[e].by # None
    BY <1>1, <1>2, ProcessFields, NoneAssumption DEF Owned
  <2>2. \A r \in Upcoming(e)' : r.state = "running"
    BY <1>3, <1>4, <1>8 DEF Upcoming
  <2> QED BY <1>6, <2>1, <2>2
<1>11. ProcessMoves(e)' /\ RunsPointer(e)'
  <2>1. \A v \in {environments'[e]} \cup Coming(e)' : v.gen = environments[e].gen
    BY <1>1, <1>6 DEF Stores
  <2> QED BY <1>1, <1>7, <1>9, <2>1 DEF ProcessMoves, RunsPointer
<1>12. ~controllers'[o] /\ \A q \in Op \ {o} : controllers'[q] = controllers[q]
  BY <1>1, TaskEnded
<1>13. \A q \in Op : controllers'[q] => controllers[q]
  BY <1>12
<1> HIDE DEF RestInv, ProcessInv, Within
<1> QED BY <1>1, <1>2, <1>5, <1>6, <1>7, <1>9, <1>10, <1>11, <1>12, <1>13, RestWork

\* What a start or stop that fails writes.
LEMMA FailingFinal ==
  ASSUME TypeOK, NEW o \in Op, NEW e \in Env, operations[o].env = e
  PROVE  /\ \A w \in Settling(o, "failed") \cup Settling(o, "succeeded") :
              w.store = "operations" /\ Within(w, o, e)
         /\ \A w \in Failing(o) \cup Stopping(o) : Final(w, e) /\ Within(w, o, e)
         /\ operations[o].kind = "stop" =>
              \A w \in Failing(o) : w.store = "environments" => w.val.state = "running"
<1>1. \A w \in Settling(o, "failed") \cup Settling(o, "succeeded") :
        w.store = "operations" /\ Within(w, o, e)
  <2>1. \A w \in Settling(o, "failed") \cup Settling(o, "succeeded") : w.store = "operations"
    BY EndedFields DEF Settling
  <2> QED BY <2>1, WithinWrites
<1>2. \A w \in Reverting(o) : w = PutState(e, Reverted(operations[o].kind))
  BY DEF Reverting
<1>3. \A s : Within(PutState(e, s), o, e)
  BY WithinWrites
<1> HIDE DEF Within
<1>4. \A w \in Failing(o) \cup Stopping(o) : Final(w, e) /\ Within(w, o, e)
  BY <1>1, <1>2, <1>3 DEF Failing, Stopping, Final
<1>5. operations[o].kind = "stop" =>
        \A w \in Failing(o) : w.store = "environments" => w.val.state = "running"
  BY <1>1, <1>2, StateFields DEF Failing, Reverted
<1> QED BY <1>1, <1>4, <1>5

LEMMA RestStartFails ==
  ASSUME TypeOK, ProcessInv, RestInv, NEW o \in Op, StartFails(o) PROVE RestInv'
<1>1. /\ todo = <<>> /\ Serving /\ controllers[o] /\ operations[o].kind = "start"
      /\ UNCHANGED << Stores, launches, mode, entries >>
      /\ Finished(o) /\ processes' = {p \in processes : p.by # o}
      /\ requested' = [requested EXCEPT ![o] = None]
  BY DEF StartFails, TaskOf, TaskReturns, OfKind, Killed, Outlived, Serving, files, Stores
<1>2. PICK e \in Env : e = operations[o].env
  BY <1>1, OperationRecords
<1>3. Waiting' = Failing(o) \cup IF Previous(o, e) THEN {} ELSE {Marked(e, "ended")}
  BY <1>2, StartFailsWaits
<1>4. \A w \in Waiting' : Final(w, e) /\ Within(w, o, e)
  BY <1>2, <1>3, FailingFinal, WithinWrites DEF Final
<1>5. /\ \A r \in Upcoming(e)' : r.by = launches[e].by
                                 /\ \E s : Marked(e, s) \in Waiting' /\ r.state = s
      /\ \A w \in Waiting' : w.store # "journals"
  BY <1>4, FinalWrites
<1>6. ~Runs(launches[e]) /\ \A p \in processes' : p.env # e
  BY <1>1, <1>2, WorkFacts
<1>7. \A r \in Upcoming(e)' : r.state = "ended"
  <2>1. \A s : Marked(e, s).store = "launches" /\ Marked(e, s).val.state = s
    BY MarkedFields
  <2>2. \A w \in Failing(o) : w.store = "launches" => FALSE
    <3>1. \A s : PutState(e, s).store = "environments"
      BY StateFields
    <3>2. \A w \in Reverting(o) : w.store = "environments"
      BY <1>2, <3>1 DEF Reverting
    <3> QED BY <1>2, <3>2, FailingFinal DEF Failing
  <2> QED BY <1>3, <2>1, <2>2 DEF Upcoming
<1>8. ProcessMoves(e)' /\ RunsPointer(e)'
  BY <1>6 DEF ProcessMoves, RunsPointer
<1>9. ~controllers'[o] /\ \A q \in Op \ {o} : controllers'[q] = controllers[q]
  BY <1>1, TaskEnded
<1>10. \A q \in Op : controllers'[q] => controllers[q]
  BY <1>9
<1>11. \A q \in Op : requested'[q] \in {None, requested[q]}
  BY <1>1 DEF TypeOK
<1>12. \A r \in Upcoming(e)' : ~Runs(r) /\ r.state # "none" /\ r.by = launches[e].by
  BY <1>5, <1>7 DEF Runs
<1>13. \A p \in processes' : p \in processes
  BY <1>1
<1> HIDE DEF RestInv, ProcessInv, Within
<1> QED BY <1>1, <1>2, <1>4, <1>5, <1>6, <1>8, <1>9, <1>10, <1>11, <1>12, <1>13, RestWork

LEMMA RestStopTask ==
  ASSUME TypeOK, ProcessInv, RestInv, NEW o \in Op, StopReturns(o) \/ StopUnconfirmed(o)
  PROVE  RestInv'
<1>1. /\ todo = <<>> /\ Serving /\ controllers[o] /\ operations[o].kind = "stop"
      /\ UNCHANGED << Stores, launches, mode, entries, requested >> /\ Finished(o)
      /\ processes' \subseteq processes
  BY DEF StopReturns, StopUnconfirmed, TaskOf, TaskReturns, OfKind, Killed, Serving, durable,
         files, Stores
<1>2. PICK e \in Env : e = operations[o].env
  BY <1>1, OperationRecords
<1>3. \/ /\ Waiting' = {Marked(e, "ended")} \cup Stopping(o)
         /\ processes' = {p \in processes : p.by # launches[e].by}
      \/ Waiting' = {Marked(e, "unverifiable")} \cup Failing(o)
  BY <1>2, StopTaskWaits DEF StopReturns, Killed
<1>4. \A w \in Waiting' : Final(w, e) /\ Within(w, o, e)
  BY <1>2, <1>3, FailingFinal, WithinWrites DEF Final
<1>5. /\ \A v \in Coming(e)' : v.gen = environments[e].gen
      /\ \A r \in Upcoming(e)' : r.by = launches[e].by
      /\ \A w \in Waiting' : w.store # "journals"
  BY <1>4, FinalWrites
<1>6. /\ Verified(e) => /\ environments[e].state = "stopping"
                        /\ \A p \in processes : p.env = e => p.by = launches[e].by
                                                             /\ p.gen = environments[e].gen
      /\ Runs(launches[e]) => Verified(e)
  BY <1>1, <1>2, WorkFacts
<1>7. /\ \A s : Marked(e, s).store = "launches" /\ Marked(e, s).key = e
                /\ Marked(e, s).val.state = s
      /\ \A s : PutState(e, s).store = "environments" /\ PutState(e, s).val.state = s
  BY MarkedFields, StateFields
<1>8. \A w \in Failing(o) \cup Stopping(o) : w.store # "launches"
  <2>1. \A w \in Reverting(o) : w.store = "environments"
    BY <1>2, <1>7 DEF Reverting
  <2> QED BY <1>2, <1>7, <2>1, FailingFinal DEF Failing, Stopping
<1>9. \A r \in Upcoming(e)' : ~Runs(r) /\ r.state # "none"
  BY <1>3, <1>7, <1>8 DEF Upcoming, Runs
<1>10. Upcoming(e)' # {}
  <2>1. \E s : Marked(e, s) \in Waiting'
    BY <1>3
  <2> QED BY <1>7, <2>1 DEF Upcoming
<1>11. \A r \in Records(e)' : Runs(r) => r = launches[e]
  BY <1>1, <1>9 DEF Records
<1>12. UNCHANGED environments /\ (Verified(e)' <=> Verified(e))
  BY <1>1 DEF Stores, Verified, Serving
<1>13. \A v \in {environments'[e]} \cup Coming(e)' : v.gen = environments[e].gen
  BY <1>5, <1>12
<1>14. RunsPointer(e)'
  BY <1>1, <1>6, <1>11, <1>13 DEF RunsPointer
<1>15. ProcessMoves(e)'
  <2>1. CASE /\ Waiting' = {Marked(e, "ended")} \cup Stopping(o)
             /\ processes' = {p \in processes : p.by # launches[e].by}
    BY <1>6, <1>12, <2>1 DEF ProcessMoves
  <2>2. CASE Waiting' = {Marked(e, "unverifiable")} \cup Failing(o)
    <3>1. \A v \in Coming(e)' : v.state = "running"
      BY <1>1, <1>2, <1>7, <2>2, FailingFinal DEF Coming
    <3>2. Verified(e) => \A v \in Prospects(e)' : v.state \in OnTheMove /\ v.gen = environments[e].gen
      BY <1>6, <1>12, <1>13, <3>1 DEF Prospects, OnTheMove
    <3> QED BY <1>1, <1>6, <1>12, <3>2 DEF ProcessMoves
  <2> QED BY <1>3, <2>1, <2>2
<1>16. ~controllers'[o] /\ \A q \in Op \ {o} : controllers'[q] = controllers[q]
  BY <1>1, TaskEnded
<1>17. \A q \in Op : controllers'[q] => controllers[q]
  BY <1>16
<1>18. \A p \in processes' : p \in processes
  BY <1>1
<1> HIDE DEF RestInv, ProcessInv, Within
<1> QED BY <1>1, <1>2, <1>4, <1>5, <1>9, <1>10, <1>14, <1>15, <1>16, <1>17, <1>18, RestWork

(***************************************************************************)
(* Exits, cancellations and recovery.                                      *)
(***************************************************************************)

\* A step that writes to no record of an environment.
LEMMA RestSpared ==
  ASSUME RestInv, todo = <<>>,
         UNCHANGED << Stores, launches, mode, entries, controllers, requested, processes >>,
         NEW o, \A w \in Waiting' : Within(w, o, None), ~Live(o)' \/ ~Closes(o)'
  PROVE  RestInv'
<1>1. None \notin Env
  BY NoneAssumption
<1> HIDE DEF RestInv, Within
<1> QED BY <1>1, RestTask

LEMMA RestCancels ==
  ASSUME TypeOK, RestInv, NEW o \in Op, CancelOperation(o) \/ CancelApply(o) PROVE RestInv'
<1>1. /\ todo = <<>> /\ todo' = Settle(o, "cancelled")
      /\ UNCHANGED << Stores, launches, entries, mode, processes, controllers, requested >>
  BY DEF CancelOperation, CancelApply, Idle, Run, durable, Stores
<1>2. Waiting' = Settling(o, "cancelled")
  BY <1>1, SettleWrites DEF Waiting, Settling
<1>3. \A w \in Waiting' : Within(w, o, None)
  BY <1>2, WithinWrites
<1>4. \A w \in Settling(o, "cancelled") : w.store = "operations"
  BY EndedFields DEF Settling
<1>5. ~Closes(o)'
  BY <1>2, <1>4 DEF Closes
<1> HIDE DEF RestInv, Within
<1> QED BY <1>1, <1>3, <1>5, RestSpared

\* The exit of a process that the record of its environment does not name.
LEMMA RestExitUnknown ==
  ASSUME RestInv, NEW o \in Op, NEW e \in Env, ExitCallback(o, e), Waiting' = {} PROVE RestInv'
<1>1. /\ todo = <<>>
      /\ UNCHANGED << Stores, launches, entries, mode, processes, controllers, requested >>
  BY DEF ExitCallback, durable, Stores
<1>2. ~Closes(o)'
  BY DEF Closes
<1> HIDE DEF RestInv, Within
<1> QED BY <1>1, <1>2, RestSpared

LEMMA RestExit ==
  ASSUME TypeOK, ProcessInv, RestInv, NEW o \in Op, NEW e \in Env, ExitCallback(o, e),
         launches[e].state = "running", launches[e].by = o
  PROVE  RestInv'
<1>1. /\ todo = <<>> /\ Serving
      /\ UNCHANGED << Stores, launches, entries, mode, processes, controllers, requested >>
      /\ ~ \E p \in processes : p.by = o
  BY DEF ExitCallback, Serving, durable, Stores
<1>2. /\ Waiting = {} /\ Launching(e) = {launches[e]} /\ Prospects(e) = {environments[e]}
      /\ Records(e) = {launches[e]}
  BY <1>1, StoresAtRest
<1>3. UNCHANGED << environments, operations, journals >> /\ Agrees(e)
  BY <1>1 DEF Stores, RestInv
<1>4. Verified(e) /\ environments[e].state \in OnTheMove
  BY <1>1, <1>2, <1>3 DEF Agrees, Movement, RunningMoves, Runs, Verified
<1>5. \A p \in processes : p.env # e
  BY <1>1, <1>2, NoneAssumption DEF ProcessInv, RecordsFit, Fits
<1>6. \A q \in Op : ~(Live(q) /\ Belongs(q, "start", e))
  BY <1>2, <1>3 DEF Agrees, Movement, StartMoves, Runs
<1>7. \A q \in Op : Live(q) /\ Belongs(q, "stop", e) => environments[e].state = "stopping"
  BY <1>2, <1>3, <1>4 DEF Agrees, Movement, StopMoves
<1>8. \A q \in Op, k \in CoreTransactions : ~Keeps(q, k, e)
  BY <1>1, <1>2, <1>3, <1>4 DEF Agrees, Cores, CoreRests
<1>9. \A w \in Waiting' :
        \/ w = Marked(e, "ended")
        \/ \E q \in Op : w = Ended(q, "failed")
        \/ w = PutState(e, "stopped") /\ environments[e].state \in {"running", "starting"}
  <2>1. StrayStarts(e) \subseteq Op
    BY DEF StrayStarts
  <2> QED BY <2>1, ExitWaits DEF Strays
<1>10. \A q \in Op : Ended(q, "failed").store = "operations"
  BY EndedFields
<1>11. \A w \in Waiting' : Final(w, e) /\ Within(w, o, e)
  <2>1. \A w \in Waiting' : Within(w, o, e)
    BY <1>9, WithinWrites
  <2> QED BY <1>9, <1>10, <2>1 DEF Final
<1>12. /\ \A r \in Upcoming(e)' : r.by = launches[e].by
       /\ \A w \in Waiting' : w.store # "journals"
  BY <1>11, FinalWrites
<1>13. \A q \in Op :
         /\ Live(q)' => Live(q)
         /\ \A k, f : Belongs(q, k, f)' <=> Belongs(q, k, f)
         /\ \A k \in Kinds : \A f : Keeps(q, k, f)' <=> Keeps(q, k, f)
  BY <1>1, <1>11, TaskFacts
<1>14. ~Closes(o)'
  BY <1>12 DEF Closes
<1>15. CoreKeeps(e)' /\ CreationAlone(e)'
  BY <1>1, <1>11, <1>14, TaskCores
<1>16. /\ \A s : Marked(e, s).store = "launches" /\ Marked(e, s).key = e
                 /\ Marked(e, s).val.state = s
       /\ \A s : PutState(e, s).store = "environments" /\ PutState(e, s).val.state = s
  BY MarkedFields, StateFields
<1>17. Launching(e)' = Upcoming(e)' /\ \A r \in Upcoming(e)' : r.state = "ended" /\ r.by = o
  <2>1. Marked(e, "ended") \in Waiting'
    BY ExitWaits DEF Strays
  <2>2. Upcoming(e)' # {}
    BY <1>16, <2>1 DEF Upcoming
  <2>3. \A r \in Upcoming(e)' : r.state = "ended"
    BY <1>9, <1>10, <1>16 DEF Upcoming
  <2> QED BY <1>12, <2>2, <2>3 DEF Launching
<1>18. environments[e].state = "stopping" => Prospects(e)' = {environments[e]}
  <2>1. environments[e].state = "stopping" => Coming(e)' = {}
    BY <1>9, <1>10, <1>16 DEF Coming
  <2> QED BY <1>3, <2>1 DEF Prospects
<1>19. Movement(e)'
  <2>1. ProcessMoves(e)' /\ RunningMoves(e)'
    BY <1>1, <1>5, <1>17 DEF ProcessMoves, RunningMoves, Runs
  <2>2. StartMoves(e)'
    BY <1>6, <1>13 DEF StartMoves
  <2>3. StopMoves(e)'
    BY <1>7, <1>13, <1>18 DEF StopMoves
  <2> QED BY <2>1, <2>2, <2>3 DEF Movement
<1>20. CoreRests(e)'
  BY <1>8, <1>13 DEF CoreRests, CoreTransactions, Kinds
<1>21. Traces(e)'
  <2>1. RunsPointer(e)'
    BY <1>1, <1>5 DEF RunsPointer
  <2>2. NamesStart(e)
    BY <1>3 DEF Agrees, Traces
  <2>3. \A r \in Records(e)' : r = launches[e] \/ (r.state = "ended" /\ r.by = o)
    BY <1>1, <1>17 DEF Records
  <2>4. NamesStart(e)'
    BY <1>2, <1>3, <2>2, <2>3 DEF NamesStart, Runs
  <2> QED BY <2>1, <2>4 DEF Traces
<1>22. Finds(e)'
  BY <1>1 DEF Finds, Unknown, Adopting, Adopted, Serving
<1>23. Agrees(e)'
  BY <1>15, <1>19, <1>20, <1>21, <1>22 DEF Agrees, Cores
<1>24. \A w \in Waiting' : Within(w, o, e)
  BY <1>11
<1> HIDE DEF RestInv, Within, ProcessInv
<1> QED BY <1>1, <1>14, <1>23, <1>24, RestTask

LEMMA RestExitCallback ==
  ASSUME TypeOK, ProcessInv, RestInv, NEW o \in Op, NEW e \in Env, ExitCallback(o, e)
  PROVE  RestInv'
<1>1. CASE launches[e].state # "running" \/ launches[e].by # o
  <2>1. Waiting' = {}
    BY <1>1, ExitWaits DEF Strays
  <2> QED BY <2>1, RestExitUnknown
<1>2. CASE launches[e].state = "running" /\ launches[e].by = o
  BY <1>2, RestExit
<1> QED BY <1>1, <1>2

\* Recovery, apart from what it writes about environments and processes.
LEMMA RestRecovers ==
  ASSUME TypeOK, StoresInv, RestInv, NEW o \in Op,
         \/ RecoverChange(o) \/ RecoverOrphanChange(o) \/ SweepChangeLedger(o)
         \/ SettleSwitchLedger(o)
         \/ RecoverJournal(o) /\ journals[o].kind # "create"
         \/ RecoverOrphan(o) /\ operations[o].kind # "create"
  PROVE  RestInv'
<1>1. /\ todo = <<>> /\ ~Serving
      /\ UNCHANGED << Stores, launches, entries, mode, processes, controllers, requested >>
  BY DEF RecoverChange, RecoverOrphanChange, SweepChangeLedger, RecoverJournal, RecoverOrphan,
         SettleSwitchLedger, Recovering, durable, volatile, Stores, Serving
<1>2. "failed" # "active" /\ "succeeded" # "active"
  OBVIOUS
<1> HIDE DEF Within, RestInv
<1>3. /\ \A w \in Settling(o, "failed") \cup Repairing(o) \cup {Removed(o)} : Within(w, o, None)
      /\ \A s : Within(PutGeneration(o, s), o, None)
      /\ Within(Ended(o, "succeeded"), o, None)
      /\ \A w \in Consuming(o) : Within(w, o, None)
      /\ \A k, s : Within(PutLedger(o, k, s), o, None)
  BY <1>2, WithinWrites DEF Consuming
<1>4. /\ \A w \in MarkSet(o) \cup Consuming(o) \cup {Removed(o)} : Within(w, o, None)
      /\ \A w \in RollbackSet(o) : Within(w, o, None)
      /\ \A w \in FinalizeSet(o) : Within(w, o, None)
      /\ journals[o].kind # "create" =>
           \A w \in UndoSet(o) \cup Repairing(o) : Within(w, o, None)
  BY <1>3 DEF MarkSet, RollbackSet, FinalizeSet, UndoSet, Erring
<1>5. \A w \in Waiting' : Within(w, o, None)
  <2>1. CASE RecoverChange(o)
    BY <1>3, <1>4, <2>1, RecoverChangeWaits
  <2>2. CASE RecoverJournal(o) /\ journals[o].kind # "create"
    <3>1. journals[o].kind \in CoreTransactions
      BY <2>2 DEF RecoverJournal, CoreJournals
    <3>2. Waiting' = FinalizeSet(o) \/ Waiting' = UndoSet(o) \cup Repairing(o)
      BY <2>2, <3>1, FinalizeWaits, UndoWaits DEF RecoverJournal, Run, Waiting
    <3> QED BY <1>4, <2>2, <3>2
  <2>3. CASE RecoverOrphan(o) /\ operations[o].kind # "create"
    BY <1>3, <2>3, RecoverOrphanWaits
  <2>4. CASE RecoverOrphanChange(o) \/ SweepChangeLedger(o) \/ SettleSwitchLedger(o)
    BY <1>3, <2>4, LedgerWaits
  <2> QED BY <2>1, <2>2, <2>3, <2>4
<1>6. ~Live(o)'
  <2>1. ~Live(o)
    BY <1>1 DEF StoresInv, NobodyLive
  <2> QED BY <1>1, <1>5, <2>1 DEF Live, Within
<1> QED BY <1>1, <1>5, <1>6, RestSpared

\* Recovery gives up the creation of an environment of which no record runs.
LEMMA RestErrs ==
  ASSUME TypeOK, StoresInv, RestInv, mode = "recoverCore", todo = <<>>,
         UNCHANGED << Stores, launches, entries, mode, processes, controllers, requested >>,
         NEW o, NEW e \in Env, ~Runs(launches[e]),
         \A w \in Waiting' : Within(w, o, e) /\ w.store # "launches"
  PROVE  RestInv'
<1>1. ~Serving /\ ~Serving' /\ \A q \in Op : ~Live(q)
  BY DEF Serving, StoresInv, NobodyLive
<1>2. \A q \in Op : /\ Live(q)' => Live(q)
                    /\ Closes(q)' => q = o
  BY TaskFacts
<1>3. \A q \in Op : ~Live(q)'
  BY <1>1, <1>2
<1>4. ~Live(o)' \/ ~Closes(o)'
  <2>1. Closes(o)' => o \in Op
    BY DEF Closes, Within
  <2> QED BY <1>3, <2>1
<1>5. CoreKeeps(e)' /\ CreationAlone(e)'
  BY <1>4, TaskCores
<1>6. /\ Launching(e) = {launches[e]} /\ Records(e) = {launches[e]} /\ Upcoming(e) = {}
      /\ Launching(e)' = {launches[e]} /\ Records(e)' = {launches[e]} /\ Upcoming(e)' = {}
  <2>1. Upcoming(e)' = {}
    BY DEF Upcoming
  <2> QED BY <2>1, StoresAtRest DEF Launching, Records
<1>7. Agrees(e) /\ UNCHANGED operations
  BY DEF RestInv, Stores
<1>8. Movement(e)'
  BY <1>1, <1>3, <1>6 DEF Movement, ProcessMoves, StartMoves, StopMoves, RunningMoves, Verified
<1>9. CoreRests(e)'
  BY <1>1 DEF CoreRests
<1>10. Traces(e)'
  BY <1>6, <1>7 DEF Agrees, Traces, RunsPointer, NamesStart
<1>11. Finds(e)'
  BY <1>6, <1>7 DEF Agrees, Finds, Unknown, Adopting, Adopted
<1>12. Agrees(e)'
  BY <1>5, <1>8, <1>9, <1>10, <1>11 DEF Agrees, Cores
<1>13. \A w \in Waiting' : Within(w, o, e)
  OBVIOUS
<1> HIDE DEF RestInv, Within
<1> QED BY <1>4, <1>12, <1>13, RestTask

\* A launch record that runs names a start.
LEMMA RunningNames ==
  ASSUME TypeOK, RestInv, todo = <<>>, NEW e \in Env, Runs(launches[e])
  PROVE  launches[e].by \in Op /\ Belongs(launches[e].by, "start", e)
<1>1. NamesStart(e) /\ Records(e) = {launches[e]}
  BY StoresAtRest DEF RestInv, Agrees, Traces
<1>2. launches[e].by \in Op
  BY <1>1 DEF NamesStart, TypeOK, LaunchRecord
<1> QED BY <1>1, <1>2 DEF NamesStart, Belongs

LEMMA RestRecoverJournal ==
  ASSUME TypeOK, StoresInv, RestInv, NEW o \in Op, RecoverJournal(o), journals[o].kind = "create"
  PROVE  RestInv'
<1>1. /\ todo = <<>> /\ mode = "recoverCore"
      /\ UNCHANGED << Stores, launches, entries, mode, processes, controllers, requested >>
  BY DEF RecoverJournal, Recovering, durable, volatile, Stores
<1>2. PICK e \in Env : e = journals[o].env
  BY JournalFields DEF Built, CoreTransactions
<1>3. Waiting' = FinalizeSet(o) \/ Waiting' = UndoSet(o) \cup Repairing(o)
  BY FinalizeWaits, UndoWaits DEF RecoverJournal, Run, Waiting, CoreTransactions
<1>4. \A w \in Waiting' : Within(w, o, e) /\ w.store # "launches"
  <2>1. "failed" # "active" /\ "succeeded" # "active"
    OBVIOUS
  <2>2. /\ \A w \in Settling(o, "failed") \cup Repairing(o) \cup Erring(o) \cup {Removed(o)} :
             Within(w, o, e)
        /\ Within(PutGeneration(o, "absent"), o, e) /\ Within(Ended(o, "succeeded"), o, e)
    BY <1>2, <2>1, WithinWrites
  <2>3. /\ \A w \in Settling(o, "failed") \cup Repairing(o) \cup Erring(o) \cup {Removed(o)} :
             w.store # "launches"
        /\ PutGeneration(o, "absent").store # "launches"
        /\ Ended(o, "succeeded").store # "launches"
    BY DEF Settling, Repairing, Erring, Removed, PutGeneration, Ended, PutLedger, PutJournal,
           PutEnvironment, Write
  <2> HIDE DEF Within
  <2> QED BY <1>3, <2>2, <2>3 DEF FinalizeSet, UndoSet
<1>5. ~Runs(launches[e])
  <2> SUFFICES ASSUME Runs(launches[e]) PROVE FALSE
    OBVIOUS
  <2> DEFINE b == launches[e].by
  <2>1. b \in Op /\ Belongs(b, "start", e)
    BY <1>1, RunningNames
  <2>2. Keeps(o, "create", e)
    BY <1>2 DEF Keeps
  <2>3. "start" \in Kinds /\ "create" \in Kinds
    BY DEF Kinds
  <2> HIDE DEF b
  <2>4. b = o
    BY <2>1, <2>2, <2>3 DEF StoresInv, CreatedAlone, Claims
  <2> QED BY <2>1, <2>2, <2>3, <2>4 DEF StoresInv, OneHome, Claims
<1> HIDE DEF RestInv, Within
<1> QED BY <1>1, <1>4, <1>5, RestErrs

LEMMA RestRecoverOrphan ==
  ASSUME TypeOK, StoresInv, RestInv, NEW o \in Op, RecoverOrphan(o), operations[o].kind = "create"
  PROVE  RestInv'
<1>1. /\ todo = <<>> /\ mode = "recoverCore" /\ operations[o].status = "active"
      /\ UNCHANGED << Stores, launches, entries, mode, processes, controllers, requested >>
  BY DEF RecoverOrphan, OrphanTransactions, Pending, Recovering, durable, volatile, Stores
<1>2. PICK e \in Env : e = operations[o].env
  BY RecoverOrphanWaits
<1>3. Waiting' = Settling(o, "failed") \cup {PutEnvironment(e, Errored(e))}
  BY <1>2, RecoverOrphanWaits
<1>4. \A w \in Waiting' : Within(w, o, e) /\ w.store # "launches"
  <2>1. \A w \in Settling(o, "failed") : Within(w, o, e) /\ w.store # "launches"
    BY WithinWrites, EndedFields DEF Settling
  <2>2. Within(PutEnvironment(e, Errored(e)), o, e)
        /\ PutEnvironment(e, Errored(e)).store # "launches"
    BY WithinWrites DEF PutEnvironment, Write
  <2> HIDE DEF Within
  <2> QED BY <1>3, <2>1, <2>2
<1>5. ~Runs(launches[e])
  <2> SUFFICES ASSUME Runs(launches[e]) PROVE FALSE
    OBVIOUS
  <2>1. launches[e].by \in Op /\ Belongs(launches[e].by, "start", e)
    BY <1>1, RunningNames
  <2>2. Unfinished(o) /\ Belongs(o, "create", e)
    BY <1>1, <1>2 DEF Unfinished, Belongs
  <2> QED BY <2>1, <2>2 DEF RestInv, Agrees, Cores, CreationAlone
<1> HIDE DEF RestInv, Within
<1> QED BY <1>1, <1>4, <1>5, RestErrs

LEMMA RestRecoverCreating ==
  ASSUME TypeOK, StoresInv, RestInv, NEW e \in Env, RecoverCreating(e) PROVE RestInv'
<1>1. /\ todo = <<>> /\ mode = "recoverCore" /\ environments[e].state = "creating"
      /\ todo' = << PutEnvironment(e, Errored(e)) >>
      /\ UNCHANGED << Stores, launches, entries, mode, processes, controllers, requested >>
  BY DEF RecoverCreating, OrphanCreations, Recovering, Run, durable, volatile, Stores
<1>2. Waiting' = {PutEnvironment(e, Errored(e))}
  BY <1>1, FewWrites DEF Waiting
<1>3. \A w \in Waiting' : Within(w, None, e) /\ w.store # "launches"
  BY <1>2 DEF Within, PutEnvironment, Write
<1>4. ~Runs(launches[e])
  <2>1. Adopting(e) /\ Adopted(e) /\ Launching(e) = {launches[e]}
        /\ Prospects(e) = {environments[e]}
    BY <1>1, StoresAtRest DEF RestInv, Agrees, Finds
  <2> QED BY <1>1, <2>1 DEF Adopting, Adopted, Runs
<1> HIDE DEF RestInv, Within
<1> QED BY <1>1, <1>3, <1>4, RestErrs

LEMMA RestReconcileLaunch ==
  ASSUME TypeOK, StoresInv, ProcessInv, RestInv, NEW e \in Env, ReconcileLaunch(e)
  PROVE  RestInv'
<1>1. /\ todo = <<>> /\ mode = "recoverProcesses" /\ ~Serving
      /\ UNCHANGED << Stores, launches, mode, controllers, requested >>
      /\ processes' \subseteq processes /\ launches[e].state # "none"
  BY DEF ReconcileLaunch, Killed, files, Stores, Serving, Unreconciled
<1>2. \A f \in Env \ {e} : entries'[f] = entries[f]
  BY DEF ReconcileLaunch, Resolve, TypeOK
<1> DEFINE u == Marked(e, "unverifiable")
           n == Marked(e, "ended")
           t == Marked(e, "stopping")
<1>3. Owned(e) => launches[e].by # None
  BY ProcessFields, NoneAssumption DEF Owned
<1>4. /\ Waiting = {} /\ Launching(e) = {launches[e]} /\ Records(e) = {launches[e]}
      /\ Upcoming(e) = {}
  BY <1>1, StoresAtRest
<1>5. \A p \in processes : p.env = e => Fits(launches[e], p)
  BY <1>4 DEF ProcessInv, RecordsFit
<1>6. \/ /\ entries' = [entries EXCEPT ![e] = "unverifiable"]
         /\ Waiting' \in {{u}, {t, u}}
      \/ /\ entries' = [entries EXCEPT ![e] = "stopped"]
         /\ Waiting' \in {{n}, {t, n}} /\ \A p \in processes' : p.env # e
      \/ /\ entries' = [entries EXCEPT ![e] = "adopted"]
         /\ Waiting' = {} /\ Runs(launches[e])
  <2> HIDE DEF u, n, t
  <2>1. CASE Unidentified(e) /\ Candidate(e) /\ Resolve(e, "unverifiable", << u >>)
    BY <2>1, FewWrites DEF Resolve, Run, Waiting
  <2>2. CASE /\ ~Owned(e) /\ ~(Unidentified(e) /\ Candidate(e)) /\ Resolve(e, "stopped", << n >>)
             /\ UNCHANGED processes
    <3>1. \A p \in processes' : p.env # e
      BY <1>1, <1>5, <2>2 DEF Fits, Owned, Unidentified, Candidate, Alive
    <3> QED BY <2>2, <3>1, FewWrites DEF Resolve, Run, Waiting
  <2>3. CASE launches[e].state = "running" /\ Resolve(e, "adopted", <<>>)
    BY <2>3, FewWrites DEF Resolve, Run, Waiting, Runs
  <2>4. CASE Owned(e) /\ Resolve(e, "stopped", << t, n >>) /\ Killed(launches[e].by)
    <3>1. \A p \in processes' : p.env # e
      BY <1>3, <1>5, <2>4 DEF Fits, Killed
    <3> QED BY <2>4, <3>1, FewWrites DEF Resolve, Run, Waiting
  <2>5. CASE Resolve(e, "unverifiable", << t, u >>)
    BY <2>5, FewWrites DEF Resolve, Run, Waiting
  <2> QED BY <2>1, <2>2, <2>3, <2>4, <2>5 DEF ReconcileLaunch, u, n, t
<1>7. \A w \in Waiting' : w \in {u, n, t}
  BY <1>6
<1>8. \A s : /\ Marked(e, s).store = "launches" /\ Marked(e, s).key = e
             /\ Marked(e, s).val.state = s /\ Marked(e, s).val.by = launches[e].by
  BY MarkedFields
<1>9. \A w \in Waiting' : Within(w, None, e) /\ Final(w, e)
  BY <1>7, WithinWrites DEF Within, Final, Marked, Write
<1>10. /\ Coming(e)' = {}
       /\ \A r \in Upcoming(e)' : ~Runs(r) /\ r.by = launches[e].by /\ r.state # "none"
  <2>1. Coming(e)' = {}
    BY <1>7, <1>8 DEF Coming
  <2>2. ASSUME NEW r \in Upcoming(e)' PROVE r.state \in {"unverifiable", "ended", "stopping"}
                                            /\ r.by = launches[e].by
    BY <1>7, <1>8, <2>2 DEF Upcoming
  <2> QED BY <2>1, <2>2 DEF Runs
<1>11. entries'[e] # "adopted" => Upcoming(e)' # {}
  <2>1. entries'[e] # "adopted" => \E w \in Waiting' : w \in {u, n}
    BY <1>6 DEF TypeOK
  <2>2. \A w \in {u, n} : w.store = "launches" /\ w.key = e
    BY <1>8
  <2> QED BY <2>1, <2>2 DEF Upcoming
<1>12. entries'[e] = "adopted" => Upcoming(e)' = {} /\ Runs(launches[e])
  BY <1>6 DEF Upcoming, TypeOK
<1>13. entries'[e] = "stopped" => \A p \in processes' : p.env # e
  BY <1>6 DEF TypeOK
<1>14. \A r \in Launching(e)' : Runs(r) <=> entries'[e] = "adopted"
  BY <1>1, <1>10, <1>11, <1>12 DEF Launching
<1>15. UNCHANGED << environments, operations >> /\ Agrees(e) /\ ~Serving'
  BY <1>1 DEF Stores, RestInv, Serving
<1>16. \A q \in Op : ~Live(q) /\ (Live(q)' => Live(q))
  BY <1>1, <1>9, TaskFacts DEF StoresInv, NobodyLive
<1>17. ~Closes(None)'
  BY <1>7, <1>8 DEF Closes
<1>18. CoreKeeps(e)' /\ CreationAlone(e)'
  BY <1>1, <1>9, <1>17, TaskCores
<1>19. Movement(e)'
  BY <1>14, <1>15, <1>16
     DEF Movement, ProcessMoves, StartMoves, StopMoves, RunningMoves, Verified
<1>20. CoreRests(e)'
  BY <1>15 DEF CoreRests
<1>21. Traces(e)'
  <2>1. \A r \in Records(e)' : r = launches[e] \/ (~Runs(r) /\ r.by = launches[e].by
                                                    /\ r.state # "none")
    BY <1>1, <1>10 DEF Records
  <2> QED BY <1>1, <1>4, <1>10, <1>15, <2>1 DEF Agrees, Traces, RunsPointer, NamesStart, Runs
<1>22. Finds(e)'
  BY <1>1, <1>13, <1>14 DEF Finds, Unknown, Adopting, Adopted
<1>23. Agrees(e)'
  BY <1>18, <1>19, <1>20, <1>21, <1>22 DEF Agrees, Cores
<1>24. /\ \A w \in Waiting' : Within(w, None, e)
       /\ \A p \in processes' : p \in processes
  BY <1>1, <1>9
<1> HIDE DEF RestInv, Within, ProcessInv
<1> QED BY <1>1, <1>2, <1>17, <1>23, <1>24, RestTask

LEMMA RestReconciled ==
  ASSUME TypeOK, StoresInv, RestInv, ProcessesReconciled PROVE RestInv'
<1>1. /\ todo = <<>> /\ mode = "recoverProcesses" /\ mode' = "recoverCore"
      /\ UNCHANGED << Stores, launches, controllers, requested, entries, processes >>
      /\ Unreconciled = {}
  BY DEF ProcessesReconciled, durable, Stores
<1>2. UNCHANGED << environments, operations, journals >> /\ ~Serving /\ ~Serving'
  BY <1>1 DEF Stores, Serving
<1>3. Waiting = {} /\ \A q \in Op : ~Live(q)
  BY <1>1, <1>2, StoresAtRest DEF StoresInv, NobodyLive
<1>4. \A w \in Waiting' :
        \/ \E e \in Stale : w = PutState(e, Reconciled(e))
        \/ \E q \in Op : w = Ended(q, "failed")
  BY ReconciledWaits DEF Interrupted
<1>5. /\ \A q \in Op : LET w == Ended(q, "failed") IN
           /\ w.store = "operations" /\ w.key = q /\ w.val.kind = operations[q].kind
           /\ w.val.env = operations[q].env /\ w.val.status = "failed"
      /\ \A e \in Env : \A s : LET w == PutState(e, s) IN
           /\ w.store = "environments" /\ w.key = e /\ w.val.state = s
           /\ w.val.gen = environments[e].gen
  BY EndedFields, StateFields
<1>6. \A w \in Waiting' : w.store \in {"environments", "operations"}
  BY <1>4, <1>5 DEF Stale
<1>7. /\ \A q \in Op : ~Live(q)' /\ (Unfinished(q)' => Unfinished(q))
      /\ \A q \in Op : \A k, e : Belongs(q, k, e)' => Belongs(q, k, e)
  <2>1. \A q \in Op : ~Live(q)'
    BY <1>1, <1>3, <1>6 DEF Live
  <2>2. \A w \in Waiting' : w.store = "operations" => \E q \in Op : w = Ended(q, "failed")
    BY <1>4, <1>5 DEF Stale
  <2>3. \A q \in Op : Unfinished(q)' => Unfinished(q)
    BY <1>2, <1>5, <2>2 DEF Unfinished, Becomes
  <2>4. \A q \in Op : \A k, e : Belongs(q, k, e)' => Belongs(q, k, e)
    BY <1>2, <1>5, <2>2 DEF Belongs
  <2> QED BY <2>1, <2>3, <2>4
<1>8. ASSUME NEW e \in Env PROVE Agrees(e)'
  <2>1. Agrees(e)
    BY DEF RestInv
  <2>2. /\ Launching(e) = {launches[e]} /\ Records(e) = {launches[e]}
        /\ Launching(e)' = {launches[e]} /\ Records(e)' = {launches[e]} /\ Upcoming(e)' = {}
    <3>1. Upcoming(e)' = {}
      BY <1>6 DEF Upcoming
    <3> QED BY <1>1, <3>1, StoresAtRest DEF Launching, Records
  <2>3. /\ \A v \in Coming(e)' : v.gen = environments[e].gen /\ v.state = Reconciled(e)
        /\ environments[e].state # Reconciled(e) /\ entries[e] # "none" => Coming(e)' # {}
    <3>1. \A w \in Waiting' : w.store = "environments" /\ w.key = e =>
            w = PutState(e, Reconciled(e))
      BY <1>4, <1>5 DEF Stale
    <3>2. environments[e].state # Reconciled(e) /\ entries[e] # "none" =>
            PutState(e, Reconciled(e)) \in Waiting'
      BY ReconciledWaits DEF Stale
    <3> QED BY <1>5, <3>1, <3>2 DEF Coming
  <2>4. Movement(e)'
    BY <1>1, <1>2, <1>7, <2>1, <2>2
       DEF Agrees, Movement, ProcessMoves, StartMoves, StopMoves, RunningMoves, Verified
  <2>5. Cores(e)'
    <3>1. CoreRests(e)' /\ CoreKeeps(e)'
      BY <1>2, <1>7 DEF CoreRests, CoreKeeps
    <3>2. CreationAlone(e)'
      BY <1>7, <2>1 DEF Agrees, Cores, CreationAlone
    <3> QED BY <3>1, <3>2 DEF Cores
  <2>6. Traces(e)'
    BY <1>1, <1>2, <2>1, <2>2, <2>3 DEF Agrees, Traces, RunsPointer, NamesStart
  <2>7. Finds(e)'
    <3>1. Adopting(e)'
      BY <1>1, <2>1, <2>2 DEF Agrees, Finds, Adopting
    <3>2. launches[e].state # "none" => entries[e] # "none"
      BY <1>1 DEF Unreconciled
    <3>3. entries[e] = "adopted" => \A v \in Prospects(e)' : v.state = "running"
      BY <1>2, <2>3 DEF Prospects, Reconciled
    <3> QED BY <1>1, <2>2, <3>1, <3>2, <3>3 DEF Finds, Unknown, Adopted
  <2> QED BY <2>4, <2>5, <2>6, <2>7 DEF Agrees
<1>9. NoApply'
  BY <1>2, <1>6 DEF RestInv, NoApply
<1> QED BY <1>8, <1>9 DEF RestInv

(***************************************************************************)
(* The life of the instance.                                               *)
(***************************************************************************)

\* Recovery has found out about every process, and nothing is under way.
LEMMA RestCoreRecovered ==
  ASSUME TypeOK, StoresInv, AttendedInv, ProcessInv, RestInv, CoreRecovered PROVE RestInv'
<1>1. /\ todo = <<>> /\ todo' = <<>> /\ mode = "recoverCore" /\ mode' = "ready"
      /\ UNCHANGED << Stores, launches, controllers, requested, entries, processes >>
  BY DEF CoreRecovered, Recovering, durable, volatile, Stores
<1>2. UNCHANGED << environments, operations, journals >> /\ ~Serving
  BY <1>1 DEF Stores, Serving
<1>3. \A q \in Op : ~OpenJournal(q) /\ ~Live(q)
  BY <1>2, RecoveryIsComplete DEF StoresInv, NobodyLive
<1>4. Waiting = {} /\ Waiting' = {}
  BY <1>1, NothingWaits DEF Waiting
<1>5. /\ \A q \in Op : ~Live(q)' /\ (Unfinished(q)' => Unfinished(q))
      /\ \A q \in Op : \A k, e : Belongs(q, k, e)' => Belongs(q, k, e)
      /\ \A q \in Op, k \in CoreTransactions, e \in Env : ~Keeps(q, k, e)'
  <2>1. \A q \in Op : ~Live(q)' /\ (Unfinished(q)' => Unfinished(q))
    BY <1>1, <1>2, <1>3, <1>4 DEF Live, Unfinished, Becomes
  <2>2. \A q \in Op : \A k, e : Belongs(q, k, e)' => Belongs(q, k, e)
    BY <1>2, <1>4 DEF Belongs
  <2>3. \A q \in Op, k \in CoreTransactions, e \in Env : ~Keeps(q, k, e)'
    BY <1>2, <1>3, <1>4 DEF Keeps, OpenJournal, CoreTransactions
  <2> QED BY <2>1, <2>2, <2>3
<1>6. ASSUME NEW e \in Env PROVE Agrees(e)'
  <2>1. Agrees(e)
    BY DEF RestInv
  <2>2. /\ Launching(e) = {launches[e]} /\ Records(e) = {launches[e]} /\ Upcoming(e) = {}
        /\ Prospects(e) = {environments[e]}
    BY <1>1, StoresAtRest
  <2>3. /\ Launching(e)' = {launches[e]} /\ Records(e)' = {launches[e]}
        /\ Prospects(e)' = {environments[e]} /\ Coming(e)' = {}
    BY <1>1, <1>2, <1>4 DEF Launching, Records, Prospects, Coming, Upcoming
  <2>4. /\ entries[e] # "none" => (Runs(launches[e]) <=> entries[e] = "adopted")
        /\ entries[e] = "stopped" => \A p \in processes : p.env # e
        /\ launches[e].state # "none" => entries[e] # "none"
        /\ entries[e] = "adopted" => environments[e].state = "running"
    BY <1>1, <2>1, <2>2 DEF Agrees, Finds, Adopting, Adopted
  <2>5. ASSUME entries[e] # "unverifiable", NEW p \in processes, p.env = e
        PROVE  environments[e].state = "running" /\ environments[e].gen = p.gen
    <3>1. Fits(launches[e], p)
      BY <2>2, <2>5 DEF ProcessInv, RecordsFit
    <3>2. launches[e].state # "none"
      BY <2>1, <2>2, <3>1 DEF Fits, Agrees, Traces, NamesStart
    <3>3. entries[e] = "adopted"
      BY <2>4, <2>5, <3>2 DEF TypeOK, Resolutions
    <3>4. Runs(launches[e])
      BY <2>4, <3>3
    <3> QED BY <2>1, <2>2, <2>4, <2>5, <3>3, <3>4 DEF Agrees, Traces, RunsPointer
  <2>6. Runs(launches[e]) => entries[e] = "adopted"
    BY <2>4 DEF Runs
  <2>7. Movement(e)'
    <3>1. ProcessMoves(e)'
      BY <1>1, <2>3, <2>5 DEF ProcessMoves, Verified, OnTheMove
    <3>2. StartMoves(e)' /\ StopMoves(e)'
      BY <1>5 DEF StartMoves, StopMoves
    <3>3. RunningMoves(e)'
      BY <1>1, <2>3, <2>4, <2>6 DEF RunningMoves, OnTheMove
    <3> QED BY <3>1, <3>2, <3>3 DEF Movement
  <2>8. Cores(e)'
    <3>1. CoreRests(e)' /\ CoreKeeps(e)'
      BY <1>5 DEF CoreRests, CoreKeeps
    <3>2. CreationAlone(e)'
      BY <1>5, <2>1 DEF Agrees, Cores, CreationAlone
    <3> QED BY <3>1, <3>2 DEF Cores
  <2>9. Traces(e)'
    BY <1>1, <1>2, <2>1, <2>2, <2>3 DEF Agrees, Traces, RunsPointer, NamesStart
  <2>10. Finds(e)'
    BY <1>1 DEF Finds, Unknown, Adopting, Adopted
  <2> QED BY <2>7, <2>8, <2>9, <2>10 DEF Agrees
<1>7. NoApply'
  BY <1>2, <1>4 DEF RestInv, NoApply
<1> QED BY <1>6, <1>7 DEF RestInv

\* Nothing is written, and processes may only die.
LEMMA RestStill ==
  ASSUME RestInv, UNCHANGED << Stores, launches, controllers, todo, requested, entries >>,
         processes' \subseteq processes, Serving' <=> Serving,
         \/ mode' = mode \/ Serving
         \/ mode = "down" /\ mode' = "recoverChanges"
         \/ mode = "recoverChanges" /\ mode' = "recoverProcesses"
  PROVE  RestInv'
<1>1. UNCHANGED << environments, operations, journals, Waiting >>
  BY DEF Stores, Waiting
<1>2. \A o \in Op : (Live(o)' <=> Live(o)) /\ (Unfinished(o)' <=> Unfinished(o))
                    /\ (Closes(o)' <=> Closes(o))
  BY <1>1 DEF Live, Unfinished, Becomes, Closes
<1>3. \A o \in Op : \A k, e : (Belongs(o, k, e)' <=> Belongs(o, k, e))
                          /\ (Keeps(o, k, e)' <=> Keeps(o, k, e))
  BY <1>1 DEF Belongs, Keeps
<1>4. ASSUME NEW e \in Env PROVE Agrees(e)'
  <2>1. Agrees(e)
    BY DEF RestInv
  <2>2. /\ Coming(e)' = Coming(e) /\ Prospects(e)' = Prospects(e)
        /\ Upcoming(e)' = Upcoming(e) /\ Launching(e)' = Launching(e)
        /\ Records(e)' = Records(e) /\ (Verified(e)' <=> Verified(e))
    <3>1. Coming(e)' = Coming(e) /\ Upcoming(e)' = Upcoming(e)
      BY <1>1 DEF Coming, Upcoming
    <3> QED BY <1>1, <3>1 DEF Prospects, Launching, Records, Verified
  <2>3. ProcessMoves(e)' /\ RunningMoves(e)'
    BY <2>1, <2>2 DEF Agrees, Movement, ProcessMoves, RunningMoves
  <2>4. StartMoves(e)' /\ StopMoves(e)'
    BY <1>2, <1>3, <2>1, <2>2 DEF Agrees, Movement, StartMoves, StopMoves
  <2>5. CoreRests(e)' /\ CoreKeeps(e)' /\ CreationAlone(e)'
    BY <1>2, <1>3, <2>1, <2>2 DEF Agrees, Cores, CoreRests, CoreKeeps, CreationAlone
  <2>6. Traces(e)'
    BY <1>1, <2>1, <2>2 DEF Agrees, Traces, RunsPointer, NamesStart
  <2>7. Finds(e)'
    BY <2>1, <2>2 DEF Agrees, Finds, Unknown, Adopting, Adopted, Serving
  <2> QED BY <2>3, <2>4, <2>5, <2>6, <2>7 DEF Agrees, Movement, Cores
<1>5. NoApply'
  BY <1>1 DEF RestInv, NoApply
<1> QED BY <1>4, <1>5 DEF RestInv

LEMMA RestModeStep ==
  ASSUME TypeOK, RestInv,
         Boot \/ BeginClose \/ ChangesRecovered \/ (\E p \in Alive : ProcessDies(p))
         \/ UNCHANGED vars
  PROVE  RestInv'
<1>1. /\ UNCHANGED << Stores, launches, controllers, todo, requested, entries >>
      /\ processes' \subseteq processes
      /\ \/ mode' = mode
         \/ mode = "ready" /\ mode' = "closing"
         \/ mode = "down" /\ mode' = "recoverChanges"
         \/ mode = "recoverChanges" /\ mode' = "recoverProcesses"
  BY DEF Boot, BeginClose, ChangesRecovered, ProcessDies, Idle, durable, files, volatile, vars,
         Stores
<1>2. (Serving' <=> Serving) /\ (mode' = mode \/ Serving \/ (mode = "down" /\ mode' = "recoverChanges")
      \/ (mode = "recoverChanges" /\ mode' = "recoverProcesses"))
  BY <1>1 DEF Serving
<1> HIDE DEF RestInv
<1> QED BY <1>1, <1>2, RestStill

LEMMA RestGone ==
  ASSUME TypeOK, RestInv, Crash \/ FinishClose PROVE RestInv'
<1>1. /\ todo' = <<>> /\ mode' = "down" /\ entries' = [e \in Env |-> "none"]
      /\ controllers' = [o \in Op |-> FALSE] /\ processes' \subseteq processes
      /\ UNCHANGED << environments, operations, journals >>
  BY DEF Crash, FinishClose, LoseMemory, Run, durable
<1>2. Waiting' = {} /\ ~Serving'
  BY <1>1, FewWrites DEF Waiting, Serving
<1>3. \A e \in Env : launches'[e] = launches[e]
        \/ /\ launches'[e].state = "ended" /\ launches'[e].by = launches[e].by
           /\ launches[e].by # None
  BY DEF Crash, FinishClose, LoseMemory, durable, TypeOK, LaunchRecord
<1>4. \A e \in Env : launches[e].by = None => launches'[e] = launches[e]
  BY <1>3
<1>5. \A o \in Op : /\ ~Live(o)'
                    /\ Unfinished(o)' => Unfinished(o)
                    /\ \A k, e : Belongs(o, k, e)' => Belongs(o, k, e)
  BY <1>1, <1>2 DEF Live, Unfinished, Becomes, Belongs
<1>6. ASSUME NEW e \in Env PROVE Agrees(e)'
  <2>1. Agrees(e)
    BY DEF RestInv
  <2>2. /\ Coming(e)' = {} /\ Launching(e)' = {launches'[e]} /\ Records(e)' = {launches'[e]}
    BY <1>2 DEF Coming, Upcoming, Launching, Records
  <2>3. launches[e] \in Records(e)
    BY DEF Records
  <2>4. Movement(e)'
    BY <1>1, <1>2, <1>5 DEF Movement, ProcessMoves, StartMoves, StopMoves, RunningMoves, Verified
  <2>5. CoreRests(e)' /\ CoreKeeps(e)'
    BY <1>2, <1>5 DEF CoreRests, CoreKeeps
  <2>6. CreationAlone(e)'
    BY <1>5, <2>1 DEF Agrees, Cores, CreationAlone
  <2>7. RunsPointer(e)'
    BY <1>1, <1>3, <2>1, <2>2, <2>3 DEF Agrees, Traces, RunsPointer, Runs
  <2>8. NamesStart(e)'
    BY <1>1, <1>3, <2>1, <2>2, <2>3 DEF Agrees, Traces, NamesStart, Runs
  <2>9. Finds(e)'
    BY <1>1 DEF Finds, Unknown, Adopting, Adopted
  <2> QED BY <2>4, <2>5, <2>6, <2>7, <2>8, <2>9 DEF Agrees, Cores, Traces
<1>7. NoApply'
  BY <1>1, <1>2 DEF RestInv, NoApply
<1> QED BY <1>6, <1>7 DEF RestInv

(***************************************************************************)
(* Starts and stops begin.                                                 *)
(***************************************************************************)

\* An environment about which a start or stop is requested keeps its record in
\* step with the transactions, if it has none.
LEMMA RequestCores ==
  ASSUME TypeOK, StoresInv, AttendedInv, RestInv, NEW o \in Op, NEW k \in {"start", "stop"},
         NEW e \in Env, Idle, UNCHANGED << operations, journals, controllers >>,
         ledger[o].state = "none", \A w \in Waiting' : About(w, o, k, e),
         \A q \in Op, l \in CoreTransactions : ~Keeps(q, l, e)
  PROVE  CoreRests(e)' /\ CoreKeeps(e)' /\ CreationAlone(e)'
<1>1. todo = <<>> /\ "start" \in Kinds /\ "create" \in Kinds /\ k \in Kinds
      /\ CoreTransactions \subseteq Kinds \ {"start", "stop"} /\ "create" \in CoreTransactions
  BY DEF Idle, Kinds, CoreTransactions
<1>2. /\ \A q \in Op \ {o} : (Live(q)' <=> Live(q)) /\ (Unfinished(q)' <=> Unfinished(q))
      /\ \A q \in Op \ {o}, l \in Kinds, f \in Env :
           (Belongs(q, l, f)' <=> Belongs(q, l, f)) /\ (Keeps(q, l, f)' <=> Keeps(q, l, f))
      /\ \A l \in Kinds, f \in Env :
           Belongs(o, l, f)' \/ Keeps(o, l, f)' => l = k /\ f = e
  BY <1>1, RequestFacts
<1>3. Agrees(e)
  BY DEF RestInv
<1>4. \A q \in Op, l \in CoreTransactions : ~Keeps(q, l, e)'
  BY <1>1, <1>2
<1>5. \A q \in Op, l \in CoreTransactions : ~(Live(q) /\ Belongs(q, l, e))
  BY <1>3 DEF Agrees, Cores, CoreKeeps
<1>6. \A q \in Op, l \in CoreTransactions : ~(Live(q)' /\ Belongs(q, l, e)')
  BY <1>1, <1>2, <1>5
<1>7. \A q \in Op : Unfinished(q) => ~Belongs(q, "create", e)
  <2>1. \A q : ~Ends(q)
    BY <1>1, StoresAtRest DEF Ends, Becomes
  <2>2. \A q \in Op : Unfinished(q) => Live(q)
    BY <2>1 DEF Idle, AttendedInv, Attended
  <2> QED BY <1>1, <1>5, <2>2
<1>8. \A q \in Op : Unfinished(q)' => ~Belongs(q, "create", e)'
  BY <1>1, <1>2, <1>7
<1> QED BY <1>4, <1>6, <1>8 DEF CoreRests, CoreKeeps, CreationAlone

LEMMA RestStop ==
  ASSUME TypeOK, StoresInv, AttendedInv, ProcessInv, RestInv, NEW o \in Op, NEW e \in Env,
         Stop(o, e)
  PROVE  RestInv'
<1>1. /\ Idle /\ todo = <<>> /\ Serving /\ Serving' /\ ledger[o].state = "none"
      /\ environments[e].state \in {"running", "starting"}
      /\ UNCHANGED << environments, operations, journals, launches, entries, mode, processes,
                      controllers, requested >>
  BY DEF Stop, Idle, Serving, NewRequest, durable, volatile
<1>2. "stop" \in Kinds \ {"apply"} /\ "start" \in Kinds /\ "stop" \in {"start", "stop"}
  BY DEF Kinds
<1>3. /\ Waiting = {} /\ Launching(e) = {launches[e]} /\ Records(e) = {launches[e]}
      /\ Prospects(e) = {environments[e]}
      /\ \A q : Live(q) <=> controllers[q]
      /\ \A q, k, f : Belongs(q, k, f) <=> operations[q].kind = k /\ operations[q].env = f
  BY <1>1, StoresAtRest
<1>4. Agrees(e)
  BY DEF RestInv
\* What each outcome writes.
<1>5. /\ PutState(e, "stopping") \in Waiting'
      /\ \A w \in Waiting' :
           \/ w.store = "ledger" /\ w \in Answering(o, "stop")
           \/ w.store = "operations" /\ \E s : w = PutOperation(o, "stop", e, s)
           \/ w = PutState(e, "stopping")
           \/ w = PutState(e, "running") /\ Register(o) \notin Waiting'
           \/ /\ w = PutState(e, "stopped") /\ Register(o) \notin Waiting'
              /\ ~Busy(e) /\ Unidentified(e) /\ ~Candidate(e)
           \/ w = Register(o) /\ w.store = "controllers"
           \/ \E s \in {"unverifiable", "ended", "stopping"} : w = Marked(e, s)
  <2>1. /\ During("stop") = "stopping" /\ Reverted("stop") = "running"
        /\ \A w \in Answering(o, "stop") : w.store = "ledger"
        /\ \A s : PutOperation(o, "stop", e, s).store = "operations"
        /\ \A s : PutState(e, s).store = "environments"
        /\ \A s : Marked(e, s).store = "launches"
        /\ Register(o).store = "controllers"
    BY AnswerFields, OperationFields, StateFields, MarkedFields DEF During, Reverted, Register, Write
  <2>2. /\ \A w \in Departing(o, "stop", e) :
             w = PutOperation(o, "stop", e, "active") \/ w = PutState(e, "stopping")
        /\ PutState(e, "stopping") \in Departing(o, "stop", e)
        /\ \A w \in Refusing(o, "stop", e) :
             w = PutOperation(o, "stop", e, "failed") \/ w = PutState(e, "running")
    BY <2>1 DEF Departing, Refusing
  <2>3. CASE \/ Waiting' = Answering(o, "stop") \cup Departing(o, "stop", e)
                           \cup Refusing(o, "stop", e)
             \/ Waiting' = Answering(o, "stop") \cup Departing(o, "stop", e)
                           \cup {Marked(e, "unverifiable")} \cup Refusing(o, "stop", e)
    <3>1. Register(o) \notin Waiting'
      BY <2>1, <2>2, <2>3
    <3> QED BY <2>1, <2>2, <2>3, <3>1
  <2>4. CASE /\ Waiting' = Answering(o, "stop") \cup Departing(o, "stop", e)
                             \cup {Marked(e, "ended")}
                             \cup {PutOperation(o, "stop", e, "succeeded"), PutState(e, "stopped")}
             /\ ~Busy(e) /\ Unidentified(e) /\ ~Candidate(e)
    <3>1. Register(o) \notin Waiting'
      BY <2>1, <2>2, <2>4
    <3> QED BY <2>1, <2>2, <2>4, <3>1
  <2>5. CASE \/ Waiting' = Answering(o, "stop") \cup Departing(o, "stop", e)
                             \cup {Register(o), Marked(e, "stopping")}
             \/ Waiting' = Answering(o, "stop") \cup Departing(o, "stop", e) \cup {Register(o)}
    BY <2>1, <2>2, <2>5
  <2> QED BY <2>3, <2>4, <2>5, StopWaits
<1>6. \A w \in Waiting' : Final(w, e) /\ About(w, o, "stop", e)
  BY <1>2, <1>5, AboutWrites DEF Final
<1>7. /\ \A v \in Coming(e)' : v.gen = environments[e].gen
      /\ \A r \in Upcoming(e)' : r.by = launches[e].by
  BY <1>6, FinalWrites
<1>8. /\ \A s : PutState(e, s).store = "environments" /\ PutState(e, s).key = e
                /\ PutState(e, s).val.state = s
      /\ \A s : Marked(e, s).store = "launches" /\ Marked(e, s).val.state = s
      /\ Register(o).key = o
  BY StateFields, MarkedFields DEF Register, Write
<1>9. /\ Coming(e)' # {}
      /\ \A v \in Coming(e)' :
           \/ v.state = "stopping"
           \/ v.state = "running" /\ Register(o) \notin Waiting'
           \/ /\ v.state = "stopped" /\ Register(o) \notin Waiting'
              /\ ~Busy(e) /\ Unidentified(e) /\ ~Candidate(e)
  <2>1. Coming(e)' # {}
    BY <1>5, <1>8 DEF Coming
  <2> QED BY <1>5, <1>8, <2>1 DEF Coming
<1>10. \A r \in Upcoming(e)' : r.state \in {"unverifiable", "ended", "stopping"}
  BY <1>5, <1>8 DEF Upcoming
<1>11. /\ Prospects(e)' = Coming(e)' /\ (Verified(e)' <=> Verified(e))
       /\ \A r \in Launching(e)' : ~Runs(r) \/ r = launches[e]
       /\ \A r \in Records(e)' :
            r = launches[e] \/ (r.by = launches[e].by /\ ~Runs(r) /\ r.state # "none")
  BY <1>1, <1>7, <1>9, <1>10 DEF Prospects, Verified, Launching, Records, Runs
<1>12. /\ \A q \in Op \ {o} : Live(q)' <=> Live(q)
       /\ \A q \in Op \ {o}, l \in Kinds, f \in Env : Belongs(q, l, f)' <=> Belongs(q, l, f)
       /\ \A l \in Kinds, f \in Env : Belongs(o, l, f)' => l = "stop" /\ f = e
  BY <1>1, <1>2, <1>6, RequestFacts
<1>13. Live(o)' => Register(o) \in Waiting'
  <2>1. ~controllers[o]
    BY <1>1, FreshRequest
  <2>2. \A w \in Waiting' : w.store = "controllers" => w = Register(o)
    BY <1>5, <1>8, AnswerFields
  <2> QED BY <1>1, <2>1, <2>2 DEF Live
<1>14. /\ \A q \in Op, k \in CoreTransactions : ~Keeps(q, k, e)
       /\ Verified(e) => \A q \in Op : ~(Live(q) /\ Belongs(q, "stop", e))
  <2>1. environments[e].state \in OnTheMove /\ environments[e].state # "stopping"
    BY <1>1 DEF OnTheMove
  <2> QED BY <1>1, <1>3, <1>4, <2>1 DEF Agrees, Movement, StopMoves, Cores, CoreRests
<1>15. ~Busy(e) => \A q \in Op : ~(Live(q) /\ Belongs(q, "start", e))
  BY <1>3 DEF Busy, OfKind
<1>16. Unidentified(e) /\ ~Candidate(e) => \A p \in processes : p.env # e
  BY <1>3 DEF Unidentified, Candidate, ProcessInv, RecordsFit, Fits, Alive
<1>17. ProcessMoves(e)'
  <2> SUFFICES ASSUME Verified(e), NEW p \in processes, p.env = e, NEW v \in Coming(e)'
               PROVE  v.state \in OnTheMove /\ v.gen = p.gen
    BY <1>1, <1>11 DEF ProcessMoves
  <2>1. v.gen = p.gen
    BY <1>3, <1>4, <1>7 DEF Agrees, Movement, ProcessMoves
  <2> QED BY <1>9, <1>16, <2>1 DEF OnTheMove
<1>18. StartMoves(e)'
  <2> SUFFICES ASSUME NEW q \in Op, Live(q)', Belongs(q, "start", e)'
               PROVE  /\ Verified(e)
                      /\ \A v \in Coming(e)' : v.state \in OnTheMove
                            /\ (requested[q] # None => v.gen = requested[q])
                      /\ \A r \in Launching(e)' : ~Runs(r)
    BY <1>1, <1>11 DEF StartMoves
  <2>1. Live(q) /\ Belongs(q, "start", e)
    BY <1>2, <1>12
  <2>2. /\ Verified(e) /\ ~Runs(launches[e])
        /\ requested[q] # None => environments[e].gen = requested[q]
    BY <1>3, <1>4, <2>1 DEF Agrees, Movement, StartMoves
  <2>3. \A v \in Coming(e)' : v.state \in OnTheMove
    BY <1>9, <1>15, <2>1 DEF OnTheMove
  <2> QED BY <1>7, <1>11, <2>2, <2>3
<1>19. StopMoves(e)'
  <2> SUFFICES ASSUME Verified(e), NEW q \in Op, Live(q)', Belongs(q, "stop", e)'
               PROVE  \A v \in Coming(e)' : v.state = "stopping"
    BY <1>11 DEF StopMoves
  <2>1. q = o
    BY <1>2, <1>12, <1>14
  <2> QED BY <1>9, <1>13, <2>1
<1>20. RunningMoves(e)'
  <2> SUFFICES ASSUME NEW r \in Launching(e)', Runs(r)
               PROVE  /\ entries[e] # "unverifiable"
                      /\ \A v \in Coming(e)' : v.state \in OnTheMove
    BY <1>1, <1>11 DEF RunningMoves
  <2>1. Runs(launches[e])
    BY <1>11
  <2>2. entries[e] # "unverifiable"
    BY <1>3, <1>4, <2>1 DEF Agrees, Movement, RunningMoves
  <2>3. launches[e].by # None
    BY <1>3, <1>4, <2>1 DEF Agrees, Traces, NamesStart
  <2> QED BY <1>9, <2>2, <2>3 DEF Unidentified, OnTheMove
<1>21. CoreRests(e)' /\ CoreKeeps(e)' /\ CreationAlone(e)'
  BY <1>1, <1>2, <1>6, <1>14, RequestCores
<1>22. RunsPointer(e)' /\ NamesStart(e)'
  <2>1. (\E r \in Records(e)' : Runs(r)) => Runs(launches[e])
    BY <1>11
  <2>2. Runs(launches[e]) => \A p \in processes : p.env = e => environments[e].gen = p.gen
    BY <1>3, <1>4 DEF Agrees, Traces, RunsPointer
  <2>3. RunsPointer(e)'
    BY <1>1, <1>7, <2>1, <2>2 DEF RunsPointer
  <2>4. NamesStart(e)'
    BY <1>1, <1>3, <1>4, <1>11 DEF Agrees, Traces, NamesStart
  <2> QED BY <2>3, <2>4
<1>23. Finds(e)'
  BY <1>1 DEF Finds, Unknown, Adopting, Adopted, Serving
<1>24. Agrees(e)'
  BY <1>17, <1>18, <1>19, <1>20, <1>21, <1>22, <1>23 DEF Agrees, Movement, Cores, Traces
<1> HIDE DEF RestInv, About
<1> QED BY <1>1, <1>2, <1>6, <1>24, RestAround

LEMMA RestStart ==
  ASSUME TypeOK, StoresInv, AttendedInv, ProcessInv, RestInv, NEW o \in Op, NEW e \in Env,
         Start(o, e)
  PROVE  RestInv'
<1> DEFINE g == environments[e].gen
<1>1. /\ Idle /\ todo = <<>> /\ Serving /\ Serving' /\ ledger[o].state = "none"
      /\ environments[e].state = "stopped" /\ ~HasJournal(e, CoreTransactions)
      /\ Verified(e) /\ g # None
      /\ UNCHANGED << environments, operations, journals, launches, entries, mode, processes,
                      controllers >>
  BY DEF Start, Idle, Serving, NewRequest, durable, volatile, Verified, blocked, Installed
<1>2. "stop" \in Kinds /\ "start" \in Kinds \ {"apply"} /\ "start" \in {"start", "stop"}
  BY DEF Kinds
<1>3. /\ Waiting = {} /\ Launching(e) = {launches[e]} /\ Records(e) = {launches[e]}
      /\ Prospects(e) = {environments[e]}
      /\ \A q : Live(q) <=> controllers[q]
      /\ \A q, k, f : Belongs(q, k, f) <=> operations[q].kind = k /\ operations[q].env = f
      /\ \A q, k, f : Keeps(q, k, f) <=> journals[q].kind = k /\ journals[q].env = f
  BY <1>1, StoresAtRest
<1>4. Agrees(e)
  BY DEF RestInv
\* At rest, with nothing under way and no process.
<1>5. /\ ~Runs(launches[e])
      /\ \A p \in processes : p.env # e
      /\ \A q \in Op : ~(Live(q) /\ Belongs(q, "start", e)) /\ ~(Live(q) /\ Belongs(q, "stop", e))
  BY <1>1, <1>4, Resting DEF OnTheMove
\* The manager refuses, where a survivor has the launch record, or the start begins.
<1>6. \/ /\ Waiting' = Answering(o, "start") \cup Departing(o, "start", e)
                         \cup Refusing(o, "start", e)
         /\ UNCHANGED requested
      \/ /\ Waiting' = Answering(o, "start") \cup Departing(o, "start", e) \cup {Register(o)}
                 \cup IF launches[e].by = None THEN {Spawning(e, g)} ELSE {}
         /\ requested' = [requested EXCEPT ![o] = g]
  BY StartWaits
<1> HIDE DEF g
<1>7. /\ During("start") = "starting" /\ Reverted("start") = "stopped"
      /\ Register(o).store = "controllers" /\ Register(o).key = o
      /\ \A w \in Answering(o, "start") : w.store = "ledger"
      /\ \A s : PutOperation(o, "start", e, s).store = "operations"
      /\ \A s : /\ PutState(e, s).store = "environments" /\ PutState(e, s).key = e
                /\ PutState(e, s).val.state = s /\ PutState(e, s).val.gen = environments[e].gen
      /\ Spawning(e, g).store = "launches"
      /\ Spawning(e, g).val.state = "spawning" /\ Spawning(e, g).val.by = None
  BY AnswerFields, OperationFields, StateFields
     DEF During, Reverted, Register, Spawning, PutLaunch, Write
<1>8. /\ \A w \in Departing(o, "start", e) :
           w = PutOperation(o, "start", e, "active") \/ w = PutState(e, "starting")
      /\ PutState(e, "starting") \in Departing(o, "start", e)
      /\ \A w \in Refusing(o, "start", e) :
           w = PutOperation(o, "start", e, "failed") \/ w = PutState(e, "stopped")
  BY <1>7 DEF Departing, Refusing
<1>9. /\ Register(o) \in Waiting' => requested'[o] = g
      /\ \A q \in Op \ {o} : requested'[q] = requested[q]
  <2>1. CASE /\ Waiting' = Answering(o, "start") \cup Departing(o, "start", e)
                             \cup Refusing(o, "start", e)
             /\ UNCHANGED requested
    BY <1>7, <1>8, <2>1
  <2>2. CASE requested' = [requested EXCEPT ![o] = g]
    BY <2>2 DEF TypeOK
  <2> QED BY <1>6, <2>1, <2>2
<1>10. \A w \in Waiting' : About(w, o, "start", e)
  BY <1>2, <1>6, AboutWrites, AboutParts
<1>11. /\ PutState(e, "starting") \in Waiting'
       /\ \A w \in Waiting' :
            \/ w.store \in {"ledger", "operations"}
            \/ w = Register(o)
            \/ w = PutState(e, "starting")
            \/ w = PutState(e, "stopped") /\ Register(o) \notin Waiting'
            \/ w = Spawning(e, g)
  <2>1. CASE Waiting' = Answering(o, "start") \cup Departing(o, "start", e)
                          \cup Refusing(o, "start", e)
    <3>1. Register(o) \notin Waiting'
      BY <1>7, <1>8, <2>1
    <3> QED BY <1>7, <1>8, <2>1, <3>1
  <2>2. CASE Waiting' = Answering(o, "start") \cup Departing(o, "start", e) \cup {Register(o)}
                          \cup IF launches[e].by = None THEN {Spawning(e, g)} ELSE {}
    BY <1>7, <1>8, <2>2
  <2> QED BY <1>6, <2>1, <2>2
<1>12. Live(o)' => Register(o) \in Waiting'
  <2>1. ~controllers[o]
    BY <1>1, FreshRequest
  <2>2. \A w \in Waiting' : w.store = "controllers" => w = Register(o)
    BY <1>7, <1>11
  <2> QED BY <1>1, <2>1, <2>2 DEF Live
<1>13. /\ Coming(e)' # {} /\ Prospects(e)' = Coming(e)'
       /\ \A v \in Coming(e)' :
            /\ v.state = "starting" \/ (v.state = "stopped" /\ Register(o) \notin Waiting')
            /\ v.gen = environments[e].gen
  <2>1. Coming(e)' # {}
    BY <1>7, <1>11 DEF Coming
  <2>2. \A v \in Coming(e)' :
            /\ v.state = "starting" \/ (v.state = "stopped" /\ Register(o) \notin Waiting')
            /\ v.gen = environments[e].gen
    BY <1>7, <1>11 DEF Coming
  <2> QED BY <2>1, <2>2 DEF Prospects
<1>14. \A r \in Upcoming(e)' : r.state = "spawning" /\ r.by = None
  BY <1>7, <1>11 DEF Upcoming
<1>15. /\ Verified(e)'
       /\ \A r \in Launching(e)' : ~Runs(r)
       /\ \A r \in Records(e)' : ~Runs(r) /\ (r = launches[e] \/ r.by = None)
  BY <1>1, <1>5, <1>14 DEF Verified, Launching, Records, Runs
<1>16. /\ \A q \in Op \ {o} : Live(q)' <=> Live(q)
       /\ \A q \in Op \ {o}, l \in Kinds, f \in Env : Belongs(q, l, f)' <=> Belongs(q, l, f)
       /\ \A l \in Kinds, f \in Env : Belongs(o, l, f)' => l = "start" /\ f = e
  BY <1>1, <1>2, <1>10, RequestFacts
<1>17. ProcessMoves(e)' /\ RunningMoves(e)'
  BY <1>1, <1>5, <1>15 DEF ProcessMoves, RunningMoves
<1>18. StartMoves(e)'
  <2> SUFFICES ASSUME NEW q \in Op, Live(q)', Belongs(q, "start", e)'
               PROVE  \A v \in Coming(e)' : v.state \in OnTheMove
                            /\ (requested'[q] # None => v.gen = requested'[q])
    BY <1>13, <1>15 DEF StartMoves
  <2>1. q = o
    BY <1>2, <1>5, <1>16
  <2>2. Register(o) \in Waiting'
    BY <1>12, <2>1
  <2> QED BY <1>9, <1>13, <2>1, <2>2 DEF OnTheMove, g
<1>19. StopMoves(e)'
  BY <1>2, <1>5, <1>16 DEF StopMoves
<1>20. CoreRests(e)' /\ CoreKeeps(e)' /\ CreationAlone(e)'
  <2>1. \A q \in Op, l \in CoreTransactions : ~Keeps(q, l, e)
    BY <1>1, <1>3 DEF HasJournal
  <2> QED BY <1>1, <1>2, <1>10, <2>1, RequestCores
<1>21. RunsPointer(e)' /\ NamesStart(e)'
  <2>1. RunsPointer(e)'
    BY <1>15 DEF RunsPointer
  <2>2. NamesStart(e)'
    BY <1>1, <1>3, <1>4, <1>15 DEF Agrees, Traces, NamesStart
  <2> QED BY <2>1, <2>2
<1>22. Finds(e)'
  BY <1>1 DEF Finds, Unknown, Adopting, Adopted, Serving
<1>23. Agrees(e)'
  BY <1>17, <1>18, <1>19, <1>20, <1>21, <1>22 DEF Agrees, Movement, Cores, Traces
<1> HIDE DEF RestInv, About
<1> QED BY <1>1, <1>2, <1>9, <1>10, <1>23, RestAround

(***************************************************************************)
(* Every step.                                                             *)
(***************************************************************************)
LEMMA RestRequests ==
  ASSUME TypeOK, StoresInv, AttendedInv, ProcessInv, RestInv, "apply" \notin Commands, Requests
  PROVE  RestInv'
<1> HIDE DEF RestInv, ProcessInv
<1>1. PICK o \in Op, e \in Env :
        \/ CreateEnvironment(o, e) \/ SwitchCombination(o, e) \/ NoopSwitch(o, e)
        \/ \E p \in Plan : ApplyChange(o, e, p)
        \/ \E g \in Op : RestoreGeneration(o, e, g)
        \/ RestoreActive(o, e) \/ Start(o, e) \/ Stop(o, e)
  BY DEF Requests
<1>2. ~ \E p \in Plan : ApplyChange(o, e, p)
  BY DEF ApplyChange, NewRequest
<1> QED BY <1>1, <1>2, RestBuilds, RestNothingToDo, RestRestore, RestStart, RestStop

LEMMA RestTaskSteps ==
  ASSUME TypeOK, StoresInv, AttendedInv, ProcessInv, RestInv, NEW o \in Op, TaskSteps(o)
  PROVE  RestInv'
<1>1. ~StageReturns(o)
  <2>1. journals[o].kind # "apply"
    BY DEF RestInv, NoApply
  <2> QED BY <2>1 DEF StageReturns
<1> HIDE DEF RestInv, ProcessInv
<1> QED BY <1>1, RestInstallReturns, RestLaunchIntent, RestSpawn, RestIdentify, RestReady,
           RestStartFails, RestStopTask
        DEF TaskSteps

LEMMA RestNext ==
  ASSUME TypeOK, StoresInv, AttendedInv, ProcessInv, RestInv, "apply" \notin Commands,
         [Next]_vars, ~WriteFails
  PROVE  RestInv'
<1> HIDE DEF RestInv, ProcessInv
<1>1. CASE Requests
  BY <1>1, RestRequests
<1>2. CASE Cancels
  BY <1>2, RestCancels DEF Cancels
<1>3. CASE Surroundings
  BY <1>3, RestGone, RestModeStep, RestExitCallback DEF Surroundings
<1>4. CASE Boot \/ FinishClose \/ Persist \/ UNCHANGED vars
  BY <1>4, RestModeStep, RestGone, RestPersist
<1>5. CASE RecoverySteps
  BY <1>5, RestRecovers, RestRecoverJournal, RestRecoverOrphan, RestRecoverCreating,
     RestReconcileLaunch, RestReconciled, RestCoreRecovered, RestModeStep
     DEF RecoverySteps
<1>6. CASE \E o \in Op : TaskSteps(o)
  BY <1>6, RestTaskSteps
<1> QED BY <1>1, <1>2, <1>3, <1>4, <1>5, <1>6 DEF Next

\* The invariant, where nobody applies a change and the disk refuses no write.
Undisturbed == faults = 0 /\ "apply" \notin Commands
RestSound == Undisturbed => RestInv

LEMMA RestUnrefused ==
  TypeOK /\ AttendedSound /\ ProcessSound /\ RestSound /\ [Next]_vars => RestSound'
<1> SUFFICES ASSUME TypeOK, AttendedSound, ProcessSound, RestSound, [Next]_vars,
                    faults' = 0, "apply" \notin Commands
             PROVE  RestInv'
  BY DEF RestSound, Undisturbed
<1>1. faults = 0 /\ ~WriteFails
  <2>1. WriteFails => faults' # 0
    BY DEF WriteFails, TypeOK
  <2>2. ~WriteFails => faults' = faults
    BY FaultsKept
  <2> QED BY <2>1, <2>2
<1> HIDE DEF RestInv, ProcessInv
<1> QED BY <1>1, RestNext DEF AttendedSound, ProcessSound, RestSound, Undisturbed

\* The record of every environment agrees with its processes, in every state
\* that is reached without a refused write, where nobody applies a change.
THEOREM RestInvariant == Spec => []RestSound
<1>1. Init => RestSound
  BY RestInit DEF RestSound
<1> QED BY <1>1, RestUnrefused, ProcessInvariant, AttendedInvariant, TypeCorrect, PTL DEF Spec

\* At rest a process belongs to an environment that is on the move, and runs
\* the generation the pointer names.
LEMMA RestMeans ==
  ASSUME TypeOK, RestInv, Idle, ~blocked, NEW p \in processes
  PROVE  Changing(p.env) /\ p.gen = environments[p.env].gen
<1>1. p.env \in Env
  BY ProcessFields, ProcessesAlive
<1>2. Prospects(p.env) = {environments[p.env]}
  BY StoresAtRest DEF Idle
<1>3. Verified(p.env)
  BY <1>1 DEF Verified, Serving, Idle, blocked
<1>4. ProcessMoves(p.env)
  BY <1>1 DEF RestInv, Agrees, Movement
<1> QED BY <1>2, <1>3, <1>4 DEF ProcessMoves, Changing, OnTheMove

\* Where nobody applies a change, no process but those that outlived the SIGKILL
\* of their failed start is left behind by an environment that is `stopped`: what a start, a stop, an exit, a crash and a
\* recovery write of it agrees with what they did to its processes.
THEOREM StoppedIsVacant == Spec => [](Undisturbed => StoppedHasNoProcess)
<1>1. TypeOK /\ RestSound => (Undisturbed => StoppedHasNoProcess)
  BY RestMeans DEF RestSound, StoppedHasNoProcess
<1> QED BY <1>1, RestInvariant, TypeCorrect, PTL

\* Where nobody applies a change, the composition under a process that did not
\* outlive its failed start is the one the pointer names: no switch, restore or recovery moves it away.
THEOREM PointerNamesRunning == Spec => [](Undisturbed => RunsActiveGeneration)
<1>1. TypeOK /\ RestSound => (Undisturbed => RunsActiveGeneration)
  BY RestMeans DEF RestSound, RunsActiveGeneration
<1> QED BY <1>1, RestInvariant, TypeCorrect, PTL
===============================================================================
