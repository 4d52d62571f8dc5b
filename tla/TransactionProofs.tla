--------------------------- MODULE TransactionProofs ---------------------------
(***************************************************************************)
(* What the launcher guarantees about transactions, for every set of       *)
(* environments, requests and plans and any number of crashes, as long as  *)
(* the disk has refused no write.                                          *)
(*                                                                         *)
(* A handler leaves its writes in  todo , and a crash may come before each *)
(* of them.  The invariants speak of what a store holds "now or soon":     *)
(* what it holds, or what a waiting write will put there.  Persist only    *)
(* turns soon into now, so it preserves whatever is said of both; where    *)
(* the order of two writes matters,  Before  says so.                      *)
(*                                                                         *)
(* First the types, which hold whatever the disk refuses: no handler,      *)
(* task, recovery step or rescue after a refused write leaves a write of   *)
(* the wrong shape in  todo , and none reads a record that is not there.   *)
(***************************************************************************)
EXTENDS LauncherProperties, FiniteSetTheorems, TLAPS

Script == Seq(WriteRecord)

(***************************************************************************)
(* Scripts are sequences of writes.                                        *)
(***************************************************************************)
LEMMA Singletons == <<>> \in Script /\ \A w \in WriteRecord : << w >> \in Script
  BY DEF Script

LEMMA Pairs == \A v, w \in WriteRecord : << v, w >> \in Script
  BY DEF Script

LEMMA Triples == \A u, v, w \in WriteRecord : << u, v, w >> \in Script
  BY DEF Script

LEMMA Quadruples ==
  \A t, u, v, w \in WriteRecord : << t, u, v, w >> \in Script
  BY DEF Script

LEMMA Sextuples ==
  \A r, s, t, u, v, w \in WriteRecord : << r, s, t, u, v, w >> \in Script
  BY DEF Script

LEMMA Joined == \A s, t \in Script : s \o t \in Script
  BY DEF Script

LEMMA FirstAndRest ==
  \A s \in Script : s # <<>> => /\ Head(s) \in WriteRecord /\ Tail(s) \in Script
                                /\ s[Len(s)] \in WriteRecord
  BY DEF Script

(***************************************************************************)
(* The writes.                                                             *)
(***************************************************************************)
LEMMA EnvironmentWrites ==
  \A e \in Env, r \in EnvironmentRecord : PutEnvironment(e, r) \in WriteRecord
  BY DEF PutEnvironment, Write, WriteRecord

LEMMA OperationWrites ==
  /\ \A o \in Op, r \in OperationRecord : Write("operations", o, r) \in WriteRecord
  /\ \A o \in Op, k \in Kinds, e \in Env, s \in Terminal \cup {"active"} :
       PutOperation(o, k, e, s) \in WriteRecord
  BY DEF PutOperation, Write, WriteRecord, OperationRecord

LEMMA JournalWrites ==
  \A o \in Op, r \in JournalRecord : PutJournal(o, r) \in WriteRecord
  BY DEF PutJournal, Write, WriteRecord

LEMMA OtherWrites ==
  /\ \A o \in Op, s \in GenerationStates : PutGeneration(o, s) \in WriteRecord
  /\ \A p \in Plan, o \in Op : PutPlan(p, o) \in WriteRecord
  /\ \A o \in Op : Register(o) \in WriteRecord
  BY DEF PutGeneration, PutPlan, Register, Write, WriteRecord

LEMMA LedgerWrites ==
  \A o \in Op, m \in Kinds \cup {"none"}, s \in {"in-progress", "ok", "failed"} :
    PutLedger(o, m, s) \in WriteRecord
  BY DEF PutLedger, Write, WriteRecord, LedgerRecord

LEMMA LaunchWrites ==
  \A e \in Env, r \in LaunchRecord : PutLaunch(e, r) \in WriteRecord
  BY DEF PutLaunch, Write, WriteRecord

(***************************************************************************)
(* The records that are there.                                             *)
(***************************************************************************)
LEMMA OperationRecords ==
  ASSUME TypeOK, NEW o \in Op
  PROVE  /\ operations[o].kind # "none" \/ operations[o].status # "absent" =>
              /\ operations[o].kind \in Kinds /\ operations[o].env \in Env
              /\ \A s \in Terminal : [operations[o] EXCEPT !.status = s] \in OperationRecord
         /\ operations[o].status \in Terminal \cup {"active", "absent"}
<1> DEFINE Present == [kind: Kinds, env: Env, status: Terminal \cup {"active"}]
<1>1. operations[o] \in Present \cup {NoOperation}
  BY DEF TypeOK, OperationRecord
<1>2. CASE operations[o] \in Present
  <2>1. \A s \in Terminal : [operations[o] EXCEPT !.status = s] \in Present
    BY <1>2
  <2> QED BY <1>2, <2>1 DEF OperationRecord
<1>3. CASE operations[o] = NoOperation
  BY <1>3 DEF NoOperation
<1> QED BY <1>1, <1>2, <1>3

LEMMA JournalRecords ==
  ASSUME TypeOK, NEW o \in Op
  PROVE  /\ journals[o].kind # "none" =>
              /\ journals[o].env \in Env /\ journals[o].gen \in Op
              /\ [journals[o] EXCEPT !.phase = "committed"] \in JournalRecord
         /\ journals[o].kind = "apply" => journals[o].plan \in Plan
         /\ NoJournal \in JournalRecord
<1> DEFINE Applied == [kind: {"apply"}, env: Env, gen: Op, plan: Plan,
                       phase: {"open", "committed"}]
           Others == [kind: CoreTransactions \cup {"restore"}, env: Env, gen: Op,
                      plan: {None}, phase: {"open", "committed"}]
<1>1. journals[o] \in Applied \cup Others \cup {NoJournal}
  BY DEF TypeOK, JournalRecord
<1>2. NoJournal \in JournalRecord /\ NoJournal.kind = "none"
  BY DEF JournalRecord, NoJournal
<1>3. CASE journals[o] \in Applied
  <2>1. [journals[o] EXCEPT !.phase = "committed"] \in Applied
    BY <1>3
  <2> QED BY <1>2, <1>3, <2>1 DEF JournalRecord
<1>4. CASE journals[o] \in Others
  <2>1. [journals[o] EXCEPT !.phase = "committed"] \in Others
    BY <1>4
  <2> QED BY <1>2, <1>4, <2>1 DEF JournalRecord, CoreTransactions
<1> QED BY <1>1, <1>2, <1>3, <1>4

LEMMA EnvironmentRecords ==
  ASSUME TypeOK, NEW e \in Env
  PROVE  /\ environments[e].gen \in Op \cup {None} /\ environments[e].revision \in Nat
         /\ \A g \in Op : /\ Committing(e, g) \in EnvironmentRecord
                         /\ [environments[e] EXCEPT !.gen = g, !.revision = @ + 1]
                               \in EnvironmentRecord
         /\ Errored(e) \in EnvironmentRecord
         /\ \A s \in EnvironmentStates :
              [environments[e] EXCEPT !.state = s] \in EnvironmentRecord
<1>1. environments[e] \in EnvironmentRecord
  BY DEF TypeOK
<1>2. environments[e].revision + 1 \in Nat
  BY <1>1 DEF EnvironmentRecord
<1>3. \A g \in Op : Committing(e, g) \in EnvironmentRecord
  BY <1>1, <1>2 DEF EnvironmentRecord, EnvironmentStates, Committing
<1>4. \A g \in Op : [environments[e] EXCEPT !.gen = g, !.revision = @ + 1]
                     \in EnvironmentRecord
  BY <1>1, <1>2 DEF EnvironmentRecord
<1>5. Errored(e) \in EnvironmentRecord
  BY <1>1 DEF EnvironmentRecord, EnvironmentStates, Errored
<1>6. \A s \in EnvironmentStates :
        [environments[e] EXCEPT !.state = s] \in EnvironmentRecord
  BY <1>1 DEF EnvironmentRecord
<1> QED BY <1>1, <1>3, <1>4, <1>5, <1>6 DEF EnvironmentRecord

LEMMA LaunchRecords ==
  ASSUME TypeOK, NEW e \in Env
  PROVE  /\ launches[e].gen \in Op \cup {None} /\ launches[e].by \in Op \cup {None}
         /\ \A s \in {"starting", "running", "stopping", "ended", "unverifiable"} :
              [launches[e] EXCEPT !.state = s] \in LaunchRecord
         /\ \A o \in Op :
              [launches[e] EXCEPT !.state = "starting", !.by = o] \in LaunchRecord
         /\ \A g \in Op \cup {None} :
              [state |-> "spawning", gen |-> g, by |-> None] \in LaunchRecord
  BY DEF TypeOK, LaunchRecord

(***************************************************************************)
(* The scripts of the handlers.                                            *)
(***************************************************************************)
LEMMA Settled ==
  ASSUME TypeOK, NEW o \in Op, NEW s \in Terminal PROVE Settle(o, s) \in Script
  BY OperationRecords, OperationWrites, Singletons DEF Settle, Ended

LEMMA LedgerRepaired ==
  ASSUME TypeOK, NEW o \in Op PROVE RepairLedger(o) \in Script
<1>1. ledger[o].method \in Kinds \cup {"none"}
  BY DEF TypeOK, LedgerRecord
<1> QED BY <1>1, LedgerWrites, Singletons DEF RepairLedger

LEMMA JournalClosed ==
  ASSUME TypeOK, NEW o \in Op PROVE << PutJournal(o, NoJournal) >> \in Script
  BY JournalRecords, JournalWrites, Singletons

LEMMA Undone ==
  ASSUME TypeOK, NEW o \in Op, OpenJournal(o), NEW repair \in Script
  PROVE  UndoScript(o, repair) \in Script
<1>1. journals[o].env \in Env
  BY JournalRecords DEF OpenJournal
<1>2. << PutEnvironment(journals[o].env, Errored(journals[o].env)) >> \in Script
  BY <1>1, EnvironmentRecords, EnvironmentWrites, Singletons
<1>3. << PutGeneration(o, "absent") >> \in Script
  BY OtherWrites, Singletons DEF GenerationStates
<1> QED BY <1>2, <1>3, Settled, JournalClosed, Singletons, Joined
        DEF UndoScript, Terminal

LEMMA Committed ==
  ASSUME TypeOK, NEW o \in Op, OpenJournal(o) PROVE CommitScript(o) \in Script
<1> DEFINE j == journals[o]
<1>1. PutGeneration(o, "recorded") \in WriteRecord
  BY OtherWrites DEF GenerationStates
<1>2. PutEnvironment(j.env, Committing(j.env, o)) \in WriteRecord
  BY JournalRecords, EnvironmentRecords, EnvironmentWrites DEF OpenJournal
<1>3. /\ PutJournal(o, [j EXCEPT !.phase = "committed"]) \in WriteRecord
      /\ PutJournal(o, NoJournal) \in WriteRecord
  BY JournalRecords, JournalWrites DEF OpenJournal
<1> QED BY <1>1, <1>2, <1>3, Settled, Pairs, Joined DEF CommitScript, Terminal

LEMMA Finalized ==
  ASSUME TypeOK, NEW o \in Op PROVE FinalizeScript(o) \in Script
<1>1. operations[o].status \in {"active", "cancelled"} =>
        << Ended(o, "succeeded") >> \in Script
  BY OperationRecords, OperationWrites, Singletons DEF Ended, Terminal
<1> QED BY <1>1, Singletons, LedgerRepaired, JournalClosed, Joined DEF FinalizeScript

LEMMA RolledBack ==
  ASSUME TypeOK, NEW o \in Op PROVE RollbackScript(o) \in Script
<1>1. << PutGeneration(o, "absent") >> \in Script
  BY OtherWrites, Singletons DEF GenerationStates
<1> QED BY <1>1, Settled, LedgerRepaired, JournalClosed, Joined
        DEF RollbackScript, Terminal

LEMMA CancelledAway ==
  ASSUME TypeOK, NEW o \in Op PROVE CancelScript(o) \in Script
  BY OtherWrites, JournalRecords, JournalWrites, Pairs DEF CancelScript, GenerationStates

LEMMA PublishedByApply ==
  ASSUME TypeOK, NEW o \in Op, journals[o].kind = "apply"
  PROVE  PublishScript(o) \in Script
<1> DEFINE j == journals[o]
           moved == [environments[j.env] EXCEPT !.state = "stopped",
                                                !.revision = @ + 1, !.gen = o]
<1>1. j.env \in Env /\ j.plan \in Plan
  BY JournalRecords
<1>2. moved \in EnvironmentRecord
  <2>1. environments[j.env] \in EnvironmentRecord
    BY <1>1 DEF TypeOK
  <2>2. environments[j.env].revision + 1 \in Nat
    BY <2>1 DEF EnvironmentRecord
  <2> QED BY <2>1, <2>2 DEF EnvironmentRecord, EnvironmentStates
<1>3. << PutGeneration(o, "recorded") >> \in Script
  BY OtherWrites, Singletons DEF GenerationStates
<1>4. << PutEnvironment(j.env, moved),
         PutJournal(o, [j EXCEPT !.phase = "committed"]),
         PutPlan(j.plan, o) >> \in Script
  <2>1. PutEnvironment(j.env, moved) \in WriteRecord
    BY <1>1, <1>2, EnvironmentWrites
  <2>2. PutJournal(o, [j EXCEPT !.phase = "committed"]) \in WriteRecord
    BY JournalRecords, JournalWrites
  <2>3. PutPlan(j.plan, o) \in WriteRecord
    BY <1>1, OtherWrites
  <2> QED BY <2>1, <2>2, <2>3, Triples
<1> QED BY <1>3, <1>4, RolledBack, Settled, LedgerRepaired, JournalClosed, Joined
        DEF PublishScript, Terminal

LEMMA MarkedSucceeded ==
  ASSUME TypeOK, NEW o \in Op PROVE MarkSucceeded(o) \in Script
<1>1. operations[o].status # "absent" => << Ended(o, "succeeded") >> \in Script
  BY OperationRecords, OperationWrites, Singletons DEF Ended, Terminal
<1> QED BY <1>1, Singletons, LedgerRepaired, Joined DEF MarkSucceeded

LEMMA StateWrites ==
  ASSUME TypeOK, NEW e \in Env, NEW s \in EnvironmentStates
  PROVE  /\ PutState(e, s) \in WriteRecord
         /\ \A from \in EnvironmentStates : PutStateIf(e, from, s) \in Script
  BY EnvironmentRecords, EnvironmentWrites, Singletons DEF PutState, PutStateIf

LEMMA LaunchMarks ==
  ASSUME TypeOK, NEW e \in Env
  PROVE  /\ \A s \in {"starting", "running", "stopping", "ended", "unverifiable"} :
              Marked(e, s) \in WriteRecord
         /\ \A g \in Op \cup {None} : Spawning(e, g) \in WriteRecord
  BY LaunchRecords, LaunchWrites DEF Marked, Spawning, PutLaunch

LEMMA FailedStartOrStop ==
  ASSUME TypeOK, NEW o \in Op, OfKind(o, {"start", "stop"})
  PROVE  FailScript(o) \in Script
<1> DEFINE kind == operations[o].kind
<1>1. operations[o].env \in Env
  BY OperationRecords DEF OfKind
<1>2. During(kind) \in EnvironmentStates /\ Reverted(kind) \in EnvironmentStates
  BY DEF During, Reverted, EnvironmentStates
<1>3. PutStateIf(operations[o].env, During(kind), Reverted(kind)) \in Script
  BY <1>1, <1>2, StateWrites
<1> QED BY <1>3, Singletons, Settled, Joined DEF FailScript, Terminal

LEMMA DispatchedWrites ==
  ASSUME NEW o \in Op, NEW kind \in Kinds, NEW effect \in Script
  PROVE  Dispatched(o, kind, effect) \in Script
  BY LedgerWrites, Singletons, Joined DEF Dispatched

LEMMA PreparedWrites ==
  ASSUME NEW o \in Op, NEW kind \in CoreTransactions, NEW e \in Env
  PROVE  Prepared(o, kind, e) \in Script
<1>1. [kind |-> kind, env |-> e, gen |-> o, plan |-> None, phase |-> "open"]
        \in JournalRecord
  BY DEF JournalRecord
<1> QED BY <1>1, OperationWrites, JournalWrites, OtherWrites, Quadruples
        DEF Prepared, Kinds, CoreTransactions, GenerationStates

(***************************************************************************)
(* The initial state, and what a crash leaves.                             *)
(***************************************************************************)
LEMMA TypeInit == Init => TypeOK
<1> SUFFICES ASSUME Init PROVE TypeOK
  OBVIOUS
<1>1. NoEnvironment \in EnvironmentRecord /\ NoLaunch \in LaunchRecord
  BY DEF NoEnvironment, EnvironmentRecord, EnvironmentStates, NoLaunch, LaunchRecord
<1>2. NoOperation \in OperationRecord /\ NoJournal \in JournalRecord
      /\ NoLedger \in LedgerRecord
  BY DEF OperationRecord, JournalRecord, NoLedger, LedgerRecord
<1>3. /\ environments \in [Env -> EnvironmentRecord]
      /\ operations \in [Op -> OperationRecord]
      /\ journals \in [Op -> JournalRecord]
      /\ ledger \in [Op -> LedgerRecord]
      /\ launches \in [Env -> LaunchRecord]
  BY <1>1, <1>2 DEF Init
<1>4. /\ generations \in [Op -> GenerationStates]
      /\ plans \in [Plan -> Op \cup {None}]
      /\ processes \subseteq Process /\ survivors \subseteq Process
  BY DEF Init, GenerationStates
<1>5. /\ mode \in Modes
      /\ todo \in Seq(WriteRecord)
      /\ enclosing \in Op \cup {None}
      /\ controllers \in [Op -> BOOLEAN]
      /\ aborted \subseteq Op
      /\ expected \in [Op -> Nat]
      /\ requested \in [Op -> Op \cup {None}]
      /\ watched \subseteq Op
  BY DEF Init, Modes
<1>6. entries \in [Env -> Resolutions] /\ switchJournalSeen \in BOOLEAN
  BY DEF Init, Resolutions
<1>7. crashes \in 0..MaxCrashes /\ faults \in 0..MaxWriteFaults
  BY BoundsAssumption DEF Init
<1> QED BY <1>3, <1>4, <1>5, <1>6, <1>7 DEF TypeOK

LEMMA MemoryLost ==
  LoseMemory => /\ mode' \in Modes /\ todo' \in Script
                /\ enclosing' \in Op \cup {None} /\ controllers' \in [Op -> BOOLEAN]
                /\ aborted' \subseteq Op /\ expected' \in [Op -> Nat]
                /\ requested' \in [Op -> Op \cup {None}] /\ watched' \subseteq Op
                /\ entries' \in [Env -> Resolutions] /\ switchJournalSeen' \in BOOLEAN
<1> SUFFICES ASSUME LoseMemory
             PROVE  /\ mode' \in Modes /\ todo' \in Script
                    /\ enclosing' \in Op \cup {None} /\ controllers' \in [Op -> BOOLEAN]
                    /\ aborted' \subseteq Op /\ expected' \in [Op -> Nat]
                    /\ requested' \in [Op -> Op \cup {None}] /\ watched' \subseteq Op
                    /\ entries' \in [Env -> Resolutions]
                    /\ switchJournalSeen' \in BOOLEAN
  OBVIOUS
<1>1. mode' \in Modes /\ todo' \in Script /\ enclosing' \in Op \cup {None}
  BY Singletons DEF LoseMemory, Run, Modes
<1>2. /\ controllers' \in [Op -> BOOLEAN] /\ expected' \in [Op -> Nat]
      /\ aborted' \subseteq Op /\ watched' \subseteq Op /\ switchJournalSeen' \in BOOLEAN
  BY DEF LoseMemory
<1>3. requested' \in [Op -> Op \cup {None}] /\ entries' \in [Env -> Resolutions]
  BY DEF LoseMemory, Resolutions
<1> QED BY <1>1, <1>2, <1>3

(***************************************************************************)
(* Most steps leave the stores alone and write a script.                   *)
(***************************************************************************)
Scripted == todo' \in Script /\ enclosing' \in Op \cup {None}

LEMMA ScriptRun ==
  \A s \in Script, o \in Op \cup {None} : Run(s, o) => Scripted
  BY DEF Run, Scripted

LEMMA FramedFiles ==
  ASSUME TypeOK, Scripted, UNCHANGED << files, bounds >>, processes' \subseteq Process,
         survivors' \subseteq Process, mode' \in Modes,
         controllers' \in [Op -> BOOLEAN], aborted' \subseteq Op,
         expected' \in [Op -> Nat], requested' \in [Op -> Op \cup {None}],
         watched' \subseteq Op, entries' \in [Env -> Resolutions],
         switchJournalSeen' \in BOOLEAN
  PROVE  TypeOK'
  BY DEF TypeOK, Scripted, Script, files, bounds

LEMMA Framed ==
  ASSUME TypeOK, Scripted, UNCHANGED << durable, bounds >>,
         processes' \subseteq Process, mode' \in Modes,
         controllers' \in [Op -> BOOLEAN], aborted' \subseteq Op,
         expected' \in [Op -> Nat], requested' \in [Op -> Op \cup {None}],
         watched' \subseteq Op, entries' \in [Env -> Resolutions],
         switchJournalSeen' \in BOOLEAN
  PROVE  TypeOK'
<1>1. UNCHANGED << files, bounds >> /\ survivors' \subseteq Process
  BY DEF durable, files, TypeOK
<1> QED BY <1>1, FramedFiles

\* The commonest frame: a handler that only writes.
Quiet == UNCHANGED << durable, processes, mode, controllers, volatile, bounds >>

LEMMA QuietStep == ASSUME TypeOK, Scripted, Quiet PROVE TypeOK'
  BY Framed DEF Quiet, volatile, TypeOK

LEMMA Finishes ==
  ASSUME TypeOK, NEW o \in Op, Finished(o) PROVE controllers' \in [Op -> BOOLEAN]
  BY DEF TypeOK, Finished

(***************************************************************************)
(* The steps of EnvironmentService, transactions.                          *)
(***************************************************************************)
LEMMA TypeRequestsCore ==
  ASSUME TypeOK, NEW o \in Op, NEW e \in Env,
         CreateEnvironment(o, e) \/ SwitchCombination(o, e) \/ NoopSwitch(o, e)
  PROVE  TypeOK'
<1>1. CASE CreateEnvironment(o, e)
  <2>1. << PutEnvironment(e, [NoEnvironment EXCEPT !.state = "creating"]) >> \in Script
    <3>1. [NoEnvironment EXCEPT !.state = "creating"] \in EnvironmentRecord
      BY DEF NoEnvironment, EnvironmentRecord, EnvironmentStates
    <3> QED BY <3>1, EnvironmentWrites, Singletons
  <2>2. Prepared(o, "create", e) \in Script
    BY PreparedWrites DEF CoreTransactions
  <2>3. Scripted
    BY <1>1, <2>1, <2>2, Joined, DispatchedWrites, ScriptRun
       DEF CreateEnvironment, Kinds
  <2> QED BY <1>1, <2>3, QuietStep DEF CreateEnvironment, Quiet
<1>2. CASE SwitchCombination(o, e)
  <2>1. Prepared(o, "switch", e) \in Script
    BY PreparedWrites DEF CoreTransactions
  <2>2. Scripted
    BY <1>2, <2>1, DispatchedWrites, ScriptRun DEF SwitchCombination, Kinds
  <2> QED BY <1>2, <2>2, QuietStep DEF SwitchCombination, Quiet
<1>3. CASE NoopSwitch(o, e)
  <2>1. << PutOperation(o, "switch", e, "active"),
           PutOperation(o, "switch", e, "succeeded") >> \in Script
    BY OperationWrites, Pairs DEF Kinds, Terminal
  <2>2. Scripted
    BY <1>3, <2>1, DispatchedWrites, ScriptRun DEF NoopSwitch, Kinds
  <2> QED BY <1>3, <2>2, QuietStep DEF NoopSwitch, Quiet
<1> QED BY <1>1, <1>2, <1>3

LEMMA TypeInstallReturns ==
  ASSUME TypeOK, NEW o \in Op, InstallReturns(o) PROVE TypeOK'
<1>1. OpenJournal(o)
  BY DEF InstallReturns, OpenJournal, CoreTransactions
<1>2. Scripted
  BY <1>1, Committed, Undone, Singletons, ScriptRun DEF InstallReturns
<1>3. controllers' \in [Op -> BOOLEAN]
  BY Finishes DEF InstallReturns
<1> QED BY <1>2, <1>3, Framed DEF InstallReturns, TypeOK

LEMMA TypeCancelOperation ==
  ASSUME TypeOK, NEW o \in Op, CancelOperation(o) \/ CancelApply(o) PROVE TypeOK'
<1>1. Scripted
  BY Settled, ScriptRun DEF CancelOperation, CancelApply, Terminal
<1>2. aborted' \subseteq Op
  BY DEF CancelOperation, CancelApply, TypeOK
<1>3. UNCHANGED << durable, processes, mode, controllers, expected, requested,
                   watched, entries, switchJournalSeen, bounds >>
  BY DEF CancelOperation, CancelApply
<1> QED BY <1>1, <1>2, <1>3, Framed DEF TypeOK

LEMMA TypeRecoverCore ==
  ASSUME TypeOK, NEW o \in Op,
         RecoverJournal(o) \/ RecoverOrphan(o) \/ SettleSwitchLedger(o)
  PROVE  TypeOK'
<1>1. CASE RecoverJournal(o)
  <2>1. OpenJournal(o)
    BY <1>1 DEF RecoverJournal, CoreJournals, OpenJournal, CoreTransactions
  <2>2. Scripted
    BY <1>1, <2>1, Finalized, Undone, LedgerRepaired, ScriptRun DEF RecoverJournal
  <2> QED BY <1>1, <2>2, QuietStep DEF RecoverJournal, Quiet
<1>2. CASE RecoverOrphan(o)
  <2>1. operations[o].env \in Env
    BY <1>2, OperationRecords DEF RecoverOrphan, OrphanTransactions, Pending
  <2>2. << PutEnvironment(operations[o].env, Errored(operations[o].env)) >> \in Script
    BY <2>1, EnvironmentRecords, EnvironmentWrites, Singletons
  <2>3. Scripted
    BY <1>2, <2>2, Settled, Singletons, Joined, ScriptRun DEF RecoverOrphan, Terminal
  <2> QED BY <1>2, <2>3, QuietStep DEF RecoverOrphan, Quiet
<1>3. CASE SettleSwitchLedger(o)
  <2>1. Scripted
    BY <1>3, LedgerWrites, Singletons, ScriptRun DEF SettleSwitchLedger, Kinds
  <2> QED BY <1>3, <2>1, QuietStep DEF SettleSwitchLedger, Quiet
<1> QED BY <1>1, <1>2, <1>3

LEMMA TypeRecoverCreating ==
  ASSUME TypeOK, NEW e \in Env, RecoverCreating(e) PROVE TypeOK'
<1>1. Scripted
  BY EnvironmentRecords, EnvironmentWrites, Singletons, ScriptRun DEF RecoverCreating
<1> QED BY <1>1, QuietStep DEF RecoverCreating, Quiet

(***************************************************************************)
(* The steps of ChangeApplyService.                                        *)
(***************************************************************************)
LEMMA TypeApplyChange ==
  ASSUME TypeOK, NEW o \in Op, NEW e \in Env, NEW p \in Plan, ApplyChange(o, e, p)
  PROVE  TypeOK'
<1>1. [kind |-> "apply", env |-> e, gen |-> o, plan |-> p, phase |-> "open"]
        \in JournalRecord
  BY DEF JournalRecord
<1>2. Scripted
  BY <1>1, OperationWrites, OtherWrites, JournalWrites, Quadruples, DispatchedWrites,
     ScriptRun DEF ApplyChange, Kinds, GenerationStates
<1>3. expected' \in [Op -> Nat]
  BY EnvironmentRecords DEF ApplyChange, TypeOK
<1> QED BY <1>2, <1>3, Framed DEF ApplyChange, TypeOK

LEMMA TypeStageReturns ==
  ASSUME TypeOK, NEW o \in Op, StageReturns(o) PROVE TypeOK'
<1>1. Scripted
  BY RolledBack, CancelledAway, PublishedByApply, ScriptRun DEF StageReturns
<1>2. controllers' \in [Op -> BOOLEAN] /\ expected' \in [Op -> Nat]
  BY Finishes DEF StageReturns, TypeOK
<1> QED BY <1>1, <1>2, Framed DEF StageReturns, TypeOK

LEMMA TypeRestore ==
  ASSUME TypeOK, NEW o \in Op, NEW e \in Env, NEW g \in Op,
         RestoreGeneration(o, e, g) \/ RestoreActive(o, e)
  PROVE  TypeOK'
<1>1. /\ PutOperation(o, "restore", e, "active") \in WriteRecord
      /\ PutOperation(o, "restore", e, "succeeded") \in WriteRecord
  BY OperationWrites DEF Kinds, Terminal
<1>2. CASE RestoreGeneration(o, e, g)
  <2> DEFINE j == [kind |-> "restore", env |-> e, gen |-> g, plan |-> None,
                   phase |-> "committed"]
             moved == [environments[e] EXCEPT !.gen = g, !.revision = @ + 1]
  <2>1. PutJournal(o, j) \in WriteRecord /\ PutJournal(o, NoJournal) \in WriteRecord
    <3>1. j \in JournalRecord
      BY DEF JournalRecord
    <3> QED BY <3>1, JournalRecords, JournalWrites
  <2>2. PutEnvironment(e, moved) \in WriteRecord
    BY EnvironmentRecords, EnvironmentWrites
  <2>3. PutLedger(o, "restore", "ok") \in WriteRecord
    BY LedgerWrites DEF Kinds
  <2>4. << PutJournal(o, j), PutOperation(o, "restore", e, "active"),
           PutEnvironment(e, moved), PutOperation(o, "restore", e, "succeeded"),
           PutLedger(o, "restore", "ok"), PutJournal(o, NoJournal) >> \in Script
    BY <1>1, <2>1, <2>2, <2>3, Sextuples
  <2>5. Scripted
    BY <1>2, <2>4, DispatchedWrites, ScriptRun DEF RestoreGeneration, Kinds
  <2> QED BY <1>2, <2>5, QuietStep DEF RestoreGeneration, Quiet
<1>3. CASE RestoreActive(o, e)
  <2>1. PutLedger(o, "restore", "ok") \in WriteRecord
    BY LedgerWrites DEF Kinds
  <2>2. Scripted
    BY <1>1, <1>3, <2>1, Triples, DispatchedWrites, ScriptRun
    DEF RestoreActive, Kinds
  <2> QED BY <1>3, <2>2, QuietStep DEF RestoreActive, Quiet
<1> QED BY <1>2, <1>3

LEMMA TypeRecoverChanges ==
  ASSUME TypeOK, NEW o \in Op,
         RecoverChange(o) \/ RecoverOrphanChange(o) \/ SweepChangeLedger(o)
  PROVE  TypeOK'
<1>1. CASE RecoverChange(o)
  <2> DEFINE j == journals[o]
  <2>1. j.kind = "apply" => << PutPlan(j.plan, o) >> \in Script
    BY JournalRecords, OtherWrites, Singletons
  <2>2. MarkSucceeded(o)
          \o (IF j.kind = "apply" /\ plans[j.plan] = None
                THEN << PutPlan(j.plan, o) >> ELSE <<>>)
          \o << PutJournal(o, NoJournal) >> \in Script
    BY <2>1, MarkedSucceeded, Singletons, JournalClosed, Joined
  <2>3. Settle(o, "failed") \o RepairLedger(o) \o << PutJournal(o, NoJournal) >>
          \in Script
    BY Settled, LedgerRepaired, JournalClosed, Joined DEF Terminal
  <2>4. Scripted
    BY <1>1, <2>2, <2>3, RolledBack, ScriptRun DEF RecoverChange
  <2> QED BY <1>1, <2>4, QuietStep DEF RecoverChange, Quiet
<1>2. CASE RecoverOrphanChange(o)
  <2>1. Scripted
    BY <1>2, Settled, ScriptRun DEF RecoverOrphanChange, Terminal
  <2> QED BY <1>2, <2>1, QuietStep DEF RecoverOrphanChange, Quiet
<1>3. CASE SweepChangeLedger(o)
  <2>1. ledger[o].method \in Kinds \cup {"none"}
    BY DEF TypeOK, LedgerRecord
  <2>2. Scripted
    BY <1>3, <2>1, LedgerWrites, Singletons, ScriptRun DEF SweepChangeLedger
  <2> QED BY <1>3, <2>2, QuietStep DEF SweepChangeLedger, Quiet
<1> QED BY <1>1, <1>2, <1>3

(***************************************************************************)
(* The steps of a start and of a stop.                                     *)
(***************************************************************************)
LEMMA TaskEnvironments ==
  ASSUME TypeOK, NEW o \in Op, NEW kind \in Kinds, OfKind(o, {kind})
  PROVE  operations[o].env \in Env
  BY OperationRecords DEF OfKind, Kinds

LEMMA Beginning ==
  ASSUME TypeOK, NEW o \in Op, NEW e \in Env, NEW kind \in {"start", "stop"}
  PROVE  /\ << PutOperation(o, kind, e, "active"), PutState(e, During(kind)) >> \in Script
         /\ << PutOperation(o, kind, e, "succeeded"), PutState(e, "stopped") >> \in Script
         /\ Refused(o, kind, e) \in Script
<1>1. {During(kind), Reverted(kind), "stopped"} \subseteq EnvironmentStates
  BY DEF During, Reverted, EnvironmentStates
<1>2. PutState(e, During(kind)) \in WriteRecord /\ PutState(e, Reverted(kind)) \in WriteRecord
      /\ PutState(e, "stopped") \in WriteRecord
  BY <1>1, StateWrites
<1>3. \A s \in {"active", "succeeded", "failed"} :
        PutOperation(o, kind, e, s) \in WriteRecord
  BY OperationWrites DEF Kinds, Terminal
<1> QED BY <1>2, <1>3, Pairs DEF Refused

LEMMA TypeStart ==
  ASSUME TypeOK, NEW o \in Op, NEW e \in Env, Start(o, e) PROVE TypeOK'
<1> DEFINE begin == << PutOperation(o, "start", e, "active"), PutState(e, "starting") >>
           g == environments[e].gen
           intent == IF launches[e].by = None THEN << Spawning(e, g) >> ELSE <<>>
<1>1. begin \in Script /\ Refused(o, "start", e) \in Script
  BY Beginning DEF During
<1>2. g \in Op \cup {None}
  BY EnvironmentRecords
<1>3. begin \o << Register(o) >> \o intent \in Script
  BY <1>1, <1>2, OtherWrites, LaunchMarks, Singletons, Joined
<1>4. Scripted
  BY <1>1, <1>3, DispatchedWrites, Joined, ScriptRun DEF Start, Kinds
<1>5. requested' \in [Op -> Op \cup {None}]
  BY <1>2 DEF Start, TypeOK
<1> QED BY <1>4, <1>5, Framed DEF Start, TypeOK

LEMMA TypeStop ==
  ASSUME TypeOK, NEW o \in Op, NEW e \in Env, Stop(o, e) PROVE TypeOK'
<1> DEFINE begin == << PutOperation(o, "stop", e, "active"), PutState(e, "stopping") >>
           done == << PutOperation(o, "stop", e, "succeeded"), PutState(e, "stopped") >>
<1>1. begin \in Script /\ Refused(o, "stop", e) \in Script /\ done \in Script
  BY Beginning DEF During
<1>2. \A s \in {"stopping", "ended", "unverifiable"} : Marked(e, s) \in WriteRecord
  BY LaunchMarks
<1>3. << Marked(e, "unverifiable") >> \in Script /\ << Marked(e, "ended") >> \in Script
      /\ << Register(o) >> \in Script /\ << Register(o), Marked(e, "stopping") >> \in Script
  BY <1>2, OtherWrites, Singletons, Pairs
<1>4. /\ Dispatched(o, "stop", begin) \in Script
      /\ Dispatched(o, "stop", begin \o << Marked(e, "unverifiable") >>) \in Script
      /\ Dispatched(o, "stop", begin \o << Marked(e, "ended") >>) \in Script
      /\ Dispatched(o, "stop", begin \o << Register(o), Marked(e, "stopping") >>) \in Script
      /\ Dispatched(o, "stop", begin \o << Register(o) >>) \in Script
  BY <1>1, <1>3, DispatchedWrites, Joined DEF Kinds
<1>5. Scripted
  BY <1>1, <1>4, Joined, ScriptRun DEF Stop
<1> QED BY <1>5, QuietStep DEF Stop, Quiet

LEMMA TypeStartTask ==
  ASSUME TypeOK, NEW o \in Op,
         LaunchIntent(o) \/ Spawn(o) \/ Identify(o) \/ Ready(o) \/ StartFails(o)
  PROVE  TypeOK'
<1> DEFINE e == operations[o].env
<1>0. OfKind(o, {"start"}) /\ e \in Env /\ requested[o] \in Op \cup {None}
  <2>1. OfKind(o, {"start"})
    BY DEF LaunchIntent, Spawn, Identify, Ready, StartFails, Spawned, TaskOf
  <2> QED BY <2>1, TaskEnvironments DEF Kinds, TypeOK
<1>1. CASE LaunchIntent(o)
  <2>1. Scripted
    BY <1>0, <1>1, LaunchMarks, Singletons, ScriptRun DEF LaunchIntent
  <2> QED BY <1>1, <2>1, QuietStep DEF LaunchIntent, Quiet
<1>2. CASE Spawn(o)
  <2>1. processes' \subseteq Process
    BY <1>0, <1>2 DEF Spawn, Process, TypeOK
  <2>2. requested' \in [Op -> Op \cup {None}]
    BY <1>2 DEF Spawn, TypeOK
  <2>3. Scripted
    BY <1>2 DEF Spawn, Scripted, Script, TypeOK
  <2> QED BY <1>2, <2>1, <2>2, <2>3, Framed DEF Spawn, TypeOK
<1>3. CASE Identify(o)
  <2>1. Scripted
    BY <1>0, <1>3, LaunchRecords, LaunchWrites, Singletons, ScriptRun DEF Identify
  <2> QED BY <1>3, <2>1, QuietStep DEF Identify, Quiet
<1>4. CASE Ready(o)
  <2>1. << Marked(e, "running") >> \in Script /\ << PutState(e, "running") >> \in Script
    BY <1>0, LaunchMarks, StateWrites, Singletons DEF EnvironmentStates
  <2>2. Scripted
    BY <1>4, <2>1, Settled, Joined, ScriptRun DEF Ready, Terminal
  <2>3. controllers' \in [Op -> BOOLEAN] /\ watched' \subseteq Op
    BY <1>4, Finishes DEF Ready, TypeOK
  <2> QED BY <1>4, <2>2, <2>3, Framed DEF Ready, TypeOK
<1>5. CASE StartFails(o)
  <2>1. << Marked(e, "ended") >> \in Script /\ FailScript(o) \in Script
    BY <1>0, LaunchMarks, Singletons, FailedStartOrStop DEF OfKind
  <2>2. Scripted
    BY <1>5, <2>1, Singletons, Joined, ScriptRun DEF StartFails
  <2>3. controllers' \in [Op -> BOOLEAN]
        /\ requested' \in [Op -> Op \cup {None}] /\ aborted' \subseteq Op
    BY <1>5, Finishes DEF StartFails, TypeOK
  <2>4. processes' \subseteq Process /\ survivors' \subseteq Process
    BY <1>5 DEF StartFails, Killed, Outlived, TypeOK
  <2> QED BY <1>5, <2>2, <2>3, <2>4, FramedFiles DEF StartFails, TypeOK
<1> QED BY <1>1, <1>2, <1>3, <1>4, <1>5

LEMMA TypeStopTask ==
  ASSUME TypeOK, NEW o \in Op, StopReturns(o) \/ StopUnconfirmed(o) PROVE TypeOK'
<1> DEFINE e == operations[o].env
<1>0. OfKind(o, {"stop"}) /\ e \in Env
  <2>1. OfKind(o, {"stop"})
    BY DEF StopReturns, StopUnconfirmed, TaskOf
  <2> QED BY <2>1, TaskEnvironments DEF Kinds
<1>1. /\ << Marked(e, "ended") >> \in Script /\ << Marked(e, "unverifiable") >> \in Script
      /\ << PutState(e, "stopped") >> \in Script /\ FailScript(o) \in Script
      /\ Settle(o, "succeeded") \in Script
  BY <1>0, LaunchMarks, StateWrites, Singletons, FailedStartOrStop, Settled
     DEF OfKind, EnvironmentStates, Terminal
<1>2. Scripted
  BY <1>1, Joined, ScriptRun DEF StopReturns, StopUnconfirmed
<1>3. controllers' \in [Op -> BOOLEAN] /\ aborted' \subseteq Op
  BY Finishes DEF StopReturns, StopUnconfirmed, TypeOK
<1>4. processes' \subseteq Process /\ survivors' \subseteq Process
      /\ UNCHANGED << files, bounds >>
  BY DEF StopReturns, StopUnconfirmed, Killed, TypeOK, durable, files
<1> QED BY <1>2, <1>3, <1>4, FramedFiles DEF StopReturns, StopUnconfirmed, TypeOK

(***************************************************************************)
(* The steps of the process manager without a task.                        *)
(***************************************************************************)
LEMMA Enumerations ==
  ASSUME NEW S, IsFiniteSet(S), NEW f \in SetToSeqs(S)
  PROVE  /\ DOMAIN f = 1..Cardinality(S) /\ Cardinality(S) \in Nat
         /\ \A i \in DOMAIN f : f[i] \in S
  BY FS_CardinalityType DEF SetToSeqs

LEMMA Mapped ==
  ASSUME NEW n \in Nat, NEW f, f = [i \in 1..n |-> f[i]],
         \A i \in 1..n : f[i] \in WriteRecord
  PROVE  f \in Script
  BY DEF Script

LEMMA FailuresWrites ==
  ASSUME TypeOK, NEW S \in SUBSET {o \in Op : operations[o].status = "active"},
         NEW order \in SetToSeqs(S)
  PROVE  Failures(order) \in Script
<1>1. IsFiniteSet(S)
  BY FiniteAssumption, FS_Subset
<1>2. /\ DOMAIN order = 1..Cardinality(S) /\ Cardinality(S) \in Nat
      /\ \A i \in DOMAIN order : order[i] \in S
  BY <1>1, Enumerations
<1>3. \A i \in DOMAIN order : Ended(order[i], "failed") \in WriteRecord
  BY <1>2, OperationRecords, OperationWrites DEF Ended, Terminal
<1> QED BY <1>2, <1>3, Mapped DEF Failures

LEMMA TypeExitCallback ==
  ASSUME TypeOK, NEW o \in Op, NEW e \in Env, ExitCallback(o, e) PROVE TypeOK'
<1>1. PICK strays \in SetToSeqs(StrayStarts(e)) :
        Run(IF launches[e].state # "running" \/ launches[e].by # o THEN <<>> ELSE
             << Marked(e, "ended") >>
             \o (IF mode = "closing" THEN <<>> ELSE
                  (IF environments[e].state \in {"running", "starting"}
                     THEN << PutState(e, "stopped") >> ELSE <<>>)
                  \o Failures(strays)), None)
  BY DEF ExitCallback
<1>2. Failures(strays) \in Script
  BY FailuresWrites DEF StrayStarts, Pending
<1>3. << Marked(e, "ended") >> \in Script /\ << PutState(e, "stopped") >> \in Script
  BY LaunchMarks, StateWrites, Singletons DEF EnvironmentStates
<1>4. Scripted
  BY <1>1, <1>2, <1>3, Singletons, Joined, ScriptRun
<1>5. watched' \subseteq Op
  BY DEF ExitCallback, TypeOK
<1> QED BY <1>4, <1>5, Framed DEF ExitCallback, TypeOK

LEMMA TypeReconcileLaunch ==
  ASSUME TypeOK, NEW e \in Env, ReconcileLaunch(e) PROVE TypeOK'
<1>1. PICK resolution \in {"adopted", "stopped", "unverifiable"}, script \in
        { <<>>, << Marked(e, "unverifiable") >>, << Marked(e, "ended") >>,
          << Marked(e, "stopping"), Marked(e, "ended") >>,
          << Marked(e, "stopping"), Marked(e, "unverifiable") >> } :
        Resolve(e, resolution, script)
  BY DEF ReconcileLaunch
<1>2. script \in Script
  BY LaunchMarks, Singletons, Pairs
<1>3. Scripted
  BY <1>1, <1>2, ScriptRun DEF Resolve
<1>4. entries' \in [Env -> Resolutions]
  BY <1>1 DEF Resolve, Resolutions, TypeOK
<1>5. processes' \subseteq Process /\ survivors' \subseteq Process
  BY DEF ReconcileLaunch, Killed, TypeOK
<1> QED BY <1>3, <1>4, <1>5, FramedFiles DEF ReconcileLaunch, TypeOK

LEMMA TypeProcessesReconciled ==
  ASSUME TypeOK, ProcessesReconciled PROVE TypeOK'
<1> DEFINE stale == {e \in Env : /\ entries[e] # "none"
                                /\ environments[e].state # Reconciled(e)}
           pending == {o \in Op : Pending(o, {"start", "stop"})}
           Corrections(order) ==
             [i \in DOMAIN order |-> PutState(order[i], Reconciled(order[i]))]
<1>1. PICK states \in SetToSeqs(stale), interrupted \in SetToSeqs(pending) :
        Run(Corrections(states) \o Failures(interrupted), None)
  BY DEF ProcessesReconciled
<1>2. Failures(interrupted) \in Script
  BY FailuresWrites DEF Pending
<1>3. Corrections(states) \in Script
  <2>1. IsFiniteSet(stale)
    BY FiniteAssumption, FS_Subset
  <2>2. /\ DOMAIN states = 1..Cardinality(stale) /\ Cardinality(stale) \in Nat
        /\ \A i \in DOMAIN states : states[i] \in stale
    BY <2>1, Enumerations
  <2>3. \A i \in DOMAIN states :
          PutState(states[i], Reconciled(states[i])) \in WriteRecord
    BY <2>2, StateWrites DEF Reconciled, EnvironmentStates
  <2> QED BY <2>2, <2>3, Mapped
<1>4. Scripted
  BY <1>1, <1>2, <1>3, Joined, ScriptRun
<1>5. mode' \in Modes /\ switchJournalSeen' \in BOOLEAN
  BY DEF ProcessesReconciled, Modes
<1> QED BY <1>4, <1>5, Framed DEF ProcessesReconciled, TypeOK

(***************************************************************************)
(* Writes reach their stores, or are refused; the instance dies or closes. *)
(***************************************************************************)
LEMMA TypePersist == ASSUME TypeOK, Persist PROVE TypeOK'
<1> DEFINE w == Head(todo)
<1>1. w \in WriteRecord /\ todo' \in Script
  BY FirstAndRest DEF Persist, TypeOK, Script
<1>2. /\ w.store = "environments" => w.key \in Env /\ w.val \in EnvironmentRecord
      /\ w.store = "operations" => w.key \in Op /\ w.val \in OperationRecord
      /\ w.store = "journals" => w.key \in Op /\ w.val \in JournalRecord
      /\ w.store = "generations" => w.key \in Op /\ w.val \in GenerationStates
  BY <1>1 DEF WriteRecord
<1>3. /\ w.store = "plans" => w.key \in Plan /\ w.val \in Op
      /\ w.store = "ledger" => w.key \in Op /\ w.val \in LedgerRecord
      /\ w.store = "launches" => w.key \in Env /\ w.val \in LaunchRecord
      /\ w.store = "controllers" => w.key \in Op /\ w.val \in BOOLEAN
  BY <1>1 DEF WriteRecord
<1>4. /\ environments' \in [Env -> EnvironmentRecord]
      /\ operations' \in [Op -> OperationRecord]
      /\ journals' \in [Op -> JournalRecord]
      /\ generations' \in [Op -> GenerationStates]
  BY <1>2 DEF Persist, Stored, TypeOK
<1>5. /\ plans' \in [Plan -> Op \cup {None}]
      /\ ledger' \in [Op -> LedgerRecord]
      /\ launches' \in [Env -> LaunchRecord]
      /\ controllers' \in [Op -> BOOLEAN]
  BY <1>3 DEF Persist, Stored, TypeOK
<1>6. enclosing' \in Op \cup {None}
  BY <1>3 DEF Persist, TypeOK
<1>7. UNCHANGED << processes, survivors, mode, volatile, bounds >>
  BY DEF Persist
<1> QED BY <1>1, <1>4, <1>5, <1>6, <1>7 DEF TypeOK, Script, volatile, bounds

LEMMA TypeCrash == ASSUME TypeOK, Crash PROVE TypeOK'
<1>1. UNCHANGED << durable, processes, faults >>
  BY DEF Crash
<1>2. crashes' \in 0..MaxCrashes
  BY BoundsAssumption DEF Crash, TypeOK
<1> QED BY <1>1, <1>2, MemoryLost DEF Crash, TypeOK, Script, durable

LEMMA TypeWriteFails == ASSUME TypeOK, WriteFails PROVE TypeOK'
<1>1. UNCHANGED << durable, processes, mode, expected, watched, entries,
                   switchJournalSeen, crashes >> /\ enclosing' = None
  BY DEF WriteFails
<1>2. faults' \in 0..MaxWriteFaults
  BY BoundsAssumption DEF WriteFails, TypeOK
<1>3. CASE InTask
  <2> DEFINE o == enclosing
  <2>1. o \in Op
    BY <1>3 DEF InTask, TypeOK
  <2>2. Rescue(o) \in Script
    <3>1. journals[o].kind \in CoreTransactions => UndoScript(o, <<>>) \in Script
      BY <2>1, Undone, Singletons DEF OpenJournal, CoreTransactions
    <3>2. OfKind(o, {"start", "stop"}) => FailScript(o) \in Script
      BY <2>1, FailedStartOrStop
    <3> QED BY <2>1, <3>1, <3>2, RolledBack, Singletons DEF Rescue
  <2>3. Outcome \in Script
    BY FirstAndRest, Singletons DEF Outcome, WriteFails, TypeOK, Script
  <2>4. todo' \in Script
    BY <1>3, <2>2, <2>3, Joined DEF WriteFails
  <2>5. /\ controllers' \in [Op -> BOOLEAN] /\ aborted' \subseteq Op
        /\ requested' \in [Op -> Op \cup {None}]
    BY <1>3, <2>1, Finishes DEF WriteFails, TypeOK
  <2> QED BY <1>1, <1>2, <2>4, <2>5 DEF TypeOK, Script, durable
<1>4. CASE ~InTask
  <2>1. todo' \in Script /\ UNCHANGED << controllers, aborted, requested >>
    BY <1>4, Singletons DEF WriteFails
  <2> QED BY <1>1, <1>2, <2>1 DEF TypeOK, Script, durable
<1> QED BY <1>3, <1>4

LEMMA TypeFinishClose == ASSUME TypeOK, FinishClose PROVE TypeOK'
<1>1. \A e \in Env : [launches[e] EXCEPT !.state = "ended"] \in LaunchRecord
                     /\ launches[e] \in LaunchRecord
  BY LaunchRecords DEF TypeOK
<1>2. launches' \in [Env -> LaunchRecord]
  BY <1>1 DEF FinishClose
<1>3. processes' \subseteq Process /\ survivors' \subseteq Process
  BY DEF FinishClose, TypeOK
<1>4. UNCHANGED << environments, operations, journals, generations, plans, ledger,
                   bounds >>
  BY DEF FinishClose
<1> QED BY <1>2, <1>3, <1>4, MemoryLost DEF FinishClose, TypeOK, Script, bounds

LEMMA TypeModeStep ==
  ASSUME TypeOK, Boot \/ BeginClose \/ ChangesRecovered \/ CoreRecovered PROVE TypeOK'
<1>1. UNCHANGED << durable, processes, todo, enclosing, controllers, expected,
                   requested, watched, entries, switchJournalSeen, bounds >>
  BY DEF Boot, BeginClose, ChangesRecovered, CoreRecovered, volatile
<1>2. mode' \in Modes /\ aborted' \subseteq Op
  BY DEF Boot, BeginClose, ChangesRecovered, CoreRecovered, volatile, Modes, TypeOK,
         CoreTasks
<1>3. Scripted
  BY <1>1 DEF Scripted, Script, TypeOK
<1> QED BY <1>1, <1>2, <1>3, Framed DEF TypeOK

LEMMA TypeProcessDies == ASSUME TypeOK, NEW p, ProcessDies(p) PROVE TypeOK'
<1>1. processes' \subseteq Process /\ survivors' \subseteq Process /\ Scripted
  BY DEF ProcessDies, Scripted, Script, TypeOK
<1> QED BY <1>1, FramedFiles DEF ProcessDies, volatile, TypeOK

LEMMA TypeStutter == ASSUME TypeOK, UNCHANGED vars PROVE TypeOK'
  BY DEF TypeOK, vars, durable, volatile, bounds

LEMMA TypeStep == TypeOK /\ [Next]_vars => TypeOK'
<1> SUFFICES ASSUME TypeOK, [Next]_vars PROVE TypeOK'
  OBVIOUS
<1>1. CASE Requests
  BY <1>1, TypeRequestsCore, TypeApplyChange, TypeRestore, TypeStart, TypeStop DEF Requests
<1>2. CASE Cancels
  BY <1>2, TypeCancelOperation DEF Cancels
<1>3. CASE Surroundings
  BY <1>3, TypeCrash, TypeWriteFails, TypeProcessDies, TypeExitCallback, TypeModeStep
     DEF Surroundings
<1>4. CASE Boot \/ FinishClose \/ Persist
  BY <1>4, TypeModeStep, TypeFinishClose, TypePersist
<1>5. CASE RecoverySteps
  BY <1>5, TypeRecoverChanges, TypeModeStep, TypeReconcileLaunch, TypeProcessesReconciled,
     TypeRecoverCore, TypeRecoverCreating DEF RecoverySteps
<1>6. CASE \E o \in Op : TaskSteps(o)
  BY <1>6, TypeInstallReturns, TypeStageReturns, TypeStartTask, TypeStopTask DEF TaskSteps
<1>7. CASE UNCHANGED vars
  BY <1>7, TypeStutter
<1> QED BY <1>1, <1>2, <1>3, <1>4, <1>5, <1>6, <1>7 DEF Next

\* Every store, every pending write and every in-memory table holds records of
\* its type, for any number of environments, requests, plans, crashes and
\* refused writes.
THEOREM TypeCorrect == Spec => []TypeOK
  BY TypeInit, TypeStep, PTL DEF Spec


Waiting == ToSet(todo)
Built == CoreTransactions \cup {"apply"}
Serving == mode \in {"ready", "closing"}

(***************************************************************************)
(* Scripts as sets of writes, and their order.                             *)
(***************************************************************************)

\* What may follow a write in a script: a journal is removed last, a generation
\* is staged after its journal is there, an operation begins before it ends,
\* before the journal of the generation it builds and before its request is
\* answered, and it succeeds after its commit.
Before(v, w) ==
  /\ v.store = "journals" /\ v.val.kind = "none" => w.store = "ledger"
  /\ v.store = "generations" /\ v.val = "staged" =>
       ~(w.store = "journals" /\ w.key = v.key)
  /\ w.store = "operations" /\ w.val.status = "active" =>
       /\ ~(v.store = "operations" /\ v.val.status # "active" /\ v.key = w.key)
       /\ ~(v.store = "journals" /\ v.val.kind \in Built /\ v.key = w.key)
       /\ ~(v.store = "ledger" /\ v.val.state = "ok")
  /\ v.store = "operations" /\ v.val.status = "succeeded" /\ v.val.kind \in Built =>
       ~(w.store = "environments" /\ w.val.gen = v.key)

InOrder(s) == \A i, j \in 1..Len(s) : i < j => Before(s[i], s[j])

LEMMA FewWrites ==
  /\ ToSet(<<>>) = {}
  /\ \A a : ToSet(<< a >>) = {a}
  /\ \A a, b : ToSet(<< a, b >>) = {a, b}
  /\ \A a, b, c : ToSet(<< a, b, c >>) = {a, b, c}
<1>1. ToSet(<<>>) = {} /\ \A a : ToSet(<< a >>) = {a}
  BY DEF ToSet
<1>2. \A a, b : ToSet(<< a, b >>) = {a, b}
  BY DEF ToSet
<1>3. \A a, b, c : ToSet(<< a, b, c >>) = {a, b, c}
  BY DEF ToSet
<1> QED BY <1>1, <1>2, <1>3

LEMMA FourWrites == \A a, b, c, d : ToSet(<< a, b, c, d >>) = {a, b, c, d}
  BY DEF ToSet

LEMMA SixWrites ==
  \A a, b, c, d, e, f : ToSet(<< a, b, c, d, e, f >>) = {a, b, c, d, e, f}
  BY DEF ToSet

LEMMA JoinedWrites ==
  ASSUME NEW s \in Script, NEW t \in Script
  PROVE  ToSet(s \o t) = ToSet(s) \cup ToSet(t)
<1>1. ASSUME NEW i \in 1..Len(s \o t) PROVE (s \o t)[i] \in ToSet(s) \cup ToSet(t)
  <2>1. CASE i <= Len(s)
    <3>1. i \in 1..Len(s) /\ (s \o t)[i] = s[i]
      BY <2>1 DEF Script
    <3> QED BY <3>1 DEF ToSet, Script
  <2>2. CASE ~(i <= Len(s))
    <3>1. i - Len(s) \in 1..Len(t) /\ (s \o t)[i] = t[i - Len(s)]
      BY <2>2 DEF Script
    <3> QED BY <3>1 DEF ToSet, Script
  <2> QED BY <2>1, <2>2
<1>2. ASSUME NEW i \in 1..Len(s) PROVE s[i] \in ToSet(s \o t)
  <2>1. i \in 1..Len(s \o t) /\ (s \o t)[i] = s[i]
    BY DEF Script
  <2> QED BY <2>1 DEF ToSet, Script
<1>3. ASSUME NEW i \in 1..Len(t) PROVE t[i] \in ToSet(s \o t)
  <2>1. i + Len(s) \in 1..Len(s \o t) /\ (s \o t)[i + Len(s)] = t[i]
    BY DEF Script
  <2> QED BY <2>1 DEF ToSet, Script
<1>4. /\ ToSet(s \o t) = {(s \o t)[i] : i \in 1..Len(s \o t)}
      /\ ToSet(s) = {s[i] : i \in 1..Len(s)} /\ ToSet(t) = {t[i] : i \in 1..Len(t)}
  BY Joined DEF ToSet, Script
<1> QED BY <1>1, <1>2, <1>3, <1>4

LEMMA HeadAndRest ==
  ASSUME NEW s \in Script, s # <<>>
  PROVE  ToSet(s) = {Head(s)} \cup ToSet(Tail(s)) /\ Tail(s) \in Script
<1>0. Tail(s) \in Script
  BY FirstAndRest
<1>1. ASSUME NEW i \in 1..Len(s) PROVE s[i] \in {Head(s)} \cup ToSet(Tail(s))
  <2>1. CASE i = 1
    BY <2>1 DEF Script
  <2>2. CASE i # 1
    <3>1. i - 1 \in 1..Len(Tail(s)) /\ Tail(s)[i - 1] = s[i]
      BY <2>2 DEF Script
    <3> QED BY <3>1, <1>0 DEF ToSet, Script
  <2> QED BY <2>1, <2>2
<1>2. ASSUME NEW i \in 1..Len(Tail(s)) PROVE Tail(s)[i] \in ToSet(s)
  <2>1. i + 1 \in 1..Len(s) /\ s[i + 1] = Tail(s)[i]
    BY DEF Script
  <2> QED BY <2>1 DEF ToSet, Script
<1>3. Head(s) \in ToSet(s)
  <2>1. 1 \in 1..Len(s) /\ s[1] = Head(s)
    BY DEF Script
  <2> QED BY <2>1 DEF ToSet, Script
<1> QED BY <1>0, <1>1, <1>2, <1>3 DEF ToSet, Script

LEMMA FirstWrite ==
  ASSUME NEW s \in Script, NEW t \in Script, s # <<>>
  PROVE  s \o t # <<>> /\ Head(s \o t) = Head(s)
  BY DEF Script

LEMMA ShortOrder ==
  InOrder(<<>>) /\ (\A a : InOrder(<< a >>))
  /\ \A a, b : Before(a, b) => InOrder(<< a, b >>)
  BY DEF InOrder

LEMMA TailOrder ==
  ASSUME NEW s \in Script, s # <<>>, InOrder(s)
  PROVE  InOrder(Tail(s)) /\ \A w \in ToSet(Tail(s)) : Before(Head(s), w)
  BY DEF InOrder, Script, ToSet

LEMMA JoinedOrder ==
  ASSUME NEW s \in Script, NEW t \in Script, InOrder(s), InOrder(t),
         \A v \in ToSet(s), w \in ToSet(t) : Before(v, w)
  PROVE  InOrder(s \o t)
  BY DEF InOrder, Script, ToSet

(***************************************************************************)
(* What a store holds now or soon.                                         *)
(***************************************************************************)

\* The operation of o has kind k and environment e.
Belongs(o, k, e) ==
  \/ operations[o].kind = k /\ operations[o].env = e
  \/ \E w \in Waiting : /\ w.store = "operations" /\ w.key = o
                        /\ w.val.kind = k /\ w.val.env = e
\* The journal of o is open, for an operation of kind k on environment e.
Keeps(o, k, e) ==
  \/ journals[o].kind = k /\ journals[o].env = e
  \/ \E w \in Waiting : /\ w.store = "journals" /\ w.key = o
                        /\ w.val.kind = k /\ w.val.env = e
Names(o, k, g) ==
  \/ journals[o].kind = k /\ journals[o].gen = g
  \/ \E w \in Waiting : /\ w.store = "journals" /\ w.key = o
                        /\ w.val.kind = k /\ w.val.gen = g
Claims(o, k, e) == Belongs(o, k, e) \/ Keeps(o, k, e)
PointsTo(e, g) ==
  \/ environments[e].gen = g
  \/ \E w \in Waiting : w.store = "environments" /\ w.key = e /\ w.val.gen = g
Builds(g, s) == \E w \in Waiting : w.store = "generations" /\ w.key = g /\ w.val = s
Live(o) == controllers[o] \/ \E w \in Waiting : w.store = "controllers" /\ w.key = o
Closes(o) == \E w \in Waiting : w.store = "journals" /\ w.key = o /\ w.val.kind = "none"

(***************************************************************************)
(* The inductive invariant of the stores.                                  *)
(***************************************************************************)

\* A request is about one environment and of one kind, in its operation, in
\* its journal and where a pointer names its generation.
OneHome ==
  \A o \in Op, k, l \in Kinds, e, f \in Env :
    /\ Claims(o, k, e) /\ Claims(o, l, f) => k = l /\ e = f
    /\ PointsTo(e, o) /\ Claims(o, k, f) => e = f
    /\ PointsTo(e, o) /\ PointsTo(f, o) => e = f

\* A journal that builds a generation builds its own.
OwnGeneration == \A o, g \in Op, k \in Built : Names(o, k, g) => g = o

OneJournal ==
  \A o, q \in Op, k, l \in Kinds, e \in Env : Keeps(o, k, e) /\ Keeps(q, l, e) => o = q

\* Only what the ledger knows has left a trace: of a request about to begin,
\* the ledger record is the next write.
Begins(o) == todo # <<>> /\ Head(todo).store = "ledger" /\ Head(todo).key = o
Blank(o) ==
  /\ generations[o] = "absent" /\ ~controllers[o]
  /\ operations[o].kind \notin Kinds /\ journals[o].kind \notin Kinds
  /\ \A e \in Env : environments[e].gen # o
Unmentioned(o) ==
  /\ ~Live(o)
  /\ \A e \in Env : ~PointsTo(e, o) /\ \A k \in Kinds : ~Claims(o, k, e)
  /\ \A s \in GenerationStates : ~Builds(o, s)
Fresh ==
  \A o \in Op : ledger[o].state = "none" => Blank(o) /\ (Begins(o) \/ Unmentioned(o))
LedgerStays == \A w \in Waiting : w.store = "ledger" => w.val.state # "none"

\* A pointer is written only after the generation, and no generation that a
\* pointer names, or that a task may still give up, is removed or recorded.
RecordsFirst(g) == todo # <<>> /\ Head(todo) = PutGeneration(g, "recorded")
PointsToRecorded ==
  \A g \in Op, e \in Env :
    PointsTo(e, g) => generations[g] = "recorded" \/ RecordsFirst(g)
NotUnrecorded ==
  \A g \in Op, e \in Env : Builds(g, "staged") \/ Builds(g, "absent") => ~PointsTo(e, g)
LiveNotRecorded ==
  \A o \in Op : Live(o) => generations[o] # "recorded" /\ ~Builds(o, "recorded")

\* A journal has a live task or is being closed; recovery has none.
JournalIsLive ==
  Serving => \A o \in Op, k \in Kinds, e \in Env : Keeps(o, k, e) => Live(o) \/ Closes(o)
NoChangeJournal ==
  mode \in {"recoverProcesses", "recoverCore"} =>
    \A o \in Op : journals[o].kind \notin ChangeTransactions
NobodyLive ==
  ~Serving => /\ \A o \in Op : ~Live(o)
              /\ \A w \in Waiting : w.store = "journals" => w.val.kind = "none"

\* Nothing is about an environment that does not exist; a creation writes it
\* before anything else.
Arrives(e) ==
  /\ todo # <<>>
  /\ \/ Head(todo).store = "environments" /\ Head(todo).key = e
     \/ /\ Head(todo).store = "ledger" /\ Tail(todo) # <<>>
        /\ Head(Tail(todo)).store = "environments" /\ Head(Tail(todo)).key = e
Unused(e) ==
  /\ environments[e].gen = None
  /\ \A o \in Op : /\ operations[o].env # e
                   /\ journals[o].kind \in Kinds => journals[o].env # e
Present ==
  \A e \in Env : environments[e].state = "absent" =>
    /\ Unused(e)
    /\ Arrives(e) \/ \A o \in Op : ~PointsTo(e, o) /\ \A k \in Kinds : ~Claims(o, k, e)
StaysPresent == \A w \in Waiting : w.store = "environments" => w.val.state # "absent"
LaunchedIsPresent ==
  \A e \in Env : environments[e].state = "absent" =>
    /\ launches[e] = NoLaunch /\ entries[e] = "none"
    /\ \A w \in Waiting : w.store = "launches" => w.key # e

\* While an environment is being created nothing else is about it.
CreatedAlone ==
  \A o, q \in Op, k \in Kinds, e \in Env :
    Keeps(o, "create", e) /\ (Claims(q, k, e) \/ PointsTo(e, q)) => q = o

\* A half-built generation has a journal, which is closed after its removal.
BuiltByTransaction ==
  \A o \in Op, k \in Kinds, e \in Env :
    (generations[o] # "absent" \/ \E s \in GenerationStates : Builds(o, s))
      /\ Claims(o, k, e) => k \in Built
StagedHasJournal ==
  \A o \in Op :
    /\ generations[o] = "staged" => journals[o].kind \in Built
    /\ Builds(o, "staged") => \E k \in Built, e \in Env : Keeps(o, k, e)
StagedIsRemoved ==
  \A o \in Op : Closes(o) /\ generations[o] = "staged" =>
    Builds(o, "absent") \/ Builds(o, "recorded")

StoresInv ==
  /\ OneHome /\ OwnGeneration /\ OneJournal
  /\ Fresh /\ LedgerStays
  /\ PointerIntact /\ PointsToRecorded /\ NotUnrecorded /\ LiveNotRecorded
  /\ JournalIsLive /\ NoChangeJournal /\ NobodyLive
  /\ Present /\ StaysPresent /\ LaunchedIsPresent /\ CreatedAlone
  /\ BuiltByTransaction /\ StagedHasJournal /\ StagedIsRemoved
  /\ InOrder(todo)

(***************************************************************************)
(* Writes reach their stores.                                              *)
(***************************************************************************)
LEMMA WriteFields ==
  ASSUME NEW w \in WriteRecord
  PROVE  /\ w.store = "environments" => w.key \in Env /\ w.val \in EnvironmentRecord
         /\ w.store = "operations" => w.key \in Op /\ w.val \in OperationRecord
         /\ w.store = "journals" => w.key \in Op /\ w.val \in JournalRecord
         /\ w.store = "generations" => w.key \in Op /\ w.val \in GenerationStates
         /\ w.store = "ledger" => w.key \in Op /\ w.val \in LedgerRecord
         /\ w.store = "controllers" => w.key \in Op /\ w.val = TRUE
  BY DEF WriteRecord

LEMMA WaitingTyped == ASSUME TypeOK PROVE Waiting \subseteq WriteRecord
  BY DEF TypeOK, Waiting, ToSet

\* The next write w reaches its store and the others go on waiting.
Lands(w) ==
  /\ w \in WriteRecord
  /\ w \in Waiting /\ \A v \in Waiting : v = w \/ v \in Waiting'
  /\ \A v \in Waiting' : v \in Waiting /\ v \in WriteRecord /\ Before(w, v)
  /\ \A e \in Env :
       /\ environments'[e] = IF w.store = "environments" /\ w.key = e
                               THEN w.val ELSE environments[e]
       /\ launches'[e] = IF w.store = "launches" /\ w.key = e THEN w.val ELSE launches[e]
  /\ \A o \in Op :
       /\ operations'[o] = IF w.store = "operations" /\ w.key = o
                             THEN w.val ELSE operations[o]
       /\ journals'[o] = IF w.store = "journals" /\ w.key = o
                           THEN w.val ELSE journals[o]
       /\ generations'[o] = IF w.store = "generations" /\ w.key = o
                              THEN w.val ELSE generations[o]
       /\ ledger'[o] = IF w.store = "ledger" /\ w.key = o THEN w.val ELSE ledger[o]
       /\ controllers'[o] = IF w.store = "controllers" /\ w.key = o
                              THEN TRUE ELSE controllers[o]
  /\ UNCHANGED << mode, entries >>

LEMMA Landing ==
  ASSUME TypeOK, InOrder(todo), Persist PROVE Lands(Head(todo))
<1> DEFINE w == Head(todo)
<1>0. todo # <<>> /\ todo \in Script /\ todo' = Tail(todo) /\ w \in WriteRecord
  BY FirstAndRest DEF Persist, TypeOK, Script
<1>1. Waiting = {w} \cup Waiting' /\ todo' \in Script
  BY <1>0, HeadAndRest DEF Waiting
<1>2. \A v \in Waiting' : Before(w, v)
  BY <1>0, TailOrder DEF Waiting
<1>3. Waiting' \subseteq WriteRecord
  BY <1>1, WaitingTyped
<1>4. \A e \in Env :
        /\ environments'[e] = IF w.store = "environments" /\ w.key = e
                                THEN w.val ELSE environments[e]
        /\ launches'[e] = IF w.store = "launches" /\ w.key = e THEN w.val ELSE launches[e]
  BY DEF Persist, Stored, TypeOK
<1>5. \A o \in Op :
       /\ operations'[o] = IF w.store = "operations" /\ w.key = o
                             THEN w.val ELSE operations[o]
       /\ journals'[o] = IF w.store = "journals" /\ w.key = o
                           THEN w.val ELSE journals[o]
       /\ generations'[o] = IF w.store = "generations" /\ w.key = o
                              THEN w.val ELSE generations[o]
  BY DEF Persist, Stored, TypeOK
<1>6. \A o \in Op :
       /\ ledger'[o] = IF w.store = "ledger" /\ w.key = o THEN w.val ELSE ledger[o]
       /\ controllers'[o] = IF w.store = "controllers" /\ w.key = o
                              THEN TRUE ELSE controllers[o]
  BY <1>0, WriteFields DEF Persist, Stored, TypeOK
<1> QED BY <1>0, <1>1, <1>2, <1>3, <1>4, <1>5, <1>6 DEF Lands, Persist, volatile

\* Persisting a write makes no claim that was not made before.
LEMMA Shrinks ==
  ASSUME NEW w, Lands(w)
  PROVE  /\ \A o \in Op, k \in Kinds, e \in Env :
              /\ Belongs(o, k, e)' => Belongs(o, k, e)
              /\ Keeps(o, k, e)' => Keeps(o, k, e)
              /\ Claims(o, k, e)' => Claims(o, k, e)
         /\ \A o, g \in Op, k \in Kinds : Names(o, k, g)' => Names(o, k, g)
         /\ \A g \in Op, e \in Env : PointsTo(e, g)' => PointsTo(e, g)
         /\ \A g \in Op, s \in GenerationStates : Builds(g, s)' => Builds(g, s)
         /\ \A o \in Op : (Live(o)' <=> Live(o)) /\ (Closes(o)' => Closes(o))
<1>0. w \in Waiting /\ \A v \in Waiting' : v \in Waiting
  BY DEF Lands
<1>1. ASSUME NEW o \in Op, NEW k \in Kinds, NEW e \in Env
      PROVE  (Belongs(o, k, e)' => Belongs(o, k, e)) /\ (Keeps(o, k, e)' => Keeps(o, k, e))
  <2>1. CASE w.store = "operations" /\ w.key = o
    <3>1. operations'[o] = w.val /\ journals'[o] = journals[o]
      BY <2>1 DEF Lands
    <3> QED BY <1>0, <2>1, <3>1 DEF Belongs, Keeps
  <2>2. CASE w.store = "journals" /\ w.key = o
    <3>1. operations'[o] = operations[o] /\ journals'[o] = w.val
      BY <2>2 DEF Lands
    <3> QED BY <1>0, <2>2, <3>1 DEF Belongs, Keeps
  <2>3. CASE ~(w.store \in {"operations", "journals"} /\ w.key = o)
    <3>1. operations'[o] = operations[o] /\ journals'[o] = journals[o]
      BY <2>3 DEF Lands
    <3> QED BY <1>0, <3>1 DEF Belongs, Keeps
  <2> QED BY <2>1, <2>2, <2>3
<1>2. ASSUME NEW o \in Op, NEW g \in Op, NEW k \in Kinds, Names(o, k, g)'
      PROVE  Names(o, k, g)
  <2>1. CASE w.store = "journals" /\ w.key = o
    <3>1. journals'[o] = w.val
      BY <2>1 DEF Lands
    <3> QED BY <1>0, <1>2, <2>1, <3>1 DEF Names
  <2>2. CASE ~(w.store = "journals" /\ w.key = o)
    <3>1. journals'[o] = journals[o]
      BY <2>2 DEF Lands
    <3> QED BY <1>0, <1>2, <3>1 DEF Names
  <2> QED BY <2>1, <2>2
<1>3. \A g \in Op, e \in Env : PointsTo(e, g)' => PointsTo(e, g)
  BY DEF Lands, PointsTo
<1>4. \A g \in Op, s \in GenerationStates : Builds(g, s)' => Builds(g, s)
  BY DEF Lands, Builds
<1>5. \A o \in Op : (Live(o)' <=> Live(o)) /\ (Closes(o)' => Closes(o))
  BY DEF Lands, Live, Closes
<1> QED BY <1>1, <1>2, <1>3, <1>4, <1>5 DEF Claims

\* What a write that lands does to the record it is about.
LEMMA Effect ==
  ASSUME NEW w, Lands(w), NEW o \in Op
  PROVE  /\ operations'[o] # operations[o] =>
              w.store = "operations" /\ w.key = o /\ operations'[o] = w.val
         /\ journals'[o] # journals[o] =>
              w.store = "journals" /\ w.key = o /\ journals'[o] = w.val
         /\ generations'[o] # generations[o] =>
              /\ w.store = "generations" /\ w.key = o /\ generations'[o] = w.val
              /\ w.val \in GenerationStates /\ Builds(o, w.val)
         /\ ledger'[o] # ledger[o] =>
              w.store = "ledger" /\ w.key = o /\ ledger'[o] = w.val
         /\ controllers'[o] # controllers[o] =>
              w.store = "controllers" /\ w.key = o /\ Live(o)
         /\ mode' = mode /\ w \in Waiting /\ \A v \in Waiting' : v \in Waiting
<1>1. w.store = "generations" => w.val \in GenerationStates
  BY WriteFields DEF Lands
<1>2. w \in Waiting /\ (\A v \in Waiting' : v \in Waiting) /\ mode' = mode
  BY DEF Lands
<1>3. /\ operations'[o] # operations[o] =>
           w.store = "operations" /\ w.key = o /\ operations'[o] = w.val
      /\ journals'[o] # journals[o] =>
           w.store = "journals" /\ w.key = o /\ journals'[o] = w.val
      /\ ledger'[o] # ledger[o] =>
           w.store = "ledger" /\ w.key = o /\ ledger'[o] = w.val
  BY DEF Lands
<1>4. generations'[o] # generations[o] =>
        /\ w.store = "generations" /\ w.key = o /\ generations'[o] = w.val
        /\ w.val \in GenerationStates /\ Builds(o, w.val)
  BY <1>1, <1>2 DEF Lands, Builds
<1>5. controllers'[o] # controllers[o] =>
        w.store = "controllers" /\ w.key = o /\ Live(o)
  BY <1>2 DEF Lands, Live
<1> QED BY <1>2, <1>3, <1>4, <1>5

LEMMA PersistHomes ==
  ASSUME StoresInv, NEW w, Lands(w)
  PROVE  OneHome' /\ OwnGeneration' /\ OneJournal' /\ CreatedAlone'
<1>1. OneHome'
  BY Shrinks DEF StoresInv, OneHome
<1>2. OwnGeneration'
  BY Shrinks DEF StoresInv, OwnGeneration, Built, Kinds, CoreTransactions
<1>3. OneJournal'
  BY Shrinks DEF StoresInv, OneJournal
<1>4. CreatedAlone'
  BY Shrinks DEF StoresInv, CreatedAlone, Kinds
<1> QED BY <1>1, <1>2, <1>3, <1>4

LEMMA PersistFresh ==
  ASSUME TypeOK, StoresInv, Persist, Lands(Head(todo)) PROVE Fresh' /\ LedgerStays'
<1> DEFINE w == Head(todo)
<1>0. w \in Waiting /\ \A v \in Waiting' : v \in Waiting
  BY DEF Lands
<1>1. LedgerStays'
  BY <1>0 DEF StoresInv, LedgerStays
<1>2. ASSUME NEW o \in Op, ledger'[o].state = "none"
      PROVE  Blank(o)' /\ Unmentioned(o)'
  <2>1. ~(w.store = "ledger" /\ w.key = o)
    <3>1. w.store = "ledger" /\ w.key = o => ledger'[o] = w.val
      BY DEF Lands
    <3> QED BY <1>0, <1>2, <3>1 DEF StoresInv, LedgerStays
  <2>2. ledger[o].state = "none" /\ ~Begins(o)
    BY <1>2, <2>1, Effect DEF Begins
  <2>3. Blank(o) /\ Unmentioned(o)
    BY <2>2 DEF StoresInv, Fresh
  <2>4. Unmentioned(o)'
    BY <2>3, Shrinks DEF Unmentioned
  <2>5. generations'[o] = "absent" /\ ~controllers'[o]
    BY <2>3, Effect DEF Blank, Unmentioned
  <2>6. \A e \in Env : environments'[e].gen # o
    BY <2>4 DEF Unmentioned, PointsTo
  <2>7. operations'[o].kind \notin Kinds
    <3>1. operations'[o] \in OperationRecord
      BY TypePersist DEF TypeOK
    <3>2. operations'[o].kind \in Kinds => operations'[o].env \in Env
      BY <3>1 DEF OperationRecord, NoOperation, Kinds
    <3> QED BY <2>4, <3>2 DEF Unmentioned, Claims, Belongs
  <2>8. journals'[o].kind \notin Kinds
    <3>1. journals'[o] \in JournalRecord
      BY TypePersist DEF TypeOK
    <3>2. journals'[o].kind \in Kinds => journals'[o].env \in Env
      BY <3>1 DEF JournalRecord, NoJournal, Kinds
    <3> QED BY <2>4, <3>2 DEF Unmentioned, Claims, Keeps
  <2> QED BY <2>4, <2>5, <2>6, <2>7, <2>8 DEF Blank
<1> QED BY <1>1, <1>2 DEF Fresh

LEMMA PersistPointers ==
  ASSUME TypeOK, StoresInv, Persist, Lands(Head(todo))
  PROVE  PointerIntact' /\ PointsToRecorded' /\ NotUnrecorded' /\ LiveNotRecorded'
<1> DEFINE w == Head(todo)
<1>0. w \in Waiting /\ todo # <<>>
  BY DEF Lands, Persist
<1>1. NotUnrecorded'
  BY Shrinks DEF StoresInv, NotUnrecorded, GenerationStates
<1>2. LiveNotRecorded'
  BY Shrinks, Effect DEF StoresInv, LiveNotRecorded, GenerationStates
<1>3. ASSUME NEW g \in Op, NEW e \in Env, PointsTo(e, g)'
      PROVE  generations'[g] = "recorded"
  <2>1. PointsTo(e, g)
    BY <1>3, Shrinks
  <2>2. generations'[g] # generations[g] => generations'[g] = "recorded"
    BY <2>1, Effect DEF StoresInv, NotUnrecorded, GenerationStates
  <2>3. RecordsFirst(g) => generations'[g] = "recorded"
    <3>1. ASSUME RecordsFirst(g)
          PROVE  w.store = "generations" /\ w.key = g /\ w.val = "recorded"
      BY <3>1 DEF RecordsFirst, PutGeneration, Write
    <3> QED BY <3>1 DEF Lands
  <2> QED BY <2>1, <2>2, <2>3 DEF StoresInv, PointsToRecorded
<1>4. PointsToRecorded'
  BY <1>3 DEF PointsToRecorded
<1>5. PointerIntact'
  <2>1. \A e \in Env : environments'[e].gen \in Op \cup {None}
    BY TypePersist DEF TypeOK, EnvironmentRecord
  <2> QED BY <1>3, <2>1 DEF PointerIntact, PointsTo
<1> QED BY <1>1, <1>2, <1>4, <1>5

LEMMA PersistJournals ==
  ASSUME TypeOK, StoresInv, NEW w, Lands(w)
  PROVE  JournalIsLive' /\ NoChangeJournal' /\ NobodyLive'
<1>0. w \in Waiting /\ (\A v \in Waiting' : v \in Waiting) /\ mode' = mode
  BY DEF Lands
<1>1. JournalIsLive'
  <2> SUFFICES ASSUME Serving, NEW o \in Op, NEW k \in Kinds, NEW e \in Env,
                      Keeps(o, k, e)'
               PROVE  Live(o)' \/ Closes(o)'
    BY <1>0 DEF JournalIsLive, Serving
  <2>1. Live(o)' \/ Closes(o)
    BY Shrinks DEF StoresInv, JournalIsLive
  <2>2. ASSUME Closes(o), ~Closes(o)' PROVE FALSE
    <3>1. w.store = "journals" /\ w.key = o /\ w.val.kind = "none"
      BY <2>2 DEF Closes, Lands
    <3>2. journals'[o].kind = "none"
      BY <3>1 DEF Lands
    <3>3. \A v \in Waiting' : v.store = "ledger"
      BY <3>1 DEF Lands, Before
    <3> QED BY <3>2, <3>3 DEF Keeps, Kinds
  <2> QED BY <2>1, <2>2
<1>2. NobodyLive'
  BY <1>0, Shrinks DEF StoresInv, NobodyLive, Serving
<1>3. NoChangeJournal'
  BY <1>0, Effect
     DEF StoresInv, NoChangeJournal, NobodyLive, Serving, ChangeTransactions
<1> QED BY <1>1, <1>2, <1>3

LEMMA PersistPresent ==
  ASSUME TypeOK, StoresInv, Persist, Lands(Head(todo))
  PROVE  Present' /\ StaysPresent' /\ LaunchedIsPresent'
<1> DEFINE w == Head(todo)
<1>0. w \in Waiting /\ (\A v \in Waiting' : v \in Waiting)
  BY DEF Lands
<1>1. StaysPresent'
  BY <1>0 DEF StoresInv, StaysPresent
<1>2. ASSUME NEW e \in Env, environments'[e].state = "absent"
      PROVE  /\ Unused(e)'
             /\ Arrives(e)' \/ \A o \in Op : /\ ~PointsTo(e, o)'
                                            /\ \A k \in Kinds : ~Claims(o, k, e)'
  <2>1. ~(w.store = "environments" /\ w.key = e) /\ environments'[e] = environments[e]
    BY <1>0, <1>2 DEF Lands, StoresInv, StaysPresent
  <2>2. /\ Unused(e)
        /\ Arrives(e) \/ \A o \in Op : /\ ~PointsTo(e, o)
                                      /\ \A k \in Kinds : ~Claims(o, k, e)
    BY <1>2, <2>1 DEF StoresInv, Present
  <2>3. Arrives(e) => w.store = "ledger" /\ Arrives(e)'
    BY <2>1 DEF Arrives, Persist
  <2>4. ASSUME NEW o \in Op
        PROVE  operations'[o].env # e /\ (journals'[o].kind \in Kinds => journals'[o].env # e)
    <3>1. CASE w.store = "ledger"
      BY <2>2, <3>1, Effect DEF Unused
    <3>2. CASE ~Arrives(e)
      <4>1. operations'[o] \in OperationRecord
        BY TypePersist DEF TypeOK
      <4>2. operations'[o].env = e => operations'[o].kind \in Kinds
        BY <4>1, NoneAssumption DEF OperationRecord, NoOperation
      <4>3. \A k \in Kinds : ~Belongs(o, k, e)' /\ ~Keeps(o, k, e)'
        BY <2>2, <3>2, Shrinks DEF Claims
      <4> QED BY <4>2, <4>3 DEF Belongs, Keeps
    <3> QED BY <2>3, <3>1, <3>2
  <2>5. Unused(e)'
    BY <2>1, <2>2, <2>4 DEF Unused
  <2> QED BY <2>2, <2>3, <2>5, Shrinks
<1>3. LaunchedIsPresent'
  BY <1>0 DEF Lands, LaunchedIsPresent, StoresInv, StaysPresent
<1> QED BY <1>1, <1>2, <1>3 DEF Present

LEMMA PersistStaged ==
  ASSUME TypeOK, StoresInv, NEW w, Lands(w)
  PROVE  BuiltByTransaction' /\ StagedHasJournal' /\ StagedIsRemoved'
<1>0. w \in Waiting /\ (\A v \in Waiting : v = w \/ v \in Waiting')
      /\ \A v \in Waiting' : Before(w, v)
  BY DEF Lands
<1>1. BuiltByTransaction'
  BY Shrinks, Effect DEF StoresInv, BuiltByTransaction
<1>2. ASSUME NEW o \in Op, generations'[o] = "staged"
      PROVE  journals'[o].kind \in Built /\ (Closes(o)' =>
               Builds(o, "absent")' \/ Builds(o, "recorded")')
  <2>1. CASE generations[o] = "staged"
    <3>1. journals[o].kind \in Built
      BY <2>1 DEF StoresInv, StagedHasJournal
    <3>2. ~(w.store = "generations" /\ w.key = o /\ w.val # "staged")
      BY <1>2 DEF Lands
    <3>3. \A s \in {"absent", "recorded"} : Builds(o, s) => Builds(o, s)'
      BY <1>0, <3>2 DEF Builds
    <3>4. Closes(o) => Builds(o, "absent")' \/ Builds(o, "recorded")'
      BY <2>1, <3>3 DEF StoresInv, StagedIsRemoved
    <3>5. ASSUME w.store = "journals", w.key = o PROVE w.val.kind \in Built
      <4>1. w.val.kind # "none"
        <5> SUFFICES ASSUME w.val.kind = "none" PROVE FALSE
          OBVIOUS
        <5>1. Closes(o)
          BY <1>0, <3>5 DEF Closes
        <5>2. \A v \in Waiting' : v.store = "ledger"
          BY <1>0, <3>5 DEF Before
        <5> QED BY <3>4, <5>1, <5>2 DEF Builds
      <4>2. w.val \in JournalRecord /\ journals[o] \in JournalRecord
        BY <3>5, WriteFields DEF Lands, TypeOK
      <4>3. w.val.kind \in Kinds /\ w.val.env \in Env
            /\ journals[o].kind \in Kinds /\ journals[o].env \in Env
        BY <3>1, <4>1, <4>2 DEF JournalRecord, NoJournal, Kinds, CoreTransactions, Built
      <4>4. Claims(o, w.val.kind, w.val.env) /\ Claims(o, journals[o].kind, journals[o].env)
        BY <1>0, <3>5, <4>3 DEF Claims, Keeps
      <4> QED BY <3>1, <4>3, <4>4 DEF StoresInv, OneHome
    <3> QED BY <3>1, <3>4, <3>5, Shrinks, Effect
  <2>2. CASE generations[o] # "staged"
    <3>1. w.store = "generations" /\ w.key = o /\ w.val = "staged" /\ Builds(o, "staged")
      BY <1>2, <2>2, Effect
    <3>2. \A v \in Waiting' : ~(v.store = "journals" /\ v.key = o)
      BY <1>0, <3>1 DEF Before
    <3>3. ~Closes(o)'
      BY <3>2 DEF Closes
    <3>4. PICK k \in Built, e \in Env : Keeps(o, k, e)
      BY <3>1 DEF StoresInv, StagedHasJournal
    <3>5. journals'[o].kind = k
      BY <1>0, <3>1, <3>2, <3>4, Effect DEF Keeps
    <3> QED BY <3>3, <3>4, <3>5
  <2> QED BY <2>1, <2>2
<1>3. ASSUME NEW o \in Op, Builds(o, "staged")'
      PROVE  \E k \in Built, e \in Env : Keeps(o, k, e)'
  <2>1. Builds(o, "staged")
    BY <1>3, Shrinks DEF GenerationStates
  <2>2. PICK k \in Built, e \in Env : Keeps(o, k, e)
    BY <2>1 DEF StoresInv, StagedHasJournal
  <2>3. CASE w.store = "journals" /\ w.key = o
    <3>1. w.val.kind # "none"
      <4>1. w.val.kind = "none" => \A v \in Waiting' : v.store = "ledger"
        BY <1>0, <2>3 DEF Before
      <4> QED BY <1>3, <4>1 DEF Builds
    <3>2. w.val \in JournalRecord
      BY <2>3, WriteFields DEF Lands
    <3>3. w.val.kind \in Kinds /\ w.val.env \in Env
      BY <3>1, <3>2 DEF JournalRecord, NoJournal, Kinds, CoreTransactions
    <3>4. Keeps(o, w.val.kind, w.val.env)
      BY <1>0, <2>3 DEF Keeps
    <3>5. w.val.kind = k /\ w.val.env = e
      BY <2>2, <3>3, <3>4 DEF StoresInv, OneHome, Claims, Built, Kinds, CoreTransactions
    <3>6. journals'[o] = w.val
      BY <2>3 DEF Lands
    <3> QED BY <3>5, <3>6 DEF Keeps
  <2>4. CASE ~(w.store = "journals" /\ w.key = o)
    <3>1. journals'[o] = journals[o]
      BY <2>4, Effect
    <3> QED BY <1>0, <2>2, <2>4, <3>1 DEF Keeps
  <2> QED BY <2>3, <2>4
<1> QED BY <1>1, <1>2, <1>3 DEF StagedHasJournal, StagedIsRemoved

LEMMA StoresPersist == ASSUME TypeOK, StoresInv, Persist PROVE StoresInv'
<1>1. Lands(Head(todo))
  BY Landing DEF StoresInv
<1>2. InOrder(todo)'
  BY TailOrder DEF Persist, StoresInv, TypeOK, Script
<1> QED BY <1>1, <1>2, PersistHomes, PersistFresh, PersistPointers, PersistJournals,
           PersistPresent, PersistStaged DEF StoresInv

(***************************************************************************)
(* The instance dies or closes, and steps that change no store.            *)
(***************************************************************************)
Stores == << environments, operations, journals, generations, plans, ledger >>

LEMMA NothingWaits == todo = <<>> => Waiting = {}
  BY FewWrites DEF Waiting

LEMMA StoresLost ==
  ASSUME TypeOK, StoresInv, UNCHANGED Stores, LoseMemory,
         \A e \in Env : launches[e] = NoLaunch => launches'[e] = NoLaunch
  PROVE  StoresInv'
<1>0. /\ mode' = "down" /\ todo' = <<>> /\ Waiting' = {}
      /\ \A o \in Op : ~controllers'[o]
  BY FewWrites DEF LoseMemory, Run, Waiting
<1>1. UNCHANGED << environments, operations, journals, generations, ledger >>
  BY DEF Stores
<1>2. /\ \A o \in Op, k \in Kinds, e \in Env :
           /\ (Keeps(o, k, e)' => Keeps(o, k, e))
           /\ (Claims(o, k, e)' => Claims(o, k, e))
      /\ \A o, g \in Op, k \in Kinds : Names(o, k, g)' => Names(o, k, g)
      /\ \A g \in Op, e \in Env : PointsTo(e, g)' => environments[e].gen = g
      /\ \A o \in Op : /\ ~Live(o)' /\ ~Closes(o)'
                       /\ \A s \in GenerationStates : ~Builds(o, s)'
  BY <1>0, <1>1 DEF Keeps, Belongs, Claims, Names, PointsTo, Builds, Live, Closes
<1>3. \A g \in Op, e \in Env : PointsTo(e, g)' => PointsTo(e, g) /\ generations[g] = "recorded"
  BY <1>2, NoneAssumption DEF PointsTo, StoresInv, PointerIntact
<1>4. OneHome' /\ OneJournal' /\ CreatedAlone'
  BY <1>2, <1>3 DEF StoresInv, OneHome, OneJournal, CreatedAlone, Kinds
<1>5. OwnGeneration'
  BY <1>2 DEF StoresInv, OwnGeneration, Built, Kinds, CoreTransactions
<1>6. LedgerStays' /\ StaysPresent' /\ LaunchedIsPresent'
  BY <1>0, <1>1
     DEF LedgerStays, StaysPresent, LaunchedIsPresent, StoresInv, LoseMemory
<1>7. Fresh'
  <2> SUFFICES ASSUME NEW o \in Op, ledger[o].state = "none"
               PROVE  Blank(o)' /\ Unmentioned(o)'
    BY <1>1 DEF Fresh
  <2>1. Blank(o)
    BY DEF StoresInv, Fresh
  <2>2. Blank(o)'
    BY <1>0, <1>1, <2>1 DEF Blank
  <2>3. Unmentioned(o)'
    BY <1>0, <1>1, <1>2, <2>1 DEF Unmentioned, Blank, Claims, Belongs, Keeps, PointsTo
  <2> QED BY <2>2, <2>3
<1>8. PointerIntact' /\ PointsToRecorded' /\ NotUnrecorded' /\ LiveNotRecorded'
  BY <1>1, <1>2, <1>3
     DEF StoresInv, PointerIntact, PointsToRecorded, NotUnrecorded, LiveNotRecorded,
         GenerationStates
<1>9. JournalIsLive' /\ NoChangeJournal' /\ NobodyLive'
  BY <1>0, <1>2 DEF JournalIsLive, NoChangeJournal, NobodyLive, Serving
<1>10. Present'
  <2> SUFFICES ASSUME NEW e \in Env, environments[e].state = "absent"
               PROVE  Unused(e)' /\ \A o \in Op : /\ ~PointsTo(e, o)'
                                                /\ \A k \in Kinds : ~Claims(o, k, e)'
    BY <1>1 DEF Present
  <2>1. Unused(e)
    BY DEF StoresInv, Present
  <2>2. Unused(e)'
    BY <1>1, <2>1 DEF Unused
  <2>3. \A o \in Op : ~PointsTo(e, o)' /\ \A k \in Kinds : ~Claims(o, k, e)'
    BY <1>0, <1>1, <2>1, NoneAssumption DEF Unused, PointsTo, Claims, Belongs, Keeps
  <2> QED BY <2>2, <2>3
<1>11. BuiltByTransaction' /\ StagedHasJournal' /\ StagedIsRemoved'
  BY <1>1, <1>2 DEF StoresInv, BuiltByTransaction, StagedHasJournal, StagedIsRemoved,
                    GenerationStates
<1>12. InOrder(todo)'
  BY <1>0, ShortOrder
<1> QED BY <1>4, <1>5, <1>6, <1>7, <1>8, <1>9, <1>10, <1>11, <1>12 DEF StoresInv

\* Nothing the invariant speaks of changes, but for the mode.
Unmoved == UNCHANGED << Stores, launches, entries, todo, controllers >>

LEMMA UnmovedClaims ==
  ASSUME Unmoved
  PROVE  /\ UNCHANGED << environments, operations, journals, generations, ledger,
                         launches, entries, todo, controllers >>
         /\ Waiting' = Waiting
  BY DEF Unmoved, Stores, Waiting

LEMMA StoresUnmoved ==
  ASSUME StoresInv, Unmoved,
         JournalIsLive', NoChangeJournal', NobodyLive'
  PROVE  StoresInv'
<1>0. UNCHANGED << environments, operations, journals, generations, ledger, launches,
                   entries, todo, controllers >> /\ Waiting' = Waiting
  BY UnmovedClaims
<1>1. OneHome' /\ OwnGeneration' /\ OneJournal' /\ CreatedAlone'
  BY <1>0 DEF StoresInv, OneHome, OwnGeneration, OneJournal, CreatedAlone, Claims,
              Belongs, Keeps, Names, PointsTo
<1>2. Fresh' /\ LedgerStays' /\ Present' /\ StaysPresent' /\ LaunchedIsPresent'
  BY <1>0 DEF LaunchedIsPresent, StoresInv, Fresh, LedgerStays, Blank, Unmentioned, Begins, Live, Claims,
              Belongs, Keeps, PointsTo, Builds, Present, StaysPresent, Unused, Arrives
<1>3. PointerIntact' /\ PointsToRecorded' /\ NotUnrecorded' /\ LiveNotRecorded'
  BY <1>0 DEF StoresInv, PointerIntact, PointsToRecorded, NotUnrecorded, LiveNotRecorded,
              PointsTo, RecordsFirst, Builds, Live
<1>4. BuiltByTransaction' /\ StagedHasJournal' /\ StagedIsRemoved'
  BY <1>0 DEF StoresInv, BuiltByTransaction, StagedHasJournal, StagedIsRemoved, Claims,
              Belongs, Keeps, Builds, Closes
<1> QED BY <1>0, <1>1, <1>2, <1>3, <1>4 DEF StoresInv

LEMMA StoresModeStep ==
  ASSUME TypeOK, StoresInv,
         Boot \/ BeginClose \/ ChangesRecovered \/ CoreRecovered
         \/ (\E o \in Op : Spawn(o)) \/ (\E p \in Alive : ProcessDies(p))
         \/ UNCHANGED vars
  PROVE  StoresInv'
<1>0. Unmoved
  BY DEF Unmoved, Stores, Boot, BeginClose, ChangesRecovered, CoreRecovered, Spawn,
         ProcessDies, durable, files, volatile, vars
<1>1. UNCHANGED << journals, controllers >> /\ Waiting' = Waiting
  BY <1>0, UnmovedClaims
<1>2. /\ \A o \in Op, k \in Kinds, e \in Env : Keeps(o, k, e)' <=> Keeps(o, k, e)
      /\ \A o \in Op : (Live(o)' <=> Live(o)) /\ (Closes(o)' <=> Closes(o))
  BY <1>1 DEF Keeps, Live, Closes
<1>3. CASE mode' = mode
  <2>1. JournalIsLive' /\ NoChangeJournal' /\ NobodyLive'
    BY <1>1, <1>2, <1>3
       DEF StoresInv, JournalIsLive, NoChangeJournal, NobodyLive, Serving
  <2> QED BY <1>0, <2>1, StoresUnmoved
<1>4. CASE Boot
  <2>1. JournalIsLive' /\ NoChangeJournal' /\ NobodyLive'
    BY <1>1, <1>2, <1>4
       DEF Boot, StoresInv, JournalIsLive, NoChangeJournal, NobodyLive, Serving
  <2> QED BY <1>0, <2>1, StoresUnmoved
<1>5. CASE BeginClose
  <2>1. JournalIsLive' /\ NoChangeJournal' /\ NobodyLive'
    BY <1>1, <1>2, <1>5
       DEF BeginClose, Idle, StoresInv, JournalIsLive, NoChangeJournal, NobodyLive, Serving
  <2> QED BY <1>0, <2>1, StoresUnmoved
<1>6. CASE ChangesRecovered
  <2>1. JournalIsLive' /\ NoChangeJournal' /\ NobodyLive'
    BY <1>1, <1>2, <1>6
       DEF ChangesRecovered, ChangeJournals, StoresInv, JournalIsLive, NoChangeJournal,
           NobodyLive, Serving
  <2> QED BY <1>0, <2>1, StoresUnmoved
<1>7. CASE CoreRecovered
  <2>1. mode = "recoverCore" /\ mode' = "ready" /\ CoreJournals = {} /\ Waiting = {}
    BY <1>7, NothingWaits DEF CoreRecovered, Recovering
  <2>2. \A o \in Op, k \in Kinds, e \in Env : ~Keeps(o, k, e)
    BY <2>1 DEF CoreJournals, StoresInv, NoChangeJournal, Keeps, CoreTransactions,
                ChangeTransactions, TypeOK, JournalRecord, NoJournal, Kinds
  <2>3. JournalIsLive' /\ NoChangeJournal' /\ NobodyLive'
    BY <1>2, <2>1, <2>2 DEF JournalIsLive, NoChangeJournal, NobodyLive, Serving
  <2> QED BY <1>0, <2>3, StoresUnmoved
<1>8. CASE UNCHANGED vars
  <2>1. mode' = mode
    BY <1>8 DEF vars
  <2> QED BY <2>1, <1>3
<1>9. CASE (\E o \in Op : Spawn(o)) \/ \E p \in Alive : ProcessDies(p)
  <2>1. mode' = mode
    BY <1>9 DEF Spawn, ProcessDies
  <2> QED BY <2>1, <1>3
<1> QED BY <1>4, <1>5, <1>6, <1>7, <1>8, <1>9

(***************************************************************************)
(* Steps that go on with transactions that have begun.                     *)
(***************************************************************************)

\* The task of o has ended and is about to move the pointer of e.
Commits(o, e) ==
  /\ o \in Op /\ controllers[o] /\ ~controllers'[o]
  /\ journals[o].kind \in Built /\ journals[o].env = e
  /\ RecordsFirst(o)'

Continues(w) ==
  /\ w.store # "controllers"
  /\ w.store = "ledger" => w.val.state # "none"
  /\ w.store = "launches" => environments[w.key].state # "absent"
  /\ w.store = "operations" => /\ operations[w.key].kind \in Kinds
                               /\ w.val.kind = operations[w.key].kind
                               /\ w.val.env = operations[w.key].env
  /\ w.store = "environments" =>
       /\ environments[w.key].state # "absent" /\ w.val.state # "absent"
       /\ w.val.gen \in {None, environments[w.key].gen} \/ Commits(w.val.gen, w.key)
  /\ w.store = "journals" =>
       \/ w.val.kind = "none"
       \/ /\ controllers[w.key] /\ journals[w.key].kind \in Built
          /\ w.val.kind = journals[w.key].kind /\ w.val.env = journals[w.key].env
          /\ w.val.gen = journals[w.key].gen
  /\ w.store = "generations" =>
       /\ journals[w.key].kind \in Built
       /\ \/ w.val = "absent" /\ \A e \in Env : ~PointsTo(e, w.key)'
          \/ w.val = "recorded" /\ controllers[w.key] /\ ~controllers'[w.key]

\* A task that ends closes its journal, once its generation is settled.
Settles(o) ==
  /\ controllers[o] /\ ~controllers'[o] /\ OpenJournal(o) => Closes(o)'
  /\ Closes(o)' /\ generations[o] = "staged" =>
       Builds(o, "absent")' \/ Builds(o, "recorded")'

Proceeds ==
  /\ todo = <<>> /\ UNCHANGED << Stores, launches >>
  /\ \A e \in Env : entries'[e] # entries[e] => launches[e] # NoLaunch
  /\ todo' \in Script /\ InOrder(todo')
  /\ mode' = mode \/ (mode = "recoverProcesses" /\ mode' = "recoverCore")
  /\ \A o \in Op : (controllers'[o] => controllers[o]) /\ Settles(o)
  /\ \A w \in Waiting' : Continues(w)

LEMMA ProceedsTyped ==
  ASSUME Proceeds
  PROVE  /\ Waiting = {} /\ UNCHANGED << environments, operations, journals, generations,
                                         ledger >>
         /\ Waiting' \subseteq WriteRecord
         /\ \A w \in Waiting' :
              /\ w.store \in {"operations", "journals", "generations"} => w.key \in Op
              /\ w.store = "environments" => w.key \in Env
<1>1. Waiting = {} /\ UNCHANGED << environments, operations, journals, generations, ledger >>
  BY NothingWaits DEF Proceeds, Stores
<1>2. Waiting' \subseteq WriteRecord
  BY DEF Proceeds, Script, Waiting, ToSet
<1> QED BY <1>1, <1>2, WriteFields

\* Such a step claims nothing new, except the pointer of a commit.
LEMMA ProceedsClaims ==
  ASSUME TypeOK, StoresInv, Proceeds
  PROVE  /\ \A o \in Op, k \in Kinds, e \in Env :
              /\ Keeps(o, k, e)' => Keeps(o, k, e)
              /\ Claims(o, k, e)' => Claims(o, k, e)
         /\ \A o, g \in Op, k \in Kinds : Names(o, k, g)' => Names(o, k, g)
         /\ \A g \in Op, e \in Env : PointsTo(e, g)' =>
              \/ PointsTo(e, g) /\ generations[g] = "recorded"
              \/ Commits(g, e) /\ Claims(g, journals[g].kind, e)
                 /\ Keeps(g, journals[g].kind, e) /\ \A f \in Env : ~PointsTo(f, g)
         /\ \A o \in Op : /\ Live(o)' => Live(o)
                          /\ ~Builds(o, "staged")'
                          /\ Live(o) <=> controllers[o]
                          /\ Builds(o, "recorded")' => controllers[o] /\ ~Live(o)'
<1>0. /\ Waiting = {} /\ UNCHANGED << environments, operations, journals, generations,
                                      ledger >>
      /\ \A w \in Waiting' : Continues(w)
      /\ \A o \in Op : controllers'[o] => controllers[o]
  BY ProceedsTyped DEF Proceeds
<1>1. ASSUME NEW o \in Op, NEW k \in Kinds, NEW e \in Env
      PROVE  (Keeps(o, k, e)' => Keeps(o, k, e)) /\ (Claims(o, k, e)' => Claims(o, k, e))
  <2>1. Keeps(o, k, e)' => Keeps(o, k, e)
    BY <1>0 DEF Keeps, Continues, Kinds
  <2>2. Belongs(o, k, e)' => Belongs(o, k, e)
    BY <1>0 DEF Belongs, Continues
  <2> QED BY <2>1, <2>2 DEF Claims
<1>2. \A o, g \in Op, k \in Kinds : Names(o, k, g)' => Names(o, k, g)
  BY <1>0 DEF Names, Continues, Kinds
<1>3. \A o \in Op : Live(o) <=> controllers[o]
  BY <1>0 DEF Live
<1>4. \A o \in Op : controllers[o] => generations[o] # "recorded"
  BY <1>3 DEF StoresInv, LiveNotRecorded
<1>5. ASSUME NEW g \in Op, NEW e \in Env, PointsTo(e, g)'
      PROVE  \/ PointsTo(e, g) /\ generations[g] = "recorded"
             \/ Commits(g, e) /\ Claims(g, journals[g].kind, e)
                /\ Keeps(g, journals[g].kind, e) /\ \A f \in Env : ~PointsTo(f, g)
  <2>1. \A f \in Env : PointsTo(f, g) => environments[f].gen = g /\ generations[g] = "recorded"
    BY <1>0, NoneAssumption DEF PointsTo, StoresInv, PointerIntact
  <2>2. environments[e].gen = g \/ Commits(g, e)
    BY <1>0, <1>5, NoneAssumption DEF PointsTo, Continues
  <2>3. CASE environments[e].gen = g
    BY <2>1, <2>3 DEF PointsTo
  <2>4. CASE Commits(g, e)
    BY <1>4, <2>1, <2>4 DEF Commits, Claims, Keeps
  <2> QED BY <2>2, <2>3, <2>4
<1>6. ASSUME NEW o \in Op
      PROVE  /\ Live(o)' => Live(o)
             /\ ~Builds(o, "staged")'
             /\ Builds(o, "recorded")' => controllers[o] /\ ~Live(o)'
  <2>1. Live(o)' => controllers'[o]
    BY <1>0 DEF Live, Continues
  <2>2. ~Builds(o, "staged")' /\ (Builds(o, "recorded")' => controllers[o] /\ ~controllers'[o])
    BY <1>0 DEF Builds, Continues
  <2> QED BY <1>0, <2>1, <2>2 DEF Live
<1> QED BY <1>1, <1>2, <1>3, <1>5, <1>6

LEMMA ProceedsHomes ==
  ASSUME TypeOK, StoresInv, Proceeds
  PROVE  OneHome' /\ OwnGeneration' /\ OneJournal' /\ CreatedAlone'
<1>0. \A g \in Op : journals[g].kind \in Built => journals[g].kind \in Kinds
  BY DEF Built, CoreTransactions, Kinds
<1>1. OneHome'
  <2>1. \A o \in Op, k, l \in Kinds, e, f \in Env :
          Claims(o, k, e)' /\ Claims(o, l, f)' => k = l /\ e = f
    BY ProceedsClaims DEF StoresInv, OneHome
  <2>2. ASSUME NEW o \in Op, NEW k \in Kinds, NEW e \in Env, NEW f \in Env,
               PointsTo(e, o)', Claims(o, k, f)'
        PROVE  e = f
    BY <1>0, <2>2, ProceedsClaims DEF StoresInv, OneHome, Commits
  <2>3. ASSUME NEW o \in Op, NEW e \in Env, NEW f \in Env, PointsTo(e, o)', PointsTo(f, o)'
        PROVE  e = f
    <3>1. "create" \in Kinds
      BY DEF Kinds
    <3> QED BY <2>3, <3>1, ProceedsClaims DEF StoresInv, OneHome, Commits
  <2> QED BY <2>1, <2>2, <2>3 DEF OneHome
<1>2. OwnGeneration'
  BY ProceedsClaims DEF StoresInv, OwnGeneration, Built, Kinds, CoreTransactions
<1>3. OneJournal'
  BY ProceedsClaims DEF StoresInv, OneJournal
<1>4. CreatedAlone'
  <2> SUFFICES ASSUME NEW o \in Op, NEW q \in Op, NEW k \in Kinds, NEW e \in Env,
                      Keeps(o, "create", e)', Claims(q, k, e)' \/ PointsTo(e, q)'
               PROVE  q = o
    BY DEF CreatedAlone
  <2>1. Keeps(o, "create", e)
    BY ProceedsClaims DEF Kinds
  <2>2. Claims(q, k, e) \/ PointsTo(e, q) \/ \E l \in Kinds : Claims(q, l, e)
    BY <1>0, ProceedsClaims DEF Commits
  <2> QED BY <2>1, <2>2 DEF StoresInv, CreatedAlone
<1> QED BY <1>1, <1>2, <1>3, <1>4

LEMMA ProceedsFresh ==
  ASSUME TypeOK, StoresInv, Proceeds PROVE Fresh' /\ LedgerStays'
<1>0. /\ UNCHANGED << environments, operations, journals, generations, ledger >>
      /\ \A w \in Waiting' : Continues(w)
  BY ProceedsTyped DEF Proceeds
<1>1. LedgerStays'
  BY <1>0 DEF LedgerStays, Continues
<1>2. ASSUME NEW o \in Op, ledger[o].state = "none" PROVE Blank(o)' /\ Unmentioned(o)'
  <2>1. Blank(o) /\ Waiting = {}
    BY <1>2, ProceedsTyped DEF StoresInv, Fresh
  <2>2. Blank(o)' /\ ~Live(o)'
    BY <1>0, <2>1, ProceedsClaims DEF Blank, Proceeds
  <2>3. \A s \in GenerationStates : ~Builds(o, s)'
    BY <1>0, <2>1 DEF Builds, Continues, Blank, Built, Kinds, CoreTransactions
  <2>4. \A e \in Env, k \in Kinds : ~Claims(o, k, e)'
    BY <2>1, ProceedsClaims DEF Blank, Claims, Belongs, Keeps
  <2>5. \A e \in Env : ~PointsTo(e, o)'
    BY <2>1, ProceedsClaims DEF Blank, PointsTo, Commits
  <2> QED BY <2>2, <2>3, <2>4, <2>5 DEF Unmentioned
<1> QED BY <1>0, <1>1, <1>2 DEF Fresh

LEMMA ProceedsPointers ==
  ASSUME TypeOK, StoresInv, Proceeds
  PROVE  PointerIntact' /\ PointsToRecorded' /\ NotUnrecorded' /\ LiveNotRecorded'
<1>0. /\ UNCHANGED << environments, operations, journals, generations, ledger >>
      /\ \A w \in Waiting' : Continues(w)
  BY ProceedsTyped DEF Proceeds
<1>1. PointerIntact'
  BY <1>0 DEF StoresInv, PointerIntact
<1>2. PointsToRecorded'
  BY <1>0, ProceedsClaims DEF PointsToRecorded, Commits
<1>3. NotUnrecorded'
  <2>1. \A g \in Op, e \in Env : Builds(g, "absent")' => ~PointsTo(e, g)'
    BY <1>0 DEF Builds, Continues
  <2> QED BY <2>1, ProceedsClaims DEF NotUnrecorded
<1>4. LiveNotRecorded'
  BY <1>0, ProceedsClaims DEF StoresInv, LiveNotRecorded
<1> QED BY <1>1, <1>2, <1>3, <1>4

LEMMA ProceedsJournals ==
  ASSUME TypeOK, StoresInv, Proceeds
  PROVE  JournalIsLive' /\ NoChangeJournal' /\ NobodyLive'
<1>0. /\ UNCHANGED << environments, operations, journals, generations, ledger >>
      /\ \A w \in Waiting' : Continues(w)
      /\ Waiting = {}
      /\ \A w \in Waiting' : w.store = "journals" => w.key \in Op
  BY ProceedsTyped DEF Proceeds
<1>1. JournalIsLive'
  <2> SUFFICES ASSUME Serving', NEW o \in Op, NEW k \in Kinds, NEW e \in Env,
                      Keeps(o, k, e)'
               PROVE  Live(o)' \/ Closes(o)'
    BY DEF JournalIsLive
  <2>1. Serving /\ Keeps(o, k, e)
    BY ProceedsClaims DEF Proceeds, Serving
  <2>2. Live(o) /\ OpenJournal(o)
    BY <1>0, <2>1 DEF StoresInv, JournalIsLive, Closes, Keeps, OpenJournal, Kinds
  <2>3. controllers'[o] \/ Closes(o)'
    BY <2>2, ProceedsClaims DEF Proceeds, Settles
  <2> QED BY <2>3 DEF Live
<1>2. NoChangeJournal'
  BY <1>0 DEF Proceeds, StoresInv, NoChangeJournal
<1>3. NobodyLive'
  <2> SUFFICES ASSUME ~Serving'
               PROVE  /\ \A o \in Op : ~Live(o)'
                      /\ \A w \in Waiting' : w.store = "journals" => w.val.kind = "none"
    BY DEF NobodyLive
  <2>1. \A o \in Op : ~Live(o)
    BY DEF Proceeds, Serving, StoresInv, NobodyLive
  <2> QED BY <1>0, <2>1, ProceedsClaims DEF Continues
<1> QED BY <1>1, <1>2, <1>3

LEMMA ProceedsPresent ==
  ASSUME TypeOK, StoresInv, Proceeds PROVE Present' /\ StaysPresent' /\ LaunchedIsPresent'
<1>0. /\ UNCHANGED << environments, operations, journals, generations, ledger >>
      /\ Waiting = {}
      /\ \A w \in Waiting' : Continues(w)
  BY ProceedsTyped DEF Proceeds
<1>1. StaysPresent'
  BY <1>0 DEF StaysPresent, Continues
<1>2. ASSUME NEW e \in Env, environments[e].state = "absent"
      PROVE  Unused(e)' /\ \A o \in Op : /\ ~PointsTo(e, o)'
                                       /\ \A k \in Kinds : ~Claims(o, k, e)'
  <2>1. Unused(e)
    BY <1>2 DEF StoresInv, Present
  <2>2. Unused(e)'
    BY <1>0, <2>1 DEF Unused
  <2>3. \A o \in Op : ~PointsTo(e, o)'
    BY <1>0, <1>2, <2>1, NoneAssumption DEF PointsTo, Unused, Continues
  <2>4. \A o \in Op, k \in Kinds : ~Claims(o, k, e)
    BY <1>0, <2>1 DEF Unused, Claims, Belongs, Keeps
  <2> QED BY <2>2, <2>3, <2>4, ProceedsClaims
<1>3. LaunchedIsPresent'
  BY <1>0 DEF Proceeds, Continues, StoresInv, LaunchedIsPresent
<1> QED BY <1>0, <1>1, <1>2, <1>3 DEF Present

LEMMA ProceedsStaged ==
  ASSUME TypeOK, StoresInv, Proceeds
  PROVE  BuiltByTransaction' /\ StagedHasJournal' /\ StagedIsRemoved'
<1>0. /\ UNCHANGED << environments, operations, journals, generations, ledger >>
      /\ \A w \in Waiting' : Continues(w)
  BY ProceedsTyped DEF Proceeds
<1>1. BuiltByTransaction'
  <2> SUFFICES ASSUME NEW o \in Op, NEW k \in Kinds, NEW e \in Env, Claims(o, k, e)',
                      generations'[o] # "absent" \/ \E s \in GenerationStates : Builds(o, s)'
               PROVE  k \in Built
    BY DEF BuiltByTransaction
  <2>1. Claims(o, k, e)
    BY ProceedsClaims
  <2>2. CASE generations[o] # "absent"
    BY <2>1, <2>2 DEF StoresInv, BuiltByTransaction
  <2>3. CASE \E s \in GenerationStates : Builds(o, s)'
    <3>1. journals[o].kind \in Built
      BY <1>0, <2>3 DEF Builds, Continues
    <3>2. journals[o].env \in Env
      BY <3>1, JournalRecords DEF Built, CoreTransactions
    <3>3. Claims(o, journals[o].kind, journals[o].env)
      BY DEF Claims, Keeps
    <3> QED BY <2>1, <3>1, <3>2, <3>3
            DEF StoresInv, OneHome, Built, CoreTransactions, Kinds
  <2> QED BY <1>0, <2>2, <2>3
<1>2. StagedHasJournal'
  BY <1>0, ProceedsClaims DEF StoresInv, StagedHasJournal
<1>3. StagedIsRemoved'
  BY <1>0 DEF Proceeds, Settles, StagedIsRemoved
<1> QED BY <1>1, <1>2, <1>3

LEMMA StoresProceed == ASSUME TypeOK, StoresInv, Proceeds PROVE StoresInv'
  BY ProceedsHomes, ProceedsFresh, ProceedsPointers, ProceedsJournals, ProceedsPresent,
     ProceedsStaged DEF StoresInv, Proceeds

(***************************************************************************)
(* Steps that begin a request.                                             *)
(***************************************************************************)

\* A write of a request o of kind k about environment e: what it says is about
\* o and e, and a pointer it moves goes to a retained generation.
Begun(o, k, e, w) ==
  /\ w.store = "ledger" => w.key = o /\ w.val.state # "none"
  /\ w.store = "controllers" => w.key = o
  /\ w.store = "launches" => environments[w.key].state # "absent"
  /\ w.store = "operations" => w.key = o /\ w.val.kind = k /\ w.val.env = e
  /\ w.store = "journals" =>
       /\ w.key = o
       /\ \/ w.val.kind = "none"
          \/ w.val.kind = k /\ w.val.env = e /\ (k \in Built => w.val.gen = o)
  /\ w.store = "environments" =>
       /\ w.key = e /\ w.val.state # "absent"
       /\ \/ w.val.gen \in {None, environments[e].gen}
          \/ generations[w.val.gen] = "recorded" /\ operations[w.val.gen].env = e
  /\ w.store = "generations" =>
       w.key = o /\ w.val = "staged" /\ k \in Built /\ Keeps(o, k, e)'

Starts(o, k, e) ==
  /\ Idle /\ UNCHANGED << Stores, launches, entries, controllers, mode >>
  /\ ledger[o].state = "none"
  /\ todo' \in Script /\ InOrder(todo') /\ Begins(o)'
  /\ \A w \in Waiting' : Begun(o, k, e, w)
  /\ environments[e].state = "absent" => Arrives(e)'
  /\ k = "create" => environments[e].state = "absent"
  /\ \A q \in Op : journals[q].kind = "create" => journals[q].env # e
  /\ Keeps(o, k, e)' =>
       /\ Live(o)' \/ Closes(o)'
       /\ \A q \in Op : journals[q].kind \in Kinds => journals[q].env # e

LEMMA StartsTyped ==
  ASSUME NEW o \in Op, NEW k \in Kinds, NEW e \in Env, Starts(o, k, e)
  PROVE  /\ Waiting = {} /\ UNCHANGED << environments, operations, journals, generations,
                                         ledger, controllers, mode >>
         /\ Waiting' \subseteq WriteRecord
         /\ \A w \in Waiting' : w.store = "environments" => w.val \in EnvironmentRecord
<1>1. Waiting = {} /\ UNCHANGED << environments, operations, journals, generations, ledger,
                                   controllers, mode >>
  BY NothingWaits DEF Starts, Stores, Idle
<1>2. Waiting' \subseteq WriteRecord
  BY DEF Starts, Script, Waiting, ToSet
<1> QED BY <1>1, <1>2, WriteFields

LEMMA StartsClaims ==
  ASSUME TypeOK, StoresInv, NEW o \in Op, NEW k \in Kinds, NEW e \in Env, Starts(o, k, e)
  PROVE  /\ \A q \in Op, l \in Kinds, f \in Env :
              /\ Keeps(q, l, f)' => Keeps(q, l, f) \/ (q = o /\ l = k /\ f = e)
              /\ Claims(q, l, f)' => Claims(q, l, f) \/ (q = o /\ l = k /\ f = e)
              /\ ~Claims(o, l, f)
         /\ \A q, g \in Op, l \in Kinds : Names(q, l, g)' =>
              Names(q, l, g) \/ (q = o /\ l = k /\ (k \in Built => g = o))
         /\ \A g \in Op, f \in Env : PointsTo(f, g)' =>
              /\ generations[g] = "recorded" /\ g # o
              /\ PointsTo(f, g) \/ (f = e /\ operations[g].kind \in Kinds
                                    /\ Claims(g, operations[g].kind, e))
         /\ \A q \in Op, s \in GenerationStates : Builds(q, s)' =>
              q = o /\ s = "staged" /\ k \in Built /\ Keeps(o, k, e)'
         /\ \A q \in Op : /\ Live(q) <=> controllers[q]
                          /\ Live(q)' => Live(q) \/ q = o
                          /\ Live(q) => Live(q)'
                          /\ Closes(q)' => q = o
<1>0. /\ Waiting = {} /\ UNCHANGED << environments, operations, journals, generations,
                                      ledger, controllers, mode >>
      /\ \A w \in Waiting' : Begun(o, k, e, w)
  BY StartsTyped DEF Starts
<1>1. Blank(o)
  BY DEF Starts, StoresInv, Fresh
<1>2. ASSUME NEW q \in Op, NEW l \in Kinds, NEW f \in Env
      PROVE  /\ Keeps(q, l, f)' => Keeps(q, l, f) \/ (q = o /\ l = k /\ f = e)
             /\ Claims(q, l, f)' => Claims(q, l, f) \/ (q = o /\ l = k /\ f = e)
             /\ ~Claims(o, l, f)
  <2>1. Keeps(q, l, f)' => Keeps(q, l, f) \/ (q = o /\ l = k /\ f = e)
    BY <1>0 DEF Keeps, Begun, Kinds
  <2>2. Belongs(q, l, f)' => Belongs(q, l, f) \/ (q = o /\ l = k /\ f = e)
    BY <1>0 DEF Belongs, Begun
  <2>3. ~Claims(o, l, f)
    BY <1>0, <1>1 DEF Blank, Claims, Belongs, Keeps
  <2> QED BY <2>1, <2>2, <2>3 DEF Claims
<1>3. \A q, g \in Op, l \in Kinds : Names(q, l, g)' =>
        Names(q, l, g) \/ (q = o /\ l = k /\ (k \in Built => g = o))
  BY <1>0 DEF Names, Begun, Kinds
<1>4. ASSUME NEW g \in Op, NEW f \in Env, PointsTo(f, g)'
      PROVE  /\ generations[g] = "recorded" /\ g # o
             /\ PointsTo(f, g) \/ (f = e /\ operations[g].kind \in Kinds
                                   /\ Claims(g, operations[g].kind, e))
  <2>1. CASE environments[f].gen = g
    <3>1. generations[g] = "recorded"
      BY <2>1, NoneAssumption DEF StoresInv, PointerIntact
    <3> QED BY <1>1, <2>1, <3>1 DEF PointsTo, Blank
  <2>2. CASE environments[f].gen # g
    <3>1. f = e /\ generations[g] = "recorded" /\ operations[g].env = e
      BY <1>0, <1>4, <2>2, NoneAssumption DEF PointsTo, Begun
    <3>2. operations[g].kind \in Kinds
      BY <3>1, NoneAssumption DEF TypeOK, OperationRecord, NoOperation
    <3> QED BY <1>1, <3>1, <3>2 DEF Claims, Belongs, Blank
  <2> QED BY <2>1, <2>2
<1>5. \A q \in Op, s \in GenerationStates : Builds(q, s)' =>
        q = o /\ s = "staged" /\ k \in Built /\ Keeps(o, k, e)'
  BY <1>0 DEF Builds, Begun
<1>6. \A q \in Op : /\ Live(q) <=> controllers[q]
                    /\ Live(q)' => Live(q) \/ q = o
                    /\ Live(q) => Live(q)'
                    /\ Closes(q)' => q = o
  BY <1>0 DEF Live, Closes, Begun
<1> QED BY <1>2, <1>3, <1>4, <1>5, <1>6

LEMMA StartsHomes ==
  ASSUME TypeOK, StoresInv, NEW o \in Op, NEW k \in Kinds, NEW e \in Env, Starts(o, k, e)
  PROVE  OneHome' /\ OwnGeneration' /\ OneJournal' /\ CreatedAlone'
<1>0. "create" \in Kinds /\ Waiting = {}
  BY StartsTyped DEF Kinds
<1>1. OneHome'
  <2>1. ASSUME NEW q \in Op, NEW l \in Kinds, NEW m \in Kinds, NEW f \in Env, NEW h \in Env,
               Claims(q, l, f)', Claims(q, m, h)'
        PROVE  l = m /\ f = h
    BY <2>1, StartsClaims DEF StoresInv, OneHome
  <2>2. ASSUME NEW q \in Op, NEW l \in Kinds, NEW f \in Env, NEW h \in Env,
               PointsTo(f, q)', Claims(q, l, h)'
        PROVE  f = h
    BY <2>2, StartsClaims DEF StoresInv, OneHome
  <2>3. ASSUME NEW q \in Op, NEW f \in Env, NEW h \in Env, PointsTo(f, q)', PointsTo(h, q)'
        PROVE  f = h
    BY <1>0, <2>3, StartsClaims DEF StoresInv, OneHome
  <2> QED BY <2>1, <2>2, <2>3 DEF OneHome
<1>2. OwnGeneration'
  BY StartsClaims DEF StoresInv, OwnGeneration, Built, Kinds, CoreTransactions
<1>3. OneJournal'
  <2> SUFFICES ASSUME NEW p \in Op, NEW q \in Op, NEW l \in Kinds, NEW m \in Kinds, NEW f \in Env,
                      Keeps(p, l, f)', Keeps(q, m, f)'
               PROVE  p = q
    BY DEF OneJournal
  <2>1. ASSUME NEW r \in Op, NEW n \in Kinds, Keeps(r, n, e), Keeps(o, k, e)' PROVE FALSE
    BY <1>0, <2>1 DEF Keeps, Starts
  <2> QED BY <2>1, StartsClaims DEF StoresInv, OneJournal
<1>4. CreatedAlone'
  <2> SUFFICES ASSUME NEW p \in Op, NEW q \in Op, NEW l \in Kinds, NEW f \in Env,
                      Keeps(p, "create", f)', Claims(q, l, f)' \/ PointsTo(f, q)'
               PROVE  q = p
    BY DEF CreatedAlone
  <2>1. CASE Keeps(p, "create", f)
    <3>1. f # e
      BY <1>0, <2>1 DEF Keeps, Starts
    <3> QED BY <2>1, <3>1, StartsClaims DEF StoresInv, CreatedAlone
  <2>2. CASE ~Keeps(p, "create", f)
    <3>1. p = o /\ f = e /\ k = "create"
      BY <1>0, <2>2, StartsClaims
    <3>2. Unused(e)
      BY <3>1 DEF Starts, StoresInv, Present
    <3>3. \A r \in Op, n \in Kinds : ~Claims(r, n, e) /\ ~PointsTo(e, r)
      BY <1>0, <3>2, NoneAssumption DEF Unused, Claims, Belongs, Keeps, PointsTo
    <3> QED BY <3>1, <3>3, StartsClaims
  <2> QED BY <2>1, <2>2
<1> QED BY <1>1, <1>2, <1>3, <1>4

LEMMA StartsFresh ==
  ASSUME TypeOK, StoresInv, NEW o \in Op, NEW k \in Kinds, NEW e \in Env, Starts(o, k, e)
  PROVE  Fresh' /\ LedgerStays'
<1>0. /\ UNCHANGED << environments, operations, journals, generations, ledger, controllers >>
      /\ \A w \in Waiting' : Begun(o, k, e, w)
      /\ Waiting = {}
  BY StartsTyped DEF Starts
<1>1. LedgerStays'
  BY <1>0 DEF LedgerStays, Begun
<1>2. ASSUME NEW q \in Op, ledger[q].state = "none"
      PROVE  Blank(q)' /\ (Begins(q)' \/ Unmentioned(q)')
  <2>1. Blank(q)
    BY <1>2 DEF StoresInv, Fresh
  <2>2. Blank(q)'
    BY <1>0, <2>1 DEF Blank
  <2>3. CASE q # o
    <3>1. \A f \in Env : ~PointsTo(f, q)'
      BY <2>1, StartsClaims DEF Blank
    <3>2. \A f \in Env, l \in Kinds : ~Claims(q, l, f)'
      BY <1>0, <2>1, <2>3, StartsClaims DEF Blank, Claims, Belongs, Keeps
    <3>3. ~Live(q)' /\ \A s \in GenerationStates : ~Builds(q, s)'
      BY <2>1, <2>3, StartsClaims DEF Blank
    <3> QED BY <2>2, <3>1, <3>2, <3>3 DEF Unmentioned
  <2> QED BY <2>2, <2>3 DEF Starts
<1> QED BY <1>0, <1>1, <1>2 DEF Fresh

LEMMA StartsPointers ==
  ASSUME TypeOK, StoresInv, NEW o \in Op, NEW k \in Kinds, NEW e \in Env, Starts(o, k, e)
  PROVE  PointerIntact' /\ PointsToRecorded' /\ NotUnrecorded' /\ LiveNotRecorded'
<1>0. UNCHANGED << environments, generations >>
  BY StartsTyped
<1>1. Blank(o)
  BY DEF Starts, StoresInv, Fresh
<1>2. PointerIntact' /\ PointsToRecorded'
  BY <1>0, StartsClaims DEF StoresInv, PointerIntact, PointsToRecorded
<1>3. NotUnrecorded'
  BY StartsClaims DEF NotUnrecorded, GenerationStates
<1>4. LiveNotRecorded'
  BY <1>0, <1>1, StartsClaims DEF StoresInv, LiveNotRecorded, GenerationStates, Blank
<1> QED BY <1>2, <1>3, <1>4

LEMMA StartsJournals ==
  ASSUME TypeOK, StoresInv, NEW o \in Op, NEW k \in Kinds, NEW e \in Env, Starts(o, k, e)
  PROVE  JournalIsLive' /\ NoChangeJournal' /\ NobodyLive'
<1>0. Waiting = {} /\ mode' = "ready" /\ mode = "ready"
  BY StartsTyped DEF Starts, Idle
<1>1. JournalIsLive'
  <2> SUFFICES ASSUME NEW q \in Op, NEW l \in Kinds, NEW f \in Env, Keeps(q, l, f)'
               PROVE  Live(q)' \/ Closes(q)'
    BY DEF JournalIsLive
  <2>1. CASE Keeps(q, l, f)
    <3>1. Live(q)
      BY <1>0, <2>1 DEF StoresInv, JournalIsLive, Serving, Closes
    <3> QED BY <3>1, StartsClaims
  <2>2. CASE q = o /\ l = k /\ f = e
    BY <2>2 DEF Starts
  <2> QED BY <2>1, <2>2, StartsClaims
<1> QED BY <1>0, <1>1 DEF NoChangeJournal, NobodyLive, Serving

LEMMA StartsPresent ==
  ASSUME TypeOK, StoresInv, NEW o \in Op, NEW k \in Kinds, NEW e \in Env, Starts(o, k, e)
  PROVE  Present' /\ StaysPresent' /\ LaunchedIsPresent'
<1>0. /\ UNCHANGED << environments, operations, journals, generations, ledger >>
      /\ Waiting = {}
      /\ \A w \in Waiting' : Begun(o, k, e, w)
  BY StartsTyped DEF Starts
<1>1. StaysPresent'
  BY <1>0 DEF StaysPresent, Begun
<1>2. ASSUME NEW f \in Env, environments[f].state = "absent"
      PROVE  /\ Unused(f)'
             /\ Arrives(f)' \/ \A q \in Op : /\ ~PointsTo(f, q)'
                                            /\ \A l \in Kinds : ~Claims(q, l, f)'
  <2>1. Unused(f)
    BY <1>2 DEF StoresInv, Present
  <2>2. Unused(f)'
    BY <1>0, <2>1 DEF Unused
  <2>3. \A q \in Op : ~PointsTo(f, q) /\ \A l \in Kinds : ~Claims(q, l, f)
    BY <1>0, <2>1, NoneAssumption DEF Unused, Claims, Belongs, Keeps, PointsTo
  <2>4. CASE f # e
    BY <2>2, <2>3, <2>4, StartsClaims
  <2>5. CASE f = e
    BY <1>2, <2>2, <2>5 DEF Starts
  <2> QED BY <2>4, <2>5
<1>3. LaunchedIsPresent'
  BY <1>0 DEF Starts, Begun, StoresInv, LaunchedIsPresent
<1> QED BY <1>0, <1>1, <1>2, <1>3 DEF Present

LEMMA StartsStaged ==
  ASSUME TypeOK, StoresInv, NEW o \in Op, NEW k \in Kinds, NEW e \in Env, Starts(o, k, e)
  PROVE  BuiltByTransaction' /\ StagedHasJournal' /\ StagedIsRemoved'
<1>0. UNCHANGED << journals, generations >>
  BY StartsTyped
<1>1. Blank(o)
  BY DEF Starts, StoresInv, Fresh
<1>2. BuiltByTransaction'
  BY <1>0, <1>1, StartsClaims DEF StoresInv, BuiltByTransaction, Blank
<1>3. StagedHasJournal'
  BY <1>0, StartsClaims DEF StoresInv, StagedHasJournal, GenerationStates
<1>4. StagedIsRemoved'
  BY <1>0, <1>1, StartsClaims DEF StagedIsRemoved, Blank
<1> QED BY <1>2, <1>3, <1>4

LEMMA StoresStart ==
  ASSUME TypeOK, StoresInv, NEW o \in Op, NEW k \in Kinds, NEW e \in Env, Starts(o, k, e)
  PROVE  StoresInv'
  BY StartsHomes, StartsFresh, StartsPointers, StartsJournals, StartsPresent, StartsStaged
     DEF StoresInv, Starts

(***************************************************************************)
(* The scripts of tasks and of recovery, as sets of writes and in order.   *)
(***************************************************************************)
Succeeds(w) ==
  w.store = "operations" /\ w.val.status = "succeeded" /\ w.val.kind \in Built
Plain(w) ==
  /\ w.store = "journals" => w.val.kind # "none"
  /\ w.store = "generations" => w.val # "staged"
  /\ w.store = "operations" => w.val.status # "active"

LEMMA PlainBefore ==
  ASSUME NEW v, NEW w, Plain(v), w.store = "operations" => w.val.status # "active",
         ~Succeeds(v) \/ w.store # "environments"
  PROVE  Before(v, w)
  BY DEF Plain, Succeeds, Before

LEMMA PlainOrder ==
  ASSUME NEW s \in Script, \A w \in ToSet(s) : Plain(w),
         (\A w \in ToSet(s) : ~Succeeds(w)) \/ \A w \in ToSet(s) : w.store # "environments"
  PROVE  InOrder(s)
<1> SUFFICES ASSUME NEW i \in 1..Len(s), NEW j \in 1..Len(s), i < j
             PROVE  Before(s[i], s[j])
  BY DEF InOrder
<1>1. s[i] \in ToSet(s) /\ s[j] \in ToSet(s)
  BY DEF ToSet, Script
<1> QED BY <1>1, PlainBefore DEF Plain

\* The commit comes before the operation succeeds.
LEMMA CommitOrder ==
  ASSUME NEW s \in Script, NEW t \in Script, \A w \in ToSet(s) \cup ToSet(t) : Plain(w),
         \A w \in ToSet(s) : ~Succeeds(w), \A w \in ToSet(t) : w.store # "environments"
  PROVE  InOrder(s \o t)
<1>1. InOrder(s) /\ InOrder(t)
  BY PlainOrder
<1>2. \A v \in ToSet(s), w \in ToSet(t) : Before(v, w)
  BY PlainBefore DEF Plain
<1> QED BY <1>1, <1>2, JoinedOrder

LEMMA ClosingOrder ==
  ASSUME TypeOK, NEW o \in Op, NEW s \in Script, InOrder(s), \A w \in ToSet(s) : Plain(w)
  PROVE  InOrder(s \o << PutJournal(o, NoJournal) >>)
<1>1. \A v \in ToSet(s) : Before(v, PutJournal(o, NoJournal))
  BY PlainBefore DEF PutJournal, Write
<1> QED BY <1>1, JournalClosed, JoinedOrder, ShortOrder, FewWrites

LEMMA EndedFields ==
  ASSUME TypeOK, NEW o \in Op, NEW s
  PROVE  /\ Ended(o, s).store = "operations" /\ Ended(o, s).key = o
         /\ Ended(o, s).val.kind = operations[o].kind
         /\ Ended(o, s).val.env = operations[o].env
         /\ Ended(o, s).val.status = s
<1> DEFINE r == operations[o]
           q == [r EXCEPT !.status = s]
<1>1. r \in [kind: Kinds, env: Env, status: Terminal \cup {"active"}] \/ r = NoOperation
  BY DEF TypeOK, OperationRecord
<1>2. CASE r \in [kind: Kinds, env: Env, status: Terminal \cup {"active"}]
  <2>1. q.kind = r.kind /\ q.env = r.env /\ q.status = s
    BY <1>2
  <2> QED BY <2>1 DEF Ended, Write
<1>3. CASE r = NoOperation
  <2>1. q.kind = r.kind /\ q.env = r.env /\ q.status = s
    BY <1>3 DEF NoOperation
  <2> QED BY <2>1 DEF Ended, Write
<1> QED BY <1>1, <1>2, <1>3

LEMMA SettleWrites ==
  ASSUME NEW o, NEW s
  PROVE  ToSet(Settle(o, s)) =
           IF operations[o].status = "active" THEN {Ended(o, s)} ELSE {}
  BY FewWrites DEF Settle

LEMMA RepairWrites ==
  ASSUME NEW o
  PROVE  ToSet(RepairLedger(o)) =
           IF ledger[o].state = "in-progress"
             THEN {PutLedger(o, ledger[o].method, "ok")} ELSE {}
  BY FewWrites DEF RepairLedger

\* Settling an operation and repairing its ledger record say nothing new.
LEMMA MildWrites ==
  ASSUME TypeOK, NEW o \in Op, NEW s \in Terminal
  PROVE  /\ \A w \in ToSet(Settle(o, s)) :
              Continues(w) /\ Plain(w) /\ w.store = "operations"
              /\ w.val.status = s /\ (s # "succeeded" => ~Succeeds(w))
         /\ \A w \in ToSet(RepairLedger(o)) :
              Continues(w) /\ Plain(w) /\ w.store = "ledger" /\ ~Succeeds(w)
<1>1. ASSUME operations[o].status = "active"
      PROVE  Continues(Ended(o, s)) /\ Plain(Ended(o, s))
             /\ (s # "succeeded" => ~Succeeds(Ended(o, s)))
  <2>1. operations[o].kind \in Kinds
    BY <1>1, OperationRecords
  <2> QED BY <2>1, EndedFields DEF Continues, Plain, Succeeds, Terminal
<1>2. LET w == PutLedger(o, ledger[o].method, "ok")
      IN  Continues(w) /\ Plain(w) /\ w.store = "ledger" /\ ~Succeeds(w)
  BY DEF PutLedger, Write, Continues, Plain, Succeeds
<1> QED BY <1>1, <1>2, SettleWrites, RepairWrites, EndedFields

LEMMA JournalFields ==
  ASSUME TypeOK, NEW o \in Op, journals[o].kind \in Built
  PROVE  /\ journals[o].env \in Env
         /\ LET w == PutJournal(o, [journals[o] EXCEPT !.phase = "committed"])
            IN  /\ w.store = "journals" /\ w.key = o /\ w.val.kind = journals[o].kind
                /\ w.val.env = journals[o].env /\ w.val.gen = journals[o].gen
                /\ w.val.plan = journals[o].plan /\ Plain(w) /\ ~Succeeds(w)
<1>1. journals[o].env \in Env
  BY JournalRecords DEF Built, CoreTransactions
<1>2. LET w == PutJournal(o, [journals[o] EXCEPT !.phase = "committed"])
      IN  /\ w.store = "journals" /\ w.key = o /\ w.val.kind = journals[o].kind
          /\ w.val.env = journals[o].env /\ w.val.gen = journals[o].gen
          /\ w.val.plan = journals[o].plan
  <2> DEFINE j == journals[o]
             c == [j EXCEPT !.phase = "committed"]
  <2>1. \/ j \in [kind: {"apply"}, env: Env, gen: Op, plan: Plan,
                  phase: {"open", "committed"}]
        \/ j \in [kind: CoreTransactions \cup {"restore"}, env: Env, gen: Op,
                  plan: {None}, phase: {"open", "committed"}]
    BY DEF TypeOK, JournalRecord, NoJournal, Built, CoreTransactions
  <2>2. c.kind = j.kind /\ c.env = j.env /\ c.gen = j.gen /\ c.plan = j.plan
    BY <2>1
  <2> QED BY <2>2 DEF PutJournal, Write
<1> QED BY <1>1, <1>2 DEF Plain, Succeeds, Built, CoreTransactions

LEMMA RemovalFields ==
  ASSUME NEW o
  PROVE  LET w == PutJournal(o, NoJournal)
         IN  w.store = "journals" /\ w.key = o /\ w.val.kind = "none" /\ Continues(w)
  BY DEF PutJournal, Write, NoJournal, Continues

LEMMA GenerationFields ==
  ASSUME NEW o, NEW s
  PROVE  LET w == PutGeneration(o, s)
         IN  /\ w.store = "generations" /\ w.key = o /\ w.val = s /\ ~Succeeds(w)
             /\ s # "staged" => Plain(w)
  BY DEF PutGeneration, Write, Plain, Succeeds

LEMMA EnvironmentFields ==
  ASSUME TypeOK, NEW e \in Env, NEW g
  PROVE  /\ LET w == PutEnvironment(e, Errored(e))
            IN  w.store = "environments" /\ w.key = e /\ w.val.state = "error"
                /\ w.val.gen = None /\ Plain(w) /\ ~Succeeds(w)
         /\ LET w == PutEnvironment(e, Committing(e, g))
            IN  w.store = "environments" /\ w.key = e /\ w.val.state = "stopped"
                /\ w.val.gen = g /\ Plain(w) /\ ~Succeeds(w)
<1>1. environments[e] \in EnvironmentRecord
  BY DEF TypeOK
<1> QED BY <1>1 DEF PutEnvironment, Write, Errored, Committing, EnvironmentRecord,
                    Plain, Succeeds

\* What a transaction with an open journal may rely on.
LEMMA TransactionFacts ==
  ASSUME TypeOK, StoresInv, todo = <<>>, NEW o \in Op, journals[o].kind \in Built,
         controllers[o] \/ environments[journals[o].env].gen # o
  PROVE  /\ \A e \in Env : environments[e].gen # o
         /\ journals[o].env \in Env /\ environments[journals[o].env].state # "absent"
         /\ OpenJournal(o) /\ journals[o].gen = o
<1>1. journals[o].kind \in Kinds /\ journals[o].env \in Env /\ OpenJournal(o)
  BY JournalFields DEF Built, CoreTransactions, Kinds, OpenJournal
<1>2. Keeps(o, journals[o].kind, journals[o].env)
  BY DEF Keeps
<1>3. environments[journals[o].env].state # "absent"
  BY <1>1 DEF StoresInv, Present, Unused
<1>4. \A e \in Env : environments[e].gen # o
  <2> SUFFICES ASSUME NEW e \in Env, environments[e].gen = o PROVE FALSE
    OBVIOUS
  <2>1. CASE controllers[o]
    BY <2>1, NoneAssumption DEF StoresInv, LiveNotRecorded, Live, PointerIntact
  <2>2. CASE environments[journals[o].env].gen # o
    BY <1>1, <1>2, <2>2 DEF StoresInv, OneHome, PointsTo, Claims
  <2> QED BY <2>1, <2>2
<1>5. journals[o].gen = o
  <2>1. journals[o].gen \in Op
    BY <1>1, JournalRecords DEF OpenJournal
  <2> QED BY <2>1 DEF StoresInv, OwnGeneration, Names
<1> QED BY <1>1, <1>3, <1>4, <1>5

(***************************************************************************)
(* A transaction is resolved: its script settles its generation and closes *)
(* its journal.                                                            *)
(***************************************************************************)
Resolved(o) ==
  /\ InOrder(todo')
  /\ \A w \in Waiting' : Continues(w)
  /\ Closes(o)'
  /\ generations[o] = "staged" => Builds(o, "absent")' \/ Builds(o, "recorded")'
  /\ \A q \in Op : Closes(q)' => q = o

LEMMA ResolvedProceeds ==
  ASSUME TypeOK', NEW o \in Op, Resolved(o),
         todo = <<>>, UNCHANGED << Stores, launches, entries, mode >>,
         \A q \in Op : controllers'[q] => controllers[q],
         \A q \in Op \ {o} : controllers'[q] = controllers[q]
  PROVE  Proceeds
<1>1. todo' \in Script
  BY DEF TypeOK, Script
<1>2. \A q \in Op : Settles(q)
  BY DEF Settles, Resolved
<1> QED BY <1>1, <1>2 DEF Proceeds, Resolved

LEMMA UndoResolves ==
  ASSUME TypeOK, StoresInv, UNCHANGED environments,
         NEW o \in Op, journals[o].kind \in CoreTransactions,
         \A e \in Env : environments[e].gen # o,
         environments[journals[o].env].state # "absent",
         NEW repair, repair \in {<<>>, RepairLedger(o)},
         todo' = UndoScript(o, repair)
  PROVE  Resolved(o)
<1> DEFINE E == journals[o].env
           mark == IF journals[o].kind = "create"
                     THEN << PutEnvironment(E, Errored(E)) >> ELSE <<>>
           absent == << PutGeneration(o, "absent") >>
           closing == << PutJournal(o, NoJournal) >>
<1>0. /\ Settle(o, "failed") \in Script /\ mark \in Script /\ absent \in Script
      /\ repair \in Script /\ closing \in Script /\ E \in Env
      /\ journals[o].kind \in Built
  <2>1. E \in Env /\ journals[o].kind \in Built
    BY JournalFields DEF Built
  <2>2. mark \in Script
    BY <2>1, EnvironmentRecords, EnvironmentWrites, Singletons
  <2> QED BY <2>1, <2>2, Settled, OtherWrites, LedgerRepaired, JournalClosed, Singletons
          DEF Terminal, GenerationStates
<1>1. /\ Settle(o, "failed") \o mark \in Script
      /\ Settle(o, "failed") \o mark \o absent \in Script
      /\ Settle(o, "failed") \o mark \o absent \o repair \in Script
      /\ todo' = (Settle(o, "failed") \o mark \o absent \o repair) \o closing
  BY <1>0, Joined DEF UndoScript
<1>2. /\ ToSet(Settle(o, "failed") \o mark \o absent \o repair) =
           ToSet(Settle(o, "failed")) \cup ToSet(mark) \cup ToSet(absent) \cup ToSet(repair)
      /\ Waiting' = ToSet(Settle(o, "failed") \o mark \o absent \o repair) \cup ToSet(closing)
  BY <1>0, <1>1, JoinedWrites DEF Waiting
<1>3. /\ \A w \in ToSet(Settle(o, "failed")) :
           Continues(w) /\ Plain(w) /\ ~Succeeds(w) /\ w.store = "operations"
      /\ \A w \in ToSet(repair) : Continues(w) /\ Plain(w) /\ ~Succeeds(w) /\ w.store = "ledger"
  BY MildWrites, FewWrites DEF Terminal
<1>4. \A w \in ToSet(mark) :
        Continues(w) /\ Plain(w) /\ ~Succeeds(w) /\ w.store = "environments" /\ w.val.gen = None
  <2>1. ToSet(mark) \subseteq {PutEnvironment(E, Errored(E))}
    BY FewWrites
  <2> QED BY <1>0, <2>1, EnvironmentFields DEF Continues
<1>5. ToSet(absent) = {PutGeneration(o, "absent")} /\ ToSet(closing) = {PutJournal(o, NoJournal)}
  BY FewWrites
<1>6. \A e \in Env : ~PointsTo(e, o)'
  BY <1>2, <1>3, <1>4, <1>5, GenerationFields, RemovalFields, NoneAssumption DEF PointsTo
<1>7. \A w \in ToSet(absent) :
        Continues(w) /\ Plain(w) /\ ~Succeeds(w) /\ w.store = "generations"
  BY <1>0, <1>5, <1>6, GenerationFields DEF Continues
<1>8. \A w \in Waiting' : Continues(w)
  BY <1>2, <1>3, <1>4, <1>5, <1>7, RemovalFields
<1>9. InOrder(todo')
  <2>1. \A w \in ToSet(Settle(o, "failed") \o mark \o absent \o repair) :
          Plain(w) /\ ~Succeeds(w)
    BY <1>2, <1>3, <1>4, <1>7
  <2> QED BY <1>1, <2>1, PlainOrder, ClosingOrder
<1>10. Closes(o)' /\ Builds(o, "absent")'
  BY <1>2, <1>5, GenerationFields, RemovalFields DEF Closes, Builds
<1>11. \A q \in Op : Closes(q)' => q = o
  BY <1>2, <1>3, <1>4, <1>5, <1>7, RemovalFields DEF Closes
<1> QED BY <1>8, <1>9, <1>10, <1>11 DEF Resolved

LEMMA Regrouped ==
  ASSUME NEW s \in Script, NEW t \in Script, NEW u \in Script
  PROVE  s \o (t \o u) = (s \o t) \o u /\ <<>> \o s = s /\ s \o <<>> = s
  BY DEF Script

LEMMA PairSplit ==
  ASSUME NEW v \in WriteRecord, NEW w \in WriteRecord
  PROVE  << v, w >> = << v >> \o << w >>
<1> DEFINE s == << v, w >>
           t == << v >> \o << w >>
<1>1. s \in Script /\ t \in Script
  BY Pairs, Singletons, Joined
<1>2. Len(s) = 2 /\ Len(t) = 2
  OBVIOUS
<1>3. s[1] = v /\ t[1] = v /\ s[2] = w /\ t[2] = w
  OBVIOUS
<1>4. \A i \in 1..2 : s[i] = t[i]
  BY <1>3
<1> HIDE DEF s, t
<1>5. s = t
  BY <1>1, <1>2, <1>4 DEF Script
<1> QED BY <1>5 DEF s, t

LEMMA ClosedResolves ==
  ASSUME TypeOK, NEW o \in Op, NEW s \in Script,
         todo' = s \o << PutJournal(o, NoJournal) >>,
         InOrder(s), \A w \in ToSet(s) : Continues(w) /\ Plain(w),
         generations[o] = "staged" =>
           PutGeneration(o, "absent") \in ToSet(s) \/ PutGeneration(o, "recorded") \in ToSet(s)
  PROVE  Resolved(o)
<1>1. Waiting' = ToSet(s) \cup {PutJournal(o, NoJournal)}
  BY JournalClosed, JoinedWrites, FewWrites DEF Waiting
<1>2. InOrder(todo')
  BY ClosingOrder
<1>3. \A w \in Waiting' : Continues(w)
  BY <1>1, RemovalFields
<1>4. Closes(o)' /\ \A q \in Op : Closes(q)' => q = o
  BY <1>1, RemovalFields DEF Closes, Plain
<1>5. generations[o] = "staged" => Builds(o, "absent")' \/ Builds(o, "recorded")'
  BY <1>1, GenerationFields DEF Builds
<1> QED BY <1>2, <1>3, <1>4, <1>5 DEF Resolved

LEMMA CommitResolves ==
  ASSUME TypeOK, StoresInv, UNCHANGED environments,
         NEW o \in Op, journals[o].kind \in CoreTransactions,
         controllers[o], ~controllers'[o],
         environments[journals[o].env].state # "absent",
         todo' = CommitScript(o)
  PROVE  Resolved(o)
<1> DEFINE E == journals[o].env
           c == PutJournal(o, [journals[o] EXCEPT !.phase = "committed"])
           move == << PutGeneration(o, "recorded"), PutEnvironment(E, Committing(E, o)) >>
           settle == Settle(o, "succeeded")
           closing == << PutJournal(o, NoJournal) >>
<1>0. /\ move \in Script /\ settle \in Script /\ << c >> \in Script /\ closing \in Script
      /\ E \in Env /\ journals[o].kind \in Built /\ OpenJournal(o)
      /\ c \in WriteRecord /\ PutJournal(o, NoJournal) \in WriteRecord
  <2>1. E \in Env /\ journals[o].kind \in Built /\ OpenJournal(o)
    BY JournalFields DEF Built, OpenJournal, CoreTransactions
  <2>2. move \in Script
    BY <2>1, OtherWrites, EnvironmentRecords, EnvironmentWrites, Pairs DEF GenerationStates
  <2>3. c \in WriteRecord /\ PutJournal(o, NoJournal) \in WriteRecord
    BY <2>1, JournalRecords, JournalWrites DEF OpenJournal
  <2> QED BY <2>1, <2>2, <2>3, Settled, JournalClosed, Singletons DEF Terminal
<1>1. todo' = (move \o (settle \o << c >>)) \o closing
  <2>1. todo' = (move \o settle) \o << c, PutJournal(o, NoJournal) >>
    BY DEF CommitScript
  <2>2. << c, PutJournal(o, NoJournal) >> = << c >> \o closing
    BY <1>0, PairSplit
  <2>3. (move \o settle) \o (<< c >> \o closing) = ((move \o settle) \o << c >>) \o closing
    BY <1>0, Joined, Regrouped
  <2>4. (move \o settle) \o << c >> = move \o (settle \o << c >>)
    BY <1>0, Regrouped
  <2> QED BY <2>1, <2>2, <2>3, <2>4
<1>2. /\ settle \o << c >> \in Script /\ move \o (settle \o << c >>) \in Script
      /\ ToSet(settle \o << c >>) = ToSet(settle) \cup {c}
      /\ ToSet(move) = {PutGeneration(o, "recorded"), PutEnvironment(E, Committing(E, o))}
      /\ ToSet(move \o (settle \o << c >>)) = ToSet(move) \cup ToSet(settle \o << c >>)
  <2>1. settle \o << c >> \in Script /\ move \o (settle \o << c >>) \in Script
    BY <1>0, Joined
  <2>2. ToSet(settle \o << c >>) = ToSet(settle) \cup {c}
    BY <1>0, JoinedWrites, FewWrites
  <2>3. ToSet(move) = {PutGeneration(o, "recorded"), PutEnvironment(E, Committing(E, o))}
    BY FewWrites
  <2>4. ToSet(move \o (settle \o << c >>)) = ToSet(move) \cup ToSet(settle \o << c >>)
    BY <1>0, <2>1, JoinedWrites
  <2> QED BY <2>1, <2>2, <2>3, <2>4
<1>3. RecordsFirst(o)'
  <2>1. move # <<>> /\ Head(move) = PutGeneration(o, "recorded")
    OBVIOUS
  <2>2. todo' # <<>> /\ Head(todo') = PutGeneration(o, "recorded")
    BY <1>0, <1>1, <1>2, <2>1, FirstWrite
  <2> QED BY <2>2 DEF RecordsFirst, PutGeneration
<1>4. \A w \in ToSet(settle) : Continues(w) /\ Plain(w) /\ w.store = "operations"
  BY MildWrites DEF Terminal
<1>5. Continues(c) /\ Plain(c) /\ c.store = "journals"
  BY <1>0, JournalFields DEF Continues
<1>6. \A w \in ToSet(move) : Continues(w) /\ Plain(w) /\ ~Succeeds(w)
  <2>1. Continues(PutGeneration(o, "recorded"))
    BY <1>0, GenerationFields DEF Continues
  <2>2. Continues(PutEnvironment(E, Committing(E, o)))
    <3>1. Commits(o, E)
      BY <1>0, <1>3 DEF Commits
    <3> QED BY <1>0, <3>1, EnvironmentFields DEF Continues
  <2> QED BY <1>0, <1>2, <2>1, <2>2, GenerationFields, EnvironmentFields
<1>7. InOrder(move \o (settle \o << c >>))
  BY <1>0, <1>2, <1>4, <1>5, <1>6, CommitOrder
<1> QED BY <1>1, <1>2, <1>4, <1>5, <1>6, <1>7, ClosedResolves

\* A rollback may follow the record of a generation that lost its race.
LEMMA RollbackResolves ==
  ASSUME TypeOK, StoresInv, UNCHANGED environments,
         NEW o \in Op, journals[o].kind \in Built,
         \A e \in Env : environments[e].gen # o,
         NEW before, \/ before = <<>>
                     \/ before = << PutGeneration(o, "recorded") >>
                        /\ controllers[o] /\ ~controllers'[o],
         todo' = before \o RollbackScript(o)
  PROVE  Resolved(o)
<1> DEFINE absent == << PutGeneration(o, "absent") >>
           settle == Settle(o, "failed")
           repair == RepairLedger(o)
           closing == << PutJournal(o, NoJournal) >>
           body == (settle \o absent) \o repair
<1>0. /\ before \in Script /\ settle \in Script /\ absent \in Script /\ repair \in Script
      /\ closing \in Script /\ settle \o absent \in Script /\ body \in Script
      /\ before \o body \in Script
  <2>1. before \in Script /\ absent \in Script
    BY OtherWrites, Singletons DEF GenerationStates
  <2>2. settle \in Script /\ repair \in Script /\ closing \in Script
    BY Settled, LedgerRepaired, JournalClosed DEF Terminal
  <2> QED BY <2>1, <2>2, Joined
<1>1. todo' = (before \o body) \o closing
  BY <1>0, Regrouped DEF RollbackScript
<1>2. /\ ToSet(before \o body) =
           ToSet(before) \cup ToSet(settle) \cup ToSet(absent) \cup ToSet(repair)
      /\ ToSet(before) \subseteq {PutGeneration(o, "recorded")}
      /\ ToSet(absent) = {PutGeneration(o, "absent")}
  BY <1>0, JoinedWrites, FewWrites
<1>3. Waiting' = ToSet(before \o body) \cup {PutJournal(o, NoJournal)}
  BY <1>0, <1>1, JoinedWrites, FewWrites DEF Waiting
<1>4. /\ \A w \in ToSet(settle) :
           Continues(w) /\ Plain(w) /\ ~Succeeds(w) /\ w.store = "operations"
      /\ \A w \in ToSet(repair) : Continues(w) /\ Plain(w) /\ ~Succeeds(w) /\ w.store = "ledger"
  BY MildWrites DEF Terminal
<1>5. \A e \in Env : ~PointsTo(e, o)'
  BY <1>2, <1>3, <1>4, GenerationFields, RemovalFields DEF PointsTo
<1>6. \A w \in ToSet(absent) : Continues(w) /\ Plain(w) /\ ~Succeeds(w)
  BY <1>2, <1>5, GenerationFields DEF Continues
<1>7. \A w \in ToSet(before) : Continues(w) /\ Plain(w) /\ ~Succeeds(w)
  BY <1>2, GenerationFields, FewWrites DEF Continues
<1>8. InOrder(before \o body)
  BY <1>0, <1>2, <1>4, <1>6, <1>7, PlainOrder
<1> QED BY <1>0, <1>1, <1>2, <1>4, <1>6, <1>7, <1>8, ClosedResolves

LEMMA CancelResolves ==
  ASSUME TypeOK, StoresInv, UNCHANGED environments,
         NEW o \in Op, journals[o].kind \in Built,
         \A e \in Env : environments[e].gen # o,
         todo' = CancelScript(o)
  PROVE  Resolved(o)
<1> DEFINE absent == << PutGeneration(o, "absent") >>
<1>0. /\ absent \in Script /\ PutGeneration(o, "absent") \in WriteRecord
      /\ PutJournal(o, NoJournal) \in WriteRecord
  BY OtherWrites, Singletons, JournalRecords, JournalWrites DEF GenerationStates
<1>1. todo' = absent \o << PutJournal(o, NoJournal) >>
  BY <1>0, PairSplit DEF CancelScript
<1>2. /\ ToSet(absent) = {PutGeneration(o, "absent")}
      /\ Waiting' = {PutGeneration(o, "absent"), PutJournal(o, NoJournal)}
  BY FewWrites DEF CancelScript, Waiting
<1>3. \A e \in Env : ~PointsTo(e, o)'
  BY <1>2, GenerationFields, RemovalFields DEF PointsTo
<1>4. \A w \in ToSet(absent) : Continues(w) /\ Plain(w)
  BY <1>2, <1>3, GenerationFields DEF Continues
<1> QED BY <1>0, <1>1, <1>2, <1>4, ShortOrder, ClosedResolves

\* The operation ends, its ledger record is repaired, its plan is consumed.
LEMMA ConclusionResolves ==
  ASSUME TypeOK, NEW o \in Op, generations[o] # "staged", NEW s \in Terminal,
         NEW end, end = <<>> \/ (end = << Ended(o, s) >> /\ operations[o].status # "absent"),
         NEW repair, repair \in {<<>>, RepairLedger(o)},
         NEW plan, plan = <<>> \/ \E p \in Plan : plan = << PutPlan(p, o) >>,
         todo' = ((end \o repair) \o plan) \o << PutJournal(o, NoJournal) >>
  PROVE  Resolved(o)
<1>0. /\ end \in Script /\ repair \in Script /\ plan \in Script
      /\ end \o repair \in Script /\ (end \o repair) \o plan \in Script
  <2>1. end \in Script
    BY OperationRecords, OperationWrites, Singletons DEF Ended
  <2>2. repair \in Script /\ plan \in Script
    BY LedgerRepaired, OtherWrites, Singletons
  <2> QED BY <2>1, <2>2, Joined
<1>1. ToSet((end \o repair) \o plan) = ToSet(end) \cup ToSet(repair) \cup ToSet(plan)
  BY <1>0, JoinedWrites
<1>2. \A w \in ToSet(end) : Continues(w) /\ Plain(w) /\ w.store = "operations"
  <2>1. operations[o].status # "absent" => operations[o].kind \in Kinds
    BY OperationRecords
  <2> QED BY <2>1, EndedFields, FewWrites DEF Continues, Plain, Terminal
<1>3. \A w \in ToSet(repair) : Continues(w) /\ Plain(w) /\ w.store = "ledger"
  BY MildWrites, FewWrites DEF Terminal
<1>4. \A w \in ToSet(plan) : Continues(w) /\ Plain(w) /\ w.store = "plans"
  <2>1. \A p \in Plan : LET w == PutPlan(p, o)
                        IN Continues(w) /\ Plain(w) /\ w.store = "plans"
    BY DEF PutPlan, Write, Continues, Plain
  <2> QED BY <2>1, FewWrites
<1>5. InOrder((end \o repair) \o plan)
  BY <1>0, <1>1, <1>2, <1>3, <1>4, PlainOrder
<1> QED BY <1>0, <1>1, <1>2, <1>3, <1>4, <1>5, ClosedResolves

LEMMA FinalizeResolves ==
  ASSUME TypeOK, NEW o \in Op, generations[o] # "staged", todo' = FinalizeScript(o)
  PROVE  Resolved(o)
<1> DEFINE end == IF operations[o].status \in {"active", "cancelled"}
                    THEN << Ended(o, "succeeded") >> ELSE <<>>
<1>1. end = <<>> \/ (end = << Ended(o, "succeeded") >> /\ operations[o].status # "absent")
  OBVIOUS
<1>2. end \in Script /\ RepairLedger(o) \in Script
  BY OperationRecords, OperationWrites, Singletons, LedgerRepaired DEF Ended, Terminal
<1>3. todo' = ((end \o RepairLedger(o)) \o <<>>) \o << PutJournal(o, NoJournal) >>
  BY <1>2, Joined, Regrouped DEF FinalizeScript
<1> QED BY <1>1, <1>3, ConclusionResolves DEF Terminal

LEMMA RecoveredChangeResolves ==
  ASSUME TypeOK, StoresInv, todo = <<>>, UNCHANGED environments,
         NEW o \in Op, RecoverChange(o)
  PROVE  Resolved(o)
<1> DEFINE j == journals[o]
           plan == IF j.kind = "apply" /\ plans[j.plan] = None
                     THEN << PutPlan(j.plan, o) >> ELSE <<>>
           closing == << PutJournal(o, NoJournal) >>
<1>0. /\ j.kind \in ChangeTransactions /\ j.env \in Env /\ j.gen \in Op
      /\ (j.kind = "apply" => j.plan \in Plan)
  BY JournalRecords DEF RecoverChange, ChangeJournals, ChangeTransactions
<1>1. CASE environments[j.env].gen = j.gen
  <2>1. todo' = (MarkSucceeded(o) \o plan) \o closing
    BY <1>1 DEF RecoverChange, Run
  <2>2. generations[o] # "staged"
    <3>1. generations[o] = "staged" => j.kind \in Built
      BY DEF StoresInv, StagedHasJournal
    <3>2. j.kind \in Built => j.gen = o
      BY <1>0 DEF StoresInv, OwnGeneration, Names
    <3>3. generations[j.gen] = "recorded"
      BY <1>0, <1>1, NoneAssumption DEF StoresInv, PointerIntact
    <3> QED BY <3>1, <3>2, <3>3
  <2>3. PICK end, repair :
          /\ end = <<>> \/ (end = << Ended(o, "succeeded") >> /\ operations[o].status # "absent")
          /\ repair \in {<<>>, RepairLedger(o)}
          /\ MarkSucceeded(o) = end \o repair
    <3>1. CASE operations[o].status \in {"absent", "failed"}
      <4>1. MarkSucceeded(o) = <<>> \o <<>>
        BY <3>1 DEF MarkSucceeded
      <4> QED BY <4>1
    <3>2. CASE operations[o].status = "succeeded"
      <4>1. MarkSucceeded(o) = <<>> \o RepairLedger(o)
        BY <3>2 DEF MarkSucceeded
      <4> QED BY <4>1
    <3>3. CASE operations[o].status \notin {"absent", "failed", "succeeded"}
      <4>1. MarkSucceeded(o) = << Ended(o, "succeeded") >> \o RepairLedger(o)
        BY <3>3 DEF MarkSucceeded
      <4> QED BY <3>3, <4>1
    <3> QED BY <3>1, <3>2, <3>3
  <2>4. plan = <<>> \/ \E p \in Plan : plan = << PutPlan(p, o) >>
    BY <1>0
  <2> QED BY <2>1, <2>2, <2>3, <2>4, ConclusionResolves DEF Terminal
<1>2. CASE environments[j.env].gen # j.gen /\ j.kind = "restore"
  <2>1. todo' = (Settle(o, "failed") \o RepairLedger(o)) \o closing
    BY <1>2 DEF RecoverChange, Run
  <2>2. generations[o] # "staged"
    BY <1>2 DEF StoresInv, StagedHasJournal, Built, CoreTransactions
  <2>3. Settle(o, "failed") = <<>>
        \/ (Settle(o, "failed") = << Ended(o, "failed") >> /\ operations[o].status # "absent")
    BY DEF Settle
  <2>4. todo' = ((Settle(o, "failed") \o RepairLedger(o)) \o <<>>) \o closing
    BY <2>1, Settled, LedgerRepaired, Joined, Regrouped DEF Terminal
  <2> QED BY <2>2, <2>3, <2>4, ConclusionResolves DEF Terminal
<1>3. CASE environments[j.env].gen # j.gen /\ j.kind # "restore"
  <2>1. todo' = RollbackScript(o) /\ j.kind = "apply"
    BY <1>0, <1>3 DEF RecoverChange, Run, ChangeTransactions
  <2>2. todo' = <<>> \o RollbackScript(o)
    BY <2>1, RolledBack, Regrouped
  <2>3. j.kind \in Built /\ j.gen = o
    BY <1>0, <2>1 DEF Built, StoresInv, OwnGeneration, Names
  <2>4. \A e \in Env : environments[e].gen # o
    BY <1>3, <2>3, TransactionFacts
  <2> QED BY <2>2, <2>3, <2>4, RollbackResolves
<1> QED BY <1>1, <1>2, <1>3

LEMMA PublishResolves ==
  ASSUME TypeOK, StoresInv, UNCHANGED environments,
         NEW o \in Op, journals[o].kind = "apply",
         controllers[o], ~controllers'[o],
         \A e \in Env : environments[e].gen # o,
         environments[journals[o].env].state # "absent",
         todo' = PublishScript(o)
  PROVE  Resolved(o)
<1> DEFINE j == journals[o]
           E == j.env
           record == << PutGeneration(o, "recorded") >>
           c == PutJournal(o, [j EXCEPT !.phase = "committed"])
           move == PutEnvironment(E, Committing(E, o))
           moves == << move, c, PutPlan(j.plan, o) >>
           settle == Settle(o, "succeeded")
           repair == RepairLedger(o)
           closing == << PutJournal(o, NoJournal) >>
<1>0. /\ E \in Env /\ j.plan \in Plan /\ j.kind \in Built /\ OpenJournal(o)
  BY JournalRecords DEF Built, OpenJournal
<1>1. CASE environments[E].revision # expected[o]
  <2>1. todo' = record \o RollbackScript(o)
    BY <1>1 DEF PublishScript
  <2> QED BY <1>0, <2>1, RollbackResolves
<1>2. CASE environments[E].revision = expected[o]
  <2>0. /\ move \in WriteRecord /\ c \in WriteRecord /\ PutPlan(j.plan, o) \in WriteRecord
        /\ record \in Script
    BY <1>0, EnvironmentRecords, EnvironmentWrites, JournalRecords, JournalWrites,
       OtherWrites, Singletons DEF OpenJournal, GenerationStates
  <2>1. /\ moves \in Script /\ settle \in Script /\ repair \in Script /\ closing \in Script
        /\ record \o moves \in Script /\ settle \o repair \in Script
    BY <2>0, Triples, Settled, LedgerRepaired, JournalClosed, Joined DEF Terminal
  <2>2. todo' = record \o (((moves \o settle) \o repair) \o closing)
    BY <1>2 DEF PublishScript, Committing
  <2>3. todo' = ((record \o moves) \o (settle \o repair)) \o closing
    <3>1. (moves \o settle) \o repair = moves \o (settle \o repair)
      BY <2>1, Regrouped
    <3>2. moves \o (settle \o repair) \in Script
      BY <2>1, Joined
    <3>3. record \o ((moves \o (settle \o repair)) \o closing)
            = (record \o (moves \o (settle \o repair))) \o closing
      BY <2>0, <2>1, <3>2, Regrouped
    <3>4. record \o (moves \o (settle \o repair)) = (record \o moves) \o (settle \o repair)
      BY <2>0, <2>1, Regrouped
    <3> QED BY <2>2, <3>1, <3>3, <3>4
  <2>4. /\ ToSet(record \o moves) =
             {PutGeneration(o, "recorded"), move, c, PutPlan(j.plan, o)}
        /\ ToSet(settle \o repair) = ToSet(settle) \cup ToSet(repair)
        /\ ToSet((record \o moves) \o (settle \o repair)) =
             ToSet(record \o moves) \cup ToSet(settle \o repair)
    <3>1. ToSet(record) = {PutGeneration(o, "recorded")} /\ ToSet(moves) = {move, c, PutPlan(j.plan, o)}
      BY FewWrites
    <3>2. ToSet(record \o moves) = ToSet(record) \cup ToSet(moves)
      BY <2>0, <2>1, JoinedWrites
    <3>3. ToSet(settle \o repair) = ToSet(settle) \cup ToSet(repair)
          /\ ToSet((record \o moves) \o (settle \o repair)) =
               ToSet(record \o moves) \cup ToSet(settle \o repair)
      BY <2>1, JoinedWrites
    <3> QED BY <3>1, <3>2, <3>3
  <2>5. RecordsFirst(o)'
    <3>1. record # <<>> /\ Head(record) = PutGeneration(o, "recorded")
      OBVIOUS
    <3>2. ((moves \o settle) \o repair) \o closing \in Script
      BY <2>1, Joined
    <3>3. todo' # <<>> /\ Head(todo') = PutGeneration(o, "recorded")
      BY <2>0, <2>2, <3>1, <3>2, FirstWrite
    <3> QED BY <3>3 DEF RecordsFirst, PutGeneration
  <2>6. \A w \in ToSet(record \o moves) : Continues(w) /\ Plain(w) /\ ~Succeeds(w)
    <3>1. LET w == PutGeneration(o, "recorded") IN Continues(w) /\ Plain(w) /\ ~Succeeds(w)
      BY <1>0, GenerationFields DEF Continues
    <3>2. Continues(move) /\ Plain(move) /\ ~Succeeds(move)
      <4>1. Commits(o, E)
        BY <1>0, <2>5 DEF Commits
      <4> QED BY <1>0, <4>1, EnvironmentFields DEF Continues
    <3>3. Continues(c) /\ Plain(c) /\ ~Succeeds(c)
      BY <1>0, JournalFields DEF Continues
    <3>4. LET w == PutPlan(j.plan, o) IN Continues(w) /\ Plain(w) /\ ~Succeeds(w)
      BY DEF PutPlan, Write, Continues, Plain, Succeeds
    <3> QED BY <2>4, <3>1, <3>2, <3>3, <3>4
  <2>7. \A w \in ToSet(settle \o repair) :
          Continues(w) /\ Plain(w) /\ w.store # "environments"
    BY <2>4, MildWrites DEF Terminal
  <2>8. InOrder((record \o moves) \o (settle \o repair))
    BY <2>1, <2>6, <2>7, CommitOrder
  <2> QED BY <2>1, <2>3, <2>4, <2>6, <2>7, <2>8, Joined, ClosedResolves
<1> QED BY <1>1, <1>2

(***************************************************************************)
(* The steps of transactions.                                              *)
(***************************************************************************)
LEMMA FilesKept ==
  ASSUME UNCHANGED files
  PROVE  UNCHANGED << Stores, launches >> /\ UNCHANGED << environments, operations, journals,
           generations, plans, ledger, launches >>
  BY DEF files, Stores

LEMMA DurableFiles == UNCHANGED durable => UNCHANGED files
  BY DEF durable, files

LEMMA StoresKept ==
  ASSUME UNCHANGED durable
  PROVE  UNCHANGED << Stores, launches >> /\ UNCHANGED << environments, operations, journals,
           generations, plans, ledger, launches >>
  BY DurableFiles, FilesKept

LEMMA TaskEnded ==
  ASSUME TypeOK, NEW o \in Op, Finished(o)
  PROVE  /\ ~controllers'[o]
         /\ \A q \in Op : controllers'[q] => controllers[q]
         /\ \A q \in Op \ {o} : controllers'[q] = controllers[q]
  BY DEF TypeOK, Finished

LEMMA NoneEnded ==
  ASSUME UNCHANGED controllers
  PROVE  /\ \A q \in Op : controllers'[q] => controllers[q]
         /\ \A q \in Op : controllers'[q] = controllers[q]
  OBVIOUS

LEMMA StoresInstallReturns ==
  ASSUME TypeOK, TypeOK', StoresInv, NEW o \in Op, InstallReturns(o) PROVE StoresInv'
<1>1. /\ todo = <<>> /\ controllers[o] /\ UNCHANGED << Stores, launches, entries, mode >>
      /\ UNCHANGED environments /\ Finished(o)
      /\ journals[o].kind \in CoreTransactions
  BY StoresKept DEF InstallReturns, TaskReturns
<1>2. journals[o].kind \in Built
  BY <1>1 DEF Built
<1>3. /\ \A e \in Env : environments[e].gen # o
      /\ environments[journals[o].env].state # "absent"
  BY <1>1, <1>2, TransactionFacts
<1>4. todo' = CommitScript(o) \/ todo' = UndoScript(o, <<>>)
  BY DEF InstallReturns, Run
<1>5. Resolved(o)
  BY <1>1, <1>3, <1>4, TaskEnded, CommitResolves, UndoResolves
<1> QED BY <1>1, <1>5, TaskEnded, ResolvedProceeds, StoresProceed

LEMMA StoresStageReturns ==
  ASSUME TypeOK, TypeOK', StoresInv, NEW o \in Op, StageReturns(o) PROVE StoresInv'
<1>1. /\ todo = <<>> /\ controllers[o] /\ UNCHANGED << Stores, launches, entries, mode >>
      /\ UNCHANGED environments /\ Finished(o)
      /\ journals[o].kind = "apply"
  BY StoresKept DEF StageReturns, TaskReturns
<1>2. journals[o].kind \in Built
  BY <1>1 DEF Built
<1>3. /\ \A e \in Env : environments[e].gen # o
      /\ environments[journals[o].env].state # "absent"
  BY <1>1, <1>2, TransactionFacts
<1>4. todo' \in {RollbackScript(o), CancelScript(o), PublishScript(o)}
  BY DEF StageReturns, Run
<1>5. todo' = RollbackScript(o) => todo' = <<>> \o RollbackScript(o)
  BY RolledBack, Regrouped
<1>6. Resolved(o)
  <2>1. CASE todo' = RollbackScript(o)
    BY <1>1, <1>2, <1>3, <1>5, <2>1, RollbackResolves
  <2>2. CASE todo' = CancelScript(o)
    BY <1>1, <1>2, <1>3, <2>2, CancelResolves
  <2>3. CASE todo' = PublishScript(o)
    BY <1>1, <1>3, <2>3, TaskEnded, PublishResolves
  <2> QED BY <1>4, <2>1, <2>2, <2>3
<1> QED BY <1>1, <1>6, TaskEnded, ResolvedProceeds, StoresProceed

LEMMA StoresRecoverJournal ==
  ASSUME TypeOK, TypeOK', StoresInv, NEW o \in Op, RecoverJournal(o) PROVE StoresInv'
<1>1. /\ todo = <<>> /\ UNCHANGED << Stores, launches, entries, mode, controllers >>
      /\ UNCHANGED environments
      /\ journals[o].kind \in CoreTransactions
  BY StoresKept DEF RecoverJournal, Recovering, CoreJournals, volatile
<1>2. journals[o].kind \in Built /\ journals[o].kind \in Kinds /\ OpenJournal(o)
  BY <1>1 DEF Built, CoreTransactions, OpenJournal, Kinds
<1>3. journals[o].env \in Env /\ journals[o].gen = o
  <2>1. journals[o].env \in Env /\ journals[o].gen \in Op
    BY <1>2, JournalRecords DEF OpenJournal
  <2> QED BY <1>2, <2>1 DEF StoresInv, OwnGeneration, Names
<1>4. CASE PointerNames(o)
  <2>1. generations[o] # "staged"
    BY <1>3, <1>4, NoneAssumption DEF PointerNames, StoresInv, PointerIntact
  <2>2. todo' = FinalizeScript(o)
    BY <1>4 DEF RecoverJournal, Run
  <2> QED BY <1>1, <2>1, <2>2, FinalizeResolves, ResolvedProceeds, StoresProceed
<1>5. CASE ~PointerNames(o)
  <2>1. environments[journals[o].env].gen # o
    BY <1>2, <1>3, <1>5 DEF PointerNames
  <2>2. todo' = UndoScript(o, RepairLedger(o))
    BY <1>5 DEF RecoverJournal, Run
  <2>3. /\ \A e \in Env : environments[e].gen # o
        /\ environments[journals[o].env].state # "absent"
    BY <1>1, <1>2, <2>1, TransactionFacts
  <2> QED BY <1>1, <2>2, <2>3, UndoResolves, ResolvedProceeds, StoresProceed
<1> QED BY <1>4, <1>5

LEMMA StoresRecoverChange ==
  ASSUME TypeOK, TypeOK', StoresInv, NEW o \in Op, RecoverChange(o) PROVE StoresInv'
<1>1. /\ todo = <<>> /\ UNCHANGED << Stores, launches, entries, mode, controllers >>
      /\ UNCHANGED environments
  BY StoresKept DEF RecoverChange, volatile
<1> QED BY <1>1, RecoveredChangeResolves, ResolvedProceeds, StoresProceed

(***************************************************************************)
(* Steps that settle what is left of a transaction, and the steps of       *)
(* processes, say nothing about generations and pointers.                  *)
(***************************************************************************)
Slight(w) ==
  /\ Continues(w) /\ Plain(w)
  /\ w.store \in {"environments", "operations", "ledger", "launches"}

LEMMA SlightProceeds ==
  ASSUME TypeOK', todo = <<>>, UNCHANGED << Stores, launches >>,
         \A e \in Env : entries'[e] # entries[e] => launches[e] # NoLaunch,
         mode' = mode \/ (mode = "recoverProcesses" /\ mode' = "recoverCore"),
         \A q \in Op : controllers'[q] => controllers[q],
         \A q \in Op : controllers[q] /\ ~controllers'[q] => ~OpenJournal(q),
         \A w \in Waiting' : Slight(w),
         (\A w \in Waiting' : ~Succeeds(w)) \/ \A w \in Waiting' : w.store # "environments"
  PROVE  Proceeds
<1>1. todo' \in Script
  BY DEF TypeOK, Script
<1>2. InOrder(todo')
  BY <1>1, PlainOrder DEF Waiting, Slight
<1>3. \A q \in Op : Settles(q)
  BY DEF Settles, Slight, Closes
<1> QED BY <1>1, <1>2, <1>3 DEF Proceeds, Slight

\* The commonest case: nothing in memory changes but what the stores ignore.
LEMMA SlightStep ==
  ASSUME TypeOK, TypeOK', StoresInv, todo = <<>>, UNCHANGED durable,
         UNCHANGED << mode, entries, controllers >>,
         \A w \in Waiting' : Slight(w),
         (\A w \in Waiting' : ~Succeeds(w)) \/ \A w \in Waiting' : w.store # "environments"
  PROVE  StoresInv'
  BY StoresKept, SlightProceeds, StoresProceed

LEMMA SlightWrites ==
  ASSUME TypeOK, NEW o \in Op, NEW s \in Terminal
  PROVE  /\ \A w \in ToSet(Settle(o, s)) :
              Slight(w) /\ w.store = "operations" /\ (s # "succeeded" => ~Succeeds(w))
         /\ \A w \in ToSet(RepairLedger(o)) : Slight(w) /\ ~Succeeds(w)
         /\ \A k, t : t # "none" =>
              Slight(PutLedger(o, k, t)) /\ ~Succeeds(PutLedger(o, k, t))
<1>1. \A k, t : t # "none" => Slight(PutLedger(o, k, t)) /\ ~Succeeds(PutLedger(o, k, t))
  BY DEF PutLedger, Write, Slight, Continues, Plain, Succeeds
<1> QED BY <1>1, MildWrites DEF Slight

LEMMA StoresCancel ==
  ASSUME TypeOK, TypeOK', StoresInv, NEW o \in Op, CancelOperation(o) \/ CancelApply(o)
  PROVE  StoresInv'
<1>1. /\ todo = <<>> /\ UNCHANGED durable /\ UNCHANGED << mode, entries, controllers >>
      /\ Waiting' = ToSet(Settle(o, "cancelled"))
  BY DEF CancelOperation, CancelApply, Idle, Run, Waiting
<1> QED BY <1>1, SlightWrites, SlightStep DEF Terminal

LEMMA StoresRecoverOrphan ==
  ASSUME TypeOK, TypeOK', StoresInv, NEW o \in Op, RecoverOrphan(o) PROVE StoresInv'
<1> DEFINE e == operations[o].env
           mark == IF operations[o].kind = "create"
                     THEN << PutEnvironment(e, Errored(e)) >> ELSE <<>>
<1>1. /\ todo = <<>> /\ UNCHANGED durable /\ UNCHANGED << mode, entries, controllers >>
      /\ todo' = Settle(o, "failed") \o mark
      /\ operations[o].kind \in CoreTransactions
  BY DEF RecoverOrphan, Recovering, Run, volatile, OrphanTransactions, Pending
<1>2. e \in Env /\ environments[e].state # "absent"
  <2>1. operations[o].kind # "none"
    BY <1>1 DEF CoreTransactions
  <2>2. e \in Env
    BY <2>1, OperationRecords
  <2> QED BY <2>2 DEF StoresInv, Present, Unused
<1>3. LET w == PutEnvironment(e, Errored(e)) IN Slight(w) /\ ~Succeeds(w)
  BY <1>2, EnvironmentFields DEF Slight, Continues
<1>4. Settle(o, "failed") \in Script /\ mark \in Script
  BY <1>2, Settled, EnvironmentRecords, EnvironmentWrites, Singletons DEF Terminal
<1>5. Waiting' \subseteq ToSet(Settle(o, "failed")) \cup {PutEnvironment(e, Errored(e))}
  BY <1>1, <1>4, JoinedWrites, FewWrites DEF Waiting
<1> QED BY <1>1, <1>3, <1>5, SlightWrites, SlightStep DEF Terminal

LEMMA StoresRecoverCreating ==
  ASSUME TypeOK, TypeOK', StoresInv, NEW e \in Env, RecoverCreating(e) PROVE StoresInv'
<1>1. /\ todo = <<>> /\ UNCHANGED durable /\ UNCHANGED << mode, entries, controllers >>
      /\ Waiting' = {PutEnvironment(e, Errored(e))}
      /\ environments[e].state = "creating"
  BY FewWrites DEF RecoverCreating, Recovering, Run, volatile, Waiting, OrphanCreations
<1>2. LET w == PutEnvironment(e, Errored(e)) IN Slight(w) /\ ~Succeeds(w)
  BY <1>1, EnvironmentFields DEF Slight, Continues
<1> QED BY <1>1, <1>2, SlightStep

LEMMA StoresLedgerSteps ==
  ASSUME TypeOK, TypeOK', StoresInv, NEW o \in Op,
         SettleSwitchLedger(o) \/ SweepChangeLedger(o) \/ RecoverOrphanChange(o)
  PROVE  StoresInv'
<1>1. todo = <<>> /\ UNCHANGED durable /\ UNCHANGED << mode, entries, controllers >>
  BY DEF SettleSwitchLedger, SweepChangeLedger, RecoverOrphanChange, Recovering, volatile
<1>2. \/ \E k : Waiting' = {PutLedger(o, k, "failed")}
      \/ Waiting' = ToSet(Settle(o, "failed"))
  BY FewWrites
     DEF SettleSwitchLedger, SweepChangeLedger, RecoverOrphanChange, Run, Waiting
<1> QED BY <1>1, <1>2, SlightWrites, SlightStep DEF Terminal

\* A start or a stop has no journal, and the environment it is about is there.
LEMMA ProcessRequest ==
  ASSUME TypeOK, StoresInv, NEW o \in Op, NEW kinds, kinds \subseteq {"start", "stop"},
         OfKind(o, kinds)
  PROVE  /\ operations[o].kind \in {"start", "stop"} /\ operations[o].env \in Env
         /\ environments[operations[o].env].state # "absent" /\ ~OpenJournal(o)
<1>1. operations[o].kind \in {"start", "stop"}
  BY DEF OfKind
<1>2. operations[o].kind \in Kinds /\ operations[o].env \in Env
  BY <1>1, OperationRecords
<1>3. environments[operations[o].env].state # "absent"
  BY <1>2 DEF StoresInv, Present, Unused
<1>4. ~OpenJournal(o)
  <2> SUFFICES ASSUME OpenJournal(o) PROVE FALSE
    OBVIOUS
  <2>1. journals[o].kind \in Kinds /\ journals[o].kind \notin {"start", "stop"}
        /\ journals[o].env \in Env
    BY JournalRecords DEF OpenJournal, TypeOK, JournalRecord, NoJournal, CoreTransactions, Kinds
  <2>2. Claims(o, journals[o].kind, journals[o].env)
        /\ Claims(o, operations[o].kind, operations[o].env)
    BY DEF Claims, Belongs, Keeps
  <2> QED BY <1>1, <1>2, <2>1, <2>2 DEF StoresInv, OneHome
<1> QED BY <1>1, <1>2, <1>3, <1>4

Slightly(w) == Slight(w) /\ ~Succeeds(w)

LEMMA ProcessWrites ==
  ASSUME TypeOK, NEW e \in Env, environments[e].state # "absent"
  PROVE  /\ \A s : s # "absent" => Slightly(PutState(e, s))
         /\ \A s : Slightly(Marked(e, s))
         /\ \A r : Slightly(PutLaunch(e, r))
         /\ \A from, to : to # "absent" =>
              \A w \in ToSet(PutStateIf(e, from, to)) : Slightly(w)
<1>1. environments[e] \in EnvironmentRecord
  BY DEF TypeOK
<1>2. \A s : s # "absent" => Slightly(PutState(e, s))
  BY <1>1 DEF PutState, PutEnvironment, Write, EnvironmentRecord, Slightly, Slight,
              Continues, Plain, Succeeds
<1>3. (\A s : Slightly(Marked(e, s))) /\ \A r : Slightly(PutLaunch(e, r))
  BY DEF Marked, PutLaunch, Write, Slightly, Slight, Continues, Plain, Succeeds
<1>4. \A from, to : ToSet(PutStateIf(e, from, to)) \subseteq {PutState(e, to)}
  BY FewWrites DEF PutStateIf
<1> QED BY <1>2, <1>3, <1>4

LEMMA EndedSlightly ==
  ASSUME TypeOK, NEW o \in Op, operations[o].kind \in {"start", "stop"}, NEW s \in Terminal
  PROVE  /\ Slightly(Ended(o, s)) /\ \A w \in ToSet(Settle(o, s)) : Slightly(w)
         /\ environments[operations[o].env].state # "absent" =>
              \A w \in ToSet(FailScript(o)) : Slightly(w)
         /\ FailScript(o) \in Script
<1>1. Slightly(Ended(o, s)) /\ Slightly(Ended(o, "failed"))
  BY EndedFields
     DEF Slightly, Slight, Continues, Plain, Succeeds, Terminal, Kinds, Built, CoreTransactions
<1>2. (\A w \in ToSet(Settle(o, s)) : Slightly(w))
      /\ \A w \in ToSet(Settle(o, "failed")) : Slightly(w)
  BY <1>1, SettleWrites
<1>3. operations[o].env \in Env
  BY OperationRecords
<1>4. ASSUME environments[operations[o].env].state # "absent",
             NEW w \in ToSet(FailScript(o))
      PROVE  Slightly(w)
  <2> DEFINE k == operations[o].kind
             first == IF o \in aborted THEN <<>> ELSE Settle(o, "failed")
             second == PutStateIf(operations[o].env, During(k), Reverted(k))
  <2>1. first \in Script /\ second \in Script
    BY <1>3, Settled, Singletons, StateWrites DEF Terminal, During, Reverted, PutStateIf, EnvironmentStates
  <2>2. ToSet(FailScript(o)) = ToSet(first) \cup ToSet(second)
    BY <2>1, JoinedWrites DEF FailScript
  <2>3. ToSet(first) = {} \/ ToSet(first) = ToSet(Settle(o, "failed"))
    BY FewWrites
  <2>4. Reverted(k) # "absent"
    BY DEF Reverted
  <2> QED BY <1>2, <1>3, <1>4, <2>2, <2>3, <2>4, ProcessWrites
<1>5. FailScript(o) \in Script
  BY FailedStartOrStop DEF OfKind
<1> QED BY <1>1, <1>2, <1>3, <1>4, <1>5

LEMMA ProcessStep ==
  ASSUME TypeOK, TypeOK', StoresInv, NEW o \in Op, OfKind(o, {"start", "stop"}),
         todo = <<>>, UNCHANGED files, UNCHANGED << mode, entries >>,
         UNCHANGED controllers \/ Finished(o), \A w \in Waiting' : Slightly(w)
  PROVE  StoresInv'
<1>1. ~OpenJournal(o)
  BY ProcessRequest
<1>2. /\ \A q \in Op : controllers'[q] => controllers[q]
      /\ \A q \in Op : controllers[q] /\ ~controllers'[q] => ~OpenJournal(q)
  BY <1>1, TaskEnded, NoneEnded
<1> QED BY <1>2, FilesKept, SlightProceeds, StoresProceed DEF Slightly

LEMMA StoresStartTask ==
  ASSUME TypeOK, TypeOK', StoresInv, NEW o \in Op,
         LaunchIntent(o) \/ Identify(o) \/ Ready(o) \/ StartFails(o)
  PROVE  StoresInv'
<1> DEFINE e == operations[o].env
<1>1. /\ OfKind(o, {"start", "stop"}) /\ todo = <<>> /\ UNCHANGED files
      /\ UNCHANGED << mode, entries >> /\ (UNCHANGED controllers \/ Finished(o))
  BY DurableFiles DEF LaunchIntent, Identify, Ready, StartFails, Spawned, TaskOf, TaskReturns, OfKind, volatile
<1>2. e \in Env /\ environments[e].state # "absent" /\ operations[o].kind \in {"start", "stop"}
  BY <1>1, ProcessRequest
<1>3. ASSUME LaunchIntent(o) \/ Identify(o) PROVE \A w \in Waiting' : Slightly(w)
  <2>1. \E r : Waiting' = {PutLaunch(e, r)}
    BY <1>3, FewWrites DEF LaunchIntent, Identify, Run, Spawning, Waiting
  <2> QED BY <1>2, <2>1, ProcessWrites
<1>4. ASSUME Ready(o) PROVE \A w \in Waiting' : Slightly(w)
  <2> DEFINE mark == << Marked(e, "running") >>
             settle == Settle(o, "succeeded")
             put == << PutState(e, "running") >>
  <2>1. /\ mark \in Script /\ settle \in Script /\ put \in Script /\ mark \o settle \in Script
    BY <1>2, LaunchMarks, StateWrites, Singletons, Settled, Joined DEF Terminal, EnvironmentStates
  <2>2. todo' = (mark \o settle) \o put
    BY <1>4 DEF Ready, Run
  <2>3. Waiting' = ToSet(mark) \cup ToSet(settle) \cup ToSet(put)
    BY <2>1, <2>2, JoinedWrites DEF Waiting
  <2>4. ToSet(mark) = {Marked(e, "running")} /\ ToSet(put) = {PutState(e, "running")}
    BY FewWrites
  <2> QED BY <1>2, <2>3, <2>4, ProcessWrites, EndedSlightly DEF Terminal
<1>5. ASSUME StartFails(o) PROVE \A w \in Waiting' : Slightly(w)
  <2> DEFINE mark == IF Previous(o, e) THEN <<>> ELSE << Marked(e, "ended") >>
  <2>1. mark \in Script /\ FailScript(o) \in Script
    BY <1>1, <1>2, LaunchMarks, Singletons, FailedStartOrStop
  <2>2. Waiting' = ToSet(mark) \cup ToSet(FailScript(o))
    BY <1>5, <2>1, JoinedWrites DEF StartFails, Run, Waiting
  <2>3. ToSet(mark) \subseteq {Marked(e, "ended")}
    BY FewWrites
  <2> QED BY <1>2, <2>2, <2>3, ProcessWrites, EndedSlightly DEF Terminal
<1> QED BY <1>1, <1>3, <1>4, <1>5, ProcessStep

LEMMA StoresStopTask ==
  ASSUME TypeOK, TypeOK', StoresInv, NEW o \in Op, StopReturns(o) \/ StopUnconfirmed(o)
  PROVE  StoresInv'
<1> DEFINE e == operations[o].env
<1>1. /\ OfKind(o, {"start", "stop"}) /\ todo = <<>> /\ UNCHANGED files
      /\ UNCHANGED << mode, entries >> /\ (UNCHANGED controllers \/ Finished(o))
  BY DurableFiles DEF StopReturns, StopUnconfirmed, TaskOf, TaskReturns, OfKind
<1>2. e \in Env /\ environments[e].state # "absent" /\ operations[o].kind \in {"start", "stop"}
  BY <1>1, ProcessRequest
<1>3. PICK s \in {"ended", "unverifiable"}, rest \in
        {FailScript(o), Settle(o, "succeeded") \o << PutState(e, "stopped") >>} :
          todo' = << Marked(e, s) >> \o rest
  <2>1. ASSUME StopReturns(o)
        PROVE  todo' = << Marked(e, "ended") >>
                 \o (IF o \in aborted THEN FailScript(o)
                     ELSE Settle(o, "succeeded") \o << PutState(e, "stopped") >>)
    BY <2>1 DEF StopReturns, Run
  <2>2. ASSUME StopUnconfirmed(o)
        PROVE  todo' = << Marked(e, "unverifiable") >> \o FailScript(o)
    BY <2>2 DEF StopUnconfirmed, Run
  <2>3. CASE StopReturns(o)
    <3>1. CASE o \in aborted
      BY <2>1, <2>3, <3>1
    <3>2. CASE o \notin aborted
      BY <2>1, <2>3, <3>2
    <3> QED BY <3>1, <3>2
  <2> QED BY <2>2, <2>3
<1>4. << Marked(e, s) >> \in Script /\ << PutState(e, "stopped") >> \in Script
      /\ Settle(o, "succeeded") \in Script /\ FailScript(o) \in Script
  BY <1>1, <1>2, LaunchMarks, StateWrites, Singletons, Settled, FailedStartOrStop
     DEF Terminal, EnvironmentStates
<1>5. /\ ToSet(Settle(o, "succeeded") \o << PutState(e, "stopped") >>) =
           ToSet(Settle(o, "succeeded")) \cup {PutState(e, "stopped")}
      /\ Settle(o, "succeeded") \o << PutState(e, "stopped") >> \in Script
  <2>1. ToSet(Settle(o, "succeeded") \o << PutState(e, "stopped") >>) =
          ToSet(Settle(o, "succeeded")) \cup ToSet(<< PutState(e, "stopped") >>)
    BY <1>4, JoinedWrites
  <2>2. ToSet(<< PutState(e, "stopped") >>) = {PutState(e, "stopped")}
    BY FewWrites
  <2>3. Settle(o, "succeeded") \o << PutState(e, "stopped") >> \in Script
    BY <1>4, Joined
  <2> QED BY <2>1, <2>2, <2>3
<1>6. Waiting' = {Marked(e, s)} \cup ToSet(rest)
  <2>1. rest \in Script
    BY <1>4, <1>5
  <2>2. ToSet(<< Marked(e, s) >> \o rest) = ToSet(<< Marked(e, s) >>) \cup ToSet(rest)
    BY <1>4, <2>1, JoinedWrites
  <2> QED BY <1>3, <2>2, FewWrites DEF Waiting
<1>7. \A w \in ToSet(rest) : Slightly(w)
  <2>1. \A w \in ToSet(Settle(o, "succeeded")) \cup ToSet(FailScript(o)) : Slightly(w)
    BY <1>2, EndedSlightly DEF Terminal
  <2>2. Slightly(PutState(e, "stopped"))
    BY <1>2, ProcessWrites
  <2> QED BY <1>5, <2>1, <2>2
<1>8. \A w \in Waiting' : Slightly(w)
  BY <1>2, <1>6, <1>7, ProcessWrites
<1> QED BY <1>1, <1>8, ProcessStep

\* Operations failed, or environments put back, one after the other.
LEMMA FailuresSlightly ==
  ASSUME TypeOK, NEW S \in SUBSET {o \in Op : Pending(o, {"start", "stop"})},
         NEW order \in SetToSeqs(S)
  PROVE  Failures(order) \in Script /\ \A w \in ToSet(Failures(order)) : Slightly(w)
<1>1. Failures(order) \in Script
  BY FailuresWrites DEF Pending
<1>2. IsFiniteSet(S)
  BY FiniteAssumption, FS_Subset
<1>3. \A i \in DOMAIN order : order[i] \in S
  BY <1>2, Enumerations
<1>4. ASSUME NEW i \in DOMAIN order PROVE Slightly(Ended(order[i], "failed"))
  BY <1>3, EndedSlightly DEF Terminal, Pending
<1>5. \A w \in ToSet(Failures(order)) : \E i \in DOMAIN order : w = Ended(order[i], "failed")
  BY <1>2, Enumerations DEF Failures, ToSet
<1> QED BY <1>1, <1>4, <1>5

LEMMA StoresExitCallback ==
  ASSUME TypeOK, TypeOK', StoresInv, NEW o \in Op, NEW e \in Env, ExitCallback(o, e)
  PROVE  StoresInv'
<1>1. /\ todo = <<>> /\ UNCHANGED durable /\ UNCHANGED << mode, entries, controllers >>
      /\ operations[o].env = e
  BY DEF ExitCallback
<1>2. environments[e].state # "absent"
  BY <1>1 DEF StoresInv, Present, Unused
<1>3. PICK strays \in SetToSeqs(StrayStarts(e)) :
        todo' = IF launches[e].state # "running" \/ launches[e].by # o THEN <<>> ELSE
             << Marked(e, "ended") >>
             \o (IF mode = "closing" THEN <<>> ELSE
                  (IF environments[e].state \in {"running", "starting"}
                     THEN << PutState(e, "stopped") >> ELSE <<>>)
                  \o Failures(strays))
  BY DEF ExitCallback, Run
<1> DEFINE mark == << Marked(e, "ended") >>
           put == IF environments[e].state \in {"running", "starting"}
                     THEN << PutState(e, "stopped") >> ELSE <<>>
<1>4. StrayStarts(e) \subseteq {q \in Op : Pending(q, {"start", "stop"})}
  BY DEF StrayStarts, Pending
<1>5. Failures(strays) \in Script /\ \A w \in ToSet(Failures(strays)) : Slightly(w)
  BY <1>4, FailuresSlightly
<1>6. mark \in Script /\ put \in Script
  BY LaunchMarks, StateWrites, Singletons DEF EnvironmentStates
<1>7. /\ ToSet(mark) = {Marked(e, "ended")} /\ ToSet(put) \subseteq {PutState(e, "stopped")}
  BY FewWrites
<1>8. Waiting' \subseteq ToSet(mark) \cup ToSet(put) \cup ToSet(Failures(strays))
  <2>1. put \o Failures(strays) \in Script /\ <<>> \in Script
        /\ ToSet(put \o Failures(strays)) = ToSet(put) \cup ToSet(Failures(strays))
    BY <1>5, <1>6, Joined, JoinedWrites, Singletons
  <2>2. ToSet(mark \o (put \o Failures(strays))) = ToSet(mark) \cup ToSet(put \o Failures(strays))
        /\ ToSet(mark \o <<>>) = ToSet(mark) \cup {} /\ ToSet(<<>>) = {}
    BY <1>6, <2>1, JoinedWrites, FewWrites
  <2>3. todo' \in {<<>>, mark \o <<>>, mark \o (put \o Failures(strays))}
    BY <1>3
  <2> QED BY <2>1, <2>2, <2>3 DEF Waiting
<1>9. \A w \in Waiting' : Slightly(w)
  BY <1>2, <1>5, <1>7, <1>8, ProcessWrites
<1> QED BY <1>1, <1>9, SlightStep DEF Slightly

LEMMA StoresReconcileLaunch ==
  ASSUME TypeOK, TypeOK', StoresInv, NEW e \in Env, ReconcileLaunch(e) PROVE StoresInv'
<1>1. /\ todo = <<>> /\ UNCHANGED files /\ UNCHANGED << mode, controllers >>
      /\ launches[e].state # "none"
  BY DEF ReconcileLaunch, Unreconciled
<1>2. launches[e] # NoLaunch /\ environments[e].state # "absent"
  BY <1>1 DEF NoLaunch, StoresInv, LaunchedIsPresent
<1>3. PICK resolution \in {"adopted", "stopped", "unverifiable"}, script \in
        { <<>>, << Marked(e, "unverifiable") >>, << Marked(e, "ended") >>,
          << Marked(e, "stopping"), Marked(e, "ended") >>,
          << Marked(e, "stopping"), Marked(e, "unverifiable") >> } :
        Resolve(e, resolution, script)
  BY DEF ReconcileLaunch
<1>4. \A f \in Env : entries'[f] # entries[f] => launches[f] # NoLaunch
  BY <1>2, <1>3 DEF Resolve, TypeOK
<1>5. \A w \in Waiting' : \E s : w = Marked(e, s)
  BY <1>3, FewWrites DEF Resolve, Run, Waiting
<1>6. \A w \in Waiting' : Slightly(w)
  BY <1>2, <1>5, ProcessWrites
<1> QED BY <1>1, <1>4, <1>6, FilesKept, NoneEnded, SlightProceeds, StoresProceed DEF Slightly

LEMMA StoresProcessesReconciled ==
  ASSUME TypeOK, TypeOK', StoresInv, ProcessesReconciled PROVE StoresInv'
<1> DEFINE stale == {e \in Env : /\ entries[e] # "none"
                                /\ environments[e].state # Reconciled(e)}
           pending == {o \in Op : Pending(o, {"start", "stop"})}
           Corrections(order) ==
             [i \in DOMAIN order |-> PutState(order[i], Reconciled(order[i]))]
<1>1. /\ todo = <<>> /\ UNCHANGED durable /\ UNCHANGED << entries, controllers >>
      /\ mode = "recoverProcesses" /\ mode' = "recoverCore"
  BY DEF ProcessesReconciled
<1>2. PICK states \in SetToSeqs(stale), interrupted \in SetToSeqs(pending) :
        todo' = Corrections(states) \o Failures(interrupted)
  BY DEF ProcessesReconciled, Run
<1>3. Failures(interrupted) \in Script /\ \A w \in ToSet(Failures(interrupted)) : Slightly(w)
  BY FailuresSlightly
<1>4. IsFiniteSet(stale)
  BY FiniteAssumption, FS_Subset
<1>5. /\ DOMAIN states = 1..Cardinality(stale) /\ Cardinality(stale) \in Nat
      /\ \A i \in DOMAIN states : states[i] \in stale
  BY <1>4, Enumerations
<1>6. \A i \in DOMAIN states : LET w == PutState(states[i], Reconciled(states[i]))
                               IN  w \in WriteRecord /\ Slightly(w)
  <2> SUFFICES ASSUME NEW i \in DOMAIN states
               PROVE  LET w == PutState(states[i], Reconciled(states[i]))
                      IN  w \in WriteRecord /\ Slightly(w)
    OBVIOUS
  <2>1. states[i] \in Env /\ entries[states[i]] # "none"
    BY <1>5
  <2>2. environments[states[i]].state # "absent"
    BY <2>1 DEF StoresInv, LaunchedIsPresent
  <2>3. Reconciled(states[i]) \in EnvironmentStates \ {"absent"}
    BY DEF Reconciled, EnvironmentStates
  <2> QED BY <2>1, <2>2, <2>3, ProcessWrites, StateWrites
<1>7. Corrections(states) \in Script
  BY <1>5, <1>6, Mapped
<1>8. \A w \in ToSet(Corrections(states)) : Slightly(w)
  <2>1. \A w \in ToSet(Corrections(states)) :
          \E i \in DOMAIN states : w = PutState(states[i], Reconciled(states[i]))
    BY <1>5 DEF ToSet
  <2> QED BY <1>6, <2>1
<1>9. Waiting' = ToSet(Corrections(states)) \cup ToSet(Failures(interrupted))
  BY <1>2, <1>3, <1>7, JoinedWrites DEF Waiting
<1>10. \A w \in Waiting' : Slightly(w)
  BY <1>3, <1>8, <1>9
<1> QED BY <1>1, <1>10, StoresKept, NoneEnded, SlightProceeds, StoresProceed DEF Slightly

(***************************************************************************)
(* The dispatched requests.                                                *)
(***************************************************************************)
Opens(w) == w.store = "operations" /\ w.val.status = "active"
Opening(w) == Opens(w) \/ (Plain(w) /\ ~Succeeds(w))

LEMMA OpeningBefore ==
  ASSUME NEW v, NEW w, Opening(v), ~Opens(w) PROVE Before(v, w)
  BY DEF Opening, Opens, Plain, Succeeds, Before

LEMMA LedgerBefore ==
  ASSUME NEW o, NEW k, NEW s
  PROVE  /\ \A v : Before(v, PutLedger(o, k, s))
         /\ \A w : s # "ok" \/ ~Opens(w) => Before(PutLedger(o, k, s), w)
  BY DEF PutLedger, Write, Opens, Before

\* A request writes its ledger record first, and its outcome after its effect.
LEMMA RequestWrites ==
  ASSUME NEW o \in Op, NEW k \in Kinds, NEW effect \in Script, NEW rest \in Script,
         todo' = Dispatched(o, k, effect) \o rest
  PROVE  /\ todo' = << PutLedger(o, k, "in-progress") >>
                      \o ((effect \o << PutLedger(o, k, "ok") >>) \o rest)
         /\ (effect \o << PutLedger(o, k, "ok") >>) \o rest \in Script
         /\ effect \o << PutLedger(o, k, "ok") >> \in Script
         /\ << PutLedger(o, k, "in-progress") >> \in Script
         /\ << PutLedger(o, k, "ok") >> \in Script
         /\ ToSet(effect \o << PutLedger(o, k, "ok") >>) =
              ToSet(effect) \cup {PutLedger(o, k, "ok")}
         /\ ToSet((effect \o << PutLedger(o, k, "ok") >>) \o rest) =
              ToSet(effect) \cup {PutLedger(o, k, "ok")} \cup ToSet(rest)
         /\ Waiting' = {PutLedger(o, k, "in-progress"), PutLedger(o, k, "ok")}
                         \cup ToSet(effect) \cup ToSet(rest)
<1> DEFINE first == << PutLedger(o, k, "in-progress") >>
           last == << PutLedger(o, k, "ok") >>
<1>1. first \in Script /\ last \in Script
  BY LedgerWrites, Singletons
<1>2. effect \o last \in Script /\ (effect \o last) \o rest \in Script
  BY <1>1, Joined
<1>3. todo' = first \o ((effect \o last) \o rest)
  <2>1. (first \o effect) \o last = first \o (effect \o last)
    BY <1>1, Regrouped
  <2>2. (first \o (effect \o last)) \o rest = first \o ((effect \o last) \o rest)
    BY <1>1, <1>2, Regrouped
  <2> QED BY <2>1, <2>2 DEF Dispatched
<1>4. ToSet(first) = {PutLedger(o, k, "in-progress")} /\ ToSet(last) = {PutLedger(o, k, "ok")}
  BY FewWrites
<1>5. ToSet(effect \o last) = ToSet(effect) \cup {PutLedger(o, k, "ok")}
  BY <1>1, <1>4, JoinedWrites
<1>6. ToSet((effect \o last) \o rest) = ToSet(effect) \cup {PutLedger(o, k, "ok")} \cup ToSet(rest)
  BY <1>2, <1>5, JoinedWrites
<1>7. Waiting' = ToSet(first) \cup ToSet((effect \o last) \o rest)
  BY <1>1, <1>2, <1>3, JoinedWrites DEF Waiting
<1> QED BY <1>1, <1>2, <1>3, <1>4, <1>5, <1>6, <1>7

LEMMA RequestWaiting ==
  ASSUME NEW o \in Op, NEW k \in Kinds, NEW effect \in Script, NEW rest \in Script,
         todo' = Dispatched(o, k, effect) \o rest
  PROVE  Waiting' = {PutLedger(o, k, "in-progress"), PutLedger(o, k, "ok")}
                      \cup ToSet(effect) \cup ToSet(rest)
  BY RequestWrites, Zenon

LEMMA RequestOrder ==
  ASSUME NEW o \in Op, NEW k \in Kinds, NEW effect \in Script, NEW rest \in Script,
         todo' = Dispatched(o, k, effect) \o rest, InOrder(effect), InOrder(rest),
         \A w \in ToSet(rest) : ~Opens(w),
         \A v \in ToSet(effect), w \in ToSet(rest) : Before(v, w)
  PROVE  InOrder(todo') /\ Begins(o)'
<1> DEFINE first == << PutLedger(o, k, "in-progress") >>
           last == << PutLedger(o, k, "ok") >>
           middle == effect \o last
           tail == middle \o rest
<1>0. /\ todo' = first \o tail /\ tail \in Script /\ middle \in Script
      /\ first \in Script /\ last \in Script
      /\ ToSet(middle) = ToSet(effect) \cup {PutLedger(o, k, "ok")}
      /\ ToSet(tail) = ToSet(effect) \cup {PutLedger(o, k, "ok")} \cup ToSet(rest)
  <2>1. todo' = first \o tail
    BY RequestWrites
  <2>2. first \in Script /\ last \in Script /\ middle \in Script /\ tail \in Script
    BY LedgerWrites, Singletons, Joined
  <2>3. ToSet(middle) = ToSet(effect) \cup {PutLedger(o, k, "ok")}
    BY <2>2, JoinedWrites, FewWrites
  <2>4. ToSet(tail) = ToSet(middle) \cup ToSet(rest)
    BY <2>2, JoinedWrites
  <2> QED BY <2>1, <2>2, <2>3, <2>4
<1>1. ToSet(first) = {PutLedger(o, k, "in-progress")} /\ ToSet(last) = {PutLedger(o, k, "ok")}
  BY FewWrites
<1>2. InOrder(middle)
  <2>1. InOrder(last) /\ \A v \in ToSet(effect), w \in ToSet(last) : Before(v, w)
    BY <1>1, ShortOrder, LedgerBefore
  <2> HIDE DEF last
  <2> QED BY <1>0, <2>1, JoinedOrder
<1>3. \A v \in ToSet(middle), w \in ToSet(rest) : Before(v, w)
  BY <1>0, LedgerBefore
<1>4. InOrder(tail)
  BY <1>0, <1>2, <1>3, JoinedOrder
<1>5. \A v \in ToSet(first), w \in ToSet(tail) : Before(v, w)
  BY <1>1, LedgerBefore
<1>6. InOrder(todo')
  BY <1>0, <1>4, <1>5, ShortOrder, JoinedOrder
<1>7. Begins(o)'
  <2>1. first # <<>> /\ Head(first) = PutLedger(o, k, "in-progress")
    OBVIOUS
  <2>2. todo' # <<>> /\ Head(todo') = PutLedger(o, k, "in-progress")
    BY <1>0, <2>1, FirstWrite
  <2> QED BY <2>2 DEF Begins, PutLedger, Write
<1> QED BY <1>6, <1>7

\* Request o of kind k about environment e has begun: its block is  effect ,
\* between the two writes of its ledger record, and  rest  after them.
Requested(o, k, e, effect, rest) ==
  /\ Idle /\ UNCHANGED durable /\ UNCHANGED << entries, controllers, mode >>
  /\ ledger[o].state = "none"
  /\ effect \in Script /\ rest \in Script
  /\ todo' = Dispatched(o, k, effect) \o rest /\ InOrder(effect) /\ InOrder(rest)
  /\ \A w \in ToSet(rest) : ~Opens(w)
  /\ \A v \in ToSet(effect), w \in ToSet(rest) : Before(v, w)
  /\ \A w \in ToSet(effect) \cup ToSet(rest) : Begun(o, k, e, w)
  /\ environments[e].state = "absent" =>
       effect # <<>> /\ Head(effect).store = "environments" /\ Head(effect).key = e
  /\ k = "create" => environments[e].state = "absent"
  /\ \A q \in Op : journals[q].kind = "create" => journals[q].env # e
  /\ Keeps(o, k, e)' =>
       /\ Live(o)' \/ Closes(o)'
       /\ \A q \in Op : journals[q].kind \in Kinds => journals[q].env # e

LEMMA RequestStarts ==
  ASSUME TypeOK, TypeOK', StoresInv, NEW o \in Op, NEW k \in Kinds, NEW e \in Env,
         NEW effect, NEW rest, Requested(o, k, e, effect, rest)
  PROVE  StoresInv'
<1> USE DEF Requested
<1>1. \A s : s # "none" => Begun(o, k, e, PutLedger(o, k, s))
  BY DEF PutLedger, Write, Begun
<1>2. \A w \in Waiting' : Begun(o, k, e, w)
  <2>1. Waiting' = {PutLedger(o, k, "in-progress"), PutLedger(o, k, "ok")}
                     \cup ToSet(effect) \cup ToSet(rest)
    BY RequestWrites
  <2> QED BY <1>1, <2>1
<1>3. environments[e].state = "absent" => Arrives(e)'
  <2> SUFFICES ASSUME environments[e].state = "absent" PROVE Arrives(e)'
    OBVIOUS
  <2> DEFINE first == << PutLedger(o, k, "in-progress") >>
             tail == (effect \o << PutLedger(o, k, "ok") >>) \o rest
  <2>1. first # <<>> /\ Head(first) = PutLedger(o, k, "in-progress") /\ Len(first) = 1
    OBVIOUS
  <2>2. tail # <<>> /\ Head(tail) = Head(effect)
    BY RequestWrites, FirstWrite
  <2>3. todo' = first \o tail /\ first \in Script /\ tail \in Script
    BY RequestWrites
  <2>4. todo' # <<>> /\ Head(todo').store = "ledger"
    BY <2>1, <2>3, FirstWrite DEF PutLedger, Write
  <2>5. Tail(todo') = tail
    <3> HIDE DEF tail
    <3>1. \A t \in Script : Tail(first \o t) = t
      BY DEF Script
    <3> QED BY <2>3, <3>1
  <2> QED BY <2>2, <2>4, <2>5 DEF Arrives
<1>4. todo' \in Script
  BY DEF TypeOK, Script
<1>5. InOrder(todo') /\ Begins(o)'
  BY RequestOrder
<1>6. UNCHANGED << Stores, launches, entries, controllers, mode >>
  BY StoresKept
<1>7. Starts(o, k, e)
  BY <1>2, <1>3, <1>4, <1>5, <1>6 DEF Starts
<1> QED BY <1>7, StoresStart

\* An environment with a recorded generation is not being created.
LEMMA NotCreating ==
  ASSUME TypeOK, StoresInv, Idle, NEW e \in Env, NEW g \in Op, generations[g] = "recorded",
         environments[e].gen = g \/ operations[g].env = e
  PROVE  \A q \in Op : journals[q].kind = "create" => journals[q].env # e
<1> SUFFICES ASSUME NEW q \in Op, journals[q].kind = "create", journals[q].env = e
             PROVE  FALSE
  OBVIOUS
<1>1. Keeps(q, "create", e) /\ "create" \in Kinds /\ Waiting = {}
  BY NothingWaits DEF Keeps, Kinds, Idle
<1>2. operations[g].env = e => operations[g].kind \in Kinds
  BY NoneAssumption DEF TypeOK, OperationRecord, NoOperation
<1>3. q = g
  BY <1>1, <1>2 DEF StoresInv, CreatedAlone, PointsTo, Claims, Belongs
<1>4. Live(q)
  BY <1>1 DEF StoresInv, JournalIsLive, Serving, Idle, Closes
<1> QED BY <1>3, <1>4 DEF StoresInv, LiveNotRecorded

LEMMA FourOrder ==
  ASSUME NEW a, NEW b, NEW c, NEW d, Before(a, b), Before(a, c), Before(a, d),
         Before(b, c), Before(b, d), Before(c, d)
  PROVE  InOrder(<< a, b, c, d >>)
  BY DEF InOrder

\* The writes a new transaction makes before its first await.
IsPrepared(o, k, e, begin, open, register, stage) ==
  /\ begin.store = "operations" /\ begin.key = o /\ begin.val.kind = k
  /\ begin.val.env = e /\ begin.val.status = "active"
  /\ open.store = "journals" /\ open.key = o /\ open.val.kind = k
  /\ open.val.env = e /\ open.val.gen = o
  /\ register.store = "controllers" /\ register.key = o
  /\ stage.store = "generations" /\ stage.key = o /\ stage.val = "staged"

LEMMA PreparedFields ==
  ASSUME NEW o, NEW k, NEW e, NEW p
  PROVE  IsPrepared(o, k, e, PutOperation(o, k, e, "active"),
           PutJournal(o, [kind |-> k, env |-> e, gen |-> o, plan |-> p, phase |-> "open"]),
           Register(o), PutGeneration(o, "staged"))
  BY DEF IsPrepared, PutOperation, PutJournal, Register, PutGeneration, Write

LEMMA PreparedOrder ==
  ASSUME NEW o, NEW k \in Built, NEW e, NEW begin, NEW open, NEW register, NEW stage,
         IsPrepared(o, k, e, begin, open, register, stage)
  PROVE  /\ InOrder(<< begin, open, register, stage >>)
         /\ InOrder(<< begin, register, open, stage >>)
<1>1. k # "none"
  BY DEF Built, CoreTransactions
<1>2. /\ \A w : Before(begin, w)
      /\ Before(open, register) /\ Before(open, stage)
      /\ Before(register, open) /\ Before(register, stage)
  BY <1>1 DEF Before, IsPrepared
<1> QED BY <1>2, FourOrder

LEMMA PreparedBegun ==
  ASSUME NEW o, NEW k \in Built, NEW e, NEW begin, NEW open, NEW register, NEW stage,
         IsPrepared(o, k, e, begin, open, register, stage),
         {begin, open, register, stage} \subseteq Waiting'
  PROVE  /\ Keeps(o, k, e)' /\ Live(o)'
         /\ \A w \in {begin, open, register, stage} : Begun(o, k, e, w)
<1>1. Keeps(o, k, e)' /\ Live(o)'
  BY DEF IsPrepared, Keeps, Live
<1>2. Begun(o, k, e, begin) /\ Begun(o, k, e, open) /\ Begun(o, k, e, register)
      /\ Begun(o, k, e, stage)
  BY <1>1 DEF Begun, IsPrepared
<1> QED BY <1>1, <1>2

LEMMA StoresCreateEnvironment ==
  ASSUME TypeOK, TypeOK', StoresInv, NEW o \in Op, NEW e \in Env, CreateEnvironment(o, e)
  PROVE  StoresInv'
<1> DEFINE put == PutEnvironment(e, [NoEnvironment EXCEPT !.state = "creating"])
           begin == PutOperation(o, "create", e, "active")
           open == PutJournal(o, [kind |-> "create", env |-> e, gen |-> o, plan |-> None,
                                  phase |-> "open"])
           register == Register(o)
           stage == PutGeneration(o, "staged")
           prepared == << begin, open, register, stage >>
           effect == << put >> \o prepared
<1>1. /\ Idle /\ UNCHANGED durable /\ UNCHANGED << entries, controllers, mode >>
      /\ ledger[o].state = "none" /\ environments[e].state = "absent"
      /\ todo' = Dispatched(o, "create", effect)
  BY DEF CreateEnvironment, NewRequest, Run, volatile, Prepared
<1>2. put.store = "environments" /\ put.key = e /\ put.val.state = "creating" /\ put.val.gen = None
      /\ put \in WriteRecord
  <2>1. [NoEnvironment EXCEPT !.state = "creating"] \in EnvironmentRecord
    BY DEF NoEnvironment, EnvironmentRecord, EnvironmentStates
  <2> QED BY <2>1, EnvironmentWrites DEF PutEnvironment, Write, NoEnvironment
<1>3. "create" \in Kinds /\ "create" \in Built /\ "create" \in CoreTransactions
  BY DEF Kinds, Built, CoreTransactions
<1>4. << put >> \in Script /\ prepared \in Script /\ effect \in Script
  BY <1>2, <1>3, PreparedWrites, Singletons, Joined DEF Prepared
<1>5. IsPrepared(o, "create", e, begin, open, register, stage)
  BY PreparedFields
<1> HIDE DEF put, begin, open, register, stage
<1>6. ToSet(prepared) = {begin, open, register, stage} /\ InOrder(prepared)
  <2>1. ToSet(prepared) = {begin, open, register, stage}
    BY FourWrites
  <2>2. InOrder(prepared)
    BY <1>3, <1>5, PreparedOrder
  <2> QED BY <2>1, <2>2
<1>7. ToSet(<< put >>) = {put} /\ InOrder(<< put >>) /\ \A w : Before(put, w)
  BY <1>2, FewWrites, ShortOrder DEF Before
<1>8. effect # <<>> /\ Head(effect) = put
  BY <1>4, FirstWrite
<1> HIDE DEF prepared
<1>9. ToSet(effect) = {put, begin, open, register, stage} /\ InOrder(effect)
  <2>1. ToSet(effect) = ToSet(<< put >>) \cup ToSet(prepared)
    BY <1>4, JoinedWrites
  <2>2. InOrder(effect)
    BY <1>4, <1>6, <1>7, JoinedOrder
  <2> QED BY <1>6, <1>7, <2>1, <2>2
<1> HIDE DEF effect
<1>10. todo' = Dispatched(o, "create", effect) \o <<>> /\ <<>> \in Script
       /\ InOrder(<<>>) /\ ToSet(<<>>) = {}
  BY <1>1, <1>3, <1>4, DispatchedWrites, Regrouped, Singletons, ShortOrder, FewWrites
<1>11. {begin, open, register, stage} \subseteq Waiting'
  <2>1. Waiting' = {PutLedger(o, "create", "in-progress"), PutLedger(o, "create", "ok")}
                     \cup ToSet(effect) \cup ToSet(<<>>)
    BY <1>3, <1>4, <1>10, RequestWrites
  <2> QED BY <1>9, <2>1
<1>12. /\ Keeps(o, "create", e)' /\ Live(o)'
       /\ \A w \in {begin, open, register, stage} : Begun(o, "create", e, w)
  BY <1>3, <1>5, <1>11, PreparedBegun
<1>13. \A w \in ToSet(effect) \cup ToSet(<<>>) : Begun(o, "create", e, w)
  <2>1. Begun(o, "create", e, put)
    BY <1>2 DEF Begun
  <2> QED BY <1>9, <1>10, <1>12, <2>1
<1>14. \A q \in Op : journals[q].kind \in Kinds => journals[q].env # e
  BY <1>1 DEF StoresInv, Present, Unused
<1>15. Requested(o, "create", e, effect, <<>>)
  BY <1>1, <1>2, <1>3, <1>4, <1>8, <1>9, <1>10, <1>12, <1>13, <1>14 DEF Requested
<1> QED BY <1>3, <1>15, RequestStarts

LEMMA WithoutRest ==
  ASSUME NEW o \in Op, NEW k \in Kinds, NEW effect \in Script,
         todo' = Dispatched(o, k, effect)
  PROVE  /\ todo' = Dispatched(o, k, effect) \o <<>> /\ <<>> \in Script
         /\ InOrder(<<>>) /\ ToSet(<<>>) = {} /\ ToSet(effect) \subseteq Waiting'
<1>1. todo' = Dispatched(o, k, effect) \o <<>> /\ <<>> \in Script
      /\ InOrder(<<>>) /\ ToSet(<<>>) = {}
  BY DispatchedWrites, Regrouped, Singletons, ShortOrder, FewWrites
<1>2. Waiting' = {PutLedger(o, k, "in-progress"), PutLedger(o, k, "ok")}
                   \cup ToSet(effect) \cup ToSet(<<>>)
  BY <1>1, RequestWaiting
<1> QED BY <1>1, <1>2

\* A switch or an apply builds a generation of an environment without journals.
LEMMA StoresBuild ==
  ASSUME TypeOK, TypeOK', StoresInv, NEW o \in Op, NEW e \in Env, NEW k \in {"switch", "apply"},
         Idle, UNCHANGED durable, UNCHANGED << entries, controllers, mode >>,
         ledger[o].state = "none", environments[e].state # "absent",
         \A q \in Op : journals[q].kind \in Kinds => journals[q].env # e,
         NEW begin, NEW open, NEW register, NEW stage,
         IsPrepared(o, k, e, begin, open, register, stage),
         NEW effect \in Script,
         effect \in {<< begin, open, register, stage >>, << begin, register, open, stage >>},
         todo' = Dispatched(o, k, effect)
  PROVE  StoresInv'
<1>1. k \in Kinds /\ k \in Built /\ k # "create" /\ "create" \in Kinds
  BY DEF Kinds, Built, CoreTransactions
<1>2. ToSet(effect) = {begin, open, register, stage} /\ InOrder(effect)
  <2>1. CASE effect = << begin, open, register, stage >>
    <3>1. ToSet(effect) = {begin, open, register, stage}
      BY <2>1, FourWrites
    <3> QED BY <1>1, <2>1, <3>1, PreparedOrder
  <2>2. CASE effect = << begin, register, open, stage >>
    <3>1. ToSet(effect) = {begin, register, open, stage}
      BY <2>2, FourWrites
    <3> QED BY <1>1, <2>2, <3>1, PreparedOrder
  <2> QED BY <2>1, <2>2
<1>3. /\ todo' = Dispatched(o, k, effect) \o <<>> /\ <<>> \in Script
      /\ InOrder(<<>>) /\ ToSet(<<>>) = {} /\ {begin, open, register, stage} \subseteq Waiting'
  BY <1>1, <1>2, WithoutRest
<1>4. /\ Keeps(o, k, e)' /\ Live(o)'
      /\ \A w \in {begin, open, register, stage} : Begun(o, k, e, w)
  BY <1>1, <1>3, PreparedBegun
<1>5. Requested(o, k, e, effect, <<>>)
  BY <1>1, <1>2, <1>3, <1>4 DEF Requested
<1> QED BY <1>1, <1>5, RequestStarts

LEMMA StoresSwitch ==
  ASSUME TypeOK, TypeOK', StoresInv, NEW o \in Op, NEW e \in Env, SwitchCombination(o, e)
  PROVE  StoresInv'
<1> DEFINE begin == PutOperation(o, "switch", e, "active")
           open == PutJournal(o, [kind |-> "switch", env |-> e, gen |-> o, plan |-> None,
                                  phase |-> "open"])
           register == Register(o)
           stage == PutGeneration(o, "staged")
           effect == << begin, open, register, stage >>
<1>1. /\ Idle /\ UNCHANGED durable /\ UNCHANGED << entries, controllers, mode >>
      /\ ledger[o].state = "none" /\ environments[e].state # "absent"
      /\ todo' = Dispatched(o, "switch", effect)
  BY DEF SwitchCombination, MaySwitch, NewRequest, Run, volatile, Prepared
<1>2. \A q \in Op : journals[q].kind \in Kinds => journals[q].env # e
  BY DEF SwitchCombination, MaySwitch, HasJournal, CoreTransactions, ChangeTransactions,
         Kinds, TypeOK, JournalRecord, NoJournal
<1>3. effect \in Script
  BY PreparedWrites DEF Prepared, CoreTransactions
<1>4. IsPrepared(o, "switch", e, begin, open, register, stage)
  BY PreparedFields
<1> HIDE DEF begin, open, register, stage
<1> QED BY <1>1, <1>2, <1>3, <1>4, StoresBuild

LEMMA StoresApplyChange ==
  ASSUME TypeOK, TypeOK', StoresInv, NEW o \in Op, NEW e \in Env, NEW p \in Plan,
         ApplyChange(o, e, p)
  PROVE  StoresInv'
<1> DEFINE begin == PutOperation(o, "apply", e, "active")
           open == PutJournal(o, [kind |-> "apply", env |-> e, gen |-> o, plan |-> p,
                                  phase |-> "open"])
           register == Register(o)
           stage == PutGeneration(o, "staged")
           effect == << begin, register, open, stage >>
<1>1. /\ Idle /\ UNCHANGED durable /\ UNCHANGED << entries, controllers, mode >>
      /\ ledger[o].state = "none" /\ environments[e].state # "absent"
      /\ environments[e].gen # None
      /\ todo' = Dispatched(o, "apply", effect)
  BY DEF ApplyChange, Changeable, NewRequest, Run
<1>2. \A q \in Op : journals[q].kind \in Kinds => journals[q].env # e
  <2>1. environments[e].gen \in Op /\ generations[environments[e].gen] = "recorded"
    BY <1>1 DEF TypeOK, EnvironmentRecord, StoresInv, PointerIntact
  <2>2. \A q \in Op : journals[q].kind = "create" => journals[q].env # e
    BY <1>1, <2>1, NotCreating
  <2>3. \A q \in Op : journals[q].kind \in ChangeTransactions \cup {"switch"} => journals[q].env # e
    BY DEF ApplyChange, ChangeInProgress, HasJournal, ChangeTransactions
  <2>4. \A q \in Op : journals[q].kind \in Kinds =>
          journals[q].kind \in ChangeTransactions \cup {"switch", "create"}
    BY DEF ChangeTransactions, Kinds, TypeOK, JournalRecord, NoJournal, CoreTransactions
  <2> QED BY <2>2, <2>3, <2>4
<1>3. effect \in Script
  <2>1. [kind |-> "apply", env |-> e, gen |-> o, plan |-> p, phase |-> "open"] \in JournalRecord
    BY DEF JournalRecord
  <2> QED BY <2>1, OperationWrites, JournalWrites, OtherWrites, Quadruples
          DEF Kinds, GenerationStates
<1>4. IsPrepared(o, "apply", e, begin, open, register, stage)
  BY PreparedFields
<1> HIDE DEF begin, open, register, stage
<1> QED BY <1>1, <1>2, <1>3, <1>4, StoresBuild

(***************************************************************************)
(* Requests without a journal of their own.                                *)
(***************************************************************************)
Ordinary(o, k, e, w) ==
  \/ w.store = "controllers" /\ w.key = o
  \/ w.store = "launches" /\ w.key = e
  \/ w.store = "ledger" /\ w.key = o /\ w.val.state # "none"
  \/ w.store = "operations" /\ w.key = o /\ w.val.kind = k /\ w.val.env = e
  \/ /\ w.store = "environments" /\ w.key = e /\ w.val.state # "absent"
     /\ w.val.gen = environments[e].gen

LEMMA StoresOrdinary ==
  ASSUME TypeOK, TypeOK', StoresInv, NEW o \in Op, NEW e \in Env, NEW k \in Kinds \ {"create"},
         Idle, UNCHANGED durable, UNCHANGED << entries, controllers, mode >>,
         ledger[o].state = "none", environments[e].state # "absent",
         environments[e].gen # None,
         NEW effect \in Script, NEW rest \in Script,
         todo' = Dispatched(o, k, effect) \o rest, InOrder(effect), InOrder(rest),
         \A w \in ToSet(rest) : ~Opens(w),
         \A v \in ToSet(effect), w \in ToSet(rest) : Before(v, w),
         \A w \in ToSet(effect) \cup ToSet(rest) : Ordinary(o, k, e, w)
  PROVE  StoresInv'
<1>1. environments[e].gen \in Op /\ generations[environments[e].gen] = "recorded"
  BY DEF TypeOK, EnvironmentRecord, StoresInv, PointerIntact
<1>2. \A q \in Op : journals[q].kind = "create" => journals[q].env # e
  BY <1>1, NotCreating
<1>3. \A w \in ToSet(effect) \cup ToSet(rest) : Begun(o, k, e, w) /\ w.store # "journals"
  BY DEF Ordinary, Begun
<1>4. Waiting' = {PutLedger(o, k, "in-progress"), PutLedger(o, k, "ok")}
                   \cup ToSet(effect) \cup ToSet(rest)
  <2>1. k \in Kinds
    OBVIOUS
  <2> QED BY <2>1, RequestWaiting
<1>5. \A s : PutLedger(o, k, s).store = "ledger"
  BY DEF PutLedger, Write
<1>6. ~Keeps(o, k, e)'
  <2>1. \A w \in Waiting' : w.store # "journals"
    BY <1>3, <1>4, <1>5
  <2>2. journals[o].kind \notin Kinds
    BY DEF StoresInv, Fresh, Blank
  <2> QED BY <2>1, <2>2, StoresKept DEF Keeps
<1>7. Requested(o, k, e, effect, rest)
  BY <1>2, <1>3, <1>6 DEF Requested
<1> QED BY <1>7, RequestStarts

LEMMA StoresNoopSwitch ==
  ASSUME TypeOK, TypeOK', StoresInv, NEW o \in Op, NEW e \in Env, NoopSwitch(o, e)
  PROVE  StoresInv'
<1> DEFINE begin == PutOperation(o, "switch", e, "active")
           done == PutOperation(o, "switch", e, "succeeded")
           effect == << begin, done >>
<1>1. /\ Idle /\ UNCHANGED durable /\ UNCHANGED << entries, controllers, mode >>
      /\ ledger[o].state = "none" /\ environments[e].state # "absent"
      /\ environments[e].gen # None
      /\ todo' = Dispatched(o, "switch", effect)
  BY DEF NoopSwitch, MaySwitch, NewRequest, Run, volatile
<1>2. "switch" \in Kinds \ {"create"}
  BY DEF Kinds
<1>3. effect \in Script
  BY <1>2, OperationWrites, Pairs DEF Terminal
<1>4. /\ begin.store = "operations" /\ begin.key = o /\ begin.val.kind = "switch"
      /\ begin.val.env = e /\ begin.val.status = "active"
      /\ done.store = "operations" /\ done.key = o /\ done.val.kind = "switch"
      /\ done.val.env = e /\ done.val.status = "succeeded"
  BY DEF PutOperation, Write
<1> HIDE DEF begin, done
<1>5. ToSet(effect) = {begin, done} /\ InOrder(effect)
  BY <1>4, FewWrites, ShortOrder DEF Before
<1>6. \A w \in ToSet(effect) : Ordinary(o, "switch", e, w)
  BY <1>4, <1>5 DEF Ordinary
<1> HIDE DEF effect
<1>7. /\ todo' = Dispatched(o, "switch", effect) \o <<>> /\ <<>> \in Script
      /\ InOrder(<<>>) /\ ToSet(<<>>) = {}
  BY <1>1, <1>2, <1>3, WithoutRest
<1> QED BY <1>1, <1>2, <1>3, <1>5, <1>6, <1>7, StoresOrdinary

LEMMA ThreeOrder ==
  ASSUME NEW a, NEW b, NEW c, Before(a, b), Before(a, c), Before(b, c)
  PROVE  InOrder(<< a, b, c >>)
  BY DEF InOrder

LEMMA StoresRestoreActive ==
  ASSUME TypeOK, TypeOK', StoresInv, NEW o \in Op, NEW e \in Env, RestoreActive(o, e)
  PROVE  StoresInv'
<1> DEFINE begin == PutOperation(o, "restore", e, "active")
           done == PutOperation(o, "restore", e, "succeeded")
           answer == PutLedger(o, "restore", "ok")
           effect == << begin, done, answer >>
<1>1. /\ Idle /\ UNCHANGED durable /\ UNCHANGED << entries, controllers, mode >>
      /\ ledger[o].state = "none" /\ environments[e].state # "absent"
      /\ environments[e].gen # None
      /\ todo' = Dispatched(o, "restore", effect)
  BY DEF RestoreActive, Changeable, NewRequest, Run, volatile
<1>2. "restore" \in Kinds \ {"create"}
  BY DEF Kinds
<1>3. effect \in Script
  BY <1>2, OperationWrites, LedgerWrites, Triples DEF Terminal
<1>4. /\ begin.store = "operations" /\ begin.key = o /\ begin.val.kind = "restore"
      /\ begin.val.env = e /\ begin.val.status = "active"
      /\ done.store = "operations" /\ done.key = o /\ done.val.kind = "restore"
      /\ done.val.env = e /\ done.val.status = "succeeded"
      /\ answer.store = "ledger" /\ answer.key = o /\ answer.val.state = "ok"
  BY DEF PutOperation, PutLedger, Write
<1> HIDE DEF begin, done, answer
<1>5. ToSet(effect) = {begin, done, answer} /\ InOrder(effect)
  BY <1>4, FewWrites, ThreeOrder DEF Before
<1>6. \A w \in ToSet(effect) : Ordinary(o, "restore", e, w)
  BY <1>4, <1>5 DEF Ordinary
<1> HIDE DEF effect
<1>7. /\ todo' = Dispatched(o, "restore", effect) \o <<>> /\ <<>> \in Script
      /\ InOrder(<<>>) /\ ToSet(<<>>) = {}
  BY <1>1, <1>2, <1>3, WithoutRest
<1> QED BY <1>1, <1>2, <1>3, <1>5, <1>6, <1>7, StoresOrdinary

\* What a start or a stop writes about itself and its environment.
LEMMA OwnWrites ==
  ASSUME TypeOK, NEW o \in Op, NEW k \in {"start", "stop"}, NEW e \in Env
  PROVE  /\ \A s : LET w == PutOperation(o, k, e, s)
                   IN  /\ Ordinary(o, k, e, w) /\ Opening(w)
                       /\ s # "active" => ~Opens(w)
         /\ \A s : s # "absent" => LET w == PutState(e, s)
                                   IN Ordinary(o, k, e, w) /\ Opening(w) /\ ~Opens(w)
         /\ \A s : LET w == Marked(e, s)
                   IN Ordinary(o, k, e, w) /\ Opening(w) /\ ~Opens(w)
         /\ \A g : LET w == Spawning(e, g)
                   IN Ordinary(o, k, e, w) /\ Opening(w) /\ ~Opens(w)
         /\ LET w == Register(o) IN Ordinary(o, k, e, w) /\ Opening(w) /\ ~Opens(w)
<1>1. environments[e] \in EnvironmentRecord /\ k \notin Built
  BY DEF TypeOK, Built, CoreTransactions
<1>2. \A s : LET w == PutOperation(o, k, e, s)
             IN Ordinary(o, k, e, w) /\ Opening(w) /\ (s # "active" => ~Opens(w))
  BY <1>1 DEF PutOperation, Write, Ordinary, Opening, Opens, Plain, Succeeds
<1>3. \A s : s # "absent" => LET w == PutState(e, s)
                             IN Ordinary(o, k, e, w) /\ Opening(w) /\ ~Opens(w)
  BY <1>1 DEF PutState, PutEnvironment, Write, EnvironmentRecord, Ordinary, Opening, Opens,
              Plain, Succeeds
<1>4. /\ \A s : LET w == Marked(e, s) IN Ordinary(o, k, e, w) /\ Opening(w) /\ ~Opens(w)
      /\ \A g : LET w == Spawning(e, g) IN Ordinary(o, k, e, w) /\ Opening(w) /\ ~Opens(w)
      /\ LET w == Register(o) IN Ordinary(o, k, e, w) /\ Opening(w) /\ ~Opens(w)
  BY DEF Marked, Spawning, PutLaunch, Register, Write, Ordinary, Opening, Opens, Plain, Succeeds
<1> QED BY <1>2, <1>3, <1>4

\* A start or a stop: its operation begins, its environment is on its way,
\* and whatever follows begins nothing.
LEMMA StoresProcessRequest ==
  ASSUME TypeOK, TypeOK', StoresInv, NEW o \in Op, NEW e \in Env, NEW k \in {"start", "stop"},
         Idle, UNCHANGED durable, UNCHANGED << entries, controllers, mode >>,
         ledger[o].state = "none", environments[e].state # "absent",
         environments[e].gen # None, NEW s \in {"starting", "stopping"},
         NEW more \in Script, NEW rest \in Script,
         todo' = Dispatched(o, k,
                   << PutOperation(o, k, e, "active"), PutState(e, s) >> \o more) \o rest,
         \A w \in ToSet(more) \cup ToSet(rest) : Ordinary(o, k, e, w) /\ Opening(w) /\ ~Opens(w)
  PROVE  StoresInv'
<1> DEFINE begin == PutOperation(o, k, e, "active")
           put == PutState(e, s)
           pair == << begin, put >>
           effect == pair \o more
<1>1. k \in Kinds /\ k \in Kinds \ {"create"}
  BY DEF Kinds
<1>2. begin \in WriteRecord /\ put \in WriteRecord
  BY <1>1, OperationWrites, StateWrites DEF EnvironmentStates
<1>3. /\ Ordinary(o, k, e, begin) /\ Opening(begin)
      /\ Ordinary(o, k, e, put) /\ Opening(put) /\ ~Opens(put)
  <2>1. s # "absent"
    OBVIOUS
  <2> QED BY <2>1, OwnWrites
<1>4. todo' = Dispatched(o, k, effect) \o rest
  OBVIOUS
<1> HIDE DEF begin, put
<1>5. pair \in Script /\ ToSet(pair) = {begin, put} /\ InOrder(pair)
  BY <1>2, <1>3, Pairs, FewWrites, ShortOrder, OpeningBefore
<1> HIDE DEF pair
<1>6. \A t \in {more, rest} : InOrder(t)
  <2>1. ASSUME NEW t \in Script, \A w \in ToSet(t) : Opening(w) /\ ~Opens(w) PROVE InOrder(t)
    <3>1. \A w \in ToSet(t) : Plain(w) /\ ~Succeeds(w)
      BY <2>1 DEF Opening
    <3> QED BY <3>1, PlainOrder
  <2> QED BY <2>1
<1>7. effect \in Script /\ ToSet(effect) = {begin, put} \cup ToSet(more)
  BY <1>5, Joined, JoinedWrites
<1>8. InOrder(effect)
  <2>1. \A v \in ToSet(pair), w \in ToSet(more) : Before(v, w)
    BY <1>3, <1>5, OpeningBefore
  <2> QED BY <1>5, <1>6, <2>1, JoinedOrder
<1> HIDE DEF effect
<1>9. \A v \in ToSet(effect), w \in ToSet(rest) : Before(v, w)
  BY <1>3, <1>7, OpeningBefore
<1>10. \A w \in ToSet(effect) \cup ToSet(rest) : Ordinary(o, k, e, w)
  BY <1>3, <1>7
<1>11. InOrder(rest) /\ \A w \in ToSet(rest) : ~Opens(w)
  BY <1>6
<1> QED BY <1>1, <1>4, <1>7, <1>8, <1>9, <1>10, <1>11, StoresOrdinary

LEMMA RefusedProcess ==
  ASSUME TypeOK, NEW o \in Op, NEW e \in Env, NEW k \in {"start", "stop"}
  PROVE  /\ Refused(o, k, e) \in Script
         /\ \A w \in ToSet(Refused(o, k, e)) : Ordinary(o, k, e, w) /\ Opening(w) /\ ~Opens(w)
<1>1. Reverted(k) \in EnvironmentStates /\ Reverted(k) # "absent" /\ k \in Kinds
  BY DEF Reverted, EnvironmentStates, Kinds
<1>2. ToSet(Refused(o, k, e)) = {PutOperation(o, k, e, "failed"), PutState(e, Reverted(k))}
  BY FewWrites DEF Refused
<1>3. Refused(o, k, e) \in Script
  BY <1>1, OperationWrites, StateWrites, Pairs DEF Refused, Terminal
<1>4. \A w \in {PutOperation(o, k, e, "failed"), PutState(e, Reverted(k))} :
        Ordinary(o, k, e, w) /\ Opening(w) /\ ~Opens(w)
  BY <1>1, OwnWrites
<1> QED BY <1>2, <1>3, <1>4

\* A part of a block that follows the beginning of a start or a stop.
FollowUp(o, k, e, t) ==
  t \in Script /\ \A w \in ToSet(t) : Ordinary(o, k, e, w) /\ Opening(w) /\ ~Opens(w)

LEMMA FollowUps ==
  ASSUME TypeOK, NEW o \in Op, NEW e \in Env, NEW k \in {"start", "stop"}
  PROVE  /\ FollowUp(o, k, e, <<>>) /\ FollowUp(o, k, e, Refused(o, k, e))
         /\ FollowUp(o, k, e, << Register(o) >>)
         /\ \A s \in {"starting", "running", "stopping", "ended", "unverifiable"} :
              FollowUp(o, k, e, << Marked(e, s) >>)
         /\ \A g \in Op \cup {None} : FollowUp(o, k, e, << Spawning(e, g) >>)
         /\ FollowUp(o, k, e, << PutOperation(o, k, e, "succeeded"), PutState(e, "stopped") >>)
         /\ \A s, t : FollowUp(o, k, e, s) /\ FollowUp(o, k, e, t) => FollowUp(o, k, e, s \o t)
<1>1. FollowUp(o, k, e, <<>>)
  BY Singletons, FewWrites DEF FollowUp
<1>2. FollowUp(o, k, e, Refused(o, k, e))
  BY RefusedProcess DEF FollowUp
<1>3. FollowUp(o, k, e, << Register(o) >>)
  BY OtherWrites, Singletons, FewWrites, OwnWrites DEF FollowUp
<1>4. \A s \in {"starting", "running", "stopping", "ended", "unverifiable"} :
        FollowUp(o, k, e, << Marked(e, s) >>)
  BY LaunchMarks, Singletons, FewWrites, OwnWrites DEF FollowUp
<1>5. \A g \in Op \cup {None} : FollowUp(o, k, e, << Spawning(e, g) >>)
  BY LaunchMarks, Singletons, FewWrites, OwnWrites DEF FollowUp
<1>6. FollowUp(o, k, e, << PutOperation(o, k, e, "succeeded"), PutState(e, "stopped") >>)
  <2> DEFINE v == PutOperation(o, k, e, "succeeded")
             w == PutState(e, "stopped")
  <2>1. v \in WriteRecord /\ w \in WriteRecord
    BY OperationWrites, StateWrites DEF Terminal, Kinds, EnvironmentStates
  <2>2. \A x \in {v, w} : Ordinary(o, k, e, x) /\ Opening(x) /\ ~Opens(x)
    BY OwnWrites
  <2> HIDE DEF v, w
  <2>3. ToSet(<< v, w >>) = {v, w}
    BY FewWrites
  <2>4. << v, w >> \in Script
    BY <2>1, Pairs
  <2>5. \A x \in ToSet(<< v, w >>) : Ordinary(o, k, e, x) /\ Opening(x) /\ ~Opens(x)
    BY <2>2, <2>3
  <2>6. FollowUp(o, k, e, << v, w >>)
    BY <2>4, <2>5 DEF FollowUp
  <2> QED BY <2>6 DEF v, w
<1>7. \A s, t : FollowUp(o, k, e, s) /\ FollowUp(o, k, e, t) => FollowUp(o, k, e, s \o t)
  BY Joined, JoinedWrites DEF FollowUp
<1> QED BY <1>1, <1>2, <1>3, <1>4, <1>5, <1>6, <1>7

LEMMA StoresFollowedUp ==
  ASSUME TypeOK, TypeOK', StoresInv, NEW o \in Op, NEW e \in Env, NEW k \in {"start", "stop"},
         Idle, UNCHANGED durable, UNCHANGED << entries, controllers, mode >>,
         ledger[o].state = "none", environments[e].state # "absent",
         environments[e].gen # None, NEW s \in {"starting", "stopping"},
         NEW more, NEW rest, FollowUp(o, k, e, more), FollowUp(o, k, e, rest),
         todo' = Dispatched(o, k,
                   << PutOperation(o, k, e, "active"), PutState(e, s) >> \o more) \o rest
  PROVE  StoresInv'
<1>1. more \in Script /\ rest \in Script
      /\ \A w \in ToSet(more) \cup ToSet(rest) : Ordinary(o, k, e, w) /\ Opening(w) /\ ~Opens(w)
  BY DEF FollowUp
<1> QED BY <1>1, StoresProcessRequest

LEMMA StoresStartRequest ==
  ASSUME TypeOK, TypeOK', StoresInv, NEW o \in Op, NEW e \in Env, Start(o, e)
  PROVE  StoresInv'
<1> DEFINE begin == << PutOperation(o, "start", e, "active"), PutState(e, "starting") >>
           g == environments[e].gen
           intent == IF launches[e].by = None THEN << Spawning(e, g) >> ELSE <<>>
<1>1. /\ Idle /\ UNCHANGED durable /\ UNCHANGED << entries, controllers, mode >>
      /\ ledger[o].state = "none" /\ environments[e].state # "absent"
      /\ environments[e].gen # None
  BY DEF Start, Installed, NewRequest
<1>2. \/ todo' = Dispatched(o, "start", begin) \o Refused(o, "start", e)
      \/ todo' = Dispatched(o, "start", begin \o << Register(o) >> \o intent)
  BY DEF Start, Run
<1>3. begin \in Script /\ "start" \in Kinds
  BY OperationWrites, StateWrites, Pairs DEF Kinds, EnvironmentStates
<1>4. g \in Op \cup {None}
  BY DEF TypeOK, EnvironmentRecord
<1> HIDE DEF begin, g
<1>5. FollowUp(o, "start", e, intent) /\ FollowUp(o, "start", e, << Register(o) >>)
      /\ FollowUp(o, "start", e, <<>>) /\ FollowUp(o, "start", e, Refused(o, "start", e))
  BY <1>4, FollowUps
<1>6. PICK more, rest : /\ FollowUp(o, "start", e, more) /\ FollowUp(o, "start", e, rest)
                        /\ todo' = Dispatched(o, "start", begin \o more) \o rest
  <2>1. CASE todo' = Dispatched(o, "start", begin) \o Refused(o, "start", e)
    <3>1. begin \o <<>> = begin
      BY <1>3, Regrouped
    <3> QED BY <1>5, <2>1, <3>1
  <2>2. CASE todo' = Dispatched(o, "start", begin \o << Register(o) >> \o intent)
    <3> DEFINE more == << Register(o) >> \o intent
    <3>1. FollowUp(o, "start", e, more)
      BY <1>5, FollowUps
    <3>2. intent \in Script /\ << Register(o) >> \in Script /\ more \in Script
      BY <1>5, <3>1 DEF FollowUp
    <3>3. begin \o << Register(o) >> \o intent = begin \o more
      BY <1>3, <3>2, Regrouped
    <3>4. Dispatched(o, "start", begin \o more) \in Script
      BY <1>3, <3>2, Joined, DispatchedWrites
    <3>5. todo' = Dispatched(o, "start", begin \o more) \o <<>>
      BY <2>2, <3>3, <3>4, Regrouped
    <3> QED BY <1>5, <3>1, <3>5
  <2> QED BY <1>2, <2>1, <2>2
<1> QED BY <1>1, <1>6, StoresFollowedUp DEF begin

LEMMA StoresStopRequest ==
  ASSUME TypeOK, TypeOK', StoresInv, NEW o \in Op, NEW e \in Env, Stop(o, e)
  PROVE  StoresInv'
<1> DEFINE begin == << PutOperation(o, "stop", e, "active"), PutState(e, "stopping") >>
           done == << PutOperation(o, "stop", e, "succeeded"), PutState(e, "stopped") >>
<1>1. /\ Idle /\ UNCHANGED durable /\ UNCHANGED << entries, controllers, mode >>
      /\ ledger[o].state = "none" /\ environments[e].state # "absent"
      /\ environments[e].gen # None
  BY DEF Stop, Installed, NewRequest, volatile
<1>2. \/ todo' = Dispatched(o, "stop", begin) \o Refused(o, "stop", e)
      \/ todo' = Dispatched(o, "stop", begin \o << Marked(e, "unverifiable") >>)
                   \o Refused(o, "stop", e)
      \/ todo' = Dispatched(o, "stop", begin \o << Marked(e, "ended") >>) \o done
      \/ todo' = Dispatched(o, "stop", begin \o << Register(o), Marked(e, "stopping") >>)
      \/ todo' = Dispatched(o, "stop", begin \o << Register(o) >>)
  BY DEF Stop, Run
<1>3. begin \in Script /\ "stop" \in Kinds
  BY OperationWrites, StateWrites, Pairs DEF Kinds, EnvironmentStates
<1>4. << Register(o), Marked(e, "stopping") >> = << Register(o) >> \o << Marked(e, "stopping") >>
  BY OtherWrites, LaunchMarks, PairSplit
<1>5. /\ FollowUp(o, "stop", e, <<>>) /\ FollowUp(o, "stop", e, Refused(o, "stop", e))
      /\ FollowUp(o, "stop", e, done) /\ FollowUp(o, "stop", e, << Register(o) >>)
      /\ FollowUp(o, "stop", e, << Register(o), Marked(e, "stopping") >>)
      /\ FollowUp(o, "stop", e, << Marked(e, "unverifiable") >>)
      /\ FollowUp(o, "stop", e, << Marked(e, "ended") >>)
  BY <1>4, FollowUps
<1> HIDE DEF begin, done
<1>6. \A more : FollowUp(o, "stop", e, more) =>
        Dispatched(o, "stop", begin \o more) \o <<>> = Dispatched(o, "stop", begin \o more)
  BY <1>3, Joined, DispatchedWrites, Regrouped DEF FollowUp
<1>7. begin \o <<>> = begin
  BY <1>3, Regrouped
<1>8. PICK more, rest : /\ FollowUp(o, "stop", e, more) /\ FollowUp(o, "stop", e, rest)
                        /\ todo' = Dispatched(o, "stop", begin \o more) \o rest
  BY <1>2, <1>5, <1>6, <1>7
<1> QED BY <1>1, <1>8, StoresFollowedUp DEF begin

\* The six writes of a restore: its journal, its operation begins, the pointer
\* moves, the operation ends, the outcome is recorded, the journal is removed.
IsRestore(o, e, open, begin, move, done, answer, close) ==
  /\ open.store = "journals" /\ open.key = o /\ open.val.kind = "restore" /\ open.val.env = e
  /\ begin.store = "operations" /\ begin.key = o /\ begin.val.kind = "restore"
  /\ begin.val.env = e /\ begin.val.status = "active"
  /\ move.store = "environments" /\ move.key = e
  /\ done.store = "operations" /\ done.key = o /\ done.val.kind = "restore"
  /\ done.val.env = e /\ done.val.status = "succeeded"
  /\ answer.store = "ledger" /\ answer.key = o /\ answer.val.state = "ok"
  /\ close.store = "journals" /\ close.key = o /\ close.val.kind = "none"

LEMMA SixOrder ==
  ASSUME NEW a, NEW b, NEW c, NEW d, NEW e, NEW f,
         Before(a, b), Before(a, c), Before(a, d), Before(a, e), Before(a, f),
         Before(b, c), Before(b, d), Before(b, e), Before(b, f),
         Before(c, d), Before(c, e), Before(c, f),
         Before(d, e), Before(d, f), Before(e, f)
  PROVE  InOrder(<< a, b, c, d, e, f >>)
<1> DEFINE s == << a, b, c, d, e, f >>
<1>1. /\ Len(s) = 6 /\ s[1] = a /\ s[2] = b /\ s[3] = c /\ s[4] = d /\ s[5] = e /\ s[6] = f
  OBVIOUS
<1> HIDE DEF s
<1>2. \A i, j \in 1..6 : i < j =>
        \/ i = 1 /\ j \in 2..6
        \/ i = 2 /\ j \in 3..6
        \/ i = 3 /\ j \in 4..6
        \/ i = 4 /\ j \in 5..6
        \/ i = 5 /\ j = 6
  OBVIOUS
<1>3. \A j \in 2..6 : Before(s[1], s[j])
  BY <1>1
<1>4. \A j \in 3..6 : Before(s[2], s[j])
  BY <1>1
<1>5. \A j \in 4..6 : Before(s[3], s[j])
  BY <1>1
<1>6. \A j \in 5..6 : Before(s[4], s[j])
  BY <1>1
<1>7. InOrder(s)
  BY <1>1, <1>2, <1>3, <1>4, <1>5, <1>6 DEF InOrder
<1> QED BY <1>7 DEF s

LEMMA RestoreOrder ==
  ASSUME NEW o, NEW e, NEW open, NEW begin, NEW move, NEW done, NEW answer, NEW close,
         IsRestore(o, e, open, begin, move, done, answer, close)
  PROVE  InOrder(<< open, begin, move, done, answer, close >>)
<1>1. /\ "restore" \notin Built /\ "restore" # "none"
  BY DEF Built, CoreTransactions
<1>2. \A w \in {begin, move, done, answer, close} : Before(open, w)
  BY <1>1 DEF Before, IsRestore
<1>3. \A w \in {move, done, answer, close} : Before(begin, w)
  BY <1>1 DEF Before, IsRestore
<1>4. \A w \in {done, answer, close} : Before(move, w)
  BY <1>1 DEF Before, IsRestore
<1>5. Before(done, answer) /\ Before(done, close) /\ Before(answer, close)
  BY <1>1 DEF Before, IsRestore
<1> QED BY <1>2, <1>3, <1>4, <1>5, SixOrder

LEMMA StoresRestoreGeneration ==
  ASSUME TypeOK, TypeOK', StoresInv, NEW o \in Op, NEW e \in Env, NEW g \in Op,
         RestoreGeneration(o, e, g)
  PROVE  StoresInv'
<1> DEFINE open == PutJournal(o, [kind |-> "restore", env |-> e, gen |-> g, plan |-> None,
                                  phase |-> "committed"])
           begin == PutOperation(o, "restore", e, "active")
           moved == [environments[e] EXCEPT !.gen = g, !.revision = @ + 1]
           move == PutEnvironment(e, moved)
           done == PutOperation(o, "restore", e, "succeeded")
           answer == PutLedger(o, "restore", "ok")
           close == PutJournal(o, NoJournal)
           effect == << open, begin, move, done, answer, close >>
<1>1. /\ Idle /\ UNCHANGED durable /\ UNCHANGED << entries, controllers, mode >>
      /\ ledger[o].state = "none" /\ environments[e].state # "absent"
      /\ generations[g] = "recorded" /\ operations[g].env = e
      /\ todo' = Dispatched(o, "restore", effect)
  BY DEF RestoreGeneration, Changeable, NewRequest, Run, volatile
<1>2. \A q \in Op : journals[q].kind \in Kinds => journals[q].env # e
  <2>1. \A q \in Op : journals[q].kind = "create" => journals[q].env # e
    BY <1>1, NotCreating
  <2>2. \A q \in Op : journals[q].kind \in ChangeTransactions \cup {"switch"} => journals[q].env # e
    BY DEF RestoreGeneration, ChangeInProgress, HasJournal, ChangeTransactions
  <2>3. \A q \in Op : journals[q].kind \in Kinds =>
          journals[q].kind \in ChangeTransactions \cup {"switch", "create"}
    BY DEF ChangeTransactions, Kinds, TypeOK, JournalRecord, NoJournal, CoreTransactions
  <2> QED BY <2>1, <2>2, <2>3
<1>3. "restore" \in Kinds /\ "restore" \notin Built /\ "restore" # "create" /\ "create" \in Kinds
  BY DEF Kinds, Built, CoreTransactions
<1>4. moved \in EnvironmentRecord /\ moved.state # "absent" /\ moved.gen = g
  <2>1. environments[e] \in EnvironmentRecord
    BY DEF TypeOK
  <2>2. moved.state = environments[e].state /\ moved.gen = g
    BY <2>1 DEF EnvironmentRecord
  <2>3. moved \in EnvironmentRecord
    BY EnvironmentRecords
  <2> QED BY <1>1, <2>2, <2>3
<1>5. effect \in Script
  <2>1. [kind |-> "restore", env |-> e, gen |-> g, plan |-> None, phase |-> "committed"]
          \in JournalRecord
    BY DEF JournalRecord
  <2>2. open \in WriteRecord /\ close \in WriteRecord
    BY <2>1, JournalRecords, JournalWrites
  <2>3. begin \in WriteRecord /\ done \in WriteRecord /\ answer \in WriteRecord
    BY <1>3, OperationWrites, LedgerWrites DEF Terminal
  <2>4. move \in WriteRecord
    BY <1>4, EnvironmentWrites
  <2> HIDE DEF open, begin, move, done, answer, close
  <2> QED BY <2>2, <2>3, <2>4, Sextuples
<1>6. IsRestore(o, e, open, begin, move, done, answer, close)
  BY DEF IsRestore, PutJournal, PutOperation, PutEnvironment, PutLedger, Write, NoJournal
<1>7. move.val.gen = g /\ move.val.state # "absent"
  BY <1>4 DEF PutEnvironment, Write
<1> HIDE DEF open, begin, move, done, answer, close
<1>8. ToSet(effect) = {open, begin, move, done, answer, close} /\ InOrder(effect)
  BY <1>6, SixWrites, RestoreOrder
<1> HIDE DEF effect
<1>9. /\ todo' = Dispatched(o, "restore", effect) \o <<>> /\ <<>> \in Script
      /\ InOrder(<<>>) /\ ToSet(<<>>) = {} /\ close \in Waiting'
  BY <1>1, <1>3, <1>5, <1>8, WithoutRest
<1>10. Begun(o, "restore", e, move)
  BY <1>1, <1>3, <1>6, <1>7 DEF Begun, IsRestore
<1>11. \A w \in {open, begin, done, answer, close} : Begun(o, "restore", e, w)
  BY <1>3, <1>6 DEF Begun, IsRestore
<1>12. \A w \in ToSet(effect) : Begun(o, "restore", e, w)
  BY <1>8, <1>10, <1>11
<1>13. Closes(o)'
  BY <1>6, <1>9 DEF IsRestore, Closes
<1>14. Requested(o, "restore", e, effect, <<>>)
  BY <1>1, <1>2, <1>3, <1>5, <1>8, <1>9, <1>12, <1>13 DEF Requested
<1> QED BY <1>3, <1>14, RequestStarts

(***************************************************************************)
(* The whole instance.                                                     *)
(***************************************************************************)
LEMMA StoresGone ==
  ASSUME TypeOK, StoresInv, Crash \/ FinishClose PROVE StoresInv'
<1>1. CASE Crash
  <2>1. UNCHANGED Stores /\ UNCHANGED launches /\ LoseMemory
    BY <1>1 DEF Crash, Stores, durable
  <2> QED BY <2>1, StoresLost
<1>2. CASE FinishClose
  <2>1. UNCHANGED Stores /\ LoseMemory
    BY <1>2 DEF FinishClose, Stores
  <2>2. \A e \in Env : launches[e] = NoLaunch => launches'[e] = NoLaunch
    BY <1>2 DEF FinishClose, NoLaunch
  <2> QED BY <2>1, <2>2, StoresLost
<1> QED BY <1>1, <1>2

LEMMA StoresInit == Init => StoresInv
<1> SUFFICES ASSUME Init PROVE StoresInv
  OBVIOUS
<1>1. todo = <<>> /\ Waiting = {} /\ mode = "down" /\ InOrder(todo)
  BY NothingWaits, ShortOrder DEF Init
<1>2. /\ \A e \in Env : /\ environments[e].gen = None /\ launches[e] = NoLaunch
                        /\ entries[e] = "none"
      /\ \A o \in Op : /\ operations[o].kind = "none" /\ operations[o].env = None
                       /\ journals[o].kind = "none" /\ generations[o] = "absent"
                       /\ ~controllers[o]
  BY DEF Init, NoEnvironment, NoOperation, NoJournal
<1>3. /\ \A o \in Op, e \in Env : ~PointsTo(e, o)
      /\ \A o, g \in Op, k \in Kinds : ~Names(o, k, g)
      /\ \A o \in Op, k \in Kinds, e \in Env : ~Claims(o, k, e) /\ ~Keeps(o, k, e)
      /\ \A o \in Op : /\ ~Live(o) /\ ~Closes(o)
                       /\ \A s \in GenerationStates : ~Builds(o, s)
  BY <1>1, <1>2, NoneAssumption
     DEF PointsTo, Names, Claims, Belongs, Keeps, Live, Closes, Builds, Kinds
<1>4. OneHome /\ OneJournal /\ CreatedAlone
  BY <1>3 DEF OneHome, OneJournal, CreatedAlone, Kinds
<1>5. OwnGeneration
  BY <1>3 DEF OwnGeneration, Built, Kinds, CoreTransactions
<1>6. Fresh /\ LedgerStays
  BY <1>1, <1>2, <1>3, NoneAssumption DEF Fresh, LedgerStays, Blank, Unmentioned, Kinds
<1>7. PointerIntact /\ PointsToRecorded /\ NotUnrecorded /\ LiveNotRecorded
  BY <1>2, <1>3 DEF PointerIntact, PointsToRecorded, NotUnrecorded, LiveNotRecorded
<1>8. JournalIsLive /\ NoChangeJournal /\ NobodyLive
  BY <1>1, <1>3 DEF JournalIsLive, NoChangeJournal, NobodyLive, Serving
<1>9. Present /\ StaysPresent /\ LaunchedIsPresent
  BY <1>1, <1>2, <1>3, NoneAssumption
     DEF Present, StaysPresent, LaunchedIsPresent, Unused, Kinds
<1>10. BuiltByTransaction /\ StagedHasJournal /\ StagedIsRemoved
  BY <1>2, <1>3 DEF BuiltByTransaction, StagedHasJournal, StagedIsRemoved, GenerationStates
<1> QED BY <1>1, <1>4, <1>5, <1>6, <1>7, <1>8, <1>9, <1>10 DEF StoresInv

LEMMA StoresRequests == ASSUME TypeOK, TypeOK', StoresInv, Requests PROVE StoresInv'
  BY StoresCreateEnvironment, StoresSwitch, StoresNoopSwitch, StoresApplyChange,
     StoresRestoreGeneration, StoresRestoreActive, StoresStartRequest, StoresStopRequest
  DEF Requests

LEMMA StoresTasks ==
  ASSUME TypeOK, TypeOK', StoresInv, NEW o \in Op, TaskSteps(o) PROVE StoresInv'
  BY StoresInstallReturns, StoresStageReturns, StoresStartTask, StoresStopTask, StoresModeStep
  DEF TaskSteps

LEMMA StoresRecovery == ASSUME TypeOK, TypeOK', StoresInv, RecoverySteps PROVE StoresInv'
  BY StoresRecoverChange, StoresLedgerSteps, StoresModeStep, StoresReconcileLaunch,
     StoresProcessesReconciled, StoresRecoverJournal, StoresRecoverOrphan,
     StoresRecoverCreating
  DEF RecoverySteps

LEMMA StoresStep ==
  ASSUME TypeOK, TypeOK', StoresInv, [Next]_vars, ~WriteFails PROVE StoresInv'
<1>1. CASE Requests
  BY <1>1, StoresRequests
<1>2. CASE Cancels
  BY <1>2, StoresCancel DEF Cancels
<1>3. CASE Surroundings
  BY <1>3, StoresGone, StoresModeStep, StoresExitCallback DEF Surroundings
<1>4. CASE Boot \/ FinishClose \/ Persist \/ UNCHANGED vars
  BY <1>4, StoresModeStep, StoresGone, StoresPersist
<1>5. CASE RecoverySteps
  BY <1>5, StoresRecovery
<1>6. CASE \E o \in Op : TaskSteps(o)
  BY <1>6, StoresTasks
<1> QED BY <1>1, <1>2, <1>3, <1>4, <1>5, <1>6 DEF Next

\* Only a refused write is counted.
LEMMA FaultsKept == ASSUME [Next]_vars, ~WriteFails PROVE UNCHANGED faults
<1>1. CASE Requests \/ Cancels
  <2>1. ASSUME NEW o \in Op, NEW e \in Env,
               CreateEnvironment(o, e) \/ SwitchCombination(o, e) \/ NoopSwitch(o, e)
        PROVE  UNCHANGED faults
    BY <2>1 DEF bounds, CreateEnvironment, SwitchCombination, NoopSwitch
  <2>2. ASSUME NEW o \in Op, NEW e \in Env, NEW p \in Plan, ApplyChange(o, e, p)
        PROVE  UNCHANGED faults
    BY <2>2 DEF bounds, ApplyChange
  <2>3. ASSUME NEW o \in Op, NEW e \in Env, NEW g \in Op,
               RestoreGeneration(o, e, g) \/ RestoreActive(o, e)
        PROVE  UNCHANGED faults
    BY <2>3 DEF bounds, RestoreGeneration, RestoreActive
  <2>4. ASSUME NEW o \in Op, NEW e \in Env, Start(o, e) \/ Stop(o, e)
        PROVE  UNCHANGED faults
    BY <2>4 DEF bounds, Start, Stop
  <2>5. ASSUME NEW o \in Op, CancelOperation(o) \/ CancelApply(o) PROVE UNCHANGED faults
    BY <2>5 DEF bounds, CancelOperation, CancelApply
  <2> QED BY <1>1, <2>1, <2>2, <2>3, <2>4, <2>5 DEF Requests, Cancels
<1>2. CASE Surroundings
  BY <1>2 DEF Surroundings, bounds, Crash, ProcessDies, ExitCallback, BeginClose
<1>3. CASE Boot \/ FinishClose \/ Persist \/ UNCHANGED vars
  BY <1>3 DEF bounds, vars, Boot, FinishClose, Persist
<1>4. CASE RecoverySteps
  BY <1>4 DEF RecoverySteps, bounds, RecoverChange, RecoverOrphanChange, SweepChangeLedger,
     ChangesRecovered, ReconcileLaunch, ProcessesReconciled, RecoverJournal, RecoverOrphan,
     SettleSwitchLedger, RecoverCreating, CoreRecovered
<1>5. CASE \E o \in Op : TaskSteps(o)
  BY <1>5 DEF TaskSteps, bounds, InstallReturns, StageReturns, LaunchIntent, Spawn, Identify,
     Ready, StartFails, StopReturns, StopUnconfirmed
<1> QED BY <1>1, <1>2, <1>3, <1>4, <1>5 DEF Next

\* The invariant, until the disk refuses a write.
StoresSound == faults = 0 => StoresInv

LEMMA StoresUnrefused == TypeOK /\ StoresSound /\ [Next]_vars => StoresSound'
<1> SUFFICES ASSUME TypeOK, StoresSound, [Next]_vars, faults' = 0 PROVE StoresInv'
  BY DEF StoresSound
<1>1. TypeOK'
  BY TypeStep
<1>2. faults = 0 /\ ~WriteFails
  <2>1. WriteFails => faults' # 0
    BY DEF WriteFails, TypeOK
  <2>2. ~WriteFails => faults' = faults
    BY FaultsKept
  <2> QED BY <2>1, <2>2
<1> QED BY <1>1, <1>2, StoresStep DEF StoresSound

\* The journals, generations, pointers and tasks of both services agree in every
\* state that is reached without a refused write, crashes included.
THEOREM StoresInvariant == Spec => []StoresSound
<1>1. Init => StoresSound
  BY StoresInit DEF StoresSound
<1> QED BY <1>1, StoresUnrefused, TypeCorrect, PTL DEF Spec

\* The active-generation pointer of an environment names a complete generation at
\* every point between two writes: through every interleaving of tasks, every
\* crash in a commit, a rollback or a recovery, and every recovery.
THEOREM PointerStaysIntact == Spec => [](faults = 0 => PointerIntact)
<1>1. StoresSound => (faults = 0 => PointerIntact)
  BY DEF StoresSound, StoresInv
<1> QED BY <1>1, StoresInvariant, PTL

\* Two open journals never modify one environment, whichever of the two services
\* opened them, for the guards of both look at each other's journals.
THEOREM OneTransaction == Spec => [](faults = 0 => SingleTransaction)
<1>1. TypeOK /\ StoresSound => (faults = 0 => SingleTransaction)
  <2> SUFFICES ASSUME TypeOK, StoresInv, NEW o \in Op, NEW q \in Op,
                      OpenJournal(o), OpenJournal(q), journals[o].env = journals[q].env
               PROVE  o = q
    BY DEF StoresSound, SingleTransaction
  <2>1. \A t \in Op : OpenJournal(t) => journals[t].kind \in Kinds /\ journals[t].env \in Env
    BY DEF OpenJournal, TypeOK, JournalRecord, NoJournal, Kinds, CoreTransactions
  <2>2. /\ Keeps(o, journals[o].kind, journals[o].env)
        /\ Keeps(q, journals[q].kind, journals[o].env)
    BY DEF Keeps
  <2> QED BY <2>1, <2>2 DEF StoresInv, OneJournal
<1> QED BY <1>1, StoresInvariant, TypeCorrect, PTL

\* At rest no journal and no half-built generation lies around without a task that
\* will close or remove it: no crash leaves an environment that refuses changes.
THEOREM NoResidueAtRest == Spec => [](faults = 0 => NoResidue)
<1>1. TypeOK /\ StoresSound => (faults = 0 => NoResidue)
  <2> SUFFICES ASSUME TypeOK, StoresInv, Idle, NEW o \in Op,
                      OpenJournal(o) \/ generations[o] = "staged"
               PROVE  controllers[o]
    BY DEF StoresSound, NoResidue
  <2>1. Waiting = {} /\ Serving
    BY NothingWaits DEF Idle, Serving
  <2>2. OpenJournal(o)
    BY DEF OpenJournal, StoresInv, StagedHasJournal, Built, CoreTransactions
  <2>3. journals[o].kind \in Kinds /\ journals[o].env \in Env
    BY <2>2 DEF OpenJournal, TypeOK, JournalRecord, NoJournal, Kinds, CoreTransactions
  <2>4. Keeps(o, journals[o].kind, journals[o].env)
    BY DEF Keeps
  <2> QED BY <2>1, <2>3, <2>4 DEF StoresInv, JournalIsLive, Live, Closes
<1> QED BY <1>1, StoresInvariant, TypeCorrect, PTL
===============================================================================
