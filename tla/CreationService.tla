--------------------------- MODULE CreationService ----------------------------
(***************************************************************************)
(* EnvironmentService of packages/core/src/creation-service.ts, its create *)
(* and switch transactions: install a new generation asynchronously, then  *)
(* move the environment's active-generation pointer in one write, the      *)
(* commit point.  The runtime port's install is external to this module:   *)
(* it succeeds or fails, and an abort may be noticed by it or not.         *)
(***************************************************************************)
EXTENDS LauncherStores

Committing(e, g) ==
  [environments[e] EXCEPT !.state = "stopped", !.revision = @ + 1, !.gen = g]

\* Slip: a creation that is given up stays `creating`.
ErroredSilently(e) == environments[e]

Errored(e) == [environments[e] EXCEPT !.state = "error", !.gen = None]

\* Slip: the journal is written before the operation it names.
PreparedJournalFirst(o, kind, e) ==
  << PutJournal(o, [kind |-> kind, env |-> e, gen |-> o, plan |-> None,
                    phase |-> "open"]),
     PutOperation(o, kind, e, "active"),
     Register(o),
     PutGeneration(o, "staged") >>

\* The writes shared by both transactions before the first await of the task.
Prepared(o, kind, e) ==
  << PutOperation(o, kind, e, "active"),
     PutJournal(o, [kind |-> kind, env |-> e, gen |-> o, plan |-> None,
                    phase |-> "open"]),
     Register(o),
     PutGeneration(o, "staged") >>

CreateEnvironment(o, e) ==
  /\ Idle
  /\ NewRequest(o, "create")
  /\ ~blocked
  /\ environments[e].state = "absent"
  /\ Run(Dispatched(o, "create",
           << PutEnvironment(e, [NoEnvironment EXCEPT !.state = "creating"]) >>
             \o Prepared(o, "create", e)), None)
  /\ UNCHANGED << durable, processes, mode, controllers, volatile, bounds >>

\* Slip: the environment need not be stopped.
MaySwitchRunning(o, e) ==
  /\ Idle
  /\ NewRequest(o, "switch")
  /\ ~blocked
  /\ environments[e].gen # None
  /\ ~HasJournal(e, CoreTransactions \cup ChangeTransactions)

\* The guards every switch passes; the combination may be the active one
\* (NoopSwitch) or another (SwitchCombination).
MaySwitch(o, e) ==
  /\ Idle
  /\ NewRequest(o, "switch")
  /\ ~blocked
  /\ environments[e].state = "stopped"
  /\ environments[e].gen # None
  /\ ~HasJournal(e, CoreTransactions \cup ChangeTransactions)

SwitchCombination(o, e) ==
  /\ MaySwitch(o, e)
  /\ Run(Dispatched(o, "switch", Prepared(o, "switch", e)), None)
  /\ UNCHANGED << durable, processes, mode, controllers, volatile, bounds >>

NoopSwitch(o, e) ==
  /\ MaySwitch(o, e)
  /\ Run(Dispatched(o, "switch",
           << PutOperation(o, "switch", e, "active"),
              PutOperation(o, "switch", e, "succeeded") >>), None)
  /\ UNCHANGED << durable, processes, mode, controllers, volatile, bounds >>

\* Slip: the pointer is written before the record it points to.
CommitPointerFirst(o) ==
  LET j == journals[o] IN
  << PutEnvironment(j.env, Committing(j.env, o)), PutGeneration(o, "recorded") >>
  \o Settle(o, "succeeded")
  \o << PutJournal(o, [j EXCEPT !.phase = "committed"]), PutJournal(o, NoJournal) >>

\* #commit and #commitSwitch: generation.json, then the pointer, then the
\* operation and the journal.
CommitScript(o) ==
  LET j == journals[o] IN
  << PutGeneration(o, "recorded"),
     PutEnvironment(j.env, Committing(j.env, o)) >>
  \o Settle(o, "succeeded")
  \o << PutJournal(o, [j EXCEPT !.phase = "committed"]), PutJournal(o, NoJournal) >>

\* Slip: the half-built generation is not removed.
UndoKeepingDirectory(o, repair) ==
  LET j == journals[o] IN
  Settle(o, "failed")
  \o (IF j.kind = "create" THEN << PutEnvironment(j.env, Errored(j.env)) >> ELSE <<>>)
  \o repair
  \o << PutJournal(o, NoJournal) >>

\* #fail / #failSwitch (repair = <<>>) and #rollBack / #rollBackSwitch: only a
\* creation marks the environment `error`.
UndoScript(o, repair) ==
  LET j == journals[o] IN
  Settle(o, "failed")
  \o (IF j.kind = "create" THEN << PutEnvironment(j.env, Errored(j.env)) >> ELSE <<>>)
  \o << PutGeneration(o, "absent") >>
  \o repair
  \o << PutJournal(o, NoJournal) >>

\* runtime.install settles and the rest of #runCreate / #runSwitch runs.  A
\* failure is an install error, a space error, a rejected manifest or a
\* noticed abort; nothing but the install looks at the abort signal.
InstallReturns(o) ==
  /\ TaskReturns(o)
  /\ journals[o].kind \in CoreTransactions
  /\ \/ Run(CommitScript(o), o)
     \/ Run(UndoScript(o, <<>>), o)
  /\ Finished(o)
  /\ aborted' = aborted \ {o}
  /\ UNCHANGED << durable, processes, mode, expected, requested,
                  watched, entries, switchJournalSeen, bounds >>

(***************************************************************************)
(* operations.cancel, for the kinds changes.apply does not own.            *)
(***************************************************************************)

\* Slip: the journal's phase, not the pointer, tells what was committed.
PhaseIsCommitted(o) == journals[o].phase = "committed"

PointerNames(o) ==
  /\ OpenJournal(o)
  /\ environments[journals[o].env].gen = journals[o].gen

CancelOperation(o) ==
  /\ Idle
  /\ "cancel" \in Commands
  /\ Pending(o, Kinds \ {"apply"})
  /\ ~ /\ journals[o].kind \in CoreTransactions
       /\ journals[o].phase = "committed" \/ PointerNames(o)
  /\ aborted' = IF controllers[o] THEN aborted \cup {o} ELSE aborted
  /\ Run(Settle(o, "cancelled"), None)
  /\ UNCHANGED << durable, processes, mode, controllers, expected, requested,
                  watched, entries, switchJournalSeen, bounds >>

(***************************************************************************)
(* recover(): one action per transaction or record it reconciles.  Each    *)
(* runs as one synchronous block; a crash in it is repaired by the next    *)
(* recover().  The guards order the loops as the source does.              *)
(***************************************************************************)
Recovering(step) == mode = step /\ todo = <<>>

\* Slip: only creations are recovered.
CreationJournals == {o \in Op : journals[o].kind = "create"}

CoreJournals == {o \in Op : journals[o].kind \in CoreTransactions}

\* Slip: operations without a journal, and environments without an operation,
\* are not looked for.
NoOrphanTransactions == {}
NoOrphanCreations == {}

OrphanTransactions ==
  {o \in Op : Pending(o, CoreTransactions) /\ ~OpenJournal(o)}
OrphanCreations ==
  {e \in Env : /\ environments[e].state = "creating"
               /\ ~ \E o \in Op : /\ operations[o].env = e
                                  /\ operations[o].status = "active"}
OrphanSwitchLedgers ==
  {o \in Op : ledger[o] = [method |-> "switch", state |-> "in-progress"]}

\* #finalizeCommitted: the pointer already names the generation.
FinalizeScript(o) ==
  (IF operations[o].status \in {"active", "cancelled"}
     THEN << Ended(o, "succeeded") >>
     ELSE <<>>)
  \o RepairLedger(o)
  \o << PutJournal(o, NoJournal) >>

\* Slip: every transaction with an open journal is undone.
RecoverByUndoing(o) ==
  /\ Recovering("recoverCore")
  /\ o \in CoreJournals
  /\ Run(UndoScript(o, RepairLedger(o)), None)
  /\ UNCHANGED << durable, processes, mode, controllers, volatile, bounds >>

RecoverJournal(o) ==
  /\ Recovering("recoverCore")
  /\ o \in CoreJournals
  /\ Run(IF PointerNames(o) THEN FinalizeScript(o)
                            ELSE UndoScript(o, RepairLedger(o)), None)
  /\ UNCHANGED << durable, processes, mode, controllers, volatile, bounds >>

\* A create or switch operation without a journal is failed.
RecoverOrphan(o) ==
  /\ Recovering("recoverCore")
  /\ CoreJournals = {}
  /\ o \in OrphanTransactions
  /\ Run(Settle(o, "failed")
           \o (IF operations[o].kind = "create"
                 THEN << PutEnvironment(operations[o].env, Errored(operations[o].env)) >>
                 ELSE <<>>), None)
  /\ UNCHANGED << durable, processes, mode, controllers, volatile, bounds >>

\* The environment record was written but neither operation nor journal was.
RecoverCreating(e) ==
  /\ Recovering("recoverCore")
  /\ CoreJournals = {} /\ OrphanTransactions = {}
  /\ e \in OrphanCreations
  /\ Run(<< PutEnvironment(e, Errored(e)) >>, None)
  /\ UNCHANGED << durable, processes, mode, controllers, volatile, bounds >>

\* #settleOrphanSwitchLedgers, skipped when recover() read a switch journal.
SettleSwitchLedger(o) ==
  /\ Recovering("recoverCore")
  /\ CoreJournals = {} /\ OrphanTransactions = {} /\ OrphanCreations = {}
  /\ ~switchJournalSeen
  /\ o \in OrphanSwitchLedgers
  /\ Run(<< PutLedger(o, "switch", "failed") >>, None)
  /\ UNCHANGED << durable, processes, mode, controllers, volatile, bounds >>

CoreRecovered ==
  /\ Recovering("recoverCore")
  /\ CoreJournals = {} /\ OrphanTransactions = {} /\ OrphanCreations = {}
  /\ switchJournalSeen \/ OrphanSwitchLedgers = {}
  /\ mode' = "ready"
  /\ UNCHANGED << durable, processes, todo, enclosing, controllers, volatile,
                  bounds >>

===============================================================================
