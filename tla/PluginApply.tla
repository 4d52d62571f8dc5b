------------------------------ MODULE PluginApply ------------------------------
(***************************************************************************)
(* ChangeApplyService of packages/core/src/plugin-apply.ts: changes.apply  *)
(* stages a new generation from a plan and commits it by the same pointer  *)
(* write as a switch; generations.restore moves the pointer back to a      *)
(* retained generation.  It shares the environments, operations and ledger *)
(* with EnvironmentService and keeps journals of its own.                  *)
(***************************************************************************)
EXTENDS LauncherStores

\* Slip: a running switch is not looked at.
OwnChangeInProgress(e) ==
  \/ HasJournal(e, ChangeTransactions)
  \/ \E o \in Op : controllers[o] /\ OfKind(o, {"apply"}) /\ operations[o].env = e

\* #inFlight, an open change journal, or an open switch journal.
ChangeInProgress(e) ==
  \/ HasJournal(e, ChangeTransactions)
  \/ HasJournal(e, {"switch"})
  \/ \E o \in Op : controllers[o] /\ OfKind(o, {"apply"}) /\ operations[o].env = e

\* The state guard evaluateGuards and restoreGeneration share.
Changeable(e) == environments[e].state # "absent" /\ ~Changing(e)

\* A plan is made for an environment with an active generation, and its apply
\* copies that generation's runtime, so the pointer is never null here.
ApplyChange(o, e, p) ==
  /\ Idle
  /\ NewRequest(o, "apply")
  /\ Changeable(e)
  /\ environments[e].gen # None
  /\ plans[p] = None
  /\ PlanFor[p] = e
  /\ ~ChangeInProgress(e)
  /\ expected' = [expected EXCEPT ![o] = environments[e].revision]
  /\ Run(Dispatched(o, "apply",
           << PutOperation(o, "apply", e, "active"),
              Register(o),
              PutJournal(o, [kind |-> "apply", env |-> e, gen |-> o,
                             plan |-> p, phase |-> "open"]),
              PutGeneration(o, "staged") >>), None)
  /\ UNCHANGED << durable, processes, mode, controllers, aborted, requested,
                  watched, entries, switchJournalSeen, bounds >>

\* #rollback: a cancelled operation stays cancelled.
RollbackScript(o) ==
  Settle(o, "failed")
  \o << PutGeneration(o, "absent") >>
  \o RepairLedger(o)
  \o << PutJournal(o, NoJournal) >>

\* Slip: the staged generation of a cancelled apply stays.
CancelKeepingStage(o) == << PutJournal(o, NoJournal) >>

\* #cancelJournal
CancelScript(o) == << PutGeneration(o, "absent"), PutJournal(o, NoJournal) >>

\* The commit point re-reads the environment, compares its revision only, and
\* forces the state `stopped`.
PublishScript(o) ==
  LET j == journals[o]
      e == environments[j.env]
  IN
  << PutGeneration(o, "recorded") >>
  \o (IF e.revision # expected[o] THEN RollbackScript(o) ELSE
      << PutEnvironment(j.env, [e EXCEPT !.state = "stopped",
                                         !.revision = @ + 1, !.gen = o]),
         PutJournal(o, [j EXCEPT !.phase = "committed"]),
         PutPlan(j.plan, o) >>
      \o Settle(o, "succeeded")
      \o RepairLedger(o)
      \o << PutJournal(o, NoJournal) >>)

\* port.stage (or applyRemoval) settles and the rest of #run runs.
StageReturns(o) ==
  /\ TaskReturns(o)
  /\ journals[o].kind = "apply"
  /\ \/ Run(RollbackScript(o), o)
     \/ Run(IF o \in aborted THEN CancelScript(o) ELSE PublishScript(o), o)
  /\ Finished(o)
  /\ aborted' = aborted \ {o}
  /\ expected' = [expected EXCEPT ![o] = 0]
  /\ UNCHANGED << durable, processes, mode, requested, watched,
                  entries, switchJournalSeen, bounds >>

\* Refused once the journal is committed or the pointer names its generation.
CancelApply(o) ==
  /\ Idle
  /\ "cancel" \in Commands
  /\ Pending(o, {"apply"})
  /\ ~ /\ OpenJournal(o)
       /\ \/ journals[o].phase = "committed"
          \/ environments[journals[o].env].gen = journals[o].gen
  /\ aborted' = IF controllers[o] THEN aborted \cup {o} ELSE aborted
  /\ Run(Settle(o, "cancelled"), None)
  /\ UNCHANGED << durable, processes, mode, controllers, expected, requested,
                  watched, entries, switchJournalSeen, bounds >>

\* Pointer-only: the journal is written first, already `committed`, and the
\* state of the environment is left as it is.
RestoreGeneration(o, e, g) ==
  LET j == [kind |-> "restore", env |-> e, gen |-> g, plan |-> None,
            phase |-> "committed"]
  IN
  /\ Idle
  /\ NewRequest(o, "restore")
  /\ Changeable(e)
  /\ generations[g] = "recorded" /\ operations[g].env = e
  /\ environments[e].gen # g
  /\ ~ChangeInProgress(e)
  /\ Run(Dispatched(o, "restore",
           << PutJournal(o, j),
              PutOperation(o, "restore", e, "active"),
              PutEnvironment(e, [environments[e] EXCEPT !.gen = g,
                                                        !.revision = @ + 1]),
              PutOperation(o, "restore", e, "succeeded"),
              PutLedger(o, "restore", "ok"),
              PutJournal(o, NoJournal) >>), None)
  /\ UNCHANGED << durable, processes, mode, controllers, volatile, bounds >>

\* The target is already active: no journal, no revision.
RestoreActive(o, e) ==
  /\ Idle
  /\ NewRequest(o, "restore")
  /\ Changeable(e)
  /\ environments[e].gen # None
  /\ Run(Dispatched(o, "restore",
           << PutOperation(o, "restore", e, "active"),
              PutOperation(o, "restore", e, "succeeded"),
              PutLedger(o, "restore", "ok") >>), None)
  /\ UNCHANGED << durable, processes, mode, controllers, volatile, bounds >>

(***************************************************************************)
(* recover(): the pointer decides.                                         *)
(***************************************************************************)
ChangeJournals == {o \in Op : journals[o].kind \in ChangeTransactions}
OrphanChanges ==
  {o \in Op : Pending(o, ChangeTransactions) /\ ~OpenJournal(o)}
OrphanChangeLedgers ==
  {o \in Op : ledger[o].method \in ChangeTransactions
              /\ ledger[o].state = "in-progress"}

\* #markOperationSucceeded: nothing, not even the ledger, when the operation
\* record is missing or failed.
MarkSucceeded(o) ==
  IF operations[o].status \in {"absent", "failed"} THEN <<>> ELSE
    (IF operations[o].status = "succeeded" THEN <<>> ELSE
       << Ended(o, "succeeded") >>)
    \o RepairLedger(o)

\* Slip: recovery finishes a committed apply without consuming its plan.
RecoverWithoutPlan(o) ==
  LET j == journals[o] IN
  /\ mode = "recoverChanges" /\ todo = <<>>
  /\ o \in ChangeJournals
  /\ Run(IF environments[j.env].gen = j.gen
           THEN MarkSucceeded(o) \o << PutJournal(o, NoJournal) >>
           ELSE RollbackScript(o), None)
  /\ UNCHANGED << durable, processes, mode, controllers, volatile, bounds >>

RecoverChange(o) ==
  LET j == journals[o] IN
  /\ mode = "recoverChanges" /\ todo = <<>>
  /\ o \in ChangeJournals
  /\ Run(IF environments[j.env].gen = j.gen
           THEN MarkSucceeded(o)
                \o (IF j.kind = "apply" /\ plans[j.plan] = None
                      THEN << PutPlan(j.plan, o) >> ELSE <<>>)
                \o << PutJournal(o, NoJournal) >>
           ELSE IF j.kind = "restore"
             THEN Settle(o, "failed") \o RepairLedger(o)
                  \o << PutJournal(o, NoJournal) >>
             ELSE RollbackScript(o), None)
  /\ UNCHANGED << durable, processes, mode, controllers, volatile, bounds >>

RecoverOrphanChange(o) ==
  /\ mode = "recoverChanges" /\ todo = <<>>
  /\ ChangeJournals = {}
  /\ o \in OrphanChanges
  /\ Run(Settle(o, "failed"), None)
  /\ UNCHANGED << durable, processes, mode, controllers, volatile, bounds >>

\* A crash before any journal: the request ends in a controlled failure.
SweepChangeLedger(o) ==
  /\ mode = "recoverChanges" /\ todo = <<>>
  /\ ChangeJournals = {} /\ OrphanChanges = {}
  /\ o \in OrphanChangeLedgers
  /\ Run(<< PutLedger(o, ledger[o].method, "failed") >>, None)
  /\ UNCHANGED << durable, processes, mode, controllers, volatile, bounds >>

ChangesRecovered ==
  /\ mode = "recoverChanges" /\ todo = <<>>
  /\ ChangeJournals = {} /\ OrphanChanges = {} /\ OrphanChangeLedgers = {}
  /\ mode' = "recoverProcesses"
  /\ UNCHANGED << durable, processes, todo, enclosing, controllers, volatile,
                  bounds >>

===============================================================================
