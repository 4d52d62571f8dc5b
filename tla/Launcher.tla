------------------------------- MODULE Launcher -------------------------------
(***************************************************************************)
(* One HDSL launcher instance over one data root: EnvironmentService,      *)
(* ChangeApplyService and the process manager, composed as                 *)
(* apps/desktop/src/main/composition.ts does.  On boot the change journals *)
(* are reconciled, then the processes, then the core journals; after that  *)
(* the instance serves requests until it closes or is killed.              *)
(***************************************************************************)
EXTENDS CreationService, PluginApply, ManagedProcess

Boot ==
  /\ mode = "down"
  /\ mode' = "recoverChanges"
  /\ UNCHANGED << durable, processes, todo, enclosing, controllers, volatile,
                  bounds >>

(***************************************************************************)
(* A write the disk refuses raises an exception in the running block.      *)
(* Outside a task it reaches the dispatcher, which leaves the ledger       *)
(* record in-progress.  Inside one, the catch clause of the task undoes    *)
(* its transaction, and a request that started it still gets its outcome.  *)
(***************************************************************************)
Rescue(o) ==
  IF journals[o].kind \in CoreTransactions THEN UndoScript(o, <<>>)
  ELSE IF journals[o].kind = "apply" THEN RollbackScript(o)
  ELSE IF OfKind(o, {"start", "stop"}) THEN FailScript(o)
  ELSE <<>>

InTask ==
  /\ enclosing # None
  /\ ~(controllers[enclosing] /\ Head(todo).store = "ledger")

\* The outcome the dispatcher still writes, the last write of a request.
Outcome ==
  LET last == todo[Len(todo)] IN
  IF controllers[enclosing] /\ last.store = "ledger" THEN << last >> ELSE <<>>

WriteFails ==
  /\ mode \in {"ready", "closing"}
  /\ todo # <<>>
  /\ Head(todo).store # "controllers"
  /\ faults < MaxWriteFaults
  /\ faults' = faults + 1
  /\ IF InTask
       THEN /\ todo' = Rescue(enclosing) \o Outcome
            /\ Finished(enclosing)
            /\ aborted' = aborted \ {enclosing}
            /\ requested' = [requested EXCEPT ![enclosing] = None]
       ELSE /\ todo' = <<>>
            /\ UNCHANGED << controllers, aborted, requested >>
  /\ enclosing' = None
  /\ UNCHANGED << durable, processes, mode, expected, watched, entries,
                  switchJournalSeen, crashes >>

(***************************************************************************)
(* close(): live core tasks are aborted and awaited, every process whose   *)
(* identity is known is terminated, and the instance ends.  Tasks of       *)
(* changes.apply are neither aborted nor awaited.                          *)
(***************************************************************************)
CoreTasks == {o \in Op : controllers[o] /\ ~OfKind(o, {"apply"})}

BeginClose ==
  /\ Idle
  /\ "close" \in Commands
  /\ mode' = "closing"
  /\ aborted' = aborted \cup CoreTasks
  /\ UNCHANGED << durable, processes, todo, enclosing, controllers, expected,
                  requested, watched, entries, switchJournalSeen, bounds >>

FinishClose ==
  LET known == {e \in Env : launches[e].by # None} IN
  /\ mode = "closing" /\ todo = <<>>
  /\ CoreTasks = {}
  /\ processes' = {p \in processes : \A e \in known : p.by # launches[e].by}
  /\ survivors' = {p \in survivors : \A e \in known : p.by # launches[e].by}
  /\ launches' = [e \in Env |-> IF e \in known
                                  THEN [launches[e] EXCEPT !.state = "ended"]
                                  ELSE launches[e]]
  /\ LoseMemory
  /\ UNCHANGED << environments, operations, journals, generations, plans, ledger,
                  bounds >>

(***************************************************************************)
(* The specification.                                                      *)
(***************************************************************************)
Requests ==
  \E o \in Op, e \in Env :
    \/ CreateEnvironment(o, e)
    \/ SwitchCombination(o, e)
    \/ NoopSwitch(o, e)
    \/ \E p \in Plan : ApplyChange(o, e, p)
    \/ \E g \in Op : RestoreGeneration(o, e, g)
    \/ RestoreActive(o, e)
    \/ Start(o, e)
    \/ Stop(o, e)

Cancels == \E o \in Op : CancelOperation(o) \/ CancelApply(o)

\* A live task goes on: its promise settles, by an answer or by a timeout.
TaskSteps(o) ==
  \/ InstallReturns(o) \/ StageReturns(o)
  \/ LaunchIntent(o) \/ Spawn(o) \/ Identify(o) \/ Ready(o) \/ StartFails(o)
  \/ StopReturns(o) \/ StopUnconfirmed(o)

RecoverySteps ==
  \/ \E o \in Op : \/ RecoverChange(o) \/ RecoverOrphanChange(o)
                   \/ SweepChangeLedger(o)
  \/ ChangesRecovered
  \/ \E e \in Env : ReconcileLaunch(e)
  \/ ProcessesReconciled
  \/ \E o \in Op : RecoverJournal(o) \/ RecoverOrphan(o) \/ SettleSwitchLedger(o)
  \/ \E e \in Env : RecoverCreating(e)
  \/ CoreRecovered

Surroundings ==
  \/ Crash
  \/ WriteFails
  \/ \E p \in Alive : ProcessDies(p)
  \/ \E o \in Op, e \in Env : ExitCallback(o, e)
  \/ BeginClose

Next ==
  \/ Requests \/ Cancels \/ Surroundings
  \/ Boot \/ FinishClose
  \/ Persist \/ RecoverySteps
  \/ \E o \in Op : TaskSteps(o)

Spec == Init /\ [][Next]_vars

\* Synchronous code runs on, recovery awaits only bounded waits, every process
\* and install wait has a timeout, and somebody starts the launcher again.
Fairness ==
  /\ WF_vars(Persist) /\ WF_vars(RecoverySteps)
  /\ WF_vars(Boot) /\ WF_vars(FinishClose)
  /\ \A o \in Op : WF_vars(TaskSteps(o))

FairSpec == Spec /\ Fairness

===============================================================================
