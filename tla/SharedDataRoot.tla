---------------------------- MODULE SharedDataRoot ----------------------------
(* Launchers of one data root: who may run, reconcile and finish a transaction  *)
(* while another is alive.  Of DataRootLock this module keeps what it promises   *)
(* (one live holder, whose lease nobody moves), of Launcher the order of a boot   *)
(* (apps/desktop/src/main/composition.ts), of core transactions, which ask for   *)
(* the lease, and of change transactions, which do not, when they begin, commit, *)
(* roll back and are reconciled.  One environment; a core transaction is a       *)
(* version switch.                                                              *)
EXTENDS Naturals, FiniteSets, Absent

CONSTANTS
    Instance,     \* processes that may open the data root
    Switch,       \* transactions of EnvironmentService
    Change,       \* transactions of ChangeApplyService
    MaxRevision,  \* bound: commits
    MaxBoots       \* bound: boots

\* A transaction is of one service; None names no transaction and no instance.
ASSUME TransactionsApart == Switch \cap Change = {} /\ None \notin Switch \cup Instance

VARIABLES
    lease,      \* the instance that holds the data root
    mode,       \* mode[i]: where an instance is in its life
    tasks,      \* tasks[i]: transactions whose install or staging it awaits, or which it is
                \* recording as committed
    journal,    \* journal[t]: an open transaction's journal is on disk
    operation,  \* operation[t]: the status of its operation
    generation, \* generation[t]: its directory: "absent", "staged", or "torn" (being removed)
    revision,   \* environment.revision
    pointer,    \* environment.activeGenerationId: a transaction's, or None for an earlier one
    moved,      \* history: the transactions that moved it
    expected,   \* expected[t]: the revision it was asked for
    boots       \* how many instances were started

instanceVars == <<lease, mode, tasks, journal, operation, generation, revision, pointer,
                  moved, expected, boots>>
AnyTransaction == Switch \cup Change

InstancesInit ==
    /\ lease = None /\ mode = [i \in Instance |-> "off"] /\ tasks = [i \in Instance |-> {}]
    /\ journal = [t \in AnyTransaction |-> FALSE] /\ operation = [t \in AnyTransaction |-> None]
    /\ generation = [t \in AnyTransaction |-> "absent"]
    /\ expected = [t \in AnyTransaction |-> 0]
    /\ revision = 0 /\ pointer = None /\ moved = {} /\ boots = 0

Become(i, next) == mode' = [mode EXCEPT ![i] = next]
TransactionsUntouched ==
    UNCHANGED <<journal, operation, generation, revision, pointer, moved, expected>>

-----------------------------------------------------------------------------
(* A boot. *)

\* A lease of a live instance is not taken from it.
Acquire(i) == lease' = IF lease = None THEN i ELSE lease

\* open() waits for the lease for a while; without it the boot goes on.
Open(i) ==
    /\ mode[i] = "off" /\ boots < MaxBoots
    /\ Acquire(i)
    /\ Become(i, "recoverChanges") /\ boots' = boots + 1
    /\ UNCHANGED tasks /\ TransactionsUntouched

\* changeApply.recover() asks nobody: every change journal is reconciled.
Unreconciled(t) == t \in Change /\ (journal[t] \/ operation[t] = "active")

\* The pointer decides: the transaction is finalized, or marked failed.
ReconcileChange(i, t) ==
    /\ mode[i] = "recoverChanges" /\ Unreconciled(t) /\ generation[t] # "torn"
    /\ IF pointer = t
       THEN /\ operation' = [operation EXCEPT ![t] = IF @ = "failed" THEN @ ELSE "succeeded"]
            /\ journal' = [journal EXCEPT ![t] = FALSE]
            /\ UNCHANGED generation
       ELSE /\ operation' = [operation EXCEPT ![t] = "failed"]
            /\ generation' = [generation EXCEPT ![t] = IF @ = "staged" THEN "torn" ELSE @]
            /\ journal' = [journal EXCEPT ![t] = @ /\ generation[t] = "staged"]
    /\ UNCHANGED <<lease, mode, tasks, revision, pointer, moved, expected, boots>>

\* The generation's directory holds a whole runtime: its removal takes a while.
RemoveGeneration(i, t) ==
    /\ mode[i] = "recoverChanges" /\ t \in Change /\ generation[t] = "torn"
    /\ generation' = [generation EXCEPT ![t] = "absent"]
    /\ journal' = [journal EXCEPT ![t] = FALSE]
    /\ UNCHANGED <<lease, mode, tasks, operation, revision, pointer, moved, expected, boots>>

ChangesReconciled(i) ==
    /\ mode[i] = "recoverChanges"
    /\ \A t \in Change : ~Unreconciled(t) /\ generation[t] # "torn"
    /\ Become(i, "recoverCore")
    /\ UNCHANGED <<lease, tasks, boots>> /\ TransactionsUntouched

\* Slip: recover() reconciles whoever holds the lease.
AnyInstance(i) == TRUE
\* EnvironmentService.recover() asks for the lease once more.
MayRecover(i) == lease \in {i, None}

RecoverCore(i) ==
    /\ mode[i] = "recoverCore" /\ MayRecover(i)
    /\ Acquire(i) /\ Become(i, "ready")
    /\ LET open == {t \in Switch : journal[t] \/ operation[t] = "active"}
           undone == open \ {pointer} IN
       /\ operation' = [t \in AnyTransaction |-> IF t \in undone THEN "failed"
                                              ELSE IF t \in open THEN "succeeded"
                                              ELSE operation[t]]
       /\ generation' = [t \in AnyTransaction |-> IF t \in undone THEN "absent" ELSE generation[t]]
       /\ journal' = [t \in AnyTransaction |-> journal[t] /\ t \notin open]
    /\ UNCHANGED <<tasks, revision, pointer, moved, expected, boots>>

\* Nothing is reconciled; the user is told that the data root is in use.
RecoveryRefused(i) ==
    /\ mode[i] = "recoverCore" /\ ~MayRecover(i) /\ Become(i, "released")
    /\ UNCHANGED <<lease, tasks, boots>> /\ TransactionsUntouched

-----------------------------------------------------------------------------
(* Transactions. *)

\* Both services look at both journals.
Begin(i, t) ==
    /\ mode[i] = "ready" /\ operation[t] = None
    /\ \A other \in AnyTransaction : ~journal[other]
    /\ journal' = [journal EXCEPT ![t] = TRUE]
    /\ operation' = [operation EXCEPT ![t] = "active"]
    /\ generation' = [generation EXCEPT ![t] = "staged"]
    /\ expected' = [expected EXCEPT ![t] = revision]
    /\ tasks' = [tasks EXCEPT ![i] = @ \cup {t}]
    /\ UNCHANGED <<lease, mode, revision, pointer, moved, boots>>

BeginSwitch(i, t) == t \in Switch /\ lease = i /\ Begin(i, t)
BeginApply(i, t) == t \in Change /\ Begin(i, t)

TaskEnds(i, t) == tasks' = [tasks EXCEPT ![i] = @ \ {t}]

\* A final status stays; the journal goes, or was never found.
Undo(i, t) ==
    /\ TaskEnds(i, t)
    /\ operation' = [operation EXCEPT ![t] = IF @ = "active" THEN "failed" ELSE @]
    /\ generation' = [generation EXCEPT ![t] = "absent"]
    /\ journal' = [journal EXCEPT ![t] = FALSE]
    /\ UNCHANGED <<lease, mode, revision, pointer, moved, expected, boots>>

\* The commit point.
MovePointer(i, t) ==
    /\ revision < MaxRevision
    /\ revision' = revision + 1 /\ pointer' = t /\ moved' = moved \cup {t}
    /\ UNCHANGED <<lease, mode, tasks, journal, operation, generation, expected, boots>>

\* The commit is recorded; a record that says failed is left alone.
RecordCommit(i, t) ==
    /\ t \in tasks[i] \cap moved
    /\ TaskEnds(i, t)
    /\ operation' = [operation EXCEPT ![t] = IF @ = "active" THEN "succeeded" ELSE @]
    /\ journal' = [journal EXCEPT ![t] = FALSE]
    /\ UNCHANGED <<lease, mode, moved, generation, revision, pointer, expected, boots>>

\* An install ends: it commits or is undone under the lease only, a close has aborted it,
\* and nothing looks at what became of its directory.
InstallReturns(i, t) ==
    /\ t \in (Switch \cap tasks[i]) \ moved
    /\ lease = i
    /\ Undo(i, t) \/ (mode[i] = "ready" /\ MovePointer(i, t))

\* A staging ends: whoever holds the lease, whether its journal is still there or not, and
\* whether its instance is closing; the revision must be the expected one, and what it
\* reads of its own directory must still be there.
ApplyReturns(i, t) ==
    /\ t \in (Change \cap tasks[i]) \ moved
    /\ \/ journal[t] /\ Undo(i, t)
       \/ /\ ~journal[t] /\ TaskEnds(i, t)
          /\ UNCHANGED <<lease, mode, moved, journal, operation, generation, revision, pointer,
                         expected, boots>>
       \/ generation[t] # "absent" /\ revision = expected[t] /\ MovePointer(i, t)

-----------------------------------------------------------------------------
(* The end of an instance. *)

BeginClose(i) ==
    /\ mode[i] = "ready" /\ Become(i, "closing")
    /\ UNCHANGED <<lease, tasks, boots>> /\ TransactionsUntouched

\* close() awaits the tasks of EnvironmentService, and no others.
NothingPending(i) == tasks[i] \cap Switch = {}

ReleaseLease(i) ==
    /\ mode[i] = "closing" /\ NothingPending(i)
    /\ lease' = IF lease = i THEN None ELSE lease
    /\ Become(i, "released")
    /\ UNCHANGED <<tasks, boots>> /\ TransactionsUntouched

\* The process ends after its close, or is killed; a dead holder's lease is taken over.
InstanceEnds(i) ==
    /\ mode[i] # "off" /\ Become(i, "off")
    /\ lease' = IF lease = i THEN None ELSE lease
    /\ tasks' = [tasks EXCEPT ![i] = {}]
    /\ UNCHANGED boots /\ TransactionsUntouched

InstancesNext ==
    \E i \in Instance :
        \/ Open(i) \/ ChangesReconciled(i) \/ RecoverCore(i) \/ RecoveryRefused(i)
        \/ BeginClose(i) \/ ReleaseLease(i) \/ InstanceEnds(i)
        \/ \E t \in AnyTransaction :
              \/ ReconcileChange(i, t) \/ RemoveGeneration(i, t)
              \/ BeginSwitch(i, t) \/ BeginApply(i, t)
              \/ InstallReturns(i, t) \/ ApplyReturns(i, t) \/ RecordCommit(i, t)

InstancesSpec == InstancesInit /\ [][InstancesNext]_instanceVars

-----------------------------------------------------------------------------
\* What the pointer names was committed: its operation does not say that it failed, and its
\* directory is whole.
Authoritative(t) == pointer = t => operation[t] # "failed" /\ generation[t] = "staged"

\* No boot, close or end of one launcher undoes a switch another one goes on to commit
\* (composition.ts, creation-service.ts: recover, close).
SwitchesAreIsolated == \A t \in Switch : Authoritative(t)

\* The same of changes, as creation-service.ts says of recover() and plugin-apply.ts of a
\* failed record.
ChangesAreIsolated == \A t \in Change : Authoritative(t)
=============================================================================
