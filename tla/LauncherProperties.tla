-------------------------- MODULE LauncherProperties --------------------------
(***************************************************************************)
(* What one launcher instance guarantees, through every crash and every    *)
(* interleaving of its tasks.  "At rest" means that the instance serves    *)
(* requests and no synchronous block is being executed.                    *)
(***************************************************************************)
EXTENDS Launcher

\* Every store holds records of its type.
TypeOK ==
  /\ environments \in [Env -> EnvironmentRecord]
  /\ operations \in [Op -> OperationRecord]
  /\ journals \in [Op -> JournalRecord]
  /\ generations \in [Op -> GenerationStates]
  /\ plans \in [Plan -> Op \cup {None}]
  /\ ledger \in [Op -> LedgerRecord]
  /\ launches \in [Env -> LaunchRecord]
  /\ processes \subseteq Process /\ survivors \subseteq Process
  /\ mode \in Modes
  /\ todo \in Seq(WriteRecord)
  /\ enclosing \in Op \cup {None}
  /\ controllers \in [Op -> BOOLEAN]
  /\ aborted \subseteq Op
  /\ expected \in [Op -> Nat]
  /\ requested \in [Op -> Op \cup {None}]
  /\ watched \subseteq Op
  /\ entries \in [Env -> Resolutions]
  /\ switchJournalSeen \in BOOLEAN
  /\ crashes \in 0..MaxCrashes /\ faults \in 0..MaxWriteFaults

(***************************************************************************)
(* Transactions.                                                           *)
(***************************************************************************)

\* At every write point, also between two writes of a commit, a rollback or a
\* recovery, the active-generation pointer names a complete generation: the
\* generation record is written before the pointer, and no path deletes the
\* directory the pointer names.
PointerIntact ==
  \A e \in Env : environments[e].gen # None
                   => generations[environments[e].gen] = "recorded"

\* "One environment has at most one modifying transaction": core and change
\* journals are guarded by different services and never coexist.
SingleTransaction ==
  \A o, q \in Op : OpenJournal(o) /\ OpenJournal(q)
                     /\ journals[o].env = journals[q].env => o = q

\* At rest a journal or a half-built generation belongs to a live task:
\* neither a crash nor a failure leaves one behind, where it would refuse
\* every later switch, apply and restore of the environment.
NoResidue ==
  Idle => \A o \in Op :
    OpenJournal(o) \/ generations[o] = "staged" => controllers[o]

\* At rest an unfinished create, switch, apply or restore has a live task, and
\* so has an environment that is `creating`: clients never wait for nothing.
UnfinishedIsLive ==
  Idle => /\ \A o \in Op :
               Pending(o, CoreTransactions \cup ChangeTransactions) => controllers[o]
          /\ \A e \in Env : environments[e].state = "creating" =>
               \E o \in Op : controllers[o] /\ operations[o].env = e

\* At rest the outcome a client reads is what happened to the generation: a
\* failed transaction left none, a cancelled apply left none, a succeeded
\* apply or create committed one.  (A cancelled create or switch may have been
\* committed: its cancellation can come after the commit.)
HonestOutcome ==
  Idle => \A o \in Op : ~controllers[o] =>
    /\ operations[o].status = "failed" => generations[o] = "absent"
    /\ operations[o].status = "cancelled" /\ OfKind(o, {"apply"})
         => generations[o] = "absent"
    /\ operations[o].status = "succeeded" /\ OfKind(o, {"create", "apply"})
         => generations[o] = "recorded"

\* At rest a plan is consumed exactly when its apply was committed, also when
\* the commit was finished by recovery: a plan is applied at most once, and a
\* change that was rolled back may be applied again.
PlanFollowsCommit ==
  Idle => /\ \A p \in Plan : plans[p] # None =>
               operations[plans[p]].kind = "apply"
               /\ operations[plans[p]].status = "succeeded"
          /\ \A o \in Op : OfKind(o, {"apply"}) /\ operations[o].status = "succeeded"
               => \E p \in Plan : plans[p] = o

\* At rest no request of a switch, an apply or a restore is left in-progress
\* in the ledger, where every replay would be answered ENVIRONMENT_BUSY.
LedgerSettled ==
  Idle => \A o \in Op :
    ledger[o].method \in {"switch", "apply", "restore"}
      => ledger[o].state # "in-progress"

\* At rest a request whose outcome is recorded names an operation that exists,
\* also when recovery recorded it, so a replay finds what it asks for: a create,
\* switch or apply writes its operation before the journal recovery works from.
\* (A restore writes its journal first: interrupted in between, it does not.)
ReplayNamesOperation ==
  Idle => \A o \in Op :
    ledger[o].state = "ok" /\ ledger[o].method # "restore"
      => operations[o].status # "absent"

\* Whatever crashes and refused writes left, the end of a recovery finds no
\* journal, no half-built generation, no unfinished operation, no environment
\* that is `creating`, and no change request in-progress.
RestartConverges ==
  [][mode = "recoverCore" /\ mode' = "ready" =>
       /\ \A o \in Op : /\ ~OpenJournal(o)
                        /\ generations[o] # "staged"
                        /\ operations[o].status # "active"
                        /\ ledger[o].method \in ChangeTransactions
                             => ledger[o].state # "in-progress"
       /\ \A e \in Env : environments[e].state # "creating"]_vars

(***************************************************************************)
(* The launcher implements GenerationHistory: a generation is retained     *)
(* from the moment the pointer names it, and stays so when its journal is  *)
(* closed.                                                                 *)
(***************************************************************************)
Retained(e) ==
  {t \in Op : /\ generations[t] = "recorded"
              /\ operations[t].env = e
              /\ environments[e].gen = t \/ ~OpenJournal(t)}

History == INSTANCE GenerationHistory WITH
  Environment <- Env, Generation <- Op, Nothing <- None,
  active <- [e \in Env |-> environments[e].gen],
  revision <- [e \in Env |-> environments[e].revision],
  retained <- [e \in Env |-> Retained(e)]

\* Each write of the launcher is a commit, a restore or invisible.
ImplementsHistory == History!Spec

(***************************************************************************)
(* Processes.                                                              *)
(***************************************************************************)

\* An environment never has two managed processes, whatever crashed between
\* the spawn, the capture of the identity and the launch record.  A process that
\* outlived its failed start counts as long as the launch record names it: the
\* next start finds it and is refused.  (One whose identity was never captured
\* does not count: the next start runs beside it.)
OneProcess ==
  LET known == processes \cup {p \in survivors : launches[p.env].by = p.by}
  IN \A p, q \in known : p.env = q.env => p = q

\* At rest, unless recovery reported a process it cannot verify, a live
\* process belongs to an environment whose record says so: a `stopped`
\* environment may be switched, restored and migrated.  (The processes that
\* outlived the SIGKILL of their failed start are not counted.)
StoppedHasNoProcess ==
  Idle /\ ~blocked => \A p \in processes : Changing(p.env)

\* At rest, unless recovery is blocked, a live process runs the generation the
\* pointer names: a composition is not changed under a running process.  (Again
\* without those that outlived their failed start.)
RunsActiveGeneration ==
  Idle /\ ~blocked => \A p \in processes : p.gen = environments[p.env].gen

\* At rest an unfinished start or stop has a live task.
ProcessOperationIsLive ==
  Idle => \A o \in Op : Pending(o, {"start", "stop"}) => controllers[o]

(***************************************************************************)
(* Liveness, under the fairness of Launcher.                               *)
(***************************************************************************)

\* Every operation reaches a final status, through crashes and recoveries.
OperationsFinish ==
  \A o \in Op : operations[o].status = "active" ~> operations[o].status # "active"

\* Whatever a crash left, a boot ends with an instance that serves requests.
BootCompletes == mode = "recoverChanges" ~> mode \in {"ready", "down"}

\* A close, which awaits every live task, ends.
CloseCompletes == mode = "closing" ~> mode = "down"

===============================================================================
