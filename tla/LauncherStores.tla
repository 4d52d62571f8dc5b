---------------------------- MODULE LauncherStores ----------------------------
(***************************************************************************)
(* The durable stores of one HDSL data root and the in-memory state of the *)
(* launcher instance that owns it.                                         *)
(*                                                                         *)
(* Every store of packages/core is a directory of JSON files, and every    *)
(* write is one atomic file replacement or one removal (fsx.ts).  The      *)
(* handlers run on one JavaScript thread: between two awaits nothing else  *)
(* runs, but the instance can be killed, or the disk can refuse a write,   *)
(* between any two writes.  So a handler is modelled by one action that    *)
(* checks its guards and leaves in  todo  the writes of its synchronous    *)
(* block, in the order of the source; Persist then performs them one by    *)
(* one, and Crash and WriteFails may strike before each of them.           *)
(*                                                                         *)
(* Identifiers: a request, the operation it creates, its transaction and   *)
(* the generation that transaction builds are all fresh identifiers of one *)
(* request, so one element of Op names all four.                           *)
(***************************************************************************)
EXTENDS Naturals, Sequences, FiniteSets

CONSTANTS
  Env,            \* environments
  Op,             \* requests (and their operation, transaction, generation)
  Plan,           \* change plans, the unit changes.apply consumes
  PlanFor,        \* the environment each plan was previewed for
  None,           \* a value that is none of the above
  Commands,       \* the commands clients issue in this configuration
  MaxCrashes,     \* bound on crashes of the instance
  MaxWriteFaults  \* bound on writes the disk refuses (ENOSPC, EIO)

Kinds == {"create", "switch", "apply", "restore", "start", "stop"}
CoreTransactions == {"create", "switch"}       \* journals in transactions/
ChangeTransactions == {"apply", "restore"}     \* journals in applyJournals/

ASSUME CommandsAssumption == Commands \subseteq Kinds \cup {"cancel", "close"}
ASSUME FiniteAssumption == IsFiniteSet(Env) /\ IsFiniteSet(Op)
ASSUME BoundsAssumption == MaxCrashes \in Nat /\ MaxWriteFaults \in Nat
ASSUME NoneAssumption == None \notin Env \cup Op \cup Plan
ASSUME PlanAssumption == PlanFor \in [Plan -> Env]

VARIABLES
  \* durable: what a restart finds on disk
  environments,   \* environment record: state, composition revision, pointer
  operations,     \* operation record: kind, environment, status
  journals,       \* open transaction journal of the request, if any
  generations,    \* generation directory: absent, staged, recorded
  plans,          \* the request that consumed the plan, or None
  ledger,         \* idempotency record of the request
  launches,       \* launch record of the environment's managed process
  \* the operating system: survives a crash of the launcher
  processes,      \* live managed processes
  survivors,      \* live processes whose failed start did not wait for their end
  \* in memory: lost by a crash
  mode,           \* where the instance is in its life
  todo,           \* writes of the synchronous block being executed
  enclosing,      \* request whose try block contains that block, or None
  controllers,    \* requests with a live task (an AbortController)
  aborted,        \* requests whose AbortController was aborted
  expected,       \* expectedRevision captured by an in-flight apply
  requested,      \* generation of a start that has not spawned its process
  watched,        \* starts whose child has an exit listener
  entries,        \* resolution of each launch record by process recovery
  switchJournalSeen,  \* recover() read a switch journal when it started
  \* bounds
  crashes, faults

files == << environments, operations, journals, generations, plans, ledger,
            launches >>
durable == << environments, operations, journals, generations, plans, ledger,
              launches, survivors >>
volatile == << aborted, expected, requested, watched, entries,
               switchJournalSeen >>
bounds == << crashes, faults >>
vars == << durable, processes, mode, todo, enclosing, controllers, volatile,
           bounds >>

EnvironmentStates ==
  {"absent", "creating", "stopped", "starting", "running", "stopping", "error"}
EnvironmentRecord ==
  [state: EnvironmentStates, revision: Nat, gen: Op \cup {None}]
NoEnvironment == [state |-> "absent", revision |-> 0, gen |-> None]

Terminal == {"succeeded", "failed", "cancelled"}
NoOperation == [kind |-> "none", env |-> None, status |-> "absent"]
OperationRecord ==
  [kind: Kinds, env: Env, status: Terminal \cup {"active"}] \cup {NoOperation}

NoJournal ==
  [kind |-> "none", env |-> None, gen |-> None, plan |-> None, phase |-> "none"]
JournalRecord ==
  [kind: {"apply"}, env: Env, gen: Op, plan: Plan, phase: {"open", "committed"}]
  \cup [kind: CoreTransactions \cup {"restore"}, env: Env, gen: Op, plan: {None},
        phase: {"open", "committed"}]
  \cup {NoJournal}

LedgerRecord ==
  [method: Kinds \cup {"none"}, state: {"none", "in-progress", "ok", "failed"}]
NoLedger == [method |-> "none", state |-> "none"]

GenerationStates == {"absent", "staged", "recorded"}

\* A launch record names the start whose process it identified ( by , None
\* while the identity is unknown) and the generation that process runs.
LaunchRecord ==
  [state: {"none", "spawning", "starting", "running", "stopping", "ended",
           "unverifiable"},
   gen: Op \cup {None}, by: Op \cup {None}]
NoLaunch == [state |-> "none", gen |-> None, by |-> None]
Process == [env: Env, by: Op, gen: Op]
Resolutions == {"none", "adopted", "stopped", "unverifiable"}

Modes ==
  {"down", "recoverChanges", "recoverProcesses", "recoverCore", "ready", "closing"}

(***************************************************************************)
(* Writes.                                                                 *)
(***************************************************************************)
Write(store, key, value) == [store |-> store, key |-> key, val |-> value]

PutEnvironment(e, record) == Write("environments", e, record)
PutOperation(o, kind, e, status) ==
  Write("operations", o, [kind |-> kind, env |-> e, status |-> status])
PutJournal(o, record) == Write("journals", o, record)
PutGeneration(o, state) == Write("generations", o, state)
PutPlan(p, o) == Write("plans", p, o)
PutLedger(o, method, state) ==
  Write("ledger", o, [method |-> method, state |-> state])
PutLaunch(e, record) == Write("launches", e, record)
Register(o) == Write("controllers", o, TRUE)

WriteRecord ==
  [store: {"environments"}, key: Env, val: EnvironmentRecord]
  \cup [store: {"operations"}, key: Op, val: OperationRecord]
  \cup [store: {"journals"}, key: Op, val: JournalRecord]
  \cup [store: {"generations"}, key: Op, val: GenerationStates]
  \cup [store: {"plans"}, key: Plan, val: Op]
  \cup [store: {"ledger"}, key: Op, val: LedgerRecord]
  \cup [store: {"launches"}, key: Env, val: LaunchRecord]
  \cup [store: {"controllers"}, key: Op, val: {TRUE}]

Stored(store, table) ==
  IF Head(todo).store = store
    THEN [table EXCEPT ![Head(todo).key] = Head(todo).val]
    ELSE table

\* The next write of the running block reaches its store.  Once a request has
\* registered its task, the rest of the block lies in the task's try block.
Persist ==
  /\ todo # <<>>
  /\ environments' = Stored("environments", environments)
  /\ operations' = Stored("operations", operations)
  /\ journals' = Stored("journals", journals)
  /\ generations' = Stored("generations", generations)
  /\ plans' = Stored("plans", plans)
  /\ ledger' = Stored("ledger", ledger)
  /\ launches' = Stored("launches", launches)
  /\ controllers' = Stored("controllers", controllers)
  /\ todo' = Tail(todo)
  /\ enclosing' = IF Head(todo).store = "controllers" THEN Head(todo).key ELSE enclosing
  /\ UNCHANGED << processes, survivors, mode, volatile, bounds >>

\* A handler that passed its guards: its synchronous block is  script ; an
\* exception in it is caught by the try block of request  inside  (None: it
\* reaches the dispatcher).
Run(script, inside) == todo' = script /\ enclosing' = inside

Idle == mode = "ready" /\ todo = <<>>
TaskReturns(o) == mode \in {"ready", "closing"} /\ todo = <<>> /\ controllers[o]

\* Slip: the task's AbortController is never removed.
FinishedStillListed(o) == UNCHANGED controllers

Finished(o) == controllers' = [controllers EXCEPT ![o] = FALSE]

(***************************************************************************)
(* What handlers read from the stores.                                     *)
(***************************************************************************)
OpenJournal(o) == journals[o].kind # "none"
HasJournal(e, kinds) ==
  \E o \in Op : journals[o].kind \in kinds /\ journals[o].env = e
Pending(o, kinds) ==
  operations[o].kind \in kinds /\ operations[o].status = "active"

\* Slip: an unverifiable process blocks nothing.
NeverBlocked == FALSE

blocked == \E e \in Env : entries[e] = "unverifiable"   \* recoveryBlocked
Changing(e) == environments[e].state \in {"starting", "running", "stopping"}
OfKind(o, kinds) == operations[o].kind \in kinds

\* `if (operation !== undefined && !isTerminalStatus(operation.status)) update`
Ended(o, status) ==
  Write("operations", o, [operations[o] EXCEPT !.status = status])

Settle(o, status) ==
  IF operations[o].status = "active" THEN << Ended(o, status) >> ELSE <<>>

\* Slip: an interrupted ledger record is left in-progress.
RepairNothing(o) == <<>>

\* A ledger record left in-progress is completed with the operation reference.
RepairLedger(o) ==
  IF ledger[o].state = "in-progress"
    THEN << PutLedger(o, ledger[o].method, "ok") >>
    ELSE <<>>

(***************************************************************************)
(* The dispatcher around a mutating handler: a request is executed once,   *)
(* in-progress is recorded before its effect and the outcome after it.  A  *)
(* replay (ledger not "none") is answered from the ledger and changes      *)
(* nothing; a request a guard refuses changes only its own ledger record.  *)
(***************************************************************************)
NewRequest(o, kind) == kind \in Commands /\ ledger[o].state = "none"
Dispatched(o, kind, effect) ==
  << PutLedger(o, kind, "in-progress") >> \o effect \o << PutLedger(o, kind, "ok") >>

(***************************************************************************)
(* Initially: an empty data root and no instance running.                  *)
(***************************************************************************)
Init ==
  /\ environments = [e \in Env |-> NoEnvironment]
  /\ operations = [o \in Op |-> NoOperation]
  /\ journals = [o \in Op |-> NoJournal]
  /\ generations = [o \in Op |-> "absent"]
  /\ plans = [p \in Plan |-> None]
  /\ ledger = [o \in Op |-> NoLedger]
  /\ launches = [e \in Env |-> NoLaunch]
  /\ processes = {} /\ survivors = {}
  /\ mode = "down"
  /\ todo = <<>>
  /\ enclosing = None
  /\ controllers = [o \in Op |-> FALSE]
  /\ aborted = {}
  /\ expected = [o \in Op |-> 0]
  /\ requested = [o \in Op |-> None]
  /\ watched = {}
  /\ entries = [e \in Env |-> "none"]
  /\ switchJournalSeen = FALSE
  /\ crashes = 0
  /\ faults = 0

\* The instance is gone: only the stores and the operating system remain.
LoseMemory ==
  /\ mode' = "down"
  /\ Run(<<>>, None)
  /\ controllers' = [o \in Op |-> FALSE]
  /\ aborted' = {}
  /\ expected' = [o \in Op |-> 0]
  /\ requested' = [o \in Op |-> None]
  /\ watched' = {}
  /\ entries' = [e \in Env |-> "none"]
  /\ switchJournalSeen' = FALSE

Crash ==
  /\ mode # "down"
  /\ crashes < MaxCrashes
  /\ crashes' = crashes + 1
  /\ LoseMemory
  /\ UNCHANGED << durable, processes, faults >>

===============================================================================
