# A TLA+ verification of HDSL

HDSL is a desktop launcher (Electron, TypeScript) for a managed application,
DSH.  It installs DSH into *environments*, switches their versions, applies and
removes plugins, starts and stops the managed process, and must leave every
environment consistent whatever crashes.  This directory holds TLA+ modules that
model its core, TLC configurations that check them, and proofs that TLAPS checks.
Paths below are relative to the repository's root; every definition that models
code is listed with its lines in `PROJECT.json` under `map`.

## 1. The system

| Component | Code | State it keeps | Operations |
|---|---|---|---|
| environment transactions | `packages/core/src/creation-service.ts`, `journal.ts`, `environment-store.ts`, `operation-store.ts` | one JSON file per environment, operation and open transaction; in memory one `AbortController` and one task per running operation | create, switch, cancel, close, `recover()` |
| plugin change transactions | `packages/core/src/plugin-apply.ts`, `change-plan-store.ts`, `idempotency-store.ts` | journals of its own (`applyJournals/`), plans, controllers | `changes.apply`, `generations.restore`, cancel, `recover()` |
| managed process | `packages/runtime/src/process/*`, `reconcile/*` and the start and stop operations of `creation-service.ts` | one launch record per environment; the table of active starts and stops; exit listeners | start, stop, exit, restart reconciliation |
| data root lock | `packages/core/src/data-root-lock.ts` | the directory `locks/data-root.lock`, a loopback port as recovery guard, the lease in memory | acquire, takeover, release, heartbeat, assertHeld |
| composition root | `apps/desktop/src/main/composition.ts` | wiring, `recoveryBlocked` | boot order of the recoveries, close |
| dispatcher | `packages/contracts/src/dispatcher.ts` | idempotency ledger | validate, guard, replay, execute |
| event subscriptions | `packages/contracts/src/events.ts`, `apps/desktop/src/main/ipc.ts` | per window a registry with sequence numbers and a quota | subscribe, publish, open and close a window |
| home migration | `packages/core/src/home-migration.ts` | a home and a data directory per environment, the ones an earlier build left in a generation, a migration record for each | migrate in recovery, before a start and before a switch |
| profiles and runtime reuse | `packages/core/src/generation-profile.ts`, `generation-runtime-reuse.ts` | published profile with provenance | publish by rename, reuse |
| change preview | `packages/core/src/plugin-preview.ts`, `target-profile-cache.ts`, `packages/runtime/src/plugins/resolving-preview.ts` | preview operations, plans with expiry, a cached target profile per plan | preview, cancel, recover |
| plugin removal | `packages/core/src/plugin-removal.ts`, `packages/runtime/src/plugins/removal*.ts`, `patch-references.ts` | none of its own | plan, resolve again and stage a removal |
| plugin resolution and execution | `packages/runtime/src/plugins/*` | staging directories | resolve, enumerate scripts, authorize builds, stage |
| managed install | `packages/core/src/managed-install.ts`, `packages/runtime/src/install/*` | a cache of archives, staging files, child processes | download, verify, publish, unpack, install |
| credentials | `packages/core/src/credential-store.ts`, `apps/desktop/src/main/credential-import.ts`, `packages/runtime/src/credentials/*` | a list of references per environment | import, resolve at a start, inject |
| queries | `plugin-discovery-service.ts`, `version-discovery-service.ts`, `expected-composition-service.ts`, `installed-plugins.ts` | operation records | search, inspect, list, describe, cancel |
| entry patches | `entry-patch-service.ts`, `packages/runtime/src/plugins/patch-config.ts` | a file in the home | enable, disable, configure, remove |
| catalog, digest | `packages/runtime/src/catalog`, `composition/digest.ts` | none | lookup, canonical hash |
| contract schemas | `packages/contracts/src/{schema,methods,dto,errors,redaction}.ts` | none | validate, redact |
| desktop main process | `apps/desktop/src/main/*` | single-instance lock, user-data directory | hooks of a request, user-data migration, boot refusal, quit, diagnostics |
| renderer | `apps/desktop/src/renderer/controller.ts`, `view-model.ts` | view state, the operation it tracks, its subscriptions and timer | commands, tracking by reply, poll and event |

**How they interact.**  The renderer sends requests over IPC to the dispatcher,
which looks the request id up in the ledger, records it `in-progress`, calls one
synchronous handler of a service, and records the outcome.  A handler that has
long work to do writes an operation record, returns its id and leaves an
asynchronous task; clients poll the operation.  EnvironmentService and
ChangeApplyService share the environment, operation and ledger files and keep
separate journals: each must look at the other's journals to keep an environment
to one transaction.  The process manager is called by EnvironmentService and
calls it back when a process exits.  At boot the lock is taken, change journals
are reconciled, then launch records against the operating system, then core
journals.

**Where it is hard.**  Everything durable is a file of its own, replaced
atomically, so a handler is a sequence of writes that a kill or a full disk can
cut anywhere, in a recovery too.  Tasks interleave at every `await`: a start with
an apply that is staging, a stop with a start, an exit with both, a cancel with
everything.  Managed processes survive the launcher.  Launchers of several users
or sessions contend for one data root with nothing but `rename`.  PROJECT.json
lists each of these at its line under `hazards`.

**What makes the parts correct.**

- *Transactions*: an environment changes only by moving its pointer to a complete
  generation; a crash anywhere leaves either the old or the new composition, no
  residue, and an operation status that says which.
- *Change transactions*: the same, a plan applied at most once, and never together
  with a core transaction.
- *Processes*: at most one per environment, none behind a `stopped` environment,
  none running another generation than the pointer names.
- *Lock*: one live holder; a live holder's lease is not moved.
- *Dispatcher*: a request takes effect once and its replay tells what became of it.
- *Liveness*: operations, boots and closes end.
- *Migration and publication*: no file of the user is lost, a process sees all of
  them, and the profile of the generation it runs is in its home.
- *Plans*: what is applied was previewed, authorized and is still true; the list of
  installed plugins is what the profile declares.
- *Install*: a generation is committed with the audited runtime only, whatever shares
  the cache with it.
- *Credentials*: a process gets the secrets of one record, whole.
- *Profile*: nobody's profile is moved away from under him.
- *Renderer*: what it shows of an operation only advances, ends when the operation
  ends, and belongs to what is selected.
- *Several launchers*: none undoes what another one goes on to commit.

## 2. The modules

| Module | Models | Contents |
|---|---|---|
| `LauncherStores` | the stores, the memory of an instance, the dispatcher's ledger | variables, types, `Persist`, `Crash`, `Init` |
| `CreationService` | `creation-service.ts`: create, switch, cancel, core recovery | one action per handler, task continuation and recovery loop |
| `PluginApply` | `plugin-apply.ts`: apply, restore, cancel, its recovery | the same |
| `ManagedProcess` | start, stop, exit and reconciliation, `manager.ts`, `reconcile.ts` and their callers | the same, with the set of live processes |
| `Launcher` | the instance as `composition.ts` composes it | boot order, refused writes, close, `Next`, fairness |
| `GenerationHistory` | what the launcher promises about generations (abstract) | `Commit`, `Restore` |
| `LauncherProperties` | the type invariant, the properties, the refinement `History` | |
| `MCLauncher` | TLC instances of the launcher | |
| `TransactionProofs` | theorems about the launcher: its types; transactions and what a crash leaves of them | |
| `OutcomeProofs` | who attends to an unfinished request, what a restart finishes; managed processes, launch records and what the environment's record says of them | extends `TransactionProofs` |
| `CommitProofs` | what an operation says, what became of its generation and its plan, and whether the ledger record of its request is settled | extends `OutcomeProofs` |
| `HistoryProofs` | the refinement of `GenerationHistory` | extends `CommitProofs` |
| `DataRootLock` | `data-root-lock.ts`, several processes | one action per file-system call, and its properties |
| `MCDataRootLock`, `DataRootLockProofs` | its TLC instances and theorems | |
| `EnvironmentHome` | `home-migration.ts` with its callers, the publication of `generation-profile.ts`, the writes of entry patches and of the plugin executor into the home | one action per durable step, and its properties |
| `MCEnvironmentHome`, `HomeProofs` | its TLC instances and theorems | |
| `Requests` | `ipc.ts`, the hooks of `app.ts`, `dispatcher.ts`, `events.ts` | a request from its arrival in a window to its recorded answer, and its properties |
| `Renderer` | `controller.ts`, `view-model.ts` and the main process as it sees it | one action per command, reply, event and timer, and its properties |
| `MCFrontEnd`, `FrontEndProofs` | the TLC instance of the two and their theorems | |
| `PluginSources` | sources, declarations, locks, scripts, references as pure operators | |
| `ChangePlans` | previews, applies, removals, restores and queries, on top of `PluginSources` | one action per stretch between two awaits, and its properties |
| `ManagedInstall` | `packages/runtime/src/install`, `generation-runtime-reuse.ts`, `runtime-verifier.ts` | the same |
| `UserData` | `user-data.ts`, `data-root.ts` | one action per file-system call, and its property |
| `PatchDocument` | `patch-config.ts`, `entry-patch-service.ts` | the edits as pure operators, and what DSH makes of a document |
| `LaunchCredentials` | credential record, import, resolution, the environment of a spawn | one action per stretch between two awaits, and its property |
| `SharedDataRoot` | several launchers of one data root | boot, transactions, close of each, and the properties |
| `MCServices` | the TLC instance of the six | |
| `ServiceProofs` | theorems about `ManagedInstall`, `LaunchCredentials`, `UserData`, `ChangePlans` with `PluginSources`, and `SharedDataRoot` | |
| `Absent` | the constant for what is not there | |

### The launcher

*Handlers and writes.*  JavaScript runs one block at a time: between two awaits
nothing else of the instance runs, but the instance can be killed.  A handler is
therefore one action that checks the guards of the code, in one state, and leaves
in `todo` the writes of its synchronous block in the order of the source.
`Persist` performs them one at a time.  `Crash` may happen before any of them and
keeps only the stores and the live processes; `WriteFails` is a write the disk
refuses: the rest of the block is skipped and the `catch` of the enclosing `try`
runs (`enclosing`).  Every other action waits for `todo = <<>>`, which is what the
single thread does.  Values a block reads before its own writes are read in the
action, as in the code.

*Identifiers.*  A request, the operation it creates, its transaction and the
generation it builds all have fresh random identifiers; one element of `Op` names
the four.  `ledger[o]`, `operations[o]`, `journals[o]` and `generations[o]` are
their files.

*Tasks.*  An awaited install, staging, spawn or stop that has not settled is a
request in `controllers`; the action that follows (`InstallReturns`,
`StageReturns`, `Spawn`, `Identify`, `Ready`, `StartFails`, `StopReturns`,
`StopUnconfirmed`) is the code after that await.

*Processes.*  `processes` are the live ones somebody answers for.  A process may outlive
SIGKILL: a stop and a recovery notice and say so (`StopUnconfirmed`, `ReconcileLaunch`);
a failed start does not look, and its process becomes one of the `survivors`.  `Alive` is
both: whatever the code asks of the operating system is asked of `Alive`.

*Boot.*  `mode` goes `down`, `recoverChanges`, `recoverProcesses`, `recoverCore`,
`ready`, possibly `closing`, in the order of `composition.ts`.  Recovery actions
are one per record reconciled and can be cut by a crash like any block.

### The lock

Several processes run the code of `data-root-lock.ts` over one directory.  `pc[i]`
is the next file-system call of process `i`; between two calls anything can
happen, also its death (`Die`), the ageing of a heartbeat (`Age`) and a deletion
from outside (`Meddle`).  `rename` publishes a lease only over a missing or an
empty directory.  The recovery guard is a bound port: mutual exclusion that the
operating system ends with its owner.

### Homes and profiles

`EnvironmentHome` looks at the files that `Launcher` abstracts from: one
environment, its home and data (`target`), those an earlier build left in a
generation (`legacy`) and the migration records.  A directory is missing or a set
of files, and that set is its fingerprint.  `job` is the migration in progress:
each branch of `migrateTree` is an action, and so is each of its durable steps, in
the order of the code (copy, record the digest, rename, confirm, delete the source
file by file, finalize), so that a crash, an I/O error or a write of a process can
come between any two.  `change` is the create, switch, apply or restore in
progress: an install or a staging leaves the event loop, the commit that follows is
one block (directories, profile, migration records of a create, generation record,
pointer), and a crash can cut it too.  Of `Launcher`'s behaviour the module keeps
what decides when these steps run: the guards on state and open transactions, the
order of recovery, and that a managed process outlives the launcher.

### Requests and the renderer

A dispatch is one synchronous block, so `dispatching` is the only one under way and
everything else waits, but a kill may cut it between its three durable effects: the
in-progress record, the effect of the method, the completed record.  A method stands for its class (creates
an operation, changes one, subscribes, calls out).  `waiting` holds the calls whose
`beforeDispatch` hook awaits the user; several windows and several presentations of a
request id meet there.

The controller is modelled by its awaits: each call in flight is a record of `calls`
whose `then` names the code behind the `await` and whose other fields are the locals
that code still uses.  The main process answers when it likes, replies and events
arrive in any order, and calls fail.

### Plans, installs, credentials, patches, profiles

Each of these modules cuts the code at its awaits, or at its file-system calls where
other processes take part, and lets everything else move in between: repositories, the user's
patch, the keychain, other installs, other launchers.  Data is reduced to what
decisions look at: a plugin's commit is a number whose `Manifest` says whether it has
scripts, dependencies, a local path and which patch rows it brings; an archive or a
tree is the audited one or not; a patch is a sequence of entries with rows; a
credential is a name and a keychain item.  `hidden` says which rows of a patch a scan does
not get to see, `Sight` whether a launcher can read the mark of a profile's owner.

### Several launchers

`SharedDataRoot` keeps of `DataRootLock` its promise (one holder, whose lease nobody
moves while it lives) and of `Launcher` the order of a boot and where transactions
begin, commit, roll back and are reconciled, and lets several launchers do it over
one environment.  Core transactions ask for the lease, change transactions do not.

### Slips

Definitions whose comment starts with `Slip:` are not used by any specification.
Each is a variant of the definition next to it with a mistake a change of the code
could make (a dropped guard, a swapped order, a forgotten cleanup); `PROJECT.json`
names, for each property of each passing run, the slip that makes it fail.

## 3. What the runs check

Passing runs:

| Run | Instance | Question |
|---|---|---|
| `Transactions` | 1 environment, 4 requests, 1 plan, 2 crashes | Are create, switch, apply, restore and cancel atomic under crashes between any two writes, also in a recovery?  Checks `PointerIntact`, `SingleTransaction`, `NoResidue`, `UnfinishedIsLive`, `HonestOutcome`, `PlanFollowsCommit`, `LedgerSettled`, `ReplayNamesOperation` and that the launcher implements `GenerationHistory`. |
| `RefusedWrites` | 2 environments, 3 requests, all commands but close, 1 crash, 1 refused write | What survives ENOSPC: `RestartConverges`, the next restart repairs everything a transaction left, in both environments. |
| `Processes` | 4 requests, 1 crash, processes that die at any time | `OneProcess`, `StoppedHasNoProcess`, `RunsActiveGeneration`, `ProcessOperationIsLive` with start, stop, switch, cancel and close; processes may outlive a failed start, a stop or a recovery. |
| `Liveness` | 3 requests (every command but switch and restore), 1 crash, under `FairSpec` | `OperationsFinish`, `BootCompletes`, `CloseCompletes`. |
| `Lock` | 3 processes, 4 leases | `MutualExclusion` and `LiveLeaseStays` with every takeover race. |
| `MeddledLock` | 2 processes, 3 leases, 1 deletion, under `FairSpec` | `LeaseReturns`. |
| `Homes` | 3 generations, 2 old files, every command, 2 crashes, 1 I/O error, 1 damaged copy | From an environment of an earlier build and from none: is a file ever lost (`NothingLost`), does a process see all of them (`ProcessSeesAll`), is the profile of the active generation published (`ActiveProfilePublished`), and does a migration report no conflict, which refuses every later start, of an intact source with no copy or its own, or of a complete copy without a source (`ConflictIsReal`; a source half deleted beside its copy is one for ever)? |
| `FrontEnd` | 2 request ids with 5 and 6 calls each, 1 window that closes and reopens, 1 kill; 2 environments, 2 operations, 13 behaviours of a user, up to 2 lost calls | Does an effect take place once however often it is asked for (`TakesEffectOnce`), is a request refused for ever only when a kill or a throwing service cut it (`OnlyInterruptedStayBusy`), does a subscription that was answered exist (`SubscriptionsLive`)?  Does the view only advance (`TrackedNeverRegresses`), end with its operation (`TrackingEnds`, under `RendererFairness`), restart once and after the right stop (`RestartAfterItsStop`), and show results where they belong (`ResultsBelongToSelection`)? |
| `Services` | `ChangePlans`: 2 plugins with 3 commits, 4 operations, 9 scenarios, 1 kill; `ManagedInstall`: 3 generations, 1 damage, 1 crash; `UserData`: 2 launchers, 1 death; `PatchDocument`: 5 documents, 4 edits; `LaunchCredentials`: 7 records (one with a name of the launch policy), 2 items, a change of each; `SharedDataRoot`: 2 launchers, 3 boots, 2 switches, 1 change | Is the list of installed plugins true (`InstalledListIsTrue`), does only what was consented to run (`ConsentCoversScripts`), does a removal leave no reference its scan could see (`RemovalLeavesNoReference`), does an answer stay (`AnswersStayFinal`)?  Is a committed runtime the audited one, cancelled or not (`RuntimeIsAudited`)?  Does a profile stay with who visibly uses it (`ProfileInUseStays`)?  Does an edit mean what it says (`EditMeansWhatItSays`)?  Does a process get one whole record of variables (`ChildEnvironmentIsWhole`)?  Does no launcher undo another one's switch (`SwitchesAreIsolated`)? |

`FrontEnd` and `Services` check several modules that share no state: a variable
`component` says which one is at work in a behaviour, and the others rest.  The type
invariants `TypeOK` are proved for every instance (section 4), so no run repeats
them.  Symmetry under permutations
of requests, of lock processes or of generations is used where only safety is checked.

**Bounds.**  `Op`, `Env` and `Plan` are finite sets: a request is made at most once.
Four requests allow a create, two more transactions of one environment and a
fourth, and cancels cost none, so
every pair of transactions meets in every order; two crashes allow a crash of the
launcher and one of the recovery from it.  `MaxCrashes` and `MaxWriteFaults` bound
interruptions, `MaxLeases` and `MaxMeddling` those of the lock; three processes are
enough for one holder and two contenders that both judged it stale.  In `Homes`
three generations are the one of the earlier build and two changes on top of it, one
of which may be restored; two old files are enough for a deletion or a damage that
stops half-way, and the two crashes for one in the migration and one in what
resumes it.  Revisions
are bounded by the number of requests.  Deadlock is not checked: with its requests
or leases used up a system of this kind stops, and every process may die.
In `FrontEnd` two request ids are enough for a replay and for a request that names
another one's operation; `MCBehaviours` lists sets of commands a user may give in any
order, each pair of which meets in the code (a restart with a selection, a create
with a reopened dialog).  In `Services` a plan meets at most two moves of anything it
depends on: `MCScenarios` says how often each command comes, so that a preview, an
apply and what can make it stale meet in every order, and one scenario hides rows from
the scan of a removal and shows them again between preview and apply; three installs are two that
share the cache and a copy of one of them; two launchers and an instance of the old
name meet over one profile; four edits reach rows that edits have made; two
launchers over one data root with three boots allow one to come, be refused and come
again.

**Fairness** (`Fairness` in `Launcher`).  `Persist`: a synchronous block runs on.
`RecoverySteps`: recovery awaits only bounded waits (probes and termination have
timeouts).  `TaskSteps(o)`: every install, staging, readiness and termination
wait settles, by an answer or a timeout.  `Boot`: somebody starts the launcher
again.  `FinishClose`: `close()` goes on when the tasks it awaits have ended.
Nothing is assumed about clients, processes or crashes.  In `DataRootLock` only the
heartbeat timer of a living holder is fair.  `RendererFairness`: the main process
answers calls, replies and events arrive, and the timer that is set fires; nothing is
assumed about the user, about operations or about calls that fail.  The other
specifications assume no fairness.

### Where the code departs from its documents

Each has a run whose only property states what a document or comment of the
repository says; TLC refutes it.  `PROJECT.json` quotes the lines under `findings`.

| Run | What TLC shows |
|---|---|
| `StartDuringApply` | A start is not refused while an apply stages; the commit forces `stopped` and moves the pointer under the running process. |
| `AuthorizedPlan` | A preview counts the scripts of the whole closure, the first decision of an apply those of the source alone: a plan without scripts is refused with `BUILD_NOT_AUTHORIZED`, one confirmed for another plugin's scripts with `AUTHORIZATION_MISMATCH`. |
| `LiveChangeReconciled` | A second launcher reconciles changes before it learns that it may not have the data root: it fails the change the first one is staging and removes its directory, and the first one then commits the pointer to it.  A close that neither aborts nor awaits an apply does the same with the next launcher. |

These were shown by the models with a property that has no run any more:

- A stop while a start is in flight is refused by the manager and reverts the
  environment to `running`; when the start fails nothing corrects it.  A stop that is
  cancelled while its process exits ends in the same state (`creation-service.ts:1043`).
- A crash between `starting` and the launch record leaves `starting` for ever
  (`creation-service.ts:1547`).
- A write refused after the pointer moved runs the failure path, which deletes the
  directory the pointer names (`creation-service.ts:1999`).
- A crash while the old directory is deleted leaves part of it; the complete, verified
  copy is then in conflict for ever and every start is refused, where the design says
  that deleting again is enough (`home-migration.ts:280`).
- A restart starts the environment that is selected when the stop has ended, which
  may be another one (`controller.ts:1284-1304`; the comment at 337 says that it must
  not leak across).
- A failed start ignores whether its process ended (`manager.ts:693`, 655): one that
  outlives SIGKILL stays alive behind a failed launch and a `stopped` environment, where
  the comment at 692 says that every failure path terminates it.  A switch may then move
  the pointer under it; a second start is refused as long as the launch record names the
  process, and goes on beside it where its identity was never captured (653).
- The profile of a running instance is renamed when its mark was written under another
  host name or cannot be read (`user-data.ts:289`, 218-224), and when the instance
  started between the probe and the rename (415), where the header (32-33) says that a
  profile another process owns is preserved.
- A removal is committed although something refers to the plugin: a patch is cut to
  256 KiB before it is measured against that limit, an unreadable one is no source, and
  bundles and sources behind the 64th are skipped (`removal-port.ts:136`, 308, 336,
  `removal.ts:240`), where `patch-references.ts:32-39` promises to fail closed.

Smaller departures were met on the way and have no run of their own:

- An interrupted create, start or stop keeps its ledger record `in-progress` when no
  journal names it (`contracts/local-api.md:20` of `specs/001-environment-lifecycle`
  says that it is reconciled).
- A restore interrupted between its journal and its operation record is answered,
  after recovery, with an operation that was never written
  (`plugin-apply.ts:1038-1040` says the replay returns it); `ReplayNamesOperation`
  leaves restores out for this reason.
- A create or a switch cancelled after its install ended is committed
  (`creation-service.ts:1736`; the comment at 1270-1271 says that the job aborts
  before the commit), which is why `HonestOutcome` says nothing of them.
- A switch journal of one environment keeps the ledger of another's switch from
  being settled in this recovery (`creation-service.ts:1518`, comment at
  1515-1517); `LedgerSettled` is checked in `Transactions`, and proved, with one
  environment.
- An entry patch (`entry-patch-service.ts:113`), an apply (`executor.ts:236`,
  `plugin-apply.ts:710`) and a restore write into `<env>/home` before the migration is
  finalized, although `s2-home-and-transaction-design.md:33-34` says that no
  transaction takes the home as ready before.  The next migration finds a directory
  that is not its own: a conflict that refuses every start.
- After an I/O error between the home and the data tree an apply moves the pointer,
  and the next migration finalizes the data of the new generation: that of the old
  one stays where no process looks.  `ProcessSeesAll` leaves such a directory
  (`Stranded`) out; `NothingLost` does not.
- The temporary copy of an interrupted migration (`.home.migrating-*`) is never
  deleted.
- A launch record that cannot be written after the spawn leaves the process alive
  behind `stopped`; `StoppedHasNoProcess` is checked without refused writes.
- The recovery of changes completes every in-progress record of an apply or a restore
  it finds no operation for with a failure (`plugin-apply.ts:566-581`), that of core
  transactions every such switch (`creation-service.ts:1191-1209`): a replay after a
  kill is told of a failure also where the effect was cut before its operation record.
  `TakesEffectOnce` asks for an effect behind a completed record only of requests that
  were not interrupted or whose operation exists.
- When the lock directory is deleted from outside, putting a quarantined lease back,
  or a heartbeat between its read and its write, replaces the lease of a new owner
  (`data-root-lock.ts:1002` says "never clobber a fresher lock").  Without a deletion
  neither can happen, which is what `LockIsExclusive` and `LockStays` prove.

- An install appends to the plugins of the composition lock without replacing an
  entry of the same id (`apply-port.ts:347`), so `plugins.installed` lists a plugin
  that was updated twice.
- An edit of the user's patch looks at the environment's state only
  (`entry-patch-service.ts:82-100`), so one made while a removal is staged survives
  it as a dangling reference; `RemovalLeavesNoReference` leaves such rows (`late`) out.
- `changes.preview` neither marks its request in-progress nor passes the guards of
  the dispatcher, although `local-api.md:20` says so of every method that creates an
  operation: a kill between its effect and its record lets a replay preview again.
  `TakesEffectOnce` leaves it out.
- Two concurrent `openWebUI` with one request id open the browser twice: both hooks
  pass before either is recorded (`app.ts:378-379` says "the side effect must not
  run twice").  The hook's effect is outside the ledger and outside the model.
- A replayed subscribe reinstates its old id without moving the counter that mints
  ids, so after a restart the same `sub-N` is given out again (`events.ts:81-98`).
- Addresses of a WebUI, exports, lists of plugins and generations and a restore's
  warning of one environment can be shown under another one that was selected
  meanwhile; `ResultsBelongToSelection` states the three views the code guards.
- A `search` or `inspect` left unfinished by a crash stays so
  (`creation-service.ts:1411` says that its own service recovers it).
- Nothing compares a plan's `baseRevision` with the environment when it is applied
  (`plugin-apply.ts:231-298`), although `data-model.md:55` says that the revision is
  checked again: only the caller's `expectedRevision` is, which the renderer takes
  from the plan.
- Install children are never journalled (`records.ts:226`): the installer's home is
  `.preflight-home` and not the one the journal is derived from.  So in
  `ManagedInstall` a crash orphans its commands.
- A signal that is aborted before a command is spawned is not noticed, and the
  staging of an apply gets the signal of a controller nobody aborts
  (`plugin-apply.ts:611`).  So a cancelled apply runs on and is undone at its end, and a
  cancelled install may come back complete, which is then committed (above); in
  `ManagedInstall` an aborted install is committed whenever it comes back so.
- Staging files of an interrupted download are never swept; extraction stops at the
  first block of zeros, and the digest that identifies a runtime covers Node and the
  DSH package, not its dependencies.
- Bindings named like a variable of the launch policy are accepted, resolved and
  overridden (`manager.ts:612-616`): the process does not get that secret, and
  `ChildEnvironmentIsWhole` says so (`PolicyName`).  An import accepts a keychain reference without
  an account, which every start then refuses (`port.ts:72-89`).
- A lock file of the profile migration without its signature is cleared by another
  launcher (`user-data.ts:351-375`), so two may migrate at once.

`ProfileInUseStays` leaves out the instances a launcher could not see (`taken`), and
`RemovalLeavesNoReference` the rows an apply could not see (`unseen`), for the reasons
above.

Other properties that the findings limit are checked where they hold: `RunsActiveGeneration`
in `Processes` without `apply` and, like `StoppedHasNoProcess`, for all processes but the
`survivors`; `OneProcess` for those survivors whose launch record names them;
`LedgerSettled` with one environment, `PointerIntact` without refused writes.

## 4. What is proved

| Theorem | Statement | From |
|---|---|---|
| `TransactionProofs!TypeCorrect` | `Spec => []TypeOK` | `NoneAssumption`, `PlanAssumption`, `BoundsAssumption`, `FiniteAssumption`, `CommandsAssumption` |
| `TransactionProofs!PointerStaysIntact` | `Spec => [](faults = 0 => PointerIntact)` | the same |
| `TransactionProofs!OneTransaction` | `Spec => [](faults = 0 => SingleTransaction)` | the same |
| `TransactionProofs!NoResidueAtRest` | `Spec => [](faults = 0 => NoResidue)` | the same |
| `OutcomeProofs!UnfinishedStaysLive` | `Spec => [](faults = 0 => UnfinishedIsLive)` | the same |
| `OutcomeProofs!ProcessOperationStaysLive` | `Spec => [](faults = 0 => ProcessOperationIsLive)` | the same |
| `OutcomeProofs!ReplayAlwaysNames` | `Spec => [](faults = 0 => ReplayNamesOperation)` | the same |
| `OutcomeProofs!RestartAlwaysConverges` | `Spec /\ [](faults = 0) => RestartConverges` | the same |
| `OutcomeProofs!NeverTwoProcesses` | `Spec => [](faults = 0 => OneProcess)` | the same |
| `OutcomeProofs!StoppedIsVacant` | `Spec => [](Undisturbed => StoppedHasNoProcess)` | the same |
| `OutcomeProofs!PointerNamesRunning` | `Spec => [](Undisturbed => RunsActiveGeneration)` | the same |
| `CommitProofs!OutcomeIsHonest` | `Spec => [](faults = 0 => HonestOutcome)` | the same |
| `CommitProofs!PlanAlwaysFollowsCommit` | `Spec => [](faults = 0 => PlanFollowsCommit)` | the same |
| `CommitProofs!LedgerAlwaysSettled` | `Spec => [](faults = 0 /\ OneEnvironment => LedgerSettled)` | the same |
| `CommitProofs!ChangesAlwaysSettled` | `Spec => [](faults = 0 => ChangesSettled)` | the same |
| `HistoryProofs!LauncherImplementsHistory` | `Spec /\ [](faults = 0) => ImplementsHistory` | the same |
| `DataRootLockProofs!LockTypes` | `Spec => []TypeOK` | `NobodyAssumption`, `LeaseBounds` |
| `DataRootLockProofs!LockIsExclusive` | `Spec => []MutualExclusion` | the same |
| `DataRootLockProofs!LockStays` | `Spec => LiveLeaseStays` | the same |
| `HomeProofs!NoLoss` | `Spec => []NothingLost` | `FilesAssumption`, `HomeBounds` |
| `HomeProofs!ProfilePublished` | `Spec => []ActiveProfilePublished` | the same |
| `HomeProofs!HomeTypes` | `Spec => []TypeOK` | the same |
| `HomeProofs!ProcessSees` | `Spec => []ProcessSeesAll` | the same |
| `HomeProofs!ConflictsAreReal` | `Spec => ConflictIsReal` | the same |
| `ServiceProofs!SwitchesIsolated` | `InstancesSpec => []SwitchesAreIsolated` | `TransactionsApart` |
| `ServiceProofs!InstalledIsTrue` | `PlanSpec => []InstalledListIsTrue` | `OperationAssumption`, `NoneAssumption`, `CommitAssumption` |
| `ServiceProofs!ScriptsAreConsented` | `PlanSpec => []ConsentCoversScripts` | the same |
| `ServiceProofs!RemovalIsClean` | `PlanSpec => RemovalLeavesNoReference` | the same |
| `ServiceProofs!AnswersKeep` | `PlanSpec => AnswersStayFinal` | the same |
| `ServiceProofs!CommittedRuntimeIsAudited` | `InstallSpec => []RuntimeIsAudited` | none |
| `ServiceProofs!CredentialsAreOfOneRecord` | `CredentialSpec => []ChildEnvironmentIsWhole` | `ImportsAssumption` |
| `ServiceProofs!ProfilesStay` | `ProfileSpec => ProfileInUseStays` | none |
| `FrontEndProofs!EffectIsOnce` | `RequestSpec => []TakesEffectOnce` | `CallAssumption`, `QuotaAssumption`, `AbsentAssumption` |
| `FrontEndProofs!BusyIsInterrupted` | `RequestSpec => []OnlyInterruptedStayBusy` | the same |
| `FrontEndProofs!GrantedIsLive` | `RequestSpec => []SubscriptionsLive` | the same |
| `FrontEndProofs!TrackedIsMonotone` | `RendererSpec => TrackedNeverRegresses` | `RendererAssumption` |
| `FrontEndProofs!RestartsAfterStop` | `RendererSpec => []RestartAfterItsStop` | the same |
| `FrontEndProofs!ResultsAreOfSelection` | `RendererSpec => []ResultsBelongToSelection` | the same |

They hold for every set of environments, requests, processes, generations, files,
plugins, windows, launchers and transactions and every bound.  The assumptions say that
what stands for nothing is none of the things, that names of different things differ,
and that bounds are numbers; `CallAssumption` and `ImportsAssumption` give the shape of
a call and of a document that passed the schemas.

*The lock.*  Mutual exclusion is not inductive: that nobody publishes over a holder
depends on what each contender read.  `LockInvariant` adds, for as long as nobody
meddles: a step under the guard belongs to the guard's owner (`Guarded`); the
published lease is the holder's until its release has moved it (`Published`); a
directory found empty under the guard is still empty, and a process about to
publish never faces an empty one (`Reclaimable`); what a takeover judged dead is what it will move, and
nothing is ever put back (`Judged`).  The heart of the proof is that a stale
lease's owner is dead, so only the owner of the guard can move it.

*The launcher.*  `TypeOK` is inductive because `todo` holds only typed writes:
one lemma per script shows it is a sequence of `WriteRecord`, one per handler that
it leaves such a script, and `TypePersist` that performing one keeps the stores
typed.  Arrangements of finite sets (`SetToSeqs`) need `FiniteAssumption`.

*The home.*  That no file is lost rests on two moments: the rename of a copy must find
nothing in its place, and the deletion of a source must find its copy there.
`HomeInv` says what each step of a migration may rely on (`Copying`) and why nobody
spoils it between two steps: no commit runs during a migration (`Exclusive`), a
process of an earlier build keeps migrations and changes away (`LegacyProcess`), and
a process of this build runs only when both migrations are over
(`EnvironmentProcess`, `Advance`).  `Kept` is `NothingLost` file by file.  For the
profile, `Profiles` says that a commit that has passed its publication still finds
it when it reaches the pointer.  A damaged copy can cost neither, because the
digest it is compared with is that of a source that is still there, and never holds
a profile (`Types`).

*Several launchers.*  `SwitchesAreIsolated` speaks of a switch after its commit; whether
it survives is decided before.  `SwitchInvariant` adds that who runs a switch holds the
lease and is past its boot (`Leased`: `begin` asks for it, `close` awaits the tasks before
it gives it back), that a switch whose install runs is as it began (`Untouched`), and that
the pointer was moved by the transaction it names (`Moved`).  So a boot that
reconciles holds a lease under which no install runs, and what it marks as failed
cannot commit later.  The same argument fails for changes, which ask for no lease:
`LiveChangeReconciled` shows it.

*Transactions.*  A handler leaves its writes in `todo` and a crash can come before each
of them, so an invariant of the stores alone says too little and one of `todo` alone too
much.  `StoresInv` speaks of what a store holds *now or soon*: what it holds, or what a
waiting write will put there (`Keeps`, `PointsTo`, `Builds`, `Live`).  `Persist` only turns
soon into now, so what is said of both survives every write and every crash between two;
what depends on the order of two writes is said of the order (`InOrder`: a generation is
recorded before a pointer names it, a journal is removed after the directory it
names).  On that vocabulary: a request is of one kind and about one environment
(`OneHome`), an environment has one journal (`OneJournal`), what the ledger does not know
has left no trace (`Fresh`), a pointer names a recorded generation and nothing that is
named is given up (`PointsToRecorded`, `NotUnrecorded`, `LiveNotRecorded`), a journal has
a task or is being closed (`JournalIsLive`), a half-built generation has a journal
(`StagedHasJournal`, `StagedIsRemoved`), and while an environment is created nothing else
is about it (`CreatedAlone`).  Each handler is shown to be one of a few kinds of
step (`Starts`, `Proceeds`, `Slightly`), and each kind to keep every conjunct.  The theorems
have the hypothesis `faults = 0` because the code has it: after one refused write
`PointerIntact` is false (section 3), and `RestartConverges` in `RefusedWrites` says what is
left of it.  `faults` counts the refused writes of the behaviour so far, so the theorems hold
up to the first one.  Where the property is one of steps (`RestartConverges`,
`ImplementsHistory`) the hypothesis is that none is refused.

*Requests under way.*  `AttendedInv` says who will finish what is unfinished: an operation that
is `active`, or a start or stop that is, has a live task, or the write that ends it waits in
`todo`, or the instance is recovering and the loop that will find it has not run.  A task that was
aborted answers to nobody: its operation was settled by the handler that cancelled it.  Recovery
takes the change requests first, then the processes, then the core requests, and each loop leaves
nothing of its kind, so the end of the last one finds nothing at all.  An answer and a
journal name an operation that exists (`BuiltKnown`), which is what a replay is told.

*Managed processes.*  A process outlives the launcher that spawned it, and its launch record is
written in three steps: an intent without an identity, the spawn, the identity.  `ProcessInv` says
what each step may rely on.  Every launch record of an environment, present or waiting, fits each of
its processes: it names the start of the process or, before it is identified, its generation
(`RecordsFit`).  A record without an identity has a live start or is one recovery has not
resolved or cannot (`Attached`); a start that has not spawned its child finds no process and a
record of its own intent (`VacantUntilSpawn`, `OwnIntent`); and one start or stop is under way
in an environment (`OneWorker`).  So a start that is let through finds no process (`Vacant`): one
with a record that names it is `Owned`, one without has a live start, and one recovery cannot verify
blocks every start.  This is first shown of the processes that do not survive their failed start
(`OneRunning`).  `SurvivorInv` adds what the launch record still says of one that does: as long as
it names the survivor, and nobody confirmed its end, no start is let through (`Lingers`), so
`KnownProcessIsOne`, and `NeverTwoProcesses` from both.  `faults = 0` is needed: a launch record that cannot be written after the
spawn breaks `Attached` (section 3).

*What the record says.*  `StoppedHasNoProcess` and `RunsActiveGeneration` relate the processes to the
environment's record, which a handler, its task, an exit and a recovery each write in two or more
blocks.  `RestInv` says it of the record *now or soon* (`Prospects`): while a process is there every
record to come is `starting`, `running` or `stopping` and names the generation of the process
(`ProcessMoves`), and so it is while a start or a stop is under way (`StartMoves`, `StopMoves`).  A
create or switch has a journal from its first block to its last (`CoreKeeps`) and is about an
environment at rest (`CoreRests`), which is why nothing moves a pointer under a process.  After a
crash the processes are there and nobody knows of them: `RunsPointer` and `NamesStart` say what a
launch record still means, and `Finds` what recovery has made of it so far.  `Undisturbed` is `faults = 0`
together with `"apply" \notin Commands`, and it is the finding `StartDuringApply` in section 3: an
apply commits under a start that came after it, which forces `stopped` and moves the pointer.

*Outcomes.*  Four stores say what became of a request: its operation, its generation, the
pointer and its plan.  They are written one after another and a crash comes in between, so they
agree only *now or soon*: `HonestInv` says for each status which of the others it already implies
and which are still waiting in the same block (`SucceededIsRecorded`, `SucceededIsCommitted`,
`FailedIsGivenUp`, `CancelledIsGivenUp`, `SpentIsCommitted`, `SucceededSpends`).  `Orderly`
is the order the blocks keep for this: a generation is recorded by the first write of one, and no
pointer moves after a plan is consumed.  What a crash left between two of
them still has its journal (`Left`), and the recovery that finds the journal decides by the pointer,
not by the status.

*The ledger.*  A request's record is in-progress from its dispatch to its answer.  While requests
are served the answer is the last write of the block that waits (`AnswerWaits`); a crash can
leave the record without it.  The recovery of changes settles every apply and restore it finds
so, whatever number of environments there is (`ChangesSettled`).  That of switches skips them
once it has seen a switch journal, whose own record it repairs: so a switch left in-progress must
be the one of that journal (`SoleSwitch`), whose repair is still to come or waits
(`SeenIsRepaired`).  With two environments it can be another's, the finding in section 3, and
`LedgerAlwaysSettled` has the hypothesis `OneEnvironment` for it.

*The history.*  `HistoryInv` is what a step of `GenerationHistory` needs.  A block moves a pointer at
most once, by one revision (`MovesOnce`), either to the generation of a journal still open, or in a
restore, whose own journal keeps every other transaction of the environment away.  An
environment has no generation before its creation commits and always one afterwards
(`CreatingIsEmpty`, `CreatedFirst`, `ChangesPresent`).  A generation is recorded only under its
journal, and that is removed only when the pointer names the generation or together with it
(`ClosedIsCommitted`): so a generation is retained from the write of the pointer on, and none
enters or leaves that set at any other write.  A pointer that moves to a generation with an open
journal is then a `Commit`, one that moves to any other is a `Restore`, and every other write
is invisible (`HeldStays`, `HeldMoves`).

*Homes, the past.*  What a process sees and which conflicts are reported depends on more
than `HomeInv` remembers.  `PastInv` adds that the directories of an earlier build are those
of a generation no change makes or names and are whole until their migration
(`Earlier`), that the digest of a record is that of everything ever stored (`Settled`,
`CopyingAll`), that the home of an active generation does not go missing (`HomeThere`), and
that what lies in a directory before its migration has a file that is no user's
(`Untouched`): only an entry patch, a staging or a publication can have put it there.  So
a conflict before a migration has begun is one with foreign files, and one after it began is
one with changed files, or with a source that was half deleted: of an intact source and of a
complete copy without a source none is reported, which is all `ConflictIsReal` says.  `Stages` says which steps a change takes while a start or
a boot runs.

*Plans.*  `PlanInv` says what a plan and a task may still rely on after the world has moved:
a task's generation is the active one as long as no revision came between (`BaseSound`);
the target of a plan is what it makes of that declaration (`PlanSound`); and a lock records
every declared plugin at its commit (`Sound`).  Consent is by name and commit, and the
builder is given names: `BuildsAreBound` shows that a target has one script per
name, so that allowing names allows no other commit's script.  An install keeps the entry of
the commit it replaces, so `InstalledListIsTrue` allows the list the commits of earlier
generations, and says that it has the declared one.  What is committed as a removal was scanned
again by its apply: `unseen` keeps what was hidden then, for the history only.

*Installs.*  `RuntimeIsAudited` does not depend on a cancel: it holds because of what each step has established and nobody
can take away (`Established`): the archive under extraction is intact although the cache is
shared, and a manifest, once written, names audited trees for ever (`Recorded`), so the
verification of a reused runtime compares with the right ones.

*Credentials.*  `StartIsSound`: the secrets read so far are those of the first bindings of one
record that was there during the start, in their order; the policy then replaces those with its
names.

*Profiles.*  `ProbeSound`: who is past the probe was given no other profile and saw a
directory that is no link, and that nobody used unless `taken` says that an instance
opened it since or that its mark could not be read; who clears whose migration lock does not matter for it.

*Requests.*  `LedgerSound` ties a request's record to its answers and effects: a recorded
outcome is the only answer ever given, a mark without an outcome belongs to the dispatch
under way or to one a kill or a throwing service interrupted, and an outcome without an effect is
a recovery's, of an interrupted request that has no operation.  `PublishedSound` says that
no window is ahead of an operation.  The proof of it showed a mistake of the model, now
corrected in `CreateOperation`: when a kill made a preview run twice, the second operation
kept the first one's publications.

*Renderer.*  Everything the renderer holds of an operation, in a call, a reply, an event or its
view, is a state the operation was in (`Past`); a track opens at most once per epoch
(`TrackSound`); and at most one call, intent or start under way can still come of a given stop
(`ClaimsSound`).  Monotonicity follows from the first two, `RestartAfterItsStop` from the
last.

TLC checked every inductive invariant on the instance of its run before it was proved.

Only model-checked:

- `EditMeansWhatItSays`: its edits filter sequences (`SelectSeq`, a recursive definition), and
  what those compute for every input is out of reach of the prover here;
- all liveness, which is out of its reach too.

## 5. What is not modelled, and what is assumed

- The probe of process ownership answers truthfully and process ids are not reused;
  descendants of the managed process count as the process.  Both are answers of an
  operating system: what the code makes of them is in `ManagedProcess`, whether they
  are right no model of this code can say.  Readiness lines and the WebUI bootstrap
  are a protocol with a program outside this repository.
- A close that cannot confirm the end of a process leaves its record as it is and fails: a
  crash in its place, which may come at any time, leaves the same.
- The migration inside a start or a switch is in `EnvironmentHome`, which is not
  composed with `Launcher`: the product of the two is out of TLC's reach.
- `Launcher` is one instance that holds the lock while it runs; `SharedDataRoot` has
  several, one environment, and relies on `LiveLeaseStays` of `DataRootLock`.  There a
  create is left out (it differs from a switch in what a failure leaves), and the
  block that commits an install is one step: nothing of another launcher changes what
  it reads under the lease.
- In `Launcher` requests refused by a guard change only their own ledger record and are left out, and
  an install or a staging succeeds, fails, or notices an abort; `Requests`,
  `ChangePlans` and `ManagedInstall` have what is inside.
- In `Requests` a method stands for its class, and a service's answer is whether it
  accepts; the wording of errors and the fields that only reach the service are left
  out.  In `Renderer` texts, notices and what a result says are left out.
- In `PluginSources` a commit fixes a manifest and a declaration fixes its lock; the
  parsers of lock files and manifests, the exchange with GitHub and the registry, and
  the package manager are external.  The digest of a plan's inputs is the tuple of
  what it is computed from.  Of the sources a removal looks at, the patch beside the
  declaration is left out, which no install writes, and so is a published profile that
  differs from the declaration, which fails closed.
- In `ManagedInstall` the entry of an archive cache does not change between its check
  and its extraction, and the cache is changed by nobody else during an install but
  where `DamageArchive` says.
- In `PatchDocument` YAML's syntax, comments and anchors are left out: a document is
  its rows or is refused.  The rule that a later row replaces an earlier one of the
  same id is DSH's.
- In `LaunchCredentials` the keychain is external; stores other than it have no
  provider in the code.
- In the lock, one operation at a time per process; the liveness evidence about an
  owner is only "dead", or "alive or unknown", which gives up; Windows, host names,
  evidence files and snapshots are left out.
- In `EnvironmentHome`: records of an older format without digests, the injected
  faults (crashes stand for them), a copy that differs from its source when it is
  verified, processes whose ownership cannot be verified, the contents of profiles and
  their provenance.  A
  managed process stores a file once per directory, and a copy is damaged only
  between two runs of the launcher and before its source is deleted.
- Functions without a caller: `deriveTrustedRuntimeDigests`,
  `recordGenerationRuntimeIdentity`, `clearEnvironmentCredentials`.
- How `expected-composition.ts` lays a composition out, diagnostics and their
  redaction, the catalog, the digest, schemas, the preload bridge and the renderer's
  components: pure functions of what they are given, or pure I/O, without a state a
  property could be about.
- Scripts, research probes, packaging and tests of the repository.

## 6. Plan

1. *Done*: `LauncherStores`, `CreationService`, `PluginApply`, `ManagedProcess`, `Launcher`
   with `GenerationHistory` as abstract specification; `DataRootLock`; the type
   theorems, `LockIsExclusive`, `LockStays`.
2. *Done*: `EnvironmentHome` with `NoLoss` and `ProfilePublished`.
3. *Done*: `Requests` and `Renderer`; `PluginSources` and `ChangePlans`;
   `ManagedInstall`, `UserData`, `PatchDocument`, `LaunchCredentials`;
   `SharedDataRoot` with `SwitchesIsolated`.
4. *Done*: theorems on transactions (`PointerIntact`, `SingleTransaction`, `NoResidue`), on their
   outcomes (`UnfinishedIsLive`, `HonestOutcome`, `PlanFollowsCommit`, `ReplayNamesOperation`,
   `RestartConverges`, `LedgerSettled` with one environment) and their history (`ImplementsHistory`), homes (`ProcessSeesAll`,
   `ConflictIsReal`), processes (`OneProcess`, `StoppedHasNoProcess`, `RunsActiveGeneration`),
   plans, installs, credentials, profiles, requests and the renderer.
5. Left to model: process groups and their leftovers under an uncertain probe.
