--------------------------- MODULE EnvironmentHome ---------------------------
(***************************************************************************)
(* The home and data directories of one environment, and the operations    *)
(* that touch them.  An earlier build kept them in the generation          *)
(* (<gen>/home, <gen>/data); home-migration.ts moves them to the           *)
(* environment (<env>/home, <env>/data) during recovery, before a start    *)
(* and before a switch.  Managed profiles are published into the home.     *)
(*                                                                         *)
(* A directory is None (missing) or the set of the files in it, which is   *)
(* also its fingerprint: files are written once.  Migrations and commits   *)
(* are synchronous, so nothing of this launcher runs between two of their  *)
(* steps, but the launcher may die there.  A copy is made in a directory   *)
(* of random name, which nobody looks at again after a crash.              *)
(***************************************************************************)
EXTENDS Naturals

CONSTANTS
  Gen,              \* generation ids; also the name of a generation's profile
  UserFile,         \* files an earlier build left in a directory
  Session,          \* a file the managed process writes
  Patch,            \* cordis.patch.yml
  Scratch,          \* home/.tmp
  None,
  Commands,         \* requests clients make
  MaxCrashes,       \* bound on crashes
  MaxIoErrors,      \* bound on I/O errors inside a migration
  MaxTruncations    \* bound on published copies damaged while the launcher is down

File == Gen \cup UserFile \cup {Session, Patch, Scratch}

ASSUME FilesAssumption ==
  /\ None \notin File \cup {"legacy", "environment"}
  /\ \A tree \in SUBSET File : tree # None
  /\ Gen \cap (UserFile \cup {Session, Patch, Scratch}) = {}
  /\ UserFile \cap {Session, Patch, Scratch} = {} /\ Session \notin {Patch, Scratch}
ASSUME HomeBounds == MaxCrashes \in Nat /\ MaxIoErrors \in Nat /\ MaxTruncations \in Nat
ASSUME HomeCommands ==
  Commands \subseteq {"create", "switch", "apply", "restore", "start", "stop", "patch"}

VARIABLES
  mode,        \* "down", "recovering" or "serving"
  state,       \* EnvironmentRecord.state; "running" stands for starting and stopping too
  active,      \* EnvironmentRecord.activeGenerationId
  target,      \* <env>/home and <env>/data
  legacy,      \* <gen>/home and <gen>/data
  record,      \* <env>/migration/<kind>-v2.json
  conflict,    \* the trees of which the last migration reported a conflict
  job,         \* the migration in progress
  change,      \* the create, switch, apply or restore in progress and its journal
  profiled,    \* generations with an immutable declaration source <gen>/profile
  recorded,    \* generations with a generation.json
  process,     \* the home a managed process runs on: None, "legacy" or "environment"
  written,     \* history: what the user or a process ever stored in each tree
  crashes, errors, truncations

disk == << state, active, target, legacy, record, change, profiled, recorded >>
history == << written, crashes, errors, truncations >>
vars == << mode, disk, conflict, job, process, history >>

Kind == {"home", "data"}
Tree == (SUBSET File) \cup {None}
ChangeKinds == {"create", "switch", "apply", "restore"}

Idle == [purpose |-> "none", kind |-> "home", step |-> "read", copy |-> None]
Migrating(purpose) == [Idle EXCEPT !.purpose = purpose]
NoChange == [kind |-> "none", gen |-> None, step |-> "none"]
NoRecord == [state |-> "none", digest |-> None]

\* ensureDirectory
Made(tree) == IF tree = None THEN {} ELSE tree

Init ==
  /\ mode = "down"
  /\ record = [k \in Kind |-> NoRecord]
  /\ target = [k \in Kind |-> None]
  /\ conflict = {}
  /\ job = Idle /\ change = NoChange
  /\ profiled = {}
  /\ crashes = 0 /\ errors = 0 /\ truncations = 0
  /\ \/ /\ state = "absent" /\ active = None /\ process = None /\ recorded = {}
        /\ legacy = [g \in Gen |-> [k \in Kind |-> None]]
     \/ \E g \in Gen :    \* an environment of an earlier build
          /\ active = g /\ recorded = {g}
          /\ \E old \in [Kind -> {UserFile, None}] :
               /\ old["home"] # None
               /\ legacy = [h \in Gen |-> IF h = g THEN old ELSE [k \in Kind |-> None]]
          /\ \/ state = "stopped" /\ process = None
             \/ state = "running" /\ process \in {None, "legacy"}
  /\ written = [k \in Kind |->
       UNION {legacy[g][k] : g \in {h \in Gen : legacy[h][k] # None}}]

-----------------------------------------------------------------------------
(***************************************************************************)
(* migrateTree, one action per durable step.  The steps of the tree        *)
(* job.kind: "read", then "record" (the copy is made and verified),        *)
(* "publish" (the record says copying), "confirm" (the copy is renamed),   *)
(* "remove" (the record says copied), "finalize" (the source is gone).     *)
(***************************************************************************)
At(k, step) == job.purpose # "none" /\ job.kind = k /\ job.step = step

Source(k) == IF active = None THEN None ELSE legacy[active][k]
Pending(k) == record[k].state \in {"copying", "copied"}
SourceIntact(k) == record[k].digest # None /\ Source(k) = record[k].digest

\* Slip: the label of the record is taken for the proof that the copy is whole.
PublishedByLabel(k) == target[k] # None /\ record[k].digest # None

PublishedIsOurs(k) == target[k] # None /\ target[k] = record[k].digest

GoTo(step) == job' = [job EXCEPT !.step = step]

\* The next tree, or the end of migrateEnvironmentHome.
NextTree == job' = IF job.kind = "home" THEN [job EXCEPT !.kind = "data", !.step = "read", !.copy = None]
                                        ELSE [job EXCEPT !.step = "done", !.copy = None]

\* Slip: a conflict is logged and the start goes on.
GiveUpQuietly == job' = [job EXCEPT !.step = "done", !.copy = None]

\* A start or a switch answers the failure; a recovery goes on.
GiveUp ==
  job' = IF job.purpose = "recover" THEN [job EXCEPT !.step = "done", !.copy = None] ELSE Idle

WriteRecord(k, label, digest) == record' = [record EXCEPT ![k] = [state |-> label, digest |-> digest]]

KeptByMigration == << mode, state, active, change, profiled, recorded, process, history >>

AlreadyFinalized(k) ==
  /\ At(k, "read") /\ active # None /\ record[k].state = "finalized"
  /\ NextTree
  /\ UNCHANGED << record, target, legacy, conflict, KeptByMigration >>

\* No active generation, nothing to migrate, or the source is already gone.
NothingToCopy(k) ==
  \/ active = None
  \/ Pending(k) /\ PublishedIsOurs(k) /\ Source(k) = None
  \/ record[k].state = "none" /\ target[k] = None /\ Source(k) = None

FinalizeAtOnce(k) ==
  /\ At(k, "read") /\ NothingToCopy(k)
  /\ WriteRecord(k, "finalized", None)
  /\ NextTree
  /\ UNCHANGED << target, legacy, conflict, KeptByMigration >>

ResumeRemoval(k) ==
  /\ At(k, "read") /\ active # None /\ Pending(k) /\ PublishedIsOurs(k) /\ SourceIntact(k)
  /\ GoTo("remove")
  /\ UNCHANGED << record, target, legacy, conflict, KeptByMigration >>

Copy(k) ==
  /\ At(k, "read") /\ active # None /\ target[k] = None /\ Source(k) # None
  /\ record[k].state = "none" \/ (Pending(k) /\ SourceIntact(k))
  /\ job' = [job EXCEPT !.step = "record", !.copy = Source(k)]
  /\ UNCHANGED << record, target, legacy, conflict, KeptByMigration >>

Conflict(k) ==
  /\ At(k, "read") /\ active # None
  /\ \/ record[k].state = "none" /\ target[k] # None
     \/ /\ Pending(k)
        /\ IF PublishedIsOurs(k) THEN Source(k) # None /\ ~SourceIntact(k)
                                 ELSE target[k] # None \/ ~SourceIntact(k)
  /\ conflict' = conflict \cup {k}
  /\ GiveUp
  /\ UNCHANGED << record, target, legacy, KeptByMigration >>

\* Slip: the expected digest of the copy is recorded after the rename only.
WriteCopyingUnbound(k) ==
  /\ At(k, "record")
  /\ WriteRecord(k, "copying", None)
  /\ GoTo("publish")
  /\ UNCHANGED << target, legacy, conflict, KeptByMigration >>

WriteCopying(k) ==
  /\ At(k, "record")
  /\ WriteRecord(k, "copying", job.copy)
  /\ GoTo("publish")
  /\ UNCHANGED << target, legacy, conflict, KeptByMigration >>

Publish(k) ==
  /\ At(k, "publish")
  /\ target' = [target EXCEPT ![k] = job.copy]
  /\ GoTo("confirm")
  /\ UNCHANGED << record, legacy, conflict, KeptByMigration >>

WriteCopied(k) ==
  /\ At(k, "confirm")
  /\ WriteRecord(k, "copied", job.copy)
  /\ GoTo("remove")
  /\ UNCHANGED << target, legacy, conflict, KeptByMigration >>

\* removePath(legacy) deletes file by file, then the directory.
RemoveSource(k) ==
  /\ At(k, "remove")
  /\ IF Source(k) = {} THEN /\ legacy' = [legacy EXCEPT ![active][k] = None]
                            /\ GoTo("finalize")
     ELSE \E f \in Source(k) : /\ legacy' = [legacy EXCEPT ![active][k] = @ \ {f}]
                               /\ UNCHANGED job
  /\ UNCHANGED << record, target, conflict, KeptByMigration >>

WriteFinalized(k) ==
  /\ At(k, "finalize")
  /\ WriteRecord(k, "finalized", None)
  /\ NextTree
  /\ UNCHANGED << target, legacy, conflict, KeptByMigration >>

\* A file-system call throws: what was done stays, the exception ends the migration.
IoError ==
  /\ job.purpose # "none" /\ job.step # "done"
  /\ errors < MaxIoErrors
  /\ errors' = errors + 1
  /\ GiveUp
  /\ UNCHANGED << mode, disk, conflict, process, written, crashes, truncations >>

MigrateTree(k) ==
  \/ AlreadyFinalized(k) \/ FinalizeAtOnce(k) \/ ResumeRemoval(k) \/ Copy(k)
  \/ Conflict(k) \/ WriteCopying(k) \/ Publish(k) \/ WriteCopied(k)
  \/ RemoveSource(k) \/ WriteFinalized(k)

-----------------------------------------------------------------------------
(***************************************************************************)
(* Requests.                                                               *)
(***************************************************************************)
\* Between two synchronous blocks: only an install or a staging is pending.
Serving == mode = "serving" /\ job = Idle /\ change.step \in {"none", "install", "stage"}

Fresh == {g \in Gen : /\ g \notin recorded /\ g \notin profiled /\ g # change.gen
                      /\ \A k \in Kind : target[k] = None \/ g \notin target[k]}

CreateEnvironment ==
  /\ Serving /\ "create" \in Commands
  /\ state = "absent"
  /\ \E g \in Fresh : change' = [kind |-> "create", gen |-> g, step |-> "install"]
  /\ state' = "creating"
  /\ UNCHANGED << mode, active, target, legacy, record, profiled, recorded,
                  conflict, job, process, history >>

\* switchCombination up to ensureHomeMigrated.
SwitchCombination ==
  /\ Serving /\ "switch" \in Commands
  /\ state = "stopped" /\ active # None /\ change = NoChange
  /\ Fresh # {}
  /\ job' = Migrating("switch")
  /\ conflict' = {}
  /\ UNCHANGED << mode, disk, process, history >>

SwitchAccepted ==
  /\ job.purpose = "switch" /\ job.step = "done"
  /\ \E g \in Fresh : change' = [kind |-> "switch", gen |-> g, step |-> "install"]
  /\ job' = Idle
  /\ UNCHANGED << mode, state, active, target, legacy, record, profiled, recorded,
                  conflict, process, history >>

ApplyChange ==
  /\ Serving /\ "apply" \in Commands
  /\ state \notin {"absent", "running"} /\ active # None /\ change = NoChange
  /\ \E g \in Fresh : change' = [kind |-> "apply", gen |-> g, step |-> "stage"]
  /\ UNCHANGED << mode, state, active, target, legacy, record, profiled, recorded,
                  conflict, job, process, history >>

RestoreGeneration ==
  /\ Serving /\ "restore" \in Commands
  /\ state \notin {"absent", "running"} /\ active # None /\ change = NoChange
  /\ \E g \in (recorded \cap profiled) \ {active} :
       change' = [kind |-> "restore", gen |-> g, step |-> "publish"]
  /\ UNCHANGED << mode, state, active, target, legacy, record, profiled, recorded,
                  conflict, job, process, history >>

\* startEnvironment up to ensureHomeMigrated; an apply does not refuse it.
Start ==
  /\ Serving /\ "start" \in Commands
  /\ state = "stopped" /\ active # None
  /\ change.kind \notin {"create", "switch"}
  /\ job' = Migrating("start")
  /\ conflict' = {}
  /\ UNCHANGED << mode, disk, process, history >>

\* The process manager refuses a second process, and spawn() a missing cwd.
Launch ==
  /\ job.purpose = "start" /\ job.step = "done"
  /\ IF process = None /\ target["data"] # None
       THEN process' = "environment" /\ state' = "running"
       ELSE UNCHANGED << process, state >>
  /\ job' = Idle
  /\ UNCHANGED << mode, active, target, legacy, record, change, profiled, recorded,
                  conflict, history >>

Stop ==
  /\ Serving /\ "stop" \in Commands
  /\ state = "running"
  /\ state' = "stopped" /\ process' = None
  /\ UNCHANGED << mode, active, target, legacy, record, change, profiled, recorded,
                  conflict, job, history >>

\* EntryPatchService.patchEntry writes home/cordis.patch.yml.
PatchEntry ==
  /\ Serving /\ "patch" \in Commands
  /\ state \notin {"absent", "creating"} /\ active # None
  /\ target' = [target EXCEPT !["home"] = Made(@) \cup {Patch}]
  /\ UNCHANGED << mode, state, active, legacy, record, change, profiled, recorded,
                  conflict, job, process, history >>

-----------------------------------------------------------------------------
(***************************************************************************)
(* Changes.  An install or a staging ends; then the commit runs in one     *)
(* block: directories, profile, migration records of a create, generation  *)
(* record, pointer.                                                        *)
(***************************************************************************)
KeptByChange == << mode, legacy, conflict, job, process, history >>

\* #fail, #failSwitch and #rollback delete the generation, not its profile.
Undone(kind, g) ==
  /\ profiled' = IF kind = "restore" THEN profiled ELSE profiled \ {g}
  /\ recorded' = IF kind = "restore" THEN recorded ELSE recorded \ {g}
  /\ state' = IF kind = "create" THEN "error" ELSE state
  /\ change' = NoChange

\* The staging of an apply runs pnpm with TMPDIR in the environment's home.
RunExecutor ==
  /\ mode = "serving" /\ job = Idle /\ change.step = "stage"
  /\ target' = [target EXCEPT !["home"] = Made(@) \cup {Scratch}]
  /\ change' = [change EXCEPT !.step = "install"]
  /\ UNCHANGED << state, active, record, profiled, recorded, KeptByChange >>

\* Slip: a staged profile is taken for a published one.
InstallReturnsPublished ==
  /\ mode = "serving" /\ job = Idle /\ change.step = "install"
  /\ \E declared \in {p \in BOOLEAN : change.kind = "apply" => p} :
       profiled' = IF declared THEN profiled \cup {change.gen} ELSE profiled
  /\ change' = [change EXCEPT !.step = IF change.kind = "apply" THEN "pointer" ELSE "directories"]
  /\ UNCHANGED << state, active, target, record, recorded, KeptByChange >>

\* A runtime installer leaves a declaration source or not; a staging always does.
InstallReturns ==
  /\ mode = "serving" /\ job = Idle /\ change.step = "install"
  /\ \E declared \in {p \in BOOLEAN : change.kind = "apply" => p} :
       profiled' = IF declared THEN profiled \cup {change.gen} ELSE profiled
  /\ change' = [change EXCEPT !.step = IF change.kind = "apply" THEN "publish" ELSE "directories"]
  /\ UNCHANGED << state, active, target, record, recorded, KeptByChange >>

InstallFails ==
  /\ mode = "serving" /\ job = Idle /\ change.step \in {"install", "stage"}
  /\ Undone(change.kind, change.gen)
  /\ UNCHANGED << active, target, record, KeptByChange >>

MakeDirectories ==
  /\ mode = "serving" /\ change.step = "directories"
  /\ target' = [k \in Kind |-> Made(target[k])]
  /\ change' = [change EXCEPT !.step = "publish"]
  /\ UNCHANGED << state, active, record, profiled, recorded, KeptByChange >>

\* publishGenerationProfile: copied under a random name, verified, renamed.
PublishProfile ==
  /\ mode = "serving" /\ change.step = "publish"
  /\ target' = IF change.gen \in profiled
                 THEN [target EXCEPT !["home"] = Made(@) \cup {change.gen}]
                 ELSE target
  /\ change' = [change EXCEPT !.step = IF change.kind = "create" THEN "home" ELSE "pointer"]
  /\ UNCHANGED << state, active, record, profiled, recorded, KeptByChange >>

\* A new environment has nothing to migrate: #commit records both trees as finalized.
RecordFinalized(k) ==
  /\ mode = "serving" /\ change.step = k
  /\ WriteRecord(k, "finalized", None)
  /\ change' = [change EXCEPT !.step = IF k = "home" THEN "data" ELSE "pointer"]
  /\ UNCHANGED << state, active, target, profiled, recorded, KeptByChange >>

\* The generation record, then the pointer; apply and switch force `stopped`.
MovePointer ==
  /\ mode = "serving" /\ change.step = "pointer"
  /\ recorded' = recorded \cup {change.gen}
  /\ active' = change.gen
  /\ state' = IF change.kind = "restore" THEN state ELSE "stopped"
  /\ change' = [change EXCEPT !.step = "committed"]
  /\ UNCHANGED << target, record, profiled, KeptByChange >>

RemoveJournal ==
  /\ mode = "serving" /\ change.step = "committed"
  /\ change' = NoChange
  /\ UNCHANGED << state, active, target, record, profiled, recorded, KeptByChange >>

-----------------------------------------------------------------------------
(***************************************************************************)
(* The launcher comes and goes; managed processes outlive it.              *)
(***************************************************************************)
\* changeApply.recover() and the process reconciliation, then the decision
\* whether the migration may run.
Boot ==
  /\ mode = "down"
  /\ mode' = "recovering"
  /\ state' = IF process # None THEN "running"
              ELSE IF state = "running" THEN "stopped" ELSE state
  /\ IF change.kind \in {"apply", "restore"}
       THEN /\ change' = NoChange
            /\ IF change.kind = "restore" \/ active = change.gen
                 THEN UNCHANGED << profiled, recorded >>
                 ELSE /\ profiled' = profiled \ {change.gen}
                      /\ recorded' = recorded \ {change.gen}
       ELSE UNCHANGED << change, profiled, recorded >>
  /\ job' = IF state \in {"running", "absent"} \/ process # None
              THEN [Migrating("recover") EXCEPT !.step = "done"]
              ELSE Migrating("recover")
  /\ conflict' = {}
  /\ UNCHANGED << active, target, legacy, record, process, history >>

\* The core journals: the pointer decides.
RecoverJournals ==
  /\ job.purpose = "recover" /\ job.step = "done"
  /\ IF change = NoChange \/ active = change.gen
       THEN change' = NoChange /\ UNCHANGED << state, profiled, recorded >>
       ELSE Undone(change.kind, change.gen)
  /\ mode' = "serving" /\ job' = Idle
  /\ UNCHANGED << active, target, legacy, record, conflict, process, history >>

Crash ==
  /\ mode # "down"
  /\ crashes < MaxCrashes
  /\ crashes' = crashes + 1
  /\ mode' = "down" /\ job' = Idle
  /\ change' = IF change = NoChange THEN NoChange ELSE [change EXCEPT !.step = "journal"]
  /\ UNCHANGED << state, active, target, legacy, record, profiled, recorded, conflict,
                  process, written, errors, truncations >>

ProcessWrites(k) ==
  /\ process # None
  /\ Session \notin written[k]
  /\ written' = [written EXCEPT ![k] = @ \cup {Session}]
  /\ IF process = "legacy"
       THEN /\ legacy' = [legacy EXCEPT ![active][k] = Made(@) \cup {Session}]
            /\ UNCHANGED target
       ELSE /\ target' = [target EXCEPT ![k] = Made(@) \cup {Session}]
            /\ UNCHANGED legacy
  /\ UNCHANGED << mode, state, active, record, change, profiled, recorded, conflict,
                  job, process, crashes, errors, truncations >>

\* handleProcessExit, when somebody is there to observe the exit.
ProcessExits ==
  /\ process # None
  /\ process' = None
  /\ state' = IF mode # "down" /\ state = "running" THEN "stopped" ELSE state
  /\ UNCHANGED << mode, active, target, legacy, record, change, profiled, recorded,
                  conflict, job, history >>

\* A copy that was published and not yet verified again is cut short or lost.
Truncate(k) ==
  /\ mode = "down" /\ truncations < MaxTruncations
  /\ Pending(k) /\ PublishedIsOurs(k) /\ SourceIntact(k)
  /\ truncations' = truncations + 1
  /\ \E rest \in {None} \cup {target[k] \ {f} : f \in target[k]} :
       rest # target[k] /\ target' = [target EXCEPT ![k] = rest]
  /\ UNCHANGED << mode, state, active, legacy, record, change, profiled, recorded,
                  conflict, job, process, written, crashes, errors >>

Requests ==
  \/ CreateEnvironment \/ SwitchCombination \/ ApplyChange \/ RestoreGeneration
  \/ Start \/ Stop \/ PatchEntry

Progress ==
  \/ \E k \in Kind : MigrateTree(k) \/ RecordFinalized(k)
  \/ SwitchAccepted \/ Launch \/ RecoverJournals
  \/ RunExecutor \/ InstallReturns \/ InstallFails
  \/ MakeDirectories \/ PublishProfile \/ MovePointer \/ RemoveJournal

Surroundings ==
  \/ Boot \/ Crash \/ IoError \/ ProcessExits
  \/ \E k \in Kind : ProcessWrites(k) \/ Truncate(k)

Next == Requests \/ Progress \/ Surroundings

Spec == Init /\ [][Next]_vars

-----------------------------------------------------------------------------
(***************************************************************************)
(* Properties.                                                             *)
(***************************************************************************)
\* The type invariant.
TypeOK ==
  /\ mode \in {"down", "recovering", "serving"}
  /\ state \in {"absent", "creating", "stopped", "running", "error"}
  /\ active \in Gen \cup {None}
  /\ target \in [Kind -> Tree]
  /\ legacy \in [Gen -> [Kind -> Tree]]
  /\ record \in [Kind -> [state: {"none", "copying", "copied", "finalized"}, digest: Tree]]
  /\ conflict \subseteq Kind
  /\ job \in [purpose: {"none", "recover", "start", "switch"}, kind: Kind, copy: Tree,
              step: {"read", "record", "publish", "confirm", "remove", "finalize", "done"}]
  /\ change \in [kind: ChangeKinds \cup {"none"}, gen: Gen \cup {None},
                 step: {"none", "install", "stage", "directories", "publish", "home", "data",
                        "pointer", "committed", "journal"}]
  /\ profiled \subseteq Gen /\ recorded \subseteq Gen
  /\ process \in {None, "legacy", "environment"}
  /\ written \in [Kind -> SUBSET (UserFile \cup {Session})]
  /\ crashes \in 0 .. MaxCrashes /\ errors \in 0 .. MaxIoErrors
  /\ truncations \in 0 .. MaxTruncations

Trees(k) == {target[k]} \cup {legacy[g][k] : g \in Gen}

\* No file the user or a process ever stored is lost: through every crash, I/O
\* error and damaged copy it stays in the environment's directory or in the
\* generation it came from ("verify, never trust a label").
NothingLost ==
  \A k \in Kind : written[k] \subseteq UNION (Trees(k) \ {None})

\* An old directory of a generation that is no longer the active one.
Stranded(k) == \E g \in Gen \ {active} : legacy[g][k] # None

\* A process that runs on the environment's home finds there every file ever
\* stored, unless a change of the pointer left an old directory behind.
ProcessSeesAll ==
  process = "environment" =>
    \A k \in Kind : Stranded(k) \/ (target[k] # None /\ written[k] \subseteq target[k])

\* The profile of the active generation is published whenever the pointer names
\* it, also after a crash between the publication and the pointer or in a restore.
ActiveProfilePublished ==
  active \in profiled => target["home"] # None /\ active \in target["home"]

\* Directories a migration brings together: the source as it was recorded, or none,
\* and the copy made of it, or none.
Reconcilable(k) ==
  \/ Source(k) = written[k] /\ target[k] \in {None, written[k]}
  \/ Source(k) = None /\ target[k] = written[k]

\* A migration reports a conflict, which is for ever, of none of three situations a
\* crash or an error leaves: an intact source with no copy, one with its own copy,
\* and a complete copy whose source is gone.  It does report one of a source half
\* deleted beside its complete copy, so not every crash converges.
ConflictIsReal == [][\A k \in conflict' \ conflict : ~Reconcilable(k)]_vars

===============================================================================
