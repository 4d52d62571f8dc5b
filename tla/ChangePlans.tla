------------------------------ MODULE ChangePlans ------------------------------
(* The life of a change plan over one environment: `changes.preview`           *)
(* (packages/core/src/plugin-preview.ts with runtime's resolving-preview.ts and *)
(* removal-port.ts), the apply of the plan (plugin-apply.ts with apply-port.ts  *)
(* and removal-port.ts), and the queries beside them (plugin-discovery-service, *)
(* version-discovery-service and expected-composition-service).                *)
(*                                                                             *)
(* Every operation is a task: the handler runs to its first await, and each    *)
(* action that follows is the code from one await to the next.  Meanwhile the   *)
(* repositories, the user's patch in the home and the environment change.  How  *)
(* the commit of an apply survives a crash is the business of PluginApply.      *)
EXTENDS PluginSources, Sequences

CONSTANTS
    Operation,    \* ids of operations, 1..n, given out in order
    UserRows,     \* rows a user may write into the patch
    Scenarios,    \* bound: how often each command is given in one behaviour
    MaxKills      \* bound: crashes of the main process

ASSUME OperationAssumption == Operation \subseteq Nat \ {0}

\* The records of operations and plans, which no absent file is taken for.
OperationRecord ==
    [kind: {"search", "inspect", "versions", "composition", "preview", "apply"},
     status: {"running", "succeeded", "failed", "cancelled"}]
PlanRecord ==
    [kind: {"install", "remove"}, plugin: Plugin, base: Nat, commit: 0..MaxCommit,
     target: Declaration, scripts: SUBSET [package: Plugin, commit: Commit, own: BOOLEAN],
     assessment: {"detected", "none-detected", "unknown"}, requires: BOOLEAN,
     blocked: BOOLEAN, consumed: BOOLEAN, expired: BOOLEAN]
ASSUME NoneAssumption == None \notin OperationRecord /\ None \notin PlanRecord

VARIABLES
    scenario,     \* commands this behaviour may still give
    upstream,     \* per plugin the commit its ref resolves to
    generations,  \* the committed generations: [recorded, declared]
    environment,  \* [revision, active]
    userPatch,    \* the rows of the home's patch
    hidden,       \* <<layer, row>> for the rows a scan of the patches misses now
    operations,   \* per operation [kind, status], or None
    jobs,         \* per operation its continuation in memory, or None
    plans,        \* per previewing operation its plan, or None
    caches,       \* per plan the target declaration cached for it, or None
    ran,          \* history: per operation the scripts its install could run
    refusals,     \* history: applies refused for their authorization
    late,         \* history: rows edited since the apply in flight began
    unseen,       \* history: what was hidden when it began
    kills         \* crashes so far

planVars == <<scenario, upstream, generations, environment, userPatch, hidden, operations,
              jobs, plans, caches, ran, refusals, late, unseen, kills>>

Nothing == [p \in Plugin |-> 0]

\* An environment whose generation installed some plugins at their first commit.
Installed(plugins) ==
    [recorded |-> plugins \X {1}, declared |-> [p \in Plugin |-> IF p \in plugins THEN 1 ELSE 0]]

PlanInit ==
    /\ scenario \in Scenarios
    /\ upstream = [p \in Plugin |-> 1]
    /\ \E plugins \in SUBSET Plugin : generations = <<Installed(plugins)>>
    /\ environment = [revision |-> 1, active |-> 1]
    /\ userPatch = {} /\ hidden = {}
    /\ operations = [o \in Operation |-> None]
    /\ jobs = [o \in Operation |-> None]
    /\ plans = [o \in Operation |-> None]
    /\ caches = [o \in Operation |-> None]
    /\ ran = [o \in Operation |-> {}]
    /\ refusals = {}
    /\ late = {} /\ unseen = {}
    /\ kills = 0

-----------------------------------------------------------------------------
(* Tasks. *)

Active == generations[environment.active]
Running(o) == operations[o] # None /\ operations[o].status = "running"
NextOperation(o) == operations[o] = None /\ \A n \in Operation : n < o => operations[n] # None

Asked(command) ==
    /\ scenario[command] > 0
    /\ scenario' = [scenario EXCEPT ![command] = @ - 1]

\* A task knows what its handler captured before the first await.
Job(step, plugin, plan) ==
    [step |-> step, plugin |-> plugin, plan |-> plan, commit |-> 0,
     base |-> environment.revision, generation |-> environment.active,
     consent |-> None, target |-> Nothing, blocked |-> FALSE]

Started(o, kind, job) ==
    /\ operations' = [operations EXCEPT ![o] = [kind |-> kind, status |-> "running"]]
    /\ jobs' = [jobs EXCEPT ![o] = job]

FailedAtOnce(o, kind) ==
    /\ operations' = [operations EXCEPT ![o] = [kind |-> kind, status |-> "failed"]]
    /\ UNCHANGED jobs

Awaits(o, job) ==
    /\ jobs' = [jobs EXCEPT ![o] = job]
    /\ UNCHANGED operations

\* Slip: the result of a cancelled operation is recorded all the same.
EndsAnyhow(o, status) ==
    /\ operations' = [operations EXCEPT ![o].status = status]
    /\ jobs' = [jobs EXCEPT ![o] = None]

\* The task ends; a record that is final already stays as it is.
Ends(o, status) ==
    /\ operations' = IF Running(o) THEN [operations EXCEPT ![o].status = status]
                     ELSE operations
    /\ jobs' = [jobs EXCEPT ![o] = None]

At(o, step) == jobs[o] # None /\ jobs[o].step = step

\* Cancelling a preview or a query: one record, and the task lands later.
Cancels(o, kinds) ==
    /\ Running(o) /\ operations[o].kind \in kinds
    /\ operations' = [operations EXCEPT ![o].status = "cancelled"]
    /\ UNCHANGED jobs

NoPlan == UNCHANGED <<plans, caches>>
NoCommit == UNCHANGED <<generations, environment>>
World == UNCHANGED <<upstream, userPatch, hidden, kills>>
Outside == World /\ UNCHANGED scenario
NoHistory == UNCHANGED <<ran, refusals, late, unseen>>

-----------------------------------------------------------------------------
(* Queries: nothing but their operation. *)

Search(o) ==
    /\ Asked("search") /\ NextOperation(o)
    /\ Started(o, "search", Job("query", None, 0))
    /\ NoPlan /\ NoCommit /\ World /\ NoHistory

Inspect(o) ==
    /\ Asked("inspect") /\ NextOperation(o)
    /\ Started(o, "inspect", Job("query", None, 0))
    /\ NoPlan /\ NoCommit /\ World /\ NoHistory

ListVersions(o) ==
    /\ Asked("versions") /\ NextOperation(o)
    /\ Started(o, "versions", Job("query", None, 0))
    /\ NoPlan /\ NoCommit /\ World /\ NoHistory

DescribeComposition(o) ==
    /\ Asked("composition") /\ NextOperation(o)
    /\ Started(o, "composition", Job("query", None, 0))
    /\ NoPlan /\ NoCommit /\ World /\ NoHistory

QueryLands(o, kinds) ==
    /\ At(o, "query") /\ operations[o].kind \in kinds
    /\ \E status \in {"succeeded", "failed"} : Ends(o, status)
    /\ NoPlan /\ NoCommit /\ Outside /\ NoHistory

SourceLands(o) == QueryLands(o, {"search", "inspect"})
VersionsLand(o) == QueryLands(o, {"versions"})
CompositionLands(o) == QueryLands(o, {"composition"})

CancelQuery(o, kinds) ==
    /\ Asked("cancel") /\ Cancels(o, kinds)
    /\ NoPlan /\ NoCommit /\ World /\ NoHistory

CancelDiscovery(o) == CancelQuery(o, {"search", "inspect"})
CancelVersions(o) == CancelQuery(o, {"versions"})
CancelComposition(o) == CancelQuery(o, {"composition"})

-----------------------------------------------------------------------------
(* changes.preview *)

Plan(job, kind, target) ==
    [kind |-> kind, plugin |-> job.plugin, base |-> job.base, commit |-> job.commit,
     target |-> target, scripts |-> {}, assessment |-> "none-detected",
     requires |-> FALSE, blocked |-> job.blocked, consumed |-> FALSE, expired |-> FALSE]

\* The target profile is cached first, then the plan, then the operation ends.
Previewed(o, plan) ==
    /\ caches' = IF Running(o) /\ ~plan.blocked
                 THEN [caches EXCEPT ![o] = plan.target] ELSE caches
    /\ plans' = IF Running(o) THEN [plans EXCEPT ![o] = plan] ELSE plans
    /\ Ends(o, "succeeded")

PreviewInstall(o, p) ==
    /\ Asked("install") /\ NextOperation(o)
    /\ Started(o, "preview", Job("resolve", p, 0))
    /\ NoPlan /\ NoCommit /\ World /\ NoHistory

\* The source is resolved to a commit,
SourceResolved(o) ==
    /\ At(o, "resolve")
    /\ Awaits(o, [jobs[o] EXCEPT !.step = "bind", !.commit = upstream[jobs[o].plugin]])
    /\ NoPlan /\ NoCommit /\ Outside /\ NoHistory

\* and read again when the target profile is resolved from the declaration of the
\* generation that was active at the start.
TargetResolved(o) ==
    LET job == jobs[o]
        target == TargetDeclaration(generations[job.generation].declared,
                                    job.plugin, job.commit)
    IN /\ At(o, "bind")
       /\ \/ /\ upstream[job.plugin] # job.commit
             /\ Ends(o, "failed")
          \/ /\ upstream[job.plugin] = job.commit
             /\ Awaits(o, [job EXCEPT !.step = "enumerate", !.target = target])
       /\ NoPlan /\ NoCommit /\ Outside /\ NoHistory

\* The closure is enumerated or stays unknown; the plan says what an apply needs.
SourcePreviewed(o) ==
    LET job == jobs[o] IN
    /\ At(o, "enumerate")
    /\ \E complete \in {Interpretable(job.target), FALSE} :
          LET scripts == OwnScripts(job.plugin, job.commit) \cup
                  (IF complete THEN EnumeratedScripts(job.target, job.plugin) ELSE {})
          IN Previewed(o, [Plan(job, "install", job.target) EXCEPT
                 !.scripts = scripts,
                 !.assessment = Assessment(job.plugin, job.commit, scripts, complete),
                 !.requires = RequiresAuthorization(job.plugin, job.commit, scripts,
                                                    complete)])
    /\ NoCommit /\ Outside /\ NoHistory

\* A removal reads its declaration and every reference before the first await.
PreviewRemoval(o, p) ==
    LET declared == Active.declared IN
    /\ Asked("remove") /\ NextOperation(o)
    /\ \/ /\ Active.recorded = {} \/ ~Removable(declared, p) \/ Builtin(p)
          /\ FailedAtOnce(o, "preview")
       \/ /\ Active.recorded # {} /\ Removable(declared, p) /\ ~Builtin(p)
          /\ Started(o, "preview",
                 [Job("prune", p, 0) EXCEPT
                     !.target = PrunedDeclaration(declared, p),
                     !.blocked = Blocking(declared, userPatch, hidden, p)])
    /\ NoPlan /\ NoCommit /\ World /\ NoHistory

\* A blocked removal makes a plan too, without a cached target.
RemovalPreviewed(o) ==
    LET job == jobs[o] IN
    /\ At(o, "prune")
    /\ Prunable(generations[job.generation].declared, job.plugin)
    /\ Previewed(o, Plan(job, "remove", job.target))
    /\ NoCommit /\ Outside /\ NoHistory

PreviewFails(o) ==
    /\ \E step \in {"resolve", "bind", "enumerate", "prune"} : At(o, step)
    /\ Ends(o, "failed")
    /\ NoPlan /\ NoCommit /\ Outside /\ NoHistory

CancelPreview(o) ==
    /\ Asked("cancel") /\ Cancels(o, {"preview"})
    /\ NoPlan /\ NoCommit /\ World /\ NoHistory

-----------------------------------------------------------------------------
(* changes.apply *)

Applying == \E o \in Operation : jobs[o] # None /\ operations[o].kind = "apply"

\* Slip: the renderer sends the revision it sees now.
RevisionSeen(plan) == environment.revision

\* The revision the renderer sends, and the authorization it builds from the plan
\* when its user has confirmed it; another client may bind a plan that needs none.
Expected(plan) == plan.base
Confirmed(plan) == {None, Consent(plan.commit, plan.scripts)}

RevisionAgrees(plan) == environment.revision = Expected(plan)

\* An authorization names the plan's commit and exactly its scripts.
Authorized(plan, consent) ==
    /\ plan.requires => consent # None /\ plan.assessment # "unknown"
    /\ consent # None => consent = Consent(plan.commit, plan.scripts)

\* evaluateGuards
Appliable(plan, consent) ==
    /\ RevisionAgrees(plan)
    /\ ~plan.expired /\ ~plan.consumed
    /\ plan.kind = "remove" => ~plan.blocked
    /\ Authorized(plan, consent)

\* A runtime that cannot be reused, a missing cache, or one that is not the plan's,
\* ends the apply.
Cached(n) == caches[n] # None /\ caches[n] = plans[n].target

ApplyInstall(o, n, consent) ==
    /\ Asked("apply") /\ NextOperation(o) /\ ~Applying
    /\ plans[n] # None /\ plans[n].kind = "install" /\ Appliable(plans[n], consent)
    /\ \/ Cached(n) /\ Started(o, "apply", [Job("verify", plans[n].plugin, n) EXCEPT
                                              !.target = caches[n], !.consent = consent])
       \/ FailedAtOnce(o, "apply")
    /\ late' = {} /\ unseen' = hidden
    /\ UNCHANGED <<ran, refusals>>
    /\ NoPlan /\ NoCommit /\ World

\* stage: the source is resolved again and must be the plan's; the authorization
\* is decided before anything is written or run.
StageVerified(o) ==
    LET job == jobs[o]
        p == job.plugin
        plan == plans[job.plan]
        decision == Decision(job.consent, plan.commit, SourceAssessment(p, plan.commit),
                             OwnScripts(p, plan.commit),
                             ~Manifest[p][plan.commit].dependencies)
    IN /\ At(o, "verify")
       /\ \/ /\ upstream[p] # plan.commit
             /\ Ends(o, "failed") /\ UNCHANGED <<ran, refusals>>
          \/ /\ upstream[p] = plan.commit /\ decision = "refused"
             /\ refusals' = refusals \cup {o}
             /\ Ends(o, "failed") /\ UNCHANGED ran
          \/ /\ upstream[p] = plan.commit /\ decision = "enumerate"
             /\ Awaits(o, [job EXCEPT !.step = "materialize"])
             /\ UNCHANGED <<ran, refusals>>
          \/ /\ upstream[p] = plan.commit /\ decision = "deny"
             /\ Awaits(o, [job EXCEPT !.step = "install"])
             /\ UNCHANGED <<ran, refusals>>
          \/ /\ upstream[p] = plan.commit /\ decision = "allow"
             /\ Awaits(o, [job EXCEPT !.step = "install"])
             /\ ran' = [ran EXCEPT ![o] = AllowedBuilds(job.target, job.consent)]
             /\ UNCHANGED refusals
       /\ NoPlan /\ NoCommit /\ Outside /\ UNCHANGED <<late, unseen>>

\* The closure was installed with scripts denied and is read: what it declares
\* must be exactly what was authorized (anything else ends the apply, ApplyFails).
StageEnumerated(o) ==
    LET job == jobs[o]
        plan == plans[job.plan]
        scripts == OwnScripts(job.plugin, plan.commit)
                   \cup EnumeratedScripts(job.target, job.plugin)
        decision == Decision(job.consent, plan.commit, "detected", scripts, TRUE)
    IN /\ At(o, "materialize")
       /\ Interpretable(job.target) /\ decision # "refused"
       /\ Awaits(o, [job EXCEPT !.step = "install"])
       /\ ran' = IF decision = "deny" THEN ran
                 ELSE [ran EXCEPT ![o] = AllowedBuilds(job.target, job.consent)]
       /\ NoPlan /\ NoCommit /\ Outside /\ UNCHANGED <<refusals, late, unseen>>

\* The commit point: the revision is compared again, the generation recorded, the
\* pointer moved, the plan consumed.  A cancelled apply leaves nothing.
Commits(o, recorded, target) ==
    IF ~Running(o) \/ environment.revision # Expected(plans[jobs[o].plan])
    THEN /\ Ends(o, "failed")
         /\ NoCommit /\ NoPlan
    ELSE /\ generations' = Append(generations, [recorded |-> recorded, declared |-> target])
         /\ environment' = [revision |-> environment.revision + 1,
                            active |-> Len(generations) + 1]
         /\ plans' = [plans EXCEPT ![jobs[o].plan].consumed = TRUE]
         /\ Ends(o, "succeeded")
         /\ UNCHANGED caches

\* The lock gets the plugin on top of what the reused generation recorded.
InstallCommits(o) ==
    LET job == jobs[o] IN
    /\ At(o, "install")
    /\ Commits(o, generations[job.generation].recorded
                  \cup {<<job.plugin, plans[job.plan].commit>>}, job.target)
    /\ Outside /\ NoHistory

\* Slip: the apply trusts the references its plan was made from.
ResolvedAsPlanned(job, n) == caches[n] = job.target

\* applyRemoval resolves again: a reference that appeared, or another result,
\* ends the apply before it commits.
ResolvedAgain(job, n) == ~job.blocked /\ caches[n] = job.target

\* Its references are read in the handler's own tick.
ApplyRemoval(o, n) ==
    LET p == plans[n].plugin IN
    /\ Asked("apply") /\ NextOperation(o) /\ ~Applying
    /\ plans[n] # None /\ plans[n].kind = "remove" /\ Appliable(plans[n], None)
    /\ \/ Cached(n) /\ Started(o, "apply", [Job("repeat", p, n) EXCEPT
                             !.target = PrunedDeclaration(Active.declared, p),
                             !.blocked = Blocking(Active.declared, userPatch, hidden, p)])
       \/ FailedAtOnce(o, "apply")
    /\ late' = {} /\ unseen' = hidden
    /\ UNCHANGED <<ran, refusals>>
    /\ NoPlan /\ NoCommit /\ World

RemovalVerified(o) ==
    LET job == jobs[o] IN
    /\ At(o, "repeat")
    /\ IF ResolvedAgain(job, job.plan) THEN Awaits(o, [job EXCEPT !.step = "pruned"])
       ELSE Ends(o, "failed")
    /\ NoPlan /\ NoCommit /\ Outside /\ NoHistory

\* Only the entries of the removed plugin leave the recorded composition.
RemovalCommits(o) ==
    LET job == jobs[o] IN
    /\ At(o, "pruned")
    /\ Commits(o, {r \in generations[job.generation].recorded : r[1] # job.plugin},
               job.target)
    /\ Outside /\ NoHistory

ApplyFails(o) ==
    /\ \E step \in {"verify", "materialize", "install", "repeat", "pruned"} : At(o, step)
    /\ Ends(o, "failed")
    /\ NoPlan /\ NoCommit /\ Outside /\ NoHistory

CancelApply(o) ==
    /\ Asked("cancel") /\ Cancels(o, {"apply"})
    /\ NoPlan /\ NoCommit /\ World /\ NoHistory

\* generations.restore: pointer and revision, refused during an apply.
Restore(g) ==
    /\ Asked("restore") /\ ~Applying /\ g # environment.active
    /\ environment' = [revision |-> environment.revision + 1, active |-> g]
    /\ UNCHANGED <<generations, operations, jobs>>
    /\ NoPlan /\ World /\ NoHistory

-----------------------------------------------------------------------------
(* The world. *)

\* Somebody pushes to a repository.
SourceMoves(p) ==
    /\ Asked("move") /\ upstream[p] < MaxCommit
    /\ upstream' = [upstream EXCEPT ![p] = @ + 1]
    /\ UNCHANGED <<userPatch, hidden, operations, jobs, kills>>
    /\ NoPlan /\ NoCommit /\ NoHistory

\* The user adds a row to the patch of the home, or deletes it.
EditPatch(row) ==
    /\ Asked("edit")
    /\ userPatch' = IF row \in userPatch THEN userPatch \ {row} ELSE userPatch \cup {row}
    /\ late' = late \cup {row}
    /\ UNCHANGED <<upstream, hidden, operations, jobs, kills, ran, refusals, unseen>>
    /\ NoPlan /\ NoCommit

\* A patch grows beyond what is read of it, can no longer be read, or its bundle comes
\* after the 64th; or this ends.
Layer == Plugin \cup {"user"}
RowsOf(layer) == IF layer = "user" THEN UserRows
                 ELSE UNION {Manifest[layer][c].patch : c \in Commit}
Hide(layer, row) ==
    /\ Asked("hide")
    /\ hidden' = IF <<layer, row>> \in hidden THEN hidden \ {<<layer, row>>}
                 ELSE hidden \cup {<<layer, row>>}
    /\ UNCHANGED <<upstream, userPatch, operations, jobs, kills>>
    /\ NoPlan /\ NoCommit /\ NoHistory

\* The time a plan is valid for runs out.
Expires(n) ==
    /\ Asked("expire") /\ plans[n] # None /\ ~plans[n].expired
    /\ plans' = [plans EXCEPT ![n].expired = TRUE]
    /\ UNCHANGED <<caches, operations, jobs>>
    /\ NoCommit /\ World /\ NoHistory

\* A cached target profile is deleted or altered.
LoseCache(n) ==
    /\ Asked("expire") /\ caches[n] # None
    /\ caches' = [caches EXCEPT ![n] = None]
    /\ UNCHANGED <<plans, operations, jobs>>
    /\ NoCommit /\ World /\ NoHistory

\* Previews and applies a crash cut are failed at the next start; queries are not.
Settled(o) ==
    IF Running(o) /\ operations[o].kind \in {"preview", "apply"}
    THEN [operations[o] EXCEPT !.status = "failed"] ELSE operations[o]

Interrupt ==
    /\ kills < MaxKills
    /\ \E o \in Operation : jobs[o] # None
    /\ kills' = kills + 1
    /\ jobs' = [o \in Operation |-> None]
    /\ operations' = [o \in Operation |-> Settled(o)]
    /\ UNCHANGED <<scenario, upstream, userPatch, hidden>>
    /\ NoPlan /\ NoCommit /\ NoHistory

PreviewNext ==
    \E o \in Operation :
        \/ \E p \in Plugin : PreviewInstall(o, p)
        \/ \E p \in Plugin \cup InBox : PreviewRemoval(o, p)
        \/ SourceResolved(o) \/ TargetResolved(o) \/ SourcePreviewed(o)
        \/ RemovalPreviewed(o) \/ PreviewFails(o) \/ CancelPreview(o)

ApplyNext ==
    \E o \in Operation :
        \/ \E n \in Operation :
              \/ plans[n] # None
                 /\ \E consent \in Confirmed(plans[n]) : ApplyInstall(o, n, consent)
              \/ ApplyRemoval(o, n)
        \/ StageVerified(o) \/ StageEnumerated(o) \/ InstallCommits(o)
        \/ RemovalVerified(o) \/ RemovalCommits(o) \/ ApplyFails(o) \/ CancelApply(o)

QueryNext ==
    \E o \in Operation :
        \/ Search(o) \/ Inspect(o) \/ ListVersions(o) \/ DescribeComposition(o)
        \/ SourceLands(o) \/ VersionsLand(o) \/ CompositionLands(o)
        \/ CancelDiscovery(o) \/ CancelVersions(o) \/ CancelComposition(o)

PlanNext ==
    \/ PreviewNext \/ ApplyNext \/ QueryNext
    \/ \E g \in DOMAIN generations : Restore(g)
    \/ \E p \in Plugin : SourceMoves(p)
    \/ \E row \in UserRows : EditPatch(row)
    \/ \E layer \in Layer : \E row \in RowsOf(layer) : Hide(layer, row)
    \/ \E n \in Operation : Expires(n) \/ LoseCache(n)
    \/ Interrupt

-----------------------------------------------------------------------------
(* Properties. *)

\* plugins.installed: what the active generation's lock records, and whether its
\* profile enables it.
InstalledView ==
    {[id |-> r[1], commit |-> r[2], enabled |-> Active.declared[r[1]] # 0] :
        r \in Active.recorded}

\* plugins.installed reads the lock of the active generation, and a process runs
\* what its profile declares.  Whatever was previewed, moved, restored or cancelled
\* in between, the list has every plugin of the profile at its commit, no plugin the
\* profile does not have, and no commit that neither this generation nor an earlier one
\* declared (an update keeps the entry of the commit it replaced, apply-port.ts:347).
InstalledListIsTrue ==
    /\ \A entry \in InstalledView :
          /\ entry.enabled
          /\ \E g \in 1..environment.active : generations[g].declared[entry.id] = entry.commit
    /\ \A p \in Declared(Active.declared) :
          \E entry \in InstalledView : entry.id = p /\ entry.commit = Active.declared[p]

\* No install runs a script the applied plan did not show to the user who
\* authorized it (D14 of docs/adr/0005-plugin-contract-evolution.md).
ConsentCoversScripts ==
    \A o \in Operation : jobs[o] # None =>
        ran[o] \subseteq (IF jobs[o].plan = 0 THEN {} ELSE plans[jobs[o].plan].scripts)

Removed(p) == generations' # generations /\ Active.declared[p] # 0 /\ Active'.declared[p] = 0

\* Nothing refers to a plugin that is removed, but what was written after the apply began
\* and what was hidden in some layer.
Unreferenced(p, missed) ==
    ~Blocking([Active'.declared EXCEPT ![p] = Active.declared[p]], userPatch \ late, missed, p)

\* A committed removal leaves no reference to the plugin in the user's patch or in
\* another enabled bundle, by name or by row, that its apply could have read: whatever
\* was written, hidden or came to light since the preview.
RemovalLeavesNoReference ==
    [][\A p \in Plugin : Removed(p) => Unreferenced(p, unseen)]_planVars

\* A preview, an apply or a query that was answered keeps its answer: neither a
\* late result nor a recovery revives it.
AnswersStayFinal ==
    [][\A o \in Operation : operations[o] # None /\ ~Running(o)
          => operations'[o] = operations[o]]_planVars

\* A plan that was applied with the authorization it asks for is not refused for
\* its authorization while its source stays the same.
AuthorizedPlanInstalls == refusals = {}
=============================================================================
