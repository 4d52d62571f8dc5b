---------------------------- MODULE PluginSources ----------------------------
(* What a plugin's source, a profile declaration and its pinned lock say, and   *)
(* what may be concluded from them: which scripts an install would run and who  *)
(* may allow them (packages/runtime/src/plugins/preview-resolution.ts,          *)
(* target-profile.ts, lock-closure.ts, build-authorization.ts), and what a      *)
(* removal would break (removal.ts, removal-port.ts, patch-references.ts).      *)
(*                                                                             *)
(* A declaration is a function from the plugins to the commit it names, 0 for   *)
(* none; its lock is determined by it, because a commit fixes a manifest.       *)
EXTENDS Naturals, FiniteSets, Absent

CONSTANTS
    Plugin,     \* packages that can be plugins
    InBox,      \* bundles of the managed install, enabled in every profile
    MaxCommit,  \* bound: commits of a plugin's repository
    Manifest    \* per plugin and commit: own, dependencies, closure, patch, local

ASSUME CommitAssumption == MaxCommit \in Nat \ {0}

Commit == 1..MaxCommit
Declaration == [Plugin -> 0..MaxCommit]
Declared(target) == {p \in Plugin : target[p] # 0}
Script(p, c, own) == [package |-> p, commit |-> c, own |-> own]

\* The install-time scripts of a package's own manifest, and those of the packages
\* only it depends on.
OwnScripts(p, c) == IF Manifest[p][c].own THEN {Script(p, c, TRUE)} ELSE {}
ClosureScripts(p, c) == IF Manifest[p][c].closure THEN {Script(p, c, FALSE)} ELSE {}

\* A source is assessed by its manifest alone: scripts make it detected, and
\* dependencies whose manifests were not read make it unknown.
SourceAssessment(p, c) ==
    IF Manifest[p][c].own THEN "detected"
    ELSE IF Manifest[p][c].dependencies THEN "unknown" ELSE "none-detected"

\* The lock of a declaration can be interpreted: no link:, workspace: or file:
\* edge is reachable from its root importer.
Interpretable(target) == \A p \in Declared(target) : ~Manifest[p][target[p]].local

\* Every script of the reachable closure, read from a tree that was installed
\* with scripts denied; the hooks of the source itself are counted with it.
EnumeratedScripts(target, p) ==
    (UNION {ClosureScripts(q, target[q]) : q \in Declared(target)})
    \cup (UNION {OwnScripts(q, target[q]) : q \in Declared(target) \ {p}})

\* A bundle enters the layer with its dependency: what was declared stays.
TargetDeclaration(declared, p, c) == [declared EXCEPT ![p] = c]

\* The assessment of a preview: the closure was enumerated, or it stays unknown.
Assessment(p, c, scripts, complete) ==
    IF complete THEN (IF scripts # {} THEN "detected" ELSE "none-detected")
    ELSE IF ~Manifest[p][c].dependencies THEN SourceAssessment(p, c) ELSE "unknown"

RequiresAuthorization(p, c, scripts, complete) ==
    IF complete THEN scripts # {} ELSE SourceAssessment(p, c) # "none-detected"

Consent(c, scripts) == [commit |-> c, scripts |-> scripts]

\* decideBuildAuthorization: "deny" installs with scripts denied, "allow" with the
\* builds of exactly the authorized packages, "enumerate" reads the closure first.
Decision(consent, commit, assessment, scripts, enumerated) ==
    CASE consent = None ->
            IF assessment = "none-detected" /\ scripts = {} THEN "deny" ELSE "refused"
      [] consent # None /\ consent.commit # commit -> "refused"
      [] consent # None /\ consent.commit = commit /\ ~enumerated -> "enumerate"
      [] OTHER -> IF consent.scripts # scripts THEN "refused"
                  ELSE IF scripts = {} THEN "deny" ELSE "allow"

\* Slip: the install is allowed every build (dangerouslyAllowAllBuilds).
AllBuilds(target, consent) ==
    UNION {OwnScripts(q, target[q]) \cup ClosureScripts(q, target[q]) :
               q \in Declared(target)}

\* allowBuilds: the authorized packages, each bound to one identity of the lock.
AllowedBuilds(target, consent) ==
    {s \in AllBuilds(target, consent) :
        \E t \in consent.scripts : t.package = s.package /\ t.own = s.own}

-----------------------------------------------------------------------------
(* Removals. *)

\* The in-box bundles of the managed install cannot be removed.
Builtin(p) == p \in InBox

\* A dependency of the profile or an enabled bundle.
Removable(declared, p) == Builtin(p) \/ (p \in Plugin /\ declared[p] # 0)

\* A row of a patch: the package it loads (name), and its id, with which it adds a row
\* (insert) or changes one of another layer.  An alias, a tag, a merge key or a block
\* where a name or an id should be makes a row that says nothing.
Unclassified == None
PatchRow(id, name, insert) == [id |-> id, name |-> name, insert |-> insert]

\* What the rows of a patch refer to.
Scan(patch) ==
    LET rows == patch \ {Unclassified} IN
    [references |-> {row.name : row \in rows} \ {None},
     rowIds     |-> {row.id : row \in {r \in rows : r.insert}},
     rowTargets |-> {row.id : row \in {r \in rows : ~r.insert}},
     unresolved |-> Unclassified \in patch]

\* The rows of a layer, "user" or a bundle, that a scan does not get to see: those behind the
\* first PATCH_FILE_MAX bytes of its patch, all of a patch that cannot be read, and all of a
\* bundle behind the first 64 sources.
Unread(layer, hidden) == {h[2] : h \in {x \in hidden : x[1] = layer}}
BundleScan(q, declared, hidden) ==
    Scan(Manifest[q][declared[q]].patch \ Unread(q, hidden))

\* The user's patch and the patches of the other enabled bundles.
ReferenceSources(declared, userPatch, hidden, p) ==
    {Scan(userPatch \ Unread("user", hidden))}
    \cup {BundleScan(q, declared, hidden) : q \in Declared(declared) \ {p}}

\* The plugin's own patch only counts for the rows it adds.
RemovedRowIds(declared, hidden, p) ==
    IF p \in Declared(declared) THEN BundleScan(p, declared, hidden).rowIds ELSE {}

\* A source that loads the plugin, changes or repeats one of its rows, or cannot be
\* classified, blocks its removal.
Blocking(declared, userPatch, hidden, p) ==
    \E source \in ReferenceSources(declared, userPatch, hidden, p) :
        \/ p \in source.references
        \/ RemovedRowIds(declared, hidden, p) \cap (source.rowTargets \cup source.rowIds) # {}
        \/ source.unresolved

\* Only the direct dependency and its bundle leave the declaration.
PrunedDeclaration(declared, p) == [declared EXCEPT ![p] = 0]

\* Both closures must be interpretable, and the target in the current one.
Prunable(declared, p) ==
    /\ Interpretable(declared) /\ declared[p] # 0
    /\ Interpretable(PrunedDeclaration(declared, p))
=============================================================================
