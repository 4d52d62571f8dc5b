---------------------------- MODULE ManagedInstall ----------------------------
(* How a generation gets its runtime: the managed install of a create or a     *)
(* switch (packages/runtime/src/install/), which shares a cache of archives by  *)
(* their digest with every other install, and the copy of the active            *)
(* generation's runtime that an apply makes (packages/core/src/                 *)
(* generation-runtime-reuse.ts with runtime's plugins/runtime-verifier.ts).     *)
(*                                                                             *)
(* A step is the code from one await to the next.  What matters of an archive   *)
(* or of a tree is whether it is the audited one; a tree that npm put together  *)
(* from something else is "foreign".                                           *)
EXTENDS Naturals, Absent

CONSTANTS
    Generation,   \* ids of generations, one per install or copy
    MaxDamages,   \* bound: damages to an archive or to a runtime on disk
    MaxCrashes    \* bound: crashes of the main process

VARIABLES
    archives,     \* the cache: per artifact "absent", "intact" or "damaged"
    parts,        \* staging files of downloads: content per file
    installing,   \* per generation the install in memory, or None
    children,     \* per generation its command: "none", "running" or "killed"
    runtimes,     \* per generation what its directory holds
    aborted,      \* installs whose transaction was cancelled while they ran
    stage,        \* per generation "unused", "open", "installed", "committed" or "gone"
    delivered,    \* history: per generation the trees it was committed with
    damages, crashes

installVars == <<archives, parts, installing, children, runtimes, aborted, stage, delivered,
                 damages, crashes>>

Artifact == {"node", "dsh"}
Bare == [node |-> "absent", reference |-> "absent", dsh |-> "absent",
         profile |-> FALSE, links |-> FALSE, manifest |-> None]
Doing(g, step) == installing[g] # None /\ installing[g].step = step
Becomes(g, step, a) ==
    installing' = [installing EXCEPT ![g] = [step |-> step, artifact |-> a]]

InstallInit ==
    /\ archives \in [Artifact -> {"absent", "damaged"}]
    /\ parts = [g \in Generation |-> "absent"]
    /\ installing = [g \in Generation |-> None]
    /\ children = [g \in Generation |-> "none"]
    /\ runtimes = [g \in Generation |-> Bare]
    /\ aborted = {}
    /\ stage = [g \in Generation |-> "unused"]
    /\ delivered = [g \in Generation |-> None]
    /\ damages = 0 /\ crashes = 0

NoFault == UNCHANGED <<damages, crashes>>
Transaction == UNCHANGED <<aborted, stage, delivered>>
Commands == UNCHANGED children

-----------------------------------------------------------------------------
(* Archives. *)

\* Slip: the staging file is named after the digest alone.
SharedPart(g) == CHOOSE f \in Generation : TRUE

\* Every attempt has a staging file of its own.
Part(g) == g

CacheIsValid(a) == archives[a] = "intact"

\* The transaction starts its install.
BeginInstall(g) ==
    /\ stage[g] = "unused"
    /\ Becomes(g, "obtain", "node")
    /\ stage' = [stage EXCEPT ![g] = "open"]
    /\ UNCHANGED <<archives, parts, children, runtimes, aborted, delivered>> /\ NoFault

\* A valid entry is used; else, with enough free disk, a download starts.
ObtainArchive(g) ==
    LET a == installing[g].artifact IN
    /\ Doing(g, "obtain")
    /\ \/ /\ CacheIsValid(a) /\ Becomes(g, "extract", a)
          /\ UNCHANGED parts
       \/ /\ ~CacheIsValid(a) /\ Becomes(g, "download", a)
          /\ parts' = [parts EXCEPT ![Part(g)] = "damaged"]
    /\ UNCHANGED <<archives, runtimes>> /\ Commands /\ Transaction /\ NoFault

\* A complete download has the audited digest, or the install fails.
Download(g) ==
    /\ Doing(g, "download")
    /\ parts' = [parts EXCEPT ![Part(g)] = "intact"]
    /\ Becomes(g, "publish", installing[g].artifact)
    /\ UNCHANGED <<archives, runtimes>> /\ Commands /\ Transaction /\ NoFault

\* A concurrent winner is kept and this attempt's file dropped,
PublishArchive(g) ==
    LET a == installing[g].artifact IN
    /\ Doing(g, "publish")
    /\ \/ /\ CacheIsValid(a) /\ Becomes(g, "extract", a)
          /\ parts' = [parts EXCEPT ![Part(g)] = "absent"]
       \/ /\ ~CacheIsValid(a) /\ Becomes(g, "rename", a)
          /\ UNCHANGED parts
    /\ UNCHANGED <<archives, runtimes>> /\ Commands /\ Transaction /\ NoFault

\* an entry that was not valid a moment ago is replaced at once.
RenameArchive(g) ==
    LET a == installing[g].artifact IN
    /\ Doing(g, "rename") /\ parts[Part(g)] # "absent"
    /\ archives' = [archives EXCEPT ![a] = parts[Part(g)]]
    /\ parts' = [parts EXCEPT ![Part(g)] = "absent"]
    /\ Becomes(g, "extract", a)
    /\ UNCHANGED runtimes /\ Commands /\ Transaction /\ NoFault

\* A damaged archive can unpack to a damaged tree: the reader stops at the first
\* empty block.  The signal is looked at before every entry.
ExtractTarGz(g) ==
    LET a == installing[g].artifact
        tree == IF a = "node" THEN "node" ELSE "reference" IN
    /\ Doing(g, "extract") /\ g \notin aborted /\ archives[a] # "absent"
    /\ runtimes' = [runtimes EXCEPT ![g][tree] = archives[a]]
    /\ IF a = "node" THEN Becomes(g, "obtain", "dsh") ELSE Becomes(g, "closure", "dsh")
    /\ UNCHANGED <<archives, parts>> /\ Commands /\ Transaction /\ NoFault

-----------------------------------------------------------------------------
(* The commands an install runs. *)

\* A child in a process group of its own, which a timeout or an abort kills.  A signal
\* that was aborted before the child was spawned is not noticed.
SpawnCommand(g) ==
    /\ \E step \in {"closure", "profile", "preflight"} : Doing(g, step)
    /\ Doing(g, "closure") => archives["dsh"] = "intact"
    /\ children[g] = "none"
    /\ children' = [children EXCEPT ![g] = "running"]
    /\ UNCHANGED <<archives, parts, installing, runtimes>> /\ Transaction /\ NoFault

\* It exited with 0; any other end fails the install.
Exited(g, step) ==
    /\ Doing(g, step) /\ children[g] = "running"
    /\ children' = [children EXCEPT ![g] = "none"]

\* Slip: the installed package is not compared with the audited one.
Uncompared(tree, reference) == TRUE

SameTree(tree, reference) == tree = reference

\* npm ci runs on an archive with the lock's integrity; the package it installed
\* must be the audited one, file by file.
InstallClosure(g) ==
    /\ Exited(g, "closure") /\ Becomes(g, "profile", "dsh")
    /\ \E tree \in {"intact", "foreign"} :
          /\ SameTree(tree, runtimes[g].reference)
          /\ runtimes' = [runtimes EXCEPT ![g].dsh = tree]
    /\ UNCHANGED <<archives, parts>> /\ Transaction /\ NoFault

\* The managed DSH writes the profile declaration; without one, or with a link
\* into the staging home, the install fails.
StageProfile(g) ==
    /\ Exited(g, "profile") /\ Becomes(g, "preflight", "dsh")
    /\ runtimes' = [runtimes EXCEPT ![g].profile = TRUE]
    /\ UNCHANGED <<archives, parts>> /\ Transaction /\ NoFault

\* The digests a manifest records are those of the trees on disk and of the archive.
RecordedManifest(runtime) == [node |-> runtime.node, dsh |-> runtime.reference]

\* node --version, dsh --version, dsh --help; then the manifest is written.
RunPreflight(g) ==
    /\ Exited(g, "preflight")
    /\ runtimes' = [runtimes EXCEPT ![g].manifest = RecordedManifest(runtimes[g])]
    /\ installing' = [installing EXCEPT ![g] = None]
    /\ stage' = [stage EXCEPT ![g] = "installed"]
    /\ UNCHANGED <<archives, parts, aborted, delivered>> /\ NoFault

\* Any step but the last may fail: the disk, the network, a digest, a child.  The
\* attempt removes its own staging file and the transaction its generation.
InstallFails(g) ==
    /\ installing[g] # None
    /\ parts' = IF \E step \in {"download", "publish", "rename"} : Doing(g, step)
                THEN [parts EXCEPT ![Part(g)] = "absent"] ELSE parts
    /\ installing' = [installing EXCEPT ![g] = None]
    /\ children' = [children EXCEPT ![g] = "none"]
    /\ runtimes' = [runtimes EXCEPT ![g] = Bare]
    /\ stage' = [stage EXCEPT ![g] = "gone"]
    /\ UNCHANGED <<archives, aborted, delivered>> /\ NoFault

AbortInstall(g) ==
    /\ stage[g] = "open" /\ g \notin aborted
    /\ aborted' = aborted \cup {g}
    /\ children' = IF children[g] = "running" THEN [children EXCEPT ![g] = "killed"]
                   ELSE children
    /\ UNCHANGED <<archives, parts, installing, runtimes, stage, delivered>> /\ NoFault

\* The manifest must be there and describe the transaction's composition and the
\* staged profile.  An install that came back complete is committed also when its
\* transaction was cancelled meanwhile: the signal is not looked at again.
CommitInstall(g) ==
    /\ stage[g] = "installed"
    /\ \/ /\ runtimes[g].manifest # None /\ runtimes[g].profile
          /\ stage' = [stage EXCEPT ![g] = "committed"]
          /\ delivered' = [delivered EXCEPT ![g] = runtimes[g]]
          /\ UNCHANGED runtimes
       \/ /\ stage' = [stage EXCEPT ![g] = "gone"]
          /\ runtimes' = [runtimes EXCEPT ![g] = Bare]
          /\ UNCHANGED delivered
    /\ UNCHANGED <<archives, parts, installing, children, aborted>> /\ NoFault

-----------------------------------------------------------------------------
(* The copy an apply makes. *)

\* The tree digests of the manifest, which is copied with the trees, must be those
\* of the copies.
IdentityVerified(runtime) ==
    /\ runtime.manifest # None
    /\ SameTree(runtime.node, runtime.manifest.node)
    /\ SameTree(runtime.dsh, runtime.manifest.dsh)

\* A link is relative and stays within its generation.
RelocatableLinks(runtime) == ~runtime.links

\* Physical copies of node/ and dsh/ and the manifest, in one step.
ReuseGenerationRuntime(g, from) ==
    LET copy == [runtimes[from] EXCEPT !.reference = "absent", !.profile = FALSE] IN
    /\ stage[g] = "unused" /\ stage[from] = "committed"
    /\ \/ /\ RelocatableLinks(copy) /\ IdentityVerified(copy)
          /\ runtimes' = [runtimes EXCEPT ![g] = copy]
          /\ stage' = [stage EXCEPT ![g] = "committed"]
          /\ delivered' = [delivered EXCEPT ![g] = copy]
       \/ /\ ~(RelocatableLinks(copy) /\ IdentityVerified(copy))
          /\ stage' = [stage EXCEPT ![g] = "gone"]
          /\ UNCHANGED <<runtimes, delivered>>
    /\ UNCHANGED <<archives, parts, installing, children, aborted>> /\ NoFault

-----------------------------------------------------------------------------
(* What happens meanwhile. *)

\* An archive of the cache is damaged, but not between the check of its digest and
\* the extraction, which read it one after the other.
DamageArchive(a) ==
    /\ damages < MaxDamages /\ archives[a] = "intact"
    /\ \A g \in Generation : ~(Doing(g, "extract") /\ installing[g].artifact = a)
    /\ archives' = [archives EXCEPT ![a] = "damaged"]
    /\ damages' = damages + 1
    /\ UNCHANGED <<parts, installing, children, runtimes, crashes>> /\ Transaction

\* A committed runtime is damaged, gets a link that leaves it, or loses its manifest.
DamageRuntime(g) ==
    /\ damages < MaxDamages /\ stage[g] = "committed"
    /\ \/ \E tree \in {"node", "dsh"} :
             runtimes' = [runtimes EXCEPT ![g][tree] = "damaged"]
       \/ runtimes' = [runtimes EXCEPT ![g].links = TRUE]
       \/ runtimes' = [runtimes EXCEPT ![g].manifest = None]
    /\ damages' = damages + 1
    /\ UNCHANGED <<archives, parts, installing, children, crashes>> /\ Transaction

\* The process ends and its successor removes what was not committed; staging files
\* stay where they are, and so do the commands, of which no record was made.
CrashInstalls ==
    /\ crashes < MaxCrashes
    /\ \E g \in Generation : stage[g] \in {"open", "installed"}
    /\ crashes' = crashes + 1
    /\ installing' = [g \in Generation |-> None]
    /\ stage' = [g \in Generation |->
                    IF stage[g] \in {"open", "installed"} THEN "gone" ELSE stage[g]]
    /\ runtimes' = [g \in Generation |->
                    IF stage[g] \in {"open", "installed"} THEN Bare ELSE runtimes[g]]
    /\ UNCHANGED <<archives, parts, children, aborted, delivered, damages>>

OrphanEnds(g) ==
    /\ children[g] # "none" /\ installing[g] = None
    /\ children' = [children EXCEPT ![g] = "none"]
    /\ UNCHANGED <<archives, parts, installing, runtimes>> /\ Transaction /\ NoFault

InstallNext ==
    \/ \E g \in Generation :
          \/ BeginInstall(g)
          \/ ObtainArchive(g)
          \/ Download(g)
          \/ PublishArchive(g)
          \/ RenameArchive(g)
          \/ ExtractTarGz(g)
          \/ SpawnCommand(g)
          \/ InstallClosure(g)
          \/ StageProfile(g)
          \/ RunPreflight(g)
          \/ InstallFails(g)
          \/ AbortInstall(g)
          \/ CommitInstall(g)
          \/ DamageRuntime(g)
          \/ OrphanEnds(g)
          \/ \E from \in Generation : ReuseGenerationRuntime(g, from)
    \/ \E a \in Artifact : DamageArchive(a)
    \/ CrashInstalls

-----------------------------------------------------------------------------
(* A generation is committed with the audited Node and the audited DSH package  *)
(* only, in files of its own: whatever other installs did to the shared cache,  *)
(* whatever npm fetched, whatever was interrupted or damaged on the way, and    *)
(* through every copy.                                                          *)
RuntimeIsAudited ==
    \A g \in Generation : delivered[g] # None =>
        delivered[g].node = "intact" /\ delivered[g].dsh = "intact" /\ ~delivered[g].links
=============================================================================
