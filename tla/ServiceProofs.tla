----------------------------- MODULE ServiceProofs -----------------------------
(* What the services beside the transactions guarantee, for every set of plugins *)
(* and manifests, generations, keychain items, documents and launchers, any      *)
(* number of operations and any scenario: a generation's runtime is the audited  *)
(* one, a process has the credentials of one record, a profile stays with who    *)
(* uses it; what the installed list says, which scripts an install may run, what *)
(* a removal leaves behind and what an answer is worth; and what several         *)
(* launchers of one data root do to each other's switches.                       *)
EXTENDS ChangePlans, ManagedInstall, LaunchCredentials, UserData, SharedDataRoot, TLAPS

-----------------------------------------------------------------------------
(* The managed install.                                                        *)
InstallSpec == InstallInit /\ [][InstallNext]_installVars

InstallSteps ==
    {"obtain", "download", "publish", "rename", "extract", "closure", "profile", "preflight"}
Content == {"absent", "intact", "damaged", "foreign"}
Trees == [node: Content, dsh: Content]
Runtime ==
    [node: Content, reference: Content, dsh: Content, profile: BOOLEAN, links: BOOLEAN,
     manifest: {None} \cup Trees]
InstallTypes ==
    /\ archives \in [Artifact -> Content] /\ parts \in [Generation -> Content]
    /\ installing \in [Generation -> {None} \cup [step: InstallSteps, artifact: Artifact]]
    /\ runtimes \in [Generation -> Runtime]
    /\ DOMAIN stage = Generation /\ DOMAIN delivered = Generation

\* What the steps an install has behind it have established.  The archive it extracts
\* is intact from the check of its digest on, and so is the file it publishes.
Established(g) ==
    installing[g] # None =>
       /\ stage[g] = "open"
       /\ installing[g].step = "extract" => archives[installing[g].artifact] = "intact"
       /\ installing[g].step \in {"publish", "rename"} => parts[g] = "intact"
       /\ installing[g].artifact = "dsh" => runtimes[g].node = "intact"
       /\ installing[g].step \in {"closure", "profile", "preflight"} =>
             installing[g].artifact = "dsh" /\ runtimes[g].reference = "intact"
       /\ installing[g].step \in {"profile", "preflight"} => runtimes[g].dsh = "intact"

\* A manifest names audited trees for ever, whatever happens to the trees: it is
\* what a copy is compared with.
Recorded(g) ==
    /\ runtimes[g].manifest # None =>
          runtimes[g].manifest.node = "intact" /\ runtimes[g].manifest.dsh = "intact"
    /\ stage[g] = "installed" => runtimes[g].node = "intact" /\ runtimes[g].dsh = "intact"
    /\ stage[g] # "committed" => ~runtimes[g].links

InstallInv ==
    /\ InstallTypes /\ RuntimeIsAudited
    /\ \A g \in Generation : Established(g) /\ Recorded(g)

\* Another generation, or one whose install looks as before, keeps what it had.
LEMMA InstallUnmoved ==
    ASSUME NEW g \in Generation, Established(g), Recorded(g),
           installing'[g] = installing[g], runtimes'[g] = runtimes[g], stage'[g] = stage[g],
           parts'[g] = parts[g] \/ installing[g] = None,
           \A a \in Artifact : archives[a] = "intact" /\ Doing(g, "extract")
              /\ installing[g].artifact = a => archives'[a] = "intact",
           InstallTypes
    PROVE  Established(g)' /\ Recorded(g)'
  BY DEF Established, Recorded, Doing, InstallTypes

LEMMA InstallBegins == InstallInit => InstallInv
<1> SUFFICES ASSUME InstallInit PROVE InstallInv
  OBVIOUS
<1>1. InstallTypes
  BY DEF InstallInit, InstallTypes, Bare, Runtime, Content
<1>2. \A g \in Generation : Established(g) /\ Recorded(g)
  BY DEF InstallInit, Established, Recorded, Bare
<1>3. RuntimeIsAudited
  BY DEF InstallInit, RuntimeIsAudited
<1> QED BY <1>1, <1>2, <1>3 DEF InstallInv

\* One generation moves on, the others stay as they are.
LEMMA InstallMoves ==
    ASSUME InstallInv, InstallTypes', NEW g \in Generation, Established(g)', Recorded(g)',
           UNCHANGED delivered,
           \A h \in Generation \ {g} :
              UNCHANGED <<installing[h], runtimes[h], stage[h], parts[h]>>,
           \A a \in Artifact : archives[a] = "intact" => archives'[a] = "intact"
    PROVE  InstallInv'
<1>1. \A h \in Generation : Established(h)' /\ Recorded(h)'
  <2> TAKE h \in Generation
  <2>1. CASE h = g
    BY <2>1
  <2>2. CASE h # g
    BY <2>2, InstallUnmoved DEF InstallInv
  <2> QED BY <2>1, <2>2
<1>2. RuntimeIsAudited'
  BY DEF InstallInv, RuntimeIsAudited
<1> QED BY <1>1, <1>2 DEF InstallInv

LEMMA Installing ==
    ASSUME InstallInv, NEW g \in Generation, installing[g] # None
    PROVE  /\ installing[g].step \in InstallSteps /\ installing[g].artifact \in Artifact
           /\ stage[g] = "open"
  BY DEF InstallInv, InstallTypes, Established

LEMMA ArchiveSteps ==
    ASSUME InstallInv, NEW g \in Generation,
           BeginInstall(g) \/ ObtainArchive(g) \/ Download(g) \/ PublishArchive(g)
           \/ RenameArchive(g)
    PROVE  InstallInv'
<1> USE DEF Becomes, Doing, NoFault, Transaction, Commands, Part, CacheIsValid
<1>1. CASE BeginInstall(g)
  <2>1. InstallTypes'
    BY <1>1 DEF BeginInstall, InstallInv, InstallTypes, InstallSteps, Artifact
  <2>2. Established(g)' /\ Recorded(g)'
    BY <1>1 DEF BeginInstall, InstallInv, InstallTypes, Established, Recorded, Artifact
  <2> QED BY <1>1, <2>1, <2>2, InstallMoves DEF BeginInstall, InstallInv, InstallTypes
<1>2. CASE ObtainArchive(g)
  <2>1. InstallTypes'
    BY <1>2, Installing
       DEF ObtainArchive, InstallInv, InstallTypes, InstallSteps, Artifact, Content
  <2>2. Established(g)' /\ Recorded(g)'
    BY <1>2, Installing DEF ObtainArchive, InstallInv, InstallTypes, Established, Recorded
  <2> QED BY <1>2, <2>1, <2>2, InstallMoves DEF ObtainArchive, InstallInv, InstallTypes
<1>3. CASE Download(g)
  <2>1. InstallTypes'
    BY <1>3, Installing DEF Download, InstallInv, InstallTypes, InstallSteps, Content
  <2>2. Established(g)' /\ Recorded(g)'
    BY <1>3, Installing DEF Download, InstallInv, InstallTypes, Established, Recorded
  <2> QED BY <1>3, <2>1, <2>2, InstallMoves DEF Download, InstallInv, InstallTypes
<1>4. CASE PublishArchive(g)
  <2>1. InstallTypes'
    BY <1>4, Installing DEF PublishArchive, InstallInv, InstallTypes, InstallSteps, Content
  <2>2. Established(g)' /\ Recorded(g)'
    BY <1>4, Installing DEF PublishArchive, InstallInv, InstallTypes, Established, Recorded
  <2> QED BY <1>4, <2>1, <2>2, InstallMoves DEF PublishArchive, InstallInv, InstallTypes
<1>5. CASE RenameArchive(g)
  <2>0. parts[g] = "intact"
    BY <1>5 DEF RenameArchive, InstallInv, Established
  <2>1. InstallTypes'
    BY <1>5, <2>0, Installing DEF RenameArchive, InstallInv, InstallTypes, InstallSteps, Content
  <2>2. Established(g)' /\ Recorded(g)'
    BY <1>5, <2>0, Installing DEF RenameArchive, InstallInv, InstallTypes, Established, Recorded
  <2> QED BY <1>5, <2>0, <2>1, <2>2, InstallMoves DEF RenameArchive, InstallInv, InstallTypes
<1> QED BY <1>1, <1>2, <1>3, <1>4, <1>5

LEMMA TreeSteps ==
    ASSUME InstallInv, NEW g \in Generation,
           ExtractTarGz(g) \/ SpawnCommand(g) \/ InstallClosure(g) \/ StageProfile(g)
           \/ RunPreflight(g)
    PROVE  InstallInv'
<1> USE DEF Becomes, Doing, NoFault, Transaction, Exited
<1>1. CASE ExtractTarGz(g)
  <2>0. archives[installing[g].artifact] = "intact"
    BY <1>1 DEF ExtractTarGz, InstallInv, Established
  <2>1. CASE installing[g].artifact = "node"
    <3>0. /\ runtimes' = [runtimes EXCEPT ![g].node = "intact"]
          /\ installing' = [installing EXCEPT ![g] = [step |-> "obtain", artifact |-> "dsh"]]
          /\ UNCHANGED <<archives, parts, stage, delivered>>
      BY <1>1, <2>0, <2>1 DEF ExtractTarGz
    <3>1. InstallTypes'
      <4>1. [runtimes[g] EXCEPT !.node = "intact"] \in Runtime
        BY DEF InstallInv, InstallTypes, Runtime, Content
      <4>2. runtimes' = [runtimes EXCEPT ![g] = [runtimes[g] EXCEPT !.node = "intact"]]
        BY <3>0 DEF InstallInv, InstallTypes
      <4> QED BY <3>0, <4>1, <4>2 DEF InstallInv, InstallTypes, InstallSteps, Artifact
    <3>2. Established(g)' /\ Recorded(g)'
      BY <1>1, <3>0, Installing
         DEF ExtractTarGz, InstallInv, InstallTypes, Runtime, Established, Recorded
    <3> QED BY <3>0, <3>1, <3>2, InstallMoves DEF InstallInv, InstallTypes
  <2>2. CASE installing[g].artifact = "dsh"
    <3>0. /\ runtimes' = [runtimes EXCEPT ![g].reference = "intact"]
          /\ installing' = [installing EXCEPT ![g] = [step |-> "closure", artifact |-> "dsh"]]
          /\ UNCHANGED <<archives, parts, stage, delivered>>
      BY <1>1, <2>0, <2>2 DEF ExtractTarGz
    <3>1. InstallTypes'
      <4>1. [runtimes[g] EXCEPT !.reference = "intact"] \in Runtime
        BY DEF InstallInv, InstallTypes, Runtime, Content
      <4>2. runtimes' = [runtimes EXCEPT ![g] = [runtimes[g] EXCEPT !.reference = "intact"]]
        BY <3>0 DEF InstallInv, InstallTypes
      <4> QED BY <3>0, <4>1, <4>2 DEF InstallInv, InstallTypes, InstallSteps, Artifact
    <3>2. Established(g)' /\ Recorded(g)'
      BY <1>1, <2>2, <3>0, Installing
         DEF ExtractTarGz, InstallInv, InstallTypes, Runtime, Established, Recorded
    <3> QED BY <3>0, <3>1, <3>2, InstallMoves DEF InstallInv, InstallTypes
  <2> QED BY <1>1, <2>1, <2>2, Installing DEF ExtractTarGz, Artifact
<1>2. CASE SpawnCommand(g)
  BY <1>2, InstallMoves
     DEF SpawnCommand, InstallInv, InstallTypes, Established, Recorded
<1>3. CASE InstallClosure(g)
  <2>0. /\ runtimes' = [runtimes EXCEPT ![g].dsh = "intact"] /\ installing[g] # None
        /\ installing' = [installing EXCEPT ![g] = [step |-> "profile", artifact |-> "dsh"]]
        /\ installing[g].artifact = "dsh" /\ runtimes[g].reference = "intact"
        /\ UNCHANGED <<archives, parts, stage, delivered>>
    BY <1>3 DEF InstallClosure, InstallInv, Established, SameTree
  <2>1. InstallTypes'
    BY <2>0 DEF InstallInv, InstallTypes, InstallSteps, Artifact, Content, Runtime
  <2>2. Established(g)' /\ Recorded(g)'
    BY <2>0, Installing DEF InstallInv, InstallTypes, Runtime, Established, Recorded
  <2> QED BY <2>0, <2>1, <2>2, InstallMoves DEF InstallInv, InstallTypes
<1>4. CASE StageProfile(g)
  <2>0. /\ runtimes' = [runtimes EXCEPT ![g].profile = TRUE] /\ installing[g] # None
        /\ installing' = [installing EXCEPT ![g] = [step |-> "preflight", artifact |-> "dsh"]]
        /\ installing[g].step = "profile"
        /\ UNCHANGED <<archives, parts, stage, delivered>>
    BY <1>4 DEF StageProfile
  <2>1. InstallTypes'
    <3>1. [runtimes[g] EXCEPT !.profile = TRUE] \in Runtime
      BY DEF InstallInv, InstallTypes, Runtime
    <3>2. runtimes' = [runtimes EXCEPT ![g] = [runtimes[g] EXCEPT !.profile = TRUE]]
      BY <2>0 DEF InstallInv, InstallTypes
    <3> QED BY <2>0, <3>1, <3>2 DEF InstallInv, InstallTypes, InstallSteps, Artifact
  <2>2. Established(g)' /\ Recorded(g)'
    BY <2>0, Installing DEF InstallInv, InstallTypes, Runtime, Established, Recorded
  <2> QED BY <2>0, <2>1, <2>2, InstallMoves DEF InstallInv, InstallTypes
<1>5. CASE RunPreflight(g)
  <2>0. /\ installing[g] # None /\ installing[g].step = "preflight" /\ stage[g] = "open"
        /\ runtimes[g].node = "intact" /\ runtimes[g].dsh = "intact"
        /\ runtimes[g].reference = "intact"
        /\ runtimes' = [runtimes EXCEPT ![g].manifest =
                           [node |-> "intact", dsh |-> "intact"]]
        /\ installing' = [installing EXCEPT ![g] = None]
        /\ stage' = [stage EXCEPT ![g] = "installed"]
        /\ UNCHANGED <<archives, parts, delivered>>
    BY <1>5, Installing DEF RunPreflight, RecordedManifest, InstallInv, Established
  <2>1. InstallTypes'
    BY <2>0 DEF InstallInv, InstallTypes, Content, Runtime, Trees
  <2>2. Established(g)' /\ Recorded(g)'
    BY <2>0 DEF InstallInv, InstallTypes, Runtime, Established, Recorded
  <2> QED BY <2>0, <2>1, <2>2, InstallMoves DEF InstallInv, InstallTypes
<1> QED BY <1>1, <1>2, <1>3, <1>4, <1>5

LEMMA EndSteps ==
    ASSUME InstallInv, NEW g \in Generation,
           InstallFails(g) \/ AbortInstall(g) \/ OrphanEnds(g)
    PROVE  InstallInv'
<1> USE DEF NoFault, Transaction
<1>1. CASE InstallFails(g)
  <2>0. /\ parts' \in [Generation -> Content]
        /\ \A h \in Generation \ {g} : UNCHANGED parts[h]
    BY <1>1 DEF InstallFails, InstallInv, InstallTypes, Content, Part
  <2>1. InstallTypes'
    BY <1>1, <2>0 DEF InstallFails, InstallInv, InstallTypes, Bare, Runtime, Content
  <2>2. Established(g)' /\ Recorded(g)'
    BY <1>1 DEF InstallFails, InstallInv, InstallTypes, Established, Recorded, Bare
  <2> QED BY <1>1, <2>0, <2>1, <2>2, InstallMoves DEF InstallFails, InstallInv, InstallTypes
<1>2. CASE AbortInstall(g) \/ OrphanEnds(g)
  BY <1>2, InstallMoves
     DEF AbortInstall, OrphanEnds, InstallInv, InstallTypes, Established, Recorded
<1> QED BY <1>1, <1>2

\* A generation without an install: it is committed, rolled back, copied or damaged.
LEMMA InstallSettles ==
    ASSUME InstallInv, NEW g \in Generation, installing[g] = None, Recorded(g)',
           InstallTypes', RuntimeIsAudited', UNCHANGED <<archives, parts, installing>>,
           \A h \in Generation \ {g} : UNCHANGED <<runtimes[h], stage[h]>>
    PROVE  InstallInv'
<1>1. Established(g)' /\ Recorded(g)'
  BY DEF Established, InstallInv, InstallTypes
<1>2. ASSUME NEW h \in Generation \ {g} PROVE Established(h)' /\ Recorded(h)'
  BY InstallUnmoved DEF InstallInv
<1>3. \A h \in Generation : Established(h)' /\ Recorded(h)'
  <2> TAKE h \in Generation
  <2> QED BY <1>1, <1>2
<1> QED BY <1>3 DEF InstallInv

LEMMA CommitSteps ==
    ASSUME InstallInv, NEW g \in Generation, CommitInstall(g) PROVE InstallInv'
<1> USE DEF NoFault
<1>1. /\ installing[g] = None /\ stage[g] = "installed"
      /\ runtimes[g].node = "intact" /\ runtimes[g].dsh = "intact" /\ ~runtimes[g].links
      /\ UNCHANGED <<archives, parts, installing>>
  BY DEF CommitInstall, InstallInv, Established, Recorded
<1>2. CASE /\ stage' = [stage EXCEPT ![g] = "committed"]
           /\ delivered' = [delivered EXCEPT ![g] = runtimes[g]]
           /\ UNCHANGED runtimes
  <2>1. InstallTypes' /\ Recorded(g)'
    BY <1>1, <1>2 DEF InstallInv, InstallTypes, Recorded
  <2>2. RuntimeIsAudited'
    BY <1>1, <1>2 DEF InstallInv, InstallTypes, RuntimeIsAudited
  <2> QED BY <1>1, <1>2, <2>1, <2>2, InstallSettles DEF InstallInv, InstallTypes
<1>3. CASE /\ stage' = [stage EXCEPT ![g] = "gone"]
           /\ runtimes' = [runtimes EXCEPT ![g] = Bare]
           /\ UNCHANGED delivered
  <2>1. InstallTypes' /\ Recorded(g)'
    BY <1>1, <1>3 DEF InstallInv, InstallTypes, Recorded, Bare, Runtime, Content
  <2>2. RuntimeIsAudited'
    BY <1>1, <1>3 DEF InstallInv, InstallTypes, RuntimeIsAudited
  <2> QED BY <1>1, <1>3, <2>1, <2>2, InstallSettles DEF InstallInv, InstallTypes
<1> QED BY <1>2, <1>3 DEF CommitInstall

LEMMA ReuseSteps ==
    ASSUME InstallInv, NEW g \in Generation, NEW from \in Generation,
           ReuseGenerationRuntime(g, from)
    PROVE  InstallInv'
<1> USE DEF NoFault
<1> DEFINE copy == [runtimes[from] EXCEPT !.reference = "absent", !.profile = FALSE]
<1>1. /\ installing[g] = None /\ UNCHANGED <<archives, parts, installing>>
      /\ stage[g] = "unused"
  BY DEF ReuseGenerationRuntime, InstallInv, Established
<1>2. CASE /\ RelocatableLinks(copy) /\ IdentityVerified(copy)
           /\ runtimes' = [runtimes EXCEPT ![g] = copy]
           /\ stage' = [stage EXCEPT ![g] = "committed"]
           /\ delivered' = [delivered EXCEPT ![g] = copy]
  <2>1. copy \in Runtime
    <3>1. \A r \in Runtime : [r EXCEPT !.reference = "absent"] \in Runtime
      BY DEF Runtime, Content
    <3>2. \A r \in Runtime : [r EXCEPT !.profile = FALSE] \in Runtime
      BY DEF Runtime
    <3>3. copy = [[runtimes[from] EXCEPT !.reference = "absent"] EXCEPT !.profile = FALSE]
      OBVIOUS
    <3> QED BY <3>1, <3>2, <3>3 DEF InstallInv, InstallTypes
  <2>2. /\ copy.manifest = runtimes[from].manifest /\ copy.node = runtimes[from].node
        /\ copy.dsh = runtimes[from].dsh /\ copy.links = runtimes[from].links
    BY DEF InstallInv, InstallTypes, Runtime
  <2>3. /\ copy.node = "intact" /\ copy.dsh = "intact" /\ ~copy.links
        /\ copy.manifest.node = "intact" /\ copy.manifest.dsh = "intact"
    <3>1. copy.manifest # None /\ copy.node = copy.manifest.node
          /\ copy.dsh = copy.manifest.dsh /\ ~copy.links
      BY <1>2 DEF IdentityVerified, SameTree, RelocatableLinks
    <3> QED BY <2>2, <3>1 DEF InstallInv, Recorded
  <2> HIDE DEF copy
  <2>4. InstallTypes'
    BY <1>1, <1>2, <2>1 DEF InstallInv, InstallTypes
  <2>5. Recorded(g)' /\ RuntimeIsAudited'
    BY <1>2, <2>3 DEF InstallInv, InstallTypes, RuntimeIsAudited, Recorded
  <2> QED BY <1>1, <1>2, <2>4, <2>5, InstallSettles DEF InstallInv, InstallTypes
<1>3. CASE stage' = [stage EXCEPT ![g] = "gone"] /\ UNCHANGED <<runtimes, delivered>>
  <2>1. InstallTypes' /\ Recorded(g)' /\ RuntimeIsAudited'
    BY <1>1, <1>3 DEF InstallInv, InstallTypes, RuntimeIsAudited, Recorded
  <2> QED BY <1>1, <1>3, <2>1, InstallSettles DEF InstallInv, InstallTypes
<1> QED BY <1>2, <1>3 DEF ReuseGenerationRuntime

LEMMA DamageSteps ==
    ASSUME InstallInv,
           (\E g \in Generation : DamageRuntime(g)) \/ (\E a \in Artifact : DamageArchive(a))
    PROVE  InstallInv'
<1> USE DEF NoFault, Transaction
<1>1. ASSUME NEW g \in Generation, DamageRuntime(g) PROVE InstallInv'
  <2>1. /\ installing[g] = None /\ stage[g] = "committed"
        /\ UNCHANGED <<archives, parts, installing, stage, delivered>>
    BY <1>1 DEF DamageRuntime, InstallInv, Established
  <2>2. PICK damaged \in Runtime :
          /\ runtimes' = [runtimes EXCEPT ![g] = damaged]
          /\ damaged.manifest \in {None, runtimes[g].manifest}
    <3>1. CASE \E tree \in {"node", "dsh"} :
                 runtimes' = [runtimes EXCEPT ![g][tree] = "damaged"]
      <4>1. /\ [runtimes[g] EXCEPT !.node = "damaged"] \in Runtime
            /\ [runtimes[g] EXCEPT !.dsh = "damaged"] \in Runtime
            /\ [runtimes[g] EXCEPT !.node = "damaged"].manifest = runtimes[g].manifest
            /\ [runtimes[g] EXCEPT !.dsh = "damaged"].manifest = runtimes[g].manifest
        BY DEF InstallInv, InstallTypes, Runtime, Content
      <4>2. \/ runtimes' = [runtimes EXCEPT ![g] = [runtimes[g] EXCEPT !.node = "damaged"]]
            \/ runtimes' = [runtimes EXCEPT ![g] = [runtimes[g] EXCEPT !.dsh = "damaged"]]
        BY <3>1 DEF InstallInv, InstallTypes
      <4> QED BY <4>1, <4>2
    <3>2. CASE runtimes' = [runtimes EXCEPT ![g].links = TRUE]
      <4>1. /\ [runtimes[g] EXCEPT !.links = TRUE] \in Runtime
            /\ [runtimes[g] EXCEPT !.links = TRUE].manifest = runtimes[g].manifest
        BY DEF InstallInv, InstallTypes, Runtime
      <4>2. runtimes' = [runtimes EXCEPT ![g] = [runtimes[g] EXCEPT !.links = TRUE]]
        BY <3>2 DEF InstallInv, InstallTypes
      <4> QED BY <4>1, <4>2
    <3>3. CASE runtimes' = [runtimes EXCEPT ![g].manifest = None]
      <4>1. /\ [runtimes[g] EXCEPT !.manifest = None] \in Runtime
            /\ [runtimes[g] EXCEPT !.manifest = None].manifest = None
        BY DEF InstallInv, InstallTypes, Runtime
      <4>2. runtimes' = [runtimes EXCEPT ![g] = [runtimes[g] EXCEPT !.manifest = None]]
        BY <3>3 DEF InstallInv, InstallTypes
      <4> QED BY <4>1, <4>2
    <3> QED BY <1>1, <3>1, <3>2, <3>3 DEF DamageRuntime
  <2>3. InstallTypes' /\ Recorded(g)' /\ RuntimeIsAudited'
    BY <2>1, <2>2 DEF InstallInv, InstallTypes, RuntimeIsAudited, Recorded
  <2> QED BY <2>1, <2>2, <2>3, InstallSettles DEF InstallInv, InstallTypes
<1>2. ASSUME NEW a \in Artifact, DamageArchive(a) PROVE InstallInv'
  <2>1. InstallTypes' /\ RuntimeIsAudited'
    BY <1>2 DEF DamageArchive, InstallInv, InstallTypes, Content, RuntimeIsAudited
  <2>2. \A g \in Generation : Established(g)' /\ Recorded(g)'
    <3> TAKE g \in Generation
    <3>1. \A b \in Artifact : archives[b] = "intact" /\ Doing(g, "extract")
             /\ installing[g].artifact = b => archives'[b] = "intact"
      BY <1>2 DEF DamageArchive, InstallInv, InstallTypes
    <3> QED BY <1>2, <3>1, InstallUnmoved DEF DamageArchive, InstallInv
  <2> QED BY <2>1, <2>2 DEF InstallInv
<1> QED BY <1>1, <1>2

LEMMA CrashSteps == ASSUME InstallInv, CrashInstalls PROVE InstallInv'
<1>1. InstallTypes' /\ RuntimeIsAudited'
  BY DEF CrashInstalls, InstallInv, InstallTypes, Bare, Runtime, Content, RuntimeIsAudited
<1>2. \A g \in Generation : Established(g)' /\ Recorded(g)'
  BY DEF CrashInstalls, InstallInv, InstallTypes, Bare, Established, Recorded
<1> QED BY <1>1, <1>2 DEF InstallInv

LEMMA InstallGoesOn == InstallInv /\ [InstallNext]_installVars => InstallInv'
<1>1. ASSUME InstallInv, UNCHANGED installVars PROVE InstallInv'
  BY <1>1 DEF InstallInv, InstallTypes, RuntimeIsAudited, Established, Recorded, installVars
<1> QED BY <1>1, ArchiveSteps, TreeSteps, EndSteps, CommitSteps, ReuseSteps, DamageSteps,
           CrashSteps DEF InstallNext

\* Whatever other installs do to the shared cache, whatever npm fetches, and whatever
\* is interrupted or damaged on the way, a generation is committed with the audited
\* Node and the audited DSH package, in files of its own, also when it is a copy of a
\* damaged one (install/, generation-runtime-reuse.ts).
THEOREM CommittedRuntimeIsAudited == InstallSpec => []RuntimeIsAudited
<1>1. InstallInv => RuntimeIsAudited
  BY DEF InstallInv
<1> QED BY <1>1, InstallBegins, InstallGoesOn, PTL DEF InstallSpec

-----------------------------------------------------------------------------
(* The credentials of a start.                                                 *)
CredentialSpec == CredentialInit /\ [][CredentialNext]_credentialVars

Records == {Missing, Invalid} \cup {Valid(document) : document \in Imports}
Name == UNION {Names(document) : document \in Imports}
Secret == [name: Name, item: Item, secret: Nat \cup {None}]
LaunchRecord ==
    [generation: Nat, step: {"cleanup", "reading", "readiness"}, cancelled: BOOLEAN,
     bindings: Imports \cup {<<>>}, paths: Nat \cup {None}, secrets: Seq(Secret),
     records: SUBSET Records, held: SUBSET (Item \X (Nat \cup {None}))]
CredentialTypes ==
    /\ bindings \in Records /\ keychain \in [Item -> Nat \cup {None}]
    /\ activeGeneration \in Nat /\ changes \in [record: Nat, keychain: Nat]
    /\ launch \in {None} \cup LaunchRecord

\* The secrets read so far are those of the first bindings, in their order, and each
\* was in the keychain during the start.
ReadInOrder(secrets, document, held) ==
    /\ Len(secrets) <= Len(document)
    /\ \A k \in 1..Len(secrets) :
          /\ secrets[k].name = document[k].name /\ secrets[k].item = document[k].item
          /\ <<secrets[k].item, secrets[k].secret>> \in held

\* The history of a start holds what is there now; once it reads secrets, it is
\* for a record that can be imported and was there during the start.
StartIsSound ==
    launch # None =>
       /\ bindings \in launch.records
       /\ \A i \in Item : <<i, keychain[i]>> \in launch.held
       /\ launch.step = "cleanup" => launch.secrets = <<>>
       /\ launch.step = "reading" =>
             /\ launch.bindings \in Imports /\ Importable(launch.bindings)
             /\ Valid(launch.bindings) \in launch.records
             /\ ReadInOrder(launch.secrets, launch.bindings, launch.held)

CredentialInv == CredentialTypes /\ StartIsSound /\ ChildEnvironmentIsWhole

LEMMA Document ==
    ASSUME NEW document \in Imports
    PROVE  /\ Len(document) \in Nat /\ DOMAIN document = 1..Len(document)
           /\ document = [k \in 1..Len(document) |-> document[k]]
           /\ \A k \in 1..Len(document) :
                 /\ document[k] = Binding(document[k].name, document[k].store, document[k].item)
                 /\ document[k].name \in Name
<1>1. document \in Seq({document[k] : k \in DOMAIN document})
  BY ImportsAssumption
<1>2. /\ Len(document) \in Nat /\ DOMAIN document = 1..Len(document)
      /\ document = [k \in 1..Len(document) |-> document[k]]
  BY <1>1
<1>3. \A k \in 1..Len(document) :
        document[k] = Binding(document[k].name, document[k].store, document[k].item)
  BY <1>2, ImportsAssumption DEF Binding
<1>4. \A k \in 1..Len(document) : document[k].name \in Names(document)
  BY <1>2 DEF Names
<1>5. Names(document) \subseteq Name
  BY DEF Name
<1> QED BY <1>2, <1>3, <1>4, <1>5

LEMMA CredentialsBegin == CredentialInit => CredentialInv
  BY DEF CredentialInit, CredentialInv, CredentialTypes, StartIsSound,
         ChildEnvironmentIsWhole, Records

LEMMA RecordChanges ==
    ASSUME CredentialInv, NEW record \in Records, Write(record) PROVE CredentialInv'
<1> USE DEF Write, CredentialInv
<1>1. CASE launch = None
  BY <1>1 DEF CredentialTypes, StartIsSound, ChildEnvironmentIsWhole
<1>2. CASE launch # None
  <2>1. launch \in LaunchRecord /\ launch' = [launch EXCEPT !.records = @ \cup {record}]
    BY <1>2 DEF CredentialTypes
  <2>2. launch' \in LaunchRecord
    BY <2>1 DEF LaunchRecord
  <2>3. /\ launch'.records = launch.records \cup {record} /\ launch'.held = launch.held
        /\ launch'.step = launch.step /\ launch'.bindings = launch.bindings
        /\ launch'.secrets = launch.secrets
    BY <2>1 DEF LaunchRecord
  <2>4. CredentialTypes'
    BY <2>2 DEF CredentialTypes
  <2>5. StartIsSound'
    BY <1>2, <2>3 DEF StartIsSound
  <2> QED BY <2>4, <2>5 DEF ChildEnvironmentIsWhole
<1> QED BY <1>1, <1>2

LEMMA SecretChanges ==
    ASSUME CredentialInv, NEW i \in Item, KeychainChanges(i) PROVE CredentialInv'
<1> USE DEF CredentialInv
<1>1. PICK secret \in Nat \cup {None} :
        /\ keychain' = [keychain EXCEPT ![i] = secret]
        /\ launch' = IF launch = None THEN None
                     ELSE [launch EXCEPT !.held = @ \cup {<<i, secret>>}]
        /\ changes' = [changes EXCEPT !.keychain = @ + 1]
        /\ UNCHANGED <<bindings, lifecycle, activeGeneration, staging, child>>
  <2>1. changes.keychain + 2 \in Nat
    BY DEF CredentialTypes
  <2> QED BY <2>1 DEF KeychainChanges
<1>2. keychain' \in [Item -> Nat \cup {None}] /\ changes' \in [record: Nat, keychain: Nat]
  BY <1>1 DEF CredentialTypes
<1>3. CASE launch = None
  BY <1>1, <1>2, <1>3 DEF CredentialTypes, StartIsSound, ChildEnvironmentIsWhole
<1>4. CASE launch # None
  <2>1. launch \in LaunchRecord /\ launch' = [launch EXCEPT !.held = @ \cup {<<i, secret>>}]
    BY <1>1, <1>4 DEF CredentialTypes
  <2>2. launch' \in LaunchRecord
    <3>1. launch.held \cup {<<i, secret>>} \in SUBSET (Item \X (Nat \cup {None}))
      BY <2>1 DEF LaunchRecord
    <3>2. \A held \in SUBSET (Item \X (Nat \cup {None})) :
             [launch EXCEPT !.held = held] \in LaunchRecord
      BY <2>1 DEF LaunchRecord
    <3> QED BY <2>1, <3>1, <3>2
  <2>3. /\ launch'.held = launch.held \cup {<<i, secret>>} /\ launch'.records = launch.records
        /\ launch'.step = launch.step /\ launch'.bindings = launch.bindings
        /\ launch'.secrets = launch.secrets
    BY <2>1 DEF LaunchRecord
  <2>4. CredentialTypes'
    BY <1>1, <1>2, <2>2 DEF CredentialTypes
  <2>5. \A j \in Item : <<j, keychain'[j]>> \in launch'.held
    BY <1>1, <1>4, <2>3 DEF CredentialTypes, StartIsSound
  <2>6. StartIsSound'
    BY <1>1, <1>4, <2>3, <2>5 DEF StartIsSound, ReadInOrder
  <2> QED BY <1>1, <2>4, <2>6 DEF ChildEnvironmentIsWhole
<1> QED BY <1>3, <1>4

LEMMA StartEnds ==
    ASSUME CredentialInv, launch' = None, UNCHANGED <<bindings, keychain, changes>>,
           activeGeneration' \in Nat, child' \in {None, child}
    PROVE  CredentialInv'
  BY DEF CredentialInv, CredentialTypes, StartIsSound, ChildEnvironmentIsWhole

LEMMA StartBegins == ASSUME CredentialInv, BeginStart PROVE CredentialInv'
<1> USE DEF CredentialInv
<1> DEFINE begun == StartRequest(activeGeneration)
<1>1. launch' = begun /\ UNCHANGED <<bindings, keychain, activeGeneration, child, changes>>
  BY DEF BeginStart
<1>2. /\ begun \in LaunchRecord /\ begun.step = "cleanup"
      /\ begun.secrets = <<>> /\ begun.records = {bindings} /\ begun.held = {<<i, keychain[i]>> : i \in Item}
  BY DEF StartRequest, CredentialTypes, LaunchRecord
<1> HIDE DEF begun
<1>3. CredentialTypes' /\ StartIsSound'
  BY <1>1, <1>2 DEF CredentialTypes, StartIsSound
<1> QED BY <1>1, <1>3 DEF ChildEnvironmentIsWhole

LEMMA RecordLoads == ASSUME CredentialInv, Load PROVE CredentialInv'
<1> USE DEF CredentialInv
<1>1. CASE StartFails
  BY <1>1, StartEnds DEF StartFails, CredentialTypes
<1>2. CASE /\ Loadable /\ Resolvable(bindings.bindings)
           /\ launch' = [launch EXCEPT !.step = "reading", !.bindings = bindings.bindings,
                                       !.paths = activeGeneration]
           /\ UNCHANGED <<bindings, keychain, lifecycle, activeGeneration, staging, child,
                          changes>>
  <2>1. launch \in LaunchRecord /\ launch # None
    BY DEF Load, CredentialTypes
  <2>2. bindings.bindings \in Imports /\ bindings = Valid(bindings.bindings)
    BY <1>2 DEF Loadable, CredentialTypes, Records, Missing, Invalid, Valid
  <2>3. launch' \in LaunchRecord
    BY <1>2, <2>1, <2>2 DEF LaunchRecord, CredentialTypes
  <2>4. /\ launch'.records = launch.records /\ launch'.held = launch.held
        /\ launch'.step = "reading" /\ launch'.bindings = bindings.bindings
        /\ launch'.secrets = launch.secrets
    BY <1>2, <2>1 DEF LaunchRecord
  <2>5. Importable(bindings.bindings)
    BY <1>2 DEF Resolvable
  <2>6. ReadInOrder(launch.secrets, bindings.bindings, launch.held)
    <3>1. launch.secrets = <<>>
      BY <2>1 DEF Load, StartIsSound
    <3>2. Len(bindings.bindings) >= 0 /\ Len(launch.secrets) = 0
      BY <2>2, <3>1, Document
    <3> QED BY <2>2, <3>1, <3>2, Document DEF ReadInOrder
  <2>7. CredentialTypes'
    BY <1>2, <2>3 DEF CredentialTypes
  <2>8. StartIsSound'
    BY <1>2, <2>1, <2>2, <2>4, <2>5, <2>6 DEF StartIsSound
  <2> QED BY <1>2, <2>7, <2>8 DEF ChildEnvironmentIsWhole
<1> QED BY <1>1, <1>2 DEF Load

LEMMA SecretRead == ASSUME CredentialInv, ReadItem PROVE CredentialInv'
<1> USE DEF CredentialInv
<1> DEFINE n == Len(launch.secrets)
           asked == launch.bindings[n + 1]
           read == [name |-> asked.name, item |-> asked.item, secret |-> keychain[asked.item]]
           all == Append(launch.secrets, read)
<1>1. /\ launch \in LaunchRecord /\ launch # None /\ launch.step = "reading"
      /\ n < Len(launch.bindings) /\ asked.item \in Item
      /\ launch' = [launch EXCEPT !.secrets = all]
      /\ UNCHANGED <<bindings, keychain, lifecycle, activeGeneration, staging, child, changes>>
  BY DEF ReadItem, Reading, ItemAsked, CredentialTypes
<1>2. /\ launch.bindings \in Imports /\ launch.secrets \in Seq(Secret)
      /\ ReadInOrder(launch.secrets, launch.bindings, launch.held)
      /\ n \in Nat /\ Len(launch.bindings) \in Nat
  BY <1>1, Document DEF LaunchRecord, StartIsSound
<1>3. read \in Secret
  <2>1. asked.name \in Name
    BY <1>1, <1>2, Document
  <2> QED BY <1>1, <2>1 DEF Secret, CredentialTypes
<1>4. <<read.item, read.secret>> \in launch.held
  BY <1>1 DEF StartIsSound
<1>5. /\ all \in Seq(Secret) /\ Len(all) = n + 1 /\ all[n + 1] = read
      /\ \A k \in 1..n : all[k] = launch.secrets[k]
  BY <1>2, <1>3
<1>6. ReadInOrder(all, launch.bindings, launch.held)
  <2>1. \A k \in 1..n : /\ all[k].name = launch.bindings[k].name
                         /\ all[k].item = launch.bindings[k].item
                         /\ <<all[k].item, all[k].secret>> \in launch.held
    BY <1>2, <1>5 DEF ReadInOrder
  <2>2. read.name = asked.name /\ read.item = asked.item
    OBVIOUS
  <2>3. /\ all[n + 1].name = launch.bindings[n + 1].name
        /\ all[n + 1].item = launch.bindings[n + 1].item
        /\ <<all[n + 1].item, all[n + 1].secret>> \in launch.held
    BY <1>4, <1>5, <2>2
  <2>4. Len(all) <= Len(launch.bindings) /\ Len(all) = n + 1
    BY <1>1, <1>2, <1>5
  <2> HIDE DEF all, read, asked, n
  <2>5. \A k \in 1..Len(all) : k \in 1..n \/ k = n + 1
    BY <1>2, <2>4
  <2> QED BY <2>1, <2>3, <2>4, <2>5 DEF ReadInOrder
<1> HIDE DEF all
<1>7. launch' \in LaunchRecord
  BY <1>1, <1>5 DEF LaunchRecord
<1>8. /\ launch'.records = launch.records /\ launch'.held = launch.held
      /\ launch'.step = "reading" /\ launch'.bindings = launch.bindings
      /\ launch'.secrets = all
  BY <1>1 DEF LaunchRecord
<1>9. CredentialTypes' /\ StartIsSound'
  BY <1>1, <1>2, <1>6, <1>7, <1>8 DEF CredentialTypes, StartIsSound
<1> QED BY <1>1, <1>9 DEF ChildEnvironmentIsWhole

LEMMA ChildSpawns == ASSUME CredentialInv, Spawn PROVE CredentialInv'
<1> USE DEF CredentialInv
<1>1. CASE StartFails
  BY <1>1, StartEnds DEF StartFails, CredentialTypes
<1>2. CASE /\ ManagedAgrees
           /\ child' = [generation |-> launch.generation, paths |-> launch.paths,
                        secrets |-> ChildEnvironment(launch.secrets),
                        records |-> launch.records, held |-> launch.held]
           /\ launch' = [launch EXCEPT !.step = "readiness", !.secrets = <<>>]
           /\ UNCHANGED <<bindings, keychain, lifecycle, activeGeneration, staging, changes>>
  <2> DEFINE document == launch.bindings
             secrets == launch.secrets
             handed == ChildEnvironment(secrets)
  <2>1. /\ launch \in LaunchRecord /\ launch # None /\ launch.step = "reading"
        /\ Len(secrets) = Len(document)
    BY DEF Spawn, CredentialTypes
  <2>2. /\ document \in Imports /\ Importable(document) /\ Valid(document) \in launch.records
        /\ ReadInOrder(secrets, document, launch.held) /\ secrets \in Seq(Secret)
    BY <2>1 DEF StartIsSound, LaunchRecord
  <2>3. launch' \in LaunchRecord
    <3>1. \A r \in LaunchRecord : [r EXCEPT !.step = "readiness"] \in LaunchRecord
      BY DEF LaunchRecord
    <3>2. \A r \in LaunchRecord : [r EXCEPT !.secrets = <<>>] \in LaunchRecord
      <4>1. <<>> \in Seq(Secret)
        OBVIOUS
      <4> QED BY <4>1 DEF LaunchRecord
    <3>3. launch' = [[launch EXCEPT !.step = "readiness"] EXCEPT !.secrets = <<>>]
      BY <1>2
    <3> QED BY <2>1, <3>1, <3>2, <3>3
  <2>4. /\ launch'.records = launch.records /\ launch'.held = launch.held
        /\ launch'.step = "readiness"
    BY <1>2, <2>1 DEF LaunchRecord
  <2>5. CredentialTypes' /\ StartIsSound'
    BY <1>2, <2>1, <2>3, <2>4 DEF CredentialTypes, StartIsSound
  <2>6. DOMAIN secrets = 1..Len(document)
    BY <2>1, <2>2, Document
  <2>7. document = [k \in DOMAIN secrets |->
                     Binding(secrets[k].name, "keychain", secrets[k].item)]
    <3>1. \A k \in 1..Len(document) :
            document[k] = Binding(secrets[k].name, "keychain", secrets[k].item)
      <4>1. \A k \in 1..Len(document) :
              document[k] = Binding(document[k].name, document[k].store, document[k].item)
        BY <2>2, Document
      <4>2. \A k \in 1..Len(document) : document[k].store = "keychain"
        BY <2>2, Document DEF Importable
      <4>3. \A k \in 1..Len(document) :
              secrets[k].name = document[k].name /\ secrets[k].item = document[k].item
        BY <2>1, <2>2 DEF ReadInOrder
      <4> QED BY <4>1, <4>2, <4>3
    <3>2. document = [k \in 1..Len(document) |-> document[k]]
      BY <2>2, Document
    <3> HIDE DEF document, secrets
    <3> QED BY <2>6, <3>1, <3>2
  <2>8. /\ Valid(document).kind = "valid" /\ Valid(document).bindings = document
    BY DEF Valid
  <2>9. /\ child'.paths = child'.generation /\ child'.secrets = handed
        /\ child'.records = launch.records /\ child'.held = launch.held
    BY <1>2 DEF ManagedAgrees
  <2>10. \A k \in DOMAIN secrets : <<secrets[k].item, secrets[k].secret>> \in launch.held
    BY <2>1, <2>2, <2>6 DEF ReadInOrder
  <2>11. /\ DOMAIN handed = DOMAIN secrets
         /\ \A k \in DOMAIN secrets :
               /\ handed[k].name = secrets[k].name /\ handed[k].item = secrets[k].item
               /\ handed[k].secret = IF secrets[k].name \in PolicyName THEN PolicyValue
                                    ELSE secrets[k].secret
    <3>1. \A k \in DOMAIN secrets : secrets[k] \in Secret
      BY <2>2
    <3>2. \A s \in Secret : /\ [s EXCEPT !.secret = PolicyValue].name = s.name
                            /\ [s EXCEPT !.secret = PolicyValue].item = s.item
                            /\ [s EXCEPT !.secret = PolicyValue].secret = PolicyValue
      BY DEF Secret
    <3> HIDE DEF secrets
    <3> QED BY <3>1, <3>2 DEF ChildEnvironment
  <2> HIDE DEF document, secrets, handed
  <2>12. document = [k \in DOMAIN handed |->
                      Binding(handed[k].name, "keychain", handed[k].item)]
    BY <2>7, <2>11
  <2> QED BY <2>2, <2>5, <2>8, <2>9, <2>10, <2>11, <2>12 DEF ChildEnvironmentIsWhole
<1> QED BY <1>1, <1>2 DEF Spawn

LEMMA CredentialsGoOn == CredentialInv /\ [CredentialNext]_credentialVars => CredentialInv'
<1> SUFFICES ASSUME CredentialInv, [CredentialNext]_credentialVars PROVE CredentialInv'
  OBVIOUS
<1>1. CASE (\E document \in Imports : ImportCredentials(document) \/ EditRecord(Valid(document)))
           \/ EditRecord(Missing) \/ EditRecord(Invalid)
  BY <1>1, RecordChanges DEF Records, ImportCredentials, EditRecord
<1>2. CASE ReadFails \/ Ready
  BY <1>2, StartEnds DEF ReadFails, StartFails, Ready, CredentialInv, CredentialTypes
<1>3. CASE CancelStart
  <2>1. launch \in LaunchRecord /\ launch' = [launch EXCEPT !.cancelled = TRUE]
    BY <1>3 DEF CancelStart, CredentialInv, CredentialTypes
  <2>2. launch' \in LaunchRecord
    BY <2>1 DEF LaunchRecord
  <2>3. /\ launch'.records = launch.records /\ launch'.held = launch.held
        /\ launch'.step = launch.step /\ launch'.bindings = launch.bindings
        /\ launch'.secrets = launch.secrets
    BY <2>1 DEF LaunchRecord
  <2> QED BY <1>3, <2>2, <2>3 DEF CancelStart, CredentialInv, CredentialTypes, StartIsSound,
                                  ChildEnvironmentIsWhole
<1>4. CASE StopRefused \/ ChildEnds \/ BeginStaging \/ UNCHANGED credentialVars
  BY <1>4 DEF StopRefused, ChildEnds, BeginStaging, credentialVars, CredentialInv,
              CredentialTypes, StartIsSound, ChildEnvironmentIsWhole
<1>5. CASE CommitStaging
  BY <1>5 DEF CommitStaging, CredentialInv, CredentialTypes, StartIsSound,
              ChildEnvironmentIsWhole
<1>6. CASE \E i \in Item : KeychainChanges(i)
  BY <1>6, SecretChanges
<1> QED BY <1>1, <1>2, <1>3, <1>4, <1>5, <1>6, StartBegins, RecordLoads, SecretRead,
           ChildSpawns DEF CredentialNext

\* A process is spawned with a secret for every binding of one importable record that
\* was in place during its start, each read under that record's item and present in the
\* keychain during the start, and with the directories of the generation it runs
\* (manager.ts, injection.ts).
THEOREM CredentialsAreOfOneRecord == CredentialSpec => []ChildEnvironmentIsWhole
<1>1. CredentialInv => ChildEnvironmentIsWhole
  BY DEF CredentialInv
<1> QED BY <1>1, CredentialsBegin, CredentialsGoOn, PTL DEF CredentialSpec
-----------------------------------------------------------------------------
(* The move of a profile.                                                      *)
ProfileSteps ==
    {"start", "legacy", "probe", "target", "create", "sign", "again", "owner", "clear",
     "latest", "remove", "move", "release", "open", "running", "over"}
Probed == {"target", "create", "sign", "again", "owner", "clear", "latest", "remove", "move"}
LauncherRecord ==
    [step: ProfileSteps, explicit: BOOLEAN, attempt: {1, 2}, directory: Place]
ProfileTypes ==
    /\ directories \in [Place -> {"absent", "empty", "user", "fresh"}]
    /\ odd \in [Place -> {"plain", "link", "closed"}]
    /\ DOMAIN holder = Place /\ taken \subseteq Launcher
    /\ launchers \in [Launcher -> LauncherRecord]

\* Who decides about the default profile was given no other one; who is past the
\* probe saw a directory that is no link and that nobody used whose mark it could read, and
\* still has it so unless an instance opened it since.
ProbeSound(l) ==
    /\ launchers[l].step \in {"start", "legacy", "probe"} \cup Probed => ~launchers[l].explicit
    /\ launchers[l].step \in {"probe"} \cup Probed => odd["legacy"] = "plain"
    /\ launchers[l].step \in Probed => holder["legacy"] = None \/ l \in taken
ProfileInv == ProfileTypes /\ \A l \in Launcher : ProbeSound(l)

\* A launcher that goes on keeps the type of its record.
LEMMA LauncherGoes ==
    ASSUME ProfileTypes, NEW l \in Launcher, NEW s \in ProfileSteps, NEW c \in {1, 2},
           NEW p \in Place,
           \/ launchers' = [launchers EXCEPT ![l].step = s, ![l].attempt = c]
           \/ launchers' = [launchers EXCEPT ![l].step = s, ![l].directory = p]
    PROVE  launchers' \in [Launcher -> LauncherRecord]
<1>1. launchers[l] \in LauncherRecord
  BY DEF ProfileTypes
<1>2. PICK a \in ProfileSteps, b \in BOOLEAN, k \in {1, 2}, d \in Place :
        launchers[l] = [step |-> a, explicit |-> b, attempt |-> k, directory |-> d]
  BY <1>1 DEF LauncherRecord
<1>3. /\ [step |-> s, explicit |-> b, attempt |-> c, directory |-> d] \in LauncherRecord
      /\ [step |-> s, explicit |-> b, attempt |-> k, directory |-> p] \in LauncherRecord
  BY DEF LauncherRecord
<1>4. \/ launchers' = [launchers EXCEPT ![l] =
            [step |-> s, explicit |-> b, attempt |-> c, directory |-> d]]
      \/ launchers' = [launchers EXCEPT ![l] =
            [step |-> s, explicit |-> b, attempt |-> k, directory |-> p]]
  BY <1>2
<1> QED BY <1>3, <1>4 DEF ProfileTypes

\* A step of one launcher that leaves the profile's lock alone.
LEMMA LauncherMoves ==
    ASSUME ProfileInv, NEW l \in Launcher, ProfileTypes', UNCHANGED <<odd, holder>>,
           \A m \in Launcher \ {l} : launchers'[m] = launchers[m],
           taken' = taken \/ taken' = taken \ {l} \/ taken' = taken \cup {l},
           ProbeSound(l)'
    PROVE  ProfileInv'
<1>1. ASSUME NEW m \in Launcher \ {l} PROVE ProbeSound(m)'
  <2>1. launchers'[m] = launchers[m] /\ odd' = odd /\ holder' = holder
    OBVIOUS
  <2>2. m \in taken => m \in taken'
    OBVIOUS
  <2> QED BY <2>1, <2>2 DEF ProfileInv, ProbeSound
<1> QED BY <1>1 DEF ProfileInv

\* A launcher decides where the profile is, and takes the migration lock.
LEMMA DecisionSteps ==
    ASSUME ProfileInv, NEW l \in Launcher,
           \/ ConfigureUserData(l) \/ InspectLegacy(l) \/ Probe(l) \/ InspectTarget(l)
           \/ CreateLockFile(l) \/ SignLockFile(l) \/ ReadLockFile(l) \/ ClearLockFile(l)
    PROVE  ProfileInv'
<1>0. ASSUME NEW step \in {"create", "open"},
             launchers' = [launchers EXCEPT ![l].step = step, ![l].attempt = 2]
      PROVE  launchers' \in [Launcher -> LauncherRecord]
  <2>1. step \in ProfileSteps /\ "legacy" \in Place
    BY DEF ProfileSteps, Place
  <2> QED BY <1>0, <2>1, LauncherGoes DEF ProfileInv
<1> USE DEF On, Goes, Uses, Files, Instances, ProfileTypes, LauncherRecord, Place,
            ProfileSteps, Probed, ProbeSound
<1>1. CASE ConfigureUserData(l)
  BY <1>1, LauncherMoves DEF ConfigureUserData, ProfileInv
<1>2. CASE InspectLegacy(l)
  BY <1>2, LauncherMoves DEF InspectLegacy, StateOf, Populated, ProfileInv
<1>3. CASE Probe(l)
  <2>1. Uses(l, "legacy") \/ Goes(l, "target")
    BY <1>3 DEF Probe
  <2>2. /\ launchers[l].step = "probe" /\ UNCHANGED <<directories, odd, holder>>
        /\ taken' = taken \/ taken' = taken \ {l} \/ taken' = taken \cup {l}
    BY <1>3 DEF Probe
  <2>3. Goes(l, "target") => holder["legacy"] = None \/ l \in taken'
    BY <1>3, <2>2 DEF Probe, IsProfileLocked, ReadsAsLive, Sight, ProfileInv
  <2>4. ProfileTypes'
    BY <2>1, <2>2 DEF ProfileInv
  <2>5. ProbeSound(l)'
    BY <2>1, <2>2, <2>3 DEF ProfileInv
  <2>6. \A m \in Launcher \ {l} : launchers'[m] = launchers[m]
    BY <2>1 DEF ProfileInv
  <2> QED BY <2>2, <2>4, <2>5, <2>6, LauncherMoves
<1>4. CASE InspectTarget(l)
  BY <1>4, LauncherMoves DEF InspectTarget, ProfileInv
<1>5. CASE CreateLockFile(l)
  BY <1>5, LauncherMoves DEF CreateLockFile, ProfileInv
<1>6. CASE SignLockFile(l)
  BY <1>6, LauncherMoves DEF SignLockFile, ProfileInv
<1>7. CASE ReadLockFile(l)
  <2>1. Uses(l, "target") \/ Goes(l, "clear")
    BY <1>7 DEF ReadLockFile
  <2> QED BY <1>7, <2>1, LauncherMoves DEF ReadLockFile, ProfileInv
<1>8. CASE ClearLockFile(l)
  <2>1. PICK step \in {"create", "open"} :
          launchers' = [launchers EXCEPT ![l].step = step, ![l].attempt = 2]
    BY <1>8 DEF ClearLockFile
  <2>2. launchers'[l].step = step /\ launchers'[l].explicit = launchers[l].explicit
    BY <2>1 DEF ProfileInv
  <2>3. \A m \in Launcher \ {l} : launchers'[m] = launchers[m]
    BY <2>1 DEF ProfileInv
  <2>4. /\ launchers[l].step = "clear" /\ directories' = directories
        /\ odd' = odd /\ holder' = holder /\ taken' = taken
    BY <1>8 DEF ClearLockFile
  <2>5. ProfileTypes'
    <3>1. launchers' \in [Launcher -> LauncherRecord]
      BY <2>1, <1>0
    <3> QED BY <2>4, <3>1 DEF ProfileInv
  <2>6. ProbeSound(l)'
    BY <2>2, <2>4 DEF ProfileInv
  <2> QED BY <2>3, <2>4, <2>5, <2>6, LauncherMoves
<1> QED BY <1>1, <1>2, <1>3, <1>4, <1>5, <1>6, <1>7, <1>8

\* A launcher moves the profile under the lock, and gives the lock back.
LEMMA MoveSteps ==
    ASSUME ProfileInv, NEW l \in Launcher,
           \/ InspectAgain(l) \/ InspectLatest(l) \/ RemoveEmptyDirectory(l) \/ Rename(l)
           \/ RemoveLockFile(l) \/ LauncherDies(l)
    PROVE  ProfileInv'
<1>0. ASSUME Releases(l, "legacy") PROVE launchers' \in [Launcher -> LauncherRecord]
  <2>1. "release" \in ProfileSteps /\ "legacy" \in Place
    BY DEF ProfileSteps, Place
  <2> QED BY <1>0, <2>1, LauncherGoes DEF ProfileInv, Releases
<1> USE DEF On, Goes, Releases, Files, Instances, ProfileTypes, LauncherRecord, Place,
            ProfileSteps, Probed, ProbeSound
<1>1. CASE InspectAgain(l)
  BY <1>1, LauncherMoves DEF InspectAgain, ProfileInv
<1>2. CASE InspectLatest(l)
  BY <1>2, LauncherMoves DEF InspectLatest, ProfileInv
<1>3. CASE RemoveEmptyDirectory(l)
  <2>1. CASE directories' = [directories EXCEPT !["target"] = "absent"] /\ Goes(l, "move")
    BY <1>3, <2>1, LauncherMoves DEF RemoveEmptyDirectory, ProfileInv
  <2>2. CASE Releases(l, "legacy") /\ UNCHANGED directories
    <3>1. UNCHANGED <<directories, odd, holder, taken>>
      BY <1>3, <2>2 DEF RemoveEmptyDirectory
    <3>2. /\ launchers'[l].step = "release"
          /\ \A m \in Launcher \ {l} : launchers'[m] = launchers[m]
      BY <2>2 DEF ProfileInv
    <3>3. ProfileTypes'
      <4>3. launchers' \in [Launcher -> LauncherRecord]
        BY <2>2, <1>0
      <4> QED BY <3>1, <4>3 DEF ProfileInv
    <3>4. ProbeSound(l)'
      BY <3>2
    <3> QED BY <3>1, <3>2, <3>3, <3>4, LauncherMoves
  <2> QED BY <1>3, <2>1, <2>2 DEF RemoveEmptyDirectory
<1>4. CASE Rename(l)
  BY <1>4, LauncherMoves DEF Rename, ProfileInv
<1>5. CASE RemoveLockFile(l)
  BY <1>5, LauncherMoves DEF RemoveLockFile, ProfileInv
<1>6. CASE LauncherDies(l)
  BY <1>6, LauncherMoves DEF LauncherDies, ProfileInv
<1> QED BY <1>1, <1>2, <1>3, <1>4, <1>5, <1>6

\* An instance that opens the old profile is noticed by everybody, one that ends
\* takes nothing away.
LEMMA InstanceSteps ==
    ASSUME ProfileInv,
           \/ \E l \in Launcher : OpenProfile(l) \/ EndInstance(l)
           \/ OldInstanceStarts \/ OldInstanceEnds
    PROVE  ProfileInv'
<1> USE DEF On, Goes, Files, ProfileTypes, LauncherRecord, Place, ProfileSteps, Probed,
            ProbeSound, ProfileInv
<1>1. ASSUME NEW l \in Launcher, OpenProfile(l) PROVE ProfileInv'
  <2>1. PICK d \in Place : d = launchers[l].directory
    OBVIOUS
  <2>2. CASE /\ holder' = [holder EXCEPT ![d] = l]
             /\ taken' = (IF d = "legacy" THEN Launcher ELSE taken)
    BY <1>1, <2>1, <2>2 DEF OpenProfile
  <2>3. CASE UNCHANGED <<holder, directories, taken>> /\ Goes(l, "over")
    BY <1>1, <2>1, <2>3 DEF OpenProfile
  <2> QED BY <1>1, <2>1, <2>2, <2>3 DEF OpenProfile
<1>2. ASSUME NEW l \in Launcher, EndInstance(l) PROVE ProfileInv'
  BY <1>2 DEF EndInstance
<1>3. CASE OldInstanceStarts
  BY <1>3 DEF OldInstanceStarts
<1>4. CASE OldInstanceEnds
  BY <1>4 DEF OldInstanceEnds
<1> QED BY <1>1, <1>2, <1>3, <1>4

\* Every step keeps the invariant.
LEMMA ProfileGoesOn == ProfileInv /\ [ProfileNext]_profileVars => ProfileInv'
<1> SUFFICES ASSUME ProfileInv, [ProfileNext]_profileVars PROVE ProfileInv'
  OBVIOUS
<1>1. CASE UNCHANGED profileVars
  BY <1>1 DEF profileVars, ProfileInv, ProfileTypes, ProbeSound
<1>2. CASE ProfileNext
  BY <1>2, DecisionSteps, MoveSteps, InstanceSteps DEF ProfileNext
<1> QED BY <1>1, <1>2

\* The directory of the old profile is gone after a rename only.
LEMMA OnlyRenamed ==
    ASSUME ProfileInv, [ProfileNext]_profileVars, Populated("legacy"),
           directories'["legacy"] = "absent"
    PROVE  \E l \in Launcher : Rename(l)
<1> USE DEF ProfileInv, ProfileTypes, Place, Populated
<1>1. CASE UNCHANGED directories
  BY <1>1
<1>2. ASSUME NEW l \in Launcher,
             ConfigureUserData(l) \/ RemoveEmptyDirectory(l) \/ OpenProfile(l)
      PROVE  FALSE
  BY <1>2 DEF ConfigureUserData, RemoveEmptyDirectory, OpenProfile
<1> QED BY <1>1, <1>2 DEF ProfileNext, profileVars, Files, InspectLegacy, Probe, InspectTarget,
    CreateLockFile, SignLockFile, ReadLockFile, ClearLockFile, InspectAgain, InspectLatest,
    RemoveLockFile, EndInstance, LauncherDies, OldInstanceStarts, OldInstanceEnds

\* However launchers and instances of the old version start, decide, die and clear each
\* other's lock in between, the old profile is moved only by a launcher that was given no
\* other one, and only if it is no link and nobody runs on it who ran on it at the
\* launcher's probe with a mark the probe could read (user-data.ts,
\* resolveUserDataDirectory).
THEOREM ProfilesStay == ProfileSpec => ProfileInUseStays
<1>1. ProfileInit => ProfileInv
  BY DEF ProfileInit, ProfileInv, ProfileTypes, LauncherRecord, ProbeSound, ProfileSteps,
         Probed, Place
<1>2. ProfileInv /\ [ProfileNext]_profileVars =>
        [Populated("legacy") /\ directories'["legacy"] = "absent" =>
           /\ odd["legacy"] = "plain"
           /\ \E l \in Launcher :
                 /\ On(l, "move") /\ launchers'[l].step = "release"
                 /\ ~launchers[l].explicit
                 /\ holder["legacy"] = None \/ l \in taken]_profileVars
  <2> SUFFICES ASSUME ProfileInv, [ProfileNext]_profileVars, Populated("legacy"),
                      directories'["legacy"] = "absent"
               PROVE  /\ odd["legacy"] = "plain"
                      /\ \E l \in Launcher :
                            /\ On(l, "move") /\ launchers'[l].step = "release"
                            /\ ~launchers[l].explicit
                            /\ holder["legacy"] = None \/ l \in taken
    OBVIOUS
  <2>1. PICK l \in Launcher : Rename(l)
    BY OnlyRenamed
  <2>2. On(l, "move") /\ launchers'[l].step = "release"
    BY <2>1 DEF Rename, Releases, ProfileInv, ProfileTypes, LauncherRecord
  <2>3. ProbeSound(l)
    BY DEF ProfileInv
  <2> QED BY <2>2, <2>3 DEF ProbeSound, Probed, On
<1> QED BY <1>1, <1>2, ProfileGoesOn, PTL DEF ProfileSpec, ProfileInUseStays

-----------------------------------------------------------------------------
(* Change plans.                                                               *)
PlanSpec == PlanInit /\ [][PlanNext]_planVars

StageSteps == {"verify", "materialize", "install"}
RemovalSteps == {"repeat", "pruned"}
PreviewSteps == {"resolve", "bind", "enumerate", "prune"}

\* A committed generation: its lock records every declared plugin at its commit and
\* nothing that is not declared.
Sound(G) ==
    /\ G.declared \in Declaration
    /\ G.recorded \subseteq Plugin \X Commit
    /\ \A r \in G.recorded : G.declared[r[1]] # 0
    /\ \A p \in Declared(G.declared) :
          <<p, G.declared[p]>> \in G.recorded

ScriptRecord == [package: Plugin, commit: Commit, own: BOOLEAN]
JobRecord ==
    [step: {"query"} \cup PreviewSteps \cup StageSteps \cup RemovalSteps,
     plugin: Plugin \cup {None}, plan: Operation \cup {0}, commit: 0..MaxCommit,
     base: Nat, generation: Nat,
     consent: {None} \cup [commit: 0..MaxCommit, scripts: SUBSET ScriptRecord],
     target: Declaration, blocked: BOOLEAN]

\* What a plan makes of the declaration it was previewed on.
Intended(plan, declared) ==
    IF plan.kind = "install" THEN TargetDeclaration(declared, plan.plugin, plan.commit)
    ELSE PrunedDeclaration(declared, plan.plugin)

\* While nothing was committed or restored since, a plan is one for the active
\* generation; its scripts are scripts of its target.
PlanSound(plan) ==
    /\ plan \in PlanRecord /\ plan.base <= environment.revision
    /\ plan.kind = "install" => plan.commit \in Commit
    /\ plan.scripts \subseteq AllBuilds(plan.target, None)
    /\ plan.base = environment.revision => plan.target = Intended(plan, Active.declared)

\* A task knows the generation that was active at its revision.
BaseSound(job) ==
    /\ job \in JobRecord /\ job.generation \in DOMAIN generations
    /\ job.base <= environment.revision
    /\ job.base = environment.revision => job.generation = environment.active
BaseDeclared(job) == generations[job.generation].declared

PreviewSound(o, job) ==
    /\ job.step \in {"query"} \cup PreviewSteps => job.plan = 0 /\ ran[o] = {}
    /\ job.step \in PreviewSteps => plans[o] = None /\ job.plugin \in Plugin
    /\ job.step \in {"bind", "enumerate"} => job.commit \in Commit
    /\ job.step = "enumerate" =>
          job.target = TargetDeclaration(BaseDeclared(job), job.plugin, job.commit)
    /\ job.step \in {"prune"} \cup RemovalSteps =>
          job.target = PrunedDeclaration(BaseDeclared(job), job.plugin)

\* An apply runs no script but those of its plan, and a removal that goes on found no
\* reference among the rows that were there when it began.
ApplySound(o, job) ==
    /\ job.step \in StageSteps \cup RemovalSteps =>
          /\ operations[o].kind = "apply" /\ job.plan \in Operation /\ plans[job.plan] # None
          /\ job.plugin = plans[job.plan].plugin /\ job.base = plans[job.plan].base
          /\ ran[o] \subseteq plans[job.plan].scripts
    /\ job.step \in StageSteps =>
          /\ plans[job.plan].kind = "install" /\ job.target = plans[job.plan].target
          /\ job.consent # None =>
                job.consent = Consent(plans[job.plan].commit, plans[job.plan].scripts)
    /\ job.step = "repeat" /\ ~job.blocked =>
          ~Blocking(BaseDeclared(job), userPatch \ late, unseen, job.plugin)
    /\ job.step = "pruned" => ~Blocking(BaseDeclared(job), userPatch \ late, unseen, job.plugin)

JobSound(o) ==
    jobs[o] # None =>
        BaseSound(jobs[o]) /\ PreviewSound(o, jobs[o]) /\ ApplySound(o, jobs[o])

\* An id that was not given out yet is unused.
IdSound(o) == operations[o] = None => jobs[o] = None /\ ran[o] = {} /\ plans[o] = None

PlanTypes ==
    /\ operations \in [Operation -> {None} \cup OperationRecord]
    /\ jobs = [o \in Operation |-> jobs[o]] /\ plans = [o \in Operation |-> plans[o]]
    /\ ran = [o \in Operation |-> ran[o]] /\ upstream \in [Plugin -> Commit]
    /\ generations \in Seq([recorded: SUBSET (Plugin \X Commit), declared: Declaration])
    /\ environment \in [revision: Nat, active: Nat]
    /\ environment.active \in DOMAIN generations
\* A recorded commit is one that this generation or an earlier one declared.
Traced(all, g) ==
    \A r \in all[g].recorded : \E h \in 1..g : all[h].declared[r[1]] = r[2]
GenerationsSound ==
    \A g \in DOMAIN generations : Sound(generations[g]) /\ Traced(generations, g)
PlansSound == \A n \in Operation : plans[n] # None => PlanSound(plans[n])
JobsSound == \A o \in Operation : JobSound(o) /\ IdSound(o)

PlanInv == PlanTypes /\ GenerationsSound /\ PlansSound /\ JobsSound

-----------------------------------------------------------------------------
(* Lemmas about the operators. *)

\* The scripts of a declaration are bound to the commits it names, so that a package and
\* the kind of script determine it.
LEMMA BuildsAreBound ==
    ASSUME NEW target, NEW c, NEW s \in AllBuilds(target, c)
    PROVE  s = Script(s.package, target[s.package], s.own)
<1>1. PICK q \in Declared(target) :
        s \in OwnScripts(q, target[q]) \/ s \in ClosureScripts(q, target[q])
  BY DEF AllBuilds
<1>2. s = Script(q, target[q], TRUE) \/ s = Script(q, target[q], FALSE)
  BY <1>1 DEF OwnScripts, ClosureScripts
<1> QED BY <1>2 DEF Script

\* allowBuilds names packages, and still no more than the authorized scripts run.
LEMMA AllowedAreAuthorized ==
    ASSUME NEW target, NEW consent, consent.scripts \subseteq AllBuilds(target, None)
    PROVE  AllowedBuilds(target, consent) \subseteq consent.scripts
<1> SUFFICES ASSUME NEW s \in AllowedBuilds(target, consent) PROVE s \in consent.scripts
  OBVIOUS
<1>1. s \in AllBuilds(target, consent)
  BY DEF AllowedBuilds
<1>2. PICK t \in consent.scripts : t.package = s.package /\ t.own = s.own
  BY DEF AllowedBuilds
<1>3. s = Script(s.package, target[s.package], s.own)
  BY <1>1, BuildsAreBound
<1>4. t = Script(t.package, target[t.package], t.own)
  BY <1>2, BuildsAreBound
<1> QED BY <1>2, <1>3, <1>4

\* What is enumerated for a target is what its install could run.
LEMMA EnumeratedAreBuilds ==
    ASSUME NEW target, NEW p
    PROVE  EnumeratedScripts(target, p) \subseteq AllBuilds(target, None)
<1>1. \A q \in Declared(target) : ClosureScripts(q, target[q]) \subseteq AllBuilds(target, None)
  BY DEF AllBuilds
<1>2. \A q \in Declared(target) : OwnScripts(q, target[q]) \subseteq AllBuilds(target, None)
  BY DEF AllBuilds
<1> SUFFICES ASSUME NEW s \in EnumeratedScripts(target, p) PROVE s \in AllBuilds(target, None)
  OBVIOUS
<1> DEFINE closures == {ClosureScripts(q, target[q]) : q \in Declared(target)}
           owns == {OwnScripts(q, target[q]) : q \in Declared(target) \ {p}}
<1>6. EnumeratedScripts(target, p) = (UNION closures) \cup (UNION owns)
  BY Zenon DEF EnumeratedScripts
<1> HIDE DEF closures, owns
<1>3. s \in UNION closures \/ s \in UNION owns
  BY <1>6
<1> USE DEF closures, owns
<1>4. CASE s \in UNION closures
  BY <1>1, <1>4
<1>5. CASE s \in UNION owns
  BY <1>2, <1>5
<1> QED BY <1>3, <1>4, <1>5

LEMMA OwnAreBuilds ==
    ASSUME NEW target, NEW p, p \in Declared(target)
    PROVE  OwnScripts(p, target[p]) \subseteq AllBuilds(target, None)
  BY DEF AllBuilds

LEMMA BuildsAreRecords ==
    ASSUME NEW target \in Declaration
    PROVE  AllBuilds(target, None) \subseteq ScriptRecord
<1> SUFFICES ASSUME NEW s \in AllBuilds(target, None) PROVE s \in ScriptRecord
  OBVIOUS
<1>1. PICK q \in Declared(target) :
        s \in OwnScripts(q, target[q]) \/ s \in ClosureScripts(q, target[q])
  BY DEF AllBuilds
<1>2. s = Script(q, target[q], TRUE) \/ s = Script(q, target[q], FALSE)
  BY <1>1 DEF OwnScripts, ClosureScripts
<1>3. q \in Plugin /\ target[q] \in Commit
  BY CommitAssumption DEF Declared, Declaration, Commit
<1>4. \A b \in BOOLEAN : Script(q, target[q], b) \in ScriptRecord
  BY <1>3 DEF Script, ScriptRecord
<1>5. TRUE \in BOOLEAN /\ FALSE \in BOOLEAN
  OBVIOUS
<1> QED BY <1>2, <1>4, <1>5

LEMMA AllowMeansConsent ==
    ASSUME NEW consent, NEW commit, NEW assessment, NEW scripts, NEW enumerated,
           Decision(consent, commit, assessment, scripts, enumerated) = "allow"
    PROVE  consent # None
  BY DEF Decision

\* Fewer rows of the user refer to fewer plugins.
LEMMA FewerRows ==
    ASSUME NEW declared, NEW rows, NEW fewer, fewer \subseteq rows, NEW missed, NEW p,
           ~Blocking(declared, rows, missed, p)
    PROVE  ~Blocking(declared, fewer, missed, p)
<1> DEFINE few == fewer \ Unread("user", missed)
           all == rows \ Unread("user", missed)
<1>1. /\ Scan(few).references \subseteq Scan(all).references
      /\ Scan(few).rowIds \subseteq Scan(all).rowIds
      /\ Scan(few).rowTargets \subseteq Scan(all).rowTargets
      /\ Scan(few).unresolved => Scan(all).unresolved
  <2>1. few \subseteq all
    OBVIOUS
  <2> HIDE DEF few, all
  <2> QED BY <2>1 DEF Scan
<1>2. \A source \in ReferenceSources(declared, fewer, missed, p) :
        source = Scan(few) \/ source \in ReferenceSources(declared, rows, missed, p)
  BY DEF ReferenceSources
<1>3. Scan(all) \in ReferenceSources(declared, rows, missed, p)
  BY DEF ReferenceSources
<1> HIDE DEF few, all
<1> SUFFICES ASSUME NEW source \in ReferenceSources(declared, fewer, missed, p),
                    \/ p \in source.references
                    \/ RemovedRowIds(declared, missed, p)
                            \cap (source.rowTargets \cup source.rowIds) # {}
                    \/ source.unresolved
             PROVE  FALSE
  BY DEF Blocking
<1>4. CASE source \in ReferenceSources(declared, rows, missed, p)
  BY <1>4 DEF Blocking
<1>5. CASE source = Scan(few)
  BY <1>1, <1>3, <1>5 DEF Blocking
<1> QED BY <1>2, <1>4, <1>5

\* Installing a plugin on a sound generation makes a sound one,
LEMMA InstallIsSound ==
    ASSUME NEW G, Sound(G), NEW p \in Plugin, NEW c \in Commit
    PROVE  Sound([recorded |-> G.recorded \cup {<<p, c>>},
                  declared |-> TargetDeclaration(G.declared, p, c)])
<1> DEFINE D == TargetDeclaration(G.declared, p, c)
<1>1. D \in Declaration /\ D[p] = c /\ c # 0 /\ \A q \in Plugin \ {p} : D[q] = G.declared[q]
  BY CommitAssumption DEF TargetDeclaration, Declaration, Sound, Commit
<1> DEFINE R == G.recorded \cup {<<p, c>>}
<1> SUFFICES Sound([recorded |-> R, declared |-> D])
  OBVIOUS
<1>2. R \subseteq Plugin \X Commit
  BY DEF Sound
<1>3. \A r \in R : D[r[1]] # 0
  <2>1. \A r \in G.recorded : r[1] \in Plugin /\ G.declared[r[1]] # 0
    BY DEF Sound
  <2> HIDE DEF D
  <2> QED BY <1>1, <2>1
<1>4. \A q \in Plugin : D[q] # 0 => <<q, D[q]>> \in R
  <2>1. \A q \in Plugin : G.declared[q] # 0 => <<q, G.declared[q]>> \in G.recorded
    BY DEF Sound, Declared
  <2> HIDE DEF D
  <2> QED BY <1>1, <2>1
<1> HIDE DEF D, R
<1> QED BY <1>1, <1>2, <1>3, <1>4 DEF Sound, Declared

\* and so does removing one.
LEMMA RemovalIsSound ==
    ASSUME NEW G, Sound(G), NEW p \in Plugin
    PROVE  Sound([recorded |-> {r \in G.recorded : r[1] # p},
                  declared |-> PrunedDeclaration(G.declared, p)])
<1> DEFINE D == PrunedDeclaration(G.declared, p)
<1>1. D \in Declaration /\ D[p] = 0 /\ \A q \in Plugin \ {p} : D[q] = G.declared[q]
  BY CommitAssumption DEF PrunedDeclaration, Declaration, Sound
<1> DEFINE R == {r \in G.recorded : r[1] # p}
<1> SUFFICES Sound([recorded |-> R, declared |-> D])
  OBVIOUS
<1>2. R \subseteq Plugin \X Commit
  BY DEF Sound
<1>3. \A r \in R : D[r[1]] # 0
  <2>1. \A r \in G.recorded : r[1] \in Plugin /\ G.declared[r[1]] # 0
    BY DEF Sound
  <2> HIDE DEF D
  <2> QED BY <1>1, <2>1
<1>4. \A q \in Plugin : D[q] # 0 => <<q, D[q]>> \in R
  <2>1. \A q \in Plugin : G.declared[q] # 0 => <<q, G.declared[q]>> \in G.recorded
    BY DEF Sound, Declared
  <2> HIDE DEF D
  <2> QED BY <1>1, <2>1
<1> HIDE DEF D, R
<1> QED BY <1>1, <1>2, <1>3, <1>4 DEF Sound, Declared

-----------------------------------------------------------------------------
(* What a step leaves alone. *)

\* No operation disappears, changes its kind or, once it was answered, its status.
OperationsKeep ==
    /\ operations' \in [Operation -> {None} \cup OperationRecord]
    /\ \A o \in Operation : operations[o] # None =>
          /\ operations'[o] # None /\ operations'[o].kind = operations[o].kind
          /\ ~Running(o) => operations'[o] = operations[o]

LEMMA OperationBegins ==
    ASSUME PlanTypes, NEW o \in Operation, operations[o] = None,
           NEW kind \in {"search", "inspect", "versions", "composition", "preview", "apply"},
           NEW status \in {"running", "failed"},
           operations' = [operations EXCEPT ![o] = [kind |-> kind, status |-> status]]
    PROVE  OperationsKeep /\ operations'[o] # None /\ operations'[o].kind = kind
  BY NoneAssumption DEF PlanTypes, OperationRecord, OperationsKeep

LEMMA OperationMoves ==
    ASSUME PlanTypes, NEW o \in Operation, Running(o),
           NEW status \in {"succeeded", "failed", "cancelled"},
           operations' = [operations EXCEPT ![o].status = status]
    PROVE  OperationsKeep
<1>1. operations[o] \in OperationRecord
  BY DEF PlanTypes, Running
<1>2. /\ [operations[o] EXCEPT !.status = status] \in OperationRecord
      /\ [operations[o] EXCEPT !.status = status].kind = operations[o].kind
  BY <1>1 DEF OperationRecord
<1>3. operations' = [operations EXCEPT ![o] = [operations[o] EXCEPT !.status = status]]
  BY DEF PlanTypes
<1> HIDE DEF OperationRecord
<1>4. None \notin OperationRecord
  BY NoneAssumption DEF OperationRecord
<1> QED BY <1>2, <1>3, <1>4 DEF PlanTypes, OperationsKeep

LEMMA OperationsRest ==
    ASSUME PlanTypes, UNCHANGED operations PROVE OperationsKeep
  BY DEF PlanTypes, OperationsKeep

LEMMA OperationEnds ==
    ASSUME PlanTypes, NEW o \in Operation, NEW status \in {"succeeded", "failed"},
           Ends(o, status)
    PROVE  OperationsKeep
  BY OperationMoves, OperationsRest DEF Ends

LEMMA OperationCancels ==
    ASSUME PlanTypes, NEW o \in Operation, NEW kinds, Cancels(o, kinds)
    PROVE  OperationsKeep
  BY OperationMoves DEF Cancels

LEMMA OperationsSettle == ASSUME PlanTypes, Interrupt PROVE OperationsKeep
<1>1. operations' = [o \in Operation |-> Settled(o)]
  BY DEF Interrupt
<1>2. \A o \in Operation : operations[o] # None =>
        /\ operations[o] \in OperationRecord
        /\ [operations[o] EXCEPT !.status = "failed"] \in OperationRecord
        /\ [operations[o] EXCEPT !.status = "failed"].kind = operations[o].kind
  BY DEF PlanTypes, OperationRecord
<1>3. None \notin OperationRecord
  BY NoneAssumption DEF OperationRecord
<1>4. \A o \in Operation :
        \/ Settled(o) = operations[o]
        \/ Running(o) /\ Settled(o) = [operations[o] EXCEPT !.status = "failed"]
  BY DEF Settled
<1> HIDE DEF Settled
<1>5. \A o \in Operation : Settled(o) \in {None} \cup OperationRecord
  BY <1>2, <1>4 DEF PlanTypes, Running
<1>6. \A o \in Operation : operations[o] # None =>
        /\ Settled(o) # None /\ Settled(o).kind = operations[o].kind
        /\ ~Running(o) => Settled(o) = operations[o]
  BY <1>2, <1>3, <1>4
<1> QED BY <1>1, <1>5, <1>6 DEF OperationsKeep

LEMMA OperationsStay == PlanTypes /\ [PlanNext]_planVars => OperationsKeep
<1> SUFFICES ASSUME PlanTypes, [PlanNext]_planVars PROVE OperationsKeep
  OBVIOUS
<1>1. CASE UNCHANGED planVars
  BY <1>1, OperationsRest DEF planVars
<1>2. CASE PreviewNext
  <2> SUFFICES ASSUME NEW o \in Operation,
                 \/ \E p \in Plugin : PreviewInstall(o, p)
                 \/ \E p \in Plugin \cup InBox : PreviewRemoval(o, p)
                 \/ SourceResolved(o) \/ TargetResolved(o) \/ SourcePreviewed(o)
                 \/ RemovalPreviewed(o) \/ PreviewFails(o) \/ CancelPreview(o)
               PROVE  OperationsKeep
    BY <1>2 DEF PreviewNext
  <2>1. CASE \/ \E p \in Plugin : PreviewInstall(o, p)
             \/ \E p \in Plugin \cup InBox : PreviewRemoval(o, p)
    BY <2>1, OperationBegins DEF PreviewInstall, PreviewRemoval, NextOperation, Started,
                                 FailedAtOnce
  <2>2. CASE SourceResolved(o) \/ TargetResolved(o)
    BY <2>2, OperationsRest, OperationEnds DEF SourceResolved, TargetResolved, Awaits
  <2>3. CASE SourcePreviewed(o) \/ RemovalPreviewed(o)
    BY <2>3, OperationEnds DEF SourcePreviewed, RemovalPreviewed, Previewed
  <2>4. CASE PreviewFails(o) \/ CancelPreview(o)
    BY <2>4, OperationEnds, OperationCancels DEF PreviewFails, CancelPreview
  <2> QED BY <2>1, <2>2, <2>3, <2>4
<1>3. CASE ApplyNext
  <2> SUFFICES ASSUME NEW o \in Operation,
                 \/ \E n \in Operation :
                      \/ \E consent \in Confirmed(plans[n]) : ApplyInstall(o, n, consent)
                      \/ ApplyRemoval(o, n)
                 \/ StageVerified(o) \/ StageEnumerated(o) \/ InstallCommits(o)
                 \/ RemovalVerified(o) \/ RemovalCommits(o) \/ ApplyFails(o) \/ CancelApply(o)
               PROVE  OperationsKeep
    BY <1>3 DEF ApplyNext
  <2>1. CASE \E n \in Operation :
               \/ \E consent \in Confirmed(plans[n]) : ApplyInstall(o, n, consent)
               \/ ApplyRemoval(o, n)
    <3>1. operations[o] = None
      BY <2>1 DEF ApplyInstall, ApplyRemoval, NextOperation
    <3>2. \E status \in {"running", "failed"} :
            operations' = [operations EXCEPT ![o] = [kind |-> "apply", status |-> status]]
      <4> DEFINE Begun == \E status \in {"running", "failed"} :
                   operations' = [operations EXCEPT ![o] = [kind |-> "apply", status |-> status]]
      <4>1. ASSUME NEW job, Started(o, "apply", job) PROVE Begun
        BY <4>1 DEF Started
      <4>2. FailedAtOnce(o, "apply") => Begun
        BY DEF FailedAtOnce
      <4> HIDE DEF Begun
      <4>3. Begun
        BY <2>1, <4>1, <4>2 DEF ApplyInstall, ApplyRemoval
      <4> QED BY <4>3 DEF Begun
    <3> QED BY <3>1, <3>2, OperationBegins
  <2>2. CASE StageVerified(o) \/ StageEnumerated(o)
    BY <2>2, OperationsRest, OperationEnds DEF StageVerified, StageEnumerated, Awaits
  <2>3. CASE InstallCommits(o) \/ RemovalCommits(o)
    BY <2>3, OperationEnds DEF InstallCommits, RemovalCommits, Commits
  <2>4. CASE RemovalVerified(o)
    BY <2>4, OperationsRest, OperationEnds DEF RemovalVerified, Awaits
  <2>5. CASE ApplyFails(o) \/ CancelApply(o)
    BY <2>5, OperationEnds, OperationCancels DEF ApplyFails, CancelApply
  <2> QED BY <2>1, <2>2, <2>3, <2>4, <2>5
<1>4. CASE QueryNext
  <2> SUFFICES ASSUME NEW o \in Operation,
                 \/ Search(o) \/ Inspect(o) \/ ListVersions(o) \/ DescribeComposition(o)
                 \/ SourceLands(o) \/ VersionsLand(o) \/ CompositionLands(o)
                 \/ CancelDiscovery(o) \/ CancelVersions(o) \/ CancelComposition(o)
               PROVE  OperationsKeep
    BY <1>4 DEF QueryNext
  <2>1. CASE Search(o) \/ Inspect(o) \/ ListVersions(o) \/ DescribeComposition(o)
    BY <2>1, OperationBegins DEF Search, Inspect, ListVersions, DescribeComposition,
                                 NextOperation, Started
  <2>2. CASE SourceLands(o) \/ VersionsLand(o) \/ CompositionLands(o)
    BY <2>2, OperationEnds DEF SourceLands, VersionsLand, CompositionLands, QueryLands
  <2>3. CASE CancelDiscovery(o) \/ CancelVersions(o) \/ CancelComposition(o)
    BY <2>3, OperationCancels DEF CancelDiscovery, CancelVersions, CancelComposition,
                                  CancelQuery
  <2> QED BY <2>1, <2>2, <2>3
<1>5. CASE \/ \E g \in DOMAIN generations : Restore(g)
           \/ \E p \in Plugin : SourceMoves(p)
           \/ \E row \in UserRows : EditPatch(row)
           \/ \E layer \in Layer : \E row \in RowsOf(layer) : Hide(layer, row)
           \/ \E n \in Operation : Expires(n) \/ LoseCache(n)
  BY <1>5, OperationsRest DEF Restore, SourceMoves, EditPatch, Hide, Expires, LoseCache
<1>6. CASE Interrupt
  BY <1>6, OperationsSettle
<1> QED BY <1>1, <1>2, <1>3, <1>4, <1>5, <1>6 DEF PlanNext

\* An answer stays what it was, whatever lands later (operation repositories, plugin-preview.ts,
\* plugin-apply.ts and the discovery services).
LEMMA AnswersKept == PlanTypes /\ [PlanNext]_planVars =>
    [\A o \in Operation : operations[o] # None /\ ~Running(o)
        => operations'[o] = operations[o]]_planVars
  BY OperationsStay DEF OperationsKeep

-----------------------------------------------------------------------------
(* The invariant. *)

\* What a plan says does not depend on its expiry and use.
SaysTheSame(plan, other) ==
    /\ other \in PlanRecord /\ other.kind = plan.kind /\ other.plugin = plan.plugin
    /\ other.base = plan.base /\ other.commit = plan.commit
    /\ other.target = plan.target /\ other.scripts = plan.scripts

LEMMA PlanFlags ==
    ASSUME NEW plan \in PlanRecord
    PROVE  /\ SaysTheSame(plan, [plan EXCEPT !.expired = TRUE])
           /\ SaysTheSame(plan, [plan EXCEPT !.consumed = TRUE])
<1>1. [plan EXCEPT !.expired = TRUE] \in PlanRecord
  BY DEF PlanRecord
<1>2. [plan EXCEPT !.consumed = TRUE] \in PlanRecord
  BY DEF PlanRecord
<1>3. plan = [kind |-> plan.kind, plugin |-> plan.plugin, base |-> plan.base,
              commit |-> plan.commit, target |-> plan.target, scripts |-> plan.scripts,
              assessment |-> plan.assessment, requires |-> plan.requires,
              blocked |-> plan.blocked, consumed |-> plan.consumed, expired |-> plan.expired]
  BY DEF PlanRecord
<1> QED BY <1>1, <1>2, <1>3 DEF SaysTheSame

LEMMA SameSound ==
    ASSUME NEW plan, NEW other, PlanSound(plan), SaysTheSame(plan, other)
    PROVE  PlanSound(other)
  BY DEF PlanSound, SaysTheSame, Intended

SamePlan(n) == SaysTheSame(plans[n], plans'[n])

\* Plans keep what they say, the generations stay, and the revision tells whether another
\* one became active.
PlansKeep == \A n \in Operation : plans[n] # None => SamePlan(n)
GenerationsKeep ==
    /\ \A g \in DOMAIN generations :
          g \in DOMAIN generations' /\ generations'[g] = generations[g]
    /\ environment' = environment \/ environment'.revision > environment.revision
    /\ environment' \in [revision: Nat, active: Nat]
RowsKeep ==
    (userPatch' \ late' \subseteq userPatch \ late /\ unseen' = unseen) \/ ~Applying

LEMMA PlansFlagged ==
    ASSUME PlanTypes, PlansSound, NEW n \in Operation, plans[n] # None,
           \/ plans' = [plans EXCEPT ![n].expired = TRUE]
           \/ plans' = [plans EXCEPT ![n].consumed = TRUE]
    PROVE  /\ PlansKeep /\ plans' = [o \in Operation |-> plans'[o]]
           /\ \A o \in Operation : plans[o] = None <=> plans'[o] = None
<1>1. \A o \in Operation : plans[o] # None => SaysTheSame(plans[o], plans[o])
  BY DEF PlansSound, PlanSound, SaysTheSame
<1>2. plans[n] \in PlanRecord
  BY DEF PlansSound, PlanSound
<1>3. /\ SaysTheSame(plans[n], plans'[n]) /\ \A o \in Operation \ {n} : plans'[o] = plans[o]
      /\ plans' = [o \in Operation |-> plans'[o]]
  BY <1>2, PlanFlags DEF PlanTypes
<1>4. plans'[n] # None
  BY <1>3, NoneAssumption DEF SaysTheSame
<1> QED BY <1>1, <1>3, <1>4 DEF PlansKeep, SamePlan

\* A task that waits while another one moves.
LEMMA JobRests ==
    ASSUME PlanInv, OperationsKeep, PlansKeep, GenerationsKeep, RowsKeep,
           NEW o \in Operation, jobs'[o] = jobs[o], ran'[o] = ran[o],
           plans[o] = None => plans'[o] = None
    PROVE  JobSound(o)' /\ IdSound(o)'
<1> DEFINE job == jobs[o]
<1>1. JobSound(o) /\ IdSound(o)
  BY DEF PlanInv, JobsSound
<1>2. IdSound(o)'
  BY <1>1 DEF IdSound, OperationsKeep
<1> SUFFICES ASSUME job # None PROVE BaseSound(job)' /\ PreviewSound(o, job)' /\ ApplySound(o, job)'
  BY <1>2 DEF JobSound
<1>3. BaseSound(job) /\ PreviewSound(o, job) /\ ApplySound(o, job) /\ operations[o] # None
  BY <1>1 DEF JobSound, IdSound
<1>4. BaseSound(job)'
  <2>1. environment \in [revision: Nat, active: Nat]
    BY DEF PlanInv, PlanTypes
  <2>2. job.base \in Nat
    BY <1>3 DEF BaseSound, JobRecord
  <2> QED BY <1>3, <2>1, <2>2 DEF BaseSound, GenerationsKeep
<1>5. BaseDeclared(job)' = BaseDeclared(job)
  BY <1>3 DEF BaseSound, BaseDeclared, GenerationsKeep
<1>6. PreviewSound(o, job)'
  BY <1>3, <1>5 DEF PreviewSound
<1>7. job.step \in StageSteps \cup RemovalSteps =>
        /\ operations'[o].kind = "apply" /\ SamePlan(job.plan)
  BY <1>3 DEF ApplySound, OperationsKeep, PlansKeep
<1>10. job.step \in StageSteps \cup RemovalSteps => plans'[job.plan] # None
  BY <1>7, NoneAssumption DEF SamePlan, SaysTheSame
<1>8. job.step \in RemovalSteps /\ ~Blocking(BaseDeclared(job), userPatch \ late, unseen, job.plugin)
        => ~Blocking(BaseDeclared(job), userPatch' \ late', unseen', job.plugin)
  <2>1. job.step \in RemovalSteps => Applying
    BY <1>3 DEF ApplySound, Applying
  <2> QED BY <2>1, FewerRows DEF RowsKeep
<1>9. ApplySound(o, job)'
  BY <1>3, <1>5, <1>7, <1>8, <1>10 DEF ApplySound, SamePlan, SaysTheSame, StageSteps, RemovalSteps
<1> QED BY <1>4, <1>6, <1>9

LEMMA PlansRest ==
    ASSUME PlanInv, UNCHANGED <<plans, generations, environment>> PROVE PlansSound' /\ PlansKeep
  BY DEF PlanInv, PlansSound, PlanSound, PlansKeep, SamePlan, SaysTheSame, Active

\* A step of one task that neither commits nor makes a plan.
LEMMA TaskMoves ==
    ASSUME PlanInv, OperationsKeep, RowsKeep, NEW o \in Operation,
           jobs' = [jobs EXCEPT ![o] = jobs'[o]], ran' = [ran EXCEPT ![o] = ran'[o]],
           UNCHANGED <<plans, generations, environment, upstream>>,
           JobSound(o)' /\ IdSound(o)'
    PROVE  PlanInv'
<1>1. PlanTypes' /\ GenerationsSound'
  BY DEF PlanInv, PlanTypes, OperationsKeep, GenerationsSound
<1>2. PlansSound' /\ PlansKeep
  BY PlansRest
<1>3. GenerationsKeep
  BY DEF PlanInv, PlanTypes, GenerationsKeep
<1>4. \A n \in Operation \ {o} : JobSound(n)' /\ IdSound(n)'
  <2> SUFFICES ASSUME NEW n \in Operation \ {o} PROVE JobSound(n)' /\ IdSound(n)'
    OBVIOUS
  <2>1. jobs'[n] = jobs[n] /\ ran'[n] = ran[n]
    BY DEF PlanInv, PlanTypes
  <2> QED BY <1>2, <1>3, <2>1, JobRests
<1> QED BY <1>1, <1>2, <1>4 DEF PlanInv, JobsSound

\* A task ends without a result that lasts.
LEMMA TaskDone ==
    ASSUME PlanInv, RowsKeep, NEW o \in Operation, jobs[o] # None,
           NEW status \in {"succeeded", "failed"}, Ends(o, status),
           UNCHANGED <<plans, generations, environment, upstream, ran>>
    PROVE  PlanInv'
<1>1. OperationsKeep
  BY OperationEnds DEF PlanInv
<1>2. jobs' = [jobs EXCEPT ![o] = None] /\ jobs'[o] = None
  BY DEF Ends, PlanInv, PlanTypes
<1>3. operations'[o] # None
  BY <1>1 DEF PlanInv, JobsSound, IdSound, OperationsKeep
<1>4. JobSound(o)' /\ IdSound(o)'
  BY <1>2, <1>3 DEF JobSound, IdSound
<1> QED BY <1>1, <1>2, <1>4, TaskMoves DEF PlanInv, PlanTypes

\* A task begins: what it captured is what is there.
LEMMA TaskBegins ==
    ASSUME PlanInv, RowsKeep, NEW o \in Operation, operations[o] = None,
           NEW kind \in {"search", "inspect", "versions", "composition", "preview", "apply"},
           UNCHANGED <<plans, generations, environment, upstream, ran>>,
           FailedAtOnce(o, kind) \/ (Started(o, kind, jobs'[o]) /\ JobSound(o)')
    PROVE  PlanInv'
<1>1. OperationsKeep /\ operations'[o] # None
  BY OperationBegins DEF FailedAtOnce, Started, PlanInv
<1>2. IdSound(o)'
  BY <1>1 DEF IdSound
<1>3. JobSound(o)'
  BY DEF FailedAtOnce, JobSound, PlanInv, JobsSound, IdSound
<1>4. jobs' = [jobs EXCEPT ![o] = jobs'[o]] /\ ran' = [ran EXCEPT ![o] = ran'[o]]
  BY DEF FailedAtOnce, Started, PlanInv, PlanTypes
<1> QED BY <1>1, <1>2, <1>3, <1>4, TaskMoves

LEMMA RowsRest == ASSUME UNCHANGED <<userPatch, late, unseen>> PROVE RowsKeep
  BY DEF RowsKeep

\* No task moves.
LEMMA OthersRest ==
    ASSUME PlanInv, OperationsKeep, PlansKeep, GenerationsKeep, RowsKeep, UNCHANGED <<jobs, ran>>,
           \A o \in Operation : plans[o] = None => plans'[o] = None,
           PlanTypes', GenerationsSound', PlansSound'
    PROVE  PlanInv'
  BY JobRests DEF PlanInv, JobsSound

LEMMA Cancelled ==
    ASSUME PlanInv, NEW o \in Operation, NEW kinds, Cancels(o, kinds),
           NoPlan, NoCommit, World, NoHistory
    PROVE  PlanInv'
<1>1. OperationsKeep
  BY OperationCancels DEF PlanInv
<1>2. PlanTypes' /\ GenerationsSound' /\ GenerationsKeep
  BY <1>1 DEF Cancels, OperationsKeep, PlanInv, PlanTypes, GenerationsSound, GenerationsKeep,
              NoPlan, NoCommit, World, NoHistory
<1> QED BY <1>1, <1>2, PlansRest, RowsRest, OthersRest DEF Cancels, NoPlan, NoCommit, World,
           NoHistory

\* A task that captured the active generation and its revision.
LEMMA Captured ==
    ASSUME PlanInv, UNCHANGED <<generations, environment>>, NEW o \in Operation,
           jobs'[o] \in JobRecord, jobs'[o].base = environment.revision,
           jobs'[o].generation = environment.active
    PROVE  BaseSound(jobs[o])'
<1>1. environment.revision \in Nat /\ environment.active \in DOMAIN generations
  BY DEF PlanInv, PlanTypes
<1> QED BY <1>1 DEF BaseSound

LEMMA JobAtFirst ==
    ASSUME PlanInv, NEW p \in Plugin \cup {None}, NEW n \in Operation \cup {0},
           NEW step \in {"query"} \cup PreviewSteps \cup StageSteps \cup RemovalSteps
    PROVE  LET job == Job(step, p, n) IN
             /\ job \in JobRecord /\ job.step = step /\ job.plugin = p /\ job.plan = n
             /\ job.commit = 0 /\ job.base = environment.revision
             /\ job.generation = environment.active /\ ~job.blocked
<1>1. environment.revision \in Nat /\ environment.active \in Nat
  BY DEF PlanInv, PlanTypes
<1>2. Nothing \in Declaration
  BY CommitAssumption DEF Nothing, Declaration
<1> QED BY <1>1, <1>2, CommitAssumption DEF Job, JobRecord

LEMMA QuerySteps == ASSUME PlanInv, QueryNext PROVE PlanInv'
<1> PICK o \in Operation :
      \/ Search(o) \/ Inspect(o) \/ ListVersions(o) \/ DescribeComposition(o)
      \/ SourceLands(o) \/ VersionsLand(o) \/ CompositionLands(o)
      \/ CancelDiscovery(o) \/ CancelVersions(o) \/ CancelComposition(o)
  BY DEF QueryNext
<1>1. ASSUME NEW kind \in {"search", "inspect", "versions", "composition"}, NextOperation(o),
             Started(o, kind, Job("query", None, 0)), NoPlan, NoCommit, World, NoHistory
      PROVE  PlanInv'
  <2>1. operations[o] = None /\ ran[o] = {} /\ RowsKeep
    BY <1>1, RowsRest DEF NextOperation, PlanInv, JobsSound, IdSound, World, NoHistory
  <2>2. jobs'[o] = Job("query", None, 0)
    BY <1>1 DEF Started, PlanInv, PlanTypes
  <2>3. /\ jobs'[o] \in JobRecord
        /\ jobs'[o].step = "query" /\ jobs'[o].plan = 0
        /\ jobs'[o].base = environment.revision /\ jobs'[o].generation = environment.active
    BY <2>2, JobAtFirst
  <2>4. BaseSound(jobs[o])'
    BY <1>1, <2>3, Captured DEF NoCommit
  <2>5. PreviewSound(o, jobs[o])' /\ ApplySound(o, jobs[o])'
    BY <1>1, <2>1, <2>3 DEF NoHistory, PreviewSound, ApplySound, PreviewSteps, StageSteps,
                            RemovalSteps
  <2>6. Started(o, kind, jobs'[o]) /\ JobSound(o)'
    BY <1>1, <2>2, <2>4, <2>5 DEF JobSound
  <2> QED BY <1>1, <2>1, <2>6, TaskBegins DEF NoPlan, NoCommit, World, NoHistory
<1>2. CASE Search(o) \/ Inspect(o) \/ ListVersions(o) \/ DescribeComposition(o)
  BY <1>1, <1>2 DEF Search, Inspect, ListVersions, DescribeComposition
<1>3. CASE SourceLands(o) \/ VersionsLand(o) \/ CompositionLands(o)
  BY <1>3, TaskDone, RowsRest DEF SourceLands, VersionsLand, CompositionLands, QueryLands, At,
                                  NoPlan, NoCommit, World, NoHistory, Outside
<1>4. CASE CancelDiscovery(o) \/ CancelVersions(o) \/ CancelComposition(o)
  <2>1. PICK kinds : Cancels(o, kinds) /\ NoPlan /\ NoCommit /\ World /\ NoHistory
    BY <1>4 DEF CancelDiscovery, CancelVersions, CancelComposition, CancelQuery
  <2> QED BY <2>1, Cancelled
<1> QED BY <1>2, <1>3, <1>4

\* Somebody restores a generation, pushes, edits the patch, deletes a cached profile; a
\* plan expires; the process is killed.
LEMMA WorldSteps ==
    ASSUME PlanInv, [PlanNext]_planVars,
           \/ \E g \in DOMAIN generations : Restore(g)
           \/ \E p \in Plugin : SourceMoves(p)
           \/ \E row \in UserRows : EditPatch(row)
           \/ \E layer \in Layer : \E row \in RowsOf(layer) : Hide(layer, row)
           \/ \E n \in Operation : Expires(n) \/ LoseCache(n)
           \/ Interrupt \/ UNCHANGED planVars
    PROVE  PlanInv'
<1>1. OperationsKeep
  BY OperationsStay DEF PlanInv
<1>2. CASE \E g \in DOMAIN generations : Restore(g)
  <2>1. PICK g \in DOMAIN generations : Restore(g)
    BY <1>2
  <2>2. /\ environment.revision \in Nat /\ g \in Nat
        /\ environment' = [revision |-> environment.revision + 1, active |-> g]
    BY <2>1 DEF Restore, PlanInv, PlanTypes
  <2>3. PlanTypes' /\ GenerationsSound' /\ GenerationsKeep
    BY <1>1, <2>1, <2>2 DEF Restore, OperationsKeep, PlanInv, PlanTypes, GenerationsSound,
                            GenerationsKeep, NoPlan, World, NoHistory
  <2>4. PlansSound' /\ PlansKeep
    BY <2>1, <2>2 DEF Restore, NoPlan, PlanInv, PlansSound, PlanSound, PlanRecord, PlansKeep,
                      SamePlan, SaysTheSame
  <2> QED BY <1>1, <2>1, <2>3, <2>4, RowsRest, OthersRest DEF Restore, NoPlan, World, NoHistory
<1>3. CASE \E p \in Plugin : SourceMoves(p)
  <2>1. PICK p \in Plugin : SourceMoves(p)
    BY <1>3
  <2>2. upstream[p] + 1 \in Commit
    BY <2>1, CommitAssumption DEF SourceMoves, PlanInv, PlanTypes, Commit
  <2>3. upstream' \in [Plugin -> Commit]
    BY <2>1, <2>2 DEF SourceMoves, PlanInv, PlanTypes
  <2>4. PlanTypes' /\ GenerationsSound' /\ GenerationsKeep
    BY <1>1, <2>1, <2>3 DEF SourceMoves, OperationsKeep, PlanInv, PlanTypes, GenerationsSound,
                            GenerationsKeep, NoPlan, NoCommit, NoHistory
  <2> QED BY <1>1, <2>1, <2>4, PlansRest, RowsRest, OthersRest DEF SourceMoves, NoPlan,
             NoCommit, NoHistory
<1>4. CASE \E row \in UserRows : EditPatch(row)
  <2>1. PICK row \in UserRows : EditPatch(row)
    BY <1>4
  <2>2. RowsKeep
    BY <2>1 DEF EditPatch, RowsKeep
  <2>3. PlanTypes' /\ GenerationsSound' /\ GenerationsKeep
    BY <1>1, <2>1 DEF EditPatch, OperationsKeep, PlanInv, PlanTypes, GenerationsSound,
                      GenerationsKeep, NoPlan, NoCommit
  <2> QED BY <1>1, <2>1, <2>2, <2>3, PlansRest, OthersRest DEF EditPatch, NoPlan, NoCommit
<1>5. CASE \E n \in Operation : Expires(n)
  <2>1. PICK n \in Operation : Expires(n)
    BY <1>5
  <2>2. PlanTypes' /\ GenerationsSound' /\ GenerationsKeep
    BY <1>1, <2>1, PlansFlagged DEF Expires, OperationsKeep, PlanInv, PlanTypes,
            GenerationsSound, GenerationsKeep, NoCommit, World, NoHistory
  <2>3. PlansKeep /\ \A o \in Operation : plans[o] = None <=> plans'[o] = None
    BY <2>1, PlansFlagged DEF Expires, PlanInv
  <2>4. PlansSound'
    <3>1. \A plan : PlanSound(plan)' <=> PlanSound(plan)
      BY <2>1 DEF PlanSound, Active, Expires, NoCommit
    <3> QED BY <2>3, <3>1, SameSound DEF PlanInv, PlansSound, PlansKeep, SamePlan
  <2> QED BY <1>1, <2>1, <2>2, <2>3, <2>4, RowsRest, OthersRest DEF Expires, NoCommit, World, NoHistory
<1>6. CASE \/ \E n \in Operation : LoseCache(n)
           \/ \E layer \in Layer : \E row \in RowsOf(layer) : Hide(layer, row)
           \/ UNCHANGED planVars
  <2>1. UNCHANGED <<upstream, generations, environment, userPatch, operations, jobs, plans,
                    ran, late, unseen>>
    BY <1>6 DEF LoseCache, Hide, planVars, NoPlan, NoCommit, World, NoHistory
  <2>2. PlanTypes' /\ GenerationsSound' /\ GenerationsKeep
    BY <2>1 DEF PlanInv, PlanTypes, GenerationsSound, GenerationsKeep
  <2> QED BY <1>1, <2>1, <2>2, PlansRest, RowsRest, OthersRest
<1>7. CASE Interrupt
  <2>1. \A o \in Operation : jobs'[o] = None
    BY <1>7 DEF Interrupt
  <2>2. PlanTypes' /\ GenerationsSound' /\ PlansSound'
    BY <1>1, <1>7, PlansRest DEF Interrupt, OperationsKeep, PlanInv, PlanTypes,
                      GenerationsSound, NoPlan, NoCommit, NoHistory
  <2>3. JobsSound'
    BY <1>1, <1>7, <2>1 DEF Interrupt, NoPlan, NoHistory, PlanInv, JobsSound, JobSound, IdSound,
                            OperationsKeep
  <2> QED BY <2>2, <2>3 DEF PlanInv
<1> QED BY <1>2, <1>3, <1>4, <1>5, <1>6, <1>7

\* A plan is recorded and its preview ends.
LEMMA PlanMade ==
    ASSUME PlanInv, NEW o \in Operation, jobs[o] # None, plans[o] = None, NEW plan,
           Previewed(o, plan), PlanSound(plan), NoCommit, World, NoHistory
    PROVE  PlanInv'
<1>1. OperationsKeep /\ RowsKeep
  BY OperationEnds, RowsRest DEF PlanInv, Previewed, World, NoHistory
<1>2. plans' = plans \/ plans' = [plans EXCEPT ![o] = plan]
  BY DEF Previewed
<1>3. /\ PlansSound' /\ PlansKeep
      /\ \A n \in Operation \ {o} : plans[n] = None => plans'[n] = None
  <2>1. \A other : PlanSound(other)' <=> PlanSound(other)
    BY DEF PlanSound, Active, NoCommit
  <2>2. \A n \in Operation : plans[n] # None => SaysTheSame(plans[n], plans[n]) /\ PlanSound(plans[n])
    BY DEF PlanInv, PlansSound, PlanSound, SaysTheSame
  <2>3. \A n \in Operation : plans'[n] = plans[n] \/ (n = o /\ plans'[n] = plan)
    BY <1>2 DEF PlanInv, PlanTypes
  <2> QED BY <2>1, <2>2, <2>3 DEF PlansSound, PlansKeep, SamePlan
<1>4. PlanTypes' /\ GenerationsSound' /\ GenerationsKeep
  BY <1>1, <1>2 DEF Previewed, Ends, OperationsKeep, PlanInv, PlanTypes, GenerationsSound,
                    GenerationsKeep, NoCommit, World, NoHistory
<1>5. \A n \in Operation \ {o} : JobSound(n)' /\ IdSound(n)'
  BY <1>1, <1>3, <1>4, JobRests DEF Previewed, Ends, PlanInv, PlanTypes, NoHistory
<1>6. JobSound(o)' /\ IdSound(o)'
  <2>1. jobs'[o] = None /\ operations'[o] # None
    BY <1>1 DEF Previewed, Ends, PlanInv, PlanTypes, JobsSound, IdSound, OperationsKeep
  <2> QED BY <2>1 DEF JobSound, IdSound
<1> QED BY <1>3, <1>4, <1>5, <1>6 DEF PlanInv, JobsSound

LEMMA JobFacts ==
    ASSUME PlanInv, NEW o \in Operation, NEW step, At(o, step)
    PROVE  /\ jobs[o] # None /\ jobs[o].step = step /\ BaseSound(jobs[o])
           /\ PreviewSound(o, jobs[o]) /\ ApplySound(o, jobs[o])
           /\ IdSound(o) /\ operations[o] # None
  BY DEF PlanInv, JobsSound, JobSound, At, IdSound

\* What a task knows after a step of its own.
LEMMA JobGoesOn ==
    ASSUME NEW job \in JobRecord,
           NEW step \in {"bind", "enumerate", "materialize", "install", "pruned"}
    PROVE  LET next == [job EXCEPT !.step = step] IN
             /\ next \in JobRecord /\ next.step = step /\ next.plugin = job.plugin
             /\ next.plan = job.plan /\ next.commit = job.commit /\ next.base = job.base
             /\ next.generation = job.generation /\ next.consent = job.consent
             /\ next.target = job.target /\ next.blocked = job.blocked
<1>1. [job EXCEPT !.step = step] \in JobRecord
  BY DEF JobRecord, PreviewSteps, StageSteps, RemovalSteps
<1> QED BY <1>1 DEF JobRecord

LEMMA JobBinds ==
    ASSUME NEW job \in JobRecord, NEW commit \in Commit
    PROVE  LET next == [job EXCEPT !.step = "bind", !.commit = commit] IN
             /\ next \in JobRecord /\ next.step = "bind" /\ next.plugin = job.plugin
             /\ next.plan = job.plan /\ next.commit = commit /\ next.base = job.base
             /\ next.generation = job.generation
<1>1. [job EXCEPT !.step = "bind"] \in JobRecord
  BY JobGoesOn
<1>2. commit \in 0..MaxCommit
  BY CommitAssumption DEF Commit
<1>3. \A other \in JobRecord : [other EXCEPT !.commit = commit] \in JobRecord
  BY <1>2 DEF JobRecord
<1>4. [job EXCEPT !.step = "bind", !.commit = commit]
        = [[job EXCEPT !.step = "bind"] EXCEPT !.commit = commit]
  OBVIOUS
<1>5. [job EXCEPT !.step = "bind", !.commit = commit] \in JobRecord
  BY <1>1, <1>3, <1>4
<1> QED BY <1>5 DEF JobRecord

LEMMA JobTargets ==
    ASSUME NEW job \in JobRecord, NEW target \in Declaration
    PROVE  LET next == [job EXCEPT !.step = "enumerate", !.target = target] IN
             /\ next \in JobRecord /\ next.step = "enumerate" /\ next.plugin = job.plugin
             /\ next.plan = job.plan /\ next.commit = job.commit /\ next.base = job.base
             /\ next.generation = job.generation /\ next.target = target
<1>1. [job EXCEPT !.step = "enumerate"] \in JobRecord
  BY JobGoesOn
<1>3. \A other \in JobRecord : [other EXCEPT !.target = target] \in JobRecord
  BY DEF JobRecord
<1>4. [job EXCEPT !.step = "enumerate", !.target = target]
        = [[job EXCEPT !.step = "enumerate"] EXCEPT !.target = target]
  OBVIOUS
<1>5. [job EXCEPT !.step = "enumerate", !.target = target] \in JobRecord
  BY <1>1, <1>3, <1>4
<1> QED BY <1>5 DEF JobRecord

\* What is declared after an install or a removal is a declaration.
LEMMA TargetsAreDeclarations ==
    ASSUME NEW declared \in Declaration, NEW p
    PROVE  /\ PrunedDeclaration(declared, p) \in Declaration
           /\ \A c \in 0..MaxCommit : TargetDeclaration(declared, p, c) \in Declaration
<1>1. 0 \in 0..MaxCommit
  BY CommitAssumption
<1> QED BY <1>1 DEF PrunedDeclaration, TargetDeclaration, Declaration

LEMMA SoundNow ==
    ASSUME NEW o, NEW job, jobs'[o] = job, BaseSound(job), PreviewSound(o, job),
           ApplySound(o, job),
           UNCHANGED <<plans, generations, environment, operations, userPatch, late, unseen, ran>>
    PROVE  JobSound(o)'
<1>1. BaseSound(jobs[o])'
  BY DEF BaseSound
<1>2. BaseDeclared(jobs[o])' = BaseDeclared(job)
  BY DEF BaseDeclared
<1>3. PreviewSound(o, jobs[o])'
  BY <1>2 DEF PreviewSound
<1>4. ApplySound(o, jobs[o])'
  BY <1>2 DEF ApplySound
<1> QED BY <1>1, <1>3, <1>4 DEF JobSound

\* A task goes on to its next await.
LEMMA TaskAdvances ==
    ASSUME PlanInv, NEW o \in Operation, jobs[o] # None, NEW job, Awaits(o, job),
           UNCHANGED <<plans, generations, environment, upstream, userPatch, late, unseen>>,
           ran' = [ran EXCEPT ![o] = ran'[o]], JobSound(o)'
    PROVE  PlanInv' 
<1>1. OperationsKeep /\ RowsKeep
  BY OperationsRest, RowsRest DEF PlanInv, Awaits
<1>2. IdSound(o)'
  BY <1>1 DEF PlanInv, JobsSound, IdSound, OperationsKeep
<1>3. jobs' = [jobs EXCEPT ![o] = jobs'[o]]
  BY DEF Awaits, PlanInv, PlanTypes
<1> QED BY <1>1, <1>2, <1>3, TaskMoves

LEMMA PreviewBegins ==
    ASSUME PlanInv, NEW o \in Operation,
           \/ \E p \in Plugin : PreviewInstall(o, p)
           \/ \E p \in Plugin \cup InBox : PreviewRemoval(o, p)
    PROVE  PlanInv'
<1>1. operations[o] = None /\ RowsKeep /\ ran[o] = {} /\ plans[o] = None
      /\ UNCHANGED <<plans, generations, environment, upstream, ran>>
  BY RowsRest DEF PreviewInstall, PreviewRemoval, NextOperation, PlanInv, JobsSound, IdSound,
                  NoPlan, NoCommit, World, NoHistory
<1>2. ASSUME NEW job, Started(o, "preview", job), job \in JobRecord,
             job.base = environment.revision, job.generation = environment.active,
             job.step \in {"resolve", "prune"}, job.plan = 0, job.plugin \in Plugin,
             job.commit = 0,
             job.step = "prune" =>
                 job.target = PrunedDeclaration(Active.declared, job.plugin)
      PROVE  PlanInv'
  <2>1. jobs'[o] = job /\ Started(o, "preview", jobs'[o])
    BY <1>2 DEF Started, PlanInv, PlanTypes
  <2>2. BaseSound(jobs[o])'
    BY <1>1, <1>2, <2>1, Captured DEF PreviewSteps
  <2>3. PreviewSound(o, jobs[o])' /\ ApplySound(o, jobs[o])'
    BY <1>1, <1>2, <2>1, CommitAssumption DEF PreviewSound, ApplySound, PreviewSteps,
       StageSteps, RemovalSteps, BaseDeclared, Active
  <2>4. JobSound(o)'
    BY <2>2, <2>3 DEF JobSound
  <2> QED BY <1>1, <2>1, <2>4, TaskBegins
<1>3. CASE \E p \in Plugin : PreviewInstall(o, p)
  <2>1. PICK p \in Plugin : PreviewInstall(o, p)
    BY <1>3
  <2>2. LET job == Job("resolve", p, 0) IN
          /\ job \in JobRecord
          /\ job.base = environment.revision /\ job.generation = environment.active
          /\ job.step = "resolve" /\ job.plan = 0 /\ job.plugin = p /\ job.commit = 0
    BY JobAtFirst DEF PreviewSteps
  <2> QED BY <1>2, <2>1, <2>2 DEF PreviewInstall
<1>4. CASE \E p \in Plugin \cup InBox : PreviewRemoval(o, p)
  <2>1. PICK p \in Plugin \cup InBox : PreviewRemoval(o, p)
    BY <1>4
  <2> DEFINE found == Blocking(Active.declared, userPatch, hidden, p)
             job == [Job("prune", p, 0) EXCEPT
                       !.target = PrunedDeclaration(Active.declared, p), !.blocked = found]
  <2>2. CASE FailedAtOnce(o, "preview")
    BY <1>1, <2>2, TaskBegins
  <2>3. CASE Removable(Active.declared, p) /\ ~Builtin(p) /\ Started(o, "preview", job)
    <3>1. p \in Plugin
      BY <2>3 DEF Removable
    <3>2. found \in BOOLEAN
      BY DEF Blocking
    <3> HIDE DEF found
    <3>4. Active.declared \in Declaration
      BY DEF Active, PlanInv, PlanTypes, GenerationsSound, Sound
    <3>5. PrunedDeclaration(Active.declared, p) \in Declaration
      BY <3>4, TargetsAreDeclarations
    <3>6. /\ Job("prune", p, 0) \in JobRecord
      BY <3>1, JobAtFirst DEF PreviewSteps
    <3>3. /\ job \in JobRecord
          /\ job.base = environment.revision /\ job.generation = environment.active
          /\ job.step = "prune" /\ job.plan = 0 /\ job.plugin = p /\ job.commit = 0
          /\ job.target = PrunedDeclaration(Active.declared, p)
      BY <3>1, <3>2, <3>5, <3>6, JobAtFirst DEF Job, JobRecord, PreviewSteps
    <3> HIDE DEF job
    <3> QED BY <1>2, <2>3, <3>1, <3>3
  <2> QED BY <2>1, <2>2, <2>3 DEF PreviewRemoval
<1> QED BY <1>3, <1>4

LEMMA PreviewResolves ==
    ASSUME PlanInv, NEW o \in Operation,
           SourceResolved(o) \/ TargetResolved(o) \/ PreviewFails(o)
    PROVE  PlanInv'
<1>1. UNCHANGED <<plans, generations, environment, upstream, userPatch, late, unseen, ran>> /\ RowsKeep
  BY RowsRest DEF SourceResolved, TargetResolved, PreviewFails, NoPlan, NoCommit, World, Outside,
                  NoHistory
<1>2. CASE SourceResolved(o)
  <2> DEFINE next == [jobs[o] EXCEPT !.step = "bind", !.commit = upstream[jobs[o].plugin]]
  <2>1. Awaits(o, next) /\ At(o, "resolve")
    BY <1>2 DEF SourceResolved
  <2>2. jobs'[o] = next
    BY <2>1 DEF Awaits, PlanInv, PlanTypes
  <2>3. jobs[o].plugin \in Plugin /\ upstream[jobs[o].plugin] \in Commit
    BY <2>1, JobFacts DEF PreviewSound, PreviewSteps, PlanInv, PlanTypes
  <2>4. jobs[o] \in JobRecord
    BY <2>1, JobFacts DEF BaseSound
  <2>5. /\ next \in JobRecord /\ next.step = "bind" /\ next.commit \in Commit
        /\ next.plugin = jobs[o].plugin /\ next.plan = jobs[o].plan /\ next.base = jobs[o].base
        /\ next.generation = jobs[o].generation
    BY <2>3, <2>4, JobBinds
  <2> HIDE DEF next
  <2>6. BaseSound(next) /\ PreviewSound(o, next) /\ ApplySound(o, next)
    BY <2>1, <2>5, JobFacts, CommitAssumption DEF BaseSound, PreviewSound, ApplySound,
       PreviewSteps, StageSteps, RemovalSteps, Commit
  <2>7. JobSound(o)'
    BY <1>1, <2>1, <2>2, <2>6, SoundNow DEF Awaits
  <2> QED BY <1>1, <2>1, <2>7, TaskAdvances DEF At, PlanInv, PlanTypes
<1>3. CASE TargetResolved(o)
  <2> DEFINE next == [jobs[o] EXCEPT !.step = "enumerate", !.target =
                        TargetDeclaration(generations[jobs[o].generation].declared,
                                          jobs[o].plugin, jobs[o].commit)]
  <2>1. At(o, "bind")
    BY <1>3 DEF TargetResolved
  <2>2. CASE Awaits(o, next)
    <3>1. jobs'[o] = next
      BY <2>2 DEF Awaits, PlanInv, PlanTypes
    <3>2. jobs[o] \in JobRecord
      BY <2>1, JobFacts DEF BaseSound
    <3>6. TargetDeclaration(BaseDeclared(jobs[o]), jobs[o].plugin, jobs[o].commit) \in Declaration
      <4>1. jobs[o].commit \in 0..MaxCommit /\ BaseDeclared(jobs[o]) \in Declaration
        BY <2>1, JobFacts DEF BaseSound, JobRecord, BaseDeclared, PlanInv, GenerationsSound, Sound
      <4> QED BY <4>1, TargetsAreDeclarations
    <3>3. /\ next \in JobRecord /\ next.step = "enumerate" /\ next.commit = jobs[o].commit
          /\ next.target = TargetDeclaration(BaseDeclared(jobs[o]), jobs[o].plugin, jobs[o].commit)
          /\ next.plugin = jobs[o].plugin /\ next.plan = jobs[o].plan /\ next.base = jobs[o].base
          /\ next.generation = jobs[o].generation
      BY <3>2, <3>6, JobTargets DEF BaseDeclared
    <3> HIDE DEF next
    <3>4. BaseSound(next) /\ PreviewSound(o, next) /\ ApplySound(o, next)
      BY <2>1, <3>3, JobFacts, CommitAssumption DEF BaseSound, PreviewSound, ApplySound,
         PreviewSteps, StageSteps, RemovalSteps, Commit, BaseDeclared
    <3>5. JobSound(o)'
      BY <1>1, <2>2, <3>1, <3>4, SoundNow DEF Awaits
    <3> QED BY <1>1, <2>1, <2>2, <3>5, TaskAdvances DEF At, PlanInv, PlanTypes
  <2>3. CASE Ends(o, "failed")
    BY <1>1, <2>1, <2>3, TaskDone DEF At
  <2> QED BY <1>3, <2>2, <2>3 DEF TargetResolved
<1>4. CASE PreviewFails(o)
  BY <1>1, <1>4, TaskDone DEF PreviewFails, At
<1> QED BY <1>2, <1>3, <1>4

LEMMA PreviewEnds ==
    ASSUME PlanInv, NEW o \in Operation, SourcePreviewed(o) \/ RemovalPreviewed(o)
    PROVE  PlanInv'
<1> DEFINE job == jobs[o]
<1>1. At(o, "enumerate") \/ At(o, "prune")
  BY DEF SourcePreviewed, RemovalPreviewed
<1>2. /\ jobs[o] # None /\ BaseSound(job) /\ PreviewSound(o, job) /\ plans[o] = None
      /\ job.plugin \in Plugin /\ job.step \in PreviewSteps
  BY <1>1, JobFacts DEF PreviewSound, PreviewSteps
<1>3. /\ job \in JobRecord /\ BaseDeclared(job) \in Declaration
      /\ job.commit \in 0..MaxCommit /\ job.base \in Nat /\ job.target \in Declaration
      /\ job.blocked \in BOOLEAN /\ job.base <= environment.revision
      /\ job.base = environment.revision => BaseDeclared(job) = Active.declared
  BY <1>2 DEF BaseSound, JobRecord, BaseDeclared, PlanInv, GenerationsSound, Sound, Active
<1>4. CASE SourcePreviewed(o)
  <2>1. PICK complete \in {Interpretable(job.target), FALSE} :
          LET scripts == OwnScripts(job.plugin, job.commit) \cup
                  (IF complete THEN EnumeratedScripts(job.target, job.plugin) ELSE {})
          IN Previewed(o, [Plan(job, "install", job.target) EXCEPT
                 !.scripts = scripts,
                 !.assessment = Assessment(job.plugin, job.commit, scripts, complete),
                 !.requires = RequiresAuthorization(job.plugin, job.commit, scripts,
                                                    complete)])
    BY <1>4 DEF SourcePreviewed
  <2> DEFINE scripts == OwnScripts(job.plugin, job.commit) \cup
                 (IF complete THEN EnumeratedScripts(job.target, job.plugin) ELSE {})
             assessed == Assessment(job.plugin, job.commit, scripts, complete)
             required == RequiresAuthorization(job.plugin, job.commit, scripts, complete)
             plan == [Plan(job, "install", job.target) EXCEPT !.scripts = scripts,
                        !.assessment = assessed, !.requires = required]
  <2>2. /\ job.commit \in Commit
        /\ job.target = TargetDeclaration(BaseDeclared(job), job.plugin, job.commit)
        /\ At(o, "enumerate")
    BY <1>4, JobFacts DEF SourcePreviewed, PreviewSound
  <2>3. scripts \subseteq AllBuilds(job.target, None)
    <3>1. job.plugin \in Declared(job.target) /\ job.target[job.plugin] = job.commit
      BY <1>2, <1>3, <2>2, CommitAssumption DEF TargetDeclaration, Declared, Declaration, Commit
    <3> QED BY <3>1, EnumeratedAreBuilds, OwnAreBuilds
  <2>4. scripts \subseteq ScriptRecord
    BY <1>3, <2>3, BuildsAreRecords
  <2>5. assessed \in {"detected", "none-detected", "unknown"}
    BY DEF Assessment, SourceAssessment
  <2>6. required \in BOOLEAN
    BY DEF RequiresAuthorization
  <2>7. plan \in PlanRecord
    <3> HIDE DEF scripts, assessed, required
    <3>1. Plan(job, "install", job.target) \in PlanRecord
      BY <1>2, <1>3 DEF Plan, PlanRecord
    <3>2. \A other \in PlanRecord : [other EXCEPT !.scripts = scripts] \in PlanRecord
      BY <2>4 DEF PlanRecord, ScriptRecord
    <3>3. \A other \in PlanRecord : [other EXCEPT !.assessment = assessed] \in PlanRecord
      BY <2>5 DEF PlanRecord
    <3>4. \A other \in PlanRecord : [other EXCEPT !.requires = required] \in PlanRecord
      BY <2>6 DEF PlanRecord
    <3>5. plan = [[[Plan(job, "install", job.target) EXCEPT !.scripts = scripts]
                     EXCEPT !.assessment = assessed] EXCEPT !.requires = required]
      OBVIOUS
    <3> QED BY <3>1, <3>2, <3>3, <3>4, <3>5
  <2>8. /\ plan.kind = "install" /\ plan.plugin = job.plugin /\ plan.base = job.base
        /\ plan.commit = job.commit /\ plan.target = job.target /\ plan.scripts = scripts
    <3> HIDE DEF scripts, assessed, required
    <3> QED BY DEF Plan
  <2>9. Previewed(o, plan)
    BY <2>1
  <2> HIDE DEF plan, scripts
  <2>10. PlanSound(plan)
    BY <1>3, <2>2, <2>3, <2>7, <2>8 DEF PlanSound, Intended
  <2> QED BY <1>2, <1>4, <2>9, <2>10, PlanMade DEF SourcePreviewed, Outside
<1>5. CASE RemovalPreviewed(o)
  <2> DEFINE plan == Plan(job, "remove", job.target)
  <2>1. plan \in PlanRecord
    BY <1>2, <1>3 DEF Plan, PlanRecord
  <2>2. /\ plan.kind = "remove" /\ plan.plugin = job.plugin /\ plan.base = job.base
        /\ plan.target = job.target /\ plan.scripts = {}
    BY DEF Plan
  <2>3. job.target = PrunedDeclaration(BaseDeclared(job), job.plugin)
    BY <1>5, JobFacts DEF RemovalPreviewed, PreviewSound
  <2>4. Previewed(o, plan)
    BY <1>5 DEF RemovalPreviewed
  <2> HIDE DEF plan
  <2>5. PlanSound(plan)
    BY <1>3, <2>1, <2>2, <2>3 DEF PlanSound, Intended
  <2> QED BY <1>2, <1>5, <2>4, <2>5, PlanMade DEF RemovalPreviewed, Outside
<1> QED BY <1>4, <1>5

LEMMA PreviewStepsKeep == ASSUME PlanInv, PreviewNext PROVE PlanInv'
<1> PICK o \in Operation :
      \/ \E p \in Plugin : PreviewInstall(o, p)
      \/ \E p \in Plugin \cup InBox : PreviewRemoval(o, p)
      \/ SourceResolved(o) \/ TargetResolved(o) \/ SourcePreviewed(o)
      \/ RemovalPreviewed(o) \/ PreviewFails(o) \/ CancelPreview(o)
  BY DEF PreviewNext
<1>1. CASE CancelPreview(o)
  BY <1>1, Cancelled DEF CancelPreview
<1> QED BY <1>1, PreviewBegins, PreviewResolves, PreviewEnds

LEMMA InstallBeginsSound ==
    ASSUME PlanInv, NEW o \in Operation, NEW n \in Operation, plans[n] # None,
           NEW consent \in Confirmed(plans[n]), ApplyInstall(o, n, consent)
    PROVE  PlanInv'
<1> DEFINE job == [Job("verify", plans[n].plugin, n) EXCEPT
                     !.target = caches[n], !.consent = consent]
<1>1. /\ operations[o] = None /\ ran[o] = {} /\ RowsKeep
      /\ UNCHANGED <<plans, generations, environment, upstream, ran>>
  BY DEF ApplyInstall, NextOperation, PlanInv, JobsSound, IdSound, RowsKeep, NoPlan, NoCommit,
         World
<1>2. CASE FailedAtOnce(o, "apply")
  BY <1>1, <1>2, TaskBegins
<1>3. CASE Cached(n) /\ Started(o, "apply", job)
  <2>1. /\ PlanSound(plans[n]) /\ plans[n].kind = "install" /\ caches[n] = plans[n].target
        /\ plans[n].base = environment.revision
        /\ consent # None => consent = Consent(plans[n].commit, plans[n].scripts)
    BY <1>3 DEF ApplyInstall, Appliable, Authorized, RevisionAgrees, Expected, Cached, PlanInv,
                PlansSound
  <2>2. /\ plans[n].plugin \in Plugin /\ caches[n] \in Declaration
        /\ plans[n].commit \in 0..MaxCommit /\ plans[n].scripts \subseteq ScriptRecord
    BY <2>1 DEF PlanSound, PlanRecord, ScriptRecord
  <2>3. consent \in {None} \cup [commit: 0..MaxCommit, scripts: SUBSET ScriptRecord]
    BY <2>1, <2>2 DEF Consent
  <2>4. Job("verify", plans[n].plugin, n) \in JobRecord
    BY <2>2, JobAtFirst DEF StageSteps
  <2>5. job \in JobRecord
    <3>1. \A other \in JobRecord : [other EXCEPT !.target = caches[n]] \in JobRecord
      BY <2>2 DEF JobRecord
    <3>2. \A other \in JobRecord : [other EXCEPT !.consent = consent] \in JobRecord
      BY <2>3 DEF JobRecord
    <3>3. job = [[Job("verify", plans[n].plugin, n) EXCEPT !.target = caches[n]]
                   EXCEPT !.consent = consent]
      OBVIOUS
    <3> QED BY <2>4, <3>1, <3>2, <3>3
  <2>6. /\ job.step = "verify" /\ job.plugin = plans[n].plugin /\ job.plan = n
        /\ job.base = environment.revision /\ job.generation = environment.active
        /\ job.target = plans[n].target /\ job.consent = consent
    BY <2>1 DEF Job
  <2>7. jobs'[o] = job /\ Started(o, "apply", jobs'[o]) /\ operations'[o].kind = "apply"
    BY <1>3 DEF Started, PlanInv, PlanTypes
  <2> HIDE DEF job
  <2>8. BaseSound(jobs[o])'
    BY <1>1, <2>5, <2>6, <2>7, Captured
  <2>9. PreviewSound(o, jobs[o])' /\ ApplySound(o, jobs[o])'
    BY <1>1, <2>1, <2>6, <2>7 DEF PreviewSound, ApplySound, PreviewSteps, StageSteps,
                                  RemovalSteps
  <2>10. JobSound(o)'
    BY <2>8, <2>9 DEF JobSound
  <2> QED BY <1>1, <2>7, <2>10, TaskBegins
<1> QED BY <1>2, <1>3 DEF ApplyInstall

LEMMA RemovalBegins ==
    ASSUME PlanInv, NEW o \in Operation, NEW n \in Operation, ApplyRemoval(o, n)
    PROVE  PlanInv'
<1> DEFINE p == plans[n].plugin
           found == Blocking(Active.declared, userPatch, hidden, p)
           pruned == PrunedDeclaration(Active.declared, p)
           job == [Job("repeat", p, n) EXCEPT !.target = pruned, !.blocked = found]
<1>1. /\ operations[o] = None /\ ran[o] = {} /\ RowsKeep
      /\ UNCHANGED <<plans, generations, environment, upstream, ran>>
  BY DEF ApplyRemoval, NextOperation, PlanInv, JobsSound, IdSound, RowsKeep, NoPlan, NoCommit,
         World
<1>2. CASE FailedAtOnce(o, "apply")
  BY <1>1, <1>2, TaskBegins
<1>3. CASE Started(o, "apply", job)
  <2>1. /\ plans[n] # None /\ PlanSound(plans[n]) /\ plans[n].base = environment.revision
    BY <1>3 DEF ApplyRemoval, Appliable, RevisionAgrees, Expected, PlanInv, PlansSound
  <2>2. p \in Plugin /\ pruned \in Declaration
    <3>1. Active.declared \in Declaration
      BY DEF Active, PlanInv, PlanTypes, GenerationsSound, Sound
    <3> QED BY <2>1, <3>1, TargetsAreDeclarations DEF PlanSound, PlanRecord
  <2>3. found \in BOOLEAN
    BY DEF Blocking
  <2>4. found \/ ~Blocking(Active.declared, userPatch' \ late', unseen', p)
    BY FewerRows DEF ApplyRemoval, World
  <2> HIDE DEF found
  <2>5. Job("repeat", p, n) \in JobRecord
    BY <2>2, JobAtFirst DEF RemovalSteps
  <2>6. job \in JobRecord
    <3>1. \A other \in JobRecord : [other EXCEPT !.target = pruned] \in JobRecord
      BY <2>2 DEF JobRecord
    <3>2. \A other \in JobRecord : [other EXCEPT !.blocked = found] \in JobRecord
      BY <2>3 DEF JobRecord
    <3>3. job = [[Job("repeat", p, n) EXCEPT !.target = pruned] EXCEPT !.blocked = found]
      OBVIOUS
    <3> QED BY <2>5, <3>1, <3>2, <3>3
  <2>7. /\ job.step = "repeat" /\ job.plugin = p /\ job.plan = n
        /\ job.base = environment.revision /\ job.generation = environment.active
        /\ job.target = pruned /\ job.blocked = found
    BY <2>3 DEF Job
  <2>8. jobs'[o] = job /\ Started(o, "apply", jobs'[o]) /\ operations'[o].kind = "apply"
    BY <1>3 DEF Started, PlanInv, PlanTypes
  <2> HIDE DEF job
  <2>9. BaseSound(jobs[o])'
    BY <1>1, <2>6, <2>7, <2>8, Captured
  <2>10. BaseDeclared(jobs[o])' = Active.declared
    BY <1>1, <2>7, <2>8 DEF BaseDeclared, Active
  <2>11. PreviewSound(o, jobs[o])' /\ ApplySound(o, jobs[o])'
    BY <1>1, <2>1, <2>4, <2>7, <2>8, <2>10 DEF PreviewSound, ApplySound, PreviewSteps,
       StageSteps, RemovalSteps
  <2>12. JobSound(o)'
    BY <2>9, <2>11 DEF JobSound
  <2> QED BY <1>1, <2>8, <2>12, TaskBegins
<1> QED BY <1>2, <1>3 DEF ApplyRemoval

\* A stage goes on, with what its install may run.
LEMMA StageGoesOn ==
    ASSUME PlanInv, NEW o \in Operation, At(o, "verify") \/ At(o, "materialize"),
           NEW step \in {"materialize", "install"},
           Awaits(o, [jobs[o] EXCEPT !.step = step]), NoPlan, NoCommit, Outside,
           UNCHANGED <<late, unseen>>,
           \/ ran' = ran
           \/ /\ ran' = [ran EXCEPT ![o] = AllowedBuilds(jobs[o].target, jobs[o].consent)]
              /\ jobs[o].consent # None
    PROVE  PlanInv'
<1> DEFINE job == jobs[o]
           next == [job EXCEPT !.step = step]
<1>1. /\ jobs[o] # None /\ BaseSound(job) /\ PreviewSound(o, job) /\ ApplySound(o, job)
      /\ job.step \in StageSteps /\ job \in JobRecord
  BY JobFacts DEF StageSteps, BaseSound
<1>8. job \in JobRecord /\ step \in {"bind", "enumerate", "materialize", "install", "pruned"}
  BY <1>1
<1>2. /\ next \in JobRecord /\ next.step = step /\ next.plugin = job.plugin
      /\ next.plan = job.plan /\ next.base = job.base /\ next.generation = job.generation
      /\ next.consent = job.consent /\ next.target = job.target
  <2>1. \A r \in JobRecord : [r EXCEPT !.step = step] \in JobRecord
    BY DEF JobRecord, StageSteps
  <2>2. next \in JobRecord
    BY <1>8, <2>1
  <2> QED BY <1>8, <2>2 DEF JobRecord
<1>3. jobs'[o] = next
  BY DEF Awaits, PlanInv, PlanTypes
<1>4. ran' = [ran EXCEPT ![o] = ran'[o]] /\ ran'[o] \subseteq plans[job.plan].scripts
  <2>1. CASE ran' = ran
    BY <1>1, <2>1 DEF ApplySound, PlanInv, PlanTypes
  <2>2. CASE /\ ran' = [ran EXCEPT ![o] = AllowedBuilds(job.target, job.consent)]
             /\ job.consent # None
    <3>1. /\ job.consent.scripts = plans[job.plan].scripts
          /\ job.target = plans[job.plan].target
          /\ plans[job.plan].scripts \subseteq AllBuilds(plans[job.plan].target, None)
      BY <1>1, <2>2 DEF ApplySound, Consent, PlanInv, PlansSound, PlanSound
    <3>2. AllowedBuilds(job.target, job.consent) \subseteq plans[job.plan].scripts
      BY <3>1, AllowedAreAuthorized
    <3> QED BY <2>2, <3>2 DEF PlanInv, PlanTypes
  <2> QED BY <2>1, <2>2
<1> HIDE DEF next
<1>5. BaseSound(jobs[o])'
  BY <1>1, <1>2, <1>3 DEF BaseSound, NoCommit
<1>6. PreviewSound(o, jobs[o])' /\ ApplySound(o, jobs[o])'
  BY <1>1, <1>2, <1>3, <1>4 DEF PreviewSound, ApplySound, PreviewSteps, StageSteps, RemovalSteps,
     NoPlan, Awaits
<1>7. JobSound(o)'
  BY <1>5, <1>6 DEF JobSound
<1> QED BY <1>1, <1>4, <1>7, TaskAdvances DEF NoPlan, NoCommit, Outside, World

LEMMA StageSteady ==
    ASSUME PlanInv, NEW o \in Operation,
           StageVerified(o) \/ StageEnumerated(o) \/ RemovalVerified(o) \/ ApplyFails(o)
    PROVE  PlanInv'
<1> DEFINE job == jobs[o]
           plan == plans[job.plan]
<1>1. ASSUME Ends(o, "failed"), jobs[o] # None, NoPlan, NoCommit, Outside,
             UNCHANGED <<ran, late, unseen>>
      PROVE  PlanInv'
  BY <1>1, TaskDone, RowsRest DEF NoPlan, NoCommit, Outside, World
<1>2. CASE StageVerified(o)
  <2> DEFINE decision == Decision(job.consent, plan.commit, SourceAssessment(job.plugin, plan.commit),
                                  OwnScripts(job.plugin, plan.commit),
                                  ~Manifest[job.plugin][plan.commit].dependencies)
  <2>1. /\ At(o, "verify") /\ jobs[o] # None /\ NoPlan /\ NoCommit /\ Outside
        /\ UNCHANGED <<late, unseen>>
        /\ \/ Ends(o, "failed") /\ UNCHANGED ran
           \/ Awaits(o, [job EXCEPT !.step = "materialize"]) /\ UNCHANGED ran
           \/ Awaits(o, [job EXCEPT !.step = "install"]) /\ UNCHANGED ran
           \/ /\ Awaits(o, [job EXCEPT !.step = "install"]) /\ decision = "allow"
              /\ ran' = [ran EXCEPT ![o] = AllowedBuilds(job.target, job.consent)]
    BY <1>2 DEF StageVerified, At
  <2>2. decision = "allow" => job.consent # None
    BY AllowMeansConsent
  <2> HIDE DEF decision
  <2>3. CASE Ends(o, "failed") /\ UNCHANGED ran
    BY <1>1, <2>1, <2>3
  <2>4. CASE Awaits(o, [job EXCEPT !.step = "materialize"]) /\ UNCHANGED ran
    BY <2>1, <2>4, StageGoesOn
  <2>5. CASE Awaits(o, [job EXCEPT !.step = "install"]) /\ UNCHANGED ran
    BY <2>1, <2>5, StageGoesOn
  <2>6. CASE /\ Awaits(o, [job EXCEPT !.step = "install"]) /\ decision = "allow"
             /\ ran' = [ran EXCEPT ![o] = AllowedBuilds(job.target, job.consent)]
    BY <2>1, <2>2, <2>6, StageGoesOn
  <2> QED BY <2>1, <2>3, <2>4, <2>5, <2>6, Zenon
<1>3. CASE StageEnumerated(o)
  <2> DEFINE decision == Decision(job.consent, plan.commit, "detected",
                                  OwnScripts(job.plugin, plan.commit)
                                  \cup EnumeratedScripts(job.target, job.plugin), TRUE)
  <2>1. /\ At(o, "materialize") /\ NoPlan /\ NoCommit /\ Outside
        /\ UNCHANGED <<late, unseen>>
        /\ Awaits(o, [job EXCEPT !.step = "install"]) /\ decision # "refused"
        /\ ran' = IF decision = "deny" THEN ran
                  ELSE [ran EXCEPT ![o] = AllowedBuilds(job.target, job.consent)]
    BY <1>3 DEF StageEnumerated
  <2>2. decision # "refused" /\ decision # "deny" => job.consent # None
    BY DEF Decision
  <2> HIDE DEF decision
  <2> QED BY <2>1, <2>2, StageGoesOn
<1>4. CASE RemovalVerified(o)
  <2> DEFINE next == [job EXCEPT !.step = "pruned"]
  <2>1. /\ At(o, "repeat") /\ jobs[o] # None /\ BaseSound(job) /\ PreviewSound(o, job)
        /\ ApplySound(o, job) /\ job.step = "repeat" /\ job \in JobRecord
    BY <1>4, JobFacts DEF RemovalVerified, BaseSound
  <2>2. UNCHANGED <<plans, generations, environment, upstream, userPatch, late, unseen, ran>>
    BY <1>4 DEF RemovalVerified, NoPlan, NoCommit, Outside, World, NoHistory
  <2>3. CASE ~job.blocked /\ Awaits(o, next)
    <3>1. /\ next \in JobRecord /\ next.step = "pruned" /\ next.plugin = job.plugin
          /\ next.plan = job.plan /\ next.base = job.base /\ next.generation = job.generation
          /\ next.target = job.target
      BY <2>1, JobGoesOn
    <3>2. jobs'[o] = next /\ UNCHANGED operations
      BY <2>3 DEF Awaits, PlanInv, PlanTypes
    <3> HIDE DEF next
    <3>3. BaseSound(next) /\ BaseDeclared(next) = BaseDeclared(job)
      BY <2>1, <3>1 DEF BaseSound, BaseDeclared
    <3>4. PreviewSound(o, next) /\ ApplySound(o, next)
      BY <2>1, <2>3, <3>1, <3>3 DEF PreviewSound, ApplySound, PreviewSteps, StageSteps, RemovalSteps
    <3>5. JobSound(o)'
      BY <2>2, <3>2, <3>3, <3>4, SoundNow
    <3> QED BY <2>1, <2>2, <2>3, <3>5, TaskAdvances DEF PlanInv, PlanTypes
  <2>4. CASE Ends(o, "failed")
    BY <2>1, <2>2, <2>4, TaskDone, RowsRest
  <2> QED BY <1>4, <2>3, <2>4 DEF RemovalVerified, ResolvedAgain
<1>5. CASE ApplyFails(o)
  BY <1>1, <1>5 DEF ApplyFails, At, NoHistory
<1> QED BY <1>2, <1>3, <1>4, <1>5

\* The commit point.
LEMMA GenerationCommits ==
    ASSUME PlanInv, NEW o \in Operation, NEW recorded, NEW target, jobs[o] # None,
           jobs[o].step \in StageSteps \cup RemovalSteps,
           Commits(o, recorded, target), World, NoHistory,
           environment.revision = plans[jobs[o].plan].base =>
               /\ Sound([recorded |-> recorded, declared |-> target])
               /\ \A r \in recorded : target[r[1]] = r[2]
                     \/ \E g \in DOMAIN generations : r \in generations[g].recorded
    PROVE  PlanInv'
<1> DEFINE n == jobs[o].plan
           G == [recorded |-> recorded, declared |-> target]
<1>1. CASE Ends(o, "failed") /\ NoCommit /\ NoPlan
  BY <1>1, TaskDone, RowsRest DEF NoCommit, NoPlan, World, NoHistory
<1>2. CASE /\ environment.revision = Expected(plans[n])
           /\ generations' = Append(generations, G)
           /\ environment' = [revision |-> environment.revision + 1,
                              active |-> Len(generations) + 1]
           /\ plans' = [plans EXCEPT ![n].consumed = TRUE]
           /\ Ends(o, "succeeded")
           /\ UNCHANGED caches
  <2>1. OperationsKeep /\ RowsKeep
    BY <1>2, OperationEnds, RowsRest DEF PlanInv, World, NoHistory
  <2>2. n \in Operation /\ plans[n] # None
    BY DEF PlanInv, JobsSound, JobSound, ApplySound
  <2>3. Sound(G) /\ G \in [recorded: SUBSET (Plugin \X Commit), declared: Declaration]
    BY <1>2 DEF Expected, Sound
  <2>12. \A r \in G.recorded : G.declared[r[1]] = r[2]
            \/ \E g \in DOMAIN generations : r \in generations[g].recorded
    BY <1>2 DEF Expected
  <2> HIDE DEF G
  <2>4. /\ generations' \in Seq([recorded: SUBSET (Plugin \X Commit), declared: Declaration])
        /\ DOMAIN generations' = 1..(Len(generations) + 1) /\ generations'[Len(generations) + 1] = G
        /\ Len(generations) \in Nat /\ DOMAIN generations = 1..Len(generations)
        /\ \A g \in 1..Len(generations) : generations'[g] = generations[g]
    BY <1>2, <2>3 DEF PlanInv, PlanTypes
  <2>5. /\ environment' \in [revision: Nat, active: Nat]
        /\ environment'.revision = environment.revision + 1 /\ environment.revision \in Nat
        /\ environment'.active = Len(generations) + 1
    BY <1>2, <2>4 DEF PlanInv, PlanTypes
  <2>6. GenerationsKeep /\ GenerationsSound'
    <3>1. GenerationsKeep
      BY <2>4, <2>5 DEF GenerationsKeep
    <3>2. \A g \in DOMAIN generations' : Sound(generations'[g])
      BY <2>3, <2>4 DEF GenerationsSound, PlanInv
    <3>3. ASSUME NEW g \in DOMAIN generations PROVE Traced(generations', g)
      <4>1. Traced(generations, g) /\ g \in 1..Len(generations) /\ Len(generations) \in Nat
        BY <2>4 DEF GenerationsSound, PlanInv
      <4>2. \A h \in 1..g : generations'[h] = generations[h]
        BY <2>4, <4>1
      <4> QED BY <2>4, <4>1, <4>2 DEF Traced
    <3>4. Traced(generations', Len(generations) + 1)
      <4> DEFINE k == Len(generations) + 1
      <4> SUFFICES ASSUME NEW r \in G.recorded
                   PROVE  \E h \in 1..k : generations'[h].declared[r[1]] = r[2]
        BY <2>4 DEF Traced
      <4>1. CASE G.declared[r[1]] = r[2]
        BY <2>4, <4>1
      <4>2. ASSUME NEW g \in DOMAIN generations, r \in generations[g].recorded
            PROVE  \E h \in 1..k : generations'[h].declared[r[1]] = r[2]
        <5>1. PICK h \in 1..g : generations[h].declared[r[1]] = r[2]
          BY <4>2 DEF GenerationsSound, PlanInv, Traced
        <5>2. h \in 1..k /\ generations'[h] = generations[h]
          BY <2>4, <5>1
        <5> QED BY <5>1, <5>2
      <4> QED BY <2>12, <4>1, <4>2
    <3>5. \A g \in DOMAIN generations' : Traced(generations', g)
      BY <2>4, <3>3, <3>4
    <3> QED BY <3>1, <3>2, <3>5 DEF GenerationsSound
  <2>7. /\ PlansKeep /\ plans' = [m \in Operation |-> plans'[m]]
        /\ \A m \in Operation : plans[m] = None <=> plans'[m] = None
    BY <1>2, <2>2, PlansFlagged DEF PlanInv
  <2>8. PlansSound'
    BY <2>5, <2>7, NoneAssumption DEF PlanInv, PlansSound, PlansKeep, SamePlan, SaysTheSame,
       PlanSound, PlanRecord
  <2>9. PlanTypes'
    <3>1. /\ jobs' = [m \in Operation |-> jobs'[m]] /\ ran' = [m \in Operation |-> ran'[m]]
          /\ upstream' \in [Plugin -> Commit]
      BY <1>2 DEF PlanInv, PlanTypes, Ends, World, NoHistory
    <3>2. environment'.active \in DOMAIN generations'
      BY <2>4, <2>5
    <3> QED BY <2>1, <2>4, <2>5, <2>7, <3>1, <3>2 DEF PlanTypes, OperationsKeep
  <2>10. \A m \in Operation \ {o} : JobSound(m)' /\ IdSound(m)'
    BY <1>2, <2>1, <2>6, <2>7, JobRests DEF Ends, PlanInv, PlanTypes, NoHistory
  <2>11. JobSound(o)' /\ IdSound(o)'
    <3>1. jobs'[o] = None /\ operations'[o] # None
      BY <1>2, <2>1 DEF Ends, PlanInv, PlanTypes, JobsSound, IdSound, OperationsKeep
    <3> QED BY <3>1 DEF JobSound, IdSound
  <2> QED BY <2>6, <2>8, <2>9, <2>10, <2>11 DEF PlanInv, JobsSound
<1> QED BY <1>1, <1>2 DEF Commits

\* What a commit of a plan that is still one for the active generation leaves.
LEMMA CommitFacts ==
    ASSUME PlanInv, NEW o \in Operation, At(o, "install") \/ At(o, "pruned"),
           environment.revision = plans[jobs[o].plan].base
    PROVE  LET job == jobs[o] IN
           /\ job.plugin \in Plugin /\ generations[job.generation] = Active /\ Sound(Active)
           /\ job.generation \in DOMAIN generations
           /\ At(o, "install") =>
                 /\ plans[job.plan].commit \in Commit
                 /\ job.target = TargetDeclaration(Active.declared, job.plugin,
                                                   plans[job.plan].commit)
           /\ At(o, "pruned") =>
                 /\ job.target = PrunedDeclaration(Active.declared, job.plugin)
                 /\ ~Blocking(Active.declared, userPatch \ late, unseen, job.plugin)
<1> DEFINE job == jobs[o]
           plan == plans[job.plan]
<1>1. /\ BaseSound(job) /\ PreviewSound(o, job) /\ ApplySound(o, job)
      /\ job.step \in StageSteps \cup RemovalSteps
  BY JobFacts DEF StageSteps, RemovalSteps
<1>2. PlanSound(plan) /\ job.plugin = plan.plugin /\ job.base = plan.base
  BY <1>1 DEF ApplySound, PlanInv, PlansSound
<1>3. job.plugin \in Plugin
  BY <1>2 DEF PlanSound, PlanRecord
<1>4. generations[job.generation] = Active
  BY <1>1, <1>2 DEF BaseSound, Active
<1>5. Sound(Active)
  BY DEF PlanInv, PlanTypes, GenerationsSound, Active
<1>6. ASSUME At(o, "install")
      PROVE  /\ plan.commit \in Commit
             /\ job.target = TargetDeclaration(Active.declared, job.plugin, plan.commit)
  <2>1. job.step = "install"
    BY <1>6, JobFacts
  <2>2. plan.kind = "install" /\ job.target = plan.target
    BY <1>1, <2>1 DEF ApplySound, StageSteps
  <2> QED BY <1>2, <2>2 DEF PlanSound, Intended
<1>7. ASSUME At(o, "pruned")
      PROVE  /\ job.target = PrunedDeclaration(Active.declared, job.plugin)
             /\ ~Blocking(Active.declared, userPatch \ late, unseen, job.plugin)
  <2>1. job.step = "pruned"
    BY <1>7, JobFacts
  <2> QED BY <1>1, <1>4, <2>1 DEF ApplySound, PreviewSound, RemovalSteps, BaseDeclared
<1> QED BY <1>1, <1>3, <1>4, <1>5, <1>6, <1>7 DEF BaseSound

LEMMA CommitStepsKeep ==
    ASSUME PlanInv, NEW o \in Operation, InstallCommits(o) \/ RemovalCommits(o)
    PROVE  PlanInv'
<1> DEFINE job == jobs[o]
           plan == plans[job.plan]
<1>1. CASE InstallCommits(o)
  <2> DEFINE recorded == generations[job.generation].recorded \cup {<<job.plugin, plan.commit>>}
  <2>1. /\ At(o, "install") /\ Commits(o, recorded, job.target) /\ World /\ NoHistory
        /\ jobs[o] # None /\ jobs[o].step \in StageSteps \cup RemovalSteps
    BY <1>1, JobFacts DEF InstallCommits, Outside, StageSteps
  <2>2. environment.revision = plan.base =>
            /\ Sound([recorded |-> recorded, declared |-> job.target])
            /\ \A r \in recorded : job.target[r[1]] = r[2]
                  \/ \E g \in DOMAIN generations : r \in generations[g].recorded
    <3> SUFFICES ASSUME environment.revision = plan.base
                 PROVE  /\ Sound([recorded |-> recorded, declared |-> job.target])
                        /\ \A r \in recorded : job.target[r[1]] = r[2]
                              \/ \E g \in DOMAIN generations : r \in generations[g].recorded
      OBVIOUS
    <3>1. Sound([recorded |-> recorded, declared |-> job.target])
      BY <2>1, CommitFacts, InstallIsSound
    <3>2. job.generation \in DOMAIN generations
      BY <2>1, CommitFacts
    <3>3. job.target[job.plugin] = plan.commit
      BY <2>1, CommitFacts DEF TargetDeclaration, Sound, Declaration
    <3> QED BY <3>1, <3>2, <3>3
  <2> HIDE DEF recorded
  <2> QED BY <2>1, <2>2, GenerationCommits
<1>2. CASE RemovalCommits(o)
  <2> DEFINE recorded == {r \in generations[job.generation].recorded : r[1] # job.plugin}
  <2>1. /\ At(o, "pruned") /\ Commits(o, recorded, job.target) /\ World /\ NoHistory
        /\ jobs[o] # None /\ jobs[o].step \in StageSteps \cup RemovalSteps
    BY <1>2, JobFacts DEF RemovalCommits, Outside, RemovalSteps
  <2>2. environment.revision = plan.base =>
            /\ Sound([recorded |-> recorded, declared |-> job.target])
            /\ \A r \in recorded : job.target[r[1]] = r[2]
                  \/ \E g \in DOMAIN generations : r \in generations[g].recorded
    BY <2>1, CommitFacts, RemovalIsSound
  <2> HIDE DEF recorded
  <2> QED BY <2>1, <2>2, GenerationCommits
<1> QED BY <1>1, <1>2

LEMMA ApplyStepsKeep == ASSUME PlanInv, ApplyNext PROVE PlanInv'
<1> PICK o \in Operation :
      \/ \E n \in Operation :
            \/ plans[n] # None /\ \E consent \in Confirmed(plans[n]) : ApplyInstall(o, n, consent)
            \/ ApplyRemoval(o, n)
      \/ StageVerified(o) \/ StageEnumerated(o) \/ InstallCommits(o)
      \/ RemovalVerified(o) \/ RemovalCommits(o) \/ ApplyFails(o) \/ CancelApply(o)
  BY DEF ApplyNext
<1>1. CASE CancelApply(o)
  BY <1>1, Cancelled DEF CancelApply
<1> QED BY <1>1, InstallBeginsSound, RemovalBegins, StageSteady, CommitStepsKeep

LEMMA PlanStepsKeep == PlanInv /\ [PlanNext]_planVars => PlanInv'
<1> SUFFICES ASSUME PlanInv, [PlanNext]_planVars PROVE PlanInv'
  OBVIOUS
<1> QED BY PreviewStepsKeep, ApplyStepsKeep, QuerySteps, WorldSteps DEF PlanNext

LEMMA PlansBegin == PlanInit => PlanInv
<1> SUFFICES ASSUME PlanInit PROVE PlanInv
  OBVIOUS
<1>1. PICK plugins \in SUBSET Plugin : generations = <<Installed(plugins)>>
  BY DEF PlanInit
<1> DEFINE G == Installed(plugins)
<1>2. 1 \in Commit /\ 0 \in 0..MaxCommit /\ 1 \in 0..MaxCommit
  BY CommitAssumption DEF Commit
<1>3. Sound(G) /\ G \in [recorded: SUBSET (Plugin \X Commit), declared: Declaration]
  <2> DEFINE D == [p \in Plugin |-> IF p \in plugins THEN 1 ELSE 0]
  <2>1. G = [recorded |-> plugins \X {1}, declared |-> D]
    BY DEF Installed
  <2>2. D \in Declaration
    BY <1>2 DEF Declaration
  <2>3. plugins \X {1} \subseteq Plugin \X Commit
    BY <1>2
  <2>4. \A p \in Plugin : D[p] # 0 => <<p, D[p]>> \in plugins \X {1}
    OBVIOUS
  <2>5. \A r \in plugins \X {1} : D[r[1]] # 0
    OBVIOUS
  <2> HIDE DEF D, G
  <2> QED BY <2>1, <2>2, <2>3, <2>4, <2>5 DEF Sound, Declared
<1> HIDE DEF G
<1>4. generations = <<G>> /\ environment = [revision |-> 1, active |-> 1]
  BY <1>1 DEF PlanInit, G
<1>5. PlanTypes
  BY <1>2, <1>3, <1>4 DEF PlanInit, PlanTypes
<1>8. \A r \in G.recorded : G.declared[r[1]] = r[2]
  BY DEF G, Installed
<1>6. GenerationsSound
  BY <1>3, <1>4, <1>8 DEF GenerationsSound, Traced
<1>7. PlansSound /\ JobsSound
  BY DEF PlanInit, PlansSound, JobsSound, JobSound, IdSound
<1> QED BY <1>5, <1>6, <1>7 DEF PlanInv

-----------------------------------------------------------------------------
(* The theorems. *)

\* `plugins.installed` (plugin-discovery-service.ts) lists every plugin of the active
\* generation's profile, at its commit and enabled, no other plugin, and no commit that
\* neither this generation nor an earlier one declared: after any sequence of previews,
\* applies, cancels, restores, pushes, edits and crashes.
THEOREM InstalledIsTrue == PlanSpec => []InstalledListIsTrue
<1>1. PlanInv => InstalledListIsTrue
  <2> SUFFICES ASSUME PlanInv PROVE InstalledListIsTrue
    OBVIOUS
  <2>1. Sound(Active)
    BY DEF PlanInv, PlanTypes, GenerationsSound, Active
  <2>2. \A r \in Active.recorded : Active.declared[r[1]] # 0
    BY <2>1 DEF Sound
  <2>3. \A p \in Declared(Active.declared) : <<p, Active.declared[p]>> \in Active.recorded
    BY <2>1 DEF Sound
  <2>6. Traced(generations, environment.active)
    BY DEF PlanInv, PlanTypes, GenerationsSound
  <2>4. \A entry \in InstalledView :
          /\ entry.enabled
          /\ \E g \in 1..environment.active : generations[g].declared[entry.id] = entry.commit
    <3> SUFFICES ASSUME NEW entry \in InstalledView
                 PROVE  /\ entry.enabled
                        /\ \E g \in 1..environment.active :
                              generations[g].declared[entry.id] = entry.commit
      OBVIOUS
    <3>1. PICK r \in Active.recorded :
            entry = [id |-> r[1], commit |-> r[2], enabled |-> Active.declared[r[1]] # 0]
      BY DEF InstalledView
    <3>2. (Active.declared[r[1]] # 0) = TRUE
      BY <2>2
    <3>3. entry.enabled = (Active.declared[r[1]] # 0)
      BY <3>1, Zenon
    <3>4. \E g \in 1..environment.active : generations[g].declared[r[1]] = r[2]
      BY <2>6 DEF Traced, Active
    <3>5. entry.id = r[1] /\ entry.commit = r[2]
      BY <3>1
    <3> QED BY <3>2, <3>3, <3>4, <3>5
  <2>5. ASSUME NEW p \in Declared(Active.declared)
        PROVE  \E entry \in InstalledView : entry.id = p /\ entry.commit = Active.declared[p]
    <3> DEFINE r == <<p, Active.declared[p]>>
               entry == [id |-> r[1], commit |-> r[2], enabled |-> Active.declared[r[1]] # 0]
    <3>1. entry \in InstalledView
      BY <2>3, <2>5 DEF InstalledView
    <3>2. entry.id = p /\ entry.commit = Active.declared[p]
      OBVIOUS
    <3> QED BY <3>1, <3>2
  <2> QED BY <2>4, <2>5 DEF InstalledListIsTrue
<1> QED BY <1>1, PlansBegin, PlanStepsKeep, PTL DEF PlanSpec

\* No install runs a script that the plan it applies did not list (build-authorization.ts,
\* apply-port.ts).
THEOREM ScriptsAreConsented == PlanSpec => []ConsentCoversScripts
<1>1. PlanInv => ConsentCoversScripts
  <2> SUFFICES ASSUME PlanInv, NEW o \in Operation, jobs[o] # None
               PROVE  ran[o] \subseteq (IF jobs[o].plan = 0 THEN {}
                                       ELSE plans[jobs[o].plan].scripts)
    BY DEF ConsentCoversScripts
  <2>1. BaseSound(jobs[o]) /\ PreviewSound(o, jobs[o]) /\ ApplySound(o, jobs[o])
    BY DEF PlanInv, JobsSound, JobSound
  <2>2. jobs[o].step \in {"query"} \cup PreviewSteps \cup StageSteps \cup RemovalSteps
    BY <2>1 DEF BaseSound, JobRecord
  <2> QED BY <2>1, <2>2, OperationAssumption DEF PreviewSound, ApplySound
<1> QED BY <1>1, PlansBegin, PlanStepsKeep, PTL DEF PlanSpec

\* A committed removal leaves nothing that refers to the plugin in the rows of the enabled
\* bundles and of the user's patch that were there when the apply began and that its scan
\* could read (removal-port.ts).
THEOREM RemovalIsClean == PlanSpec => RemovalLeavesNoReference
<1>1. PlanInv /\ [PlanNext]_planVars =>
        [\A p \in Plugin : Removed(p) => Unreferenced(p, unseen)]_planVars
  <2> SUFFICES ASSUME PlanInv, PlanNext, NEW p \in Plugin, Removed(p)
               PROVE  ~Blocking([Active'.declared EXCEPT ![p] = Active.declared[p]],
                                userPatch \ late, unseen, p)
    BY DEF Unreferenced
  <2>1. generations' # generations
    BY DEF Removed
  <2>2. PICK o \in Operation : InstallCommits(o) \/ RemovalCommits(o)
    <3>1. CASE PreviewNext
      <4>1. ~\E o \in Operation : SourceResolved(o) \/ TargetResolved(o) \/ SourcePreviewed(o)
        BY <2>1 DEF SourceResolved, TargetResolved, SourcePreviewed, NoCommit
      <4>2. ~\E o \in Operation : RemovalPreviewed(o) \/ PreviewFails(o) \/ CancelPreview(o)
        BY <2>1 DEF RemovalPreviewed, PreviewFails, CancelPreview, NoCommit
      <4> QED BY <2>1, <3>1, <4>1, <4>2 DEF PreviewNext, PreviewInstall, PreviewRemoval, NoCommit
    <3>2. CASE QueryNext
      BY <2>1, <3>2 DEF QueryNext, Search, Inspect, ListVersions, DescribeComposition,
         SourceLands, VersionsLand, CompositionLands, QueryLands, CancelDiscovery,
         CancelVersions, CancelComposition, CancelQuery, NoCommit
    <3>3. CASE ApplyNext
      BY <2>1, <3>3 DEF ApplyNext, ApplyInstall, ApplyRemoval, StageVerified, StageEnumerated,
         RemovalVerified, ApplyFails, CancelApply, NoCommit
    <3> QED BY <2>1, <3>1, <3>2, <3>3 DEF PlanNext, Restore, SourceMoves, EditPatch, Hide,
                                          Expires, LoseCache, Interrupt, NoCommit
  <2> DEFINE job == jobs[o]
  <2>3. /\ At(o, "install") \/ At(o, "pruned")
        /\ InstallCommits(o) => At(o, "install")
        /\ RemovalCommits(o) => At(o, "pruned")
    BY <2>2 DEF InstallCommits, RemovalCommits
  <2>4. PICK recorded : Commits(o, recorded, job.target)
    BY <2>2 DEF InstallCommits, RemovalCommits
  <2>5. /\ environment.revision = plans[job.plan].base
        /\ generations' = Append(generations, [recorded |-> recorded, declared |-> job.target])
        /\ environment'.active = Len(generations) + 1
    BY <2>1, <2>4 DEF Commits, NoCommit, Expected
  <2>6. Active'.declared = job.target
    BY <2>5 DEF Active, PlanInv, PlanTypes
  <2>7. job.plugin \in Plugin /\ Sound(Active)
    BY <2>3, <2>5, CommitFacts
  <2>8. Active.declared[p] # 0 /\ job.target[p] = 0 /\ Active.declared \in Declaration
    BY <2>6, <2>7 DEF Removed, Sound
  <2>9. CASE InstallCommits(o)
    <3>1. /\ plans[job.plan].commit \in Commit
          /\ job.target = TargetDeclaration(Active.declared, job.plugin, plans[job.plan].commit)
      BY <2>3, <2>5, <2>9, CommitFacts
    <3> QED BY <2>7, <2>8, <3>1, CommitAssumption DEF TargetDeclaration, Declaration, Commit
  <2>10. CASE RemovalCommits(o)
    <3>1. /\ job.target = PrunedDeclaration(Active.declared, job.plugin)
          /\ ~Blocking(Active.declared, userPatch \ late, unseen, job.plugin)
      BY <2>3, <2>5, <2>10, CommitFacts
    <3>2. p = job.plugin
      BY <2>8, <3>1 DEF PrunedDeclaration, Declaration
    <3>3. [job.target EXCEPT ![p] = Active.declared[p]] = Active.declared
      BY <2>8, <3>1, <3>2 DEF PrunedDeclaration, Declaration
    <3> QED BY <2>6, <3>1, <3>2, <3>3
  <2> QED BY <2>2, <2>9, <2>10
<1> QED BY <1>1, PlansBegin, PlanStepsKeep, PTL DEF PlanSpec, RemovalLeavesNoReference

\* An operation that was answered keeps its answer: what lands after a cancel, an end or a
\* restart is dropped (operation-store.ts and the services that write it).
THEOREM AnswersKeep == PlanSpec => AnswersStayFinal
<1>1. PlanInv /\ [PlanNext]_planVars =>
        [\A o \in Operation : operations[o] # None /\ ~Running(o)
          => operations'[o] = operations[o]]_planVars
  BY AnswersKept DEF PlanInv
<1> QED BY <1>1, PlansBegin, PlanStepsKeep, PTL DEF PlanSpec, AnswersStayFinal

-----------------------------------------------------------------------------
(* Several launchers of one data root: what the lease protects of a version    *)
(* switch, for every set of instances and of transactions.                     *)
Types ==
  /\ lease \in Instance \cup {None}
  /\ mode \in [Instance -> {"off", "recoverChanges", "recoverCore", "ready", "closing",
                            "released"}]
  /\ tasks \in [Instance -> SUBSET AnyTransaction]
  /\ journal \in [AnyTransaction -> BOOLEAN]
  /\ operation \in [AnyTransaction -> {None, "active", "failed", "succeeded"}]
  /\ generation \in [AnyTransaction -> {"absent", "staged", "torn"}]
  /\ moved \subseteq AnyTransaction

\* Who runs a switch holds the lease and is past its boot.
Leased ==
  \A i \in Instance : \A t \in Switch \cap tasks[i] :
    lease = i /\ mode[i] \in {"ready", "closing"}

\* A switch whose install runs is as it began: nobody has judged it.
Untouched ==
  \A i \in Instance : \A t \in (Switch \cap tasks[i]) \ moved :
    operation[t] = "active" /\ generation[t] = "staged"

\* The pointer was moved by the transaction it names.
Moved == pointer \in Switch => pointer \in moved

SwitchInvariant == Types /\ Leased /\ Untouched /\ Moved /\ SwitchesAreIsolated

LEMMA SwitchInit == InstancesInit => SwitchInvariant
  BY TransactionsApart
  DEF InstancesInit, SwitchInvariant, Types, Leased, Untouched, Moved,
      SwitchesAreIsolated, Authoritative, AnyTransaction

(***************************************************************************)
(* A step of a change transaction touches no switch.                       *)
(***************************************************************************)
ChangeStep(i, t) == ReconcileChange(i, t) \/ RemoveGeneration(i, t) \/ BeginApply(i, t)
                    \/ ApplyReturns(i, t)

LEMMA ChangeSteps ==
  ASSUME SwitchInvariant, NEW i \in Instance, NEW t \in AnyTransaction, ChangeStep(i, t)
  PROVE SwitchInvariant'
<1> USE DEF SwitchInvariant, AnyTransaction
<1>1. t \in Change /\ t \notin Switch
  BY TransactionsApart
  DEF ChangeStep, ReconcileChange, Unreconciled, RemoveGeneration, BeginApply, ApplyReturns
<1>2. Types'
  <2>1. CASE ReconcileChange(i, t)
    <3>1. (journal[t] /\ generation[t] = "staged") \in BOOLEAN
      OBVIOUS
    <3> QED BY <2>1, <3>1 DEF Types, ReconcileChange
  <2>2. CASE RemoveGeneration(i, t)
    BY <2>2 DEF Types, RemoveGeneration
  <2>3. CASE BeginApply(i, t)
    BY <2>3 DEF Types, BeginApply, Begin
  <2>4. CASE ApplyReturns(i, t)
    <3>1. CASE Undo(i, t)
      BY <3>1 DEF Types, Undo, TaskEnds
    <3>2. CASE MovePointer(i, t)
      BY <3>2 DEF Types, MovePointer
    <3>3. CASE TaskEnds(i, t) /\ UNCHANGED << lease, mode, moved, journal, operation, generation >>
      BY <3>3 DEF Types, TaskEnds
    <3> QED BY <2>4, <3>1, <3>2, <3>3 DEF ApplyReturns
  <2> QED BY <2>1, <2>2, <2>3, <2>4 DEF ChangeStep
<1>3. /\ lease' = lease /\ mode' = mode /\ moved \subseteq moved'
      /\ \A j \in Instance : Switch \cap tasks'[j] = Switch \cap tasks[j]
      /\ pointer' \in Switch => pointer' = pointer
      /\ \A u \in Switch : operation'[u] = operation[u] /\ generation'[u] = generation[u]
  BY <1>1
  DEF Types, ChangeStep, ReconcileChange, RemoveGeneration, BeginApply, Begin,
      ApplyReturns, Undo, TaskEnds, MovePointer
<1> QED
  BY <1>2, <1>3 DEF Leased, Untouched, Moved, SwitchesAreIsolated, Authoritative

(***************************************************************************)
(* A step of a switch is one of the holder of the lease.                   *)
(***************************************************************************)
LEMMA BeginSwitches ==
  ASSUME SwitchInvariant, NEW i \in Instance, NEW t \in AnyTransaction, BeginSwitch(i, t)
  PROVE SwitchInvariant'
<1> USE DEF SwitchInvariant, AnyTransaction, BeginSwitch, Begin
<1>1. Types'
  BY DEF Types
<1>2. Leased'
  BY DEF Types, Leased
<1>3. Untouched'
  BY DEF Types, Untouched
<1>4. Moved' /\ SwitchesAreIsolated'
  BY DEF Types, Moved, SwitchesAreIsolated, Authoritative
<1> QED BY <1>1, <1>2, <1>3, <1>4

LEMMA InstallsReturn ==
  ASSUME SwitchInvariant, NEW i \in Instance, NEW t \in AnyTransaction, InstallReturns(i, t)
  PROVE SwitchInvariant'
<1> USE DEF SwitchInvariant, AnyTransaction
<1>1. t \in Switch /\ t \in tasks[i] /\ t \notin moved /\ lease = i
  BY DEF InstallReturns
<1>2. CASE Undo(i, t)
  <2> USE <1>2 DEF Undo, TaskEnds
  <2>1. Types'
    BY DEF Types
  <2>2. Leased'
    BY DEF Types, Leased
  <2>3. Untouched'
    <3> SUFFICES ASSUME NEW j \in Instance, NEW u \in (Switch \cap tasks'[j]) \ moved'
                 PROVE operation'[u] = "active" /\ generation'[u] = "staged"
      BY DEF Untouched
    <3>1. u \in (Switch \cap tasks[j]) \ moved
      BY DEF Types
    <3>2. lease = j
      BY <3>1 DEF Leased
    <3>3. u # t
      BY <3>2, <1>1 DEF Types
    <3> QED BY <3>1, <3>3 DEF Types, Untouched
  <2>4. Moved' /\ SwitchesAreIsolated'
    BY <1>1 DEF Types, Moved, SwitchesAreIsolated, Authoritative
  <2> QED BY <2>1, <2>2, <2>3, <2>4
<1>3. CASE MovePointer(i, t)
  BY <1>1, <1>3
  DEF MovePointer, Types, Leased, Untouched, Moved, SwitchesAreIsolated, Authoritative
<1> QED BY <1>2, <1>3 DEF InstallReturns

LEMMA CommitsRecord ==
  ASSUME SwitchInvariant, NEW i \in Instance, NEW t \in AnyTransaction, RecordCommit(i, t)
  PROVE SwitchInvariant'
<1> USE DEF SwitchInvariant, AnyTransaction, RecordCommit, TaskEnds
<1>1. Types'
  BY DEF Types
<1>2. Leased'
  BY DEF Types, Leased
<1>3. Untouched'
  BY DEF Types, Untouched
<1>4. Moved' /\ SwitchesAreIsolated'
  BY DEF Types, Moved, SwitchesAreIsolated, Authoritative
<1> QED BY <1>1, <1>2, <1>3, <1>4

(***************************************************************************)
(* A boot that reconciles holds the lease, so nobody's install runs; a     *)
(* lease moves only when nobody holds it, or from who runs no install.     *)
(***************************************************************************)
LifeStep(i) == Open(i) \/ ChangesReconciled(i) \/ RecoveryRefused(i) \/ BeginClose(i)
               \/ ReleaseLease(i) \/ InstanceEnds(i)

LEMMA LifeSteps ==
  ASSUME SwitchInvariant, NEW i \in Instance, LifeStep(i)
  PROVE SwitchInvariant'
<1> USE DEF SwitchInvariant, AnyTransaction, TransactionsUntouched, Become, Acquire
<1>1. Types'
  BY DEF Types, LifeStep, Open, ChangesReconciled, RecoveryRefused, BeginClose,
         ReleaseLease, InstanceEnds
<1>2. /\ moved' = moved /\ operation' = operation /\ generation' = generation
      /\ pointer' = pointer /\ \A j \in Instance : tasks'[j] \subseteq tasks[j]
  BY DEF Types, LifeStep, Open, ChangesReconciled, RecoveryRefused, BeginClose,
         ReleaseLease, InstanceEnds
<1>3. Leased'
  <2> SUFFICES ASSUME NEW j \in Instance, NEW t \in Switch \cap tasks'[j]
               PROVE lease' = j /\ mode'[j] \in {"ready", "closing"}
    BY DEF Leased
  <2>1. t \in Switch \cap tasks[j] /\ lease = j /\ mode[j] \in {"ready", "closing"}
    BY <1>2 DEF Leased
  <2>2. j # i => mode'[j] = mode[j]
    BY DEF Types, LifeStep, Open, ChangesReconciled, RecoveryRefused, BeginClose,
           ReleaseLease, InstanceEnds
  <2> QED
    BY <2>1, <2>2, TransactionsApart
    DEF Types, LifeStep, Open, ChangesReconciled, RecoveryRefused, BeginClose,
        ReleaseLease, NothingPending, InstanceEnds
<1> QED BY <1>1, <1>2, <1>3 DEF Untouched, Moved, SwitchesAreIsolated, Authoritative

LEMMA Recoveries ==
  ASSUME SwitchInvariant, NEW i \in Instance, RecoverCore(i)
  PROVE SwitchInvariant'
<1> USE DEF SwitchInvariant, AnyTransaction, RecoverCore, Become, Acquire, MayRecover
<1>1. Types'
  BY DEF Types
<1>2. \A j \in Instance : Switch \cap tasks[j] = {}
  BY TransactionsApart DEF Types, Leased
<1>3. Leased' /\ Untouched'
  BY <1>2 DEF Leased, Untouched
<1>4. Moved' /\ SwitchesAreIsolated'
  BY DEF Types, Moved, SwitchesAreIsolated, Authoritative
<1> QED BY <1>1, <1>3, <1>4

(***************************************************************************)
(* Whatever other launchers of the data root do, a switch that moved the   *)
(* pointer is not recorded as failed and its generation stays whole: the   *)
(* lease is asked for by recover(), by begin and before the commit, and    *)
(* close() awaits the tasks before it gives it back                        *)
(* (creation-service.ts).                                                  *)
(***************************************************************************)
THEOREM SwitchesIsolated == InstancesSpec => []SwitchesAreIsolated
<1>1. SwitchInvariant /\ [InstancesNext]_instanceVars => SwitchInvariant'
  <2> SUFFICES ASSUME SwitchInvariant, [InstancesNext]_instanceVars
               PROVE SwitchInvariant'
    OBVIOUS
  <2>1. ASSUME NEW i \in Instance, LifeStep(i) PROVE SwitchInvariant'
    BY <2>1, LifeSteps
  <2>2. ASSUME NEW i \in Instance, RecoverCore(i) PROVE SwitchInvariant'
    BY <2>2, Recoveries
  <2>3. ASSUME NEW i \in Instance, NEW t \in AnyTransaction, ChangeStep(i, t)
        PROVE SwitchInvariant'
    BY <2>3, ChangeSteps
  <2>4. ASSUME NEW i \in Instance, NEW t \in AnyTransaction, BeginSwitch(i, t)
        PROVE SwitchInvariant'
    BY <2>4, BeginSwitches
  <2>5. ASSUME NEW i \in Instance, NEW t \in AnyTransaction, InstallReturns(i, t)
        PROVE SwitchInvariant'
    BY <2>5, InstallsReturn
  <2>6. ASSUME NEW i \in Instance, NEW t \in AnyTransaction, RecordCommit(i, t)
        PROVE SwitchInvariant'
    BY <2>6, CommitsRecord
  <2>7. CASE UNCHANGED instanceVars
    BY <2>7 DEF instanceVars, SwitchInvariant, Types, Leased, Untouched, Moved,
                SwitchesAreIsolated, Authoritative
  <2> QED
    BY <2>1, <2>2, <2>3, <2>4, <2>5, <2>6, <2>7
    DEF InstancesNext, LifeStep, ChangeStep
<1>2. SwitchInvariant => SwitchesAreIsolated
  BY DEF SwitchInvariant
<1> QED BY SwitchInit, <1>1, <1>2, PTL DEF InstancesSpec
=============================================================================
