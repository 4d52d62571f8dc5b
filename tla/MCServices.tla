------------------------------ MODULE MCServices ------------------------------
(* Six components that share no state, one of them at work in each behaviour. *)
EXTENDS ChangePlans, ManagedInstall, UserData, PatchDocument, LaunchCredentials,
        SharedDataRoot

CONSTANTS plugin1, plugin2, core, row1, row2, i1, i2, service
VARIABLE component

Source(own, dependencies, closure, patch, local) ==
    [own |-> own, dependencies |-> dependencies, closure |-> closure,
     patch |-> patch, local |-> local]

Loads(x) == PatchRow(x, x, TRUE)
MCUserRows == {Loads(plugin1), PatchRow(plugin1, None, FALSE), Unclassified}

\* plugin1 comes to run a script of its own, then depends on a local path; plugin2
\* changes a row of plugin1 and runs a script of a dependency, then repeats a row of
\* plugin1, then does neither.
MCManifest ==
    [x \in {plugin1, plugin2} |->
        IF x = plugin1 THEN <<Source(FALSE, FALSE, FALSE, {Loads(plugin1)}, FALSE),
                        Source(TRUE, FALSE, FALSE, {Loads(plugin1)}, FALSE),
                        Source(FALSE, TRUE, FALSE, {}, TRUE)>>
        ELSE <<Source(FALSE, TRUE, TRUE, {Loads(plugin2), PatchRow(plugin1, None, FALSE)}, FALSE),
               Source(FALSE, TRUE, FALSE, {PatchRow(plugin1, plugin2, TRUE)}, FALSE),
               Source(FALSE, FALSE, FALSE, {Loads(plugin2)}, FALSE)>>]

Command == {"search", "inspect", "versions", "composition", "cancel", "install",
            "remove", "apply", "restore", "move", "edit", "hide", "expire"}
Times(once, twice) == [c \in Command |-> IF c \in twice THEN 2 ELSE IF c \in once THEN 1 ELSE 0]

MCScenarios == {
    Times({"install", "apply"}, {"move"}),
    Times({"remove", "edit"}, {"apply"}),
    Times({"remove", "edit", "apply"}, {"hide"}),
    Times({"install", "remove"}, {"apply"}),
    Times({"restore", "expire"}, {"install", "apply"}),
    Times({"install", "apply", "cancel"}, {}),
    Times({"remove", "apply", "cancel"}, {}),
    Times({"search", "inspect", "cancel"}, {}),
    Times({"versions", "composition", "cancel"}, {})}

\* An empty file; no row; rows of two ids; an id disabled twice; a row that cannot be
\* read between others.
R(id, named, disabled, config) ==
    [id |-> id, named |-> named, disabled |-> disabled, config |-> config]
MCDocuments == {
    Unreadable, <<>>,
    <<Insert(<<R(row1, TRUE, None, 1), R(row2, TRUE, "yes", None)>>)>>,
    <<Insert(<<R(row1, TRUE, "yes", None)>>), Override(R(row1, FALSE, "yes", None)),
      Override(R(row2, FALSE, "no", 2))>>,
    <<Override(R(row2, FALSE, "yes", None)),
      Insert(<<R("computed", TRUE, None, 1), R(row1, TRUE, "computed", 2)>>),
      Override(R(row1, FALSE, None, 2))>>}

\* Two bindings; a name of the policy and another, with other items; a reserved name; a
\* repeated one; an item without an account; another store; none.
K(name, item) == Binding(name, "keychain", item)
MCImports == {
    <<K("KEY", i1), K("URL", i2)>>, <<K("DSH_TELEMETRY_DISABLED", i2), K("URL", i1)>>,
    <<K("KEY", i1), K("PATH", i2)>>, <<K("KEY", i1), K("KEY", i2)>>,
    <<K("KEY", service)>>, <<Binding("KEY", "secret-service", i1)>>, <<>>}

Component == {"plans", "install", "profile", "patch", "credentials", "instances"}

\* The components that rest start in one state only.
MCInit ==
    /\ component \in Component
    /\ PlanInit
    /\ component # "plans" =>
         scenario = Times({"install", "apply"}, {"move"}) /\ generations = <<Installed({})>>
    /\ InstallInit
    /\ component # "install" => \A x \in Artifact : archives[x] = "absent"
    /\ ProfileInit
    /\ component # "profile" =>
         /\ \A x \in Place : directories[x] = "absent" /\ odd[x] = "plain" /\ holder[x] = None
         /\ migrationLock = None
    /\ PatchInit
    /\ component # "patch" => document = <<>>
    /\ CredentialInit
    /\ component # "credentials" => bindings = Missing /\ \A i \in Item : keychain[i] = 1
    /\ InstancesInit

MCNext ==
    \/ /\ component = "plans" /\ PlanNext
       /\ UNCHANGED <<component, installVars, profileVars, patchVars,
                      credentialVars, instanceVars>>
    \/ /\ component = "install" /\ InstallNext
       /\ UNCHANGED <<component, planVars, profileVars, patchVars,
                      credentialVars, instanceVars>>
    \/ /\ component = "profile" /\ ProfileNext
       /\ UNCHANGED <<component, planVars, installVars, patchVars,
                      credentialVars, instanceVars>>
    \/ /\ component = "patch" /\ PatchNext
       /\ UNCHANGED <<component, planVars, installVars, profileVars,
                      credentialVars, instanceVars>>
    \/ /\ component = "credentials" /\ CredentialNext
       /\ UNCHANGED <<component, planVars, installVars, profileVars, patchVars, instanceVars>>
    \/ /\ component = "instances" /\ InstancesNext
       /\ UNCHANGED <<component, planVars, installVars, profileVars, patchVars, credentialVars>>

MCSpec == MCInit /\ [][MCNext]_<<component, planVars, installVars, profileVars, patchVars,
                             credentialVars, instanceVars>>
=============================================================================
