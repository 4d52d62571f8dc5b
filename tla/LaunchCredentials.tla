--------------------------- MODULE LaunchCredentials ---------------------------
(* The secrets of a start: the record of an environment's credential bindings   *)
(* (packages/core/src/credential-store.ts, apps/desktop/src/main/                *)
(* credential-import.ts), their resolution from the operating system's keychain  *)
(* (packages/runtime/src/credentials/) and the environment of the process that   *)
(* is spawned with them (process/manager.ts).                                    *)
(*                                                                             *)
(* Of the rest of the launcher this module keeps what may change the record, the *)
(* state or the active generation while a start awaits a keychain item.          *)
EXTENDS Naturals, Sequences, FiniteSets, Absent

CONSTANTS
    Item,         \* generic passwords of the keychain, service#account
    ServiceOnly,  \* references of the keychain without an account
    ReservedName, \* names of variables the launcher or the dynamic linker reads
    PolicyName,   \* names of variables the launch policy sets, which are not reserved
    Imports,      \* sequences of bindings that a file of references, or the record, may hold
    MaxMoves,     \* bound: commits of other generations
    MaxChanges,   \* bound: changes of the record
    MaxSecrets    \* bound: changes of keychain items

\* A document is a sequence of bindings: what the schema makes of a file.
ASSUME ImportsAssumption ==
    \A document \in Imports :
       /\ document \in Seq({document[k] : k \in DOMAIN document})
       /\ \A k \in DOMAIN document :
             document[k] = [name |-> document[k].name, store |-> document[k].store,
                            item |-> document[k].item]

VARIABLES
    bindings,    \* what a read of credentials.json yields
    keychain,    \* keychain[i]: the secret of an item now, None when there is none
    lifecycle,   \* environment.state
    activeGeneration,     \* environment.activeGenerationId
    staging,     \* an apply is staging: it was accepted while the state was "stopped"
    launch,      \* the start in flight
    child,       \* the process it spawned
    changes      \* how often record and keychain changed

credentialVars ==
    <<bindings, keychain, lifecycle, activeGeneration, staging, launch, child, changes>>

Valid(document) == [kind |-> "valid", bindings |-> document]
Missing == [kind |-> "missing", bindings |-> <<>>]
Invalid == [kind |-> "invalid", bindings |-> <<>>]
Binding(name, store, item) == [name |-> name, store |-> store, item |-> item]

\* A start: the generation it is for, its bindings once they are loaded, with the generation
\* whose directories the base environment names, and the secrets read so far.  History:
\* the records and secrets there were meanwhile.
StartRequest(generation) ==
    [generation |-> generation, step |-> "cleanup", cancelled |-> FALSE,
     bindings |-> <<>>, paths |-> None, secrets |-> <<>>,
     records |-> {bindings}, held |-> {<<i, keychain[i]>> : i \in Item}]

CredentialInit ==
    /\ bindings \in {Missing, Invalid} \cup {Valid(document) : document \in Imports}
    /\ keychain \in [Item -> {None, 1}]
    /\ lifecycle = "stopped" /\ activeGeneration = 1 /\ staging = FALSE
    /\ launch = None /\ child = None /\ changes = [record |-> 0, keychain |-> 0]

-----------------------------------------------------------------------------
(* The record. *)

Names(document) == {document[k].name : k \in DOMAIN document}
Repeats(document) == Cardinality(Names(document)) < Len(document)

\* parseCredentialImportDocument: the schema wants a binding, no name may be reserved or
\* bound twice, and the only store is the keychain.
Importable(document) ==
    /\ document # <<>> /\ ~Repeats(document)
    /\ Names(document) \cap ReservedName = {}
    /\ \A k \in DOMAIN document : document[k].store = "keychain"

\* The record is replaced by a rename: no read sees part of it.
Write(record) ==
    /\ changes.record < MaxChanges /\ bindings' = record
    /\ changes' = [changes EXCEPT !.record = @ + 1]
    /\ launch' = IF launch = None THEN None
                 ELSE [launch EXCEPT !.records = @ \cup {record}]
    /\ UNCHANGED <<keychain, lifecycle, activeGeneration, staging, child>>

\* #guardCredentialMutation: not while the environment runs or changes.
Configurable == lifecycle \notin {"starting", "running", "stopping"}

ImportCredentials(document) == Configurable /\ Importable(document) /\ Write(Valid(document))

\* Somebody edits or deletes the file.
EditRecord(record) == Write(record)

\* CredentialStore.read and launchCredentialRequest.
Loadable == bindings.kind = "valid"

-----------------------------------------------------------------------------
(* A start. *)

\* failStart, and the environment's state unless something else changed it.
StartFails ==
    /\ launch' = None
    /\ lifecycle' = IF lifecycle = "starting" THEN "stopped" ELSE lifecycle
    /\ UNCHANGED <<bindings, keychain, activeGeneration, staging, child, changes>>

\* No process of an earlier start is left; its descendants may take a while to end.
BeginStart ==
    /\ lifecycle = "stopped" /\ launch = None /\ child = None
    /\ lifecycle' = "starting" /\ launch' = StartRequest(activeGeneration)
    /\ UNCHANGED <<bindings, keychain, activeGeneration, staging, child, changes>>

\* Every binding is judged again before any secret is read.
Complete(binding) == binding.store = "keychain" => binding.item \notin ServiceOnly
Resolvable(document) == Importable(document) /\ \A k \in DOMAIN document : Complete(document[k])

Load ==
    /\ launch # None /\ launch.step = "cleanup"
    /\ IF launch.cancelled \/ ~Loadable THEN StartFails
       ELSE IF ~Resolvable(bindings.bindings) THEN StartFails
       ELSE /\ launch' = [launch EXCEPT !.step = "reading", !.bindings = bindings.bindings,
                                        !.paths = activeGeneration]
            /\ UNCHANGED <<bindings, keychain, lifecycle, activeGeneration, staging, child, changes>>

\* Slip: the record is read again for each binding.
AskedOfTheRecord ==
    IF Loadable /\ Len(launch.secrets) < Len(bindings.bindings)
    THEN bindings.bindings[Len(launch.secrets) + 1]
    ELSE launch.bindings[Len(launch.secrets) + 1]
\* The binding a read is for.
ItemAsked == launch.bindings[Len(launch.secrets) + 1]

Reading == launch # None /\ launch.step = "reading" /\ Len(launch.secrets) < Len(launch.bindings)

\* One item after the other, so that at most one prompt is open.
ReadItem ==
    /\ Reading /\ ItemAsked.item \in Item /\ keychain[ItemAsked.item] # None
    /\ launch' = [launch EXCEPT !.secrets =
                     Append(@, [name |-> ItemAsked.name, item |-> ItemAsked.item,
                                secret |-> keychain[ItemAsked.item]])]
    /\ UNCHANGED <<bindings, keychain, lifecycle, activeGeneration, staging, child, changes>>

\* No such item or an empty one, the user's refusal, no answer in time, too much output:
\* what was read is dropped with the rest.
ReadFails == Reading /\ StartFails

\* What the manager derives from the request and what it was given must name the same
\* directories.
ManagedAgrees == launch.paths = launch.generation

\* launchPolicy() comes last: it replaces a secret whose binding has one of its names.
PolicyValue == 0
ChildEnvironment(secrets) ==
    [k \in DOMAIN secrets |-> IF secrets[k].name \in PolicyName
                              THEN [secrets[k] EXCEPT !.secret = PolicyValue] ELSE secrets[k]]

Spawn ==
    /\ launch # None /\ launch.step = "reading" /\ Len(launch.secrets) = Len(launch.bindings)
    /\ IF launch.cancelled \/ ~ManagedAgrees THEN StartFails
       ELSE \/ StartFails
            \/ /\ child' = [generation |-> launch.generation, paths |-> launch.paths,
                            secrets |-> ChildEnvironment(launch.secrets),
                            records |-> launch.records, held |-> launch.held]
               /\ launch' = [launch EXCEPT !.step = "readiness", !.secrets = <<>>]
               /\ UNCHANGED <<bindings, keychain, lifecycle, activeGeneration, staging, changes>>

\* The endpoint answers, or the child is killed.
Ready ==
    /\ launch # None /\ launch.step = "readiness"
    /\ launch' = None
    /\ \/ /\ ~launch.cancelled /\ lifecycle' = "running" /\ UNCHANGED child
       \/ /\ lifecycle' = IF lifecycle = "starting" THEN "stopped" ELSE lifecycle
          /\ child' = None
    /\ UNCHANGED <<bindings, keychain, activeGeneration, staging, changes>>

CancelStart ==
    /\ launch # None /\ ~launch.cancelled /\ launch' = [launch EXCEPT !.cancelled = TRUE]
    /\ UNCHANGED <<bindings, keychain, lifecycle, activeGeneration, staging, child, changes>>

\* The manager refuses it while the start is in flight, and the refusal is taken for a
\* stop that failed.
StopRefused ==
    /\ lifecycle = "starting" /\ launch # None /\ lifecycle' = "running"
    /\ UNCHANGED <<bindings, keychain, activeGeneration, staging, launch, child, changes>>

\* It is stopped or exits.
ChildEnds ==
    /\ child # None /\ launch = None /\ child' = None /\ lifecycle' = "stopped"
    /\ UNCHANGED <<bindings, keychain, activeGeneration, staging, launch, changes>>

-----------------------------------------------------------------------------
(* What happens meanwhile. *)

BeginStaging ==
    /\ lifecycle = "stopped" /\ ~staging /\ activeGeneration <= MaxMoves /\ staging' = TRUE
    /\ UNCHANGED <<bindings, keychain, lifecycle, activeGeneration, launch, child, changes>>

\* The commit compares revisions, which a start leaves alone, and writes "stopped".
CommitStaging ==
    /\ staging /\ staging' = FALSE
    /\ activeGeneration' = activeGeneration + 1 /\ lifecycle' = "stopped"
    /\ UNCHANGED <<bindings, keychain, launch, child, changes>>

KeychainChanges(i) ==
    /\ changes.keychain < MaxSecrets
    /\ \E secret \in {None, changes.keychain + 2} :
          /\ secret # keychain[i] /\ keychain' = [keychain EXCEPT ![i] = secret]
          /\ launch' = IF launch = None THEN None
                       ELSE [launch EXCEPT !.held = @ \cup {<<i, secret>>}]
    /\ changes' = [changes EXCEPT !.keychain = @ + 1]
    /\ UNCHANGED <<bindings, lifecycle, activeGeneration, staging, child>>

CredentialNext ==
    \/ \E document \in Imports : ImportCredentials(document) \/ EditRecord(Valid(document))
    \/ EditRecord(Missing) \/ EditRecord(Invalid)
    \/ BeginStart \/ Load \/ ReadItem \/ ReadFails \/ Spawn \/ Ready
    \/ CancelStart \/ StopRefused \/ ChildEnds \/ BeginStaging \/ CommitStaging
    \/ \E i \in Item : KeychainChanges(i)

-----------------------------------------------------------------------------
\* A process is spawned with a variable for every binding of one record that was in place
\* during its start and for no other name, and with the directories of the generation it
\* runs.  Each variable has a secret read under the item that record names, but one that is
\* named like a variable of the launch policy has the policy's value: whatever was imported,
\* committed or changed in the keychain meanwhile (manager.ts, injection.ts).
ChildEnvironmentIsWhole ==
    child # None =>
       /\ child.paths = child.generation
       /\ \A k \in DOMAIN child.secrets :
             IF child.secrets[k].name \in PolicyName
             THEN child.secrets[k].secret = PolicyValue
             ELSE <<child.secrets[k].item, child.secrets[k].secret>> \in child.held
       /\ \E record \in child.records :
             /\ record.kind = "valid" /\ Importable(record.bindings)
             /\ record.bindings = [k \in DOMAIN child.secrets |->
                    Binding(child.secrets[k].name, "keychain", child.secrets[k].item)]
=============================================================================
