------------------------------- MODULE UserData -------------------------------
(* Which profile directory a launcher uses, and the move of the profile of the  *)
(* product's old name to the new one (apps/desktop/src/main/user-data.ts and    *)
(* data-root.ts), with several launchers at work on the same directories.       *)
(*                                                                             *)
(* A step is one file-system call with the decision that follows it.  Chromium's *)
(* own lock on a profile, and an instance of the old version, are external.      *)
EXTENDS Naturals, Absent

CONSTANTS
    Launcher,   \* processes of this version
    MaxDeaths   \* bound: launchers that die before they opened a profile

VARIABLES
    directories,  \* "legacy" and "target": "absent", "empty", "user" or "fresh"
    odd,          \* directories that are links or cannot be read: "plain", "link", "closed"
    holder,       \* per directory the instance that runs on it, or None
    migrationLock, \* None or [by, signed]
    launchers,    \* per launcher [step, explicit, attempt, directory]
    taken,        \* history: launchers since whose probe an instance opened "legacy", or
                  \* whose probe could not tell the one there was
    deaths

profileVars == <<directories, odd, holder, migrationLock, launchers, taken, deaths>>

Old == "old"  \* an instance of the version that used the legacy directory
Place == {"legacy", "target"}

ProfileInit ==
    /\ directories \in [Place -> {"absent", "empty", "user"}]
    /\ directories["target"] # "user"
    /\ odd \in [Place -> {"plain", "link", "closed"}]
    /\ holder \in {[p \in Place |-> None]} \cup
           {[p \in Place |-> IF p = "legacy" THEN Old ELSE None] :
               x \in {y \in {1} : directories["legacy"] = "user"}}
    /\ migrationLock \in {None} \cup {[by |-> Old, signed |-> FALSE]}
    /\ launchers = [l \in Launcher |-> [step |-> "start", explicit |-> FALSE, attempt |-> 1,
                                       directory |-> "target"]]
    /\ taken = {}
    /\ deaths = 0

Populated(p) == directories[p] \in {"user", "fresh"}
StateOf(p) == IF odd[p] = "closed" THEN "unreadable"
              ELSE IF Populated(p) THEN "populated" ELSE directories[p]

On(l, step) == launchers[l].step = step
Goes(l, step) == launchers' = [launchers EXCEPT ![l].step = step]
Uses(l, directory) ==
    launchers' = [launchers EXCEPT ![l].step = "open", ![l].directory = directory]
Files == UNCHANGED <<directories, odd, migrationLock>>
Instances == UNCHANGED <<holder, taken, deaths>>

-----------------------------------------------------------------------------
(* The arguments: a data root as a flag or in the environment, a profile in      *)
(* Chromium's spelling or with a space.                                         *)

Given == {"none", "value", "bad"}
Arguments == [flag : Given, env : Given, equals : Given, space : Given]

\* A flag that is given, even badly, hides the environment.
DataRootOverrideProblem(args) ==
    args.flag = "bad" \/ (args.flag = "none" /\ args.env = "bad")
ExplicitDataRoot(args) ==
    ~DataRootOverrideProblem(args) /\ (args.flag = "value" \/ args.env = "value")

UserDataDirProblem(args) == "bad" \in {args.equals, args.space}
PinnedProfile(args) == args.equals = "value"
SpaceSeparatedProfile(args) == args.space = "value"

LaunchArgumentProblem(args) == DataRootOverrideProblem(args) \/ UserDataDirProblem(args)

\* A profile under the data root, unless one is pinned.
IsolatedProfile(args) == ExplicitDataRoot(args) /\ ~PinnedProfile(args)

\* A bad argument ends the launch before any access; an explicit profile is used as
\* it is; the first access to the default one creates its directory.
ConfigureUserData(l) ==
    /\ On(l, "start")
    /\ \E args \in Arguments :
          \/ /\ LaunchArgumentProblem(args)
             /\ Goes(l, "over") /\ UNCHANGED directories
          \/ /\ ~LaunchArgumentProblem(args)
             /\ PinnedProfile(args) \/ SpaceSeparatedProfile(args) \/ IsolatedProfile(args)
             /\ launchers' = [launchers EXCEPT ![l].step = "open", ![l].explicit = TRUE]
             /\ UNCHANGED directories
          \/ /\ ~LaunchArgumentProblem(args) /\ ~PinnedProfile(args)
             /\ ~SpaceSeparatedProfile(args) /\ ~IsolatedProfile(args)
             /\ directories' = IF directories["target"] = "absent"
                               THEN [directories EXCEPT !["target"] = "empty"] ELSE directories
             /\ Goes(l, "legacy")
    /\ UNCHANGED <<odd, migrationLock>> /\ Instances

-----------------------------------------------------------------------------
(* resolveUserDataDirectory *)

InspectLegacy(l) ==
    /\ On(l, "legacy")
    /\ CASE StateOf("legacy") \in {"absent", "empty"} -> Uses(l, "target")
         [] StateOf("legacy") = "unreadable" -> Uses(l, "legacy")
         [] OTHER -> IF odd["legacy"] = "link" THEN Uses(l, "legacy") ELSE Goes(l, "probe")
    /\ Files /\ Instances

\* What a mark <host>-<pid> tells of its owner.  It is read as nobody's when it was written
\* under another name of the host or cannot be read ("blind"); the process id of an owner
\* that died may be in use again ("reused").
Sight == {"plain", "blind", "reused"}
ReadsAsLive(owned, sight) == (owned /\ sight # "blind") \/ (~owned /\ sight = "reused")

\* Slip: the lock of the profile is not looked at.
NeverLocked(sight) == FALSE

IsProfileLocked(sight) == ReadsAsLive(holder["legacy"] # None, sight)

Probe(l) ==
    /\ On(l, "probe")
    /\ \E sight \in Sight :
          /\ IF IsProfileLocked(sight) THEN Uses(l, "legacy") ELSE Goes(l, "target")
          /\ taken' = IF sight = "blind" /\ holder["legacy"] # None
                      THEN taken \cup {l} ELSE taken \ {l}
    /\ Files /\ UNCHANGED <<holder, deaths>>

InspectTarget(l) ==
    /\ On(l, "target")
    /\ IF odd["target"] = "link" \/ StateOf("target") \in {"unreadable", "populated"}
       THEN Uses(l, "target") ELSE Goes(l, "create")
    /\ Files /\ Instances

\* The lock file is created with one call and signed with the next.
CreateLockFile(l) ==
    /\ On(l, "create")
    /\ \/ /\ migrationLock = None
          /\ migrationLock' = [by |-> l, signed |-> FALSE] /\ Goes(l, "sign")
       \/ /\ migrationLock # None
          /\ Goes(l, "owner") /\ UNCHANGED migrationLock
    /\ UNCHANGED <<directories, odd>> /\ Instances

SignLockFile(l) ==
    /\ On(l, "sign")
    /\ migrationLock' = IF migrationLock # None /\ migrationLock.by = l
                        THEN [migrationLock EXCEPT !.signed = TRUE] ELSE migrationLock
    /\ Goes(l, "again")
    /\ UNCHANGED <<directories, odd>> /\ Instances

IsLiveLockOwner(sight) ==
    /\ migrationLock # None /\ migrationLock.signed
    /\ ReadsAsLive(migrationLock.by \in Launcher /\ ~On(migrationLock.by, "over"), sight)

\* A live owner is left alone; any other mark is cleared, and tried for once more.
ReadLockFile(l) ==
    /\ On(l, "owner")
    /\ \E sight \in Sight :
          IF IsLiveLockOwner(sight) THEN Uses(l, "target") ELSE Goes(l, "clear")
    /\ Files /\ Instances

ClearLockFile(l) ==
    /\ On(l, "clear")
    /\ migrationLock' = None
    /\ launchers' = [launchers EXCEPT
           ![l].step = IF launchers[l].attempt = 1 THEN "create" ELSE "open",
           ![l].attempt = 2]
    /\ UNCHANGED <<directories, odd>> /\ Instances

Releases(l, directory) ==
    launchers' = [launchers EXCEPT ![l].step = "release", ![l].directory = directory]

\* Under the lock both directories are read again, but not the profile's lock.
InspectAgain(l) ==
    /\ On(l, "again")
    /\ IF StateOf("legacy") = "populated" THEN Goes(l, "latest") ELSE Releases(l, "target")
    /\ Files /\ Instances

InspectLatest(l) ==
    /\ On(l, "latest")
    /\ CASE StateOf("target") = "empty" -> Goes(l, "remove")
         [] StateOf("target") = "absent" -> Goes(l, "move")
         [] OTHER -> Releases(l, "target")
    /\ Files /\ Instances

\* Only an empty directory can be removed,
RemoveEmptyDirectory(l) ==
    /\ On(l, "remove")
    /\ \/ /\ directories["target"] = "empty"
          /\ directories' = [directories EXCEPT !["target"] = "absent"]
          /\ Goes(l, "move")
       \/ Releases(l, "legacy") /\ UNCHANGED directories
    /\ UNCHANGED <<odd, migrationLock>> /\ Instances

\* and only an absent or empty one can be replaced.
Rename(l) ==
    /\ On(l, "move")
    /\ \/ /\ directories["legacy"] # "absent" /\ ~Populated("target")
          /\ directories' = [legacy |-> "absent", target |-> directories["legacy"]]
          /\ Releases(l, "target")
       \/ Releases(l, "legacy") /\ UNCHANGED directories
    /\ UNCHANGED <<odd, migrationLock>> /\ Instances

RemoveLockFile(l) ==
    /\ On(l, "release")
    /\ migrationLock' = None
    /\ Goes(l, "open")
    /\ UNCHANGED <<directories, odd>> /\ Instances

-----------------------------------------------------------------------------
(* Instances. *)

\* The single-instance lock of the directory decides; an instance fills it.
OpenProfile(l) ==
    LET d == launchers[l].directory IN
    /\ On(l, "open")
    /\ \/ /\ ~launchers[l].explicit /\ holder[d] = None
          /\ holder' = [holder EXCEPT ![d] = l]
          /\ directories' = IF Populated(d) THEN directories
                            ELSE [directories EXCEPT ![d] = "fresh"]
          /\ taken' = IF d = "legacy" THEN Launcher ELSE taken
          /\ Goes(l, "running")
       \/ /\ launchers[l].explicit \/ holder[d] # None
          /\ Goes(l, "over") /\ UNCHANGED <<holder, directories, taken>>
    /\ UNCHANGED <<odd, migrationLock, deaths>>

\* An instance ends, by itself or not; its mark is then that of a dead process.
EndInstance(l) ==
    /\ On(l, "running") /\ Goes(l, "over")
    /\ holder' = [p \in Place |-> IF holder[p] = l THEN None ELSE holder[p]]
    /\ Files /\ UNCHANGED <<taken, deaths>>

LauncherDies(l) ==
    /\ deaths < MaxDeaths /\ ~On(l, "over") /\ ~On(l, "running")
    /\ Goes(l, "over") /\ deaths' = deaths + 1
    /\ Files /\ UNCHANGED <<holder, taken>>

OldInstanceStarts ==
    /\ directories["legacy"] = "user" /\ holder["legacy"] = None
    /\ holder' = [holder EXCEPT !["legacy"] = Old]
    /\ taken' = Launcher
    /\ Files /\ UNCHANGED <<launchers, deaths>>

OldInstanceEnds ==
    /\ holder["legacy"] = Old
    /\ holder' = [holder EXCEPT !["legacy"] = None]
    /\ Files /\ UNCHANGED <<launchers, taken, deaths>>

ProfileNext ==
    \/ \E l \in Launcher :
          \/ ConfigureUserData(l)
          \/ InspectLegacy(l)
          \/ Probe(l)
          \/ InspectTarget(l)
          \/ CreateLockFile(l)
          \/ SignLockFile(l)
          \/ ReadLockFile(l)
          \/ ClearLockFile(l)
          \/ InspectAgain(l)
          \/ InspectLatest(l)
          \/ RemoveEmptyDirectory(l)
          \/ Rename(l)
          \/ RemoveLockFile(l)
          \/ OpenProfile(l)
          \/ EndInstance(l)
          \/ LauncherDies(l)
    \/ OldInstanceStarts
    \/ OldInstanceEnds
ProfileSpec == ProfileInit /\ [][ProfileNext]_profileVars

-----------------------------------------------------------------------------
(* The legacy profile is moved by a launcher without explicit arguments only,   *)
(* never from under an instance that was running on it, with a mark that        *)
(* launcher could read, when it looked, and never as a link: whoever else        *)
(* starts, migrates, dies or clears a lock in between.                          *)
ProfileInUseStays ==
    [][Populated("legacy") /\ directories'["legacy"] = "absent" =>
         /\ odd["legacy"] = "plain"
         /\ \E l \in Launcher :
               /\ On(l, "move") /\ launchers'[l].step = "release"
               /\ ~launchers[l].explicit
               /\ holder["legacy"] = None \/ l \in taken]_profileVars
=============================================================================
