------------------------------ MODULE HomeProofs ------------------------------
(***************************************************************************)
(* The home and data of an environment, for every set of generations and   *)
(* files and any number of crashes, I/O errors and damaged copies: the     *)
(* state keeps its type, no file is lost, the profile of the active        *)
(* generation is published, a process finds every file, and a conflict is  *)
(* reported only of directories that cannot be brought together.           *)
(*                                                                         *)
(* NothingLost is not inductive.  What makes the removal of a source safe  *)
(* is that its copy is in place, what makes the publication of a copy safe *)
(* is that nothing was in its place, and both must survive whatever else   *)
(* runs during a migration: a managed process, which writes to the trees,  *)
(* and a change, which moves the pointer.  So the invariant also says that *)
(* no process runs on a tree that is being moved (LegacyProcess,           *)
(* EnvironmentProcess) and that no commit runs during a migration          *)
(* (Exclusive).                                                            *)
(***************************************************************************)
EXTENDS EnvironmentHome, TLAPS

OldTree == (SUBSET (UserFile \cup {Session})) \cup {None}

\* Profiles, patches and scratch are never in a generation, a digest or a copy.
Types ==
  /\ TypeOK
  /\ legacy \in [Gen -> [Kind -> OldTree]]
  /\ \A k \in Kind : record[k].digest \in OldTree
  /\ job.copy \in OldTree

\* A change has a generation; no change is one record.
Changes ==
  IF change.kind = "none" THEN change = NoChange ELSE change.gen \in Gen

\* No commit runs during a migration.
Exclusive ==
  job.purpose # "none" =>
    /\ mode # "down"
    /\ mode = "serving" => change.step \in {"none", "install", "stage"}

\* A process of an earlier build runs on the active generation, which no
\* migration and no change touches.
LegacyProcess ==
  process = "legacy" =>
    /\ active \in Gen /\ change = NoChange
    /\ mode = "down" \/ state = "running"
    /\ job.purpose = "none" \/ (job.purpose = "recover" /\ job.step = "done")

\* A process of this build runs on trees whose migration is over.
EnvironmentProcess ==
  process = "environment" => \A k \in Kind : record[k].state = "finalized"

\* The copy, its place and its source at each step of a migration.
Copying ==
  job.purpose # "none" =>
    LET k == job.kind IN
    /\ job.step \in {"record", "publish", "confirm", "remove", "finalize"} =>
         record[k].state # "finalized"
    /\ job.step \in {"record", "publish", "confirm"} =>
         active \in Gen /\ job.copy # None /\ job.copy = Source(k)
    /\ job.step \in {"record", "publish"} => target[k] = None
    /\ job.step = "confirm" => target[k] = job.copy
    /\ job.step = "remove" =>
         /\ active \in Gen /\ Source(k) # None
         /\ target[k] # None /\ Source(k) \subseteq target[k]

\* A start or a switch reaches the end of a migration through both trees.
Advance ==
  job.purpose \in {"start", "switch"} =>
    /\ job.kind = "data" => record["home"].state = "finalized"
    /\ job.step = "done" => job.kind = "data" /\ record["data"].state = "finalized"

\* NothingLost, file by file.
Held(k, f) ==
  \/ target[k] # None /\ f \in target[k]
  \/ \E g \in Gen : legacy[g][k] # None /\ f \in legacy[g][k]

Kept == \A k \in Kind : \A f \in written[k] : Held(k, f)

\* The profile of a generation about to be named is published, and a generation
\* is named only after it was recorded.
Profiles ==
  /\ active \in recorded \cup {None}
  /\ change.step \in {"install", "stage"} => change.gen # active
  /\ change.step \in {"home", "data", "pointer"} /\ change.gen \in profiled =>
       target["home"] # None /\ change.gen \in target["home"]

\* The inductive invariant.
HomeInv ==
  /\ Types /\ Changes /\ Exclusive /\ LegacyProcess /\ EnvironmentProcess
  /\ Copying /\ Advance /\ Kept /\ Profiles /\ ActiveProfilePublished

\* The vocabulary of the actions.
USE DEF Kind, At, GoTo, Source, Pending, SourceIntact, PublishedIsOurs, NextTree,
    GiveUp, WriteRecord, KeptByMigration, Idle, Migrating, NoChange, NoRecord,
    Serving, Made, KeptByChange, disk, history, Undone, Fresh, NothingToCopy

\* A directory that is made and gets a file is there and keeps its files.
LEMMA Grows ==
  \A tree \in Tree, f \in File :
    /\ Made(tree) \cup {f} \in SUBSET File /\ Made(tree) \cup {f} # None
    /\ f \in Made(tree) \cup {f}
    /\ tree # None => tree \subseteq Made(tree) \cup {f}
<1> TAKE tree \in Tree, f \in File
<1>1. tree \in SUBSET File \/ tree = None
  BY DEF Tree
<1>2. Made(tree) \in SUBSET File
  BY <1>1
<1>3. Made(tree) \cup {f} \in SUBSET File
  BY <1>2
<1>4. Made(tree) \cup {f} # None
  BY <1>3, FilesAssumption
<1> QED
  BY <1>3, <1>4

\* A migration that goes on to the next tree or ends keeps the type of job.
Jobs == [purpose: {"none", "recover", "start", "switch"}, kind: Kind, copy: Tree,
         step: {"read", "record", "publish", "confirm", "remove", "finalize", "done"}]

LEMMA JobTypes ==
  ASSUME Types
  PROVE  /\ NextTree \/ GiveUp => job' \in Jobs /\ job'.copy \in OldTree
         /\ \A p \in {"recover", "start", "switch"} :
              /\ Migrating(p) \in Jobs /\ [Migrating(p) EXCEPT !.step = "done"] \in Jobs
              /\ Migrating(p).copy = None
              /\ [Migrating(p) EXCEPT !.step = "done"].copy = None
<1>1. None \in Tree /\ None \in OldTree /\ job \in Jobs
  BY DEF Tree, OldTree, Types, TypeOK, Jobs
<1>2. NextTree => job' \in Jobs /\ job'.copy = None
  BY <1>1 DEF Jobs
<1>3. GiveUp => job' \in Jobs /\ job'.copy = None
  <2>1. Idle \in Jobs /\ Idle.copy = None
    BY <1>1 DEF Jobs
  <2>2. /\ [job EXCEPT !.step = "done", !.copy = None] \in Jobs
        /\ [job EXCEPT !.step = "done", !.copy = None].copy = None
    BY <1>1 DEF Jobs
  <2> QED
    BY <2>1, <2>2
<1> QED
  BY <1>1, <1>2, <1>3 DEF Jobs

\* Every action keeps the type of every variable.
LEMMA TypesStep == HomeInv /\ [Next]_vars => Types'
<1> SUFFICES ASSUME HomeInv, Next PROVE Types'
  BY DEF HomeInv, vars, Types, TypeOK
<1> USE FilesAssumption, HomeBounds DEF HomeInv, Types, TypeOK, OldTree, Tree, ChangeKinds
<1>1. ASSUME NEW k \in Kind, AlreadyFinalized(k) PROVE Types'
  <2>1. job' \in Jobs /\ job'.copy \in OldTree
    BY <1>1, JobTypes DEF AlreadyFinalized
  <2>2. \A k1 \in Kind : record'[k1].digest \in OldTree
    BY <1>1 DEF AlreadyFinalized
  <2> QED
    BY <1>1, <2>1, <2>2 DEF AlreadyFinalized, Jobs
<1>2. ASSUME NEW k \in Kind, FinalizeAtOnce(k) PROVE Types'
  <2>1. job' \in Jobs /\ job'.copy \in OldTree
    BY <1>2, JobTypes DEF FinalizeAtOnce
  <2>2. \A k1 \in Kind : record'[k1].digest \in OldTree
    BY <1>2 DEF FinalizeAtOnce
  <2> QED
    BY <1>2, <2>1, <2>2 DEF FinalizeAtOnce, Jobs
<1>3. ASSUME NEW k \in Kind, ResumeRemoval(k) PROVE Types'
  BY <1>3 DEF ResumeRemoval
<1>4. ASSUME NEW k \in Kind, Copy(k) PROVE Types'
  <2>1. Source(k) \in Tree /\ Source(k) \in OldTree
    BY <1>4 DEF Copy
  <2>2. job' \in Jobs /\ job'.copy \in OldTree
    BY <1>4, <2>1 DEF Copy, Jobs
  <2> QED
    BY <1>4, <2>2 DEF Copy, Jobs
<1>5. ASSUME NEW k \in Kind, Conflict(k) PROVE Types'
  <2>1. job' \in Jobs /\ job'.copy \in OldTree
    BY <1>5, JobTypes DEF Conflict
  <2>2. \A k1 \in Kind : record'[k1].digest \in OldTree
    BY <1>5 DEF Conflict
  <2> QED
    BY <1>5, <2>1, <2>2 DEF Conflict, Jobs
<1>6. ASSUME NEW k \in Kind, WriteCopying(k) PROVE Types'
  BY <1>6 DEF WriteCopying
<1>7. ASSUME NEW k \in Kind, Publish(k) PROVE Types'
  BY <1>7 DEF Publish
<1>8. ASSUME NEW k \in Kind, WriteCopied(k) PROVE Types'
  BY <1>8 DEF WriteCopied
<1>9. ASSUME NEW k \in Kind, RemoveSource(k) PROVE Types'
  BY <1>9 DEF RemoveSource, Copying
<1>10. ASSUME NEW k \in Kind, WriteFinalized(k) PROVE Types'
  <2>1. job' \in Jobs /\ job'.copy \in OldTree
    BY <1>10, JobTypes DEF WriteFinalized
  <2>2. \A k1 \in Kind : record'[k1].digest \in OldTree
    BY <1>10 DEF WriteFinalized
  <2> QED
    BY <1>10, <2>1, <2>2 DEF WriteFinalized, Jobs
<1>11. CASE IoError
  <2>1. job' \in Jobs /\ job'.copy \in OldTree
    BY <1>11, JobTypes DEF IoError
  <2>2. \A k1 \in Kind : record'[k1].digest \in OldTree
    BY <1>11 DEF IoError
  <2> QED
    BY <1>11, <2>1, <2>2 DEF IoError, Jobs
<1>12. CASE CreateEnvironment
  BY <1>12 DEF CreateEnvironment
<1>13. CASE SwitchCombination
  BY <1>13 DEF SwitchCombination
<1>14. CASE SwitchAccepted
  BY <1>14 DEF SwitchAccepted
<1>15. CASE ApplyChange
  BY <1>15 DEF ApplyChange
<1>16. CASE RestoreGeneration
  BY <1>16 DEF RestoreGeneration
<1>17. CASE Start
  BY <1>17 DEF Start
<1>18. CASE Launch
  BY <1>18 DEF Launch
<1>19. CASE Stop
  BY <1>19 DEF Stop
<1>20. CASE PatchEntry
  BY <1>20 DEF PatchEntry, File
<1>21. CASE RunExecutor
  BY <1>21 DEF RunExecutor, File
<1>22. CASE InstallReturns
  BY <1>22 DEF InstallReturns, Changes
<1>23. CASE InstallFails
  BY <1>23 DEF InstallFails
<1>24. CASE MakeDirectories
  BY <1>24 DEF MakeDirectories
<1>25. CASE PublishProfile
  BY <1>25 DEF PublishProfile, File
<1>26. ASSUME NEW k \in Kind, RecordFinalized(k) PROVE Types'
  BY <1>26 DEF RecordFinalized
<1>27. CASE MovePointer
  BY <1>27 DEF MovePointer, Changes
<1>28. CASE RemoveJournal
  BY <1>28 DEF RemoveJournal
<1>29. CASE Boot
  <2>1. job' \in Jobs /\ job'.copy \in OldTree
    BY <1>29, JobTypes DEF Boot
  <2>2. \A k1 \in Kind : record'[k1].digest \in OldTree
    BY <1>29 DEF Boot
  <2> QED
    BY <1>29, <2>1, <2>2 DEF Boot, Jobs
<1>30. CASE RecoverJournals
  BY <1>30 DEF RecoverJournals
<1>31. CASE Crash
  BY <1>31 DEF Crash
<1>32. ASSUME NEW k \in Kind, ProcessWrites(k) PROVE Types'
  BY <1>32 DEF ProcessWrites, LegacyProcess, File
<1>33. CASE ProcessExits
  BY <1>33 DEF ProcessExits
<1>34. ASSUME NEW k \in Kind, Truncate(k) PROVE Types'
  BY <1>34 DEF Truncate
<1> QED
  BY <1>1, <1>2, <1>3, <1>4, <1>5, <1>6, <1>7, <1>8, <1>9, <1>10, <1>11, <1>12,
    <1>13, <1>14, <1>15, <1>16, <1>17, <1>18, <1>19, <1>20, <1>21, <1>22, <1>23,
    <1>24, <1>25, <1>26, <1>27, <1>28, <1>29, <1>30, <1>31, <1>32, <1>33, <1>34
  DEF Next, Requests, Progress, Surroundings, MigrateTree

\* A change has a generation from the request to its end.
LEMMA ChangesStep == HomeInv /\ [Next]_vars => Changes'
<1> SUFFICES ASSUME HomeInv, Next PROVE Changes'
  BY DEF HomeInv, vars, Changes
<1> USE FilesAssumption DEF HomeInv, Changes
<1>1. CASE CreateEnvironment
  BY <1>1 DEF CreateEnvironment
<1>2. CASE SwitchAccepted
  BY <1>2 DEF SwitchAccepted
<1>3. CASE ApplyChange
  BY <1>3 DEF ApplyChange
<1>4. CASE RestoreGeneration
  BY <1>4 DEF RestoreGeneration, Types, TypeOK, OldTree
<1>5. CASE RunExecutor
  BY <1>5 DEF RunExecutor, Types, TypeOK, OldTree
<1>6. CASE InstallReturns
  BY <1>6 DEF InstallReturns, Types, TypeOK, OldTree
<1>7. CASE InstallFails
  BY <1>7 DEF InstallFails
<1>8. CASE MakeDirectories
  BY <1>8 DEF MakeDirectories, Types, TypeOK, OldTree
<1>9. CASE PublishProfile
  BY <1>9 DEF PublishProfile, Types, TypeOK, OldTree
<1>10. ASSUME NEW k \in Kind, RecordFinalized(k) PROVE Changes'
  BY <1>10 DEF RecordFinalized, Types, TypeOK, OldTree
<1>11. CASE MovePointer
  BY <1>11 DEF MovePointer, Types, TypeOK, OldTree
<1>12. CASE RemoveJournal
  BY <1>12 DEF RemoveJournal
<1>13. CASE Boot
  BY <1>13 DEF Boot
<1>14. CASE RecoverJournals
  BY <1>14 DEF RecoverJournals
<1>15. CASE Crash
  BY <1>15 DEF Crash
<1> QED
  BY <1>1, <1>2, <1>3, <1>4, <1>5, <1>6, <1>7, <1>8, <1>9, <1>10, <1>11, <1>12,
    <1>13, <1>14, <1>15
  DEF Next, Requests, Progress, Surroundings, MigrateTree, AlreadyFinalized,
    FinalizeAtOnce, ResumeRemoval, Copy, Conflict, WriteCopying, Publish,
    WriteCopied, RemoveSource, WriteFinalized, IoError, SwitchCombination, Start,
    Launch, Stop, PatchEntry, ProcessWrites, ProcessExits, Truncate

\* A migration starts between commits and ends before the next one.
LEMMA ExclusiveStep == HomeInv /\ [Next]_vars => Exclusive'
<1> SUFFICES ASSUME HomeInv, Next PROVE Exclusive'
  BY DEF HomeInv, vars, Exclusive
<1> USE FilesAssumption DEF HomeInv, Exclusive
<1>1. ASSUME NEW k \in Kind, AlreadyFinalized(k) PROVE Exclusive'
  BY <1>1 DEF AlreadyFinalized
<1>2. ASSUME NEW k \in Kind, FinalizeAtOnce(k) PROVE Exclusive'
  BY <1>2 DEF FinalizeAtOnce
<1>3. ASSUME NEW k \in Kind, ResumeRemoval(k) PROVE Exclusive'
  BY <1>3 DEF ResumeRemoval
<1>4. ASSUME NEW k \in Kind, Copy(k) PROVE Exclusive'
  BY <1>4 DEF Copy
<1>5. ASSUME NEW k \in Kind, Conflict(k) PROVE Exclusive'
  BY <1>5 DEF Conflict
<1>6. ASSUME NEW k \in Kind, WriteCopying(k) PROVE Exclusive'
  BY <1>6 DEF WriteCopying
<1>7. ASSUME NEW k \in Kind, Publish(k) PROVE Exclusive'
  BY <1>7 DEF Publish
<1>8. ASSUME NEW k \in Kind, WriteCopied(k) PROVE Exclusive'
  BY <1>8 DEF WriteCopied
<1>9. ASSUME NEW k \in Kind, RemoveSource(k) PROVE Exclusive'
  BY <1>9 DEF RemoveSource
<1>10. ASSUME NEW k \in Kind, WriteFinalized(k) PROVE Exclusive'
  BY <1>10 DEF WriteFinalized
<1>11. CASE IoError
  BY <1>11 DEF IoError
<1>12. CASE CreateEnvironment
  BY <1>12 DEF CreateEnvironment
<1>13. CASE SwitchCombination
  BY <1>13 DEF SwitchCombination
<1>14. CASE SwitchAccepted
  BY <1>14 DEF SwitchAccepted
<1>15. CASE ApplyChange
  BY <1>15 DEF ApplyChange
<1>16. CASE RestoreGeneration
  BY <1>16 DEF RestoreGeneration
<1>17. CASE Start
  BY <1>17 DEF Start
<1>18. CASE Launch
  BY <1>18 DEF Launch
<1>19. CASE RunExecutor
  BY <1>19 DEF RunExecutor
<1>20. CASE InstallReturns
  BY <1>20 DEF InstallReturns
<1>21. CASE InstallFails
  BY <1>21 DEF InstallFails
<1>22. CASE MakeDirectories
  BY <1>22 DEF MakeDirectories
<1>23. CASE PublishProfile
  BY <1>23 DEF PublishProfile
<1>24. ASSUME NEW k \in Kind, RecordFinalized(k) PROVE Exclusive'
  BY <1>24 DEF RecordFinalized, Types, TypeOK, OldTree
<1>25. CASE MovePointer
  BY <1>25 DEF MovePointer
<1>26. CASE RemoveJournal
  BY <1>26 DEF RemoveJournal
<1>27. CASE Boot
  BY <1>27 DEF Boot
<1>28. CASE RecoverJournals
  BY <1>28 DEF RecoverJournals
<1>29. CASE Crash
  BY <1>29 DEF Crash
<1> QED
  BY <1>1, <1>2, <1>3, <1>4, <1>5, <1>6, <1>7, <1>8, <1>9, <1>10, <1>11, <1>12,
    <1>13, <1>14, <1>15, <1>16, <1>17, <1>18, <1>19, <1>20, <1>21, <1>22, <1>23,
    <1>24, <1>25, <1>26, <1>27, <1>28, <1>29
  DEF Next, Requests, Progress, Surroundings, MigrateTree, Stop, PatchEntry,
    ProcessWrites, ProcessExits, Truncate

\* What stops, refuses or waits for a process of an earlier build.
LEMMA LegacyProcessStep == HomeInv /\ [Next]_vars => LegacyProcess'
<1> SUFFICES ASSUME HomeInv, Next PROVE LegacyProcess'
  BY DEF HomeInv, vars, LegacyProcess
<1> USE FilesAssumption DEF HomeInv, LegacyProcess
<1>1. ASSUME NEW k \in Kind, AlreadyFinalized(k) PROVE LegacyProcess'
  BY <1>1 DEF AlreadyFinalized
<1>2. ASSUME NEW k \in Kind, FinalizeAtOnce(k) PROVE LegacyProcess'
  BY <1>2 DEF FinalizeAtOnce
<1>3. ASSUME NEW k \in Kind, ResumeRemoval(k) PROVE LegacyProcess'
  BY <1>3 DEF ResumeRemoval
<1>4. ASSUME NEW k \in Kind, Copy(k) PROVE LegacyProcess'
  BY <1>4 DEF Copy
<1>5. ASSUME NEW k \in Kind, Conflict(k) PROVE LegacyProcess'
  BY <1>5 DEF Conflict
<1>6. ASSUME NEW k \in Kind, WriteCopying(k) PROVE LegacyProcess'
  BY <1>6 DEF WriteCopying
<1>7. ASSUME NEW k \in Kind, Publish(k) PROVE LegacyProcess'
  BY <1>7 DEF Publish
<1>8. ASSUME NEW k \in Kind, WriteCopied(k) PROVE LegacyProcess'
  BY <1>8 DEF WriteCopied
<1>9. ASSUME NEW k \in Kind, RemoveSource(k) PROVE LegacyProcess'
  BY <1>9 DEF RemoveSource
<1>10. ASSUME NEW k \in Kind, WriteFinalized(k) PROVE LegacyProcess'
  BY <1>10 DEF WriteFinalized
<1>11. CASE IoError
  BY <1>11 DEF IoError
<1>12. CASE CreateEnvironment
  BY <1>12 DEF CreateEnvironment
<1>13. CASE SwitchCombination
  BY <1>13 DEF SwitchCombination
<1>14. CASE SwitchAccepted
  BY <1>14 DEF SwitchAccepted
<1>15. CASE ApplyChange
  BY <1>15 DEF ApplyChange
<1>16. CASE RestoreGeneration
  BY <1>16 DEF RestoreGeneration
<1>17. CASE Start
  BY <1>17 DEF Start
<1>18. CASE Launch
  BY <1>18 DEF Launch
<1>19. CASE Stop
  BY <1>19 DEF Stop
<1>20. CASE RunExecutor
  BY <1>20 DEF RunExecutor, Types, TypeOK, OldTree
<1>21. CASE InstallReturns
  BY <1>21 DEF InstallReturns, Types, TypeOK, OldTree
<1>22. CASE InstallFails
  BY <1>22 DEF InstallFails
<1>23. CASE MakeDirectories
  BY <1>23 DEF MakeDirectories, Types, TypeOK, OldTree
<1>24. CASE PublishProfile
  BY <1>24 DEF PublishProfile, Types, TypeOK, OldTree
<1>25. ASSUME NEW k \in Kind, RecordFinalized(k) PROVE LegacyProcess'
  BY <1>25 DEF RecordFinalized, Types, TypeOK, OldTree
<1>26. CASE MovePointer
  BY <1>26 DEF MovePointer, Types, TypeOK, OldTree
<1>27. CASE RemoveJournal
  BY <1>27 DEF RemoveJournal
<1>28. CASE Boot
  BY <1>28 DEF Boot
<1>29. CASE RecoverJournals
  BY <1>29 DEF RecoverJournals, Exclusive
<1>30. CASE Crash
  BY <1>30 DEF Crash
<1>31. CASE ProcessExits
  BY <1>31 DEF ProcessExits
<1> QED
  BY <1>1, <1>2, <1>3, <1>4, <1>5, <1>6, <1>7, <1>8, <1>9, <1>10, <1>11, <1>12,
    <1>13, <1>14, <1>15, <1>16, <1>17, <1>18, <1>19, <1>20, <1>21, <1>22, <1>23,
    <1>24, <1>25, <1>26, <1>27, <1>28, <1>29, <1>30, <1>31
  DEF Next, Requests, Progress, Surroundings, MigrateTree, PatchEntry,
    ProcessWrites, Truncate

\* A process is launched after both migrations, and none starts again.
LEMMA EnvironmentProcessStep == HomeInv /\ [Next]_vars => EnvironmentProcess'
<1> SUFFICES ASSUME HomeInv, Next PROVE EnvironmentProcess'
  BY DEF HomeInv, vars, EnvironmentProcess
<1> USE FilesAssumption DEF HomeInv, EnvironmentProcess
<1>1. ASSUME NEW k \in Kind, FinalizeAtOnce(k) PROVE EnvironmentProcess'
  BY <1>1 DEF FinalizeAtOnce
<1>2. ASSUME NEW k \in Kind, WriteCopying(k) PROVE EnvironmentProcess'
  BY <1>2 DEF WriteCopying, Copying
<1>3. ASSUME NEW k \in Kind, WriteCopied(k) PROVE EnvironmentProcess'
  BY <1>3 DEF WriteCopied, Copying
<1>4. ASSUME NEW k \in Kind, WriteFinalized(k) PROVE EnvironmentProcess'
  BY <1>4 DEF WriteFinalized
<1>5. CASE Launch
  BY <1>5 DEF Launch, Advance, Types, TypeOK, OldTree
<1>6. CASE Stop
  BY <1>6 DEF Stop
<1>7. ASSUME NEW k \in Kind, RecordFinalized(k) PROVE EnvironmentProcess'
  BY <1>7 DEF RecordFinalized
<1>8. CASE ProcessExits
  BY <1>8 DEF ProcessExits
<1> QED
  BY <1>1, <1>2, <1>3, <1>4, <1>5, <1>6, <1>7, <1>8
  DEF Next, Requests, Progress, Surroundings, MigrateTree, AlreadyFinalized,
    ResumeRemoval, Copy, Conflict, Publish, RemoveSource, IoError,
    CreateEnvironment, SwitchCombination, SwitchAccepted, ApplyChange,
    RestoreGeneration, Start, PatchEntry, RunExecutor, InstallReturns,
    InstallFails, MakeDirectories, PublishProfile, MovePointer, RemoveJournal,
    Boot, RecoverJournals, Crash, ProcessWrites, Truncate

\* Each step of a migration finds what the step before it left.
LEMMA CopyingStep == HomeInv /\ [Next]_vars => Copying'
<1> SUFFICES ASSUME HomeInv, Next PROVE Copying'
  BY DEF HomeInv, vars, Copying
<1> USE FilesAssumption DEF HomeInv, Copying
<1>1. ASSUME NEW k \in Kind, AlreadyFinalized(k) PROVE Copying'
  BY <1>1 DEF AlreadyFinalized
<1>2. ASSUME NEW k \in Kind, FinalizeAtOnce(k) PROVE Copying'
  BY <1>2 DEF FinalizeAtOnce
<1>3. ASSUME NEW k \in Kind, ResumeRemoval(k) PROVE Copying'
  BY <1>3 DEF ResumeRemoval, Types, TypeOK, OldTree
<1>4. ASSUME NEW k \in Kind, Copy(k) PROVE Copying'
  BY <1>4 DEF Copy, Types, TypeOK, OldTree
<1>5. ASSUME NEW k \in Kind, Conflict(k) PROVE Copying'
  BY <1>5 DEF Conflict
<1>6. ASSUME NEW k \in Kind, WriteCopying(k) PROVE Copying'
  BY <1>6 DEF WriteCopying, Types, TypeOK, OldTree
<1>7. ASSUME NEW k \in Kind, Publish(k) PROVE Copying'
  BY <1>7 DEF Publish, Types, TypeOK, OldTree
<1>8. ASSUME NEW k \in Kind, WriteCopied(k) PROVE Copying'
  BY <1>8 DEF WriteCopied, Types, TypeOK, OldTree
<1>9. ASSUME NEW k \in Kind, RemoveSource(k) PROVE Copying'
  <2>1. job.purpose # "none" /\ job.kind = k /\ active \in Gen /\ legacy[active][k] # None
        /\ target[k] # None /\ legacy[active][k] \subseteq target[k] /\ active # None
    BY <1>9 DEF RemoveSource, File
  <2>2. CASE legacy[active][k] = {}
    BY <1>9, <2>1, <2>2 DEF RemoveSource, Types, TypeOK
  <2>3. CASE legacy[active][k] # {}
    <3>1. PICK f \in legacy[active][k] :
            legacy' = [legacy EXCEPT ![active][k] = @ \ {f}] /\ UNCHANGED job
      BY <1>9, <2>1, <2>3 DEF RemoveSource
    <3>2. legacy'[active][k] = legacy[active][k] \ {f}
      BY <2>1, <3>1 DEF Types, TypeOK
    <3>3. legacy[active][k] \in SUBSET File
      BY <2>1 DEF Types, TypeOK, Tree
    <3>4. legacy'[active][k] # None
      BY <3>2, <3>3
    <3> QED
      BY <1>9, <2>1, <3>1, <3>2, <3>4 DEF RemoveSource
  <2> QED
    BY <2>2, <2>3
<1>10. ASSUME NEW k \in Kind, WriteFinalized(k) PROVE Copying'
  BY <1>10 DEF WriteFinalized
<1>11. CASE IoError
  BY <1>11 DEF IoError
<1>12. CASE SwitchCombination
  BY <1>12 DEF SwitchCombination
<1>13. CASE SwitchAccepted
  BY <1>13 DEF SwitchAccepted
<1>14. CASE Start
  BY <1>14 DEF Start
<1>15. CASE Launch
  BY <1>15 DEF Launch
<1>16. CASE PatchEntry
  BY <1>16 DEF PatchEntry
<1>17. CASE RunExecutor
  BY <1>17 DEF RunExecutor
<1>18. CASE MakeDirectories
  BY <1>18 DEF MakeDirectories, Exclusive
<1>19. CASE PublishProfile
  BY <1>19 DEF PublishProfile, Exclusive
<1>20. ASSUME NEW k \in Kind, RecordFinalized(k) PROVE Copying'
  BY <1>20 DEF RecordFinalized, Exclusive, Types, TypeOK, OldTree
<1>21. CASE MovePointer
  BY <1>21 DEF MovePointer, Exclusive
<1>22. CASE Boot
  BY <1>22 DEF Boot
<1>23. CASE RecoverJournals
  BY <1>23 DEF RecoverJournals
<1>24. CASE Crash
  BY <1>24 DEF Crash
<1>25. ASSUME NEW k \in Kind, ProcessWrites(k) PROVE Copying'
  BY <1>25 DEF ProcessWrites, LegacyProcess, EnvironmentProcess, Types, TypeOK,
    OldTree
<1>26. ASSUME NEW k \in Kind, Truncate(k) PROVE Copying'
  BY <1>26 DEF Truncate, Exclusive
<1> QED
  BY <1>1, <1>2, <1>3, <1>4, <1>5, <1>6, <1>7, <1>8, <1>9, <1>10, <1>11, <1>12,
    <1>13, <1>14, <1>15, <1>16, <1>17, <1>18, <1>19, <1>20, <1>21, <1>22, <1>23,
    <1>24, <1>25, <1>26
  DEF Next, Requests, Progress, Surroundings, MigrateTree, CreateEnvironment,
    ApplyChange, RestoreGeneration, Stop, InstallReturns, InstallFails,
    RemoveJournal, ProcessExits

\* A migration reaches its end through both trees.
LEMMA AdvanceStep == HomeInv /\ [Next]_vars => Advance'
<1> SUFFICES ASSUME HomeInv, Next PROVE Advance'
  BY DEF HomeInv, vars, Advance
<1> USE FilesAssumption DEF HomeInv, Advance
<1>1. ASSUME NEW k \in Kind, AlreadyFinalized(k) PROVE Advance'
  BY <1>1 DEF AlreadyFinalized, Types, TypeOK, OldTree
<1>2. ASSUME NEW k \in Kind, FinalizeAtOnce(k) PROVE Advance'
  BY <1>2 DEF FinalizeAtOnce, Types, TypeOK, OldTree
<1>3. ASSUME NEW k \in Kind, ResumeRemoval(k) PROVE Advance'
  BY <1>3 DEF ResumeRemoval
<1>4. ASSUME NEW k \in Kind, Copy(k) PROVE Advance'
  BY <1>4 DEF Copy
<1>5. ASSUME NEW k \in Kind, Conflict(k) PROVE Advance'
  BY <1>5 DEF Conflict
<1>6. ASSUME NEW k \in Kind, WriteCopying(k) PROVE Advance'
  BY <1>6 DEF WriteCopying
<1>7. ASSUME NEW k \in Kind, Publish(k) PROVE Advance'
  BY <1>7 DEF Publish
<1>8. ASSUME NEW k \in Kind, WriteCopied(k) PROVE Advance'
  BY <1>8 DEF WriteCopied
<1>9. ASSUME NEW k \in Kind, RemoveSource(k) PROVE Advance'
  BY <1>9 DEF RemoveSource, Types, TypeOK, OldTree
<1>10. ASSUME NEW k \in Kind, WriteFinalized(k) PROVE Advance'
  BY <1>10 DEF WriteFinalized, Types, TypeOK, OldTree
<1>11. CASE IoError
  BY <1>11 DEF IoError
<1>12. CASE SwitchCombination
  BY <1>12 DEF SwitchCombination
<1>13. CASE SwitchAccepted
  BY <1>13 DEF SwitchAccepted
<1>14. CASE Start
  BY <1>14 DEF Start
<1>15. CASE Launch
  BY <1>15 DEF Launch
<1>16. ASSUME NEW k \in Kind, RecordFinalized(k) PROVE Advance'
  BY <1>16 DEF RecordFinalized
<1>17. CASE Boot
  BY <1>17 DEF Boot
<1>18. CASE RecoverJournals
  BY <1>18 DEF RecoverJournals
<1>19. CASE Crash
  BY <1>19 DEF Crash
<1> QED
  BY <1>1, <1>2, <1>3, <1>4, <1>5, <1>6, <1>7, <1>8, <1>9, <1>10, <1>11, <1>12,
    <1>13, <1>14, <1>15, <1>16, <1>17, <1>18, <1>19
  DEF Next, Requests, Progress, Surroundings, MigrateTree, CreateEnvironment,
    ApplyChange, RestoreGeneration, Stop, PatchEntry, RunExecutor, InstallReturns,
    InstallFails, MakeDirectories, PublishProfile, MovePointer, RemoveJournal,
    ProcessWrites, ProcessExits, Truncate

\* A commit publishes its profile before it reaches the pointer.
LEMMA ProfilesStep == HomeInv /\ [Next]_vars => Profiles'
<1> SUFFICES ASSUME HomeInv, Next PROVE Profiles'
  BY DEF HomeInv, vars, Profiles
<1> USE FilesAssumption DEF HomeInv, Profiles
<1>1. ASSUME NEW k \in Kind, Publish(k) PROVE Profiles'
  BY <1>1 DEF Publish, Copying
<1>2. CASE CreateEnvironment
  BY <1>2 DEF CreateEnvironment, File
<1>3. CASE SwitchAccepted
  BY <1>3 DEF SwitchAccepted, File
<1>4. CASE ApplyChange
  BY <1>4 DEF ApplyChange
<1>5. CASE RestoreGeneration
  BY <1>5 DEF RestoreGeneration
<1>6. CASE PatchEntry
  BY <1>6 DEF PatchEntry
<1>7. CASE RunExecutor
  BY <1>7 DEF RunExecutor
<1>8. CASE InstallReturns
  BY <1>8 DEF InstallReturns
<1>9. CASE InstallFails
  BY <1>9 DEF InstallFails
<1>10. CASE MakeDirectories
  BY <1>10 DEF MakeDirectories
<1>11. CASE PublishProfile
  <2>1. change.gen \in profiled =>
          /\ target'["home"] # None /\ change.gen \in target'["home"]
          /\ target["home"] # None => target["home"] \subseteq target'["home"]
    BY <1>11, Grows DEF PublishProfile, Types, TypeOK, File
  <2>2. change.gen \notin profiled => target' = target
    BY <1>11 DEF PublishProfile
  <2> QED
    BY <1>11, <2>1, <2>2 DEF PublishProfile, Types, TypeOK
<1>12. ASSUME NEW k \in Kind, RecordFinalized(k) PROVE Profiles'
  BY <1>12 DEF RecordFinalized, Types, TypeOK, OldTree
<1>13. CASE MovePointer
  BY <1>13 DEF MovePointer
<1>14. CASE RemoveJournal
  BY <1>14 DEF RemoveJournal
<1>15. CASE Boot
  BY <1>15 DEF Boot
<1>16. CASE RecoverJournals
  BY <1>16 DEF RecoverJournals
<1>17. CASE Crash
  BY <1>17 DEF Crash
<1>18. ASSUME NEW k \in Kind, ProcessWrites(k) PROVE Profiles'
  <2>1. CASE process = "legacy"
    BY <1>18, <2>1 DEF ProcessWrites
  <2>2. CASE process # "legacy"
    <3>1. target' = [target EXCEPT ![k] = Made(@) \cup {Session}]
      BY <1>18, <2>2 DEF ProcessWrites
    <3>2. target["home"] \in Tree /\ Session \in File
      BY DEF Types, TypeOK, File
    <3>3. target["home"] # None =>
            target'["home"] # None /\ target["home"] \subseteq target'["home"]
      BY <3>1, <3>2, Grows DEF Types, TypeOK
    <3> QED
      BY <1>18, <3>3 DEF ProcessWrites
  <2> QED
    BY <2>1, <2>2
<1>19. ASSUME NEW k \in Kind, Truncate(k) PROVE Profiles'
  <2>1. target[k] # None /\ target[k] \cap Gen = {}
    BY <1>19 DEF Truncate, Types, OldTree
  <2> QED
    BY <1>19, <2>1 DEF Truncate, Types, TypeOK
<1> QED
  BY <1>1, <1>2, <1>3, <1>4, <1>5, <1>6, <1>7, <1>8, <1>9, <1>10, <1>11, <1>12,
    <1>13, <1>14, <1>15, <1>16, <1>17, <1>18, <1>19
  DEF Next, Requests, Progress, Surroundings, MigrateTree, AlreadyFinalized,
    FinalizeAtOnce, ResumeRemoval, Copy, Conflict, WriteCopying, WriteCopied,
    RemoveSource, WriteFinalized, IoError, SwitchCombination, Start, Launch, Stop,
    ProcessExits

\* The published profile of the active generation stays.
LEMMA ActiveProfilePublishedStep == HomeInv /\ [Next]_vars => ActiveProfilePublished'
<1> SUFFICES ASSUME HomeInv, Next PROVE ActiveProfilePublished'
  BY DEF HomeInv, vars, ActiveProfilePublished
<1> USE FilesAssumption DEF HomeInv, ActiveProfilePublished
<1>1. ASSUME NEW k \in Kind, Publish(k) PROVE ActiveProfilePublished'
  BY <1>1 DEF Publish, Copying
<1>2. CASE PatchEntry
  <2>1. target'["home"] # None /\ (target["home"] # None => target["home"] \subseteq target'["home"])
    BY <1>2, Grows DEF PatchEntry, Types, TypeOK, File
  <2> QED
    BY <1>2, <2>1 DEF PatchEntry
<1>3. CASE RunExecutor
  <2>1. target'["home"] # None /\ (target["home"] # None => target["home"] \subseteq target'["home"])
    BY <1>3, Grows DEF RunExecutor, Types, TypeOK, File
  <2> QED
    BY <1>3, <2>1 DEF RunExecutor
<1>4. CASE InstallReturns
  BY <1>4 DEF InstallReturns, Profiles
<1>5. CASE InstallFails
  BY <1>5 DEF InstallFails
<1>6. CASE MakeDirectories
  BY <1>6 DEF MakeDirectories
<1>7. CASE PublishProfile
  <2>1. change.gen \in profiled =>
          /\ target'["home"] # None /\ change.gen \in target'["home"]
          /\ target["home"] # None => target["home"] \subseteq target'["home"]
    BY <1>7, Grows DEF PublishProfile, Types, TypeOK, File
  <2>2. change.gen \notin profiled => target' = target
    BY <1>7 DEF PublishProfile
  <2> QED
    BY <1>7, <2>1, <2>2 DEF PublishProfile, Types, TypeOK
<1>8. CASE MovePointer
  BY <1>8 DEF MovePointer, Profiles
<1>9. CASE Boot
  BY <1>9 DEF Boot
<1>10. CASE RecoverJournals
  BY <1>10 DEF RecoverJournals
<1>11. ASSUME NEW k \in Kind, ProcessWrites(k) PROVE ActiveProfilePublished'
  <2>1. CASE process = "legacy"
    BY <1>11, <2>1 DEF ProcessWrites
  <2>2. CASE process # "legacy"
    <3>1. target' = [target EXCEPT ![k] = Made(@) \cup {Session}]
      BY <1>11, <2>2 DEF ProcessWrites
    <3>2. target["home"] \in Tree /\ Session \in File
      BY DEF Types, TypeOK, File
    <3>3. target["home"] # None =>
            target'["home"] # None /\ target["home"] \subseteq target'["home"]
      BY <3>1, <3>2, Grows DEF Types, TypeOK
    <3> QED
      BY <1>11, <3>3 DEF ProcessWrites
  <2> QED
    BY <2>1, <2>2
<1>12. ASSUME NEW k \in Kind, Truncate(k) PROVE ActiveProfilePublished'
  BY <1>12 DEF Truncate, Types, TypeOK, OldTree
<1> QED
  BY <1>1, <1>2, <1>3, <1>4, <1>5, <1>6, <1>7, <1>8, <1>9, <1>10, <1>11, <1>12
  DEF Next, Requests, Progress, Surroundings, MigrateTree, AlreadyFinalized,
    FinalizeAtOnce, ResumeRemoval, Copy, Conflict, WriteCopying, WriteCopied,
    RemoveSource, WriteFinalized, IoError, CreateEnvironment, SwitchCombination,
    SwitchAccepted, ApplyChange, RestoreGeneration, Start, Launch, Stop,
    RecordFinalized, RemoveJournal, Crash, ProcessExits

\* Files are kept when the environment's directories only grow.
LEMMA KeptByGrowth ==
  ASSUME Kept, UNCHANGED << legacy, written >>,
         \A k \in Kind : target[k] # None =>
           target'[k] # None /\ target[k] \subseteq target'[k]
  PROVE  Kept'
  BY DEF Kept, Held

\* Every file that was held somewhere is held somewhere.
LEMMA KeptStep == HomeInv /\ [Next]_vars => Kept'
<1> SUFFICES ASSUME HomeInv, Next PROVE Kept'
  BY DEF HomeInv, vars, Kept, Held
<1> USE FilesAssumption DEF HomeInv
<1>1. ASSUME NEW k \in Kind, Publish(k) PROVE Kept'
  BY <1>1, KeptByGrowth DEF Publish, Copying, Types, TypeOK
<1>2. ASSUME NEW k \in Kind, RemoveSource(k) PROVE Kept'
  <2>1. /\ active \in Gen /\ legacy[active][k] # None /\ UNCHANGED << target, written >>
        /\ target[k] # None /\ legacy[active][k] \subseteq target[k]
    BY <1>2 DEF RemoveSource, Copying, File
  <2>2. \A g \in Gen, j \in Kind : g # active \/ j # k => legacy'[g][j] = legacy[g][j]
    BY <1>2, <2>1 DEF RemoveSource, Types, TypeOK
  <2>3. ASSUME NEW j \in Kind, NEW f, Held(j, f) PROVE Held(j, f)'
    <3>1. CASE target[j] # None /\ f \in target[j]
      BY <2>1, <3>1 DEF Held
    <3>2. ASSUME NEW g \in Gen, legacy[g][j] # None, f \in legacy[g][j] PROVE Held(j, f)'
      BY <2>1, <2>2, <3>2 DEF Held
    <3> QED
      BY <2>3, <3>1, <3>2 DEF Held
  <2> QED
    BY <2>1, <2>3 DEF Kept
<1>3. CASE PatchEntry
  BY <1>3, KeptByGrowth, Grows DEF PatchEntry, Types, TypeOK, File
<1>4. CASE RunExecutor
  BY <1>4, KeptByGrowth, Grows DEF RunExecutor, Types, TypeOK, File
<1>5. CASE MakeDirectories
  BY <1>5, KeptByGrowth DEF MakeDirectories
<1>6. CASE PublishProfile
  <2>1. CASE change.gen \in profiled
    BY <1>6, <2>1, KeptByGrowth, Grows DEF PublishProfile, Types, TypeOK, File
  <2>2. CASE change.gen \notin profiled
    BY <1>6, <2>2, KeptByGrowth DEF PublishProfile
  <2> QED
    BY <2>1, <2>2
<1>7. ASSUME NEW k \in Kind, ProcessWrites(k) PROVE Kept'
  <2>1. written' = [written EXCEPT ![k] = @ \cup {Session}]
    BY <1>7 DEF ProcessWrites
  <2>2. CASE process = "legacy"
    <3>1. active \in Gen /\ UNCHANGED target
          /\ legacy' = [legacy EXCEPT ![active][k] = Made(@) \cup {Session}]
      BY <1>7, <2>2 DEF ProcessWrites, LegacyProcess
    <3>2. /\ legacy'[active][k] # None /\ Session \in legacy'[active][k]
          /\ legacy[active][k] # None => legacy[active][k] \subseteq legacy'[active][k]
      BY <3>1, Grows DEF Types, TypeOK, File
    <3>3. \A g \in Gen, j \in Kind : g # active \/ j # k => legacy'[g][j] = legacy[g][j]
      BY <3>1 DEF Types, TypeOK
    <3>4. ASSUME NEW j \in Kind, NEW f, Held(j, f) PROVE Held(j, f)'
      BY <3>1, <3>2, <3>3, <3>4 DEF Held
    <3>5. Held(k, Session)'
      BY <3>1, <3>2 DEF Held
    <3> QED
      BY <2>1, <3>4, <3>5 DEF Kept, Types, TypeOK
  <2>3. CASE process # "legacy"
    <3>1. /\ target' = [target EXCEPT ![k] = Made(@) \cup {Session}]
          /\ UNCHANGED legacy
      BY <1>7, <2>3 DEF ProcessWrites
    <3>2. /\ target'[k] # None /\ Session \in target'[k]
          /\ target[k] # None => target[k] \subseteq target'[k]
      BY <3>1, Grows DEF Types, TypeOK, File
    <3>3. ASSUME NEW j \in Kind, NEW f, Held(j, f) PROVE Held(j, f)'
      BY <3>1, <3>2, <3>3 DEF Held, Types, TypeOK
    <3>4. Held(k, Session)'
      BY <3>2 DEF Held
    <3> QED
      BY <2>1, <3>3, <3>4 DEF Kept, Types, TypeOK
  <2> QED
    BY <2>2, <2>3
<1>8. ASSUME NEW k \in Kind, Truncate(k) PROVE Kept'
  <2>1. /\ active \in Gen /\ target[k] = legacy[active][k] /\ target[k] # None
        /\ UNCHANGED << legacy, written >>
        /\ \A j \in Kind : j # k => target'[j] = target[j]
    BY <1>8 DEF Truncate, Types, TypeOK
  <2> QED
    BY <2>1 DEF Kept, Held
<1> QED
  BY <1>1, <1>2, <1>3, <1>4, <1>5, <1>6, <1>7, <1>8
  DEF Next, Requests, Progress, Surroundings, MigrateTree, Kept, Held,
    AlreadyFinalized, FinalizeAtOnce, ResumeRemoval, Copy, Conflict, WriteCopying,
    WriteCopied, WriteFinalized, IoError, CreateEnvironment, SwitchCombination,
    SwitchAccepted, ApplyChange, RestoreGeneration, Start, Launch, Stop,
    InstallReturns, InstallFails, RecordFinalized, MovePointer, RemoveJournal,
    Boot, RecoverJournals, Crash, ProcessExits

\* A new environment and one of an earlier build satisfy the invariant.
LEMMA HomeInit == Init => HomeInv
<1> SUFFICES ASSUME Init PROVE HomeInv
  OBVIOUS
<1> USE FilesAssumption, HomeBounds
<1>1. Types
  BY DEF Init, Types, TypeOK, OldTree, Tree, ChangeKinds, File
<1>2. Changes /\ Exclusive /\ Copying /\ Advance
  BY DEF Init, Changes, Exclusive, Copying, Advance
<1>3. LegacyProcess /\ EnvironmentProcess
  BY DEF Init, LegacyProcess, EnvironmentProcess
<1>4. Kept
  BY DEF Init, Kept, Held
<1>5. Profiles /\ ActiveProfilePublished
  BY DEF Init, Profiles, ActiveProfilePublished
<1> QED
  BY <1>1, <1>2, <1>3, <1>4, <1>5 DEF HomeInv

\* The inductive invariant holds in every state.
LEMMA HomeInvariance == Spec => []HomeInv
<1>1. HomeInv /\ [Next]_vars => HomeInv'
  BY TypesStep, ChangesStep, ExclusiveStep, LegacyProcessStep,
     EnvironmentProcessStep, CopyingStep, AdvanceStep, KeptStep, ProfilesStep,
     ActiveProfilePublishedStep DEF HomeInv
<1> QED
  BY HomeInit, <1>1, PTL DEF Spec

(***************************************************************************)
(* The theorems.                                                           *)
(***************************************************************************)
\* Every variable keeps its type, whatever crashes and fails.
THEOREM HomeTypes == Spec => []TypeOK
<1>1. HomeInv => TypeOK
  BY DEF HomeInv, Types
<1> QED
  BY HomeInvariance, <1>1, PTL

\* migrateTree loses no file of the user or of a process, at whatever step a
\* crash or an error ends it and whatever a process writes in between.
THEOREM NoLoss == Spec => []NothingLost
<1>1. HomeInv => NothingLost
  BY DEF HomeInv, Kept, Held, NothingLost, Trees
<1> QED
  BY HomeInvariance, <1>1, PTL

\* publishGenerationProfile comes before the pointer in every commit, and nothing
\* takes a profile that is named away.
THEOREM ProfilePublished == Spec => []ActiveProfilePublished
<1>1. HomeInv => ActiveProfilePublished
  BY DEF HomeInv
<1> QED
  BY HomeInvariance, <1>1, PTL

(***************************************************************************)
(* What a process of this build finds, and which conflicts are reported.   *)
(*                                                                         *)
(* Both need more of the past than NothingLost: which directory an earlier *)
(* build left and whether it is whole, what may lie in the environment's   *)
(* directories before their migration, and that the home is never missing  *)
(* once a generation is active.                                            *)
(***************************************************************************)
\* The directories of an earlier build: of a generation no change makes and no
\* restore names, and whole until their migration.
Earlier ==
  \A g \in Gen, k \in Kind : legacy[g][k] # None =>
    /\ g \in recorded /\ g \notin profiled /\ g # change.gen
    /\ record[k].state = "none" => legacy[g][k] = written[k]

\* A process of an earlier build writes to the only old directories.
EarlierProcess ==
  process = "legacy" => \A k \in Kind :
    /\ record[k].state = "none" /\ active \in recorded \ profiled
    /\ Made(Source(k)) = written[k]
    /\ \A g \in Gen \ {active} : legacy[g][k] = None

\* A tree whose migration is over has no source, one under way has the digest of
\* everything ever stored in it.
Settled ==
  \A k \in Kind :
    /\ record[k].state = "finalized" => Source(k) = None
    /\ Pending(k) => record[k].digest = written[k]

\* What a migration copies is everything ever stored.
CopyingAll ==
  job.purpose # "none" =>
    LET k == job.kind IN
    /\ job.step \in {"record", "publish", "confirm"} => job.copy = written[k]
    /\ job.step \in {"publish", "confirm", "remove", "finalize"} => Pending(k)
    /\ job.step = "finalize" => Source(k) = None

\* Where a change is, and of which environment.
Stages ==
  /\ state = "absent" => active = None
  /\ change.kind \in {"apply", "restore"} => active # None
  /\ job.purpose \in {"start", "switch"} => active # None /\ mode = "serving"
  /\ mode # "serving" => change.step \in {"none", "journal"}
  /\ change.step \in {"home", "data"} => change.kind = "create"
  /\ change.step = "directories" => change.kind \in {"create", "switch"}
  /\ change.step \in {"install", "stage"} => change.kind # "restore"
  /\ change.kind = "create" /\ change.step \notin {"committed", "journal"} => active = None
  /\ change.kind = "create" /\ change.step \in {"data", "pointer"} =>
       record["home"].state = "finalized"
  /\ change.kind = "create" /\ change.step = "pointer" => record["data"].state = "finalized"
  /\ change.kind = "switch" => \A k \in Kind : record[k].state = "finalized"

\* The home of an active generation is there, or still in the generation.
HomeThere ==
  /\ active # None => target["home"] # None \/ Source("home") # None
  /\ change.step = "publish" => change.gen \in profiled \/ target["home"] # None
  /\ change.step \in {"home", "data", "pointer"} => target["home"] # None
  /\ process = "environment" => \A k \in Kind : target[k] # None

\* Before its migration a directory of the environment is missing, or it has a
\* file that is no user's.
Foreign == Gen \cup {Patch, Scratch}

Untouched ==
  active # None => \A k \in Kind : record[k].state = "none" =>
    target[k] = None \/ \E f \in target[k] : f \in Foreign

PastInv ==
  /\ Earlier /\ EarlierProcess /\ Settled /\ CopyingAll /\ Stages /\ HomeThere /\ Untouched

\* What an earlier build left stays of its generation.
LEMMA EarlierStep == HomeInv /\ PastInv /\ [Next]_vars => Earlier'
<1> SUFFICES ASSUME HomeInv, PastInv, Next PROVE Earlier'
  BY DEF PastInv, vars, Earlier
<1> USE FilesAssumption DEF HomeInv, PastInv, Earlier
<1>1. ASSUME NEW k \in Kind, AlreadyFinalized(k) PROVE Earlier'
  BY <1>1 DEF AlreadyFinalized, Types, TypeOK, OldTree, File
<1>2. ASSUME NEW k \in Kind, FinalizeAtOnce(k) PROVE Earlier'
  BY <1>2 DEF FinalizeAtOnce, Types, TypeOK, OldTree, File
<1>3. ASSUME NEW k \in Kind, ResumeRemoval(k) PROVE Earlier'
  BY <1>3 DEF ResumeRemoval, Types, TypeOK, OldTree, File
<1>4. ASSUME NEW k \in Kind, Copy(k) PROVE Earlier'
  BY <1>4 DEF Copy, Types, TypeOK, OldTree, File
<1>5. ASSUME NEW k \in Kind, Conflict(k) PROVE Earlier'
  BY <1>5 DEF Conflict, Types, TypeOK, OldTree, File
<1>6. ASSUME NEW k \in Kind, WriteCopying(k) PROVE Earlier'
  BY <1>6 DEF WriteCopying, Types, TypeOK, OldTree, File
<1>7. ASSUME NEW k \in Kind, Publish(k) PROVE Earlier'
  BY <1>7 DEF Publish, Types, TypeOK, OldTree, File
<1>8. ASSUME NEW k \in Kind, WriteCopied(k) PROVE Earlier'
  BY <1>8 DEF WriteCopied, Types, TypeOK, OldTree, File
<1>9. ASSUME NEW k \in Kind, RemoveSource(k) PROVE Earlier'
  BY <1>9 DEF RemoveSource, Types, TypeOK, OldTree, CopyingAll, Copying
<1>10. ASSUME NEW k \in Kind, WriteFinalized(k) PROVE Earlier'
  BY <1>10 DEF WriteFinalized, Types, TypeOK, OldTree, File
<1>11. CASE IoError
  BY <1>11 DEF IoError, Types, TypeOK, OldTree, File
<1>12. CASE CreateEnvironment
  BY <1>12 DEF CreateEnvironment, Types, TypeOK, OldTree, File
<1>13. CASE SwitchCombination
  BY <1>13 DEF SwitchCombination, Types, TypeOK, OldTree, File
<1>14. CASE SwitchAccepted
  BY <1>14 DEF SwitchAccepted, Types, TypeOK, OldTree, File
<1>15. CASE ApplyChange
  BY <1>15 DEF ApplyChange, Types, TypeOK, OldTree, File
<1>16. CASE RestoreGeneration
  BY <1>16 DEF RestoreGeneration, Types, TypeOK, OldTree, File
<1>17. CASE Start
  BY <1>17 DEF Start, Types, TypeOK, OldTree, File
<1>18. CASE Launch
  BY <1>18 DEF Launch, Types, TypeOK, OldTree, File
<1>19. CASE Stop
  BY <1>19 DEF Stop, Types, TypeOK, OldTree, File
<1>20. CASE PatchEntry
  BY <1>20 DEF PatchEntry, Types, TypeOK, OldTree, File
<1>21. CASE RunExecutor
  BY <1>21 DEF RunExecutor, Types, TypeOK, OldTree, File
<1>22. CASE InstallReturns
  BY <1>22 DEF InstallReturns, Types, TypeOK, OldTree, File
<1>23. CASE InstallFails
  BY <1>23 DEF InstallFails, Types, TypeOK, OldTree, File
<1>24. CASE MakeDirectories
  BY <1>24 DEF MakeDirectories, Types, TypeOK, OldTree, File
<1>25. CASE PublishProfile
  BY <1>25 DEF PublishProfile, Types, TypeOK, OldTree, File
<1>26. ASSUME NEW k \in Kind, RecordFinalized(k) PROVE Earlier'
  BY <1>26 DEF RecordFinalized, Types, TypeOK, OldTree, File
<1>27. CASE MovePointer
  BY <1>27 DEF MovePointer, Types, TypeOK, OldTree, File
<1>28. CASE RemoveJournal
  BY <1>28 DEF RemoveJournal, Types, TypeOK, OldTree, File
<1>29. CASE Boot
  BY <1>29 DEF Boot, Types, TypeOK, OldTree, File
<1>30. CASE RecoverJournals
  BY <1>30 DEF RecoverJournals, Types, TypeOK, OldTree, File
<1>31. CASE Crash
  BY <1>31 DEF Crash, Types, TypeOK, OldTree, File
<1>32. ASSUME NEW k \in Kind, ProcessWrites(k) PROVE Earlier'
  <2>1. CASE process = "legacy"
    <3>1. /\ UNCHANGED << target, active, record, profiled, recorded, change, process >>
          /\ written' = [written EXCEPT ![k] = @ \cup {Session}]
          /\ legacy' = [legacy EXCEPT ![active][k] = Made(@) \cup {Session}]
      BY <1>32, <2>1 DEF ProcessWrites
    <3>2. active \in Gen
      BY <2>1 DEF LegacyProcess
    <3>3. /\ legacy'[active][k] = Made(legacy[active][k]) \cup {Session}
          /\ \A g \in Gen, j \in Kind : g # active \/ j # k => legacy'[g][j] = legacy[g][j]
      BY <3>1, <3>2 DEF Types, TypeOK
    <3>4. /\ written'[k] = written[k] \cup {Session}
          /\ \A j \in Kind : j # k => written'[j] = written[j]
      BY <3>1 DEF Types, TypeOK
    <3>5. active # None /\ Made(legacy[active][k]) = written[k]
      BY <2>1, <3>2, FilesAssumption DEF EarlierProcess, File
    <3>6. legacy'[active][k] = written'[k] /\ legacy'[active][k] # None
      <4>1. written'[k] \in SUBSET File
        BY <3>4 DEF Types, TypeOK, File
      <4> QED
        BY <3>3, <3>4, <3>5, <4>1, FilesAssumption
    <3>7. \A j \in Kind : record[j].state = "none" /\ active \in recorded \ profiled
      BY <2>1 DEF EarlierProcess
    <3>8. active # change.gen
      BY <3>2, <3>5, <2>1 DEF LegacyProcess
    <3>9. \A j \in Kind : j # k /\ legacy'[active][j] # None => legacy'[active][j] = written'[j]
      BY <3>2, <3>3, <3>4, <3>7
    <3>10. \A g \in Gen, j \in Kind : legacy'[g][j] # None => g = active
      <4> SUFFICES ASSUME NEW g \in Gen, NEW j \in Kind, legacy'[g][j] # None, g # active
                   PROVE FALSE
        OBVIOUS
      <4>1. legacy[g][j] = None
        BY <2>1 DEF EarlierProcess
      <4> QED
        BY <4>1, <3>3
    <3>11. UNCHANGED << recorded, profiled, record, change >>
      BY <3>1
    <3>12. \A j \in Kind : legacy'[active][j] # None => legacy'[active][j] = written'[j]
      BY <3>6, <3>9
    <3>13. SUFFICES ASSUME NEW g \in Gen, NEW j \in Kind, legacy'[g][j] # None
                    PROVE /\ g \in recorded' /\ g \notin profiled' /\ g # change'.gen
                          /\ legacy'[g][j] = written'[j]
      BY DEF Earlier
    <3>14. g = active
      BY <3>10, <3>13
    <3> QED
      BY <3>7, <3>8, <3>11, <3>12, <3>13, <3>14
  <2>2. CASE process # "legacy"
    <3>1. /\ process = "environment"
          /\ UNCHANGED << legacy, active, record, profiled, recorded, change, process >>
      BY <1>32, <2>2 DEF ProcessWrites, Types, TypeOK
    <3>2. \A j \in Kind : record[j].state = "finalized"
      BY <3>1 DEF EnvironmentProcess
    <3> QED
      BY <3>1, <3>2
  <2> QED
    BY <2>1, <2>2
<1>33. CASE ProcessExits
  BY <1>33 DEF ProcessExits, Types, TypeOK, OldTree, File
<1>34. ASSUME NEW k \in Kind, Truncate(k) PROVE Earlier'
  BY <1>34 DEF Truncate, Types, TypeOK, OldTree, File
<1> QED
  BY <1>1, <1>2, <1>3, <1>4, <1>5, <1>6, <1>7, <1>8, <1>9, <1>10, <1>11, <1>12,
    <1>13, <1>14, <1>15, <1>16, <1>17, <1>18, <1>19, <1>20, <1>21, <1>22,
    <1>23, <1>24, <1>25, <1>26, <1>27, <1>28, <1>29, <1>30, <1>31, <1>32,
    <1>33, <1>34
  DEF Next, Requests, Progress, Surroundings, MigrateTree

\* A process of an earlier build is alone with its directories.
LEMMA EarlierProcessStep == HomeInv /\ PastInv /\ [Next]_vars => EarlierProcess'
<1> SUFFICES ASSUME HomeInv, PastInv, Next PROVE EarlierProcess'
  BY DEF PastInv, vars, EarlierProcess
<1> USE FilesAssumption DEF HomeInv, PastInv, EarlierProcess
<1>1. ASSUME NEW k \in Kind, AlreadyFinalized(k) PROVE EarlierProcess'
  BY <1>1 DEF AlreadyFinalized, Types, TypeOK, OldTree, LegacyProcess, Profiles
<1>2. ASSUME NEW k \in Kind, FinalizeAtOnce(k) PROVE EarlierProcess'
  BY <1>2 DEF FinalizeAtOnce, Types, TypeOK, OldTree, LegacyProcess, Profiles
<1>3. ASSUME NEW k \in Kind, ResumeRemoval(k) PROVE EarlierProcess'
  BY <1>3 DEF ResumeRemoval, Types, TypeOK, OldTree, LegacyProcess, Profiles
<1>4. ASSUME NEW k \in Kind, Copy(k) PROVE EarlierProcess'
  BY <1>4 DEF Copy, Types, TypeOK, OldTree, LegacyProcess, Profiles
<1>5. ASSUME NEW k \in Kind, Conflict(k) PROVE EarlierProcess'
  BY <1>5 DEF Conflict, Types, TypeOK, OldTree, LegacyProcess, Profiles
<1>6. ASSUME NEW k \in Kind, WriteCopying(k) PROVE EarlierProcess'
  BY <1>6 DEF WriteCopying, Types, TypeOK, OldTree, LegacyProcess, Profiles
<1>7. ASSUME NEW k \in Kind, Publish(k) PROVE EarlierProcess'
  BY <1>7 DEF Publish, Types, TypeOK, OldTree, LegacyProcess, Profiles
<1>8. ASSUME NEW k \in Kind, WriteCopied(k) PROVE EarlierProcess'
  BY <1>8 DEF WriteCopied, Types, TypeOK, OldTree, LegacyProcess, Profiles
<1>9. ASSUME NEW k \in Kind, RemoveSource(k) PROVE EarlierProcess'
  BY <1>9 DEF RemoveSource, Types, TypeOK, OldTree, LegacyProcess, Profiles
<1>10. ASSUME NEW k \in Kind, WriteFinalized(k) PROVE EarlierProcess'
  BY <1>10 DEF WriteFinalized, Types, TypeOK, OldTree, LegacyProcess, Profiles
<1>11. CASE IoError
  BY <1>11 DEF IoError, Types, TypeOK, OldTree, LegacyProcess, Profiles
<1>12. CASE CreateEnvironment
  BY <1>12 DEF CreateEnvironment, Types, TypeOK, OldTree, LegacyProcess, Profiles
<1>13. CASE SwitchCombination
  BY <1>13 DEF SwitchCombination, Types, TypeOK, OldTree, LegacyProcess, Profiles
<1>14. CASE SwitchAccepted
  BY <1>14 DEF SwitchAccepted, Types, TypeOK, OldTree, LegacyProcess, Profiles
<1>15. CASE ApplyChange
  BY <1>15 DEF ApplyChange, Types, TypeOK, OldTree, LegacyProcess, Profiles
<1>16. CASE RestoreGeneration
  BY <1>16 DEF RestoreGeneration, Types, TypeOK, OldTree, LegacyProcess, Profiles
<1>17. CASE Start
  BY <1>17 DEF Start, Types, TypeOK, OldTree, LegacyProcess, Profiles
<1>18. CASE Launch
  BY <1>18 DEF Launch, Types, TypeOK, OldTree, LegacyProcess, Profiles
<1>19. CASE Stop
  BY <1>19 DEF Stop, Types, TypeOK, OldTree, LegacyProcess, Profiles
<1>20. CASE RunExecutor
  BY <1>20 DEF RunExecutor, Types, TypeOK, OldTree, LegacyProcess, Profiles
<1>21. CASE InstallReturns
  BY <1>21 DEF InstallReturns, Types, TypeOK, OldTree, LegacyProcess, Profiles
<1>22. CASE InstallFails
  BY <1>22 DEF InstallFails, Types, TypeOK, OldTree, LegacyProcess, Profiles
<1>23. CASE MakeDirectories
  BY <1>23 DEF MakeDirectories, Types, TypeOK, OldTree, LegacyProcess, Profiles
<1>24. CASE PublishProfile
  BY <1>24 DEF PublishProfile, Types, TypeOK, OldTree, LegacyProcess, Profiles
<1>25. ASSUME NEW k \in Kind, RecordFinalized(k) PROVE EarlierProcess'
  BY <1>25 DEF RecordFinalized, Types, TypeOK, OldTree, LegacyProcess, Profiles
<1>26. CASE MovePointer
  BY <1>26 DEF MovePointer, Types, TypeOK, OldTree, LegacyProcess, Profiles
<1>27. CASE RemoveJournal
  BY <1>27 DEF RemoveJournal, Types, TypeOK, OldTree, LegacyProcess, Profiles
<1>28. CASE Boot
  BY <1>28 DEF Boot, LegacyProcess
<1>29. CASE RecoverJournals
  BY <1>29 DEF RecoverJournals, Types, TypeOK, OldTree, LegacyProcess, Profiles
<1>30. CASE Crash
  BY <1>30 DEF Crash, LegacyProcess
<1>31. ASSUME NEW k \in Kind, ProcessWrites(k) PROVE EarlierProcess'
  <2>1. CASE process = "legacy"
    <3>1. /\ UNCHANGED << target, active, record, profiled, recorded, change, process >>
          /\ written' = [written EXCEPT ![k] = @ \cup {Session}]
          /\ legacy' = [legacy EXCEPT ![active][k] = Made(@) \cup {Session}]
      BY <1>31, <2>1 DEF ProcessWrites
    <3>2. active \in Gen
      BY <2>1 DEF LegacyProcess
    <3>3. /\ legacy'[active][k] = Made(legacy[active][k]) \cup {Session}
          /\ \A g \in Gen, j \in Kind : g # active \/ j # k => legacy'[g][j] = legacy[g][j]
      BY <3>1, <3>2 DEF Types, TypeOK
    <3>4. /\ written'[k] = written[k] \cup {Session}
          /\ \A j \in Kind : j # k => written'[j] = written[j]
      BY <3>1 DEF Types, TypeOK
    <3>5. active # None /\ Made(legacy[active][k]) = written[k]
      BY <2>1, <3>2, FilesAssumption DEF EarlierProcess, File
    <3>6. legacy'[active][k] = written'[k] /\ legacy'[active][k] # None
      <4>1. written'[k] \in SUBSET File
        BY <3>4 DEF Types, TypeOK, File
      <4> QED
        BY <3>3, <3>4, <3>5, <4>1, FilesAssumption
    <3>7. Made(legacy'[active][k]) = written'[k]
      BY <3>6
    <3>8. \A j \in Kind : /\ Made(Source(j)) = written[j]
                         /\ \A g \in Gen \ {active} : legacy[g][j] = None
                         /\ record[j].state = "none" /\ active \in recorded \ profiled
      BY <2>1 DEF EarlierProcess
    <3>9. ASSUME NEW j \in Kind PROVE Made(legacy'[active][j]) = written'[j]
      <4>1. CASE j = k
        BY <3>7, <4>1
      <4>2. CASE j # k
        <5>1. legacy'[active][j] = legacy[active][j] /\ written'[j] = written[j]
          BY <3>2, <3>3, <3>4, <4>2
        <5>2. Made(legacy[active][j]) = written[j]
          BY <3>5, <3>8 DEF Source
        <5> QED
          BY <5>1, <5>2
      <4> QED
        BY <4>1, <4>2
    <3> QED
      BY <3>1, <3>2, <3>3, <3>5, <3>8, <3>9
  <2>2. CASE process # "legacy"
    <3>1. /\ process = "environment"
          /\ UNCHANGED << legacy, active, record, profiled, recorded, change, process >>
      BY <1>31, <2>2 DEF ProcessWrites, Types, TypeOK
    <3>2. \A j \in Kind : record[j].state = "finalized"
      BY <3>1 DEF EnvironmentProcess
    <3> QED
      BY <3>1
  <2> QED
    BY <2>1, <2>2
<1>32. CASE ProcessExits
  BY <1>32 DEF ProcessExits, Types, TypeOK, OldTree, LegacyProcess, Profiles
<1>33. ASSUME NEW k \in Kind, Truncate(k) PROVE EarlierProcess'
  BY <1>33 DEF Truncate, Types, TypeOK, OldTree, LegacyProcess, Profiles
<1> QED
  BY <1>1, <1>2, <1>3, <1>4, <1>5, <1>6, <1>7, <1>8, <1>9, <1>10, <1>11, <1>12,
    <1>13, <1>14, <1>15, <1>16, <1>17, <1>18, <1>19, <1>20, <1>21, <1>22,
    <1>23, <1>24, <1>25, <1>26, <1>27, <1>28, <1>29, <1>30, <1>31, <1>32, <1>33
  DEF Next, Requests, Progress, Surroundings, MigrateTree, PatchEntry

\* A migration is over only when its source is gone.
LEMMA SettledStep == HomeInv /\ PastInv /\ [Next]_vars => Settled'
<1> SUFFICES ASSUME HomeInv, PastInv, Next PROVE Settled'
  BY DEF PastInv, vars, Settled
<1> USE FilesAssumption DEF HomeInv, PastInv, Settled
<1>1. ASSUME NEW k \in Kind, AlreadyFinalized(k) PROVE Settled'
  BY <1>1 DEF AlreadyFinalized, Types, TypeOK, OldTree, Copying, CopyingAll, Stages, Earlier
<1>2. ASSUME NEW k \in Kind, FinalizeAtOnce(k) PROVE Settled'
  BY <1>2 DEF FinalizeAtOnce, Types, TypeOK, OldTree, Copying, CopyingAll, Stages, Earlier
<1>3. ASSUME NEW k \in Kind, ResumeRemoval(k) PROVE Settled'
  BY <1>3 DEF ResumeRemoval, Types, TypeOK, OldTree, Copying, CopyingAll, Stages, Earlier
<1>4. ASSUME NEW k \in Kind, Copy(k) PROVE Settled'
  BY <1>4 DEF Copy, Types, TypeOK, OldTree, Copying, CopyingAll, Stages, Earlier
<1>5. ASSUME NEW k \in Kind, Conflict(k) PROVE Settled'
  BY <1>5 DEF Conflict, Types, TypeOK, OldTree, Copying, CopyingAll, Stages, Earlier
<1>6. ASSUME NEW k \in Kind, WriteCopying(k) PROVE Settled'
  BY <1>6 DEF WriteCopying, Types, TypeOK, OldTree, Copying, CopyingAll, Stages, Earlier
<1>7. ASSUME NEW k \in Kind, Publish(k) PROVE Settled'
  BY <1>7 DEF Publish, Types, TypeOK, OldTree, Copying, CopyingAll, Stages, Earlier
<1>8. ASSUME NEW k \in Kind, WriteCopied(k) PROVE Settled'
  BY <1>8 DEF WriteCopied, Types, TypeOK, OldTree, Copying, CopyingAll, Stages, Earlier
<1>9. ASSUME NEW k \in Kind, RemoveSource(k) PROVE Settled'
  BY <1>9 DEF RemoveSource, Types, TypeOK, OldTree, Copying, CopyingAll, Stages, Earlier
<1>10. ASSUME NEW k \in Kind, WriteFinalized(k) PROVE Settled'
  BY <1>10 DEF WriteFinalized, Types, TypeOK, OldTree, Copying, CopyingAll, Stages, Earlier
<1>11. CASE IoError
  BY <1>11 DEF IoError, Types, TypeOK, OldTree, Copying, CopyingAll, Stages, Earlier
<1>12. CASE CreateEnvironment
  BY <1>12 DEF CreateEnvironment, Types, TypeOK, OldTree, Copying, CopyingAll, Stages, Earlier
<1>13. CASE SwitchCombination
  BY <1>13 DEF SwitchCombination, Types, TypeOK, OldTree, Copying, CopyingAll, Stages, Earlier
<1>14. CASE SwitchAccepted
  BY <1>14 DEF SwitchAccepted, Types, TypeOK, OldTree, Copying, CopyingAll, Stages, Earlier
<1>15. CASE ApplyChange
  BY <1>15 DEF ApplyChange, Types, TypeOK, OldTree, Copying, CopyingAll, Stages, Earlier
<1>16. CASE RestoreGeneration
  BY <1>16 DEF RestoreGeneration, Types, TypeOK, OldTree, Copying, CopyingAll, Stages, Earlier
<1>17. CASE Start
  BY <1>17 DEF Start, Types, TypeOK, OldTree, Copying, CopyingAll, Stages, Earlier
<1>18. CASE Launch
  BY <1>18 DEF Launch, Types, TypeOK, OldTree, Copying, CopyingAll, Stages, Earlier
<1>19. CASE Stop
  BY <1>19 DEF Stop, Types, TypeOK, OldTree, Copying, CopyingAll, Stages, Earlier
<1>20. CASE PatchEntry
  BY <1>20 DEF PatchEntry, Types, TypeOK, OldTree, Copying, CopyingAll, Stages, Earlier
<1>21. CASE RunExecutor
  BY <1>21 DEF RunExecutor, Types, TypeOK, OldTree, Copying, CopyingAll, Stages, Earlier
<1>22. CASE InstallReturns
  BY <1>22 DEF InstallReturns, Types, TypeOK, OldTree, Copying, CopyingAll, Stages, Earlier
<1>23. CASE InstallFails
  BY <1>23 DEF InstallFails, Types, TypeOK, OldTree, Copying, CopyingAll, Stages, Earlier
<1>24. CASE MakeDirectories
  BY <1>24 DEF MakeDirectories, Types, TypeOK, OldTree, Copying, CopyingAll, Stages, Earlier
<1>25. CASE PublishProfile
  BY <1>25 DEF PublishProfile, Types, TypeOK, OldTree, Copying, CopyingAll, Stages, Earlier
<1>26. ASSUME NEW k \in Kind, RecordFinalized(k) PROVE Settled'
  BY <1>26 DEF RecordFinalized, Types, TypeOK, OldTree, Copying, CopyingAll, Stages, Earlier
<1>27. CASE MovePointer
  BY <1>27 DEF MovePointer, Types, TypeOK, OldTree, Copying, CopyingAll, Stages, Earlier
<1>28. CASE RemoveJournal
  BY <1>28 DEF RemoveJournal, Types, TypeOK, OldTree, Copying, CopyingAll, Stages, Earlier
<1>29. CASE Boot
  BY <1>29 DEF Boot, Types, TypeOK, OldTree, Copying, CopyingAll, Stages, Earlier
<1>30. CASE RecoverJournals
  BY <1>30 DEF RecoverJournals, Types, TypeOK, OldTree, Copying, CopyingAll, Stages, Earlier
<1>31. CASE Crash
  BY <1>31 DEF Crash, Types, TypeOK, OldTree, Copying, CopyingAll, Stages, Earlier
<1>32. ASSUME NEW k \in Kind, ProcessWrites(k) PROVE Settled'
  <2>1. CASE process = "legacy"
    <3>1. /\ UNCHANGED << target, active, record, profiled, recorded, change, process >>
          /\ written' = [written EXCEPT ![k] = @ \cup {Session}]
          /\ legacy' = [legacy EXCEPT ![active][k] = Made(@) \cup {Session}]
      BY <1>32, <2>1 DEF ProcessWrites
    <3>2. active \in Gen
      BY <2>1 DEF LegacyProcess
    <3>3. /\ legacy'[active][k] = Made(legacy[active][k]) \cup {Session}
          /\ \A g \in Gen, j \in Kind : g # active \/ j # k => legacy'[g][j] = legacy[g][j]
      BY <3>1, <3>2 DEF Types, TypeOK
    <3>4. /\ written'[k] = written[k] \cup {Session}
          /\ \A j \in Kind : j # k => written'[j] = written[j]
      BY <3>1 DEF Types, TypeOK
    <3>5. active # None /\ Made(legacy[active][k]) = written[k]
      BY <2>1, <3>2, FilesAssumption DEF EarlierProcess, File
    <3>6. legacy'[active][k] = written'[k] /\ legacy'[active][k] # None
      <4>1. written'[k] \in SUBSET File
        BY <3>4 DEF Types, TypeOK, File
      <4> QED
        BY <3>3, <3>4, <3>5, <4>1, FilesAssumption
    <3> QED
      BY <2>1, <3>1 DEF EarlierProcess
  <2>2. CASE process # "legacy"
    <3>1. /\ process = "environment"
          /\ UNCHANGED << legacy, active, record, profiled, recorded, change, process >>
      BY <1>32, <2>2 DEF ProcessWrites, Types, TypeOK
    <3>2. \A j \in Kind : record[j].state = "finalized"
      BY <3>1 DEF EnvironmentProcess
    <3> QED
      BY <3>1, <3>2
  <2> QED
    BY <2>1, <2>2
<1>33. CASE ProcessExits
  BY <1>33 DEF ProcessExits, Types, TypeOK, OldTree, Copying, CopyingAll, Stages, Earlier
<1>34. ASSUME NEW k \in Kind, Truncate(k) PROVE Settled'
  BY <1>34 DEF Truncate, Types, TypeOK, OldTree, Copying, CopyingAll, Stages, Earlier
<1> QED
  BY <1>1, <1>2, <1>3, <1>4, <1>5, <1>6, <1>7, <1>8, <1>9, <1>10, <1>11, <1>12,
    <1>13, <1>14, <1>15, <1>16, <1>17, <1>18, <1>19, <1>20, <1>21, <1>22,
    <1>23, <1>24, <1>25, <1>26, <1>27, <1>28, <1>29, <1>30, <1>31, <1>32,
    <1>33, <1>34
  DEF Next, Requests, Progress, Surroundings, MigrateTree

\* A migration copies the whole directory.
LEMMA CopyingAllStep == HomeInv /\ PastInv /\ [Next]_vars => CopyingAll'
<1> SUFFICES ASSUME HomeInv, PastInv, Next PROVE CopyingAll'
  BY DEF PastInv, vars, CopyingAll
<1> USE FilesAssumption DEF HomeInv, PastInv, CopyingAll
<1>1. ASSUME NEW k \in Kind, AlreadyFinalized(k) PROVE CopyingAll'
  BY <1>1 DEF AlreadyFinalized, Types, TypeOK, OldTree, Copying, Settled, Earlier, Exclusive, EarlierProcess
<1>2. ASSUME NEW k \in Kind, FinalizeAtOnce(k) PROVE CopyingAll'
  BY <1>2 DEF FinalizeAtOnce, Types, TypeOK, OldTree, Copying, Settled, Earlier, Exclusive, EarlierProcess
<1>3. ASSUME NEW k \in Kind, ResumeRemoval(k) PROVE CopyingAll'
  BY <1>3 DEF ResumeRemoval, Types, TypeOK, OldTree, Copying, Settled, Earlier, Exclusive, EarlierProcess
<1>4. ASSUME NEW k \in Kind, Copy(k) PROVE CopyingAll'
  BY <1>4 DEF Copy, Types, TypeOK, OldTree, Copying, Settled, Earlier, Exclusive, EarlierProcess
<1>5. ASSUME NEW k \in Kind, Conflict(k) PROVE CopyingAll'
  BY <1>5 DEF Conflict, Types, TypeOK, OldTree, Copying, Settled, Earlier, Exclusive, EarlierProcess
<1>6. ASSUME NEW k \in Kind, WriteCopying(k) PROVE CopyingAll'
  BY <1>6 DEF WriteCopying, Types, TypeOK, OldTree, Copying, Settled, Earlier, Exclusive, EarlierProcess
<1>7. ASSUME NEW k \in Kind, Publish(k) PROVE CopyingAll'
  BY <1>7 DEF Publish, Types, TypeOK, OldTree, Copying, Settled, Earlier, Exclusive, EarlierProcess
<1>8. ASSUME NEW k \in Kind, WriteCopied(k) PROVE CopyingAll'
  BY <1>8 DEF WriteCopied, Types, TypeOK, OldTree, Copying, Settled, Earlier, Exclusive, EarlierProcess
<1>9. ASSUME NEW k \in Kind, RemoveSource(k) PROVE CopyingAll'
  BY <1>9 DEF RemoveSource, Types, TypeOK, OldTree, Copying, Settled, Earlier, Exclusive, EarlierProcess
<1>10. ASSUME NEW k \in Kind, WriteFinalized(k) PROVE CopyingAll'
  BY <1>10 DEF WriteFinalized, Types, TypeOK, OldTree, Copying, Settled, Earlier, Exclusive, EarlierProcess
<1>11. CASE IoError
  BY <1>11 DEF IoError, Types, TypeOK, OldTree, Copying, Settled, Earlier, Exclusive, EarlierProcess
<1>12. CASE CreateEnvironment
  BY <1>12 DEF CreateEnvironment, Types, TypeOK, OldTree, Copying, Settled, Earlier, Exclusive, EarlierProcess
<1>13. CASE SwitchCombination
  BY <1>13 DEF SwitchCombination, Types, TypeOK, OldTree, Copying, Settled, Earlier, Exclusive, EarlierProcess
<1>14. CASE SwitchAccepted
  BY <1>14 DEF SwitchAccepted, Types, TypeOK, OldTree, Copying, Settled, Earlier, Exclusive, EarlierProcess
<1>15. CASE ApplyChange
  BY <1>15 DEF ApplyChange, Types, TypeOK, OldTree, Copying, Settled, Earlier, Exclusive, EarlierProcess
<1>16. CASE RestoreGeneration
  BY <1>16 DEF RestoreGeneration, Types, TypeOK, OldTree, Copying, Settled, Earlier, Exclusive, EarlierProcess
<1>17. CASE Start
  BY <1>17 DEF Start, Types, TypeOK, OldTree, Copying, Settled, Earlier, Exclusive, EarlierProcess
<1>18. CASE Launch
  BY <1>18 DEF Launch, Types, TypeOK, OldTree, Copying, Settled, Earlier, Exclusive, EarlierProcess
<1>19. CASE Stop
  BY <1>19 DEF Stop, Types, TypeOK, OldTree, Copying, Settled, Earlier, Exclusive, EarlierProcess
<1>20. CASE PatchEntry
  BY <1>20 DEF PatchEntry, Types, TypeOK, OldTree, Copying, Settled, Earlier, Exclusive, EarlierProcess
<1>21. CASE RunExecutor
  BY <1>21 DEF RunExecutor, Types, TypeOK, OldTree, Copying, Settled, Earlier, Exclusive, EarlierProcess
<1>22. CASE InstallReturns
  BY <1>22 DEF InstallReturns, Types, TypeOK, OldTree, Copying, Settled, Earlier, Exclusive, EarlierProcess
<1>23. CASE InstallFails
  BY <1>23 DEF InstallFails, Types, TypeOK, OldTree, Copying, Settled, Earlier, Exclusive, EarlierProcess
<1>24. CASE MakeDirectories
  BY <1>24 DEF MakeDirectories, Types, TypeOK, OldTree, Copying, Settled, Earlier, Exclusive, EarlierProcess
<1>25. CASE PublishProfile
  BY <1>25 DEF PublishProfile, Types, TypeOK, OldTree, Copying, Settled, Earlier, Exclusive, EarlierProcess
<1>26. ASSUME NEW k \in Kind, RecordFinalized(k) PROVE CopyingAll'
  BY <1>26 DEF RecordFinalized, Types, TypeOK, OldTree, Copying, Settled, Earlier, Exclusive, EarlierProcess
<1>27. CASE MovePointer
  BY <1>27 DEF MovePointer, Types, TypeOK, OldTree, Copying, Settled, Earlier, Exclusive, EarlierProcess
<1>28. CASE RemoveJournal
  BY <1>28 DEF RemoveJournal, Types, TypeOK, OldTree, Copying, Settled, Earlier, Exclusive, EarlierProcess
<1>29. CASE Boot
  BY <1>29 DEF Boot, Types, TypeOK, OldTree, Copying, Settled, Earlier, Exclusive, EarlierProcess
<1>30. CASE RecoverJournals
  BY <1>30 DEF RecoverJournals, Types, TypeOK, OldTree, Copying, Settled, Earlier, Exclusive, EarlierProcess
<1>31. CASE Crash
  BY <1>31 DEF Crash, Types, TypeOK, OldTree, Copying, Settled, Earlier, Exclusive, EarlierProcess
<1>32. ASSUME NEW k \in Kind, ProcessWrites(k) PROVE CopyingAll'
  <2>1. UNCHANGED job
    BY <1>32 DEF ProcessWrites
  <2>2. CASE process = "legacy"
    BY <2>1, <2>2 DEF LegacyProcess
  <2>3. CASE process # "legacy"
    BY <1>32, <2>3 DEF ProcessWrites, EnvironmentProcess, Copying, Types, TypeOK
  <2> QED
    BY <2>2, <2>3
<1>33. CASE ProcessExits
  BY <1>33 DEF ProcessExits, Types, TypeOK, OldTree, Copying, Settled, Earlier, Exclusive, EarlierProcess
<1>34. ASSUME NEW k \in Kind, Truncate(k) PROVE CopyingAll'
  BY <1>34 DEF Truncate, Types, TypeOK, OldTree, Copying, Settled, Earlier, Exclusive, EarlierProcess
<1> QED
  BY <1>1, <1>2, <1>3, <1>4, <1>5, <1>6, <1>7, <1>8, <1>9, <1>10, <1>11, <1>12,
    <1>13, <1>14, <1>15, <1>16, <1>17, <1>18, <1>19, <1>20, <1>21, <1>22,
    <1>23, <1>24, <1>25, <1>26, <1>27, <1>28, <1>29, <1>30, <1>31, <1>32,
    <1>33, <1>34
  DEF Next, Requests, Progress, Surroundings, MigrateTree

\* The steps of a change are taken in their order.
LEMMA StagesStep == HomeInv /\ PastInv /\ [Next]_vars => Stages'
<1> SUFFICES ASSUME HomeInv, PastInv, Next PROVE Stages'
  BY DEF PastInv, vars, Stages
<1> USE FilesAssumption DEF HomeInv, PastInv, Stages
<1>1. ASSUME NEW k \in Kind, AlreadyFinalized(k) PROVE Stages'
  BY <1>1 DEF AlreadyFinalized, Types, TypeOK, OldTree, ChangeKinds, Changes, Advance, Copying, File
<1>2. ASSUME NEW k \in Kind, FinalizeAtOnce(k) PROVE Stages'
  BY <1>2 DEF FinalizeAtOnce, Types, TypeOK, OldTree, ChangeKinds, Changes, Advance, Copying, File
<1>3. ASSUME NEW k \in Kind, ResumeRemoval(k) PROVE Stages'
  BY <1>3 DEF ResumeRemoval, Types, TypeOK, OldTree, ChangeKinds, Changes, Advance, Copying, File
<1>4. ASSUME NEW k \in Kind, Copy(k) PROVE Stages'
  BY <1>4 DEF Copy, Types, TypeOK, OldTree, ChangeKinds, Changes, Advance, Copying, File
<1>5. ASSUME NEW k \in Kind, Conflict(k) PROVE Stages'
  BY <1>5 DEF Conflict, Types, TypeOK, OldTree, ChangeKinds, Changes, Advance, Copying, File
<1>6. ASSUME NEW k \in Kind, WriteCopying(k) PROVE Stages'
  BY <1>6 DEF WriteCopying, Types, TypeOK, OldTree, ChangeKinds, Changes, Advance, Copying, File
<1>7. ASSUME NEW k \in Kind, Publish(k) PROVE Stages'
  BY <1>7 DEF Publish, Types, TypeOK, OldTree, ChangeKinds, Changes, Advance, Copying, File
<1>8. ASSUME NEW k \in Kind, WriteCopied(k) PROVE Stages'
  BY <1>8 DEF WriteCopied, Types, TypeOK, OldTree, ChangeKinds, Changes, Advance, Copying, File
<1>9. ASSUME NEW k \in Kind, RemoveSource(k) PROVE Stages'
  BY <1>9 DEF RemoveSource, Types, TypeOK, OldTree, ChangeKinds, Changes, Advance, Copying, File
<1>10. ASSUME NEW k \in Kind, WriteFinalized(k) PROVE Stages'
  BY <1>10 DEF WriteFinalized, Types, TypeOK, OldTree, ChangeKinds, Changes, Advance, Copying, File
<1>11. CASE IoError
  BY <1>11 DEF IoError, Types, TypeOK, OldTree, ChangeKinds, Changes, Advance, Copying, File
<1>12. CASE CreateEnvironment
  BY <1>12 DEF CreateEnvironment, Types, TypeOK, OldTree, ChangeKinds, Changes, Advance, Copying, File
<1>13. CASE SwitchCombination
  BY <1>13 DEF SwitchCombination, Types, TypeOK, OldTree, ChangeKinds, Changes, Advance, Copying, File
<1>14. CASE SwitchAccepted
  BY <1>14 DEF SwitchAccepted, Types, TypeOK, OldTree, ChangeKinds, Changes, Advance, Copying, File
<1>15. CASE ApplyChange
  BY <1>15 DEF ApplyChange, Types, TypeOK, OldTree, ChangeKinds, Changes, Advance, Copying, File
<1>16. CASE RestoreGeneration
  BY <1>16 DEF RestoreGeneration, Types, TypeOK, OldTree, ChangeKinds, Changes, Advance, Copying, File
<1>17. CASE Start
  BY <1>17 DEF Start, Types, TypeOK, OldTree, ChangeKinds, Changes, Advance, Copying, File
<1>18. CASE Launch
  BY <1>18 DEF Launch, Types, TypeOK, OldTree, ChangeKinds, Changes, Advance, Copying, File
<1>19. CASE Stop
  BY <1>19 DEF Stop, Types, TypeOK, OldTree, ChangeKinds, Changes, Advance, Copying, File
<1>20. CASE PatchEntry
  BY <1>20 DEF PatchEntry, Types, TypeOK, OldTree, ChangeKinds, Changes, Advance, Copying, File
<1>21. CASE RunExecutor
  BY <1>21 DEF RunExecutor, Types, TypeOK, OldTree, ChangeKinds, Changes, Advance, Copying, File
<1>22. CASE InstallReturns
  BY <1>22 DEF InstallReturns, Types, TypeOK, OldTree, ChangeKinds, Changes, Advance, Copying, File
<1>23. CASE InstallFails
  BY <1>23 DEF InstallFails, Types, TypeOK, OldTree, ChangeKinds, Changes, Advance, Copying, File
<1>24. CASE MakeDirectories
  BY <1>24 DEF MakeDirectories, Types, TypeOK, OldTree, ChangeKinds, Changes, Advance, Copying, File
<1>25. CASE PublishProfile
  BY <1>25 DEF PublishProfile, Types, TypeOK, OldTree, ChangeKinds, Changes, Advance, Copying, File
<1>26. ASSUME NEW k \in Kind, RecordFinalized(k) PROVE Stages'
  BY <1>26 DEF RecordFinalized, Types, TypeOK, OldTree, ChangeKinds, Changes, Advance, Copying, File
<1>27. CASE MovePointer
  BY <1>27 DEF MovePointer, Types, TypeOK, OldTree, ChangeKinds, Changes, Advance, Copying, File
<1>28. CASE RemoveJournal
  BY <1>28 DEF RemoveJournal, Types, TypeOK, OldTree, ChangeKinds, Changes, Advance, Copying, File
<1>29. CASE Boot
  BY <1>29 DEF Boot, Types, TypeOK, OldTree, ChangeKinds, Changes, Advance, Copying, File
<1>30. CASE RecoverJournals
  BY <1>30 DEF RecoverJournals, Types, TypeOK, OldTree, ChangeKinds, Changes, Advance, Copying, File
<1>31. CASE Crash
  BY <1>31 DEF Crash, Types, TypeOK, OldTree, ChangeKinds, Changes, Advance, Copying, File
<1>32. ASSUME NEW k \in Kind, ProcessWrites(k) PROVE Stages'
  BY <1>32 DEF ProcessWrites, Types, TypeOK, OldTree, ChangeKinds, Changes, Advance, Copying, File
<1>33. CASE ProcessExits
  BY <1>33 DEF ProcessExits, Types, TypeOK, OldTree, ChangeKinds, Changes, Advance, Copying, File
<1>34. ASSUME NEW k \in Kind, Truncate(k) PROVE Stages'
  BY <1>34 DEF Truncate, Types, TypeOK, OldTree, ChangeKinds, Changes, Advance, Copying, File
<1> QED
  BY <1>1, <1>2, <1>3, <1>4, <1>5, <1>6, <1>7, <1>8, <1>9, <1>10, <1>11, <1>12,
    <1>13, <1>14, <1>15, <1>16, <1>17, <1>18, <1>19, <1>20, <1>21, <1>22,
    <1>23, <1>24, <1>25, <1>26, <1>27, <1>28, <1>29, <1>30, <1>31, <1>32,
    <1>33, <1>34
  DEF Next, Requests, Progress, Surroundings, MigrateTree

\* The home of the active generation does not go missing.
LEMMA HomeThereStep == HomeInv /\ PastInv /\ [Next]_vars => HomeThere'
<1> SUFFICES ASSUME HomeInv, PastInv, Next PROVE HomeThere'
  BY DEF PastInv, vars, HomeThere
<1> USE FilesAssumption DEF HomeInv, PastInv, HomeThere
<1>1. ASSUME NEW k \in Kind, AlreadyFinalized(k) PROVE HomeThere'
  BY <1>1 DEF AlreadyFinalized, Types, TypeOK, OldTree, Stages, Copying, Changes, Settled, Exclusive
<1>2. ASSUME NEW k \in Kind, FinalizeAtOnce(k) PROVE HomeThere'
  BY <1>2 DEF FinalizeAtOnce, Types, TypeOK, OldTree, Stages, Copying, Changes, Settled, Exclusive
<1>3. ASSUME NEW k \in Kind, ResumeRemoval(k) PROVE HomeThere'
  BY <1>3 DEF ResumeRemoval, Types, TypeOK, OldTree, Stages, Copying, Changes, Settled, Exclusive
<1>4. ASSUME NEW k \in Kind, Copy(k) PROVE HomeThere'
  BY <1>4 DEF Copy, Types, TypeOK, OldTree, Stages, Copying, Changes, Settled, Exclusive
<1>5. ASSUME NEW k \in Kind, Conflict(k) PROVE HomeThere'
  BY <1>5 DEF Conflict, Types, TypeOK, OldTree, Stages, Copying, Changes, Settled, Exclusive
<1>6. ASSUME NEW k \in Kind, WriteCopying(k) PROVE HomeThere'
  BY <1>6 DEF WriteCopying, Types, TypeOK, OldTree, Stages, Copying, Changes, Settled, Exclusive
<1>7. ASSUME NEW k \in Kind, Publish(k) PROVE HomeThere'
  BY <1>7 DEF Publish, Types, TypeOK, OldTree, Stages, Copying, Changes, Settled, Exclusive
<1>8. ASSUME NEW k \in Kind, WriteCopied(k) PROVE HomeThere'
  BY <1>8 DEF WriteCopied, Types, TypeOK, OldTree, Stages, Copying, Changes, Settled, Exclusive
<1>9. ASSUME NEW k \in Kind, RemoveSource(k) PROVE HomeThere'
  BY <1>9 DEF RemoveSource, Types, TypeOK, OldTree, Stages, Copying, Changes, Settled, Exclusive
<1>10. ASSUME NEW k \in Kind, WriteFinalized(k) PROVE HomeThere'
  BY <1>10 DEF WriteFinalized, Types, TypeOK, OldTree, Stages, Copying, Changes, Settled, Exclusive
<1>11. CASE IoError
  BY <1>11 DEF IoError, Types, TypeOK, OldTree, Stages, Copying, Changes, Settled, Exclusive
<1>12. CASE CreateEnvironment
  BY <1>12 DEF CreateEnvironment, Types, TypeOK, OldTree, Stages, Copying, Changes, Settled, Exclusive
<1>13. CASE SwitchCombination
  BY <1>13 DEF SwitchCombination, Types, TypeOK, OldTree, Stages, Copying, Changes, Settled, Exclusive
<1>14. CASE SwitchAccepted
  BY <1>14 DEF SwitchAccepted, Types, TypeOK, OldTree, Stages, Copying, Changes, Settled, Exclusive
<1>15. CASE ApplyChange
  BY <1>15 DEF ApplyChange, Types, TypeOK, OldTree, Stages, Copying, Changes, Settled, Exclusive
<1>16. CASE RestoreGeneration
  BY <1>16 DEF RestoreGeneration, Types, TypeOK, OldTree, Stages, Copying, Changes, Settled, Exclusive
<1>17. CASE Start
  BY <1>17 DEF Start, Types, TypeOK, OldTree, Stages, Copying, Changes, Settled, Exclusive
<1>18. CASE Launch
  BY <1>18 DEF Launch, Types, TypeOK, OldTree, Stages, Advance, Settled
<1>19. CASE Stop
  BY <1>19 DEF Stop, Types, TypeOK, OldTree, Stages, Copying, Changes, Settled, Exclusive
<1>20. CASE PatchEntry
  <2>1. target["home"] \in Tree /\ Patch \in File /\ Scratch \in File
    BY DEF Types, TypeOK, File
  <2>2. target'["home"] # None /\ \A j \in Kind : target[j] # None => target'[j] # None
    BY <1>20, <2>1, Grows DEF PatchEntry, Types, TypeOK
  <2> QED
    BY <1>20, <2>2 DEF PatchEntry, Stages
<1>21. CASE RunExecutor
  <2>1. target["home"] \in Tree /\ Patch \in File /\ Scratch \in File
    BY DEF Types, TypeOK, File
  <2>2. target'["home"] # None /\ \A j \in Kind : target[j] # None => target'[j] # None
    BY <1>21, <2>1, Grows DEF RunExecutor, Types, TypeOK
  <2> QED
    BY <1>21, <2>2 DEF RunExecutor, Stages
<1>22. CASE InstallReturns
  BY <1>22 DEF InstallReturns, Types, TypeOK, OldTree, Stages, Copying, Changes, Settled, Exclusive
<1>23. CASE InstallFails
  BY <1>23 DEF InstallFails, Types, TypeOK, OldTree, Stages, Copying, Changes, Settled, Exclusive
<1>24. CASE MakeDirectories
  BY <1>24 DEF MakeDirectories, Types, TypeOK, OldTree, Stages, Copying, Changes, Settled, Exclusive
<1>25. CASE PublishProfile
  <2>1. CASE change.gen \in profiled
    <3>1. target["home"] \in Tree /\ change.gen \in File
      BY <2>1 DEF Types, TypeOK, File
    <3>2. target'["home"] # None /\ \A j \in Kind : target[j] # None => target'[j] # None
      BY <1>25, <2>1, <3>1, Grows DEF PublishProfile, Types, TypeOK
    <3> QED
      BY <1>25, <3>2 DEF PublishProfile, Stages
  <2>2. CASE change.gen \notin profiled
    BY <1>25, <2>2 DEF PublishProfile, Stages
  <2> QED
    BY <2>1, <2>2
<1>26. ASSUME NEW k \in Kind, RecordFinalized(k) PROVE HomeThere'
  BY <1>26 DEF RecordFinalized, Types, TypeOK, OldTree, Stages, Copying, Changes, Settled, Exclusive
<1>27. CASE MovePointer
  BY <1>27 DEF MovePointer, Types, TypeOK, OldTree, Stages, Copying, Changes, Settled, Exclusive
<1>28. CASE RemoveJournal
  BY <1>28 DEF RemoveJournal, Types, TypeOK, OldTree, Stages, Copying, Changes, Settled, Exclusive
<1>29. CASE Boot
  BY <1>29 DEF Boot, Types, TypeOK, OldTree, Stages, Copying, Changes, Settled, Exclusive
<1>30. CASE RecoverJournals
  BY <1>30 DEF RecoverJournals, Types, TypeOK, OldTree, Stages, Copying, Changes, Settled, Exclusive
<1>31. CASE Crash
  BY <1>31 DEF Crash, Types, TypeOK, OldTree, Stages, Copying, Changes, Settled, Exclusive
<1>32. ASSUME NEW k \in Kind, ProcessWrites(k) PROVE HomeThere'
  <2>1. \A j \in Kind : target[j] # None => target'[j] # None
    <3>1. target[k] \in Tree /\ Session \in File
      BY DEF Types, TypeOK, File
    <3> QED
      BY <1>32, <3>1, Grows DEF ProcessWrites, Types, TypeOK
  <2>2. CASE process = "legacy"
    <3>1. /\ UNCHANGED << target, active, record, profiled, recorded, change, process >>
          /\ written' = [written EXCEPT ![k] = @ \cup {Session}]
          /\ legacy' = [legacy EXCEPT ![active][k] = Made(@) \cup {Session}]
      BY <1>32, <2>2 DEF ProcessWrites
    <3>2. active \in Gen
      BY <2>2 DEF LegacyProcess
    <3>3. /\ legacy'[active][k] = Made(legacy[active][k]) \cup {Session}
          /\ \A g \in Gen, j \in Kind : g # active \/ j # k => legacy'[g][j] = legacy[g][j]
      BY <3>1, <3>2 DEF Types, TypeOK
    <3>4. /\ written'[k] = written[k] \cup {Session}
          /\ \A j \in Kind : j # k => written'[j] = written[j]
      BY <3>1 DEF Types, TypeOK
    <3>5. active # None /\ Made(legacy[active][k]) = written[k]
      BY <2>2, <3>2, FilesAssumption DEF EarlierProcess, File
    <3>6. legacy'[active][k] = written'[k] /\ legacy'[active][k] # None
      <4>1. written'[k] \in SUBSET File
        BY <3>4 DEF Types, TypeOK, File
      <4> QED
        BY <3>3, <3>4, <3>5, <4>1, FilesAssumption
    <3> QED
      BY <2>1, <2>2, <3>1, <3>3, <3>5, <3>6
  <2>3. CASE process # "legacy"
    <3>1. /\ process = "environment"
          /\ UNCHANGED << legacy, active, record, profiled, recorded, change, process >>
      BY <1>32, <2>3 DEF ProcessWrites, Types, TypeOK
    <3>2. \A j \in Kind : record[j].state = "finalized"
      BY <3>1 DEF EnvironmentProcess
    <3> QED
      BY <1>32, <2>1, <3>1 DEF ProcessWrites
  <2> QED
    BY <2>2, <2>3
<1>33. CASE ProcessExits
  BY <1>33 DEF ProcessExits, Types, TypeOK, OldTree, Stages, Copying, Changes, Settled, Exclusive
<1>34. ASSUME NEW k \in Kind, Truncate(k) PROVE HomeThere'
  BY <1>34 DEF Truncate, Types, TypeOK, OldTree, Stages, EnvironmentProcess
<1> QED
  BY <1>1, <1>2, <1>3, <1>4, <1>5, <1>6, <1>7, <1>8, <1>9, <1>10, <1>11, <1>12,
    <1>13, <1>14, <1>15, <1>16, <1>17, <1>18, <1>19, <1>20, <1>21, <1>22,
    <1>23, <1>24, <1>25, <1>26, <1>27, <1>28, <1>29, <1>30, <1>31, <1>32,
    <1>33, <1>34
  DEF Next, Requests, Progress, Surroundings, MigrateTree

\* Only a commit, an edit or a staging comes before a migration.
LEMMA UntouchedStep == HomeInv /\ PastInv /\ [Next]_vars => Untouched'
<1> SUFFICES ASSUME HomeInv, PastInv, Next PROVE Untouched'
  BY DEF PastInv, vars, Untouched
<1> USE FilesAssumption DEF HomeInv, PastInv, Untouched
<1>1. ASSUME NEW k \in Kind, AlreadyFinalized(k) PROVE Untouched'
  BY <1>1 DEF AlreadyFinalized, Types, TypeOK, OldTree, Stages, CopyingAll, ChangeKinds, Changes, File, Foreign
<1>2. ASSUME NEW k \in Kind, FinalizeAtOnce(k) PROVE Untouched'
  BY <1>2 DEF FinalizeAtOnce, Types, TypeOK, OldTree, Stages, CopyingAll, ChangeKinds, Changes, File, Foreign
<1>3. ASSUME NEW k \in Kind, ResumeRemoval(k) PROVE Untouched'
  BY <1>3 DEF ResumeRemoval, Types, TypeOK, OldTree, Stages, CopyingAll, ChangeKinds, Changes, File, Foreign
<1>4. ASSUME NEW k \in Kind, Copy(k) PROVE Untouched'
  BY <1>4 DEF Copy, Types, TypeOK, OldTree, Stages, CopyingAll, ChangeKinds, Changes, File, Foreign
<1>5. ASSUME NEW k \in Kind, Conflict(k) PROVE Untouched'
  BY <1>5 DEF Conflict, Types, TypeOK, OldTree, Stages, CopyingAll, ChangeKinds, Changes, File, Foreign
<1>6. ASSUME NEW k \in Kind, WriteCopying(k) PROVE Untouched'
  BY <1>6 DEF WriteCopying, Types, TypeOK, OldTree, Stages, CopyingAll, ChangeKinds, Changes, File, Foreign
<1>7. ASSUME NEW k \in Kind, Publish(k) PROVE Untouched'
  BY <1>7 DEF Publish, Types, TypeOK, OldTree, Stages, CopyingAll, ChangeKinds, Changes, File, Foreign
<1>8. ASSUME NEW k \in Kind, WriteCopied(k) PROVE Untouched'
  BY <1>8 DEF WriteCopied, Types, TypeOK, OldTree, Stages, CopyingAll, ChangeKinds, Changes, File, Foreign
<1>9. ASSUME NEW k \in Kind, RemoveSource(k) PROVE Untouched'
  BY <1>9 DEF RemoveSource, Types, TypeOK, OldTree, Stages, CopyingAll, ChangeKinds, Changes, File, Foreign
<1>10. ASSUME NEW k \in Kind, WriteFinalized(k) PROVE Untouched'
  BY <1>10 DEF WriteFinalized, Types, TypeOK, OldTree, Stages, CopyingAll, ChangeKinds, Changes, File, Foreign
<1>11. CASE IoError
  BY <1>11 DEF IoError, Types, TypeOK, OldTree, Stages, CopyingAll, ChangeKinds, Changes, File, Foreign
<1>12. CASE CreateEnvironment
  BY <1>12 DEF CreateEnvironment, Types, TypeOK, OldTree, Stages, CopyingAll, ChangeKinds, Changes, File, Foreign
<1>13. CASE SwitchCombination
  BY <1>13 DEF SwitchCombination, Types, TypeOK, OldTree, Stages, CopyingAll, ChangeKinds, Changes, File, Foreign
<1>14. CASE SwitchAccepted
  BY <1>14 DEF SwitchAccepted, Types, TypeOK, OldTree, Stages, CopyingAll, ChangeKinds, Changes, File, Foreign
<1>15. CASE ApplyChange
  BY <1>15 DEF ApplyChange, Types, TypeOK, OldTree, Stages, CopyingAll, ChangeKinds, Changes, File, Foreign
<1>16. CASE RestoreGeneration
  BY <1>16 DEF RestoreGeneration, Types, TypeOK, OldTree, Stages, CopyingAll, ChangeKinds, Changes, File, Foreign
<1>17. CASE Start
  BY <1>17 DEF Start, Types, TypeOK, OldTree, Stages, CopyingAll, ChangeKinds, Changes, File, Foreign
<1>18. CASE Launch
  BY <1>18 DEF Launch, Types, TypeOK, OldTree, Stages, CopyingAll, ChangeKinds, Changes, File, Foreign
<1>19. CASE Stop
  BY <1>19 DEF Stop, Types, TypeOK, OldTree, Stages, CopyingAll, ChangeKinds, Changes, File, Foreign
<1>20. CASE PatchEntry
  BY <1>20 DEF PatchEntry, Types, TypeOK, OldTree, Stages, CopyingAll, ChangeKinds, Changes, File, Foreign
<1>21. CASE RunExecutor
  BY <1>21 DEF RunExecutor, Types, TypeOK, OldTree, Stages, CopyingAll, ChangeKinds, Changes, File, Foreign
<1>22. CASE InstallReturns
  BY <1>22 DEF InstallReturns, Types, TypeOK, OldTree, Stages, CopyingAll, ChangeKinds, Changes, File, Foreign
<1>23. CASE InstallFails
  BY <1>23 DEF InstallFails, Types, TypeOK, OldTree, Stages, CopyingAll, ChangeKinds, Changes, File, Foreign
<1>24. CASE MakeDirectories
  BY <1>24 DEF MakeDirectories, Types, TypeOK, OldTree, Stages, CopyingAll, ChangeKinds, Changes, File, Foreign
<1>25. CASE PublishProfile
  BY <1>25 DEF PublishProfile, Types, TypeOK, OldTree, Stages, CopyingAll, ChangeKinds, Changes, File, Foreign
<1>26. ASSUME NEW k \in Kind, RecordFinalized(k) PROVE Untouched'
  BY <1>26 DEF RecordFinalized, Types, TypeOK, OldTree, Stages, CopyingAll, ChangeKinds, Changes, File, Foreign
<1>27. CASE MovePointer
  BY <1>27 DEF MovePointer, Types, TypeOK, OldTree, Stages, CopyingAll, ChangeKinds, Changes, File, Foreign
<1>28. CASE RemoveJournal
  BY <1>28 DEF RemoveJournal, Types, TypeOK, OldTree, Stages, CopyingAll, ChangeKinds, Changes, File, Foreign
<1>29. CASE Boot
  BY <1>29 DEF Boot, Types, TypeOK, OldTree, Stages, CopyingAll, ChangeKinds, Changes, File, Foreign
<1>30. CASE RecoverJournals
  BY <1>30 DEF RecoverJournals, Types, TypeOK, OldTree, Stages, CopyingAll, ChangeKinds, Changes, File, Foreign
<1>31. CASE Crash
  BY <1>31 DEF Crash, Types, TypeOK, OldTree, Stages, CopyingAll, ChangeKinds, Changes, File, Foreign
<1>32. ASSUME NEW k \in Kind, ProcessWrites(k) PROVE Untouched'
  <2>1. UNCHANGED << active, record >> /\ (process = "legacy" => UNCHANGED target)
    BY <1>32 DEF ProcessWrites
  <2>2. CASE process = "legacy"
    BY <2>1, <2>2
  <2>3. CASE process # "legacy"
    <3>1. process = "environment"
      BY <1>32, <2>3 DEF ProcessWrites, Types, TypeOK
    <3>2. \A j \in Kind : record[j].state = "finalized"
      BY <3>1 DEF EnvironmentProcess
    <3> QED
      BY <2>1, <3>2
  <2> QED
    BY <2>2, <2>3
<1>33. CASE ProcessExits
  BY <1>33 DEF ProcessExits, Types, TypeOK, OldTree, Stages, CopyingAll, ChangeKinds, Changes, File, Foreign
<1>34. ASSUME NEW k \in Kind, Truncate(k) PROVE Untouched'
  BY <1>34 DEF Truncate, Types, TypeOK, OldTree, Stages, CopyingAll, ChangeKinds, Changes, File, Foreign
<1> QED
  BY <1>1, <1>2, <1>3, <1>4, <1>5, <1>6, <1>7, <1>8, <1>9, <1>10, <1>11, <1>12,
    <1>13, <1>14, <1>15, <1>16, <1>17, <1>18, <1>19, <1>20, <1>21, <1>22,
    <1>23, <1>24, <1>25, <1>26, <1>27, <1>28, <1>29, <1>30, <1>31, <1>32,
    <1>33, <1>34
  DEF Next, Requests, Progress, Surroundings, MigrateTree

\* The initial states: nothing is migrated, and an earlier build left everything in
\* one generation.
LEMMA PastInit == Init => PastInv
<1> SUFFICES ASSUME Init PROVE PastInv
  OBVIOUS
<1> USE FilesAssumption
<1>1. CASE active = None
  <2>1. \A g \in Gen, k \in Kind : legacy[g][k] = None
    BY <1>1 DEF Init, File
  <2>2. process = None
    BY <1>1 DEF Init, File
  <2> QED
    BY <1>1, <2>1, <2>2 DEF Init, PastInv, Earlier, EarlierProcess, Settled, CopyingAll,
      Stages, HomeThere, Untouched
<1>2. CASE active # None
  <2>1. PICK g \in Gen : active = g /\ recorded = {g} /\ \E old \in [Kind -> {UserFile, None}] :
          /\ old["home"] # None
          /\ legacy = [h \in Gen |-> IF h = g THEN old ELSE [k \in Kind |-> None]]
    BY <1>2 DEF Init
  <2>2. PICK old \in [Kind -> {UserFile, None}] :
          /\ old["home"] # None
          /\ legacy = [h \in Gen |-> IF h = g THEN old ELSE [k \in Kind |-> None]]
    BY <2>1
  <2>3. \A h \in Gen, k \in Kind : legacy[h][k] = IF h = g THEN old[k] ELSE None
    BY <2>2
  <2>4. ASSUME NEW k \in Kind PROVE written[k] = Made(legacy[g][k])
    <3>1. written[k] = UNION {legacy[h][k] : h \in {i \in Gen : legacy[i][k] # None}}
      BY DEF Init
    <3>2. CASE old[k] = None
      <4>1. {i \in Gen : legacy[i][k] # None} = {}
        BY <2>3, <3>2
      <4> QED
        BY <2>3, <3>1, <3>2, <4>1
    <3>3. CASE old[k] # None
      <4>1. {i \in Gen : legacy[i][k] # None} = {g}
        BY <2>3, <3>3
      <4>2. {legacy[h][k] : h \in {g}} = {legacy[g][k]}
        OBVIOUS
      <4> QED
        BY <2>3, <3>1, <3>3, <4>1, <4>2
    <3> QED
      BY <3>2, <3>3
  <2>5. /\ profiled = {} /\ change = NoChange /\ job = Idle /\ mode = "down"
        /\ \A k \in Kind : record[k] = NoRecord /\ target[k] = None
        /\ process \in {None, "legacy"}
        /\ state # "absent"
    BY <1>2 DEF Init
  <2>6. g # None /\ None \notin {"legacy", "environment"}
    BY <1>2, <2>1
  <2>7. Earlier
    BY <2>1, <2>3, <2>4, <2>5, <2>6 DEF Earlier
  <2>8. EarlierProcess
    BY <2>1, <2>3, <2>4, <2>5, <2>6 DEF EarlierProcess
  <2>9. HomeThere
    BY <2>1, <2>2, <2>3, <2>5, <2>6 DEF HomeThere
  <2> QED
    BY <2>1, <2>5, <2>6, <2>7, <2>8, <2>9 DEF PastInv, Settled, CopyingAll, Stages, Untouched
<1> QED
  BY <1>1, <1>2

\* The second inductive invariant holds in every state.
LEMMA PastInvariance == Spec => []PastInv
<1>1. HomeInv /\ PastInv /\ [Next]_vars => PastInv'
  BY EarlierStep, EarlierProcessStep, SettledStep, CopyingAllStep, StagesStep,
     HomeThereStep, UntouchedStep DEF PastInv
<1> QED
  BY PastInit, HomeInvariance, <1>1, PTL DEF Spec

\* A process of this build finds in its home and data every file ever stored,
\* unless the pointer was moved away from a directory of an earlier build:
\* startEnvironment launches only after ensureHomeMigrated.
THEOREM ProcessSees == Spec => []ProcessSeesAll
<1>1. HomeInv /\ PastInv => ProcessSeesAll
  <2> SUFFICES ASSUME HomeInv, PastInv, process = "environment", NEW k \in Kind, ~Stranded(k)
               PROVE target[k] # None /\ written[k] \subseteq target[k]
    BY DEF ProcessSeesAll
  <2>1. target[k] # None
    BY DEF PastInv, HomeThere
  <2>2. \A g \in Gen \ {active} : legacy[g][k] = None
    BY DEF Stranded
  <2>3. Source(k) = None
    BY DEF HomeInv, EnvironmentProcess, PastInv, Settled
  <2>4. \A g \in Gen : legacy[g][k] = None
    BY <2>2, <2>3, FilesAssumption DEF File
  <2>5. \A f \in written[k] : Held(k, f)
    BY DEF HomeInv, Kept
  <2> QED
    BY <2>1, <2>4, <2>5 DEF Held
<1> QED
  BY HomeInvariance, PastInvariance, <1>1, PTL

\* migrateTree (home-migration.ts) reports no conflict of an intact source with no copy
\* or its own copy, nor of a complete copy whose source is gone.  A source that a crash
\* left half deleted beside its copy is none of these: it is a conflict for ever.
THEOREM ConflictsAreReal == Spec => ConflictIsReal
<1>1. HomeInv /\ PastInv /\ [Next]_vars => [\A k \in conflict' \ conflict : ~Reconcilable(k)]_vars
  <2> SUFFICES ASSUME HomeInv, PastInv, Next, NEW k \in conflict' \ conflict
               PROVE ~Reconcilable(k)
    OBVIOUS
  <2>1. k \in Kind /\ Conflict(k)
    <3>1. CASE Requests
      BY <3>1 DEF Requests, CreateEnvironment, SwitchCombination, ApplyChange,
        RestoreGeneration, Start, Stop, PatchEntry
    <3>2. CASE Progress
      BY <3>2 DEF Progress, MigrateTree, AlreadyFinalized, FinalizeAtOnce, ResumeRemoval, Copy,
        Conflict, WriteCopying, Publish, WriteCopied, RemoveSource, WriteFinalized,
        RecordFinalized, SwitchAccepted, Launch, RecoverJournals, RunExecutor,
        InstallReturns, InstallFails, MakeDirectories, PublishProfile, MovePointer,
        RemoveJournal
    <3>3. CASE Surroundings
      BY <3>3 DEF Surroundings, Boot, Crash, IoError, ProcessExits, ProcessWrites, Truncate
    <3> QED
      BY <3>1, <3>2, <3>3 DEF Next
  <2>2. written[k] \in SUBSET (UserFile \cup {Session}) /\ written[k] # None
    <3>1. written[k] \in SUBSET (UserFile \cup {Session})
      BY <2>1 DEF HomeInv, Types, TypeOK
    <3> QED
      BY <3>1, FilesAssumption DEF File
  <2>3. active # None
    BY <2>1 DEF Conflict
  <2>4. CASE record[k].state = "none"
    <3>1. target[k] # None
      BY <2>1, <2>4 DEF Conflict
    <3>2. PICK f \in target[k] : f \in Foreign
      BY <2>1, <2>3, <2>4, <3>1 DEF PastInv, Untouched
    <3>3. f \notin written[k]
      BY <2>2, <3>2, FilesAssumption DEF Foreign
    <3> QED
      BY <3>1, <3>2, <3>3 DEF Reconcilable
  <2>5. CASE Pending(k)
    <3>1. record[k].digest = written[k]
      BY <2>1, <2>5 DEF PastInv, Settled
    <3> QED
      BY <2>1, <2>2, <2>5, <3>1 DEF Conflict, Reconcilable
  <2> QED
    BY <2>1, <2>4, <2>5 DEF Conflict
<1> QED
  BY HomeInvariance, PastInvariance, <1>1, PTL DEF Spec, ConflictIsReal

===============================================================================
