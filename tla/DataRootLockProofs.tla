-------------------------- MODULE DataRootLockProofs --------------------------
(***************************************************************************)
(* DataRootLock for every set of processes and every bound.  The inductive *)
(* invariant says, for as long as nobody meddles with the directory: the   *)
(* published lease is that of the holder, and what an operation has read   *)
(* and still relies on is true when it acts.                               *)
(***************************************************************************)
EXTENDS DataRootLock, TLAPS

USE DEF GuardedSteps, HeldSteps

ReleaseSteps == {"releaseWait", "releaseRead", "releaseQuarantine"}

\* A process has a lockId exactly while it is at a step of a holder.
Holding == \A i \in Instance : Holds(i) <=> pc[i] \in HeldSteps

\* The steps under the guard are those of its owner.
Guarded == \A i \in Instance : pc[i] \in GuardedSteps => guard = i

\* The published lease is the holder's, until its release has moved it away.
Published ==
  \A i \in Instance :
    /\ Holds(i) => Names(canonical, lease[i]) /\ canonical.owner = i
    /\ pc[i] \in ReleaseSteps => Names(canonical, seen[i].id) /\ canonical.owner = i

\* A directory found empty is empty, and nobody will publish over it.
Reclaimable ==
  \A i \in Instance :
    /\ At(i, "reclaim") => canonical.kind = "empty"
    /\ pc[i] \in {"publish", "guardedPublish"} => canonical.kind # "empty"

\* What a takeover judged is what it will move, and nothing is ever put back.
Judged ==
  \A i \in Instance :
    /\ pc[i] \in {"guardedJudge", "takeover"} =>
         /\ seen[i].kind = "lease"
         /\ Names(canonical, seen[i].id) /\ canonical.owner = seen[i].owner
    /\ At(i, "takeover") => At(seen[i].owner, "dead")
    /\ ~At(i, "restore")

LockInvariant ==
  /\ TypeOK /\ Holding
  /\ meddled = 0 => Guarded /\ Published /\ Reclaimable /\ Judged

(***************************************************************************)
(* Directories.                                                            *)
(***************************************************************************)
LEMMA DirectoryTypes ==
  /\ Missing \in Directory /\ Empty \in Directory /\ Corrupt \in Directory
  /\ \A n \in Nat \ {0}, i \in Instance : Lease(n, i) \in Directory
  BY DEF Directory, Missing, Empty, Corrupt, NoLease, Lease

LEMMA Aged == \A d \in Directory : d.fresh => [d EXCEPT !.fresh = FALSE] \in Directory
<1> TAKE d \in Directory
<1> HAVE d.fresh
<1> DEFINE Leases == [kind: {"lease"}, id: Nat \ {0}, owner: Instance, fresh: BOOLEAN]
<1>1. d \in Leases
  BY DEF Directory, Missing, Empty, Corrupt, NoLease
<1>2. [d EXCEPT !.fresh = FALSE] \in Leases
  BY <1>1
<1> QED BY <1>2 DEF Directory

(***************************************************************************)
(* Type correctness, which needs that a holder has a lockId.               *)
(***************************************************************************)
Typed == TypeOK /\ Holding

LEMMA TypeInit == Init => Typed
  BY NobodyAssumption, LeaseBounds, DirectoryTypes
  DEF Init, Typed, TypeOK, Holding, Holds, Steps

LEMMA TypeStep == Typed /\ [Next]_vars => Typed'
<1> SUFFICES ASSUME Typed, [Next]_vars PROVE Typed'
  OBVIOUS
<1> USE NobodyAssumption, LeaseBounds, DirectoryTypes
        DEF Typed, TypeOK, Holding, Holds, Steps, Goto, At
<1>1. ASSUME NEW i \in Instance, Acquiring(i) PROVE Typed'
  <2>0. ASSUME Publish(i) PROVE /\ canonical' \in Directory
                                /\ lease' \in [Instance -> Nat]
                                /\ lease' = [lease EXCEPT ![i] = issued + 1]
                                /\ issued' \in 0..MaxLeases
                                /\ issued + 1 # 0
                                /\ pc' = [pc EXCEPT ![i] = "held"]
    BY <2>0 DEF Publish
  <2>1. CASE Attempt(i)        BY <2>1 DEF Attempt
  <2>2. CASE PublishFirst(i)
    <3>1. CASE Publish(i)      BY <2>0, <2>2, <3>1 DEF PublishFirst
    <3>2. CASE ~Publishable    BY <2>2, <3>2 DEF PublishFirst, Publish
    <3> QED BY <2>2, <3>1, <3>2 DEF PublishFirst
  <2>3. CASE Read(i)           BY <2>3 DEF Read
  <2>4. CASE Judge(i)          BY <2>4 DEF Judge
  <2>5. CASE GuardedRead(i)    BY <2>5 DEF GuardedRead, Leave
  <2>6. CASE GuardedJudge(i)   BY <2>6 DEF GuardedJudge, Leave
  <2>7. CASE Reclaim(i)        BY <2>7 DEF Reclaim
  <2>8. CASE TakeOver(i)       BY <2>8 DEF TakeOver, Quarantine, Leave
  <2>9. CASE GuardedPublish(i)
    <3>1. CASE Publish(i)      BY <2>0, <2>9, <3>1 DEF GuardedPublish
    <3>2. CASE ~Publishable    BY <2>9, <3>2 DEF GuardedPublish, Publish
    <3> QED BY <2>9, <3>1, <3>2 DEF GuardedPublish
  <2> QED BY <1>1, <2>1, <2>2, <2>3, <2>4, <2>5, <2>6, <2>7, <2>8, <2>9 DEF Acquiring
<1>2. ASSUME NEW i \in Instance, Releasing(i) PROVE Typed'
  <2>1. CASE Release(i)           BY <2>1 DEF Release
  <2>2. CASE ReleaseRead(i)       BY <2>2 DEF ReleaseRead, Leave
  <2>3. CASE ReleaseQuarantine(i) BY <2>3 DEF ReleaseQuarantine, Quarantine, Leave
  <2> QED BY <1>2, <2>1, <2>2, <2>3 DEF Releasing
<1>3. ASSUME NEW i \in Instance, Beating(i) PROVE Typed'
  <2>1. CASE Beat(i)              BY <2>1 DEF Beat, Lost
  <2>2. CASE Republish(i)         BY <2>2 DEF Republish, Lost
  <2>3. CASE Refresh(i)           BY <2>3 DEF Refresh
  <2>4. CASE Verify(i)            BY <2>4 DEF Verify, Lost
  <2> QED BY <1>3, <2>1, <2>2, <2>3, <2>4 DEF Beating
<1>4. ASSUME NEW i \in Instance, GiveUp(i) \/ EnterGuard(i) PROVE Typed'
  BY <1>4 DEF GiveUp, EnterGuard
<1>5. ASSUME NEW i \in Instance, Restore(i) \/ AssertHeld(i) \/ Die(i) PROVE Typed'
  BY <1>5 DEF Restore, Leave, AssertHeld, Lost, Die
<1>6. CASE Age      BY <1>6, Aged DEF Age
<1>7. CASE Meddle   BY <1>7 DEF Meddle
<1>8. CASE UNCHANGED vars   BY <1>8 DEF vars
<1> QED BY <1>1, <1>2, <1>3, <1>4, <1>5, <1>6, <1>7, <1>8 DEF Next

(***************************************************************************)
(* The safety part, while nobody has meddled.                              *)
(***************************************************************************)
Undisturbed == Guarded /\ Published /\ Reclaimable /\ Judged

LEMMA SafeInit == Init => Undisturbed
  BY DEF Init, Undisturbed, Guarded, Published, Reclaimable, Judged, Holds, At,
         ReleaseSteps

LEMMA SafeStep ==
  Typed /\ Typed' /\ Undisturbed /\ [Next]_vars /\ ~Meddle => Undisturbed'
<1> SUFFICES ASSUME Typed, Typed', Undisturbed, [Next]_vars, ~Meddle
             PROVE  Undisturbed'
  OBVIOUS
<1> USE NobodyAssumption
        DEF Typed, TypeOK, Holding, Undisturbed, Guarded, Published, Reclaimable,
            Judged, ReleaseSteps, Names, Holds, Goto, At, Missing, Empty, Corrupt,
            NoLease, Lease, Publishable
\* A process that goes on to a step outside the guard, and does nothing else.
<1>0. ASSUME NEW i \in Instance, NEW step \in {"idle", "read", "wait"},
             ~At(i, "dead"), Goto(i, step), UNCHANGED << canonical, guard, lease, seen >>
      PROVE  Undisturbed'
  <2>1. Guarded' /\ Published'   BY <1>0
  <2>2. Reclaimable'             BY <1>0
  <2>3. Judged'                  BY <1>0
  <2> QED BY <2>1, <2>2, <2>3
<1>1. ASSUME NEW i \in Instance, Acquiring(i) PROVE Undisturbed'
  <2>1. CASE Attempt(i)        BY <2>1 DEF Attempt
  <2>2. CASE PublishFirst(i)
    <3>1. CASE Publishable     BY <2>2, <3>1 DEF PublishFirst, Publish
    <3>2. CASE ~Publishable
      <4>1. Goto(i, "read") /\ UNCHANGED << canonical, guard, lease, seen >>
        BY <2>2, <3>2 DEF PublishFirst, Publish
      <4> QED BY <1>0, <2>2, <4>1 DEF PublishFirst
    <3> QED BY <3>1, <3>2
  <2>3. CASE Read(i)           BY <2>3 DEF Read
  <2>4. CASE Judge(i)
    <3>1. CASE Goto(i, "wait")   BY <2>4, <3>1 DEF Judge
    <3>2. CASE Goto(i, "idle")   BY <2>4, <3>2 DEF Judge
    <3> QED BY <2>4, <3>1, <3>2 DEF Judge
  <2>5. CASE GuardedRead(i)    BY <2>5 DEF GuardedRead, Leave
  <2>6. CASE GuardedJudge(i)
    <3>1. CASE Goto(i, "takeover")   BY <2>6, <3>1 DEF GuardedJudge, Leave, Stale
    <3>2. CASE Goto(i, "idle")       BY <2>6, <3>2 DEF GuardedJudge, Leave
    <3> QED BY <2>6, <3>1, <3>2 DEF GuardedJudge, Leave
  <2>7. CASE Reclaim(i)        BY <2>7 DEF Reclaim
  <2>8. CASE TakeOver(i)       BY <2>8 DEF TakeOver, Quarantine, Leave
  <2>9. CASE GuardedPublish(i) BY <2>9 DEF GuardedPublish, Publish
  <2> QED BY <1>1, <2>1, <2>2, <2>3, <2>4, <2>5, <2>6, <2>7, <2>8, <2>9 DEF Acquiring
<1>2. ASSUME NEW i \in Instance, Releasing(i) PROVE Undisturbed'
  <2>1. CASE Release(i)           BY <2>1 DEF Release
  <2>2. CASE ReleaseRead(i)       BY <2>2 DEF ReleaseRead, Leave
  <2>3. CASE ReleaseQuarantine(i) BY <2>3 DEF ReleaseQuarantine, Quarantine, Leave
  <2> QED BY <1>2, <2>1, <2>2, <2>3 DEF Releasing
<1>3. ASSUME NEW i \in Instance, Beating(i) PROVE Undisturbed'
  <2>1. CASE Beat(i)              BY <2>1 DEF Beat, Lost
  <2>2. CASE Republish(i)         BY <2>2 DEF Republish, Lost
  <2>3. CASE Refresh(i)           BY <2>3 DEF Refresh
  <2>4. CASE Verify(i)            BY <2>4 DEF Verify, Lost
  <2> QED BY <1>3, <2>1, <2>2, <2>3, <2>4 DEF Beating
<1>4. ASSUME NEW i \in Instance, GiveUp(i) \/ EnterGuard(i) PROVE Undisturbed'
  <2>1. CASE GiveUp(i)       BY <2>1 DEF GiveUp
  <2>2. CASE EnterGuard(i)
    <3>1. CASE At(i, "wait")          BY <2>2, <3>1 DEF EnterGuard
    <3>2. CASE At(i, "releaseWait")   BY <2>2, <3>2 DEF EnterGuard
    <3> QED BY <2>2, <3>1, <3>2 DEF EnterGuard
  <2> QED BY <1>4, <2>1, <2>2
<1>5. ASSUME NEW i \in Instance, Restore(i) \/ AssertHeld(i) PROVE Undisturbed'
  BY <1>5 DEF Restore, AssertHeld
<1>6. ASSUME NEW i \in Instance, Die(i) PROVE Undisturbed'
  BY <1>6 DEF Die
<1>7. CASE Age      BY <1>7 DEF Age
<1>8. CASE UNCHANGED vars   BY <1>8 DEF vars
<1> QED BY <1>1, <1>2, <1>3, <1>4, <1>5, <1>6, <1>7, <1>8 DEF Next

(***************************************************************************)
(* The theorems.                                                           *)
(***************************************************************************)
LEMMA MeddledGrows == Typed /\ [Next]_vars =>
                        \/ meddled' = meddled
                        \/ (Meddle /\ meddled' # 0)
<1> SUFFICES ASSUME Typed, [Next]_vars PROVE meddled' = meddled \/ (Meddle /\ meddled' # 0)
  OBVIOUS
<1>1. CASE Meddle  BY <1>1, LeaseBounds DEF Meddle, Typed, TypeOK
<1>2. CASE Age \/ UNCHANGED vars   BY <1>2 DEF Age, vars
<1>3. CASE \E i \in Instance :
        \/ Acquiring(i) \/ Releasing(i) \/ Beating(i)
        \/ GiveUp(i) \/ EnterGuard(i) \/ Restore(i) \/ AssertHeld(i) \/ Die(i)
  BY <1>3 DEF Acquiring, Releasing, Beating, Attempt, PublishFirst, Read, Judge,
     GuardedRead, GuardedJudge, Reclaim, TakeOver, GuardedPublish, Release,
     ReleaseRead, ReleaseQuarantine, Beat, Republish, Refresh, Verify, GiveUp,
     EnterGuard, Restore, AssertHeld, Die
<1> QED BY <1>1, <1>2, <1>3 DEF Next

\* Every value of every variable of the lock has its type, for every set of
\* processes and every bound.
THEOREM LockTypes == Spec => []TypeOK
<1>1. Spec => []Typed
  BY TypeInit, TypeStep, PTL DEF Spec
<1>2. Typed => TypeOK
  BY DEF Typed
<1> QED BY <1>1, <1>2, PTL

LEMMA Invariance == Spec => []LockInvariant
<1>1. Init => LockInvariant
  BY TypeInit, SafeInit DEF LockInvariant, Typed, Undisturbed
<1>2. LockInvariant /\ [Next]_vars => LockInvariant'
  <2> SUFFICES ASSUME LockInvariant, [Next]_vars PROVE LockInvariant'
    OBVIOUS
  <2>1. Typed /\ Typed'
    BY TypeStep DEF LockInvariant, Typed
  <2>2. ASSUME meddled' = 0 PROVE Undisturbed'
    <3>1. meddled = 0 /\ ~Meddle
      BY <2>1, <2>2, MeddledGrows DEF Meddle, Typed, TypeOK
    <3>2. Undisturbed
      BY <3>1 DEF LockInvariant, Undisturbed
    <3> QED BY <2>1, <3>1, <3>2, SafeStep
  <2> QED BY <2>1, <2>2 DEF LockInvariant, Typed, Undisturbed
<1> QED BY <1>1, <1>2, PTL DEF Spec

\* "A live holder is never taken over" (dataroot-ownership.md): at most one live
\* process believes it holds the data root, for every number of contenders.
THEOREM LockIsExclusive == Spec => []MutualExclusion
<1>1. LockInvariant => MutualExclusion
  BY DEF LockInvariant, Published, MutualExclusion, Names
<1> QED BY <1>1, Invariance, PTL

\* The published lease of a live process is removed by nobody else, between any
\* two file-system calls of any number of contenders.
THEOREM LockStays == Spec => LiveLeaseStays
<1>1. ASSUME LockInvariant, [Next]_vars, meddled' = 0,
             canonical.kind = "lease", ~At(canonical.owner, "dead")
      PROVE  \/ Names(canonical', canonical.id)
             \/ At(canonical.owner, "releaseQuarantine")
  <2> DEFINE Kept == \/ Names(canonical', canonical.id)
                     \/ At(canonical.owner, "releaseQuarantine")
  <2> USE <1>1 DEF Names, At, Lease
  <2>0. Typed /\ Undisturbed /\ ~Meddle
    BY MeddledGrows DEF LockInvariant, Typed, Undisturbed, Meddle, TypeOK
  <2>1. CASE canonical' = canonical   BY <2>1
  <2>2. ASSUME NEW i \in Instance, Reclaim(i) PROVE FALSE
    BY <2>0, <2>2 DEF Reclaim, Undisturbed, Reclaimable
  <2>3. ASSUME NEW i \in Instance, TakeOver(i) PROVE FALSE
    BY <2>0, <2>3 DEF TakeOver, Undisturbed, Judged
  <2>4. ASSUME NEW i \in Instance, Restore(i) PROVE FALSE
    BY <2>0, <2>4 DEF Restore, Undisturbed, Judged
  <2>5. ASSUME NEW i \in Instance, ReleaseQuarantine(i) PROVE Kept
    BY <2>0, <2>5 DEF ReleaseQuarantine, Undisturbed, Published, ReleaseSteps
  <2>6. ASSUME NEW i \in Instance, Republish(i) \/ Refresh(i) PROVE Kept
    BY <2>0, <2>6 DEF Republish, Refresh, Publishable, Undisturbed, Published,
       Typed, Holding
  <2>7. CASE Age   BY <2>0, <2>7 DEF Age, Typed, TypeOK, Directory, Missing, Empty,
                      Corrupt, NoLease
  <2>8. ASSUME NEW i \in Instance,
               \/ Attempt(i) \/ PublishFirst(i) \/ Read(i) \/ Judge(i)
               \/ GuardedRead(i) \/ GuardedJudge(i) \/ GuardedPublish(i)
        PROVE  canonical' = canonical
    BY <2>8 DEF Attempt, PublishFirst, Read, Judge, GuardedRead, GuardedJudge,
       GuardedPublish, Publish, Publishable
  <2>9. ASSUME NEW i \in Instance,
               \/ Release(i) \/ ReleaseRead(i) \/ Beat(i) \/ Verify(i) \/ GiveUp(i)
               \/ EnterGuard(i) \/ AssertHeld(i) \/ Die(i)
        PROVE  canonical' = canonical
    BY <2>9 DEF Release, ReleaseRead, Beat, Verify, GiveUp, EnterGuard, AssertHeld, Die
  <2>10. CASE UNCHANGED vars   BY <2>10 DEF vars
  <2> QED BY <2>0, <2>1, <2>2, <2>3, <2>4, <2>5, <2>6, <2>7, <2>8, <2>9, <2>10
          DEF Next, Acquiring, Releasing, Beating
<1> QED BY <1>1, Invariance, PTL DEF Spec, LiveLeaseStays

===============================================================================
