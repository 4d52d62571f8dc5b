----------------------------- MODULE DataRootLock -----------------------------
(***************************************************************************)
(* DataRootLock of packages/core/src/data-root-lock.ts: the exclusive lock *)
(* of one data root, contended by several launcher processes.              *)
(*                                                                         *)
(* A process runs one operation at a time and its blocks are synchronous,  *)
(* but the processes interleave between any two file-system calls, so an   *)
(* action is one call with the code up to the next one, and  pc  says      *)
(* where a process is.  rename() publishes a lease only over a missing or  *)
(* an empty directory.  The recovery guard is a bound loopback port, which *)
(* the operating system frees when its owner dies.                         *)
(***************************************************************************)
EXTENDS Naturals

CONSTANTS
  Instance,     \* launcher processes; one that died does not come back
  Nobody,       \* a value that is no instance
  MaxLeases,    \* bound on leases issued
  MaxMeddling   \* bound on interventions from outside in the locks directory

ASSUME NobodyAssumption == Nobody \notin Instance
ASSUME LeaseBounds == MaxLeases \in Nat /\ MaxMeddling \in Nat

VARIABLES
  canonical,   \* the directory data-root.lock and the lease in it
  guard,       \* the owner of the recovery guard, or Nobody
  pc,          \* the next call of each process
  lease,       \* #lease: the lockId of the lease a process holds, or 0
  seen,        \* the lease an operation read and still works with
  aside,       \* the directory an operation moved to quarantine
  issued,      \* number of lockIds issued
  meddled      \* number of interventions

vars == << canonical, guard, pc, lease, seen, aside, issued, meddled >>

NoLease(kind) == [kind |-> kind, id |-> 0, owner |-> Nobody, fresh |-> FALSE]
Missing == NoLease("missing")      \* no directory
Empty == NoLease("empty")          \* a directory without lease.json
Corrupt == NoLease("corrupt")      \* a lease.json that cannot be read

Lease(id, i) == [kind |-> "lease", id |-> id, owner |-> i, fresh |-> TRUE]

Directory ==
  {Missing, Empty, Corrupt}
  \cup [kind: {"lease"}, id: Nat \ {0}, owner: Instance, fresh: BOOLEAN]

GuardedSteps ==
  {"guardedRead", "guardedJudge", "reclaim", "takeover", "guardedPublish",
   "releaseRead", "releaseQuarantine", "restore"}
HeldSteps == {"held", "republish", "refresh", "verify"}
Steps ==
  {"idle", "publish", "read", "judge", "wait", "releaseWait", "dead"}
  \cup GuardedSteps \cup HeldSteps

Init ==
  /\ canonical \in {Missing, Empty, Corrupt}
  /\ guard = Nobody
  /\ pc = [i \in Instance |-> "idle"]
  /\ lease = [i \in Instance |-> 0]
  /\ seen = [i \in Instance |-> Missing]
  /\ aside = [i \in Instance |-> Missing]
  /\ issued = 0
  /\ meddled = 0

At(i, step) == pc[i] = step
Goto(i, step) == pc' = [pc EXCEPT ![i] = step]
Publishable == canonical.kind \in {"missing", "empty"}
Holds(i) == lease[i] # 0
Names(dir, id) == dir.kind = "lease" /\ dir.id = id

\* Slip: an old heartbeat alone makes a lease stale.
StaleByHeartbeat(dir) == ~dir.fresh

\* #evaluate: an old heartbeat and an owner that is provably dead.
Stale(dir) == ~dir.fresh /\ At(dir.owner, "dead")

\* #withGuard ends: the port is released.
Leave(i) == Goto(i, "idle") /\ guard' = Nobody

\* #markLost
Lost(i) == Goto(i, "idle") /\ lease' = [lease EXCEPT ![i] = 0]

(***************************************************************************)
(* tryAcquire and acquire.                                                 *)
(***************************************************************************)
Attempt(i) ==
  /\ At(i, "idle")
  /\ Goto(i, IF canonical.kind = "missing" THEN "publish" ELSE "read")
  /\ UNCHANGED << canonical, guard, lease, seen, aside, issued, meddled >>

\* #publishLeaseAtomic, then #adopt.
Publish(i) ==
  /\ Publishable
  /\ issued < MaxLeases
  /\ canonical' = Lease(issued + 1, i)
  /\ lease' = [lease EXCEPT ![i] = issued + 1]
  /\ issued' = issued + 1
  /\ Goto(i, "held")

PublishFirst(i) ==
  /\ At(i, "publish")
  /\ \/ Publish(i)
     \/ /\ ~Publishable
        /\ Goto(i, "read")
        /\ UNCHANGED << canonical, lease, issued >>
  /\ UNCHANGED << guard, seen, aside, meddled >>

Read(i) ==
  /\ At(i, "read")
  /\ seen' = [seen EXCEPT ![i] = canonical]
  /\ Goto(i, IF Publishable THEN "wait"
             ELSE IF canonical.kind = "corrupt" THEN "idle" ELSE "judge")
  /\ UNCHANGED << canonical, guard, lease, aside, issued, meddled >>

\* The owner may also look alive (its pid is in use again) or be unknown.
Judge(i) ==
  /\ At(i, "judge")
  /\ \/ Stale(seen[i]) /\ Goto(i, "wait")
     \/ Goto(i, "idle")
  /\ UNCHANGED << canonical, guard, lease, seen, aside, issued, meddled >>

\* tryAcquire does not wait for the guard; acquire and release do so for a
\* bounded time, and without the guard a released lease stays published.
GiveUp(i) ==
  /\ pc[i] \in {"wait", "releaseWait"}
  /\ Goto(i, "idle")
  /\ UNCHANGED << canonical, guard, lease, seen, aside, issued, meddled >>

\* Slip: what was decided outside the guard is not decided again inside.
EnterGuardTrusting(i) ==
  /\ pc[i] \in {"wait", "releaseWait"}
  /\ guard = Nobody
  /\ guard' = i
  /\ Goto(i, IF At(i, "wait") THEN "takeover" ELSE "releaseRead")
  /\ UNCHANGED << canonical, lease, seen, aside, issued, meddled >>

EnterGuard(i) ==
  /\ pc[i] \in {"wait", "releaseWait"}
  /\ guard = Nobody
  /\ guard' = i
  /\ Goto(i, IF At(i, "wait") THEN "guardedRead" ELSE "releaseRead")
  /\ UNCHANGED << canonical, lease, seen, aside, issued, meddled >>

(***************************************************************************)
(* #takeoverUnderGuard                                                     *)
(***************************************************************************)
GuardedRead(i) ==
  /\ At(i, "guardedRead")
  /\ seen' = [seen EXCEPT ![i] = canonical]
  /\ \/ canonical.kind = "corrupt" /\ Leave(i)
     \/ canonical.kind = "missing" /\ Goto(i, "guardedPublish") /\ UNCHANGED guard
     \/ canonical.kind = "empty" /\ Goto(i, "reclaim") /\ UNCHANGED guard
     \/ canonical.kind = "lease" /\ Goto(i, "guardedJudge") /\ UNCHANGED guard
  /\ UNCHANGED << canonical, lease, aside, issued, meddled >>

GuardedJudge(i) ==
  /\ At(i, "guardedJudge")
  /\ \/ Stale(seen[i]) /\ Goto(i, "takeover") /\ UNCHANGED guard
     \/ Leave(i)
  /\ UNCHANGED << canonical, lease, seen, aside, issued, meddled >>

\* An empty directory is moved away; neither the success of that nor what was
\* moved is looked at.
Reclaim(i) ==
  /\ At(i, "reclaim")
  /\ canonical' = Missing
  /\ Goto(i, "guardedPublish")
  /\ UNCHANGED << guard, lease, seen, aside, issued, meddled >>

\* #quarantineCanonical, and the check of what it moved.
Quarantine(i, next) ==
  \/ canonical.kind = "missing" /\ Leave(i) /\ UNCHANGED << canonical, aside >>
  \/ /\ canonical.kind # "missing"
     /\ canonical' = Missing
     /\ \/ Names(canonical, seen[i].id) /\ next /\ UNCHANGED aside
        \/ /\ ~Names(canonical, seen[i].id)
           /\ aside' = [aside EXCEPT ![i] = canonical]
           /\ Goto(i, "restore")
           /\ UNCHANGED guard

TakeOver(i) ==
  /\ At(i, "takeover")
  /\ Quarantine(i, Goto(i, "guardedPublish") /\ UNCHANGED guard)
  /\ UNCHANGED << lease, seen, issued, meddled >>

GuardedPublish(i) ==
  /\ At(i, "guardedPublish")
  /\ guard' = Nobody
  /\ \/ Publish(i)
     \/ /\ ~Publishable
        /\ Goto(i, "idle")
        /\ UNCHANGED << canonical, lease, issued >>
  /\ UNCHANGED << seen, aside, meddled >>

\* #restoreQuarantinedLock: rename the directory back; if that fails, rename
\* its lease.json over the one that is there.
Restore(i) ==
  /\ At(i, "restore")
  /\ canonical' = IF Publishable \/ aside[i].kind # "empty" THEN aside[i] ELSE canonical
  /\ aside' = [aside EXCEPT ![i] = Missing]
  /\ Leave(i)
  /\ UNCHANGED << lease, seen, issued, meddled >>

(***************************************************************************)
(* release                                                                 *)
(***************************************************************************)
Release(i) ==
  /\ At(i, "held")
  /\ lease' = [lease EXCEPT ![i] = 0]
  /\ seen' = [seen EXCEPT ![i] = Lease(lease[i], i)]
  /\ Goto(i, "releaseWait")
  /\ UNCHANGED << canonical, guard, aside, issued, meddled >>

ReleaseRead(i) ==
  /\ At(i, "releaseRead")
  /\ \/ Names(canonical, seen[i].id) /\ Goto(i, "releaseQuarantine") /\ UNCHANGED guard
     \/ ~Names(canonical, seen[i].id) /\ Leave(i)
  /\ UNCHANGED << canonical, lease, seen, aside, issued, meddled >>

ReleaseQuarantine(i) ==
  /\ At(i, "releaseQuarantine")
  /\ Quarantine(i, Leave(i))
  /\ UNCHANGED << lease, seen, issued, meddled >>

(***************************************************************************)
(* #beat, the heartbeat of a holder, and assertHeld.                       *)
(***************************************************************************)

\* Slip: a heartbeat that finds no lease waits for the next one.
BeatWaiting(i) ==
  /\ At(i, "held")
  /\ \/ Publishable /\ UNCHANGED << pc, lease >>
     \/ Names(canonical, lease[i]) /\ Goto(i, "refresh") /\ UNCHANGED lease
     \/ ~Publishable /\ ~Names(canonical, lease[i]) /\ Lost(i)
  /\ UNCHANGED << canonical, guard, seen, aside, issued, meddled >>

Beat(i) ==
  /\ At(i, "held")
  /\ \/ Publishable /\ Goto(i, "republish") /\ UNCHANGED lease
     \/ Names(canonical, lease[i]) /\ Goto(i, "refresh") /\ UNCHANGED lease
     \/ ~Publishable /\ ~Names(canonical, lease[i]) /\ Lost(i)
  /\ UNCHANGED << canonical, guard, seen, aside, issued, meddled >>

Republish(i) ==
  /\ At(i, "republish")
  /\ \/ /\ Publishable
        /\ canonical' = Lease(lease[i], i)
        /\ Goto(i, "held") /\ UNCHANGED lease
     \/ /\ ~Publishable
        /\ IF canonical.kind = "lease" /\ canonical.id # lease[i]
             THEN Lost(i)
             ELSE Goto(i, "held") /\ UNCHANGED lease
        /\ UNCHANGED canonical
  /\ UNCHANGED << guard, seen, aside, issued, meddled >>

\* #writeLeaseAtomic replaces lease.json, or fails.
Refresh(i) ==
  /\ At(i, "refresh")
  /\ \/ /\ canonical.kind # "missing"
        /\ canonical' = Lease(lease[i], i)
        /\ Goto(i, "verify")
     \/ Goto(i, "held") /\ UNCHANGED canonical
  /\ UNCHANGED << guard, lease, seen, aside, issued, meddled >>

Verify(i) ==
  /\ At(i, "verify")
  /\ \/ Names(canonical, lease[i]) /\ Goto(i, "held") /\ UNCHANGED lease
     \/ ~Names(canonical, lease[i]) /\ Lost(i)
  /\ UNCHANGED << canonical, guard, seen, aside, issued, meddled >>

AssertHeld(i) ==
  /\ At(i, "held")
  /\ ~Names(canonical, lease[i])
  /\ Lost(i)
  /\ UNCHANGED << canonical, guard, seen, aside, issued, meddled >>

(***************************************************************************)
(* What else happens: a heartbeat grows old, a process dies, somebody      *)
(* deletes the lock directory or the lease in it.                          *)
(***************************************************************************)
Age ==
  /\ canonical.fresh
  /\ canonical' = [canonical EXCEPT !.fresh = FALSE]
  /\ UNCHANGED << guard, pc, lease, seen, aside, issued, meddled >>

Die(i) ==
  /\ ~At(i, "dead")
  /\ Goto(i, "dead")
  /\ lease' = [lease EXCEPT ![i] = 0]
  /\ guard' = IF guard = i THEN Nobody ELSE guard
  /\ UNCHANGED << canonical, seen, aside, issued, meddled >>

Meddle ==
  /\ meddled < MaxMeddling
  /\ meddled' = meddled + 1
  /\ canonical.kind # "missing"
  /\ canonical' \in {Missing, Empty}
  /\ UNCHANGED << guard, pc, lease, seen, aside, issued >>

Acquiring(i) ==
  \/ Attempt(i) \/ PublishFirst(i) \/ Read(i) \/ Judge(i)
  \/ GuardedRead(i) \/ GuardedJudge(i) \/ Reclaim(i) \/ TakeOver(i)
  \/ GuardedPublish(i)
Releasing(i) == Release(i) \/ ReleaseRead(i) \/ ReleaseQuarantine(i)
Beating(i) == Beat(i) \/ Republish(i) \/ Refresh(i) \/ Verify(i)

Next ==
  \/ \E i \in Instance :
       \/ Acquiring(i) \/ Releasing(i) \/ Beating(i)
       \/ GiveUp(i) \/ EnterGuard(i) \/ Restore(i) \/ AssertHeld(i) \/ Die(i)
  \/ Age \/ Meddle

Spec == Init /\ [][Next]_vars

\* The heartbeat is a timer of the process that holds the lease.
FairSpec == Spec /\ \A i \in Instance : WF_vars(Beating(i))

(***************************************************************************)
(* Properties.                                                             *)
(***************************************************************************)
TypeOK ==
  /\ canonical \in Directory
  /\ guard \in Instance \cup {Nobody}
  /\ pc \in [Instance -> Steps]
  /\ lease \in [Instance -> Nat]
  /\ seen \in [Instance -> Directory]
  /\ aside \in [Instance -> Directory]
  /\ issued \in 0..MaxLeases
  /\ meddled \in 0..MaxMeddling

\* dataroot-ownership.md, "a live holder is never taken over": at most one
\* live process believes that it holds the data root, however the calls of
\* contenders, takeovers, releases and deaths interleave.
MutualExclusion ==
  meddled = 0 => \A i, j \in Instance : Holds(i) /\ Holds(j) => i = j

\* A published lease of a live process leaves its place only by a release of
\* that process: no takeover, reclaim or restore moves it.
LiveLeaseStays ==
  [][meddled' = 0 /\ canonical.kind = "lease" /\ ~At(canonical.owner, "dead")
       => \/ Names(canonical', canonical.id)
          \/ At(canonical.owner, "releaseQuarantine")]_vars

\* A lease that was deleted under its live holder is published again by a
\* heartbeat, or the holder learns that it lost the lock.
LeaseReturns ==
  \A i \in Instance :
    Holds(i) /\ Publishable ~> canonical.kind = "lease" \/ ~Holds(i)

===============================================================================
