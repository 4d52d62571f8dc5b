---------------------------- MODULE ManagedProcess ----------------------------
(***************************************************************************)
(* Starting, stopping and reconciling the managed DSH process of an        *)
(* environment: the start and stop operations of EnvironmentService        *)
(* (creation-service.ts) over the process manager of packages/runtime      *)
(* (process/manager.ts, reconcile/reconcile.ts).                           *)
(*                                                                         *)
(* The operating system is a set of live processes; one can die at any     *)
(* time, and survives the launcher.  The ownership probe is assumed to     *)
(* answer truthfully: a recorded identity is owned exactly when its        *)
(* process lives, and a scan finds exactly the processes of the recorded   *)
(* generation.  A process may outlive SIGKILL: a stop and a recovery wait  *)
(* for its end and report it; a failed start does not look at what its     *)
(* termination returned, and its process is then one of the  survivors .   *)
(***************************************************************************)
EXTENDS LauncherStores, SequencesExt

Alive == processes \cup survivors
Owned(e) == \E p \in Alive : p.by = launches[e].by
Unidentified(e) ==                       \* the record holds no identity
  launches[e].state # "none" /\ launches[e].by = None
Candidate(e) == \E p \in Alive : p.env = e /\ p.gen = launches[e].gen

Killed(o) ==
  /\ processes' = {p \in processes : p.by # o}
  /\ survivors' = {p \in survivors : p.by # o}

\* The process is still there after SIGKILL, and nobody notices.
Outlived(o) ==
  /\ processes' = {p \in processes : p.by # o}
  /\ survivors' = survivors \cup {p \in processes : p.by = o}

\* `active` of the process manager: one start or stop per environment.
Busy(e) ==
  \E o \in Op : controllers[o] /\ OfKind(o, {"start", "stop"}) /\ operations[o].env = e

\* #generationFor finds the install manifest of the active generation.
Installed(e) ==
  environments[e].gen # None /\ generations[environments[e].gen] # "absent"

Marked(e, state) == Write("launches", e, [launches[e] EXCEPT !.state = state])
Spawning(e, g) == PutLaunch(e, [state |-> "spawning", gen |-> g, by |-> None])
PutState(e, state) ==
  PutEnvironment(e, [environments[e] EXCEPT !.state = state])
PutStateIf(e, from, to) ==
  IF environments[e].state = from THEN << PutState(e, to) >> ELSE <<>>

During(kind) == IF kind = "start" THEN "starting" ELSE "stopping"

\* Slip: a stop that failed leaves the environment `stopped`.
StoppedAnyhow(kind) == "stopped"

Reverted(kind) == IF kind = "start" THEN "stopped" ELSE "running"

\* Slip: only the environment is reverted, not the operation failed.
FailQuietly(o) ==
  PutStateIf(operations[o].env, During(operations[o].kind),
             Reverted(operations[o].kind))

\* The error paths of #runProcessOperation: an aborted operation keeps the
\* status the canceller gave it.
FailScript(o) ==
  LET kind == operations[o].kind IN
  (IF o \in aborted THEN <<>> ELSE Settle(o, "failed"))
  \o PutStateIf(operations[o].env, During(kind), Reverted(kind))

\* What the task does in the same block once the manager refused at once.
Refused(o, kind, e) ==
  << PutOperation(o, kind, e, "failed"), PutState(e, Reverted(kind)) >>

TaskOf(o, kind) == TaskReturns(o) /\ OfKind(o, {kind})
Spawned(o) == TaskOf(o, "start") /\ requested[o] = None
\* The launch record is still the one of the previous start.
Previous(o, e) == launches[e].by \notin {None, o}

(***************************************************************************)
(* environments.start.  Only core journals are looked at, not applyJournals*)
(***************************************************************************)
Start(o, e) ==
  LET begin == << PutOperation(o, "start", e, "active"), PutState(e, "starting") >>
      g == environments[e].gen
  IN
  /\ Idle
  /\ NewRequest(o, "start")
  /\ ~blocked
  /\ environments[e].state = "stopped"
  /\ ~HasJournal(e, CoreTransactions)
  /\ Installed(e)
  /\ \/ /\ Busy(e) \/ Owned(e)
        /\ Run(Dispatched(o, "start", begin) \o Refused(o, "start", e), None)
        /\ UNCHANGED requested
     \/ /\ ~Busy(e) /\ ~Owned(e)
        /\ Run(Dispatched(o, "start",
                 begin \o << Register(o) >>
                 \o (IF launches[e].by = None THEN << Spawning(e, g) >>
                     ELSE <<>>)), None)     \* cleanupGoneLeader is awaited first
        /\ requested' = [requested EXCEPT ![o] = g]
  /\ UNCHANGED << durable, processes, mode, controllers, aborted, expected,
                  watched, entries, switchJournalSeen, bounds >>

\* runStart writes its intent before anything is spawned.
LaunchIntent(o) ==
  /\ TaskOf(o, "start")
  /\ Previous(o, operations[o].env)
  /\ Run(<< Spawning(operations[o].env, requested[o]) >>, o)
  /\ UNCHANGED << durable, processes, mode, controllers, volatile, bounds >>

Spawn(o) ==
  LET e == operations[o].env IN
  /\ TaskOf(o, "start")
  /\ requested[o] # None
  /\ ~Previous(o, e)
  /\ o \notin aborted
  /\ processes' = processes \cup {[env |-> e, by |-> o, gen |-> requested[o]]}
  /\ requested' = [requested EXCEPT ![o] = None]
  /\ UNCHANGED << durable, mode, todo, enclosing, controllers, aborted, expected,
                  watched, entries, switchJournalSeen, bounds >>

Identify(o) ==
  LET e == operations[o].env IN
  /\ Spawned(o)
  /\ launches[e].state = "spawning"
  /\ \E p \in processes : p.by = o
  /\ Run(<< PutLaunch(e, [launches[e] EXCEPT !.state = "starting", !.by = o]) >>, o)
  /\ UNCHANGED << durable, processes, mode, controllers, volatile, bounds >>

\* Readiness was announced: the launch, the operation and the environment are
\* written in one block; the environment becomes `running` whatever it was.
Ready(o) ==
  LET e == operations[o].env IN
  /\ Spawned(o)
  /\ launches[e].state = "starting"
  /\ Owned(e)
  /\ o \notin aborted
  /\ Run(<< Marked(e, "running") >> \o Settle(o, "succeeded")
           \o << PutState(e, "running") >>, o)
  /\ Finished(o)
  /\ watched' = watched \cup {o}
  /\ UNCHANGED << durable, processes, mode, aborted, expected, requested, entries,
                  switchJournalSeen, bounds >>

\* Spawn error, early exit, timeout, unreachable loopback, unresolved tree of
\* the previous launch, or a noticed abort: the started tree is killed, but whether
\* it exited is not looked at, neither here nor when its identity is unknown.
StartFails(o) ==
  LET e == operations[o].env IN
  /\ TaskOf(o, "start")
  /\ Run((IF Previous(o, e) THEN <<>> ELSE << Marked(e, "ended") >>)
           \o FailScript(o), o)
  /\ Killed(o) \/ Outlived(o)
  /\ Finished(o)
  /\ aborted' = aborted \ {o}
  /\ requested' = [requested EXCEPT ![o] = None]
  /\ UNCHANGED << files, mode, expected, watched, entries, switchJournalSeen,
                  bounds >>

(***************************************************************************)
(* environments.stop                                                       *)
(***************************************************************************)
Stop(o, e) ==
  LET begin == << PutOperation(o, "stop", e, "active"), PutState(e, "stopping") >>
  IN
  /\ Idle
  /\ NewRequest(o, "stop")
  /\ environments[e].state \in {"running", "starting"}
  /\ Installed(e)
  /\ \/ /\ Busy(e) \/ launches[e].state = "none"
        /\ Run(Dispatched(o, "stop", begin) \o Refused(o, "stop", e), None)
     \/ /\ ~Busy(e) /\ Unidentified(e) /\ Candidate(e)
        /\ Run(Dispatched(o, "stop", begin \o << Marked(e, "unverifiable") >>)
                 \o Refused(o, "stop", e), None)
     \/ /\ ~Busy(e) /\ Unidentified(e) /\ ~Candidate(e)
        /\ Run(Dispatched(o, "stop", begin \o << Marked(e, "ended") >>)
                 \o << PutOperation(o, "stop", e, "succeeded"),
                       PutState(e, "stopped") >>, None)
     \/ /\ ~Busy(e) /\ Owned(e)
        /\ Run(Dispatched(o, "stop",
                 begin \o << Register(o), Marked(e, "stopping") >>), None)
     \/ /\ ~Busy(e) /\ launches[e].by # None /\ ~Owned(e)
        /\ Run(Dispatched(o, "stop", begin \o << Register(o) >>), None)
  /\ UNCHANGED << durable, processes, mode, controllers, volatile, bounds >>

\* The tree exited, on its own or by a signal.
StopReturns(o) ==
  LET e == operations[o].env IN
  /\ TaskOf(o, "stop")
  /\ Run(<< Marked(e, "ended") >>
           \o (IF o \in aborted THEN FailScript(o)
               ELSE Settle(o, "succeeded") \o << PutState(e, "stopped") >>), o)
  /\ Killed(launches[e].by)
  /\ Finished(o)
  /\ aborted' = aborted \ {o}
  /\ UNCHANGED << files, mode, expected, requested, watched, entries,
                  switchJournalSeen, bounds >>

\* The process is still there after SIGKILL.
StopUnconfirmed(o) ==
  LET e == operations[o].env IN
  /\ TaskOf(o, "stop")
  /\ Owned(e)
  /\ Run(<< Marked(e, "unverifiable") >> \o FailScript(o), o)
  /\ Finished(o)
  /\ aborted' = aborted \ {o}
  /\ UNCHANGED << durable, processes, mode, expected, requested, watched,
                  entries, switchJournalSeen, bounds >>

(***************************************************************************)
(* A managed process exits on its own.                                     *)
(***************************************************************************)
ProcessDies(p) ==
  /\ p \in Alive
  /\ processes' = processes \ {p} /\ survivors' = survivors \ {p}
  /\ UNCHANGED << files, mode, todo, enclosing, controllers, volatile, bounds >>

\* Start operations without a task that an exit fails.
StrayStarts(e) ==
  {o \in Op : Pending(o, {"start"}) /\ operations[o].env = e /\ ~controllers[o]}

Failures(order) == [i \in DOMAIN order |-> Ended(order[i], "failed")]

\* The exit listener of watchExit and handleProcessExit, which a closed
\* service ignores.
ExitCallback(o, e) ==
  /\ mode \in {"ready", "closing"} /\ todo = <<>>
  /\ o \in watched /\ operations[o].env = e
  /\ ~ \E p \in processes : p.by = o
  /\ \E strays \in SetToSeqs(StrayStarts(e)) :
       Run(IF launches[e].state # "running" \/ launches[e].by # o THEN <<>> ELSE
             << Marked(e, "ended") >>
             \o (IF mode = "closing" THEN <<>> ELSE
                  (IF environments[e].state \in {"running", "starting"}
                     THEN << PutState(e, "stopped") >> ELSE <<>>)
                  \o Failures(strays)), None)
  /\ watched' = watched \ {o}
  /\ UNCHANGED << durable, processes, mode, controllers, aborted, expected,
                  requested, entries, switchJournalSeen, bounds >>

(***************************************************************************)
(* Restart: each launch record is reconciled, then the environments and    *)
(* the interrupted operations are.                                         *)
(***************************************************************************)
Unreconciled ==
  {e \in Env : launches[e].state # "none" /\ entries[e] = "none"}

Resolve(e, resolution, script) ==
  /\ Run(script, None)
  /\ entries' = [entries EXCEPT ![e] = resolution]

ReconcileLaunch(e) ==
  /\ mode = "recoverProcesses" /\ todo = <<>>
  /\ e \in Unreconciled
  /\ \/ /\ Unidentified(e) /\ Candidate(e)
        /\ Resolve(e, "unverifiable", << Marked(e, "unverifiable") >>)
        /\ UNCHANGED << processes, survivors >>
     \/ /\ ~Owned(e)
        /\ ~(Unidentified(e) /\ Candidate(e))
        /\ Resolve(e, "stopped", << Marked(e, "ended") >>)
        /\ UNCHANGED << processes, survivors >>
     \/ /\ Owned(e) /\ launches[e].state = "running"    \* its endpoint answers
        /\ Resolve(e, "adopted", <<>>)
        /\ UNCHANGED << processes, survivors >>
     \/ /\ Owned(e)                    \* not ready, or the endpoint is silent
        /\ Resolve(e, "stopped", << Marked(e, "stopping"), Marked(e, "ended") >>)
        /\ Killed(launches[e].by)
     \/ /\ Owned(e)                    \* SIGKILL was not confirmed
        /\ Resolve(e, "unverifiable",
                   << Marked(e, "stopping"), Marked(e, "unverifiable") >>)
        /\ UNCHANGED << processes, survivors >>
  /\ UNCHANGED << files, mode, controllers, aborted, expected, requested,
                  watched, switchJournalSeen, bounds >>

\* #recoverProcesses after the manager's report; recover() then reads the
\* transaction journals.
Reconciled(e) == IF entries[e] = "adopted" THEN "running" ELSE "stopped"

ProcessesReconciled ==
  /\ mode = "recoverProcesses" /\ todo = <<>>
  /\ Unreconciled = {}
  /\ LET stale == {e \in Env : /\ entries[e] # "none"
                              /\ environments[e].state # Reconciled(e)}
     IN
     \E states \in SetToSeqs(stale),
        interrupted \in SetToSeqs({o \in Op : Pending(o, {"start", "stop"})}) :
       Run([i \in DOMAIN states |-> PutState(states[i], Reconciled(states[i]))]
             \o Failures(interrupted), None)
  /\ mode' = "recoverCore"
  /\ switchJournalSeen' = \E o \in Op : journals[o].kind = "switch"
  /\ UNCHANGED << durable, processes, controllers, aborted, expected, requested,
                  watched, entries, bounds >>

===============================================================================
