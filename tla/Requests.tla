------------------------------ MODULE Requests ------------------------------
(* The way of a request through the main process: `DesktopIpcHost.handle`      *)
(* (apps/desktop/src/main/ipc.ts) with the `beforeDispatch` hook of app.ts,    *)
(* `dispatch` of packages/contracts/src/dispatcher.ts with the idempotency     *)
(* ledger, and the subscription registry of each window (events.ts).           *)
(*                                                                             *)
(* A dispatch is one synchronous block with up to three effects that outlive   *)
(* it: the in-progress record, the effect of the method, the completed record. *)
(* `dispatching` is the block under way; nothing else of the process runs      *)
(* before it ends, but the process can be killed between any two of its steps. *)
(* Every request may be presented again, by any window, at any time.           *)
(*                                                                             *)
(* An operation has the name of the request that created it.                   *)
EXTENDS Naturals, FiniteSets, Absent

CONSTANTS
    RequestId,           \* opaque request ids
    Window,            \* windows of the launcher
    CallOf,            \* the calls [method, input] a request may be presented with
    MaxSubscriptions,  \* the quota of a window
    MaxMinted,         \* bound: subscription ids a window mints
    MaxSequence,       \* bound: transitions of an operation
    MaxRevision,       \* bound: commits that move the environment's revision
    MaxKills,          \* bound: crashes of the main process
    All,               \* a subscription without operationId
    Malformed          \* an input that is not one of its method

VARIABLES
    requests,      \* the ledger: per request its record, or None
    operations,    \* per operation [live, sequence], or None
    revision,      \* the revision of the environment, 0 before it exists
    windows,       \* per window its session: open, entries, minted, published
    waiting,       \* calls that wait for their beforeDispatch hook
    dispatching,   \* the dispatch under way, or None
    answers,       \* history: per request the recorded answers it was given
    effects,       \* history: per request how often its effect took place
    interrupted,   \* history: requests whose dispatch a crash or a port cut
    granted,       \* the subscription just granted, or None
    kills          \* crashes so far

requestVars == <<requests, operations, revision, windows, waiting, dispatching,
                 answers, effects, interrupted, granted, kills>>

Creating == {"create", "change", "preview", "search"}   \* answer with an operation
Prompting == {"change", "openWebUI"}                    \* awaited in beforeDispatch

Subscriptions == 1..MaxMinted
Closed == [open |-> FALSE, entries |-> [s \in Subscriptions |-> None],
           minted |-> 0, published |-> [o \in RequestId |-> 0]]
Opened == [Closed EXCEPT !.open = TRUE]

\* parseEnvelope: the version is ours, the method known, the input one of its schema.
WellFormed(call) == call.input # Malformed

\* What the records hold.
Calls == UNION {CallOf[r] : r \in RequestId}
Outcome == [ok : BOOLEAN, value : RequestId \cup Subscriptions \cup {None}]
RequestRecord == [state : {"in-progress", "completed"}, call : Calls,
                  outcome : Outcome \cup {None}]
OperationState == [live : BOOLEAN, sequence : Nat]
Dispatched == [window : Window, request : RequestId, call : Calls,
               outcome : Outcome \cup {None}]
Grant == [window : Window, subscription : Subscriptions]

\* An input of these methods, when it is one of its schema, names operations.
ASSUME CallAssumption ==
    \A call \in Calls : WellFormed(call) =>
       /\ call.method = "cancel" => call.input \in RequestId
       /\ call.method = "subscribe" => call.input \in RequestId \cup {All}

ASSUME QuotaAssumption == MaxSubscriptions \in Nat /\ MaxMinted \in Nat

ASSUME AbsentAssumption ==
    None \notin RequestId \cup {All} \cup Outcome \cup RequestRecord
                \cup OperationState \cup Dispatched \cup Grant

RequestInit ==
    /\ requests = [r \in RequestId |-> None]
    /\ operations = [o \in RequestId |-> None]
    /\ revision = 0
    /\ windows = [w \in Window |-> Closed]
    /\ waiting = {}
    /\ dispatching = None
    /\ answers = [r \in RequestId |-> {}]
    /\ effects = [r \in RequestId |-> 0]
    /\ interrupted = {}
    /\ granted = None
    /\ kills = 0

-----------------------------------------------------------------------------
Idle == dispatching = None

Live(w) == {s \in Subscriptions : windows[w].entries[s] # None}

\* The combination is a verified one of this host's platform.
Supported(combination) == combination = "supported"

\* The guards of `execute`, before the in-progress record is written.  preview
\* and search have none: the port of a preview checks its environment itself.
Passes(w, call) ==
    CASE call.method = "create" -> Supported(call.input)
      [] call.method = "change" -> revision > 0 /\ call.input = revision
      [] call.method = "openWebUI" -> revision > 0
      [] call.method = "cancel" -> operations[call.input] # None
      [] call.method = "subscribe" ->
            call.input # All => operations[call.input] # None
      [] call.method = "unsubscribe" -> call.input \in Live(w)
      [] OTHER -> TRUE

Record(state, call, outcome) == [state |-> state, call |-> call, outcome |-> outcome]
Failed == [ok |-> FALSE, value |-> None]
Done(value) == [ok |-> TRUE, value |-> value]

Answered(r, outcome) == answers' = [answers EXCEPT ![r] = @ \cup {outcome}]

Refused == UNCHANGED <<requests, operations, windows, dispatching, answers,
                       effects, interrupted>> /\ granted' = None

\* Slip: the subscription of a replayed subscribe is not put back.
ReplayDeadReference(w, r, call) ==
    /\ granted' = IF call.method = "subscribe" /\ requests[r].outcome.ok
                  THEN [window |-> w, subscription |-> requests[r].outcome.value]
                  ELSE None
    /\ Answered(r, requests[r].outcome)
    /\ UNCHANGED <<requests, operations, windows, dispatching, effects, interrupted>>

\* A completed request is answered from its record.  The subscription a replayed
\* subscribe names is put back under its old id when it is gone.
Replay(w, r, call) ==
    LET outcome == requests[r].outcome
        lost == /\ call.method = "subscribe" /\ outcome.ok
                /\ windows[w].entries[outcome.value] = None
    IN /\ windows' = IF lost THEN [windows EXCEPT ![w].entries[outcome.value] = call.input]
                     ELSE windows
       /\ granted' = IF call.method = "subscribe" /\ outcome.ok
                     THEN [window |-> w, subscription |-> outcome.value]
                     ELSE None
       /\ Answered(r, outcome)
       /\ UNCHANGED <<requests, operations, dispatching, effects, interrupted>>

\* What the ledger says of a call: it is new, it is another one under the same
\* id (conflict), its first attempt did not finish (busy), or it is answered.
Standing(r, call) ==
    CASE requests[r] = None -> "new"
      [] requests[r] # None /\ requests[r].call # call -> "conflict"
      [] requests[r] # None /\ requests[r].call = call -> requests[r].state

\* Slip: no effect is announced in the ledger.
MarksNothing(call) == FALSE

\* preview is the one effect before which no in-progress record is written.
Marks(call) == call.method # "preview"


Dispatch(w, r, call) ==
    \/ /\ ~WellFormed(call)
       /\ Refused
    \/ /\ WellFormed(call) /\ Standing(r, call) = "completed"
       /\ Replay(w, r, call)
    \/ /\ WellFormed(call) /\ Standing(r, call) \in {"conflict", "in-progress"}
       /\ Refused
    \/ /\ WellFormed(call) /\ Standing(r, call) = "new" /\ ~Passes(w, call)
       /\ Refused
    \/ /\ WellFormed(call) /\ Standing(r, call) = "new" /\ Passes(w, call)
       /\ dispatching' = [window |-> w, request |-> r, call |-> call, outcome |-> None]
       /\ requests' = IF Marks(call)
                      THEN [requests EXCEPT ![r] = Record("in-progress", call, None)]
                      ELSE requests
       /\ granted' = None
       /\ UNCHANGED <<operations, windows, answers, effects, interrupted>>

-----------------------------------------------------------------------------
\* A request arrives.  The quota refuses a subscribe before anything else looks
\* at it; a start asks for missing credentials and openWebUI opens the browser
\* before the dispatch, unless the ledger knows the request already.
OverQuota(w, call) ==
    call.method = "subscribe" /\ Cardinality(Live(w)) >= MaxSubscriptions

Hooked(r, call) ==
    call.method = "change" \/ (call.method = "openWebUI" /\ requests[r] = None)

Arrive(w, r, call) ==
    /\ Idle /\ windows[w].open /\ call \in CallOf[r]
    /\ \/ /\ OverQuota(w, call)
          /\ Refused
          /\ UNCHANGED waiting
       \/ /\ ~OverQuota(w, call) /\ Hooked(r, call)
          /\ waiting' = waiting \cup {[window |-> w, request |-> r, call |-> call]}
          /\ Refused
       \/ /\ ~OverQuota(w, call) /\ ~Hooked(r, call)
          /\ Dispatch(w, r, call)
          /\ UNCHANGED waiting
    /\ UNCHANGED <<revision, kills>>

\* The hook returns: it proceeds, or answers in place of the dispatcher because
\* the browser could not be opened, or the window is gone (its session still is
\* dispatched to, and has no subscription to lose).
HookReturns(p) ==
    /\ Idle /\ p \in waiting
    /\ waiting' = waiting \ {p}
    /\ \/ Dispatch(p.window, p.request, p.call)
       \/ p.call.method = "openWebUI" /\ Refused
    /\ UNCHANGED <<revision, kills>>

-----------------------------------------------------------------------------
\* `publish` throws when the sequence it is given does not increase: the dispatch
\* then ends in INTERNAL_ERROR and its record stays in-progress.
Publishes(w, o, sequence) == sequence > windows[w].published[o]
Published(w, o, sequence) == [windows EXCEPT ![w].published[o] = sequence]

\* Counted up to two: once, or more often.
Effected(r) == effects' = [effects EXCEPT ![r] = IF @ = 0 THEN 1 ELSE 2]
Returned(outcome) == dispatching' = [dispatching EXCEPT !.outcome = outcome]
AtEffect == dispatching # None /\ dispatching.outcome = None

\* A method with a service behind it creates an operation, and its first state
\* is published to the window that asked: of a new operation nothing was published
\* before.  (A preview that is presented again after a kill creates another one,
\* which takes over the name.)
CreateOperation ==
    LET r == dispatching.request IN
    /\ AtEffect /\ dispatching.call.method \in Creating
    /\ Effected(r)
    /\ operations' = [operations EXCEPT ![r] = [live |-> TRUE, sequence |-> 1]]
    /\ windows' = [w \in Window |->
          [windows[w] EXCEPT !.published[r] = IF w = dispatching.window THEN 1 ELSE 0]]
    /\ Returned(Done(r))
    /\ UNCHANGED <<requests, revision, waiting, answers, interrupted, granted, kills>>

\* Slip: a cancel does not increment it.
AdvancedInPlace(o, live) ==
    [operations EXCEPT ![o] = [live |-> live,
                               sequence |-> IF live THEN @.sequence + 1 ELSE @.sequence]]

\* `OperationStore.update` increments the sequence of whatever it changes.
Advanced(o, live) == [operations EXCEPT ![o] = [live |-> live, sequence |-> @.sequence + 1]]

\* A cancel of a live operation is published; one of a finished operation is a
\* recorded failure (CANNOT_CANCEL).
CancelOperation ==
    LET r == dispatching.request  w == dispatching.window  o == dispatching.call.input IN
    /\ AtEffect /\ dispatching.call.method = "cancel"
    /\ Effected(r)
    /\ \/ /\ operations[o].live
          /\ operations' = Advanced(o, FALSE)
          /\ LET sequence == operations'[o].sequence IN
             \/ Publishes(w, o, sequence) /\ windows' = Published(w, o, sequence)
                /\ Returned(Done(o))
             \/ ~Publishes(w, o, sequence) /\ dispatching' = None /\ UNCHANGED windows
       \/ /\ ~operations[o].live
          /\ Returned(Failed)
          /\ UNCHANGED <<operations, windows>>
    /\ UNCHANGED <<requests, revision, waiting, answers, interrupted, granted, kills>>

\* The registry mints the next id of its own counter.
Subscribe ==
    LET r == dispatching.request  w == dispatching.window  s == windows[w].minted + 1 IN
    /\ AtEffect /\ dispatching.call.method = "subscribe" /\ s \in Subscriptions
    /\ Effected(r)
    /\ windows' = [windows EXCEPT ![w].minted = s,
                                  ![w].entries[s] = dispatching.call.input]
    /\ Returned(Done(s))
    /\ UNCHANGED <<requests, operations, revision, waiting, answers, interrupted,
                   granted, kills>>

Unsubscribe ==
    LET r == dispatching.request  w == dispatching.window IN
    /\ AtEffect /\ dispatching.call.method = "unsubscribe"
    /\ Effected(r)
    /\ windows' = [windows EXCEPT ![w].entries[dispatching.call.input] = None]
    /\ Returned(Done(None))
    /\ UNCHANGED <<requests, operations, revision, waiting, answers, interrupted,
                   granted, kills>>

\* openWebUI answers the verified origin; its window was opened by the hook.
OpenWebUI ==
    /\ AtEffect /\ dispatching.call.method = "openWebUI"
    /\ Effected(dispatching.request)
    /\ Returned(Done(None))
    /\ UNCHANGED <<requests, operations, revision, windows, waiting, answers,
                   interrupted, granted, kills>>

\* The port refuses (a recorded failure), or throws or returns a value that is no
\* DTO (INTERNAL_ERROR, and the record stays in-progress).
PortFails ==
    /\ AtEffect /\ dispatching.call.method \in Creating \cup {"openWebUI"}
    /\ Effected(dispatching.request)
    /\ \/ Returned(Failed) /\ UNCHANGED interrupted
       \/ /\ dispatching' = None
          /\ interrupted' = interrupted \cup {dispatching.request}
    /\ UNCHANGED <<requests, operations, revision, windows, waiting, answers,
                   granted, kills>>

\* The outcome is recorded and answered.
Complete ==
    LET r == dispatching.request  call == dispatching.call  outcome == dispatching.outcome IN
    /\ dispatching # None /\ outcome # None
    /\ requests' = [requests EXCEPT ![r] = Record("completed", call, outcome)]
    /\ Answered(r, outcome)
    /\ granted' = IF call.method = "subscribe" /\ outcome.ok
                  THEN [window |-> dispatching.window, subscription |-> outcome.value]
                  ELSE None
    /\ dispatching' = None
    /\ UNCHANGED <<operations, revision, windows, waiting, effects, interrupted, kills>>

-----------------------------------------------------------------------------
\* The service goes on with an operation; nothing of it is published.
Progress(o) ==
    /\ Idle /\ operations[o] # None
    /\ operations[o].live /\ operations[o].sequence < MaxSequence
    /\ \E live \in BOOLEAN : operations' = Advanced(o, live)
    /\ granted' = None
    /\ UNCHANGED <<requests, revision, windows, waiting, dispatching, answers, effects,
                   interrupted, kills>>

\* Some operation commits a composition.
Commit ==
    /\ Idle /\ revision < MaxRevision
    /\ revision' = revision + 1
    /\ granted' = None
    /\ UNCHANGED <<requests, operations, windows, waiting, dispatching, answers,
                   effects, interrupted, kills>>

OpenWindow(w) ==
    /\ Idle /\ ~windows[w].open
    /\ windows' = [windows EXCEPT ![w] = Opened]
    /\ granted' = None
    /\ UNCHANGED <<requests, operations, revision, waiting, dispatching, answers,
                   effects, interrupted, kills>>

\* Every subscription and listener of the window is released.
CloseWindow(w) ==
    /\ Idle /\ windows[w].open
    /\ windows' = [windows EXCEPT ![w] = Closed]
    /\ granted' = None
    /\ UNCHANGED <<requests, operations, revision, waiting, dispatching, answers,
                   effects, interrupted, kills>>

\* A kill and the restart after it.  Only the ledger and the operations are on
\* disk; the recoveries complete in-progress records.  A journal names the
\* operation of its request, of a change also one that is not on disk yet (the
\* journal of a restore is written first).  A change without a journal is completed
\* with a failure, whether its service never ran, threw, or came as far as an
\* operation.
Settleable == {r \in RequestId : /\ requests[r] # None
                               /\ requests[r].state = "in-progress"
                               /\ requests[r].call.method \in {"create", "change"}}

CutAtEffect(r) == AtEffect /\ dispatching.request = r

Settles(r, outcome) ==
    LET change == requests[r].call.method = "change" IN
    \/ outcome = Done(r) /\ (operations[r] # None \/ (change /\ CutAtEffect(r)))
    \/ outcome = Failed /\ change

KillAndRestart ==
    /\ kills < MaxKills
    /\ kills' = kills + 1
    /\ \E settled \in SUBSET Settleable :
       \E outcome \in [settled -> {Failed} \cup {Done(r) : r \in settled}] :
          /\ \A r \in settled : Settles(r, outcome[r])
          /\ requests' = [r \in RequestId |->
                            IF r \in settled
                            THEN Record("completed", requests[r].call, outcome[r])
                            ELSE requests[r]]
    /\ interrupted' = IF Idle THEN interrupted ELSE interrupted \cup {dispatching.request}
    /\ windows' = [w \in Window |-> Closed]
    /\ waiting' = {}
    /\ dispatching' = None
    /\ granted' = None
    /\ UNCHANGED <<operations, revision, answers, effects>>

RequestNext ==
    \/ \E w \in Window, r \in RequestId : \E call \in CallOf[r] : Arrive(w, r, call)
    \/ \E p \in waiting : HookReturns(p)
    \/ CreateOperation \/ CancelOperation \/ Subscribe \/ Unsubscribe \/ OpenWebUI
    \/ PortFails \/ Complete
    \/ \E o \in RequestId : Progress(o)
    \/ \E w \in Window : OpenWindow(w) \/ CloseWindow(w)
    \/ Commit \/ KillAndRestart

-----------------------------------------------------------------------------
\* A request takes effect once, however often it is presented and wherever the
\* process is killed, and its record agrees with that: an effect is announced; every
\* answer from the record is the same one; a recorded outcome had its effect, unless
\* the request was interrupted and a recovery recorded what it found; and no effect
\* is under way for a request that has its outcome.  (preview is not announced: see
\* the README.)
TakesEffectOnce ==
    \A r \in RequestId :
       /\ (\A call \in CallOf[r] : call.method # "preview") =>
             /\ effects[r] <= 1
             /\ effects[r] = 1 => requests[r] # None
       /\ Cardinality(answers[r]) <= 1
       /\ requests[r] # None /\ requests[r].state = "completed" =>
             /\ effects[r] > 0 \/ (r \in interrupted /\ operations[r] = None)
             /\ answers[r] \subseteq {requests[r].outcome}
             /\ ~(dispatching # None /\ dispatching.request = r)

\* Only a kill, or a service that throws, leaves a request refused for ever: the
\* events a dispatch publishes never make it fail after its effect.
OnlyInterruptedStayBusy ==
    \A r \in RequestId :
       /\ Idle /\ requests[r] # None
       /\ requests[r].state = "in-progress"
       => r \in interrupted

\* The subscription a subscribe is answered with receives events when the answer
\* is given, also a replayed one after an unsubscribe, a reopened window or a
\* restart; no window exceeds its quota, and one that was closed holds none.
SubscriptionsLive ==
    /\ granted # None => granted.subscription \in Live(granted.window)
    /\ \A w \in Window : /\ Cardinality(Live(w)) <= MaxSubscriptions
                         /\ ~windows[w].open => Live(w) = {}
=============================================================================
