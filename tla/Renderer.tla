------------------------------ MODULE Renderer ------------------------------
(* The renderer's controller (apps/desktop/src/renderer/controller.ts) and the *)
(* main process as it sees it.  A method of the controller runs to its next    *)
(* `await this.#call(...)`; each such call in flight is a record of `calls`,   *)
(* whose `then` names the code behind the await and whose other fields are the *)
(* local variables that code still uses.  The main process serves a call when  *)
(* it likes (`reply`) and the reply arrives when it likes, in any order.       *)
(*                                                                             *)
(* A view is the environment a shown result is about; what the result says is  *)
(* left out, and so are notices and error texts.                               *)
EXTENDS Naturals, FiniteSets, Absent

CONSTANTS
    Environment,
    Everywhere,      \* what a search or a version listing is about
    Operations,      \* operation ids, 1..n: each accepted command takes the next
    Behaviours,      \* per behaviour, how often the user gives which command and
                     \* how many calls fail ("loss"): [command |-> times]
    MaxPollRetries,  \* failed polls before polling pauses
    MaxSubscribed,   \* bound: subscriptions minted
    MaxProgress      \* bound: transitions of an operation

VARIABLES
    \* the renderer
    selected, intent, tracked, pendingOperation, trackingError, paused, epoch,
    held, pollTimer, failures, disposed, shown, dialog, createError, commands,
    \* the main process and the channel
    calls, events, served, subscribed,
    \* history: the starts a restart sent, [stop, environment, number]
    restarts

rendererVars == <<selected, intent, tracked, pendingOperation, trackingError, paused,
    epoch, held, pollTimer, failures, disposed, shown, dialog, createError, commands,
    calls, events, served, subscribed, restarts>>

tracking == <<tracked, pendingOperation, trackingError, paused, epoch, pollTimer, failures>>
main == <<events, served, subscribed>>

Views == {"search", "inspection", "versions", "composition", "patch", "plan",
          "application", "webUI", "export", "installed", "generations", "warning"}

Global == {"search", "inspect", "versions"}
Kinds == Global \cup {"start", "stop", "switch", "preview", "apply", "restore",
                      "composition", "create"}
Direct == {"webUI", "export", "patch", "installed", "generations"}

Ended == {"succeeded", "failed", "cancelled"}

\* What the records hold.
Places == Environment \cup {Everywhere, None}
Statuses == {"running"} \cup Ended
Snapshots == [operation : Operations \cup {None}, kind : Kinds \cup {None},
              environment : Places, status : Statuses \cup {None},
              sequence : Nat \cup {None}]
Thens == Kinds \cup Direct \cup {"stop to restart", "start after stop", "list", "snapshot",
                                 "poll", "cancel", "subscribe", "release"}
Nexts == {"snapshot", "complete", "nothing", "after apply"}
Replies == [ok : BOOLEAN, subject : Snapshots, id : Nat \cup {None}]
CallRecord == [then : Thens, subject : Snapshots, environment : Places, epoch : Nat,
               id : Nat \cup {None}, rest : SUBSET Nat, next : Nexts \cup {None},
               restart : BOOLEAN, reply : Replies \cup {None}]

\* There is an environment to select.
ASSUME RendererAssumption ==
    /\ Environment # {} /\ MaxSubscribed \in Nat
    /\ None \notin Operations \cup Nat \cup Snapshots \cup Replies

RendererInit ==
    /\ selected = CHOOSE n \in Environment : TRUE    \* the first of the list
    /\ intent = None /\ tracked = None /\ pendingOperation = None
    /\ trackingError = FALSE /\ paused = FALSE /\ epoch = 0
    /\ held = {} /\ pollTimer = None /\ failures = 0 /\ disposed = FALSE
    /\ shown = [v \in Views |-> None]
    /\ dialog = 0 /\ createError = None
    /\ commands \in Behaviours
    /\ calls = {} /\ events = {} /\ served = [o \in Operations |-> None]
    /\ subscribed = {} /\ restarts = {}

-----------------------------------------------------------------------------
Current(e) == ~disposed /\ epoch = e

\* An operation as a snapshot shows it, and as far as a call names it.
Snapshot(o, kind, environment, status, sequence) ==
    [operation |-> o, kind |-> kind, environment |-> environment, status |-> status,
     sequence |-> sequence]
Named(o) == Snapshot(o, None, None, None, None)

InFlight(then, subject, environment, e) ==
    [then |-> then, subject |-> subject, environment |-> environment, epoch |-> e,
     id |-> None, rest |-> {}, next |-> None, restart |-> FALSE, reply |-> None]

\* The subscriptions ids are released one after the other, and then comes next.
Release(next, subject, ids, e) ==
    LET id == CHOOSE i \in ids : \A j \in ids : i <= j IN
    [InFlight("release", subject, None, e) EXCEPT
        !.id = id, !.rest = ids \ {id}, !.next = next]

Refresh(t, restart, e) ==
    [InFlight("list", t, None, e) EXCEPT !.restart = restart]

HeldIds == {h.id : h \in held}
Minted == {s.id : s \in subscribed}

\* trackOperation: a new track supersedes the old one, then releases what it held
\* before the first snapshot is read.
Track(o, others) ==
    /\ epoch' = epoch + 1
    /\ tracked' = None /\ pendingOperation' = o
    /\ trackingError' = FALSE /\ paused' = FALSE
    /\ pollTimer' = None /\ failures' = 0
    /\ held' = {}
    /\ calls' = others \cup
          {IF held = {} THEN InFlight("snapshot", Named(o), None, epoch + 1)
                        ELSE Release("snapshot", Named(o), HeldIds, epoch + 1)}

\* Slip: the composition is shown whatever is selected.
AppliedAnywhere(views, t) ==
    IF t.kind = "composition" THEN [views EXCEPT !["composition"] = t.environment]
                              ELSE views

\* applyPluginOutput: the payload of a succeeded operation.  A composition of an
\* environment that is no longer selected is dropped.
Applied(views, t) ==
    CASE t.kind = "search" -> [views EXCEPT !["search"] = Everywhere]
      [] t.kind = "inspect" -> [views EXCEPT !["inspection"] = Everywhere]
      [] t.kind = "versions" -> [views EXCEPT !["versions"] = Everywhere]
      [] t.kind = "preview" -> [views EXCEPT !["plan"] = t.environment]
      [] t.kind = "restore" -> [views EXCEPT !["warning"] = t.environment]
      [] t.kind = "apply" -> [views EXCEPT !["application"] = t.environment, !["plan"] = None]
      [] t.kind = "composition" /\ t.environment = selected ->
            [views EXCEPT !["composition"] = t.environment]
      [] OTHER -> views

\* Slip: whatever ends a stop that somebody waits for starts the environment.
FinishRestarting(t, e, others) ==
    LET restart == intent # None IN
    /\ intent' = None
    /\ shown' = Applied(shown, t)
    /\ calls' = others \cup {Refresh(t, restart, e)}

\* The part of completeTracking behind the release of the subscription.
\* A restart intent is consumed only by the stop it was bound to.
Finish(t, e, others) ==
    LET restart == t.kind = "stop" /\ intent = t.operation IN
    /\ intent' = IF restart THEN None ELSE intent
    /\ IF t.status = "succeeded"
       THEN /\ shown' = Applied(shown, t)
            /\ calls' = others \cup {Refresh(t, restart, e)}
       ELSE UNCHANGED shown /\ calls' = others

\* completeTracking, entered with the tracked operation t.
CompleteTracking(t, e, others) ==
    LET mine == {h \in held : h.operation = t.operation} IN
    /\ pollTimer' = None
    /\ IF mine # {}
       THEN /\ held' = held \ mine
            /\ calls' = others \cup {Release("complete", t, {h.id : h \in mine}, e)}
            /\ UNCHANGED <<intent, shown>>
       ELSE UNCHANGED held /\ Finish(t, e, others)

-----------------------------------------------------------------------------
(* The user.                                                                   *)

\* A command of the behaviour is given.  (Equal calls in flight are one.)
Given(kind) ==
    /\ ~disposed /\ kind \in DOMAIN commands /\ commands[kind] > 0
    /\ commands' = [commands EXCEPT ![kind] = @ - 1]

\* What each command clears before it asks.
Clears(kind) ==
    CASE kind \in {"start", "stop", "switch", "webUI"} -> {"webUI"}
      [] kind = "search" -> {"search", "inspection"}
      [] kind = "inspect" -> {"inspection"}
      [] kind = "preview" -> {"plan", "application"}
      [] kind = "apply" -> {"application"}
      [] kind = "restore" -> {"warning"}
      [] kind \in {"versions", "composition", "export", "patch"} -> {kind}
      [] OTHER -> {}

Cleared(kind) == [v \in Views |-> IF v \in Clears(kind) THEN None ELSE shown[v]]

Commanded(kind, environment) ==
    calls' = calls \cup {InFlight(kind, Named(None), environment, dialog)}

Sends(kind, environment) ==
    /\ Given(kind)
    /\ shown' = Cleared(kind)
    /\ Commanded(kind, environment)
    /\ UNCHANGED <<tracking, main, selected, held, disposed, dialog, createError, restarts>>

\* Commands that are answered with an operation.  A start or stop drops a restart
\* intent; apply goes to the environment of the plan, whatever is selected.
StartOrStop(kind) == Sends(kind, selected) /\ intent' = None
SwitchVersion == Sends("switch", selected) /\ UNCHANGED intent
RunPluginSearch == Sends("search", Everywhere) /\ UNCHANGED intent
InspectSelectedPlugin ==
    shown["search"] # None /\ Sends("inspect", Everywhere) /\ UNCHANGED intent
LoadDshVersions == Sends("versions", Everywhere) /\ UNCHANGED intent
LoadExpectedComposition == Sends("composition", selected) /\ UNCHANGED intent
PreviewPluginChange == Sends("preview", selected) /\ UNCHANGED intent
ApplyPluginChange ==
    shown["plan"] # None /\ Sends("apply", shown["plan"]) /\ UNCHANGED intent
RestoreGeneration == Sends("restore", selected) /\ UNCHANGED intent

\* Commands whose reply is the result itself.
AskWebUI == Sends("webUI", selected) /\ UNCHANGED intent
ExportDiagnostics == Sends("export", selected) /\ UNCHANGED intent
EditEntry == Sends("patch", selected) /\ UNCHANGED intent
LoadInstalledPlugins == Sends("installed", selected) /\ UNCHANGED intent
LoadGenerations == Sends("generations", selected) /\ UNCHANGED intent

\* restartSelected: a running environment is stopped first, a stopped one started.
RestartSelected ==
    /\ Given("restart")
    /\ intent' = None
    /\ \E then \in {"stop to restart", "start"} : Commanded(then, selected)
    /\ UNCHANGED <<tracking, main, selected, held, disposed, shown, dialog,
                   createError, restarts>>

\* Each attempt to create an environment, and each closing or reopening of the
\* dialog, is a session of its own.
Create ==
    /\ Given("create")
    /\ dialog' = dialog + 1 /\ createError' = None
    /\ calls' = calls \cup {InFlight("create", Named(None), None, dialog + 1)}
    /\ UNCHANGED <<tracking, main, selected, intent, held, disposed, shown, restarts>>

ClearCreateError ==
    /\ Given("reopen")
    /\ dialog' = dialog + 1 /\ createError' = None
    /\ UNCHANGED <<tracking, main, selected, intent, held, disposed, shown, calls, restarts>>

SelectEnvironment(n) ==
    /\ Given("select") /\ n # selected
    /\ selected' = n /\ intent' = None
    /\ shown' = [v \in Views |-> IF v \in {"webUI", "export", "installed", "composition",
                                           "patch", "warning"}
                                 THEN None ELSE shown[v]]
    /\ UNCHANGED <<tracking, main, held, disposed, dialog, createError, calls, restarts>>

\* selectInstalledPlugin and setInstallSource drop the plan.
ChooseSource ==
    /\ Given("choose") /\ shown["plan"] # None
    /\ shown' = [shown EXCEPT !["plan"] = None]
    /\ UNCHANGED <<tracking, main, selected, intent, held, disposed, dialog,
                   createError, calls, restarts>>

\* Cancelling the stop a restart waits for drops the intent.
CancelTracked ==
    /\ Given("cancel") /\ tracked # None /\ tracked.status \notin Ended
    /\ intent' = IF intent = tracked.operation THEN None ELSE intent
    /\ calls' = calls \cup {InFlight("cancel", Named(tracked.operation), None, epoch)}
    /\ UNCHANGED <<tracking, main, selected, held, disposed, shown, dialog,
                   createError, restarts>>

RetryTracking ==
    /\ Given("retry")
    /\ \/ /\ tracked # None /\ tracked.status \notin Ended
          /\ failures' = 0 /\ trackingError' = FALSE /\ paused' = FALSE
          /\ pollTimer' = IF pollTimer = None THEN epoch ELSE pollTimer
          /\ UNCHANGED <<tracked, pendingOperation, epoch, held, calls>>
       \/ /\ tracked = None /\ pendingOperation # None /\ trackingError
          /\ Track(pendingOperation, calls)
    /\ UNCHANGED <<main, selected, intent, disposed, shown, dialog, createError, restarts>>

Dispose ==
    /\ Given("dispose")
    /\ disposed' = TRUE
    /\ epoch' = epoch + 1 /\ pollTimer' = None
    /\ held' = {}
    /\ calls' = IF held = {} THEN calls
                ELSE calls \cup {Release("nothing", Named(None), HeldIds, epoch + 1)}
    /\ UNCHANGED <<main, selected, intent, tracked, pendingOperation, trackingError,
                   paused, failures, shown, dialog, createError, restarts>>

-----------------------------------------------------------------------------
(* The main process serves a call.                                             *)

Replied(c, ok, subject, id) ==
    calls' = (calls \ {c}) \cup
                {[c EXCEPT !.reply = [ok |-> ok, subject |-> subject, id |-> id]]}
Fresh(S, used) == {x \in S : x \notin used /\ \A y \in S \ used : x <= y}

KindOf(then) == CASE then = "stop to restart" -> "stop"
                  [] then = "start after stop" -> "start"
                  [] OTHER -> then

ServeCommand(c) ==
    /\ KindOf(c.then) \in Kinds
    /\ \E o \in Fresh(Operations, {p \in Operations : served[p] # None}) :
          /\ served' = [served EXCEPT ![o] =
                Snapshot(o, KindOf(c.then), c.environment, "running", 0)]
          /\ Replied(c, TRUE, Named(o), None)
    /\ UNCHANGED <<events, subscribed>>

ServeRead(c) ==
    /\ c.then \in {"snapshot", "poll"}
    /\ Replied(c, TRUE, served[c.subject.operation], None)
    /\ UNCHANGED <<events, served, subscribed>>

ServeCancel(c) ==
    LET o == c.subject.operation
        now == [served[o] EXCEPT !.status = "cancelled", !.sequence = @ + 1] IN
    /\ c.then = "cancel" /\ served[o].status = "running"
    /\ served' = [served EXCEPT ![o] = now]
    /\ events' = events \cup {[id |-> s.id, subject |-> now]
                              : s \in {x \in subscribed : x.operation = o}}
    /\ Replied(c, TRUE, now, None)
    /\ UNCHANGED subscribed

ServeSubscribe(c) ==
    /\ c.then = "subscribe" /\ Cardinality(Minted) < MaxSubscribed
    /\ \E id \in Fresh(1..MaxSubscribed, Minted) :
          /\ subscribed' = subscribed \cup {[id |-> id, operation |-> c.subject.operation]}
          /\ Replied(c, TRUE, c.subject, id)
    /\ UNCHANGED <<events, served>>

ServeRelease(c) ==
    /\ c.then = "release"
    /\ subscribed' = {s \in subscribed : s.id # c.id}
    /\ Replied(c, TRUE, c.subject, None)
    /\ UNCHANGED <<events, served>>

ServeOther(c) ==
    /\ c.then \in Direct \cup {"list"}
    /\ Replied(c, TRUE, c.subject, None)
    /\ UNCHANGED <<events, served, subscribed>>

Serve(c) ==
    /\ c.reply = None
    /\ \/ ServeCommand(c) \/ ServeRead(c) \/ ServeCancel(c) \/ ServeSubscribe(c)
       \/ ServeRelease(c) \/ ServeOther(c)
    /\ UNCHANGED <<tracking, selected, intent, held, disposed, shown, dialog,
                   createError, commands, restarts>>

\* A refusal, or a transport failure; a release is never refused.
Refuse(c) ==
    /\ c.reply = None /\ c.then # "release"
    /\ \/ Given("loss")
       \/ /\ c.then = "cancel" /\ served[c.subject.operation].status \in Ended
          /\ UNCHANGED commands
    /\ Replied(c, FALSE, c.subject, None)
    /\ UNCHANGED <<tracking, selected, intent, held, disposed, shown, dialog,
                   createError, events, served, subscribed, restarts>>

\* The service goes on with an operation; it publishes nothing.
OperationMoves(o) ==
    /\ served[o] # None /\ served[o].status = "running"
    /\ \E status \in {"running", "succeeded", "failed"} :
          /\ status = "running" => served[o].sequence + 1 < MaxProgress
          /\ served' = [served EXCEPT ![o].status = status, ![o].sequence = @ + 1]
    /\ UNCHANGED <<tracking, selected, intent, held, disposed, shown, dialog,
                   createError, commands, calls, events, subscribed, restarts>>
-----------------------------------------------------------------------------
(* The code behind each await.                                                 *)

Arrived(c) == c \in calls /\ c.reply # None
Others(c) == calls \ {c}
Dropped(c) == calls' = Others(c)

\* The accepted command is tracked; a create clears the form; the stop of a
\* restart is remembered before it is tracked.
CommandAccepted(c) ==
    /\ Arrived(c) /\ KindOf(c.then) \in Kinds /\ c.reply.ok /\ ~disposed
    /\ Track(c.reply.subject.operation, Others(c))
    /\ intent' = IF c.then = "stop to restart" THEN c.reply.subject.operation ELSE intent
    /\ UNCHANGED <<main, selected, disposed, shown, dialog, createError, commands, restarts>>

\* A create that failed shows its error in the dialog it was made in.
LateFailure(c) == c.epoch # dialog

CommandRefused(c) ==
    /\ Arrived(c) /\ KindOf(c.then) \in Kinds
    /\ ~c.reply.ok \/ disposed
    /\ createError' = IF c.then = "create" /\ ~disposed /\ ~LateFailure(c)
                      THEN c.epoch ELSE createError
    /\ intent' = IF c.then = "stop to restart" /\ ~disposed THEN None ELSE intent
    /\ Dropped(c)
    /\ UNCHANGED <<tracking, main, selected, held, disposed, shown, dialog, commands,
                   restarts>>

\* A result that is the reply.  Only that of an entry patch is compared with the
\* selection; the list read behind an apply belongs to its track.
Stale(c) == c.then = "patch" /\ c.environment # selected

ResultArrives(c) ==
    /\ Arrived(c) /\ c.then \in Direct
    /\ shown' = IF c.reply.ok /\ ~disposed /\ ~Stale(c)
                   /\ (c.next = "after apply" => Current(c.epoch))
                THEN [shown EXCEPT ![c.then] = c.environment]
                ELSE shown
    /\ Dropped(c)
    /\ UNCHANGED <<tracking, main, selected, intent, held, disposed, dialog,
                   createError, commands, restarts>>

SnapshotArrives(c) ==
    /\ Arrived(c) /\ c.then = "snapshot"
    /\ \/ /\ ~Current(c.epoch)
          /\ Dropped(c)
          /\ UNCHANGED tracking
       \/ /\ Current(c.epoch) /\ ~c.reply.ok
          /\ trackingError' = TRUE
          /\ Dropped(c)
          /\ UNCHANGED <<tracked, pendingOperation, paused, epoch, pollTimer, failures>>
       \/ /\ Current(c.epoch) /\ c.reply.ok
          /\ tracked' = c.reply.subject /\ pendingOperation' = None
          /\ trackingError' = FALSE /\ paused' = FALSE
          /\ calls' = Others(c) \cup {InFlight("subscribe", c.reply.subject, None, c.epoch)}
          /\ UNCHANGED <<epoch, pollTimer, failures>>
    /\ UNCHANGED <<main, selected, intent, held, disposed, shown, dialog, createError,
                   commands, restarts>>

Scheduled(e) == pollTimer' = IF pollTimer = None THEN e ELSE pollTimer

\* A subscription that comes too late is released at once.
TooLate(c) ==
    calls' = Others(c) \cup
        (IF c.reply.ok THEN {Release("nothing", Named(None), {c.reply.id}, c.epoch)} ELSE {})

SubscribeArrives(c) ==
    /\ Arrived(c) /\ c.then = "subscribe"
    /\ \/ /\ ~Current(c.epoch)
          /\ TooLate(c)
          /\ UNCHANGED <<tracking, held, intent, shown>>
       \/ /\ Current(c.epoch) /\ c.reply.ok /\ c.subject.status \notin Ended
          /\ held' = held \cup {[operation |-> c.subject.operation, id |-> c.reply.id]}
          /\ Scheduled(c.epoch) /\ Dropped(c)
          /\ UNCHANGED <<tracked, pendingOperation, trackingError, paused, epoch,
                         failures, intent, shown>>
       \/ /\ Current(c.epoch) /\ c.reply.ok /\ c.subject.status \in Ended
          /\ calls' = Others(c) \cup {Release("complete", tracked, {c.reply.id}, c.epoch)}
          /\ pollTimer' = None
          /\ UNCHANGED <<tracked, pendingOperation, trackingError, paused, epoch,
                         failures, held, intent, shown>>
       \/ /\ Current(c.epoch) /\ ~c.reply.ok
          /\ trackingError' = TRUE
          /\ \/ /\ c.subject.status \in Ended
                /\ CompleteTracking(tracked, c.epoch, Others(c))
             \/ /\ c.subject.status \notin Ended
                /\ Scheduled(c.epoch) /\ Dropped(c)
                /\ UNCHANGED <<held, intent, shown>>
          /\ UNCHANGED <<tracked, pendingOperation, paused, epoch, failures>>
    /\ UNCHANGED <<main, selected, disposed, dialog, createError, commands, restarts>>

ReleaseArrives(c) ==
    /\ Arrived(c) /\ c.then = "release"
    /\ \/ /\ c.rest # {}
          /\ calls' = Others(c) \cup {Release(c.next, c.subject, c.rest, c.epoch)}
          /\ UNCHANGED <<intent, shown>>
       \/ /\ c.rest = {} /\ c.next = "snapshot" /\ Current(c.epoch)
          /\ calls' = Others(c) \cup {InFlight("snapshot", c.subject, None, c.epoch)}
          /\ UNCHANGED <<intent, shown>>
       \/ /\ c.rest = {} /\ c.next = "complete" /\ Current(c.epoch)
          /\ Finish(c.subject, c.epoch, Others(c))
       \/ /\ c.rest = {} /\ (c.next = "nothing" \/ ~Current(c.epoch))
          /\ Dropped(c)
          /\ UNCHANGED <<intent, shown>>
    /\ UNCHANGED <<tracking, main, selected, held, disposed, dialog, createError,
                   commands, restarts>>

\* Slip: an older state of the same operation is not ignored.
NewerOrOlder(t) == tracked # None /\ t.operation = tracked.operation

\* applySnapshot: results of other operations and older states are ignored.
Newer(t) == /\ tracked # None
            /\ t.operation = tracked.operation /\ t.sequence >= tracked.sequence

ApplySnapshot(t, e, others) ==
    IF ~Newer(t)
    THEN calls' = others /\ UNCHANGED <<tracked, held, intent, shown, pollTimer>>
    ELSE /\ tracked' = t
         /\ IF t.status \in Ended THEN CompleteTracking(t, e, others)
            ELSE calls' = others /\ UNCHANGED <<held, intent, shown, pollTimer>>

CancelArrives(c) ==
    /\ Arrived(c) /\ c.then = "cancel"
    /\ \/ /\ Current(c.epoch) /\ c.reply.ok
          /\ ApplySnapshot(c.reply.subject, c.epoch, Others(c))
       \/ /\ ~Current(c.epoch) \/ ~c.reply.ok
          /\ Dropped(c)
          /\ UNCHANGED <<tracked, held, intent, shown, pollTimer>>
    /\ UNCHANGED <<main, selected, pendingOperation, trackingError, paused, epoch,
                   failures, disposed, dialog, createError, commands, restarts>>

PollTimer ==
    /\ pollTimer # None
    /\ pollTimer' = None
    /\ calls' = IF Current(pollTimer) /\ tracked # None /\ tracked.status \notin Ended
                THEN calls \cup {InFlight("poll", Named(tracked.operation), None, pollTimer)}
                ELSE calls
    /\ UNCHANGED <<main, selected, intent, tracked, pendingOperation, trackingError,
                   paused, epoch, held, failures, disposed, shown, dialog, createError,
                   commands, restarts>>

\* Slip: a failed poll is the last one.
RetriesNever(n) == FALSE

RetriesAfter(n) == n < MaxPollRetries

PollArrives(c) ==
    /\ Arrived(c) /\ c.then = "poll"
    /\ \/ /\ ~Current(c.epoch)
          /\ Dropped(c)
          /\ UNCHANGED <<tracked, trackingError, paused, pollTimer, failures, held, intent,
                         shown>>
       \/ /\ Current(c.epoch) /\ ~c.reply.ok
          /\ failures' = failures + 1 /\ trackingError' = TRUE
          /\ paused' = (failures + 1 >= MaxPollRetries)
          /\ IF RetriesAfter(failures + 1) THEN Scheduled(c.epoch) ELSE UNCHANGED pollTimer
          /\ Dropped(c)
          /\ UNCHANGED <<tracked, held, intent, shown>>
       \/ /\ Current(c.epoch) /\ c.reply.ok
          /\ failures' = 0 /\ trackingError' = FALSE /\ paused' = FALSE
          /\ LET t == c.reply.subject
                 goesOn == IF Newer(t) THEN t.status \notin Ended
                           ELSE tracked.status \notin Ended IN
             IF Newer(t) /\ t.status \notin Ended
             THEN /\ tracked' = t /\ Scheduled(c.epoch) /\ Dropped(c)
                  /\ UNCHANGED <<held, intent, shown>>
             ELSE IF goesOn
             THEN /\ Scheduled(c.epoch) /\ Dropped(c)
                  /\ UNCHANGED <<tracked, held, intent, shown>>
             ELSE ApplySnapshot(t, c.epoch, Others(c))
    /\ UNCHANGED <<main, selected, pendingOperation, epoch, disposed, dialog,
                   createError, commands, restarts>>

\* The environments were read again.  Behind a succeeded apply the installed
\* plugins are read; behind the stop of a restart the selected environment is
\* started.
ListArrives(c) ==
    /\ Arrived(c) /\ c.then = "list"
    /\ calls' = Others(c) \cup
          (IF ~Current(c.epoch) THEN {}
           ELSE IF c.subject.kind = "apply"
           THEN {[InFlight("installed", Named(None), selected, c.epoch) EXCEPT
                     !.next = "after apply"]}
           ELSE IF c.restart
           THEN {InFlight("start after stop", c.subject, selected, dialog)}
           ELSE {})
    /\ restarts' = IF Current(c.epoch) /\ c.restart
                   THEN restarts \cup {[stop |-> c.subject, environment |-> selected,
                                         number |-> Cardinality(restarts)]}
                   ELSE restarts
    /\ UNCHANGED <<tracking, main, selected, intent, held, disposed, shown, dialog,
                   createError, commands>>

\* An event drives the tracked operation if the subscription it was sent to is
\* the one held for it, and if it is news.
EventArrives(v) ==
    /\ v \in events
    /\ events' = events \ {v}
    /\ IF /\ ~disposed /\ tracked # None
          /\ [operation |-> v.subject.operation, id |-> v.id] \in held
          /\ tracked.operation = v.subject.operation
          /\ v.subject.sequence > tracked.sequence
       THEN LET t == [tracked EXCEPT !.status = v.subject.status,
                                     !.sequence = v.subject.sequence] IN
            /\ tracked' = t
            /\ CompleteTracking(t, epoch, calls)
       ELSE UNCHANGED <<tracked, held, intent, shown, pollTimer, calls>>
    /\ UNCHANGED <<served, subscribed, selected, pendingOperation, trackingError,
                   paused, epoch, failures, disposed, dialog, createError, commands,
                   restarts>>

Arrives(c) ==
    \/ CommandAccepted(c) \/ CommandRefused(c) \/ ResultArrives(c) \/ SnapshotArrives(c)
    \/ SubscribeArrives(c) \/ ReleaseArrives(c) \/ CancelArrives(c) \/ PollArrives(c)
    \/ ListArrives(c)

UserNext ==
    \/ StartOrStop("start") \/ StartOrStop("stop") \/ SwitchVersion \/ RunPluginSearch
    \/ InspectSelectedPlugin \/ LoadDshVersions \/ LoadExpectedComposition
    \/ PreviewPluginChange \/ ApplyPluginChange \/ RestoreGeneration
    \/ AskWebUI \/ ExportDiagnostics \/ EditEntry \/ LoadInstalledPlugins \/ LoadGenerations
    \/ RestartSelected \/ Create \/ ClearCreateError \/ ChooseSource \/ CancelTracked
    \/ RetryTracking \/ Dispose
    \/ \E n \in Environment : SelectEnvironment(n)

RendererNext ==
    \/ UserNext
    \/ \E c \in calls : Serve(c) \/ Refuse(c) \/ Arrives(c)
    \/ \E o \in Operations : OperationMoves(o)
    \/ \E v \in events : EventArrives(v)
    \/ PollTimer
-----------------------------------------------------------------------------
\* The main process serves the calls, replies and events arrive, the timer fires.
\* Nothing is assumed about the user, the operations or failing calls.
RendererFairness ==
    /\ WF_rendererVars(\E c \in calls : Serve(c))
    /\ WF_rendererVars(\E c \in calls : Arrives(c))
    /\ WF_rendererVars(PollTimer)

-----------------------------------------------------------------------------
\* A restart starts an environment at most once, and only when the very stop it
\* waited for has succeeded.
RestartAfterItsStop ==
    \A r \in restarts :
       /\ r.stop.kind = "stop" /\ served[r.stop.operation].status = "succeeded"
       /\ \A other \in restarts : other.stop.operation = r.stop.operation => other = r

\* Whatever order replies and events arrive in, the operation on display never
\* goes back to an older state, and once shown as ended it stays so.
TrackedNeverRegresses ==
    [][tracked # None /\ tracked' # None /\ epoch' = epoch
         => /\ tracked'.operation = tracked.operation
            /\ tracked'.sequence >= tracked.sequence
            /\ tracked.status \in Ended => tracked'.status = tracked.status]_rendererVars

\* A composition or the result of an edit is shown only while its environment is
\* selected, and the error of a create only in the dialog it was made in.
ResultsBelongToSelection ==
    /\ shown["composition"] \in {None, selected}
    /\ shown["patch"] \in {None, selected}
    /\ createError \in {None, dialog}

\* An operation that ended while the renderer observes it is shown as ended, or
\* superseded by another one, or the user is offered a retry.
Observed(o) == pendingOperation = o \/ (tracked # None /\ tracked.operation = o)

TrackingEnds ==
    \A o \in Operations :
       (Observed(o) /\ served[o] # None /\ served[o].status \in Ended)
          ~> (\/ ~Observed(o) \/ disposed \/ paused
              \/ tracked # None /\ tracked.status \in Ended
              \/ tracked = None /\ trackingError)
=============================================================================
