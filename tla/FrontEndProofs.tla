-------------------------- MODULE FrontEndProofs --------------------------
(* Proofs about the two halves of the front end.                               *)
(*                                                                             *)
(* Requests: the ledger of requests in the main process.  The invariant ties a *)
(* request record to the answers given and the effects it had: a mark without  *)
(* an outcome belongs to the dispatch under way or to one that was interrupted,*)
(* and an outcome is the only answer ever given.                               *)
(*                                                                             *)
(* Renderer: the controller.  The invariant says that everything the renderer  *)
(* holds of an operation (what is tracked, what a call or a reply in flight    *)
(* carries, an event, the stop of a restart) is a state the operation was in,  *)
(* that a track opens once, and that at most one call or intent can still turn *)
(* a given stop into a start.                                                  *)
EXTENDS Requests, Renderer, TLAPS, FiniteSetTheorems, WellFoundedInduction

(* The request ledger.                                                         *)

RequestSpec == RequestInit /\ [][RequestNext]_requestVars

Session == [open : BOOLEAN, entries : [Subscriptions -> RequestId \cup {All, None}],
            minted : Nat, published : [RequestId -> Nat]]

RequestTypes ==
    /\ requests \in [RequestId -> RequestRecord \cup {None}]
    /\ operations \in [RequestId -> OperationState \cup {None}]
    /\ windows \in [Window -> Session]
    /\ waiting \subseteq [window : Window, request : RequestId, call : Calls]
    /\ dispatching \in Dispatched \cup {None}
    /\ answers \in [RequestId -> SUBSET Outcome]
    /\ effects \in [RequestId -> Nat]
    /\ interrupted \subseteq RequestId
    /\ granted \in Grant \cup {None}

NeverPreviews(r) == \A call \in CallOf[r] : call.method # "preview"
Recorded(r) == requests[r] # None /\ requests[r].state = "completed"
Pending(r) == requests[r] # None /\ requests[r].state = "in-progress"
Busy(r) == dispatching # None /\ dispatching.request = r

\* A request of the ledger and what it brought about.
LedgerSound ==
    \A r \in RequestId :
       /\ Recorded(r) =>
             /\ effects[r] > 0 \/ r \in interrupted
             /\ requests[r].outcome # None
             /\ answers[r] \subseteq {requests[r].outcome}
             /\ requests[r].call.method = "subscribe" /\ requests[r].outcome.ok =>
                   requests[r].outcome.value \in Subscriptions
       /\ ~Recorded(r) => answers[r] = {}
       /\ Pending(r) => r \in interrupted \/ Busy(r)
       /\ operations[r] # None => effects[r] > 0
       /\ NeverPreviews(r) => effects[r] <= 1 /\ (effects[r] = 1 => requests[r] # None)

\* What a window has published of an operation is not ahead of it.
PublishedSound ==
    \A w \in Window, o \in RequestId :
       windows[w].published[o] > 0 =>
          operations[o] # None /\ windows[w].published[o] <= operations[o].sequence

WaitingSound ==
    \A p \in waiting : p.call \in CallOf[p.request] /\ p.call.method \in Prompting

\* The dispatch under way, before and after its effect.
DispatchSound ==
    dispatching # None =>
       LET d == dispatching IN
       /\ WellFormed(d.call) /\ d.call \in CallOf[d.request]
       /\ ~Recorded(d.request) /\ (Marks(d.call) => requests[d.request] # None)
       /\ granted = None
       /\ d.outcome = None =>
             /\ NeverPreviews(d.request) => effects[d.request] = 0
             /\ d.call.method = "cancel" => operations[d.call.input] # None
             /\ d.call.method = "subscribe" =>
                   windows[d.window].open /\ Cardinality(Live(d.window)) < MaxSubscriptions
       /\ d.outcome # None =>
             /\ effects[d.request] > 0
             /\ d.call.method = "subscribe" /\ d.outcome.ok =>
                   d.outcome.value \in Live(d.window)

RequestInv ==
    /\ RequestTypes /\ LedgerSound /\ PublishedSound /\ WaitingSound /\ DispatchSound
    /\ SubscriptionsLive
-----------------------------------------------------------------------------
\* Sets of subscription ids are finite, and one id more counts one more.
LEMMA SubscriptionsCounted ==
    ASSUME NEW S \in SUBSET Subscriptions
    PROVE  /\ IsFiniteSet(S) /\ Cardinality(S) \in Nat
           /\ \A T \in SUBSET S : Cardinality(T) <= Cardinality(S)
           /\ \A T \in SUBSET Subscriptions, s \in Subscriptions :
                 T \subseteq S \cup {s} => Cardinality(T) <= Cardinality(S) + 1
<1>1. IsFiniteSet(Subscriptions)
    BY FS_Interval, QuotaAssumption DEF Subscriptions
<1>2. IsFiniteSet(S)
    BY <1>1, FS_Subset
<1>3. Cardinality(S) \in Nat
    BY <1>2, FS_CardinalityType
<1>4. \A T \in SUBSET S : Cardinality(T) <= Cardinality(S)
    BY <1>2, FS_Subset
<1>5. ASSUME NEW T \in SUBSET Subscriptions, NEW s \in Subscriptions,
             T \subseteq S \cup {s}
      PROVE  Cardinality(T) <= Cardinality(S) + 1
    <2>1. /\ IsFiniteSet(S \cup {s})
          /\ Cardinality(S \cup {s}) = IF s \in S THEN Cardinality(S) ELSE Cardinality(S) + 1
        BY <1>2, FS_AddElement
    <2>2. Cardinality(T) <= Cardinality(S \cup {s})
        BY <1>5, <2>1, FS_Subset
    <2>3. Cardinality(T) \in Nat
        BY <1>1, FS_Subset, FS_CardinalityType
    <2> QED
        BY <1>3, <2>1, <2>2, <2>3
<1> QED
    BY <1>2, <1>3, <1>4, <1>5

\* A session may be changed field by field.
LEMMA SessionMembers ==
    /\ Closed \in Session /\ Opened \in Session
    /\ \A x \in Session : \A s \in Subscriptions, e \in RequestId \cup {All, None} :
          [x EXCEPT !.entries[s] = e] \in Session
    /\ \A x \in Session : \A n \in Nat : [x EXCEPT !.minted = n] \in Session
    /\ \A x \in Session : \A n \in Nat, o \in RequestId :
          [x EXCEPT !.published[o] = n] \in Session
    BY DEF Session, Closed, Opened

\* A replayed answer is the recorded one.
LEMMA ReplayKeeps ==
    ASSUME RequestInv, Idle,
           NEW w \in Window, NEW r \in RequestId, NEW call \in CallOf[r],
           WellFormed(call), Standing(r, call) = "completed",
           ~OverQuota(w, call), call.method = "subscribe" => windows[w].open,
           Replay(w, r, call), waiting' \subseteq waiting
    PROVE  RequestInv'
<1> USE DEF RequestInv
<1> DEFINE outcome == requests[r].outcome
           asked == call.method = "subscribe" /\ outcome.ok
           put == [windows[w] EXCEPT !.entries[outcome.value] = call.input]
<1>1. /\ Recorded(r) /\ requests[r].call = call /\ requests[r] \in RequestRecord
    BY DEF Standing, Recorded, RequestTypes
<1>2. /\ outcome \in Outcome /\ answers[r] \subseteq {outcome}
      /\ asked => outcome.value \in Subscriptions
    BY <1>1 DEF LedgerSound, RequestRecord
<1>3. call.method = "subscribe" => call.input \in RequestId \cup {All}
    BY CallAssumption DEF Calls
<1>4. \/ windows' = windows /\ (asked => windows[w].entries[outcome.value] # None)
      \/ asked /\ windows' = [windows EXCEPT ![w] = put]
    BY <1>2 DEF Replay
<1>5. ASSUME asked
      PROVE  /\ put \in Session
             /\ put.open = windows[w].open /\ put.published = windows[w].published
             /\ put.entries = [windows[w].entries EXCEPT ![outcome.value] = call.input]
    <2>1. windows[w] \in Session
        BY DEF RequestTypes
    <2>2. put \in Session
        BY <1>2, <1>3, <1>5, <2>1, SessionMembers
    <2> QED
        BY <1>2, <1>5, <2>1, <2>2 DEF Session
<1>6. /\ dispatching' = None /\ UNCHANGED <<requests, operations, effects, interrupted>>
      /\ answers' = [answers EXCEPT ![r] = @ \cup {outcome}]
      /\ granted' = IF asked THEN [window |-> w, subscription |-> outcome.value] ELSE None
    BY DEF Replay, Answered, Idle
<1>7. RequestTypes'
    <2>1. windows' \in [Window -> Session]
        BY <1>4, <1>5 DEF RequestTypes
    <2>2. granted' \in Grant \cup {None}
        BY <1>2, <1>6 DEF Grant
    <2> QED
        BY <1>2, <1>6, <2>1, <2>2 DEF RequestTypes
<1>8. LedgerSound'
    <2>1. ASSUME NEW q \in RequestId
          PROVE  /\ answers'[q] = IF q = r THEN answers[r] \cup {outcome} ELSE answers[q]
        BY <1>6 DEF RequestTypes
    <2> QED
        BY <1>1, <1>2, <1>6, <2>1 DEF LedgerSound, Recorded, Pending, Busy, Idle
<1>9. PublishedSound'
    <2>1. \A v \in Window : windows'[v].published = windows[v].published
        BY <1>4, <1>5 DEF RequestTypes
    <2> QED
        BY <1>6, <2>1 DEF PublishedSound
<1>10. WaitingSound' /\ DispatchSound'
    BY <1>6 DEF WaitingSound, DispatchSound
<1>11. SubscriptionsLive'
    <2>1. ASSUME NEW v \in Window
          PROVE  /\ Cardinality(Live(v)') <= MaxSubscriptions
                 /\ ~windows'[v].open => Live(v)' = {}
        <3>1. CASE windows' = windows
            BY <3>1 DEF SubscriptionsLive, Live
        <3>2. CASE asked /\ windows' = [windows EXCEPT ![w] = put] /\ v # w
            BY <3>2 DEF SubscriptionsLive, Live, RequestTypes
        <3>3. CASE asked /\ windows' = [windows EXCEPT ![w] = put] /\ v = w
            <4>1. windows'[w] = put /\ windows[w].open
                BY <3>3 DEF RequestTypes
            <4>2. Live(w)' \subseteq Live(w) \cup {outcome.value}
                BY <1>5, <3>3, <4>1 DEF Live, Session, RequestTypes
            <4>3. /\ Live(w) \in SUBSET Subscriptions /\ Live(w)' \in SUBSET Subscriptions
                BY DEF Live
            <4>4. Cardinality(Live(w)) < MaxSubscriptions
                BY <3>3, <4>3, SubscriptionsCounted, QuotaAssumption DEF OverQuota
            <4>5. Cardinality(Live(w)') <= Cardinality(Live(w)) + 1
                BY <1>2, <3>3, <4>2, <4>3, SubscriptionsCounted
            <4>6. Cardinality(Live(w)) \in Nat /\ Cardinality(Live(w)') \in Nat
                BY <4>3, SubscriptionsCounted
            <4> QED
                BY <1>5, <3>3, <4>1, <4>4, <4>5, <4>6, QuotaAssumption
        <3> QED
            BY <1>4, <3>1, <3>2, <3>3
    <2>2. (granted # None => granted.subscription \in Live(granted.window))'
        <3>1. SUFFICES ASSUME asked
              PROVE  windows'[w].entries[outcome.value] # None
            BY <1>2, <1>6 DEF Live
        <3>2. CASE windows' = windows /\ windows[w].entries[outcome.value] # None
            BY <1>2, <3>1, <3>2 DEF Live
        <3>3. CASE windows' = [windows EXCEPT ![w] = put]
            <4>1. windows'[w] = put
                BY <3>3 DEF RequestTypes
            <4>2. windows[w].entries \in [Subscriptions -> RequestId \cup {All, None}]
                BY DEF RequestTypes, Session
            <4> QED
                BY <1>2, <1>3, <1>5, <3>1, <4>1, <4>2, AbsentAssumption DEF Live
        <3> QED
            BY <1>4, <3>1, <3>2, <3>3
    <2> QED
        BY <2>1, <2>2 DEF SubscriptionsLive
<1> QED
    BY <1>7, <1>8, <1>9, <1>10, <1>11

\* A step after which no subscription is granted, and which leaves the windows
\* alone or closes some or opens them anew.
LEMMA WindowsRest ==
    ASSUME RequestInv, granted' = None,
           \A w \in Window : windows'[w] \in {windows[w], Opened, Closed}
    PROVE  SubscriptionsLive'
<1>1. ASSUME NEW w \in Window
      PROVE  /\ Cardinality(Live(w)') <= MaxSubscriptions
             /\ ~windows'[w].open => Live(w)' = {}
    <2>1. CASE windows'[w] = windows[w]
        BY <2>1 DEF RequestInv, SubscriptionsLive, Live
    <2>2. CASE windows'[w] \in {Opened, Closed}
        <3>1. Live(w)' = {}
            BY <2>2 DEF Live, Opened, Closed
        <3> QED
            BY <3>1, FS_EmptySet, QuotaAssumption
    <2> QED
        BY <2>1, <2>2
<1> QED
    BY <1>1 DEF SubscriptionsLive

\* A refused call leaves the ledger as it was.
LEMMA RefusedKeeps ==
    ASSUME RequestInv, Idle, Refused, WaitingSound',
           waiting' \subseteq [window : Window, request : RequestId, call : Calls]
    PROVE  RequestInv'
<1> USE DEF RequestInv
<1>1. /\ dispatching' = None /\ granted' = None
      /\ UNCHANGED <<requests, operations, windows, answers, effects, interrupted>>
    BY DEF Refused, Idle
<1>2. RequestTypes'
    BY <1>1 DEF RequestTypes
<1>3. LedgerSound'
    BY <1>1 DEF LedgerSound, Recorded, Pending, Busy, Idle
<1>4. PublishedSound' /\ DispatchSound'
    BY <1>1 DEF PublishedSound, DispatchSound
<1>5. SubscriptionsLive'
    BY <1>1, WindowsRest
<1> QED
    BY <1>2, <1>3, <1>4, <1>5

\* A dispatch, of a call that is below the quota if it is a subscribe.
LEMMA DispatchKeeps ==
    ASSUME RequestInv, Idle,
           NEW w \in Window, NEW r \in RequestId, NEW call \in CallOf[r],
           ~OverQuota(w, call), call.method = "subscribe" => windows[w].open,
           Dispatch(w, r, call), waiting' \subseteq waiting
    PROVE  RequestInv'
<1> USE DEF RequestInv
<1>1. WaitingSound' /\ waiting' \subseteq [window : Window, request : RequestId, call : Calls]
    BY DEF WaitingSound, RequestTypes
<1>2. CASE Refused
    BY <1>1, <1>2, RefusedKeeps
<1>3. CASE WellFormed(call) /\ Standing(r, call) = "completed" /\ Replay(w, r, call)
    BY <1>3, ReplayKeeps
<1>4. CASE /\ WellFormed(call) /\ Standing(r, call) = "new" /\ Passes(w, call)
           /\ dispatching' = [window |-> w, request |-> r, call |-> call, outcome |-> None]
           /\ requests' = IF Marks(call)
                          THEN [requests EXCEPT ![r] = Record("in-progress", call, None)]
                          ELSE requests
           /\ granted' = None
           /\ UNCHANGED <<operations, windows, answers, effects, interrupted>>
    <2>1. requests[r] = None
        <3>1. requests[r] \in RequestRecord \cup {None}
            BY DEF RequestTypes
        <3> QED
            BY <1>4, <3>1 DEF Standing, RequestRecord
    <2>2. call \in Calls
        BY DEF Calls
    <2>3. Record("in-progress", call, None) \in RequestRecord
        BY <2>2 DEF Record, RequestRecord
    <2>4. dispatching' \in Dispatched /\ dispatching' # None
        BY <1>4, <2>2, AbsentAssumption DEF Dispatched
    <2>5. RequestTypes'
        BY <1>1, <1>4, <2>3, <2>4 DEF RequestTypes
    <2>6. ASSUME NEW q \in RequestId
          PROVE  requests'[q] = IF q = r /\ Marks(call) THEN Record("in-progress", call, None)
                                ELSE requests[q]
        BY <1>4 DEF RequestTypes
    <2>7. LedgerSound'
        <3>1. ASSUME NEW q \in RequestId, q # r
              PROVE  requests'[q] = requests[q]
            BY <2>6, <3>1
        <3>2. Record("in-progress", call, None) # None
            BY <2>3, AbsentAssumption
        <3> QED
            BY <1>4, <2>1, <2>4, <2>6, <3>1, <3>2
            DEF LedgerSound, Recorded, Pending, Busy, Idle, Record
    <2>8. PublishedSound'
        BY <1>4 DEF PublishedSound
    <2>9. DispatchSound'
        <3>1. ~Recorded(r)' /\ (Marks(call) => requests'[r] # None)
            BY <2>1, <2>3, <2>6, AbsentAssumption DEF Recorded, Record
        <3>2. NeverPreviews(r) => effects[r] = 0
            BY <2>1 DEF LedgerSound, RequestTypes
        <3>3. call.method = "cancel" => operations[call.input] # None
            BY <1>4 DEF Passes
        <3>4. call.method = "subscribe" =>
                 windows[w].open /\ Cardinality(Live(w)) < MaxSubscriptions
            BY SubscriptionsCounted, QuotaAssumption DEF OverQuota, Live
        <3> QED
            BY <1>4, <3>1, <3>2, <3>3, <3>4
            DEF DispatchSound, Recorded, NeverPreviews, Live, Marks
    <2>10. SubscriptionsLive'
        BY <1>4, WindowsRest
    <2> QED
        BY <1>1, <2>5, <2>7, <2>8, <2>9, <2>10
<1> QED
    BY <1>2, <1>3, <1>4 DEF Dispatch

\* A presented call: refused, replayed, made to wait, or dispatched.
LEMMA ArriveKeeps ==
    ASSUME RequestInv, NEW w \in Window, NEW r \in RequestId, NEW call \in CallOf[r],
           Arrive(w, r, call)
    PROVE  RequestInv'
<1>1. CASE OverQuota(w, call)
    <2>1. Idle /\ Refused /\ waiting' = waiting
        BY <1>1 DEF Arrive
    <2>2. WaitingSound' /\ waiting' \subseteq [window : Window, request : RequestId, call : Calls]
        BY <2>1 DEF RequestInv, RequestTypes, WaitingSound
    <2> QED
        BY <2>1, <2>2, RefusedKeeps
<1>2. CASE ~OverQuota(w, call) /\ Hooked(r, call)
    <2> DEFINE p == [window |-> w, request |-> r, call |-> call]
    <2>1. Idle /\ Refused /\ waiting' = waiting \cup {p}
        BY <1>2 DEF Arrive
    <2>2. /\ p \in [window : Window, request : RequestId, call : Calls]
          /\ p.call \in CallOf[p.request] /\ p.call.method \in Prompting
        BY <1>2 DEF Calls, Hooked, Prompting
    <2>3. WaitingSound' /\ waiting' \subseteq [window : Window, request : RequestId, call : Calls]
        <3> HIDE DEF p
        <3> QED
            BY <2>1, <2>2 DEF RequestInv, RequestTypes, WaitingSound
    <2> QED
        BY <2>1, <2>3, RefusedKeeps
<1>3. CASE ~OverQuota(w, call) /\ ~Hooked(r, call)
    BY <1>3, DispatchKeeps DEF Arrive
<1> QED
    BY <1>1, <1>2, <1>3

\* The prompt answers; the ledger is read again.
LEMMA HookReturnsKeeps ==
    ASSUME RequestInv, NEW p \in waiting, HookReturns(p)
    PROVE  RequestInv'
<1>1. /\ Idle /\ waiting' \subseteq waiting
      /\ Dispatch(p.window, p.request, p.call) \/ Refused
    BY DEF HookReturns
<1>2. /\ p.window \in Window /\ p.request \in RequestId
      /\ p.call \in CallOf[p.request] /\ p.call.method \in Prompting
    BY DEF RequestInv, RequestTypes, WaitingSound
<1>3. WaitingSound' /\ waiting' \subseteq [window : Window, request : RequestId, call : Calls]
    BY <1>1 DEF RequestInv, RequestTypes, WaitingSound
<1>4. CASE Refused
    BY <1>1, <1>3, <1>4, RefusedKeeps
<1>5. CASE Dispatch(p.window, p.request, p.call)
    BY <1>1, <1>2, <1>5, DispatchKeeps DEF OverQuota, Prompting
<1> QED
    BY <1>1, <1>4, <1>5

\* The effect of the dispatch under way: what holds before it, and what the
\* ledger keeps when the dispatch goes on or its request is interrupted.
LEMMA AtEffectFacts ==
    ASSUME RequestInv, AtEffect
    PROVE  LET d == dispatching IN
           /\ d \in Dispatched /\ d # None
           /\ d.window \in Window /\ d.request \in RequestId /\ d.call \in CallOf[d.request]
           /\ d.call \in Calls /\ WellFormed(d.call)
           /\ granted = None
    BY DEF RequestInv, RequestTypes, AtEffect, DispatchSound, Dispatched

\* The effect and its outcome belong to the request under way.
LEMMA EffectedKeeps ==
    ASSUME RequestInv, AtEffect, NEW r, r = dispatching.request, Effected(r),
           UNCHANGED <<requests, answers>>, interrupted \subseteq interrupted',
           r \in interrupted' \/ Busy(r)',
           \A o \in RequestId \ {r} : operations'[o] # None => operations[o] # None
    PROVE  LedgerSound' /\ effects' \in [RequestId -> Nat] /\ effects'[r] > 0
<1>1. /\ r \in RequestId /\ dispatching.call \in CallOf[r]
      /\ ~Recorded(r) /\ (Marks(dispatching.call) => requests[r] # None)
      /\ NeverPreviews(r) => effects[r] = 0
    BY AtEffectFacts DEF RequestInv, DispatchSound, AtEffect
<1>2. NeverPreviews(r) => requests[r] # None
    BY <1>1 DEF NeverPreviews, Marks
<1>3. /\ effects' \in [RequestId -> Nat]
      /\ \A q \in RequestId : effects'[q] = IF q = r THEN IF effects[r] = 0 THEN 1 ELSE 2
                                            ELSE effects[q]
    BY <1>1 DEF Effected, RequestInv, RequestTypes
<1>4. \A q \in RequestId : Recorded(q)' = Recorded(q) /\ Pending(q)' = Pending(q)
    BY DEF Recorded, Pending
<1>5. LedgerSound'
    <2>1. ASSUME NEW q \in RequestId
          PROVE  Pending(q) => q \in interrupted' \/ Busy(q)'
        BY <2>1 DEF RequestInv, LedgerSound, Busy
    <2>2. ASSUME NEW q \in RequestId
          PROVE  operations'[q] # None => effects'[q] > 0
        BY <1>3, <2>2 DEF RequestInv, LedgerSound
    <2>3. ASSUME NEW q \in RequestId, NeverPreviews(q)
          PROVE  effects'[q] <= 1 /\ (effects'[q] = 1 => requests[q] # None)
        BY <1>1, <1>2, <1>3, <2>3 DEF RequestInv, LedgerSound
    <2>4. ASSUME NEW q \in RequestId, Recorded(q)
          PROVE  effects'[q] > 0 \/ q \in interrupted'
        BY <1>1, <1>3, <2>4 DEF RequestInv, LedgerSound
    <2> QED
        BY <1>4, <2>1, <2>2, <2>3, <2>4 DEF RequestInv, LedgerSound, NeverPreviews
<1> QED
    BY <1>1, <1>3, <1>5

\* An outcome is returned: it is recorded by Complete.
LEMMA ReturnedKeeps ==
    ASSUME RequestInv, AtEffect, NEW d, d = dispatching,
           NEW outcome \in Outcome, Returned(outcome), Effected(d.request),
           UNCHANGED <<requests, answers, interrupted, granted>>,
           \A o \in RequestId \ {d.request} : operations'[o] # None => operations[o] # None,
           (d.call.method = "subscribe" /\ outcome.ok) => outcome.value \in Live(d.window)'
    PROVE  /\ dispatching' \in Dispatched /\ LedgerSound' /\ DispatchSound'
           /\ effects' \in [RequestId -> Nat]
<1>1. /\ d \in Dispatched /\ d.request \in RequestId /\ d.call \in CallOf[d.request]
      /\ WellFormed(d.call) /\ granted = None
    BY AtEffectFacts
<1>2. /\ dispatching' \in Dispatched /\ dispatching' # None
      /\ dispatching'.request = d.request /\ dispatching'.call = d.call
      /\ dispatching'.window = d.window /\ dispatching'.outcome = outcome
    <2>1. dispatching' = [d EXCEPT !.outcome = outcome]
        BY DEF Returned
    <2> QED
        BY <1>1, <2>1, AbsentAssumption DEF Dispatched
<1>3. /\ LedgerSound' /\ effects' \in [RequestId -> Nat] /\ effects'[d.request] > 0
    <2>1. Busy(d.request)'
        BY <1>2 DEF Busy
    <2> QED
        BY <2>1, EffectedKeeps
<1>4. outcome # None
    BY AbsentAssumption
<1>5. ~Recorded(d.request)' /\ (Marks(d.call) => requests'[d.request] # None)
    BY <1>1 DEF RequestInv, DispatchSound, AtEffect, Recorded
<1>6. DispatchSound'
    BY <1>1, <1>2, <1>3, <1>4, <1>5 DEF DispatchSound, Recorded, Live
<1> QED
    BY <1>2, <1>3, <1>6

\* A step that changes no subscription of a window.
LEMMA EntriesRest ==
    ASSUME RequestInv, granted' = None,
           \A w \in Window : /\ windows'[w].entries = windows[w].entries
                             /\ windows'[w].open = windows[w].open
    PROVE  SubscriptionsLive'
<1>1. \A w \in Window : Live(w)' = Live(w)
    BY DEF Live
<1> QED
    BY <1>1 DEF RequestInv, SubscriptionsLive

\* A new operation: nothing was published of it.
LEMMA CreateOperationKeeps ==
    ASSUME RequestInv, CreateOperation
    PROVE  RequestInv'
<1>1. PICK d : d = dispatching
    OBVIOUS
<1>2. /\ AtEffect /\ d.call.method \in Creating
      /\ d.request \in RequestId /\ d.window \in Window /\ granted = None
    BY <1>1, AtEffectFacts DEF CreateOperation
<1>3. /\ Effected(d.request) /\ Returned(Done(d.request))
      /\ operations' = [operations EXCEPT ![d.request] = [live |-> TRUE, sequence |-> 1]]
      /\ windows' = [w \in Window |->
            [windows[w] EXCEPT !.published[d.request] = IF w = d.window THEN 1 ELSE 0]]
      /\ UNCHANGED <<requests, revision, waiting, answers, interrupted, granted, kills>>
    BY <1>1 DEF CreateOperation
<1>4. Done(d.request) \in Outcome
    BY <1>2 DEF Done, Outcome
<1>5. [live |-> TRUE, sequence |-> 1] \in OperationState
    BY DEF OperationState
<1>6. /\ operations' \in [RequestId -> OperationState \cup {None}]
      /\ operations'[d.request] = [live |-> TRUE, sequence |-> 1]
      /\ operations'[d.request] # None
      /\ \A o \in RequestId \ {d.request} : operations'[o] = operations[o]
    BY <1>2, <1>3, <1>5, AbsentAssumption DEF RequestInv, RequestTypes
<1>7. /\ dispatching' \in Dispatched /\ LedgerSound' /\ DispatchSound'
      /\ effects' \in [RequestId -> Nat]
    BY <1>1, <1>2, <1>3, <1>4, <1>6, ReturnedKeeps DEF Creating
<1>8. ASSUME NEW w \in Window
      PROVE  /\ windows'[w] \in Session
             /\ windows'[w].open = windows[w].open /\ windows'[w].entries = windows[w].entries
             /\ windows'[w].published[d.request] \in {0, 1}
             /\ \A o \in RequestId \ {d.request} :
                   windows'[w].published[o] = windows[w].published[o]
    <2>1. windows[w] \in Session
        BY DEF RequestInv, RequestTypes
    <2>2. PICK n \in {0, 1} : windows'[w] = [windows[w] EXCEPT !.published[d.request] = n]
        BY <1>3
    <2>3. windows'[w] \in Session
        <3>1. n \in Nat
            OBVIOUS
        <3>2. [windows[w] EXCEPT !.published[d.request] = n] \in Session
            BY <1>2, <2>1, <3>1, SessionMembers
        <3> QED
            BY <2>2, <3>2
    <2> QED
        BY <1>2, <2>1, <2>2, <2>3 DEF Session
<1>9. RequestTypes'
    <2>1. windows' \in [Window -> Session]
        BY <1>3, <1>8
    <2> QED
        BY <1>3, <1>6, <1>7, <2>1 DEF RequestInv, RequestTypes
<1>10. PublishedSound'
    BY <1>6, <1>8 DEF RequestInv, PublishedSound
<1>11. WaitingSound' /\ SubscriptionsLive'
    BY <1>2, <1>3, <1>8, EntriesRest DEF RequestInv, WaitingSound
<1> QED
    BY <1>7, <1>9, <1>10, <1>11 DEF RequestInv

\* A cancelled operation publishes its end where it may.
LEMMA CancelOperationKeeps ==
    ASSUME RequestInv, CancelOperation
    PROVE  RequestInv'
<1>1. PICK d, o : d = dispatching /\ o = d.call.input
    OBVIOUS
<1>2. /\ AtEffect /\ d.call.method = "cancel"
      /\ d.request \in RequestId /\ d.window \in Window /\ granted = None
      /\ d.call \in Calls /\ WellFormed(d.call)
    BY <1>1, AtEffectFacts DEF CancelOperation
<1>3. o \in RequestId /\ operations[o] \in OperationState /\ operations[o] # None
    <2>1. o \in RequestId
        BY <1>1, <1>2, CallAssumption
    <2>2. operations[o] # None
        BY <1>1, <1>2 DEF RequestInv, DispatchSound, AtEffect
    <2> QED
        BY <2>1, <2>2 DEF RequestInv, RequestTypes
<1>4. /\ Effected(d.request)
      /\ UNCHANGED <<requests, revision, waiting, answers, interrupted, granted, kills>>
    BY <1>1 DEF CancelOperation
<1>5. CASE operations[o].live
    <2> DEFINE n == operations[o].sequence + 1
    <2>1. operations' = Advanced(o, FALSE)
        BY <1>1, <1>5 DEF CancelOperation
    <2>2. /\ operations' \in [RequestId -> OperationState \cup {None}]
          /\ operations'[o] = [live |-> FALSE, sequence |-> n] /\ n \in Nat
          /\ operations'[o] # None
          /\ \A q \in RequestId \ {o} : operations'[q] = operations[q]
        <3>1. n \in Nat /\ [live |-> FALSE, sequence |-> n] \in OperationState
            BY <1>3 DEF OperationState
        <3>2. operations' = [operations EXCEPT ![o] = [live |-> FALSE, sequence |-> n]]
            BY <2>1 DEF Advanced
        <3> HIDE DEF n
        <3> QED
            BY <1>3, <3>1, <3>2, AbsentAssumption DEF RequestInv, RequestTypes
    <2>3. /\ windows[d.window] \in Session
          /\ windows[d.window].published[o] \in Nat
          /\ windows[d.window].published[o] < n
        <3>1. windows[d.window] \in Session /\ windows[d.window].published[o] \in Nat
            BY <1>2, <1>3 DEF RequestInv, RequestTypes, Session
        <3>2. operations[o].sequence \in Nat
            BY <1>3 DEF OperationState
        <3>3. windows[d.window].published[o] > 0 =>
                 windows[d.window].published[o] <= operations[o].sequence
            BY <1>2, <1>3 DEF RequestInv, PublishedSound
        <3> QED
            BY <3>1, <3>2, <3>3
    <2>4. windows' = Published(d.window, o, n) /\ Returned(Done(o))
        <3>1. operations'[o].sequence = n
            BY <2>2
        <3>2. Publishes(d.window, o, n)
            BY <2>2, <2>3 DEF Publishes
        <3> QED
            BY <1>1, <1>5, <3>1, <3>2 DEF CancelOperation
    <2>5. ASSUME NEW w \in Window
          PROVE  /\ windows'[w] \in Session
                 /\ windows'[w].open = windows[w].open /\ windows'[w].entries = windows[w].entries
                 /\ windows'[w].published[o] \in {n, windows[w].published[o]}
                 /\ \A q \in RequestId \ {o} :
                       windows'[w].published[q] = windows[w].published[q]
        <3>1. windows[w] \in Session
            BY DEF RequestInv, RequestTypes
        <3>2. windows'[w] = IF w = d.window THEN [windows[w] EXCEPT !.published[o] = n]
                            ELSE windows[w]
            BY <2>4 DEF Published, RequestInv, RequestTypes
        <3>3. windows'[w] \in Session
            BY <1>3, <2>2, <3>1, <3>2, SessionMembers
        <3> QED
            BY <1>3, <3>1, <3>2, <3>3 DEF Session
    <2>6. Done(o) \in Outcome
        BY <1>3 DEF Done, Outcome
    <2>7. \A q \in RequestId \ {d.request} : operations'[q] # None => operations[q] # None
        BY <1>3, <2>2
    <2>8. /\ dispatching' \in Dispatched /\ LedgerSound' /\ DispatchSound'
          /\ effects' \in [RequestId -> Nat]
        BY <1>1, <1>2, <1>4, <2>4, <2>6, <2>7, ReturnedKeeps
    <2>9. RequestTypes'
        <3>1. windows' \in [Window -> Session]
            BY <2>4, <2>5 DEF Published, RequestInv, RequestTypes
        <3> QED
            BY <1>4, <2>2, <2>8, <3>1 DEF RequestInv, RequestTypes
    <2>10. PublishedSound'
        <3>1. ASSUME NEW w \in Window
              PROVE  windows'[w].published[o] <= operations'[o].sequence
            <4>1. windows[w].published[o] \in Nat
                BY <1>3 DEF RequestInv, RequestTypes, Session
            <4>2. operations[o].sequence \in Nat
                BY <1>3 DEF OperationState
            <4>3. windows[w].published[o] > 0 =>
                     windows[w].published[o] <= operations[o].sequence
                BY <1>3 DEF RequestInv, PublishedSound
            <4> QED
                BY <2>2, <2>5, <4>1, <4>2, <4>3
        <3> QED
            BY <2>2, <2>5, <3>1 DEF RequestInv, PublishedSound
    <2>11. WaitingSound' /\ SubscriptionsLive'
        BY <1>2, <1>4, <2>5, EntriesRest DEF RequestInv, WaitingSound
    <2> QED
        BY <2>8, <2>9, <2>10, <2>11 DEF RequestInv
<1>6. CASE ~operations[o].live
    <2>1. UNCHANGED <<operations, windows>> /\ Returned(Failed)
        BY <1>1, <1>6 DEF CancelOperation
    <2>2. Failed \in Outcome
        BY DEF Failed, Outcome
    <2>3. /\ dispatching' \in Dispatched /\ LedgerSound' /\ DispatchSound'
          /\ effects' \in [RequestId -> Nat]
        BY <1>1, <1>2, <1>4, <2>1, <2>2, ReturnedKeeps
    <2>4. /\ RequestTypes' /\ PublishedSound' /\ WaitingSound' /\ SubscriptionsLive'
        BY <1>2, <1>4, <2>1, <2>3, EntriesRest
        DEF RequestInv, RequestTypes, PublishedSound, WaitingSound
    <2> QED
        BY <2>3, <2>4 DEF RequestInv
<1> QED
    BY <1>5, <1>6

\* A subscription is taken within the quota.
LEMMA SubscribeKeeps ==
    ASSUME RequestInv, Subscribe
    PROVE  RequestInv'
<1>1. PICK d, s : d = dispatching /\ s = windows[d.window].minted + 1
    OBVIOUS
<1>2. /\ AtEffect /\ d.call.method = "subscribe" /\ s \in Subscriptions
      /\ d.request \in RequestId /\ d.window \in Window /\ granted = None
      /\ d.call \in Calls /\ WellFormed(d.call)
    BY <1>1, AtEffectFacts DEF Subscribe
<1>3. /\ Effected(d.request) /\ Returned(Done(s))
      /\ windows' = [windows EXCEPT ![d.window].minted = s,
                                    ![d.window].entries[s] = d.call.input]
      /\ UNCHANGED <<requests, operations, revision, waiting, answers, interrupted,
                     granted, kills>>
    BY <1>1 DEF Subscribe
<1>4. d.call.input \in RequestId \cup {All} /\ d.call.input # None
    BY <1>2, CallAssumption, AbsentAssumption
<1>5. /\ windows[d.window].open /\ Cardinality(Live(d.window)) < MaxSubscriptions
    BY <1>1, <1>2 DEF RequestInv, DispatchSound, AtEffect
<1>6. /\ windows' \in [Window -> Session]
      /\ \A w \in Window \ {d.window} : windows'[w] = windows[w]
      /\ windows'[d.window].open /\ windows'[d.window].published = windows[d.window].published
      /\ windows'[d.window].entries = [windows[d.window].entries EXCEPT ![s] = d.call.input]
      /\ windows[d.window].entries \in [Subscriptions -> RequestId \cup {All, None}]
    <2> DEFINE minted == [windows[d.window] EXCEPT !.minted = s]
               put == [minted EXCEPT !.entries[s] = d.call.input]
    <2>1. windows[d.window] \in Session /\ s \in Nat
        BY <1>2 DEF RequestInv, RequestTypes, Subscriptions
    <2>2. /\ minted \in Session /\ minted.open = windows[d.window].open
          /\ minted.published = windows[d.window].published
          /\ minted.entries = windows[d.window].entries
        BY <2>1, SessionMembers DEF Session
    <2>3. windows' = [windows EXCEPT ![d.window] = put]
        BY <1>3
    <2> HIDE DEF minted
    <2>4. /\ put \in Session /\ put.open = minted.open /\ put.published = minted.published
          /\ put.entries = [minted.entries EXCEPT ![s] = d.call.input]
        <3>1. put \in Session
            BY <1>2, <1>4, <2>2, SessionMembers
        <3> QED
            BY <1>2, <2>2, <3>1 DEF Session
    <2> HIDE DEF put
    <2> QED
        BY <1>2, <1>5, <2>1, <2>2, <2>3, <2>4 DEF RequestInv, RequestTypes, Session
<1>7. Done(s) \in Outcome /\ Done(s).value = s
    BY <1>2 DEF Done, Outcome
<1>8. Live(d.window)' \subseteq Live(d.window) \cup {s}
    BY <1>2, <1>6, <1>1 DEF Live
<1>9. s \in Subscriptions /\ windows'[d.window].entries[s] # None
    BY <1>2, <1>4, <1>6
<1>10. /\ dispatching' \in Dispatched /\ LedgerSound' /\ DispatchSound'
       /\ effects' \in [RequestId -> Nat]
    <2>1. s \in Live(d.window)'
        BY <1>9 DEF Live
    <2> QED
        BY <1>1, <1>2, <1>3, <1>7, <2>1, ReturnedKeeps
<1>11. RequestTypes' /\ WaitingSound'
    BY <1>3, <1>6, <1>10 DEF RequestInv, RequestTypes, WaitingSound
<1>12. PublishedSound'
    <2>1. \A w \in Window : windows'[w].published = windows[w].published
        BY <1>6
    <2> QED
        BY <1>3, <2>1 DEF RequestInv, PublishedSound
<1>13. SubscriptionsLive'
    <2>1. ASSUME NEW w \in Window, w # d.window
          PROVE  Live(w)' = Live(w) /\ windows'[w].open = windows[w].open
        BY <1>6, <2>1 DEF Live
    <2>2. Cardinality(Live(d.window)') <= MaxSubscriptions
        <3>1. Live(d.window) \in SUBSET Subscriptions /\ Live(d.window)' \in SUBSET Subscriptions
            BY DEF Live
        <3>2. Cardinality(Live(d.window)') <= Cardinality(Live(d.window)) + 1
            BY <1>2, <1>8, <3>1, SubscriptionsCounted
        <3>3. Cardinality(Live(d.window)) \in Nat /\ Cardinality(Live(d.window)') \in Nat
            BY <3>1, SubscriptionsCounted
        <3> QED
            BY <1>5, <3>2, <3>3, QuotaAssumption
    <2> QED
        BY <1>2, <1>3, <1>6, <2>1, <2>2 DEF RequestInv, SubscriptionsLive
<1> QED
    BY <1>10, <1>11, <1>12, <1>13 DEF RequestInv

\* An unsubscribe removes an entry, or finds none.
LEMMA UnsubscribeKeeps ==
    ASSUME RequestInv, Unsubscribe
    PROVE  RequestInv'
<1>1. PICK d, s : d = dispatching /\ s = d.call.input
    OBVIOUS
<1>2. /\ AtEffect /\ d.call.method = "unsubscribe"
      /\ d.request \in RequestId /\ d.window \in Window /\ granted = None
    BY <1>1, AtEffectFacts DEF Unsubscribe
<1>3. /\ Effected(d.request) /\ Returned(Done(None))
      /\ windows' = [windows EXCEPT ![d.window].entries[s] = None]
      /\ UNCHANGED <<requests, operations, revision, waiting, answers, interrupted,
                     granted, kills>>
    BY <1>1 DEF Unsubscribe
<1>4. /\ windows' \in [Window -> Session]
      /\ \A w \in Window :
            /\ windows'[w].open = windows[w].open /\ windows'[w].published = windows[w].published
            /\ Live(w)' \subseteq Live(w)
    <2> DEFINE cleared == [windows[d.window] EXCEPT !.entries[s] = None]
    <2>1. windows[d.window] \in Session /\ windows \in [Window -> Session]
        BY <1>2 DEF RequestInv, RequestTypes
    <2>2. /\ cleared \in Session /\ cleared.open = windows[d.window].open
          /\ cleared.published = windows[d.window].published
          /\ \A e \in Subscriptions :
                cleared.entries[e] \in {windows[d.window].entries[e], None}
        BY <2>1 DEF Session
    <2>3. windows' = [windows EXCEPT ![d.window] = cleared]
        BY <1>3
    <2> HIDE DEF cleared
    <2>4. \A w \in Window : windows'[w] = IF w = d.window THEN cleared ELSE windows[w]
        BY <2>1, <2>3
    <2> QED
        BY <2>1, <2>2, <2>3, <2>4 DEF Live
<1>5. Done(None) \in Outcome
    BY DEF Done, Outcome
<1>6. /\ dispatching' \in Dispatched /\ LedgerSound' /\ DispatchSound'
      /\ effects' \in [RequestId -> Nat]
    BY <1>1, <1>2, <1>3, <1>5, ReturnedKeeps
<1>7. RequestTypes' /\ WaitingSound' /\ PublishedSound'
    BY <1>3, <1>4, <1>6 DEF RequestInv, RequestTypes, WaitingSound, PublishedSound
<1>8. SubscriptionsLive'
    <2>1. ASSUME NEW w \in Window
          PROVE  Cardinality(Live(w)') <= MaxSubscriptions
        <3>1. Live(w) \in SUBSET Subscriptions /\ Live(w)' \in SUBSET Live(w)
            BY <1>4 DEF Live
        <3>2. /\ Cardinality(Live(w)') <= Cardinality(Live(w))
              /\ Cardinality(Live(w)) \in Nat /\ Cardinality(Live(w)') \in Nat
            BY <3>1, SubscriptionsCounted
        <3>3. Cardinality(Live(w)) <= MaxSubscriptions
            BY DEF RequestInv, SubscriptionsLive
        <3> QED
            BY <3>2, <3>3, QuotaAssumption
    <2> QED
        BY <1>2, <1>3, <1>4, <2>1 DEF RequestInv, SubscriptionsLive
<1> QED
    BY <1>6, <1>7, <1>8 DEF RequestInv

\* The verified origin is the answer.
LEMMA OpenWebUIKeeps ==
    ASSUME RequestInv, OpenWebUI
    PROVE  RequestInv'
<1>1. PICK d : d = dispatching
    OBVIOUS
<1>2. AtEffect /\ d.call.method = "openWebUI" /\ granted = None
    BY <1>1, AtEffectFacts DEF OpenWebUI
<1>3. /\ Effected(d.request) /\ Returned(Done(None))
      /\ UNCHANGED <<requests, operations, revision, windows, waiting, answers,
                     interrupted, granted, kills>>
    BY <1>1 DEF OpenWebUI
<1>4. Done(None) \in Outcome
    BY DEF Done, Outcome
<1>5. /\ dispatching' \in Dispatched /\ LedgerSound' /\ DispatchSound'
      /\ effects' \in [RequestId -> Nat]
    BY <1>1, <1>2, <1>3, <1>4, ReturnedKeeps
<1>6. RequestTypes' /\ WaitingSound' /\ PublishedSound' /\ SubscriptionsLive'
    BY <1>2, <1>3, <1>5, EntriesRest
    DEF RequestInv, RequestTypes, WaitingSound, PublishedSound
<1> QED
    BY <1>5, <1>6 DEF RequestInv

\* A port that throws leaves a mark behind.
LEMMA PortFailsKeeps ==
    ASSUME RequestInv, PortFails
    PROVE  RequestInv'
<1>1. PICK d : d = dispatching
    OBVIOUS
<1>2. /\ AtEffect /\ d.call.method # "subscribe" /\ granted = None /\ d.request \in RequestId
    BY <1>1, AtEffectFacts DEF PortFails, Creating
<1>3. /\ Effected(d.request)
      /\ \/ Returned(Failed) /\ UNCHANGED interrupted
         \/ dispatching' = None /\ interrupted' = interrupted \cup {d.request}
      /\ UNCHANGED <<requests, operations, revision, windows, waiting, answers,
                     granted, kills>>
    BY <1>1 DEF PortFails
<1>4. /\ dispatching' \in Dispatched \cup {None} /\ LedgerSound' /\ DispatchSound'
      /\ effects' \in [RequestId -> Nat] /\ interrupted' \subseteq RequestId
    <2>1. CASE Returned(Failed) /\ UNCHANGED interrupted
        <3>1. Failed \in Outcome
            BY DEF Failed, Outcome
        <3> QED
            BY <1>1, <1>2, <1>3, <2>1, <3>1, ReturnedKeeps DEF RequestInv, RequestTypes
    <2>2. CASE dispatching' = None /\ interrupted' = interrupted \cup {d.request}
        BY <1>1, <1>2, <1>3, <2>2, EffectedKeeps DEF DispatchSound, RequestInv, RequestTypes
    <2> QED
        BY <1>3, <2>1, <2>2
<1>5. RequestTypes' /\ WaitingSound' /\ PublishedSound' /\ SubscriptionsLive'
    BY <1>2, <1>3, <1>4, EntriesRest
    DEF RequestInv, RequestTypes, WaitingSound, PublishedSound
<1> QED
    BY <1>4, <1>5 DEF RequestInv

\* The outcome is recorded, and answered to whom it concerns.
LEMMA CompleteKeeps ==
    ASSUME RequestInv, Complete
    PROVE  RequestInv'
<1> USE DEF RequestInv
<1>1. PICK d, r : d = dispatching /\ r = d.request
    OBVIOUS
<1>2. /\ d \in Dispatched /\ d # None /\ d.outcome # None /\ r \in RequestId
      /\ d.window \in Window /\ d.call \in Calls /\ d.outcome \in Outcome
    BY <1>1 DEF Complete, RequestTypes, Dispatched
<1>3. /\ requests' = [requests EXCEPT ![r] = Record("completed", d.call, d.outcome)]
      /\ answers' = [answers EXCEPT ![r] = @ \cup {d.outcome}]
      /\ granted' = IF d.call.method = "subscribe" /\ d.outcome.ok
                    THEN [window |-> d.window, subscription |-> d.outcome.value]
                    ELSE None
      /\ dispatching' = None
      /\ UNCHANGED <<operations, revision, windows, waiting, effects, interrupted, kills>>
    BY <1>1 DEF Complete, Answered
<1>4. /\ ~Recorded(r) /\ effects[r] > 0 /\ answers[r] = {}
      /\ d.call.method = "subscribe" /\ d.outcome.ok => d.outcome.value \in Live(d.window)
    BY <1>1, <1>2 DEF DispatchSound, LedgerSound
<1>5. /\ Record("completed", d.call, d.outcome) \in RequestRecord
      /\ Record("completed", d.call, d.outcome) # None
    <2>1. Record("completed", d.call, d.outcome) \in RequestRecord
        BY <1>2 DEF Record, RequestRecord
    <2> QED
        BY <2>1, AbsentAssumption
<1>6. granted' \in Grant \cup {None}
    BY <1>2, <1>3, <1>4 DEF Grant, Live
<1>7. RequestTypes' /\ WaitingSound' /\ PublishedSound' /\ DispatchSound'
    BY <1>2, <1>3, <1>5, <1>6
    DEF RequestTypes, WaitingSound, PublishedSound, DispatchSound
<1>8. LedgerSound'
    <2>1. ASSUME NEW q \in RequestId
          PROVE  /\ requests'[q] = IF q = r THEN Record("completed", d.call, d.outcome)
                                   ELSE requests[q]
                 /\ answers'[q] = IF q = r THEN {d.outcome} ELSE answers[q]
        BY <1>3, <1>4 DEF RequestTypes
    <2>2. \A q \in RequestId \ {r} : ~Busy(q)
        BY <1>1 DEF Busy
    <2>3. d.call.method = "subscribe" /\ d.outcome.ok => d.outcome.value \in Subscriptions
        BY <1>4 DEF Live
    <2>4. ASSUME NEW q \in RequestId, q # r
          PROVE  /\ Recorded(q)' = Recorded(q) /\ Pending(q)' = Pending(q)
                 /\ requests'[q] = requests[q] /\ answers'[q] = answers[q]
                 /\ Pending(q) => q \in interrupted
        BY <2>1, <2>2, <2>4 DEF LedgerSound, Recorded, Pending
    <2>5. /\ Recorded(r)' /\ ~Pending(r)' /\ requests'[r] # None
          /\ requests'[r].outcome = d.outcome /\ requests'[r].call = d.call
          /\ answers'[r] = {d.outcome}
        BY <1>2, <1>5, <2>1 DEF Record, Recorded, Pending
    <2> QED
        BY <1>2, <1>3, <1>4, <2>3, <2>4, <2>5 DEF LedgerSound
<1>9. SubscriptionsLive'
    <2>1. granted' # None => granted'.subscription \in {s \in Subscriptions :
                                windows[granted'.window].entries[s] # None}
        BY <1>3, <1>4 DEF Live
    <2> QED
        BY <1>3, <2>1 DEF SubscriptionsLive, Live
<1> QED
    BY <1>7, <1>8, <1>9

\* An operation goes on and is published in order.
LEMMA ProgressKeeps ==
    ASSUME RequestInv, NEW o \in RequestId, Progress(o)
    PROVE  RequestInv'
<1> USE DEF RequestInv
<1>1. /\ Idle /\ operations[o] # None /\ granted' = None
      /\ UNCHANGED <<requests, revision, windows, waiting, dispatching, answers, effects,
                     interrupted, kills>>
    BY DEF Progress
<1>2. PICK live \in BOOLEAN : operations' = Advanced(o, live)
    BY DEF Progress
<1>3. /\ operations[o] \in OperationState /\ operations[o].sequence \in Nat
    BY <1>1 DEF RequestTypes, OperationState
<1>4. /\ operations' \in [RequestId -> OperationState \cup {None}]
      /\ operations'[o] # None /\ operations'[o].sequence = operations[o].sequence + 1
      /\ \A q \in RequestId \ {o} : operations'[q] = operations[q]
    <2> DEFINE now == [live |-> live, sequence |-> operations[o].sequence + 1]
    <2>1. now \in OperationState /\ now.sequence = operations[o].sequence + 1
        BY <1>3 DEF OperationState
    <2>2. operations' = [operations EXCEPT ![o] = now]
        BY <1>2 DEF Advanced
    <2> HIDE DEF now
    <2> QED
        BY <2>1, <2>2, AbsentAssumption DEF RequestTypes
<1>5. RequestTypes' /\ WaitingSound' /\ DispatchSound'
    BY <1>1, <1>4 DEF RequestTypes, WaitingSound, DispatchSound, Idle
<1>6. LedgerSound'
    BY <1>1, <1>4 DEF LedgerSound, Recorded, Pending, Busy
<1>7. PublishedSound'
    <2>1. ASSUME NEW w \in Window, windows[w].published[o] > 0
          PROVE  windows[w].published[o] <= operations'[o].sequence
        <3>1. windows[w].published[o] \in Nat /\ windows[w].published[o] <= operations[o].sequence
            BY <2>1 DEF PublishedSound, RequestTypes, Session
        <3> QED
            BY <1>3, <1>4, <3>1
    <2> QED
        BY <1>1, <1>4, <2>1 DEF PublishedSound
<1>8. SubscriptionsLive'
    BY <1>1, EntriesRest
<1> QED
    BY <1>5, <1>6, <1>7, <1>8

\* A window opens or closes: nothing of an earlier session stays.
LEMMA WindowKeeps ==
    ASSUME RequestInv, NEW w \in Window, OpenWindow(w) \/ CloseWindow(w)
    PROVE  RequestInv'
<1> USE DEF RequestInv
<1>1. /\ Idle /\ granted' = None
      /\ \E x \in {Opened, Closed} : windows' = [windows EXCEPT ![w] = x]
      /\ UNCHANGED <<requests, operations, revision, waiting, dispatching, answers,
                     effects, interrupted, kills>>
    BY DEF OpenWindow, CloseWindow
<1>2. PICK x \in {Opened, Closed} : windows' = [windows EXCEPT ![w] = x]
    BY <1>1
<1>3. /\ windows' \in [Window -> Session] /\ x \in Session
      /\ \A v \in Window : windows'[v] \in {windows[v], Opened, Closed}
    BY <1>2, SessionMembers DEF RequestTypes
<1>4. RequestTypes' /\ WaitingSound' /\ DispatchSound' /\ LedgerSound'
    BY <1>1, <1>3
    DEF RequestTypes, WaitingSound, DispatchSound, LedgerSound, Recorded, Pending, Busy, Idle
<1>5. PublishedSound'
    <2>1. \A o \in RequestId : ~(Opened.published[o] > 0) /\ ~(Closed.published[o] > 0)
        BY DEF Opened, Closed
    <2> QED
        BY <1>1, <1>3, <2>1 DEF PublishedSound
<1>6. SubscriptionsLive'
    BY <1>1, <1>3, WindowsRest
<1> QED
    BY <1>4, <1>5, <1>6

\* Some operation commits: only the revision moves.
LEMMA CommitKeeps ==
    ASSUME RequestInv, Commit
    PROVE  RequestInv'
<1> USE DEF RequestInv
<1>1. /\ Idle /\ granted' = None
      /\ UNCHANGED <<requests, operations, windows, waiting, dispatching, answers,
                     effects, interrupted, kills>>
    BY DEF Commit
<1>2. /\ RequestTypes' /\ WaitingSound' /\ DispatchSound' /\ LedgerSound' /\ PublishedSound'
    BY <1>1 DEF RequestTypes, WaitingSound, DispatchSound, LedgerSound, PublishedSound,
                Recorded, Pending, Busy, Idle
<1>3. SubscriptionsLive'
    BY <1>1, EntriesRest
<1> QED
    BY <1>2, <1>3

\* A kill loses the dispatch under way, windows and waiting calls.
LEMMA KillAndRestartKeeps ==
    ASSUME RequestInv, KillAndRestart
    PROVE  RequestInv'
<1> USE DEF RequestInv
<1>1. /\ interrupted' = IF Idle THEN interrupted ELSE interrupted \cup {dispatching.request}
      /\ windows' = [w \in Window |-> Closed]
      /\ waiting' = {} /\ dispatching' = None /\ granted' = None
      /\ UNCHANGED <<operations, revision, answers, effects>>
    BY DEF KillAndRestart
<1>2. PICK settled \in SUBSET Settleable :
          \E outcome \in [settled -> {Failed} \cup {Done(r) : r \in settled}] :
             requests' = [r \in RequestId |->
                            IF r \in settled
                            THEN Record("completed", requests[r].call, outcome[r])
                            ELSE requests[r]]
    BY DEF KillAndRestart
<1> PICK outcome \in [settled -> {Failed} \cup {Done(r) : r \in settled}] :
             requests' = [r \in RequestId |->
                            IF r \in settled
                            THEN Record("completed", requests[r].call, outcome[r])
                            ELSE requests[r]]
    BY <1>2
<1>3. ASSUME NEW r \in settled
      PROVE  /\ r \in RequestId /\ Pending(r) /\ ~Recorded(r) /\ requests[r] \in RequestRecord
             /\ requests[r].call \in Calls /\ requests[r].call.method # "subscribe"
             /\ requests'[r] = Record("completed", requests[r].call, outcome[r])
             /\ requests'[r] \in RequestRecord /\ requests'[r] # None /\ outcome[r] # None
    <2>1. /\ r \in RequestId /\ requests[r] # None /\ requests[r].state = "in-progress"
          /\ requests[r].call.method # "subscribe"
        BY DEF Settleable
    <2>2. requests[r] \in RequestRecord
        BY <2>1 DEF RequestTypes
    <2>3. outcome[r] \in Outcome
        <3>1. outcome[r] = Failed \/ \E q \in settled : outcome[r] = Done(q)
            OBVIOUS
        <3>2. settled \subseteq RequestId
            BY DEF Settleable
        <3>3. Failed \in Outcome /\ \A q \in RequestId : Done(q) \in Outcome
            BY DEF Failed, Done, Outcome
        <3> QED
            BY <3>1, <3>2, <3>3
    <2>4. Record("completed", requests[r].call, outcome[r]) \in RequestRecord
        BY <2>2, <2>3 DEF Record, RequestRecord
    <2> QED
        BY <2>1, <2>2, <2>3, <2>4, AbsentAssumption DEF Pending, Recorded, RequestRecord
<1>4. \A r \in RequestId \ settled : requests'[r] = requests[r]
    OBVIOUS
<1>5. dispatching # None => dispatching.request \in RequestId
    BY DEF RequestTypes, Dispatched
<1>6. RequestTypes'
    <2>1. requests' \in [RequestId -> RequestRecord \cup {None}]
        BY <1>3 DEF RequestTypes
    <2> QED
        BY <1>1, <1>5, <2>1, SessionMembers DEF RequestTypes, Idle
<1>7. LedgerSound'
    <2>1. ASSUME NEW r \in RequestId \ settled
          PROVE  /\ Recorded(r)' = Recorded(r) /\ Pending(r)' = Pending(r)
                 /\ requests'[r] = requests[r]
                 /\ Pending(r) => r \in interrupted'
        BY <1>1, <1>4 DEF LedgerSound, Recorded, Pending, Busy, Idle
    <2>2. ASSUME NEW r \in settled
          PROVE  /\ Recorded(r)' /\ ~Pending(r)' /\ requests'[r] # None
                 /\ requests'[r].outcome # None /\ requests'[r].call.method # "subscribe"
                 /\ answers[r] = {} /\ r \in interrupted' /\ r \in RequestId
                 /\ requests[r] # None
        <3>1. /\ r \in RequestId /\ ~Recorded(r) /\ Pending(r) /\ requests[r] # None
              /\ requests'[r] = Record("completed", requests[r].call, outcome[r])
              /\ requests[r].call.method # "subscribe" /\ requests'[r] # None /\ outcome[r] # None
            BY <1>3 DEF Pending
        <3>2. answers[r] = {} /\ r \in interrupted'
            BY <1>1, <3>1 DEF LedgerSound, Busy, Idle
        <3> QED
            BY <3>1, <3>2 DEF Recorded, Pending, Record
    <2>3. ASSUME NEW r \in RequestId \ settled
          PROVE  /\ Recorded(r)' =>
                     /\ effects'[r] > 0 \/ r \in interrupted'
                     /\ requests'[r].outcome # None
                     /\ answers'[r] \subseteq {requests'[r].outcome}
                     /\ requests'[r].call.method = "subscribe" /\ requests'[r].outcome.ok =>
                           requests'[r].outcome.value \in Subscriptions
                 /\ ~Recorded(r)' => answers'[r] = {}
        BY <1>1, <2>1 DEF LedgerSound
    <2> QED
        BY <1>1, <2>1, <2>2, <2>3 DEF LedgerSound
<1>8. PublishedSound'
    <2>1. \A o \in RequestId : ~(Closed.published[o] > 0)
        BY DEF Closed
    <2> QED
        BY <1>1, <2>1 DEF PublishedSound
<1>9. WaitingSound' /\ DispatchSound'
    BY <1>1 DEF WaitingSound, DispatchSound
<1>10. SubscriptionsLive'
    BY <1>1, WindowsRest
<1> QED
    BY <1>6, <1>7, <1>8, <1>9, <1>10

\* The inductive invariant of the requests' way through the main process.
THEOREM RequestInvariant == RequestSpec => []RequestInv
<1>1. RequestInit => RequestInv
    <2> SUFFICES ASSUME RequestInit PROVE RequestInv
        OBVIOUS
    <2> USE DEF RequestInit
    <2>1. RequestTypes /\ WaitingSound /\ DispatchSound /\ LedgerSound
        BY SessionMembers
        DEF RequestTypes, WaitingSound, DispatchSound, LedgerSound, Recorded, Pending
    <2>2. PublishedSound
        <3>1. \A o \in RequestId : ~(Closed.published[o] > 0)
            BY DEF Closed
        <3> QED
            BY <3>1 DEF PublishedSound
    <2>3. SubscriptionsLive
        <3>1. \A w \in Window : Live(w) = {}
            BY DEF Live, Closed
        <3> QED
            BY <3>1, FS_EmptySet, QuotaAssumption DEF SubscriptionsLive
    <2> QED
        BY <2>1, <2>2, <2>3 DEF RequestInv
<1>2. RequestInv /\ [RequestNext]_requestVars => RequestInv'
    <2> SUFFICES ASSUME RequestInv, [RequestNext]_requestVars PROVE RequestInv'
        OBVIOUS
    <2>1. ASSUME NEW w \in Window, NEW r \in RequestId, NEW call \in CallOf[r],
                 Arrive(w, r, call)
          PROVE  RequestInv'
        BY <2>1, ArriveKeeps
    <2>2. ASSUME NEW p \in waiting, HookReturns(p)
          PROVE  RequestInv'
        BY <2>2, HookReturnsKeeps
    <2>3. CASE CreateOperation
        BY <2>3, CreateOperationKeeps
    <2>4. CASE CancelOperation
        BY <2>4, CancelOperationKeeps
    <2>5. CASE Subscribe
        BY <2>5, SubscribeKeeps
    <2>6. CASE Unsubscribe
        BY <2>6, UnsubscribeKeeps
    <2>7. CASE OpenWebUI
        BY <2>7, OpenWebUIKeeps
    <2>8. CASE PortFails
        BY <2>8, PortFailsKeeps
    <2>9. CASE Complete
        BY <2>9, CompleteKeeps
    <2>10. ASSUME NEW o \in RequestId, Progress(o)
           PROVE  RequestInv'
        BY <2>10, ProgressKeeps
    <2>11. ASSUME NEW w \in Window, OpenWindow(w) \/ CloseWindow(w)
           PROVE  RequestInv'
        BY <2>11, WindowKeeps
    <2>12. CASE Commit
        BY <2>12, CommitKeeps
    <2>13. CASE KillAndRestart
        BY <2>13, KillAndRestartKeeps
    <2>14. CASE UNCHANGED requestVars
        <3>1. UNCHANGED <<requests, operations, windows, waiting, dispatching, answers,
                          effects, interrupted, granted>>
            BY <2>14 DEF requestVars
        <3>2. RequestTypes' /\ WaitingSound' /\ PublishedSound'
            BY <3>1 DEF RequestInv, RequestTypes, WaitingSound, PublishedSound
        <3>3. LedgerSound' /\ DispatchSound'
            BY <3>1 DEF RequestInv, LedgerSound, DispatchSound, Recorded, Pending, Busy, Live
        <3>4. SubscriptionsLive'
            BY <3>1 DEF RequestInv, SubscriptionsLive, Live
        <3> QED
            BY <3>2, <3>3, <3>4 DEF RequestInv
    <2> QED
        BY <2>1, <2>2, <2>3, <2>4, <2>5, <2>6, <2>7, <2>8, <2>9, <2>10, <2>11, <2>12, <2>13,
           <2>14 DEF RequestNext
<1> QED
    BY <1>1, <1>2, PTL DEF RequestSpec

\* Only a kill, or a service that throws, leaves a request refused for ever.
THEOREM BusyIsInterrupted == RequestSpec => []OnlyInterruptedStayBusy
<1>1. RequestInv => OnlyInterruptedStayBusy
    BY DEF RequestInv, LedgerSound, OnlyInterruptedStayBusy, Pending, Busy, Idle
<1> QED
    BY <1>1, RequestInvariant, PTL

\* However often a request is presented, it takes effect once and is answered
\* with one outcome.
THEOREM EffectIsOnce == RequestSpec => []TakesEffectOnce
<1>1. RequestInv => TakesEffectOnce
    <2> SUFFICES ASSUME RequestInv PROVE TakesEffectOnce
        OBVIOUS
    <2>1. ASSUME NEW r \in RequestId
          PROVE  Cardinality(answers[r]) <= 1
        <3>1. CASE Recorded(r)
            <4>1. PICK o : answers[r] \subseteq {o}
                BY <3>1 DEF RequestInv, LedgerSound
            <4>2. answers[r] = {} \/ answers[r] = {o}
                BY <4>1
            <4>3. Cardinality({}) = 0 /\ Cardinality({o}) = 1
                BY FS_EmptySet, FS_Singleton
            <4> QED
                BY <4>2, <4>3
        <3>2. CASE ~Recorded(r)
            <4>1. answers[r] = {}
                BY <3>2 DEF RequestInv, LedgerSound
            <4>2. Cardinality({}) = 0
                BY FS_EmptySet
            <4> QED
                BY <4>1, <4>2
        <3> QED
            BY <3>1, <3>2
    <2>2. ASSUME NEW r \in RequestId, Recorded(r)
          PROVE  /\ effects[r] > 0 \/ (r \in interrupted /\ operations[r] = None)
                 /\ ~(dispatching # None /\ dispatching.request = r)
        BY <2>2 DEF RequestInv, LedgerSound, DispatchSound
    <2> QED
        BY <2>1, <2>2 DEF RequestInv, LedgerSound, TakesEffectOnce, NeverPreviews, Recorded
<1> QED
    BY <1>1, RequestInvariant, PTL

\* A granted subscription exists, and no window has more than its quota.
THEOREM GrantedIsLive == RequestSpec => []SubscriptionsLive
<1>1. RequestInv => SubscriptionsLive
    BY DEF RequestInv
<1> QED
    BY <1>1, RequestInvariant, PTL

-----------------------------------------------------------------------------
(* The renderer controller.                                                    *)

\* The controller alone; the order in which anything is served is not assumed.
RendererSpec == RendererInit /\ [][RendererNext]_rendererVars

RendererTypes ==
    /\ selected \in Environment
    /\ intent \in Operations \cup {None}
    /\ tracked \in Snapshots \cup {None}
    /\ pendingOperation \in Operations \cup {None}
    /\ epoch \in Nat /\ dialog \in Nat
    /\ pollTimer \in Nat \cup {None}
    /\ held \subseteq [operation : Operations, id : Nat]
    /\ shown \in [Views -> Places]
    /\ calls \subseteq CallRecord
    /\ events \subseteq [id : Nat, subject : Snapshots]
    /\ served \in [Operations -> Snapshots \cup {None}]
    /\ subscribed \subseteq [id : Nat, operation : Operations]

Known(o) == o \in Operations /\ served[o] # None

\* A state the operation was in: the statuses before the last are "running".
Past(t) ==
    /\ Known(t.operation)
    /\ LET now == served[t.operation] IN
       /\ t.kind = now.kind /\ t.environment = now.environment
       /\ t.sequence \in Nat /\ t.sequence <= now.sequence
       /\ t.status = IF t.sequence < now.sequence THEN "running" ELSE now.status

IsCommand(c) == KindOf(c.then) \in Kinds
Opening(c) == c.then = "snapshot" \/ (c.then = "release" /\ c.next = "snapshot")
Completing(c) == c.then = "release" /\ c.next = "complete"
Reading(c) == c.then \in {"snapshot", "poll", "cancel"}

ServedSound ==
    \A o \in Operations : served[o] # None =>
       /\ served[o].operation = o /\ served[o].kind \in Kinds
       /\ served[o].sequence \in Nat /\ served[o].status \in Statuses

\* What a call in flight is about.
Grounded(c) ==
    /\ Reading(c) \/ Opening(c) => Known(c.subject.operation)
    /\ c.then \in {"subscribe", "list"} \/ Completing(c) => Past(c.subject)
    /\ c.then = "list" /\ c.restart => c.subject.kind = "stop" /\ c.subject.status = "succeeded"
    /\ c.reply # None /\ c.reply.ok =>
          /\ Reading(c) => Past(c.reply.subject)
          /\ IsCommand(c) => Known(c.reply.subject.operation)
          /\ c.then = "subscribe" => c.reply.id \in Nat

KnowledgeSound ==
    /\ \A c \in calls : Grounded(c)
    /\ tracked # None => Past(tracked)
    /\ pendingOperation # None => Known(pendingOperation)
    /\ intent # None => Known(intent)
    /\ \A v \in events : Past(v.subject)
    /\ \A r \in restarts : Past(r.stop) /\ r.stop.kind = "stop" /\ r.stop.status = "succeeded"

\* The track of an epoch: nothing is tracked before its one snapshot arrives.
TrackSound ==
    /\ \A c \in calls : Opening(c) \/ c.then = "subscribe" => c.epoch <= epoch
    /\ \A c \in calls : c.epoch = epoch =>
          /\ Opening(c) => tracked = None
          /\ c.then = "subscribe" => tracked # None
    /\ \A c, d \in calls : Opening(c) /\ Opening(d) /\ c.epoch = epoch /\ d.epoch = epoch => c = d

\* Who may still start an environment because of the stop o.
Claims(c, o) ==
    \/ IsCommand(c) /\ c.reply # None /\ c.reply.ok /\ c.reply.subject.operation = o
    \/ c.then = "list" /\ c.restart /\ c.subject.operation = o

ClaimsSound ==
    /\ \A o \in Operations : \A c, d \in calls : Claims(c, o) /\ Claims(d, o) => c = d
    /\ \A o \in Operations : \A c \in calls : Claims(c, o) =>
          intent # o /\ \A r \in restarts : r.stop.operation # o
    /\ \A r \in restarts : intent # r.stop.operation
    /\ \A r, q \in restarts : r.stop.operation = q.stop.operation => r = q

RendererInv ==
    /\ RendererTypes /\ ServedSound /\ KnowledgeSound /\ TrackSound /\ ClaimsSound
    /\ ResultsBelongToSelection
-----------------------------------------------------------------------------
\* A set of numbers that is not empty has a least one.
LEMMA LeastNumber ==
    ASSUME NEW S \in SUBSET Nat, S # {}
    PROVE  \E i \in S : \A j \in S : i <= j
<1>1. PICK i \in S : \A j \in S : ~(<<j, i>> \in OpToRel(<, Nat))
    BY NatLessThanWellFounded, WFMin
<1>2. \A j \in S : j \in Nat /\ i \in Nat
    OBVIOUS
<1>3. \A j \in S : j < i => <<j, i>> \in OpToRel(<, Nat)
    BY <1>2 DEF OpToRel
<1>4. \A j \in S : ~(j < i)
    BY <1>1, <1>3
<1> QED
    BY <1>2, <1>4

\* The calls the controller makes, as records.
Made(c, then, subject, e, next, restart) ==
    /\ c \in CallRecord /\ c.then = then /\ c.subject = subject
    /\ c.epoch = e /\ c.next = next /\ c.restart = restart /\ c.reply = None

\* What a new call is about.
LEMMA CallsMade ==
    ASSUME NEW then \in Thens, NEW subject \in Snapshots, NEW environment \in Places,
           NEW e \in Nat, NEW c, c = InFlight(then, subject, environment, e)
    PROVE  Made(c, then, subject, e, None, FALSE)
    BY DEF InFlight, CallRecord, Made

\* The ids of subscriptions, at least one.
Ids(ids) == ids \subseteq Nat /\ ids # {}

\* What a release of subscriptions is about.
LEMMA ReleasesMade ==
    ASSUME NEW next \in Nexts \cup {None}, NEW subject \in Snapshots, NEW ids, Ids(ids),
           NEW e \in Nat, NEW c, c = Release(next, subject, ids, e)
    PROVE  Made(c, "release", subject, e, next, FALSE)
<1> USE DEF Ids
<1>1. None \in Places /\ "release" \in Thens
    BY DEF Places, Thens
<1>2. PICK c0 : c0 = InFlight("release", subject, None, e)
    OBVIOUS
<1>3. /\ c0 \in CallRecord /\ c0.then = "release" /\ c0.subject = subject
      /\ c0.epoch = e /\ c0.restart = FALSE /\ c0.reply = None
    <2>1. InFlight("release", subject, None, e) \in CallRecord
        BY <1>1, <1>2, CallsMade DEF Made
    <2> QED
        BY <1>2, <2>1 DEF InFlight
<1> DEFINE least == CHOOSE k \in ids : \A j \in ids : k <= j
<1>4. least \in Nat
    BY LeastNumber
<1>5. Release(next, subject, ids, e) =
        [c0 EXCEPT !.id = least, !.rest = ids \ {least}, !.next = next]
    BY <1>2 DEF Release
<1> DEFINE rest == ids \ {least}
           c1 == [c0 EXCEPT !.id = least]
           c2 == [c1 EXCEPT !.rest = rest]
           c3 == [c2 EXCEPT !.next = next]
<1>6. rest \in SUBSET Nat /\ Release(next, subject, ids, e) = c3
    BY <1>5
<1> HIDE DEF least, rest
<1>7. /\ c1 \in CallRecord /\ c1.then = c0.then /\ c1.subject = c0.subject
      /\ c1.epoch = c0.epoch /\ c1.restart = c0.restart /\ c1.reply = c0.reply
    BY <1>3, <1>4 DEF CallRecord
<1> HIDE DEF c1
<1>8. /\ c2 \in CallRecord /\ c2.then = c1.then /\ c2.subject = c1.subject
      /\ c2.epoch = c1.epoch /\ c2.restart = c1.restart /\ c2.reply = c1.reply
    BY <1>6, <1>7 DEF CallRecord
<1> HIDE DEF c2
<1>9. /\ c3 \in CallRecord /\ c3.then = c2.then /\ c3.subject = c2.subject /\ c3.next = next
      /\ c3.epoch = c2.epoch /\ c3.restart = c2.restart /\ c3.reply = c2.reply
    BY <1>8 DEF CallRecord
<1> HIDE DEF c3
<1> QED
    BY <1>3, <1>6, <1>7, <1>8, <1>9 DEF Made

\* What the reading of the environments behind an operation is about.
LEMMA RefreshesMade ==
    ASSUME NEW t \in Snapshots, NEW restart \in BOOLEAN, NEW e \in Nat,
           NEW c, c = Refresh(t, restart, e)
    PROVE  Made(c, "list", t, e, None, restart)
<1>1. None \in Places /\ "list" \in Thens
    BY DEF Places, Thens
<1>2. PICK c0 : c0 = InFlight("list", t, None, e)
    OBVIOUS
<1>3. Made(c0, "list", t, e, None, FALSE)
    BY <1>1, <1>2, CallsMade
<1>4. c = [c0 EXCEPT !.restart = restart]
    BY <1>2 DEF Refresh
<1> QED
    BY <1>3, <1>4 DEF Made, CallRecord

\* An operation that is only named.
LEMMA NamedIsSnapshot ==
    ASSUME NEW o \in Operations \cup {None}
    PROVE  Named(o) \in Snapshots /\ Named(o).operation = o
    BY DEF Named, Snapshot, Snapshots, Places

\* A call that is answered.
AnswerOf(d, c, ok, subject, id) ==
    /\ d \in CallRecord /\ d.then = c.then /\ d.subject = c.subject
    /\ d.epoch = c.epoch /\ d.next = c.next /\ d.restart = c.restart
    /\ d.reply # None /\ d.reply.ok = ok /\ d.reply.subject = subject /\ d.reply.id = id

\* An answer changes nothing else of its call.
LEMMA AnswersMade ==
    ASSUME NEW c \in CallRecord, NEW ok \in BOOLEAN, NEW subject \in Snapshots,
           NEW id \in Nat \cup {None},
           NEW d, d = [c EXCEPT !.reply = [ok |-> ok, subject |-> subject, id |-> id]]
    PROVE  AnswerOf(d, c, ok, subject, id)
<1>1. PICK r : r = [ok |-> ok, subject |-> subject, id |-> id]
    OBVIOUS
<1>2. /\ r \in Replies /\ r.subject = subject /\ r.id = id
    BY <1>1 DEF Replies
<1>3. r.ok = ok
    BY <1>1
<1>4. r # None
    BY <1>2, RendererAssumption
<1>5. d = [c EXCEPT !.reply = r]
    BY <1>1
<1>6. /\ d \in CallRecord /\ d.then = c.then /\ d.subject = c.subject
      /\ d.epoch = c.epoch /\ d.next = c.next /\ d.reply = r
    BY <1>2, <1>5 DEF CallRecord
<1>7. d.restart = c.restart
    BY <1>5, Zenon DEF CallRecord
<1> QED
    BY <1>2, <1>3, <1>4, <1>6, <1>7 DEF AnswerOf

-----------------------------------------------------------------------------
\* What is known of the operations stays true while they move on.
LEMMA KnowledgeStep ==
    ASSUME RendererInv, ServedSound',
           \A t : Past(t) => Past(t)', \A o : Known(o) => Known(o)',
           \A c \in calls' : c \in calls \/ Grounded(c)',
           tracked' # None => tracked' = tracked \/ Past(tracked)',
           pendingOperation' # None =>
              pendingOperation' = pendingOperation \/ Known(pendingOperation)',
           intent' # None => intent' = intent \/ Known(intent)',
           \A v \in events' : v \in events \/ Past(v.subject)',
           \A r \in restarts' : r \in restarts \/
              (Past(r.stop)' /\ r.stop.kind = "stop" /\ r.stop.status = "succeeded")
    PROVE  KnowledgeSound'
<1>1. ASSUME NEW c, Grounded(c)
      PROVE  Grounded(c)'
    BY <1>1 DEF Grounded
<1> QED
    BY <1>1 DEF RendererInv, KnowledgeSound

\* The same when no operation moves.
LEMMA ServedRests ==
    ASSUME RendererInv, served' = served
    PROVE  /\ ServedSound'
           /\ \A t : Past(t) <=> Past(t)'
           /\ \A o : Known(o) <=> Known(o)'
           /\ \A c : Grounded(c) <=> Grounded(c)'
    BY DEF RendererInv, ServedSound, Past, Known, Grounded

\* A step within a track that opens none.
LEMMA TrackStep ==
    ASSUME RendererInv, epoch' = epoch, tracked' = None <=> tracked = None,
           \A c \in calls' : c \in calls \/ (~Opening(c) /\ c.then # "subscribe")
    PROVE  TrackSound'
    BY DEF RendererInv, TrackSound, Opening

\* A step after which nobody more may start an environment.
LEMMA ClaimsStep ==
    ASSUME RendererInv, restarts' = restarts, intent' \in {intent, None},
           \A c \in calls' : c \in calls \/ \A o : ~Claims(c, o)
    PROVE  ClaimsSound'
<1>1. ASSUME NEW o \in Operations, NEW c \in calls', Claims(c, o)
      PROVE  c \in calls
    BY <1>1
<1>2. ASSUME NEW r \in restarts
      PROVE  r.stop.operation # None
    BY RendererAssumption DEF RendererInv, KnowledgeSound, Past, Known
<1>3. \A o \in Operations : o # None
    BY RendererAssumption
<1>4. ASSUME NEW o \in Operations, NEW c \in calls', Claims(c, o)'
      PROVE  Claims(c, o)
    BY <1>4 DEF Claims, IsCommand
<1> QED
    BY <1>1, <1>2, <1>3, <1>4 DEF RendererInv, ClaimsSound

\* A step that only sends calls about which nothing need be known.
Quiet(c) ==
    /\ c.reply = None /\ ~Opening(c) /\ ~Completing(c) /\ c.then \notin {"subscribe", "list"}
    /\ Reading(c) => Known(c.subject.operation)

\* A step that only sends quiet calls keeps the invariant.
LEMMA QuietStep ==
    ASSUME RendererInv, UNCHANGED <<tracked, pendingOperation, epoch, served, restarts>>,
           events' \subseteq events, intent' \in {intent, None},
           \A c \in calls' : c \in calls \/ Quiet(c),
           RendererTypes', ResultsBelongToSelection'
    PROVE  RendererInv'
<1>1. \A c : Quiet(c) => /\ Grounded(c) /\ ~Opening(c) /\ c.then # "subscribe"
                         /\ \A o : ~Claims(c, o)
    BY DEF Quiet, Grounded, Claims, Completing
<1>2. ServedSound'
    BY ServedRests
<1>3. KnowledgeSound'
    BY <1>1, <1>2, ServedRests, KnowledgeStep
<1>4. TrackSound'
    BY <1>1, TrackStep
<1>5. ClaimsSound'
    BY <1>1, ClaimsStep
<1> QED
    BY <1>2, <1>3, <1>4, <1>5 DEF RendererInv

\* A command is sent.
LEMMA SendsKeeps ==
    ASSUME RendererInv, NEW kind \in Kinds \cup Direct, NEW environment \in Places,
           Sends(kind, environment), intent' \in {intent, None}
    PROVE  RendererInv'
<1>1. PICK c : c = InFlight(kind, Named(None), environment, dialog)
    OBVIOUS
<1>2. /\ c \in CallRecord /\ Quiet(c)
    <2>1. Named(None) \in Snapshots /\ kind \in Thens /\ dialog \in Nat
        BY NamedIsSnapshot DEF Thens, RendererInv, RendererTypes
    <2>2. Made(c, kind, Named(None), dialog, None, FALSE)
        BY <1>1, <2>1, CallsMade
    <2> QED
        BY <2>2 DEF Made, Quiet, Opening, Completing, Reading, Kinds, Global, Direct
<1>3. /\ calls' = calls \cup {c} /\ shown' = Cleared(kind)
      /\ UNCHANGED <<tracking, main, selected, held, disposed, dialog, createError, restarts>>
    BY <1>1 DEF Sends, Commanded
<1>4. shown' \in [Views -> Places] /\ \A v \in Views : shown'[v] \in {shown[v], None}
    BY <1>3 DEF Cleared, RendererInv, RendererTypes, Places
<1>5. RendererTypes'
    BY <1>2, <1>3, <1>4 DEF RendererInv, RendererTypes, tracking, main
<1>6. ResultsBelongToSelection'
    BY <1>3, <1>4 DEF RendererInv, ResultsBelongToSelection, Views
<1> QED
    BY <1>2, <1>3, <1>5, <1>6, QuietStep DEF tracking, main

\* A command of the user that changes neither the track nor what is in flight,
\* except for one call more about an operation that is known.
LEMMA UserStep ==
    ASSUME RendererInv, UNCHANGED <<tracking, main, held, restarts>>,
           calls' = calls \/ \E c \in CallRecord : Quiet(c) /\ calls' = calls \cup {c},
           intent' \in {intent, None}, selected' \in Environment, dialog' \in Nat,
           shown' \in [Views -> Places], ResultsBelongToSelection'
    PROVE  RendererInv'
<1>1. RendererTypes'
    BY DEF RendererInv, RendererTypes, tracking, main
<1> QED
    BY <1>1, QuietStep DEF tracking, main

\* A restart sends its stop, or its start.
LEMMA RestartSelectedKeeps ==
    ASSUME RendererInv, RestartSelected
    PROVE  RendererInv'
<1>1. PICK then \in {"stop to restart", "start"} : Commanded(then, selected)
    BY DEF RestartSelected
<1>2. PICK c : c = InFlight(then, Named(None), selected, dialog)
    OBVIOUS
<1>3. c \in CallRecord /\ Quiet(c)
    <2>1. Named(None) \in Snapshots /\ then \in Thens /\ dialog \in Nat /\ selected \in Places
        BY NamedIsSnapshot DEF Thens, Kinds, Places, RendererInv, RendererTypes
    <2>2. Made(c, then, Named(None), dialog, None, FALSE)
        BY <1>2, <2>1, CallsMade
    <2> QED
        BY <2>2 DEF Made, Quiet, Opening, Completing, Reading
<1>4. /\ calls' = calls \cup {c} /\ intent' = None
      /\ UNCHANGED <<tracking, main, selected, held, disposed, shown, dialog,
                     createError, restarts>>
    BY <1>1, <1>2 DEF RestartSelected, Commanded
<1>5. ResultsBelongToSelection' /\ selected' \in Environment /\ dialog' \in Nat
      /\ shown' \in [Views -> Places]
    BY <1>4 DEF RendererInv, RendererTypes, ResultsBelongToSelection
<1> QED
    BY <1>3, <1>4, <1>5, UserStep

\* The dialog in which an environment is created moves on.
LEMMA DialogKeeps ==
    ASSUME RendererInv, Create \/ ClearCreateError
    PROVE  RendererInv'
<1>1. /\ dialog' = dialog + 1 /\ createError' = None
      /\ UNCHANGED <<tracking, main, selected, intent, held, disposed, shown, restarts>>
    BY DEF Create, ClearCreateError
<1>2. calls' = calls \/ calls' = calls \cup {InFlight("create", Named(None), None, dialog + 1)}
    BY DEF Create, ClearCreateError
<1>3. dialog \in Nat /\ dialog + 1 \in Nat
    BY DEF RendererInv, RendererTypes
<1>4. PICK c : c = InFlight("create", Named(None), None, dialog + 1)
    OBVIOUS
<1>5. c \in CallRecord /\ Quiet(c)
    <2>1. Named(None) \in Snapshots /\ "create" \in Thens /\ None \in Places
        BY NamedIsSnapshot DEF Thens, Kinds, Places
    <2>2. PICK e : e = dialog + 1
        OBVIOUS
    <2>3. Made(c, "create", Named(None), e, None, FALSE)
        BY <1>3, <1>4, <2>1, <2>2, CallsMade
    <2> QED
        BY <2>3 DEF Made, Quiet, Opening, Completing, Reading
<1>6. ResultsBelongToSelection' /\ selected' \in Environment /\ dialog' \in Nat
      /\ shown' \in [Views -> Places]
    BY <1>1, <1>3 DEF RendererInv, RendererTypes, ResultsBelongToSelection
<1> QED
    BY <1>1, <1>2, <1>4, <1>5, <1>6, UserStep

\* Another environment is selected: what was shown of the old one goes.
LEMMA SelectKeeps ==
    ASSUME RendererInv, NEW n \in Environment, SelectEnvironment(n)
    PROVE  RendererInv'
<1>1. /\ selected' = n /\ intent' = None
      /\ shown' = [v \in Views |-> IF v \in {"webUI", "export", "installed", "composition",
                                             "patch", "warning"}
                                   THEN None ELSE shown[v]]
      /\ UNCHANGED <<tracking, main, held, disposed, dialog, createError, calls, restarts>>
    BY DEF SelectEnvironment
<1>2. /\ shown' \in [Views -> Places] /\ shown'["composition"] = None /\ shown'["patch"] = None
    BY <1>1 DEF RendererInv, RendererTypes, Places, Views
<1>3. ResultsBelongToSelection' /\ dialog' \in Nat
    BY <1>1, <1>2 DEF RendererInv, RendererTypes, ResultsBelongToSelection
<1> QED
    BY <1>1, <1>2, <1>3, UserStep

\* A source is chosen: the plan goes.
LEMMA ChooseSourceKeeps ==
    ASSUME RendererInv, ChooseSource
    PROVE  RendererInv'
<1>1. /\ shown' = [shown EXCEPT !["plan"] = None]
      /\ UNCHANGED <<tracking, main, selected, intent, held, disposed, dialog,
                     createError, calls, restarts>>
    BY DEF ChooseSource
<1>2. /\ shown' \in [Views -> Places] /\ shown'["composition"] = shown["composition"]
      /\ shown'["patch"] = shown["patch"]
    BY <1>1 DEF RendererInv, RendererTypes, Places, Views
<1>3. /\ ResultsBelongToSelection' /\ selected' \in Environment /\ dialog' \in Nat
    BY <1>1, <1>2 DEF RendererInv, RendererTypes, ResultsBelongToSelection
<1> QED
    BY <1>1, <1>2, <1>3, UserStep

\* The tracked operation is to be cancelled.
LEMMA CancelTrackedKeeps ==
    ASSUME RendererInv, CancelTracked
    PROVE  RendererInv'
<1>1. PICK c : c = InFlight("cancel", Named(tracked.operation), None, epoch)
    OBVIOUS
<1>2. /\ tracked # None /\ intent' \in {intent, None} /\ calls' = calls \cup {c}
      /\ UNCHANGED <<tracking, main, selected, held, disposed, shown, dialog,
                     createError, restarts>>
    BY <1>1 DEF CancelTracked
<1>3. c \in CallRecord /\ Quiet(c)
    <2>1. Known(tracked.operation)
        BY <1>2 DEF RendererInv, KnowledgeSound, Past
    <2>2. /\ Named(tracked.operation) \in Snapshots
          /\ Named(tracked.operation).operation = tracked.operation
          /\ "cancel" \in Thens /\ None \in Places /\ epoch \in Nat
        BY <2>1, NamedIsSnapshot DEF Known, Thens, Places, RendererInv, RendererTypes
    <2>3. Made(c, "cancel", Named(tracked.operation), epoch, None, FALSE)
        BY <1>1, <2>2, CallsMade
    <2> QED
        BY <2>1, <2>2, <2>3 DEF Made, Quiet, Opening, Completing, Reading
<1>4. /\ ResultsBelongToSelection' /\ selected' \in Environment /\ dialog' \in Nat
      /\ shown' \in [Views -> Places]
    BY <1>2 DEF RendererInv, RendererTypes, ResultsBelongToSelection
<1> QED
    BY <1>2, <1>3, <1>4, UserStep

-----------------------------------------------------------------------------
\* A new track: the calls of earlier ones are of earlier epochs.
LEMMA TrackKeeps ==
    ASSUME RendererInv, NEW o, Known(o), NEW others \in SUBSET calls, Track(o, others),
           \/ intent' \in {intent, None}
           \/ /\ intent' = o
              /\ \A d \in others : ~Claims(d, o)
              /\ \A r \in restarts : r.stop.operation # o,
           UNCHANGED <<main, selected, disposed, shown, dialog, createError, restarts>>
    PROVE  RendererInv'
<1>1. PICK c : /\ calls' = others \cup {c}
               /\ c = IF held = {} THEN InFlight("snapshot", Named(o), None, epoch + 1)
                      ELSE Release("snapshot", Named(o), HeldIds, epoch + 1)
    BY DEF Track
<1>2. /\ epoch' = epoch + 1 /\ tracked' = None /\ pendingOperation' = o
      /\ pollTimer' = None /\ held' = {}
    BY DEF Track
<1>3. /\ o \in Operations /\ Named(o) \in Snapshots /\ Named(o).operation = o
      /\ epoch \in Nat /\ epoch + 1 \in Nat /\ None \in Places /\ "snapshot" \in Thens
      /\ "snapshot" \in Nexts
    BY NamedIsSnapshot DEF Known, RendererInv, RendererTypes, Places, Thens, Nexts
<1>4. /\ c \in CallRecord /\ Opening(c) /\ c.then \in {"snapshot", "release"}
      /\ c.subject = Named(o) /\ c.epoch = epoch + 1 /\ c.reply = None
      /\ ~Completing(c)
    <2>1. CASE held = {}
        <3>1. PICK e : e = epoch + 1
            OBVIOUS
        <3>2. Made(c, "snapshot", Named(o), e, None, FALSE)
            BY <1>1, <1>3, <2>1, <3>1, CallsMade
        <3> QED
            BY <3>1, <3>2 DEF Made, Opening, Completing
    <2>2. CASE held # {}
        <3>1. HeldIds \in SUBSET Nat /\ HeldIds # {}
            BY <2>2 DEF HeldIds, RendererInv, RendererTypes
        <3>2. PICK e, ids : e = epoch + 1 /\ ids = HeldIds
            OBVIOUS
        <3>3. c = Release("snapshot", Named(o), ids, e)
            BY <1>1, <2>2, <3>2
        <3>4. e \in Nat /\ Ids(ids)
            BY <1>3, <3>1, <3>2 DEF Ids
        <3>5. Made(c, "release", Named(o), e, "snapshot", FALSE)
            BY <1>3, <3>3, <3>4, ReleasesMade
        <3> QED
            BY <3>2, <3>5 DEF Made, Opening, Completing
    <2> QED
        BY <2>1, <2>2
<1>5. RendererTypes'
    BY <1>1, <1>2, <1>3, <1>4 DEF RendererInv, RendererTypes, main
<1>6. Grounded(c) /\ \A p : ~Claims(c, p)
    BY <1>3, <1>4 DEF Grounded, Claims, IsCommand, KindOf, Kinds, Global, Reading
<1>7. ServedSound' /\ KnowledgeSound'
    <2>1. ServedSound'
        BY ServedRests DEF main
    <2>2. served' = served /\ events' = events
        BY DEF main
    <2> QED
        BY <1>1, <1>2, <1>6, <2>1, <2>2, ServedRests, KnowledgeStep
<1>8. TrackSound'
    <2>1. \A d \in calls : (Opening(d) \/ d.then = "subscribe") => d.epoch # epoch + 1
                                                         /\ d.epoch <= epoch + 1
        BY <1>3 DEF RendererInv, TrackSound, RendererTypes, CallRecord
    <2> QED
        BY <1>1, <1>2, <1>3, <1>4, <2>1 DEF TrackSound, Opening
<1>9. ClaimsSound'
    <2>1. CASE intent' \in {intent, None}
        BY <1>1, <1>6, <2>1, ClaimsStep
    <2>2. CASE /\ intent' = o
               /\ \A d \in others : ~Claims(d, o)
               /\ \A r \in restarts : r.stop.operation # o
        <3>1. \A d, p : Claims(d, p)' = Claims(d, p)
            BY DEF Claims, IsCommand
        <3> QED
            BY <1>1, <1>6, <2>2, <3>1 DEF RendererInv, ClaimsSound
    <2> QED
        BY <2>1, <2>2
<1>10. ResultsBelongToSelection'
    BY DEF RendererInv, ResultsBelongToSelection
<1> QED
    BY <1>5, <1>7, <1>8, <1>9, <1>10 DEF RendererInv

\* Polling is resumed, or a track that never began is opened again.
LEMMA RetryTrackingKeeps ==
    ASSUME RendererInv, RetryTracking
    PROVE  RendererInv'
<1>1. UNCHANGED <<main, selected, intent, disposed, shown, dialog, createError, restarts>>
    BY DEF RetryTracking
<1>2. CASE pendingOperation # None /\ Track(pendingOperation, calls)
    <2>1. Known(pendingOperation)
        BY <1>2 DEF RendererInv, KnowledgeSound
    <2> QED
        BY <1>1, <1>2, <2>1, TrackKeeps
<1>3. CASE /\ pollTimer' = IF pollTimer = None THEN epoch ELSE pollTimer
           /\ UNCHANGED <<tracked, pendingOperation, epoch, held, calls>>
    <2>1. pollTimer' \in Nat \cup {None}
        BY <1>3 DEF RendererInv, RendererTypes
    <2>2. RendererTypes'
        BY <1>1, <1>3, <2>1 DEF RendererInv, RendererTypes, main
    <2>3. ResultsBelongToSelection'
        BY <1>1 DEF RendererInv, ResultsBelongToSelection
    <2> QED
        BY <1>1, <1>3, <2>2, <2>3, QuietStep DEF main
<1> QED
    BY <1>2, <1>3 DEF RetryTracking

\* The controller is disposed: its subscriptions are released.
LEMMA DisposeKeeps ==
    ASSUME RendererInv, Dispose
    PROVE  RendererInv'
<1>1. /\ epoch' = epoch + 1 /\ pollTimer' = None /\ held' = {}
      /\ UNCHANGED <<main, selected, intent, tracked, pendingOperation, trackingError,
                     paused, failures, shown, dialog, createError, restarts>>
    BY DEF Dispose
<1>2. PICK c : c = Release("nothing", Named(None), HeldIds, epoch + 1)
    OBVIOUS
<1>3. calls' = calls \/ (held # {} /\ calls' = calls \cup {c})
    BY <1>2 DEF Dispose
<1>4. epoch \in Nat /\ epoch + 1 \in Nat
    BY DEF RendererInv, RendererTypes
<1>5. ASSUME held # {}
      PROVE  c \in CallRecord /\ Quiet(c)
    <2>1. /\ HeldIds \in SUBSET Nat /\ HeldIds # {}
        BY <1>5 DEF HeldIds, RendererInv, RendererTypes
    <2>2. Named(None) \in Snapshots /\ "nothing" \in Nexts
        BY NamedIsSnapshot DEF Nexts
    <2>3. Made(c, "release", Named(None), epoch + 1, "nothing", FALSE)
        <3>1. PICK e, ids : e = epoch + 1 /\ ids = HeldIds
            OBVIOUS
        <3>2. e \in Nat /\ Ids(ids)
            BY <1>4, <2>1, <3>1 DEF Ids
        <3> QED
            BY <1>2, <2>2, <3>1, <3>2, ReleasesMade
    <2> QED
        BY <2>3 DEF Made, Quiet, Opening, Completing, Reading
<1>6. \A d \in calls' : d \in calls \/ (d \in CallRecord /\ Quiet(d))
    BY <1>3, <1>5
<1>7. RendererTypes'
    BY <1>1, <1>4, <1>6 DEF RendererInv, RendererTypes, main
<1>8. \A d : Quiet(d) => /\ Grounded(d) /\ ~Opening(d) /\ d.then # "subscribe"
                         /\ \A o : ~Claims(d, o)
    BY DEF Quiet, Grounded, Claims, Completing
<1>9. ServedSound' /\ KnowledgeSound'
    <2>1. served' = served /\ events' = events
        BY <1>1 DEF main
    <2> QED
        BY <1>1, <1>6, <1>8, <2>1, ServedRests, KnowledgeStep
<1>10. TrackSound'
    <2>1. \A d \in calls : (Opening(d) \/ d.then = "subscribe") =>
              d.epoch # epoch + 1 /\ d.epoch <= epoch + 1
        BY <1>4 DEF RendererInv, TrackSound, RendererTypes, CallRecord
    <2> QED
        BY <1>1, <1>6, <1>8, <2>1 DEF TrackSound, Opening
<1>11. ClaimsSound'
    BY <1>1, <1>6, <1>8, ClaimsStep
<1>12. ResultsBelongToSelection'
    BY <1>1 DEF RendererInv, ResultsBelongToSelection
<1> QED
    BY <1>7, <1>9, <1>10, <1>11, <1>12 DEF RendererInv

-----------------------------------------------------------------------------
\* Whoever claims the stop o was told of o.
LEMMA ClaimsAreKnown ==
    ASSUME RendererInv, NEW o \in Operations
    PROVE  /\ \A c \in calls : Claims(c, o) => Known(o)
           /\ intent = o => Known(o)
           /\ \A r \in restarts : r.stop.operation = o => Known(o)
<1>1. \A c \in calls : Claims(c, o) => Known(o)
    BY DEF RendererInv, KnowledgeSound, Grounded, Claims, Past
<1>2. intent = o => Known(o)
    BY RendererAssumption DEF RendererInv, KnowledgeSound
<1>3. \A r \in restarts : r.stop.operation = o => Known(o)
    BY DEF RendererInv, KnowledgeSound, Past
<1> QED
    BY <1>1, <1>2, <1>3

\* The main process answers a call.
LEMMA ReplyStep ==
    ASSUME RendererInv, NEW c \in calls, c.reply = None,
           NEW ok \in BOOLEAN, NEW subject \in Snapshots, NEW id \in Nat \cup {None},
           Replied(c, ok, subject, id),
           ServedSound', \A t : Past(t) => Past(t)', \A o : Known(o) => Known(o)',
           served' \in [Operations -> Snapshots \cup {None}],
           events' \subseteq [id : Nat, subject : Snapshots],
           \A v \in events' : v \in events \/ Past(v.subject)',
           subscribed' \subseteq [id : Nat, operation : Operations],
           ok /\ Reading(c) => Past(subject)',
           ok /\ IsCommand(c) =>
              Known(subject.operation)' /\ ~Known(subject.operation),
           ok /\ c.then = "subscribe" => id \in Nat,
           UNCHANGED <<tracking, selected, intent, held, shown, dialog, createError, restarts>>
    PROVE  RendererInv'
<1>1. PICK d : d = [c EXCEPT !.reply = [ok |-> ok, subject |-> subject, id |-> id]]
    OBVIOUS
<1>2. calls' = (calls \ {c}) \cup {d}
    BY <1>1 DEF Replied
<1>3. c \in CallRecord
    BY DEF RendererInv, RendererTypes
<1>4. AnswerOf(d, c, ok, subject, id)
    BY <1>1, <1>3, AnswersMade
<1>5. /\ Opening(d) <=> Opening(c)
      /\ Completing(d) <=> Completing(c)
      /\ Reading(d) <=> Reading(c)
      /\ IsCommand(d) <=> IsCommand(c)
    BY <1>4 DEF AnswerOf, Opening, Completing, Reading, IsCommand
<1>6. RendererTypes'
    <2>1. d \in CallRecord
        BY <1>4 DEF AnswerOf
    <2> QED
        BY <1>2, <2>1 DEF RendererInv, RendererTypes, tracking
<1>7. Grounded(d)'
    <2>1. Grounded(c)
        BY DEF RendererInv, KnowledgeSound
    <2>2. Grounded(c)'
        BY <2>1 DEF Grounded
    <2>3. Opening(d)' = Opening(d) /\ Completing(d)' = Completing(d) /\ Reading(d)' = Reading(d)
          /\ IsCommand(d)' = IsCommand(d)
        BY DEF Opening, Completing, Reading, IsCommand
    <2> QED
        BY <1>4, <1>5, <2>2 DEF Grounded, AnswerOf
<1>8. KnowledgeSound'
    <2>1. /\ tracked' = tracked /\ pendingOperation' = pendingOperation /\ intent' = intent
          /\ restarts' = restarts
        BY DEF tracking
    <2>2. \A e \in calls' : e \in calls \/ Grounded(e)'
        BY <1>2, <1>7
    <2> QED
        BY <2>1, <2>2, KnowledgeStep
<1>9. TrackSound'
    <2>1. /\ d.epoch = c.epoch /\ (d.then = "subscribe" <=> c.then = "subscribe")
        BY <1>4 DEF AnswerOf
    <2>2. \A e : Opening(e)' = Opening(e)
        BY DEF Opening
    <2>3. tracked' = tracked /\ epoch' = epoch
        BY DEF tracking
    <2> QED
        BY <1>2, <1>5, <2>1, <2>2, <2>3 DEF RendererInv, TrackSound
<1>10. ClaimsSound'
    <2>1. ASSUME NEW o \in Operations, Claims(d, o)
          PROVE  Claims(c, o) \/ ~Known(o)
        BY <1>4, <1>5, <2>1 DEF Claims, AnswerOf
    <2>2. \A e, o : Claims(e, o)' = Claims(e, o)
        BY DEF Claims, IsCommand
    <2>3. ASSUME NEW o \in Operations, NEW e \in calls, NEW f \in calls',
                 Claims(e, o), Claims(f, o), e # c
          PROVE  f = e
        BY <1>2, <2>1, <2>3, ClaimsAreKnown DEF RendererInv, ClaimsSound
    <2>4. ASSUME NEW o \in Operations, NEW e \in calls', Claims(e, o)
          PROVE  intent # o /\ \A r \in restarts : r.stop.operation # o
        BY <1>2, <2>1, <2>4, ClaimsAreKnown DEF RendererInv, ClaimsSound
    <2>5. \A o \in Operations : \A e, f \in calls' : Claims(e, o) /\ Claims(f, o) => e = f
        BY <1>2, <2>3
    <2>6. intent' = intent /\ restarts' = restarts
        OBVIOUS
    <2> QED
        BY <2>2, <2>4, <2>5, <2>6 DEF RendererInv, ClaimsSound
<1>11. ResultsBelongToSelection'
    BY DEF RendererInv, ResultsBelongToSelection
<1> QED
    BY <1>6, <1>8, <1>9, <1>10, <1>11 DEF RendererInv

\* An operation goes on.
LEMMA ServedMoves ==
    ASSUME RendererInv, NEW o \in Operations, served[o] # None, served[o].status = "running",
           NEW now \in Snapshots, served' = [served EXCEPT ![o] = now],
           now.operation = o, now.kind = served[o].kind,
           now.environment = served[o].environment,
           now.sequence = served[o].sequence + 1, now.status \in Statuses
    PROVE  /\ served' \in [Operations -> Snapshots \cup {None}] /\ ServedSound'
           /\ \A t : Past(t) => Past(t)'
           /\ \A p : Known(p) => Known(p)'
           /\ Past(now)'
<1>1. served' \in [Operations -> Snapshots \cup {None}]
    BY DEF RendererInv, RendererTypes
<1>2. \A p \in Operations : served'[p] = IF p = o THEN now ELSE served[p]
    BY DEF RendererInv, RendererTypes
<1>3. served[o].sequence \in Nat /\ served[o].kind \in Kinds /\ now # None
    BY RendererAssumption DEF RendererInv, ServedSound
<1>4. ServedSound'
    BY <1>2, <1>3 DEF RendererInv, ServedSound
<1>5. ASSUME NEW t, Past(t)
      PROVE  Past(t)'
    BY <1>2, <1>3, <1>5 DEF Past, Known
<1>6. \A p : Known(p) => Known(p)'
    BY <1>2, <1>3 DEF Known
<1>7. Past(now)'
    BY <1>2, <1>3 DEF Past, Known
<1> QED
    BY <1>1, <1>4, <1>5, <1>6, <1>7

\* A command becomes an operation.
LEMMA ServedGrows ==
    ASSUME RendererInv, NEW o \in Operations, served[o] = None,
           NEW now \in Snapshots, served' = [served EXCEPT ![o] = now],
           now.operation = o, now.kind \in Kinds, now.sequence = 0, now.status = "running"
    PROVE  /\ served' \in [Operations -> Snapshots \cup {None}] /\ ServedSound'
           /\ \A t : Past(t) => Past(t)'
           /\ \A p : Known(p) => Known(p)'
           /\ Known(o)' /\ ~Known(o)
<1>1. served' \in [Operations -> Snapshots \cup {None}]
    BY DEF RendererInv, RendererTypes
<1>2. \A p \in Operations : served'[p] = IF p = o THEN now ELSE served[p]
    BY DEF RendererInv, RendererTypes
<1>3. now # None
    BY RendererAssumption
<1>4. ServedSound'
    BY <1>2 DEF RendererInv, ServedSound, Statuses
<1>5. ASSUME NEW t, Past(t)
      PROVE  Past(t)'
    BY <1>2, <1>5 DEF Past, Known
<1>6. \A p : Known(p) => Known(p)'
    BY <1>2, <1>3 DEF Known
<1>7. Known(o)' /\ ~Known(o)
    BY <1>2, <1>3 DEF Known
<1> QED
    BY <1>1, <1>4, <1>5, <1>6, <1>7

\* What a call in flight says of itself.
LEMMA CallFacts ==
    ASSUME RendererInv, NEW c \in calls
    PROVE  /\ c \in CallRecord /\ c.then \in Thens /\ c.subject \in Snapshots
           /\ c.environment \in Places /\ c.epoch \in Nat /\ Grounded(c)
           /\ c.reply # None => c.reply \in Replies
    BY DEF RendererInv, RendererTypes, KnowledgeSound, CallRecord

\* The main process serves a call.
LEMMA ServeKeeps ==
    ASSUME RendererInv, NEW c \in calls, Serve(c)
    PROVE  RendererInv'
<1>1. /\ c.reply = None
      /\ UNCHANGED <<tracking, selected, intent, held, disposed, shown, dialog,
                     createError, commands, restarts>>
    BY DEF Serve
<1>2. /\ c \in CallRecord /\ c.subject \in Snapshots /\ c.environment \in Places /\ Grounded(c)
    BY CallFacts
<1>3. CASE ServeCommand(c)
    <2>1. PICK o \in Operations :
             /\ served[o] = None
             /\ served' = [served EXCEPT ![o] =
                   Snapshot(o, KindOf(c.then), c.environment, "running", 0)]
             /\ Replied(c, TRUE, Named(o), None)
        BY <1>3 DEF ServeCommand, Fresh
    <2>2. PICK now : now = Snapshot(o, KindOf(c.then), c.environment, "running", 0)
        OBVIOUS
    <2>3. /\ IsCommand(c) /\ UNCHANGED <<events, subscribed>>
        BY <1>3 DEF ServeCommand, IsCommand
    <2>4. /\ now \in Snapshots /\ now.operation = o /\ now.kind \in Kinds /\ now.sequence = 0
          /\ now.status = "running"
        BY <1>2, <2>2, <2>3 DEF Snapshot, Snapshots, IsCommand, Statuses
    <2>5. /\ served' \in [Operations -> Snapshots \cup {None}] /\ ServedSound'
          /\ \A t : Past(t) => Past(t)'
          /\ \A p : Known(p) => Known(p)'
          /\ Known(o)' /\ ~Known(o)
        BY <2>1, <2>2, <2>4, ServedGrows
    <2>6. Named(o) \in Snapshots /\ Named(o).operation = o
        BY NamedIsSnapshot
    <2>7. ~Reading(c) /\ c.then # "subscribe"
        BY <2>3 DEF IsCommand, KindOf, Kinds, Global, Reading
    <2>8. events' \subseteq [id : Nat, subject : Snapshots]
          /\ subscribed' \subseteq [id : Nat, operation : Operations]
        BY <2>3 DEF RendererInv, RendererTypes
    <2> QED
        BY <1>1, <2>1, <2>3, <2>5, <2>6, <2>7, <2>8, ReplyStep
<1>4. ASSUME NEW subject \in Snapshots, NEW id \in Nat \cup {None},
             Replied(c, TRUE, subject, id), UNCHANGED <<events, served>>,
             subscribed' \subseteq [id : Nat, operation : Operations],
             ~IsCommand(c), Reading(c) => Past(subject), c.then = "subscribe" => id \in Nat
      PROVE  RendererInv'
    <2>1. /\ ServedSound'
          /\ \A t : Past(t) => Past(t)'
          /\ \A p : Known(p) => Known(p)'
        BY <1>4, ServedRests
    <2>3. Reading(c) => Past(subject)'
        BY <1>4, <2>1
    <2>4. \A v \in events' : v \in events \/ Past(v.subject)'
        BY <1>4
    <2>2. events' \subseteq [id : Nat, subject : Snapshots]
          /\ served' \in [Operations -> Snapshots \cup {None}]
        BY <1>4 DEF RendererInv, RendererTypes
    <2> QED
        BY <1>1, <1>4, <2>1, <2>2, <2>3, <2>4, ReplyStep
<1>5. CASE ServeRead(c)
    <2>1. Known(c.subject.operation) /\ Reading(c)
        BY <1>2, <1>5 DEF ServeRead, Grounded, Reading
    <2>2. PICK now : now = served[c.subject.operation]
        OBVIOUS
    <2>3. now \in Snapshots /\ now # None /\ Past(now)
        BY <2>1, <2>2 DEF Known, Past, RendererInv, RendererTypes, ServedSound
    <2>4. ~IsCommand(c) /\ c.then # "subscribe"
        BY <1>5 DEF ServeRead, IsCommand, KindOf, Kinds, Global
    <2>5. Replied(c, TRUE, now, None) /\ UNCHANGED <<events, served, subscribed>>
        BY <1>5, <2>2 DEF ServeRead
    <2>6. subscribed' \subseteq [id : Nat, operation : Operations]
        BY <2>5 DEF RendererInv, RendererTypes
    <2> QED
        BY <1>4, <2>3, <2>4, <2>5, <2>6
<1>6. CASE ServeCancel(c)
    <2>1. PICK o, now : /\ o = c.subject.operation
                        /\ now = [served[o] EXCEPT !.status = "cancelled", !.sequence = @ + 1]
        OBVIOUS
    <2>2. /\ c.then = "cancel" /\ served[o].status = "running"
          /\ served' = [served EXCEPT ![o] = now]
          /\ events' = events \cup {[id |-> s.id, subject |-> now]
                                    : s \in {x \in subscribed : x.operation = o}}
          /\ Replied(c, TRUE, now, None)
          /\ UNCHANGED subscribed
        BY <1>6, <2>1 DEF ServeCancel
    <2>3. o \in Operations /\ served[o] # None /\ served[o] \in Snapshots
          /\ served[o].operation = o /\ served[o].sequence \in Nat
        <3>1. Known(o)
            BY <1>2, <2>1, <2>2 DEF Grounded, Reading
        <3> QED
            BY <3>1 DEF Known, RendererInv, RendererTypes, ServedSound
    <2>4. /\ now \in Snapshots /\ now.operation = o /\ now.kind = served[o].kind
          /\ now.environment = served[o].environment
          /\ now.sequence = served[o].sequence + 1 /\ now.status \in Statuses
        <3>1. "cancelled" \in Statuses /\ served[o].sequence + 1 \in Nat
            BY <2>3 DEF Statuses, Ended
        <3>2. PICK t, n : t = [served[o] EXCEPT !.status = "cancelled"]
                          /\ n = served[o].sequence + 1
            OBVIOUS
        <3>3. /\ t \in Snapshots /\ t.operation = o /\ t.kind = served[o].kind
              /\ t.environment = served[o].environment /\ t.status = "cancelled"
            BY <2>3, <3>1, <3>2 DEF Snapshots
        <3>4. now = [t EXCEPT !.sequence = n]
            BY <2>1, <3>2
        <3> QED
            BY <3>1, <3>2, <3>3, <3>4 DEF Snapshots
    <2>5. /\ served' \in [Operations -> Snapshots \cup {None}] /\ ServedSound'
          /\ \A t : Past(t) => Past(t)'
          /\ \A p : Known(p) => Known(p)'
          /\ Past(now)'
        BY <2>2, <2>3, <2>4, ServedMoves
    <2>6. /\ events' \subseteq [id : Nat, subject : Snapshots]
          /\ \A v \in events' : v \in events \/ Past(v.subject)'
          /\ subscribed' \subseteq [id : Nat, operation : Operations]
        <3>1. ASSUME NEW v \in events', v \notin events
              PROVE  v \in [id : Nat, subject : Snapshots] /\ v.subject = now
            <4>1. PICK s \in subscribed : v = [id |-> s.id, subject |-> now]
                BY <2>2, <3>1
            <4>2. s.id \in Nat
                BY DEF RendererInv, RendererTypes
            <4> QED
                BY <2>4, <4>1, <4>2
        <3> QED
            BY <2>2, <2>5, <3>1 DEF RendererInv, RendererTypes
    <2>7. ~IsCommand(c)
        BY <2>2 DEF IsCommand, KindOf, Kinds, Global
    <2> QED
        BY <1>1, <2>2, <2>4, <2>5, <2>6, <2>7, ReplyStep
<1>7. CASE ServeSubscribe(c)
    <2>1. PICK id \in 1..MaxSubscribed :
             /\ subscribed' = subscribed \cup {[id |-> id, operation |-> c.subject.operation]}
             /\ Replied(c, TRUE, c.subject, id)
        BY <1>7 DEF ServeSubscribe, Fresh
    <2>2. /\ c.then = "subscribe" /\ UNCHANGED <<events, served>> /\ id \in Nat
        BY <1>7, RendererAssumption DEF ServeSubscribe
    <2>3. c.subject.operation \in Operations
        BY <1>2, <2>2 DEF Grounded, Past, Known
    <2>4. subscribed' \subseteq [id : Nat, operation : Operations]
        BY <2>1, <2>2, <2>3 DEF RendererInv, RendererTypes
    <2>5. ~IsCommand(c) /\ ~Reading(c)
        BY <2>2 DEF IsCommand, KindOf, Kinds, Global, Reading
    <2> QED
        BY <1>2, <1>4, <2>1, <2>2, <2>4, <2>5
<1>8. CASE ServeRelease(c)
    <2>1. /\ c.then = "release" /\ UNCHANGED <<events, served>>
          /\ subscribed' \subseteq [id : Nat, operation : Operations]
          /\ Replied(c, TRUE, c.subject, None)
        BY <1>8 DEF ServeRelease, RendererInv, RendererTypes
    <2>2. ~IsCommand(c) /\ ~Reading(c)
        BY <2>1 DEF IsCommand, KindOf, Kinds, Global, Reading
    <2> QED
        BY <1>2, <1>4, <2>1, <2>2
<1>9. CASE ServeOther(c)
    <2>1. /\ c.then \in Direct \cup {"list"} /\ UNCHANGED <<events, served, subscribed>>
          /\ subscribed' \subseteq [id : Nat, operation : Operations]
          /\ Replied(c, TRUE, c.subject, None)
        BY <1>9 DEF ServeOther, RendererInv, RendererTypes
    <2>2. ~IsCommand(c) /\ ~Reading(c) /\ c.then # "subscribe"
        BY <2>1 DEF IsCommand, KindOf, Kinds, Global, Reading, Direct
    <2> QED
        BY <1>2, <1>4, <2>1, <2>2
<1> QED
    BY <1>3, <1>5, <1>6, <1>7, <1>8, <1>9 DEF Serve

\* A call is refused, or its answer is lost.
LEMMA RefuseKeeps ==
    ASSUME RendererInv, NEW c \in calls, Refuse(c)
    PROVE  RendererInv'
<1>1. /\ c.reply = None /\ Replied(c, FALSE, c.subject, None)
      /\ UNCHANGED <<tracking, selected, intent, held, disposed, shown, dialog,
                     createError, events, served, subscribed, restarts>>
    BY DEF Refuse
<1>2. /\ ServedSound'
      /\ \A t : Past(t) => Past(t)'
      /\ \A p : Known(p) => Known(p)'
      /\ \A v \in events' : v \in events \/ Past(v.subject)'
    BY <1>1, ServedRests
<1>3. /\ events' \subseteq [id : Nat, subject : Snapshots]
      /\ served' \in [Operations -> Snapshots \cup {None}]
      /\ subscribed' \subseteq [id : Nat, operation : Operations]
    BY <1>1 DEF RendererInv, RendererTypes
<1>4. c.subject \in Snapshots
    BY CallFacts
<1>5. PICK ok : ok = FALSE
    OBVIOUS
<1> QED
    BY <1>1, <1>2, <1>3, <1>4, <1>5, ReplyStep

\* An operation goes on in the main process.
LEMMA OperationMovesKeeps ==
    ASSUME RendererInv, NEW o \in Operations, OperationMoves(o)
    PROVE  RendererInv'
<1>1. /\ served[o] # None /\ served[o].status = "running"
      /\ UNCHANGED <<tracking, selected, intent, held, disposed, shown, dialog,
                     createError, commands, calls, events, subscribed, restarts>>
    BY DEF OperationMoves
<1>2. PICK status \in {"running", "succeeded", "failed"} :
          served' = [served EXCEPT ![o].status = status, ![o].sequence = @ + 1]
    BY DEF OperationMoves
<1>3. PICK now : now = [served[o] EXCEPT !.status = status, !.sequence = @ + 1]
    OBVIOUS
<1>4. /\ served[o] \in Snapshots /\ served[o].operation = o /\ served[o].sequence \in Nat
    BY <1>1 DEF RendererInv, RendererTypes, ServedSound
<1>5. served' = [served EXCEPT ![o] = now]
    BY <1>2, <1>3 DEF RendererInv, RendererTypes
<1>6. /\ now \in Snapshots /\ now.operation = o /\ now.kind = served[o].kind
      /\ now.environment = served[o].environment
      /\ now.sequence = served[o].sequence + 1 /\ now.status \in Statuses
    <2>1. status \in Statuses /\ served[o].sequence + 1 \in Nat
        BY <1>4 DEF Statuses, Ended
    <2>2. PICK t, n : t = [served[o] EXCEPT !.status = status] /\ n = served[o].sequence + 1
        OBVIOUS
    <2>3. /\ t \in Snapshots /\ t.operation = o /\ t.kind = served[o].kind
          /\ t.environment = served[o].environment /\ t.status = status
        BY <1>4, <2>1, <2>2 DEF Snapshots
    <2>4. now = [t EXCEPT !.sequence = n]
        BY <1>3, <2>2
    <2> QED
        BY <2>1, <2>2, <2>3, <2>4 DEF Snapshots
<1>7. /\ served' \in [Operations -> Snapshots \cup {None}] /\ ServedSound'
      /\ \A t : Past(t) => Past(t)'
      /\ \A p : Known(p) => Known(p)'
    BY <1>1, <1>4, <1>5, <1>6, ServedMoves
<1>8. RendererTypes'
    BY <1>1, <1>7 DEF RendererInv, RendererTypes, tracking
<1>9. KnowledgeSound'
    BY <1>1, <1>7, KnowledgeStep DEF tracking
<1>10. TrackSound'
    BY <1>1, TrackStep DEF tracking
<1>11. ClaimsSound'
    BY <1>1, ClaimsStep
<1>12. ResultsBelongToSelection'
    BY <1>1 DEF RendererInv, ResultsBelongToSelection
<1> QED
    BY <1>7, <1>8, <1>9, <1>10, <1>11, <1>12 DEF RendererInv

-----------------------------------------------------------------------------
\* The accepted operation opens a track.
LEMMA CommandAcceptedKeeps ==
    ASSUME RendererInv, NEW c \in calls, CommandAccepted(c)
    PROVE  RendererInv'
<1>1. PICK o : o = c.reply.subject.operation
    OBVIOUS
<1>2. /\ c.reply # None /\ c.reply.ok /\ IsCommand(c)
      /\ Track(o, Others(c))
      /\ intent' = IF c.then = "stop to restart" THEN o ELSE intent
      /\ UNCHANGED <<main, selected, disposed, shown, dialog, createError, commands, restarts>>
    BY <1>1 DEF CommandAccepted, Arrived, IsCommand
<1>3. Known(o) /\ o \in Operations
    BY <1>1, <1>2 DEF RendererInv, KnowledgeSound, Grounded, Known
<1>4. Claims(c, o)
    BY <1>1, <1>2 DEF Claims
<1>5. /\ \A d \in Others(c) : ~Claims(d, o)
      /\ \A r \in restarts : r.stop.operation # o
    BY <1>3, <1>4 DEF RendererInv, ClaimsSound, Others
<1>6. PICK others \in SUBSET calls : others = Others(c)
    BY DEF Others
<1> QED
    BY <1>2, <1>3, <1>5, <1>6, TrackKeeps

\* A refused command.
LEMMA CommandRefusedKeeps ==
    ASSUME RendererInv, NEW c \in calls, CommandRefused(c)
    PROVE  RendererInv'
<1>1. /\ createError' \in {createError, dialog} /\ intent' \in {intent, None}
      /\ calls' = calls \ {c}
      /\ UNCHANGED <<tracking, main, selected, held, disposed, shown, dialog, commands,
                     restarts>>
    BY DEF CommandRefused, LateFailure, Dropped, Others
<1>2. RendererTypes'
    BY <1>1 DEF RendererInv, RendererTypes, tracking, main
<1>3. ResultsBelongToSelection'
    BY <1>1 DEF RendererInv, ResultsBelongToSelection
<1> QED
    BY <1>1, <1>2, <1>3, QuietStep DEF tracking, main

\* A reply is the result.
LEMMA ResultArrivesKeeps ==
    ASSUME RendererInv, NEW c \in calls, ResultArrives(c)
    PROVE  RendererInv'
<1>1. /\ c.then \in Direct
      /\ \/ shown' = shown
         \/ ~Stale(c) /\ shown' = [shown EXCEPT ![c.then] = c.environment]
      /\ calls' = calls \ {c}
      /\ UNCHANGED <<tracking, main, selected, intent, held, disposed, dialog,
                     createError, commands, restarts>>
    BY DEF ResultArrives, Dropped, Others
<1>2. c.environment \in Places
    BY CallFacts
<1>3. /\ shown' \in [Views -> Places] /\ shown'["composition"] = shown["composition"]
      /\ shown'["patch"] \in {shown["patch"], selected}
    BY <1>1, <1>2 DEF RendererInv, RendererTypes, Direct, Views, Stale
<1>4. RendererTypes'
    BY <1>1, <1>3 DEF RendererInv, RendererTypes, tracking, main
<1>5. ResultsBelongToSelection'
    BY <1>1, <1>3 DEF RendererInv, ResultsBelongToSelection
<1> QED
    BY <1>1, <1>4, <1>5, QuietStep DEF tracking, main

\* The tracked operation goes on, or its track is completed.
Follows(c) == c \in CallRecord /\ Grounded(c) /\ ~Opening(c) /\ c.then # "subscribe"

\* A step within a track that may move what is tracked to another past state.
LEMMA FollowStep ==
    ASSUME RendererInv, UNCHANGED <<pendingOperation, epoch, served, subscribed, selected,
                                    dialog, createError, restarts>>,
           events' \subseteq events,
           tracked' = None <=> tracked = None,
           tracked' # None => tracked' = tracked \/ (tracked' \in Snapshots /\ Past(tracked')),
           pollTimer' \in Nat \cup {None}, held' \subseteq [operation : Operations, id : Nat],
           intent' \in {intent, None}, \A c \in calls' : c \in calls \/ Follows(c),
           ClaimsSound',
           shown' \in [Views -> Places], shown'["patch"] = shown["patch"],
           shown'["composition"] \in {shown["composition"], selected}
    PROVE  RendererInv'
<1>1. served' = served /\ events' \subseteq events /\ subscribed' = subscribed
    OBVIOUS
<1>2. RendererTypes'
    <2>1. calls' \subseteq CallRecord
        BY DEF Follows, RendererInv, RendererTypes
    <2>2. tracked' \in Snapshots \cup {None} /\ intent' \in Operations \cup {None}
        BY DEF RendererInv, RendererTypes
    <2> QED
        BY <1>1, <2>1, <2>2 DEF RendererInv, RendererTypes
<1>3. ServedSound'
    BY <1>1, ServedRests
<1>4. KnowledgeSound'
    <2>1. tracked' # None => tracked' = tracked \/ Past(tracked)'
        BY <1>1 DEF Past, Known
    <2>2. \A c \in calls' : c \in calls \/ Grounded(c)'
        BY <1>1, ServedRests DEF Follows
    <2>3. (\A t : Past(t) => Past(t)') /\ (\A o : Known(o) => Known(o)')
        BY <1>1, ServedRests
    <2> QED
        BY <1>1, <1>3, <2>1, <2>2, <2>3, KnowledgeStep
<1>5. TrackSound'
    BY TrackStep DEF Follows
<1>6. ResultsBelongToSelection'
    BY DEF RendererInv, ResultsBelongToSelection
<1> QED
    BY <1>2, <1>3, <1>4, <1>5, <1>6 DEF RendererInv

\* The end of a track: the calls it makes, and the restart it may send.
LEMMA FinishKeeps ==
    ASSUME RendererInv, NEW t \in Snapshots, Past(t), NEW e \in Nat,
           NEW others \in SUBSET calls, Finish(t, e, others), restarts' = restarts
    PROVE  /\ \A c \in calls' : c \in calls \/ Follows(c)
           /\ intent' \in {intent, None} /\ ClaimsSound'
           /\ shown' \in [Views -> Places] /\ shown'["patch"] = shown["patch"]
           /\ shown'["composition"] \in {shown["composition"], selected}
<1>1. PICK restart \in BOOLEAN : restart = (t.kind = "stop" /\ intent = t.operation)
    OBVIOUS
<1>2. PICK c0 : c0 = Refresh(t, restart, e)
    OBVIOUS
<1>3. /\ intent' = IF restart THEN None ELSE intent
      /\ \/ t.status = "succeeded" /\ shown' = Applied(shown, t) /\ calls' = others \cup {c0}
         \/ shown' = shown /\ calls' = others
    BY <1>1, <1>2 DEF Finish
<1>4. Made(c0, "list", t, e, None, restart)
    BY <1>2, RefreshesMade
<1>5. intent' \in {intent, None}
    BY <1>3
<1>6. t.status = "succeeded" => Follows(c0)
    <2>1. restart => t.kind = "stop"
        BY <1>1
    <2>2. ~Reading(c0) /\ ~Opening(c0)
        BY <1>4 DEF Made, Reading, Opening
    <2> QED
        BY <1>4, <2>1, <2>2 DEF Follows, Grounded, Made
<1>7. \A c \in calls' : c \in calls \/ Follows(c)
    BY <1>3, <1>6
<1>8. t.operation \in Operations /\ t.operation # None
    BY RendererAssumption DEF Past, Known
<1>9. ClaimsSound'
    <2>1. \A o \in Operations : Claims(c0, o) => restart /\ o = t.operation
        BY <1>4, RendererAssumption DEF Claims, Made
    <2>2. \A d, p : Claims(d, p)' = Claims(d, p)
        BY DEF Claims, IsCommand
    <2>3. \A o \in Operations : o # None
        BY RendererAssumption
    <2>4. \A r \in restarts : r.stop.operation # None
        BY RendererAssumption DEF RendererInv, KnowledgeSound, Past, Known
    <2>5. CASE restart
        <3>1. /\ intent = t.operation /\ intent' = None
            BY <1>1, <1>3, <2>5
        <3>2. /\ \A c \in calls : ~Claims(c, t.operation)
              /\ \A r \in restarts : r.stop.operation # t.operation
            BY <1>8, <3>1 DEF RendererInv, ClaimsSound
        <3> QED
            BY <1>3, <2>1, <2>2, <2>3, <2>4, <3>1, <3>2 DEF RendererInv, ClaimsSound
    <2>6. CASE ~restart
        <3>1. \A c \in calls' : c \in calls \/ \A o \in Operations : ~Claims(c, o)
            BY <1>3, <2>1, <2>6
        <3> QED
            BY <1>5, <2>2, <2>3, <2>4, <3>1 DEF RendererInv, ClaimsSound
    <2> QED
        BY <2>5, <2>6
<1>10. /\ shown' \in [Views -> Places] /\ shown'["patch"] = shown["patch"]
       /\ shown'["composition"] \in {shown["composition"], selected}
    <2>1. t.environment \in Places /\ Everywhere \in Places /\ None \in Places
          /\ shown \in [Views -> Places]
        BY DEF Snapshots, Places, RendererInv, RendererTypes
    <2>2. ASSUME shown' = Applied(shown, t)
          PROVE  /\ shown' \in [Views -> Places] /\ shown'["patch"] = shown["patch"]
                 /\ shown'["composition"] \in {shown["composition"], selected}
        BY <2>1, <2>2 DEF Applied, Views
    <2> QED
        BY <1>3, <2>1, <2>2
<1> QED
    BY <1>5, <1>7, <1>9, <1>10

\* A track ends once its subscription is released.
LEMMA CompleteTrackingKeeps ==
    ASSUME RendererInv, NEW t \in Snapshots, Past(t), NEW e \in Nat,
           NEW others \in SUBSET calls, CompleteTracking(t, e, others), restarts' = restarts
    PROVE  /\ \A c \in calls' : c \in calls \/ Follows(c)
           /\ intent' \in {intent, None} /\ ClaimsSound'
           /\ shown' \in [Views -> Places] /\ shown'["patch"] = shown["patch"]
           /\ shown'["composition"] \in {shown["composition"], selected}
           /\ pollTimer' = None /\ held' \subseteq held
<1>1. PICK mine : mine = {h \in held : h.operation = t.operation}
    OBVIOUS
<1>2. pollTimer' = None /\ held' \subseteq held
    BY DEF CompleteTracking
<1>3. CASE mine = {}
    <2>1. Finish(t, e, others)
        BY <1>1, <1>3 DEF CompleteTracking
    <2> QED
        BY <1>2, <2>1, FinishKeeps
<1>4. CASE mine # {}
    <2>1. PICK ids, c0 : ids = {h.id : h \in mine} /\ c0 = Release("complete", t, ids, e)
        OBVIOUS
    <2>2. calls' = others \cup {c0} /\ UNCHANGED <<intent, shown>>
        BY <1>1, <1>4, <2>1 DEF CompleteTracking
    <2>3. Ids(ids) /\ "complete" \in Nexts
        BY <1>1, <1>4, <2>1 DEF Ids, Nexts, RendererInv, RendererTypes
    <2>4. Made(c0, "release", t, e, "complete", FALSE)
        BY <2>1, <2>3, ReleasesMade
    <2>5. Follows(c0) /\ \A o : ~Claims(c0, o)
        BY <2>4 DEF Made, Follows, Grounded, Opening, Reading, Claims, IsCommand, KindOf, Kinds,
                    Global
    <2>6. ClaimsSound'
        BY <2>2, <2>5, ClaimsStep
    <2>7. shown' \in [Views -> Places]
        BY <2>2 DEF RendererInv, RendererTypes
    <2> QED
        BY <1>2, <2>2, <2>5, <2>6, <2>7
<1> QED
    BY <1>3, <1>4

\* A call is followed by another one of the same track.
LEMMA ReplacedStep ==
    ASSUME RendererInv, NEW c \in calls, NEW d \in CallRecord, calls' = (calls \ {c}) \cup {d},
           Grounded(d), d.epoch = c.epoch, Opening(d) => Opening(c), d.then # "subscribe",
           \A o : ~Claims(d, o),
           UNCHANGED <<tracking, main, selected, intent, held, dialog, createError, shown,
                       restarts>>
    PROVE  RendererInv'
<1>1. RendererTypes' /\ ResultsBelongToSelection'
    BY DEF RendererInv, RendererTypes, ResultsBelongToSelection, tracking, main
<1>2. ServedSound' /\ KnowledgeSound'
    <2>1. /\ served' = served /\ tracked' = tracked /\ pendingOperation' = pendingOperation
          /\ events' = events
        BY DEF tracking, main
    <2> QED
        BY <2>1, ServedRests, KnowledgeStep
<1>3. TrackSound'
    <2>1. \A e : Opening(e)' = Opening(e)
        BY DEF Opening
    <2>2. tracked' = tracked /\ epoch' = epoch
        BY DEF tracking
    <2> QED
        BY <2>1, <2>2 DEF RendererInv, TrackSound
<1>4. ClaimsSound'
    BY ClaimsStep
<1> QED
    BY <1>1, <1>2, <1>3, <1>4 DEF RendererInv

\* The first snapshot of a track is subscribed to next.
LEMMA SnapshotArrivesKeeps ==
    ASSUME RendererInv, NEW c \in calls, SnapshotArrives(c)
    PROVE  RendererInv'
<1>1. /\ c.then = "snapshot" /\ c.reply # None
      /\ UNCHANGED <<main, selected, intent, held, disposed, shown, dialog, createError,
                     commands, restarts>>
    BY DEF SnapshotArrives, Arrived
<1>2. ResultsBelongToSelection'
    BY <1>1 DEF RendererInv, ResultsBelongToSelection
<1>3. CASE /\ calls' = calls \ {c}
           /\ UNCHANGED <<tracked, pendingOperation, paused, epoch, pollTimer, failures>>
    <2>1. RendererTypes'
        BY <1>1, <1>3 DEF RendererInv, RendererTypes, main
    <2> QED
        BY <1>1, <1>2, <1>3, <2>1, QuietStep DEF main
<1>4. CASE /\ Current(c.epoch) /\ c.reply.ok
           /\ tracked' = c.reply.subject /\ pendingOperation' = None
           /\ calls' = Others(c) \cup {InFlight("subscribe", c.reply.subject, None, c.epoch)}
           /\ UNCHANGED <<epoch, pollTimer, failures>>
    <2>1. PICK t, d : t = c.reply.subject /\ d = InFlight("subscribe", t, None, c.epoch)
        OBVIOUS
    <2>2. /\ t \in Snapshots /\ t # None /\ Past(t) /\ c.epoch \in Nat
          /\ "subscribe" \in Thens /\ None \in Places
        BY <1>1, <1>4, <2>1, CallFacts, RendererAssumption
        DEF Replies, Grounded, Reading, Thens, Places
    <2>3. Made(d, "subscribe", t, c.epoch, None, FALSE)
        BY <2>1, <2>2, CallsMade
    <2>4. /\ d \in CallRecord /\ Grounded(d) /\ ~Opening(d) /\ \A o : ~Claims(d, o)
        BY <2>2, <2>3
        DEF Made, Grounded, Opening, Completing, Reading, Claims, IsCommand, KindOf, Kinds, Global
    <2>5. /\ calls' = (calls \ {c}) \cup {d} /\ tracked' = t /\ epoch' = epoch
          /\ c.epoch = epoch /\ pendingOperation' = None
        BY <1>4, <2>1 DEF Others, Current
    <2>6. RendererTypes'
        BY <1>1, <1>4, <2>2, <2>4, <2>5 DEF RendererInv, RendererTypes, main
    <2>7. ServedSound' /\ KnowledgeSound'
        <3>1. served' = served /\ events' = events
            BY <1>1 DEF main
        <3> QED
            BY <1>1, <2>2, <2>4, <2>5, <3>1, ServedRests, KnowledgeStep
    <2>8. TrackSound'
        <3>1. \A e : Opening(e)' = Opening(e)
            BY DEF Opening
        <3>2. Opening(c)
            BY <1>1 DEF Opening
        <3>3. d.epoch = epoch
            BY <2>3, <2>5 DEF Made
        <3>4. \A e \in calls' : Opening(e) => e \in calls /\ e.epoch # epoch
            BY <2>4, <2>5, <3>2 DEF RendererInv, TrackSound
        <3>5. epoch \in Nat
            BY DEF RendererInv, RendererTypes
        <3> QED
            BY <2>2, <2>4, <2>5, <3>1, <3>3, <3>4, <3>5 DEF RendererInv, TrackSound
    <2>9. ClaimsSound'
        BY <1>1, <2>4, <2>5, ClaimsStep
    <2> QED
        BY <1>2, <2>6, <2>7, <2>8, <2>9 DEF RendererInv
<1> QED
    BY <1>3, <1>4 DEF SnapshotArrives, Dropped, Others, tracking

\* A subscription is held, or released because it comes too late.
LEMMA SubscribeArrivesKeeps ==
    ASSUME RendererInv, NEW c \in calls, SubscribeArrives(c)
    PROVE  RendererInv'
<1>1. /\ c.then = "subscribe" /\ c.reply # None
      /\ UNCHANGED <<main, selected, disposed, dialog, createError, commands, restarts>>
    BY DEF SubscribeArrives, Arrived
<1>2. /\ c.epoch \in Nat /\ c.subject \in Snapshots /\ Past(c.subject)
      /\ c.reply.ok => c.reply.id \in Nat
    BY <1>1, CallFacts DEF Grounded
<1>3. Current(c.epoch) => tracked # None /\ tracked \in Snapshots /\ Past(tracked)
    BY <1>1 DEF Current, RendererInv, RendererTypes, TrackSound, KnowledgeSound
<1>4. PICK others \in SUBSET calls : others = Others(c)
    BY DEF Others
<1>5. ASSUME UNCHANGED <<tracked, pendingOperation, epoch, intent, shown>>,
             pollTimer' \in Nat \cup {None},
             held' \subseteq [operation : Operations, id : Nat],
             \A d \in calls' : d \in calls \/ (Follows(d) /\ \A o : ~Claims(d, o))
      PROVE  RendererInv'
    <2>1. ClaimsSound'
        BY <1>1, <1>5, ClaimsStep
    <2>2. shown' \in [Views -> Places]
        BY <1>5 DEF RendererInv, RendererTypes
    <2> QED
        BY <1>1, <1>5, <2>1, <2>2, FollowStep DEF main
<1>6. /\ pollTimer \in Nat \cup {None} /\ held \subseteq [operation : Operations, id : Nat]
    BY DEF RendererInv, RendererTypes
<1>7. ASSUME NEW next \in {"nothing", "complete"}, NEW subject \in Snapshots,
             next = "complete" => Past(subject), c.reply.ok,
             NEW d, d = Release(next, subject, {c.reply.id}, c.epoch)
      PROVE  Follows(d) /\ \A o : ~Claims(d, o)
    <2>1. PICK ids : ids = {c.reply.id}
        OBVIOUS
    <2>2. Ids(ids) /\ next \in Nexts \cup {None}
        BY <1>2, <1>7, <2>1 DEF Ids, Nexts
    <2>3. Made(d, "release", subject, c.epoch, next, FALSE)
        BY <1>2, <1>7, <2>1, <2>2, ReleasesMade
    <2> QED
        BY <1>7, <2>3 DEF Made, Follows, Grounded, Opening, Completing, Reading, Claims,
                          IsCommand, KindOf, Kinds, Global
<1>8. CASE TooLate(c) /\ UNCHANGED <<tracking, held, intent, shown>>
    <2>1. Named(None) \in Snapshots
        BY NamedIsSnapshot
    <2>2. PICK d : d = Release("nothing", Named(None), {c.reply.id}, c.epoch)
        OBVIOUS
    <2>3. \A e \in calls' : e \in calls \/ (c.reply.ok /\ e = d)
        BY <1>8, <2>2 DEF TooLate, Others
    <2>4. c.reply.ok => Follows(d) /\ \A o : ~Claims(d, o)
        BY <1>7, <2>1, <2>2
    <2> QED
        BY <1>5, <1>6, <1>8, <2>3, <2>4 DEF tracking
<1>9. CASE /\ c.reply.ok
           /\ held' = held \cup {[operation |-> c.subject.operation, id |-> c.reply.id]}
           /\ Scheduled(c.epoch) /\ Dropped(c)
           /\ UNCHANGED <<tracked, pendingOperation, trackingError, paused, epoch,
                          failures, intent, shown>>
    <2>1. c.subject.operation \in Operations
        BY <1>2 DEF Past, Known
    <2>2. held' \subseteq [operation : Operations, id : Nat]
        BY <1>2, <1>6, <1>9, <2>1
    <2>3. pollTimer' \in Nat \cup {None} /\ calls' \subseteq calls
        BY <1>2, <1>6, <1>9 DEF Scheduled, Dropped, Others
    <2> QED
        BY <1>5, <1>9, <2>2, <2>3
<1>10. CASE /\ Current(c.epoch) /\ c.reply.ok
            /\ calls' = Others(c) \cup {Release("complete", tracked, {c.reply.id}, c.epoch)}
            /\ pollTimer' = None
            /\ UNCHANGED <<tracked, pendingOperation, trackingError, paused, epoch,
                           failures, held, intent, shown>>
    <2>1. PICK t, d : t = tracked /\ d = Release("complete", t, {c.reply.id}, c.epoch)
        OBVIOUS
    <2>2. Follows(d) /\ \A o : ~Claims(d, o)
        BY <1>3, <1>7, <1>10, <2>1
    <2>3. \A e \in calls' : e \in calls \/ e = d
        BY <1>10, <2>1 DEF Others
    <2> QED
        BY <1>5, <1>6, <1>10, <2>2, <2>3
<1>11. CASE /\ Current(c.epoch) /\ CompleteTracking(tracked, c.epoch, Others(c))
            /\ UNCHANGED <<tracked, pendingOperation, paused, epoch, failures>>
    <2>1. PICK t : t = tracked
        OBVIOUS
    <2>2. t \in Snapshots /\ Past(t) /\ CompleteTracking(t, c.epoch, others)
        BY <1>3, <1>4, <1>11, <2>1
    <2>3. /\ \A d \in calls' : d \in calls \/ Follows(d)
          /\ intent' \in {intent, None} /\ ClaimsSound'
          /\ shown' \in [Views -> Places] /\ shown'["patch"] = shown["patch"]
          /\ shown'["composition"] \in {shown["composition"], selected}
          /\ pollTimer' = None /\ held' \subseteq held
        BY <1>1, <1>2, <2>2, CompleteTrackingKeeps
    <2> QED
        BY <1>1, <1>6, <1>11, <2>3, FollowStep DEF main
<1>12. CASE /\ Scheduled(c.epoch) /\ Dropped(c)
            /\ UNCHANGED <<held, intent, shown, tracked, pendingOperation, paused, epoch,
                           failures>>
    <2>1. pollTimer' \in Nat \cup {None} /\ calls' \subseteq calls
        BY <1>2, <1>6, <1>12 DEF Scheduled, Dropped, Others
    <2> QED
        BY <1>5, <1>6, <1>12, <2>1
<1> QED
    BY <1>8, <1>9, <1>10, <1>11, <1>12 DEF SubscribeArrives

\* The next of the subscriptions is released, or what follows the last release.
LEMMA ReleaseArrivesKeeps ==
    ASSUME RendererInv, NEW c \in calls, ReleaseArrives(c)
    PROVE  RendererInv'
<1>1. /\ c.then = "release" /\ c.reply # None
      /\ UNCHANGED <<tracking, main, selected, held, disposed, dialog, createError,
                     commands, restarts>>
    BY DEF ReleaseArrives, Arrived
<1>2. /\ c \in CallRecord /\ c.epoch \in Nat /\ c.subject \in Snapshots /\ Grounded(c)
      /\ c.next \in Nexts \cup {None} /\ c.rest \in SUBSET Nat
    BY CallFacts DEF CallRecord
<1>3. CASE /\ c.rest # {}
           /\ calls' = Others(c) \cup {Release(c.next, c.subject, c.rest, c.epoch)}
           /\ UNCHANGED <<intent, shown>>
    <2>1. PICK d, next, t, ids, e :
             /\ d = Release(next, t, ids, e)
             /\ next = c.next /\ t = c.subject /\ ids = c.rest /\ e = c.epoch
        OBVIOUS
    <2>2. Ids(ids) /\ next \in Nexts \cup {None} /\ t \in Snapshots /\ e \in Nat
        BY <1>2, <1>3, <2>1 DEF Ids
    <2>3. Made(d, "release", t, e, next, FALSE)
        BY <2>1, <2>2, ReleasesMade
    <2>4. /\ Opening(d) <=> Opening(c)
          /\ Completing(d) <=> Completing(c)
          /\ ~Reading(d) /\ d.then # "subscribe" /\ d.then # "list" /\ d.reply = None
          /\ d.subject = c.subject /\ d.epoch = c.epoch /\ d \in CallRecord
        BY <1>1, <2>1, <2>3 DEF Made, Opening, Completing, Reading
    <2>5. Grounded(d)
        BY <1>2, <2>4 DEF Grounded
    <2>6. \A o : ~Claims(d, o)
        BY <2>4 DEF Claims
    <2>7. calls' = (calls \ {c}) \cup {d}
        BY <1>3, <2>1 DEF Others
    <2> QED
        BY <1>1, <1>3, <2>4, <2>5, <2>6, <2>7, ReplacedStep
<1>4. CASE /\ c.next = "snapshot"
           /\ calls' = Others(c) \cup {InFlight("snapshot", c.subject, None, c.epoch)}
           /\ UNCHANGED <<intent, shown>>
    <2>1. PICK d, t, e : /\ d = InFlight("snapshot", t, None, e)
                         /\ t = c.subject /\ e = c.epoch
        OBVIOUS
    <2>2. t \in Snapshots /\ e \in Nat /\ None \in Places /\ "snapshot" \in Thens
        BY <1>2, <2>1 DEF Places, Thens
    <2>3. Made(d, "snapshot", t, e, None, FALSE)
        BY <2>1, <2>2, CallsMade
    <2>4. Opening(c) /\ Known(c.subject.operation)
        BY <1>1, <1>2, <1>4 DEF Opening, Grounded
    <2>5. /\ Grounded(d) /\ d.epoch = c.epoch /\ d.then # "subscribe" /\ d \in CallRecord
          /\ \A o : ~Claims(d, o)
        BY <2>1, <2>3, <2>4 DEF Made, Grounded, Completing, Claims
    <2>6. calls' = (calls \ {c}) \cup {d}
        BY <1>4, <2>1 DEF Others
    <2> QED
        BY <1>1, <1>4, <2>4, <2>5, <2>6, ReplacedStep
<1>5. CASE c.next = "complete" /\ Finish(c.subject, c.epoch, Others(c))
    <2>1. PICK t, others : t = c.subject /\ others = Others(c)
        OBVIOUS
    <2>2. t \in Snapshots /\ Past(t) /\ others \in SUBSET calls /\ Finish(t, c.epoch, others)
        BY <1>1, <1>2, <1>5, <2>1 DEF Grounded, Completing, Others
    <2>3. /\ \A d \in calls' : d \in calls \/ Follows(d)
          /\ intent' \in {intent, None} /\ ClaimsSound'
          /\ shown' \in [Views -> Places] /\ shown'["patch"] = shown["patch"]
          /\ shown'["composition"] \in {shown["composition"], selected}
        BY <1>1, <1>2, <2>2, FinishKeeps
    <2>4. /\ pollTimer' \in Nat \cup {None}
          /\ held' \subseteq [operation : Operations, id : Nat]
        BY <1>1 DEF RendererInv, RendererTypes, tracking
    <2> QED
        BY <1>1, <2>3, <2>4, FollowStep DEF tracking, main
<1>6. CASE Dropped(c) /\ UNCHANGED <<intent, shown>>
    <2>1. calls' \subseteq calls
        BY <1>6 DEF Dropped, Others
    <2>2. RendererTypes' /\ ResultsBelongToSelection'
        BY <1>1, <1>6, <2>1 DEF RendererInv, RendererTypes, ResultsBelongToSelection,
                                tracking, main
    <2> QED
        BY <1>1, <1>6, <2>1, <2>2, QuietStep DEF tracking, main
<1> QED
    BY <1>3, <1>4, <1>5, <1>6 DEF ReleaseArrives

\* A newer state of the tracked operation is taken over.
LEMMA SnapshotApplied ==
    ASSUME RendererInv, NEW t \in Snapshots, Past(t), NEW e \in Nat,
           NEW others \in SUBSET calls, ApplySnapshot(t, e, others),
           UNCHANGED <<pendingOperation, epoch, main, selected, dialog, createError, restarts>>
    PROVE  RendererInv'
<1>1. /\ pollTimer \in Nat \cup {None} /\ held \subseteq [operation : Operations, id : Nat]
      /\ shown \in [Views -> Places] /\ t # None
    BY RendererAssumption DEF RendererInv, RendererTypes
<1>2. CASE calls' = others /\ UNCHANGED <<tracked, held, intent, shown, pollTimer>>
    <2>1. ClaimsSound'
        BY <1>2, ClaimsStep
    <2> QED
        BY <1>1, <1>2, <2>1, FollowStep DEF main
<1>3. CASE Newer(t) /\ tracked' = t /\ CompleteTracking(t, e, others)
    <2>1. /\ \A d \in calls' : d \in calls \/ Follows(d)
          /\ intent' \in {intent, None} /\ ClaimsSound'
          /\ shown' \in [Views -> Places] /\ shown'["patch"] = shown["patch"]
          /\ shown'["composition"] \in {shown["composition"], selected}
          /\ pollTimer' = None /\ held' \subseteq held
        BY <1>3, CompleteTrackingKeeps
    <2>2. tracked # None
        BY <1>3 DEF Newer
    <2> QED
        BY <1>1, <1>3, <2>1, <2>2, FollowStep DEF main
<1>4. CASE /\ Newer(t) /\ tracked' = t
           /\ calls' = others /\ UNCHANGED <<held, intent, shown, pollTimer>>
    <2>1. ClaimsSound'
        BY <1>4, ClaimsStep
    <2>2. tracked # None
        BY <1>4 DEF Newer
    <2> QED
        BY <1>1, <1>4, <2>1, <2>2, FollowStep DEF main
<1> QED
    BY <1>2, <1>3, <1>4 DEF ApplySnapshot

\* The cancelled operation is taken over.
LEMMA CancelArrivesKeeps ==
    ASSUME RendererInv, NEW c \in calls, CancelArrives(c)
    PROVE  RendererInv'
<1>1. /\ c.then = "cancel" /\ c.reply # None
      /\ UNCHANGED <<main, selected, pendingOperation, trackingError, paused, epoch,
                     failures, disposed, dialog, createError, commands, restarts>>
    BY DEF CancelArrives, Arrived
<1>2. c.epoch \in Nat /\ (c.reply.ok => c.reply.subject \in Snapshots /\ Past(c.reply.subject))
    BY <1>1, CallFacts DEF Replies, Grounded, Reading
<1>3. Others(c) \in SUBSET calls
    BY DEF Others
<1>4. CASE c.reply.ok /\ ApplySnapshot(c.reply.subject, c.epoch, Others(c))
    <2>1. PICK t, others : t = c.reply.subject /\ others = Others(c)
        OBVIOUS
    <2>2. ApplySnapshot(t, c.epoch, others)
        BY <1>4, <2>1
    <2> QED
        BY <1>1, <1>2, <1>3, <1>4, <2>1, <2>2, SnapshotApplied
<1>5. CASE Dropped(c) /\ UNCHANGED <<tracked, held, intent, shown, pollTimer>>
    <2>1. calls' \subseteq calls
        BY <1>5 DEF Dropped, Others
    <2>2. RendererTypes' /\ ResultsBelongToSelection'
        BY <1>1, <1>5, <2>1 DEF RendererInv, RendererTypes, ResultsBelongToSelection, main
    <2> QED
        BY <1>1, <1>5, <2>1, <2>2, QuietStep DEF main
<1> QED
    BY <1>4, <1>5 DEF CancelArrives

\* The timer fires: the tracked operation is read.
LEMMA PollTimerKeeps ==
    ASSUME RendererInv, PollTimer
    PROVE  RendererInv'
<1>1. PICK c : c = InFlight("poll", Named(tracked.operation), None, pollTimer)
    OBVIOUS
<1>2. /\ pollTimer # None /\ pollTimer' = None
      /\ calls' = calls \/ (tracked # None /\ calls' = calls \cup {c})
      /\ UNCHANGED <<main, selected, intent, tracked, pendingOperation, trackingError,
                     paused, epoch, held, failures, disposed, shown, dialog, createError,
                     commands, restarts>>
    BY <1>1 DEF PollTimer
<1>3. tracked # None => c \in CallRecord /\ Quiet(c)
    <2>1. SUFFICES ASSUME tracked # None PROVE c \in CallRecord /\ Quiet(c)
        OBVIOUS
    <2>2. Known(tracked.operation)
        BY <2>1 DEF RendererInv, KnowledgeSound, Past
    <2>3. /\ Named(tracked.operation) \in Snapshots
          /\ Named(tracked.operation).operation = tracked.operation
          /\ "poll" \in Thens /\ None \in Places /\ pollTimer \in Nat
        BY <1>2, <2>2, NamedIsSnapshot DEF Known, Thens, Places, RendererInv, RendererTypes
    <2>4. Made(c, "poll", Named(tracked.operation), pollTimer, None, FALSE)
        BY <1>1, <2>3, CallsMade
    <2> QED
        BY <2>2, <2>3, <2>4 DEF Made, Quiet, Opening, Completing, Reading
<1>4. \A d \in calls' : d \in calls \/ (d \in CallRecord /\ Quiet(d))
    BY <1>2, <1>3
<1>5. RendererTypes' /\ ResultsBelongToSelection'
    BY <1>2, <1>4 DEF RendererInv, RendererTypes, ResultsBelongToSelection, main
<1> QED
    BY <1>2, <1>4, <1>5, QuietStep DEF main

\* A poll brings a newer state, or is tried again.
LEMMA PollArrivesKeeps ==
    ASSUME RendererInv, NEW c \in calls, PollArrives(c)
    PROVE  RendererInv'
<1>1. /\ c.then = "poll" /\ c.reply # None
      /\ UNCHANGED <<main, selected, pendingOperation, epoch, disposed, dialog,
                     createError, commands, restarts>>
    BY DEF PollArrives, Arrived
<1>2. c.epoch \in Nat /\ (c.reply.ok => c.reply.subject \in Snapshots /\ Past(c.reply.subject))
    BY <1>1, CallFacts DEF Replies, Grounded, Reading
<1>3. PICK t, others : t = c.reply.subject /\ others = Others(c)
    OBVIOUS
<1>4. others \in SUBSET calls
    BY <1>3 DEF Others
<1>5. /\ pollTimer \in Nat \cup {None} /\ held \subseteq [operation : Operations, id : Nat]
      /\ shown \in [Views -> Places]
    BY DEF RendererInv, RendererTypes
<1>6. CASE /\ \/ tracked' = tracked
              \/ c.reply.ok /\ Newer(t) /\ tracked' = t
           /\ Scheduled(c.epoch) \/ pollTimer' = pollTimer
           /\ Dropped(c) /\ UNCHANGED <<held, intent, shown>>
    <2>1. calls' \subseteq calls /\ pollTimer' \in Nat \cup {None}
        BY <1>2, <1>5, <1>6 DEF Dropped, Others, Scheduled
    <2>2. ClaimsSound'
        BY <1>1, <1>6, <2>1, ClaimsStep
    <2>3. /\ tracked' = None <=> tracked = None
          /\ tracked' # None => tracked' = tracked \/ (tracked' \in Snapshots /\ Past(tracked'))
        <3>1. t # None \/ ~c.reply.ok
            BY <1>2, <1>3, RendererAssumption
        <3> QED
            BY <1>2, <1>3, <1>6, <3>1 DEF Newer
    <2> QED
        BY <1>1, <1>5, <1>6, <2>1, <2>2, <2>3, FollowStep DEF main
<1>7. CASE c.reply.ok /\ ApplySnapshot(t, c.epoch, others)
    BY <1>1, <1>2, <1>3, <1>4, <1>7, SnapshotApplied
<1> QED
    BY <1>3, <1>6, <1>7 DEF PollArrives

\* The environments were read again.  The one call that follows the stop of a
\* restart uses its claim up.
LEMMA ListArrivesKeeps ==
    ASSUME RendererInv, NEW c \in calls, ListArrives(c)
    PROVE  RendererInv'
<1>1. /\ c.then = "list" /\ c.reply # None
      /\ UNCHANGED <<tracking, main, selected, intent, held, disposed, shown, dialog,
                     createError, commands>>
    BY DEF ListArrives, Arrived
<1>2. /\ c \in CallRecord /\ c.epoch \in Nat /\ c.subject \in Snapshots /\ Past(c.subject)
      /\ c.restart => c.subject.kind = "stop" /\ c.subject.status = "succeeded"
    BY <1>1, CallFacts DEF Grounded
<1>3. PICK d0, d1, d2 :
         /\ d0 = InFlight("installed", Named(None), selected, c.epoch)
         /\ d1 = [d0 EXCEPT !.next = "after apply"]
         /\ d2 = InFlight("start after stop", c.subject, selected, dialog)
    OBVIOUS
<1>4. \A d \in calls' : d \in calls \ {c} \/ d = d1 \/ d = d2
    BY <1>3 DEF ListArrives, Others
<1>5. d1 \in CallRecord /\ Quiet(d1) /\ d2 \in CallRecord /\ Quiet(d2)
    <2>1. /\ Named(None) \in Snapshots /\ "installed" \in Thens /\ selected \in Places
          /\ "start after stop" \in Thens /\ dialog \in Nat /\ "after apply" \in Nexts
        BY NamedIsSnapshot DEF Thens, Direct, Places, Nexts, RendererInv, RendererTypes
    <2>2. Made(d0, "installed", Named(None), c.epoch, None, FALSE)
        BY <1>2, <1>3, <2>1, CallsMade
    <2>3. /\ d1 \in CallRecord /\ d1.then = d0.then /\ d1.next = "after apply"
          /\ d1.reply = d0.reply
        BY <1>3, <2>1, <2>2 DEF Made, CallRecord
    <2>4. Quiet(d1)
        BY <2>2, <2>3 DEF Made, Quiet, Opening, Completing, Reading
    <2>5. PICK t : t = c.subject
        OBVIOUS
    <2>6. Made(d2, "start after stop", t, dialog, None, FALSE)
        BY <1>2, <1>3, <2>1, <2>5, CallsMade
    <2> QED
        BY <2>3, <2>4, <2>6 DEF Made, Quiet, Opening, Completing, Reading
<1>6. RendererTypes' /\ ResultsBelongToSelection'
    BY <1>1, <1>4, <1>5 DEF RendererInv, RendererTypes, ResultsBelongToSelection, tracking, main
<1>7. \/ restarts' = restarts
      \/ /\ c.restart
         /\ restarts' = restarts \cup {[stop |-> c.subject, environment |-> selected,
                                        number |-> Cardinality(restarts)]}
    BY DEF ListArrives
<1>8. CASE restarts' = restarts
    BY <1>1, <1>4, <1>5, <1>6, <1>8, QuietStep DEF tracking, main
<1>9. CASE c.restart /\ restarts' = restarts \cup {[stop |-> c.subject,
                              environment |-> selected, number |-> Cardinality(restarts)]}
    <2>0. PICK new : new = [stop |-> c.subject, environment |-> selected,
                            number |-> Cardinality(restarts)]
        OBVIOUS
    <2>1. /\ restarts' = restarts \cup {new} /\ new.stop = c.subject
        BY <1>9, <2>0
    <2>2. PICK o : o = c.subject.operation
        OBVIOUS
    <2>3. o \in Operations /\ Claims(c, o) /\ new.stop.operation = o
        BY <1>1, <1>2, <1>9, <2>1, <2>2 DEF Past, Known, Claims
    <2>4. \A d : Quiet(d) => /\ Grounded(d) /\ ~Opening(d) /\ d.then # "subscribe"
                            /\ \A p : ~Claims(d, p)
        BY DEF Quiet, Grounded, Claims, Completing
    <2>5. /\ served' = served /\ events' = events /\ tracked' = tracked
          /\ pendingOperation' = pendingOperation /\ epoch' = epoch /\ intent' = intent
        BY <1>1 DEF tracking, main
    <2>6. ServedSound' /\ KnowledgeSound'
        <3>1. /\ (\A t : Past(t) <=> Past(t)') /\ (\A p : Known(p) <=> Known(p)')
              /\ (\A d : Grounded(d) <=> Grounded(d)') /\ ServedSound'
            BY <2>5, ServedRests
        <3>2. Past(new.stop)' /\ new.stop.kind = "stop" /\ new.stop.status = "succeeded"
            <4>1. PICK t : t = new.stop
                OBVIOUS
            <4>2. Past(t)
                BY <1>2, <2>1, <4>1
            <4>3. Past(t)'
                BY <3>1, <4>2
            <4> QED
                BY <1>2, <1>9, <2>1, <2>5, <4>1, <4>3 DEF Past, Known
        <3> QED
            BY <1>4, <1>5, <2>1, <2>4, <2>5, <3>1, <3>2, KnowledgeStep
    <2>7. TrackSound'
        BY <1>4, <1>5, <2>4, <2>5, TrackStep
    <2>8. ClaimsSound'
        <3>1. \A d, p : Claims(d, p)' = Claims(d, p)
            BY DEF Claims, IsCommand
        <3>2. \A p \in Operations : \A d \in calls' : Claims(d, p) => d \in calls /\ d # c
            BY <1>4, <1>5, <2>4
        <3>3. intent # o /\ \A r \in restarts : r.stop.operation # o
            BY <2>3 DEF RendererInv, ClaimsSound
        <3>4. \A d \in calls : Claims(d, o) => d = c
            BY <2>3 DEF RendererInv, ClaimsSound
        <3> QED
            BY <2>1, <2>3, <2>5, <3>1, <3>2, <3>3, <3>4 DEF RendererInv, ClaimsSound
    <2> QED
        BY <1>6, <2>6, <2>7, <2>8 DEF RendererInv
<1> QED
    BY <1>7, <1>8, <1>9

\* An event ends the tracked operation.
LEMMA EventArrivesKeeps ==
    ASSUME RendererInv, NEW v \in events, EventArrives(v)
    PROVE  RendererInv'
<1>1. /\ events' = events \ {v}
      /\ UNCHANGED <<served, subscribed, selected, pendingOperation, trackingError,
                     paused, epoch, failures, disposed, dialog, createError, commands,
                     restarts>>
    BY DEF EventArrives
<1>2. v.subject \in Snapshots /\ Past(v.subject) /\ epoch \in Nat
    BY DEF RendererInv, RendererTypes, KnowledgeSound
<1>3. /\ pollTimer \in Nat \cup {None} /\ held \subseteq [operation : Operations, id : Nat]
      /\ shown \in [Views -> Places]
    BY DEF RendererInv, RendererTypes
<1>4. PICK t : t = [tracked EXCEPT !.status = v.subject.status,
                                   !.sequence = v.subject.sequence]
    OBVIOUS
<1>5. CASE /\ tracked # None /\ tracked.operation = v.subject.operation
           /\ tracked' = t /\ CompleteTracking(t, epoch, calls)
    <2>1. tracked \in Snapshots /\ Past(tracked)
        BY <1>5 DEF RendererInv, RendererTypes, KnowledgeSound
    <2>2. t \in Snapshots /\ Past(t)
        <3>1. v.subject.status \in Statuses \cup {None} /\ v.subject.sequence \in Nat
            BY <1>2 DEF Snapshots, Past
        <3>2. /\ t \in Snapshots /\ t.operation = tracked.operation /\ t.kind = tracked.kind
              /\ t.environment = tracked.environment /\ t.status = v.subject.status
              /\ t.sequence = v.subject.sequence
            BY <1>4, <2>1, <3>1 DEF Snapshots
        <3> QED
            BY <1>2, <1>5, <2>1, <3>2 DEF Past
    <2>3. t # None
        BY <2>2, RendererAssumption
    <2>4. PICK others \in SUBSET calls : others = calls
        OBVIOUS
    <2>5. CompleteTracking(t, epoch, others)
        BY <1>5, <2>4
    <2>6. /\ \A d \in calls' : d \in calls \/ Follows(d)
          /\ intent' \in {intent, None} /\ ClaimsSound'
          /\ shown' \in [Views -> Places] /\ shown'["patch"] = shown["patch"]
          /\ shown'["composition"] \in {shown["composition"], selected}
          /\ pollTimer' = None /\ held' \subseteq held
        BY <1>1, <1>2, <2>2, <2>5, CompleteTrackingKeeps
    <2> QED
        BY <1>1, <1>3, <1>5, <2>2, <2>3, <2>6, FollowStep
<1>6. CASE UNCHANGED <<tracked, held, intent, shown, pollTimer, calls>>
    <2>1. ClaimsSound'
        BY <1>1, <1>6, ClaimsStep
    <2> QED
        BY <1>1, <1>3, <1>6, <2>1, FollowStep
<1> QED
    BY <1>4, <1>5, <1>6 DEF EventArrives

\* What the user does.
LEMMA UserKeeps ==
    ASSUME RendererInv, UserNext
    PROVE  RendererInv'
<1>1. selected \in Places /\ Everywhere \in Places /\ shown \in [Views -> Places]
    BY DEF RendererInv, RendererTypes, Places
<1>2. /\ {"start", "stop", "switch", "search", "inspect", "versions", "composition", "preview",
          "apply", "restore"} \subseteq Kinds
      /\ Direct = {"webUI", "export", "patch", "installed", "generations"}
    BY DEF Kinds, Global, Direct
<1>3. CASE StartOrStop("start") \/ StartOrStop("stop")
    BY <1>1, <1>2, <1>3, SendsKeeps DEF StartOrStop
<1>4. CASE SwitchVersion \/ LoadExpectedComposition \/ PreviewPluginChange \/ RestoreGeneration
    BY <1>1, <1>2, <1>4, SendsKeeps
    DEF SwitchVersion, LoadExpectedComposition, PreviewPluginChange, RestoreGeneration
<1>5. CASE RunPluginSearch \/ InspectSelectedPlugin \/ LoadDshVersions
    BY <1>1, <1>2, <1>5, SendsKeeps DEF RunPluginSearch, InspectSelectedPlugin, LoadDshVersions
<1>6. CASE ApplyPluginChange
    <2>1. PICK n : n = shown["plan"]
        OBVIOUS
    <2>2. n \in Places /\ Sends("apply", n) /\ intent' = intent
        BY <1>1, <1>6, <2>1 DEF ApplyPluginChange, Views
    <2> QED
        BY <1>2, <2>2, SendsKeeps
<1>7. CASE AskWebUI \/ ExportDiagnostics \/ EditEntry \/ LoadInstalledPlugins \/ LoadGenerations
    BY <1>1, <1>2, <1>7, SendsKeeps
    DEF AskWebUI, ExportDiagnostics, EditEntry, LoadInstalledPlugins, LoadGenerations
<1>8. CASE RestartSelected \/ Create \/ ClearCreateError \/ ChooseSource \/ CancelTracked
    BY <1>8, RestartSelectedKeeps, DialogKeeps, ChooseSourceKeeps, CancelTrackedKeeps
<1>9. CASE RetryTracking \/ Dispose
    BY <1>9, RetryTrackingKeeps, DisposeKeeps
<1>10. CASE \E n \in Environment : SelectEnvironment(n)
    BY <1>10, SelectKeeps
<1> QED
    BY <1>3, <1>4, <1>5, <1>6, <1>7, <1>8, <1>9, <1>10 DEF UserNext

\* The controller is right about what was and is in flight, whatever arrives when.
THEOREM RendererInvariant == RendererSpec => []RendererInv
<1>1. RendererInit => RendererInv
    <2> SUFFICES ASSUME RendererInit PROVE RendererInv
        OBVIOUS
    <2>1. selected \in Environment
        BY RendererAssumption DEF RendererInit
    <2>2. RendererTypes
        BY <2>1 DEF RendererInit, RendererTypes, Places
    <2>3. ServedSound /\ KnowledgeSound /\ TrackSound /\ ClaimsSound
        BY DEF RendererInit, ServedSound, KnowledgeSound, TrackSound, ClaimsSound
    <2>4. ResultsBelongToSelection
        BY DEF RendererInit, ResultsBelongToSelection, Views
    <2> QED
        BY <2>2, <2>3, <2>4 DEF RendererInv
<1>2. RendererInv /\ [RendererNext]_rendererVars => RendererInv'
    <2> SUFFICES ASSUME RendererInv, [RendererNext]_rendererVars PROVE RendererInv'
        OBVIOUS
    <2>1. CASE UserNext
        BY <2>1, UserKeeps
    <2>2. ASSUME NEW c \in calls, Serve(c) \/ Refuse(c)
          PROVE  RendererInv'
        BY <2>2, ServeKeeps, RefuseKeeps
    <2>3. ASSUME NEW c \in calls, Arrives(c)
          PROVE  RendererInv'
        BY <2>3, CommandAcceptedKeeps, CommandRefusedKeeps, ResultArrivesKeeps,
           SnapshotArrivesKeeps, SubscribeArrivesKeeps, ReleaseArrivesKeeps, CancelArrivesKeeps,
           PollArrivesKeeps, ListArrivesKeeps DEF Arrives
    <2>4. ASSUME NEW o \in Operations, OperationMoves(o)
          PROVE  RendererInv'
        BY <2>4, OperationMovesKeeps
    <2>5. ASSUME NEW v \in events, EventArrives(v)
          PROVE  RendererInv'
        BY <2>5, EventArrivesKeeps
    <2>6. CASE PollTimer
        BY <2>6, PollTimerKeeps
    <2>7. CASE UNCHANGED rendererVars
        <3>1. /\ UNCHANGED <<tracked, pendingOperation, epoch, served, restarts, events, intent,
                             calls, selected, pollTimer, held, shown, dialog, createError,
                             subscribed>>
            BY <2>7 DEF rendererVars
        <3>2. RendererTypes' /\ ResultsBelongToSelection'
            BY <3>1 DEF RendererInv, RendererTypes, ResultsBelongToSelection
        <3> QED
            BY <3>1, <3>2, QuietStep
    <2> QED
        BY <2>1, <2>2, <2>3, <2>4, <2>5, <2>6, <2>7 DEF RendererNext
<1> QED
    BY <1>1, <1>2, PTL DEF RendererSpec

\* What is shown of an environment or of a dialog is of the selected environment
\* and of the open dialog, in whatever order replies arrive.
THEOREM ResultsAreOfSelection == RendererSpec => []ResultsBelongToSelection
<1>1. RendererInv => ResultsBelongToSelection
    BY DEF RendererInv
<1> QED
    BY <1>1, RendererInvariant, PTL

\* A restart starts once, behind its own stop, and only if that stop succeeded.
THEOREM RestartsAfterStop == RendererSpec => []RestartAfterItsStop
<1>1. RendererInv => RestartAfterItsStop
    <2> SUFFICES ASSUME RendererInv, NEW r \in restarts
                 PROVE  /\ r.stop.kind = "stop"
                        /\ served[r.stop.operation].status = "succeeded"
                        /\ \A q \in restarts : q.stop.operation = r.stop.operation => q = r
        BY DEF RestartAfterItsStop
    <2>1. Past(r.stop) /\ r.stop.kind = "stop" /\ r.stop.status = "succeeded"
        BY DEF RendererInv, KnowledgeSound
    <2> QED
        BY <2>1 DEF Past, RendererInv, ClaimsSound
<1> QED
    BY <1>1, RendererInvariant, PTL

\* What may replace the operation on display.
Later(t) ==
    /\ t.operation = tracked.operation /\ t.sequence >= tracked.sequence
    /\ tracked.status \in Ended => t.status = tracked.status

\* A newer state of an operation that is shown as ended is the same state.
LEMMA NewerIsLater ==
    ASSUME RendererInv, tracked # None, NEW t, Past(t), Newer(t)
    PROVE  Later(t)
<1>1. Past(tracked)
    BY DEF RendererInv, KnowledgeSound
<1>2. t.operation = tracked.operation /\ t.sequence >= tracked.sequence
    BY DEF Newer
<1>3. /\ Known(tracked.operation)
      /\ served[tracked.operation].sequence \in Nat
    BY <1>1 DEF Past, Known, RendererInv, ServedSound
<1>4. "running" \notin Ended
    BY DEF Ended
<1> QED
    BY <1>1, <1>2, <1>3, <1>4 DEF Later, Past

\* What applySnapshot shows is never older than what it replaces.
LEMMA AppliedIsLater ==
    ASSUME RendererInv, tracked # None, NEW t, Past(t), NEW e, NEW others,
           ApplySnapshot(t, e, others)
    PROVE  tracked' = tracked \/ Later(tracked')
    BY NewerIsLater DEF ApplySnapshot

\* The operation on display never goes back.
THEOREM TrackedIsMonotone == RendererSpec => TrackedNeverRegresses
<1>1. ASSUME RendererInv, [RendererNext]_rendererVars,
             tracked # None, tracked' # None, epoch' = epoch
      PROVE  tracked' = tracked \/ Later(tracked')
    <2>1. epoch \in Nat /\ epoch + 1 # epoch
        BY <1>1 DEF RendererInv, RendererTypes
    <2>2. CASE UserNext
        <3>1. CASE RetryTracking
            BY <1>1, <2>1, <3>1 DEF RetryTracking, Track
        <3>2. CASE UserNext /\ ~RetryTracking
            BY <3>2 DEF UserNext, StartOrStop, SwitchVersion, RunPluginSearch,
               InspectSelectedPlugin, LoadDshVersions, LoadExpectedComposition,
               PreviewPluginChange, ApplyPluginChange, RestoreGeneration, AskWebUI,
               ExportDiagnostics, EditEntry, LoadInstalledPlugins, LoadGenerations, Sends,
               RestartSelected, Create, ClearCreateError, ChooseSource, CancelTracked, Dispose,
               SelectEnvironment, tracking
        <3> QED
            BY <2>2, <3>1, <3>2
    <2>3. ASSUME NEW c \in calls, Serve(c) \/ Refuse(c)
          PROVE  tracked' = tracked
        BY <2>3 DEF Serve, Refuse, tracking
    <2>4. ASSUME NEW c \in calls, Arrives(c)
          PROVE  tracked' = tracked \/ Later(tracked')
        <3>1. c.reply # None /\ c.reply.ok /\ Reading(c) => Past(c.reply.subject)
            BY <1>1, CallFacts DEF Grounded
        <3>2. CASE CommandAccepted(c)
            BY <2>1, <1>1, <3>2 DEF CommandAccepted, Track
        <3>3. CASE SnapshotArrives(c)
            <4>1. Opening(c)
                BY <3>3 DEF SnapshotArrives, Opening
            <4>2. c.epoch # epoch
                BY <1>1, <4>1 DEF RendererInv, TrackSound
            <4> QED
                BY <3>3, <4>2 DEF SnapshotArrives, Current, tracking
        <3>4. CASE CancelArrives(c)
            <4>1. PICK t : t = c.reply.subject
                OBVIOUS
            <4>2. \/ tracked' = tracked
                  \/ Past(t) /\ ApplySnapshot(t, c.epoch, Others(c))
                BY <3>1, <3>4, <4>1 DEF CancelArrives, Arrived, Reading
            <4> QED
                BY <1>1, <4>2, AppliedIsLater
        <3>5. CASE PollArrives(c)
            <4>1. PICK t : t = c.reply.subject
                OBVIOUS
            <4>2. \/ tracked' = tracked
                  \/ Past(t) /\ ApplySnapshot(t, c.epoch, Others(c))
                  \/ Past(t) /\ Newer(t) /\ tracked' = t
                BY <3>1, <3>5, <4>1 DEF PollArrives, Arrived, Reading
            <4> QED
                BY <1>1, <4>2, AppliedIsLater, NewerIsLater
        <3> QED
            BY <2>4, <3>2, <3>3, <3>4, <3>5
            DEF Arrives, CommandRefused, ResultArrives, SubscribeArrives, ReleaseArrives,
                ListArrives, tracking
    <2>5. ASSUME NEW o \in Operations, OperationMoves(o)
          PROVE  tracked' = tracked
        BY <2>5 DEF OperationMoves, tracking
    <2>6. ASSUME NEW v \in events, EventArrives(v)
          PROVE  tracked' = tracked \/ Later(tracked')
        <3>1. CASE tracked' # tracked
            <4>1. PICK t : t = [tracked EXCEPT !.status = v.subject.status,
                                               !.sequence = v.subject.sequence]
                OBVIOUS
            <4>2. /\ tracked.operation = v.subject.operation
                  /\ v.subject.sequence > tracked.sequence /\ tracked' = t
                BY <2>6, <3>1, <4>1 DEF EventArrives
            <4>3. tracked \in Snapshots /\ Past(tracked) /\ Past(v.subject)
                BY <1>1 DEF RendererInv, RendererTypes, KnowledgeSound
            <4>4. t.operation = tracked.operation /\ t.sequence = v.subject.sequence
                BY <4>1, <4>3 DEF Snapshots
            <4>5. served[tracked.operation].sequence \in Nat
                BY <1>1, <4>3 DEF Past, Known, RendererInv, ServedSound
            <4>6. tracked.status = "running"
                BY <4>2, <4>3, <4>5 DEF Past
            <4> QED
                BY <4>2, <4>3, <4>4, <4>6 DEF Later, Ended, Past
        <3> QED
            BY <3>1
    <2>7. CASE PollTimer
        BY <2>7 DEF PollTimer
    <2>8. CASE UNCHANGED rendererVars
        BY <2>8 DEF rendererVars
    <2> QED
        BY <1>1, <2>2, <2>3, <2>4, <2>5, <2>6, <2>7, <2>8 DEF RendererNext
<1>2. ASSUME RendererInv, [RendererNext]_rendererVars
      PROVE  [tracked # None /\ tracked' # None /\ epoch' = epoch
                 => /\ tracked'.operation = tracked.operation
                    /\ tracked'.sequence >= tracked.sequence
                    /\ tracked.status \in Ended => tracked'.status = tracked.status]_rendererVars
    <2>1. SUFFICES ASSUME tracked # None, tracked' # None, epoch' = epoch
                   PROVE  /\ tracked'.operation = tracked.operation
                          /\ tracked'.sequence >= tracked.sequence
                          /\ tracked.status \in Ended => tracked'.status = tracked.status
        OBVIOUS
    <2>2. tracked' = tracked \/ Later(tracked')
        BY <1>1, <1>2, <2>1
    <2>3. tracked.sequence \in Nat
        BY <1>2, <2>1 DEF RendererInv, KnowledgeSound, Past
    <2> QED
        BY <2>2, <2>3 DEF Later
<1> QED
    BY <1>2, RendererInvariant, PTL DEF RendererSpec, TrackedNeverRegresses
=============================================================================
