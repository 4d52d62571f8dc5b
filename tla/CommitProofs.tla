----------------------------- MODULE CommitProofs -----------------------------
(***************************************************************************)
(* A transaction commits as a whole: what its operation says, what the     *)
(* generations directory holds, where the environment points and what      *)
(* became of the plan agree, for every set of environments, requests and   *)
(* plans and any number of crashes, while the disk refuses no write.  And  *)
(* the ledger record of its request is settled.                            *)
(***************************************************************************)
EXTENDS OutcomeProofs

(***************************************************************************)
(* The outcome of a request is what happened to its generation and plan:   *)
(* the inductive invariant.                                                *)
(***************************************************************************)
Has(o, s) == operations[o].status = s \/ Becomes(o, s)
\* No waiting write moves the pointer of e away from o.
Stays(e, o) ==
  \A w \in Waiting : w.store = "environments" /\ w.key = e => w.val.gen = o
\* The journal of o is, or will be, that of an apply of plan p.
Uses(o, p) ==
  \/ journals[o].kind = "apply" /\ journals[o].plan = p
  \/ \E w \in Waiting : /\ w.store = "journals" /\ w.key = o
                        /\ w.val.kind = "apply" /\ w.val.plan = p
Spends(o, p) == \E w \in Waiting : w.store = "plans" /\ w.key = p /\ w.val = o

\* A task runs as long as its operation is neither failed nor succeeded; a
\* cancelled operation of a live task has an aborted one.
LiveIsUnsettled(o) ==
  Live(o) => /\ ~Has(o, "failed") /\ ~Has(o, "succeeded")
             /\ Has(o, "cancelled") => o \in aborted
AbortedApplyEnds(o) ==
  o \in aborted /\ Unfinished(o) /\ (\E e \in Env : Belongs(o, "apply", e)) => Ends(o)

\* A block writes one end of an operation, and a success stays one.
EndsOnce(o) ==
  /\ \A s, t \in Terminal : Becomes(o, s) /\ Becomes(o, t) => s = t
  /\ operations[o].status = "succeeded" =>
       \A w \in Waiting : w.store = "operations" /\ w.key = o => w.val.status = "succeeded"

\* A generation is staged for a live task and settled while its journal is
\* open; the journal of an unfinished operation is closed with its end.
SettledWhileOpen(o) ==
  /\ Builds(o, "staged") => Live(o)
  /\ Builds(o, "absent") \/ Builds(o, "recorded") => journals[o].kind \in Built
  /\ Unfinished(o) /\ generations[o] = "recorded" => journals[o].kind \in Built
  /\ Closes(o) /\ Unfinished(o) => Ends(o)

\* Recovery still has to look at the journal of o.
Left(o) == ~Serving /\ ~Closes(o)

\* The outcomes.
FailedIsGivenUp(o) ==
  Has(o, "failed") =>
    /\ \A e \in Env : ~PointsTo(e, o)
    /\ generations[o] # "absent" \/ Builds(o, "recorded")
         => Builds(o, "absent") \/ (Left(o) /\ journals[o].kind \in Built)
CancelledIsGivenUp(o) ==
  (\E e \in Env : Belongs(o, "apply", e)) /\ Has(o, "cancelled")
    => generations[o] # "recorded" /\ ~Builds(o, "recorded")
SucceededIsRecorded(o) ==
  (\E k \in {"create", "apply"}, e \in Env : Belongs(o, k, e)) /\ Has(o, "succeeded") =>
    /\ generations[o] = "recorded"
         \/ (operations[o].status # "succeeded" /\ RecordsFirst(o))
    /\ ~Builds(o, "absent")
SucceededIsCommitted(o) ==
  \A k \in Built, e \in Env : Keeps(o, k, e) /\ Has(o, "succeeded") =>
    /\ operations[o].status = "succeeded" => environments[e].gen = o
    /\ PointsTo(e, o) /\ Stays(e, o)

\* The plans.
PlanIsOwn(o) ==
  \A p \in Plan : Uses(o, p) =>
    /\ \A q \in Plan : Uses(o, q) => q = p
    /\ \A e \in Env : Keeps(o, "apply", e) => e = PlanFor[p]
    /\ plans[p] \in {None, o}
SpendsOwn(o) ==
  \A p \in Plan : Spends(o, p) =>
    /\ journals[o].kind = "apply" /\ journals[o].plan = p
    /\ PointsTo(PlanFor[p], o) /\ Stays(PlanFor[p], o)
    /\ Has(o, "succeeded")
SpentIsCommitted(o) ==
  \A p \in Plan : plans[p] = o =>
    /\ Belongs(o, "apply", PlanFor[p])
    /\ \/ operations[o].status = "succeeded"
       \/ /\ journals[o].kind = "apply" /\ journals[o].plan = p
          /\ environments[PlanFor[p]].gen = o /\ Stays(PlanFor[p], o)
          /\ Becomes(o, "succeeded") \/ Left(o)
SucceededSpends(o) ==
  (\E e \in Env : Belongs(o, "apply", e)) /\ Has(o, "succeeded") =>
    \/ \E p \in Plan : plans[p] = o \/ Spends(o, p)
    \/ Left(o) /\ journals[o].kind = "apply"

Honest(o) ==
  /\ LiveIsUnsettled(o) /\ AbortedApplyEnds(o) /\ EndsOnce(o) /\ SettledWhileOpen(o)
  /\ FailedIsGivenUp(o) /\ CancelledIsGivenUp(o)
  /\ SucceededIsRecorded(o) /\ SucceededIsCommitted(o)
  /\ PlanIsOwn(o) /\ SpendsOwn(o) /\ SpentIsCommitted(o) /\ SucceededSpends(o)

\* A generation is recorded by the first write of a block, and no pointer moves
\* after a plan is consumed.
Follows(v, w) ==
  /\ ~(w.store = "generations" /\ w.val = "recorded")
  /\ v.store = "plans" => w.store # "environments"
Orderly(s) == \A i, j \in 1..Len(s) : i < j => Follows(s[i], s[j])

HonestInv == Orderly(todo) /\ \A o \in Op : Honest(o)

LEMMA HonestInit == Init => HonestInv
<1> SUFFICES ASSUME Init PROVE HonestInv
  OBVIOUS
<1>1. Waiting = {} /\ todo = <<>>
  BY FewWrites DEF Init, Waiting
<1>2. Orderly(todo)
  BY <1>1 DEF Orderly
<1>3. ASSUME NEW o \in Op PROVE Honest(o)
  <2>1. /\ operations[o].status = "absent" /\ operations[o].kind = "none"
        /\ journals[o].kind = "none" /\ generations[o] = "absent"
        /\ ~controllers[o] /\ aborted = {} /\ ~Serving
        /\ \A p \in Plan : plans[p] = None
    BY <1>3 DEF Init, NoOperation, NoJournal, Serving
  <2>2. o # None
    BY NoneAssumption
  <2> QED BY <1>1, <2>1, <2>2
      DEF Honest, LiveIsUnsettled, AbortedApplyEnds, EndsOnce, SettledWhileOpen, FailedIsGivenUp,
          CancelledIsGivenUp, SucceededIsRecorded, SucceededIsCommitted, PlanIsOwn, SpendsOwn,
          SpentIsCommitted, SucceededSpends, Live, Has, Becomes, Unfinished, Builds, Closes,
          Belongs, Keeps, Uses, Spends, Built, CoreTransactions
<1> QED BY <1>2, <1>3 DEF HonestInv

(***************************************************************************)
(* The writes reach their stores.                                          *)
(***************************************************************************)
LEMMA PlanLanding ==
  ASSUME TypeOK, Persist, NEW p \in Plan
  PROVE  LET w == Head(todo)
         IN  /\ plans'[p] = IF w.store = "plans" /\ w.key = p THEN w.val ELSE plans[p]
             /\ plans'[p] # plans[p] => Spends(plans'[p], p)
<1>1. todo # <<>> /\ todo \in Script
  BY DEF Persist, TypeOK, Script
<1>2. Head(todo) \in Waiting
  BY <1>1, HeadAndRest DEF Waiting
<1>3. plans' = Stored("plans", plans) /\ plans \in [Plan -> Op \cup {None}]
  BY DEF Persist, TypeOK
<1>4. plans'[p] = IF Head(todo).store = "plans" /\ Head(todo).key = p
                    THEN Head(todo).val ELSE plans[p]
  BY <1>3 DEF Stored
<1> QED BY <1>2, <1>4 DEF Spends

\* Nothing is said that was not said before, and no promise is broken.
LEMMA SoonLands ==
  ASSUME TypeOK, StoresInv, StaysKnown, NEW w, Lands(w), NEW o \in Op
  PROVE  /\ \A s : Has(o, s)' => Has(o, s)
         /\ \A e \in Env : Stays(e, o) => Stays(e, o)'
         /\ \A p \in Plan : (Uses(o, p)' => Uses(o, p)) /\ (Spends(o, p)' => Spends(o, p))
         /\ Left(o) => Left(o)'
         /\ Has(o, "succeeded") /\ EndsOnce(o) => Has(o, "succeeded")'
         /\ operations[o].status = "succeeded" /\ EndsOnce(o) =>
              operations'[o].status = "succeeded"
         /\ generations'[o] # generations[o] =>
              w = PutGeneration(o, generations'[o]) /\ Builds(o, generations'[o])
<1>1. \A s : Has(o, s)' => Has(o, s)
  BY OperationLands DEF Has
<1>2. \A e \in Env : Stays(e, o) => Stays(e, o)'
  BY DEF Stays, Lands
<1>3. \A p \in Plan : (Uses(o, p)' => Uses(o, p)) /\ (Spends(o, p)' => Spends(o, p))
  <2>1. w \in Waiting /\ (\A v \in Waiting' : v \in Waiting)
    BY DEF Lands
  <2>2. journals'[o] # journals[o] => w.store = "journals" /\ w.key = o /\ journals'[o] = w.val
    BY Effect
  <2> QED BY <2>1, <2>2 DEF Uses, Spends
<1>4. Left(o) => Left(o)'
  <2>1. mode' = mode /\ (Closes(o)' => Closes(o))
    BY Shrinks, Effect
  <2> QED BY <2>1 DEF Left, Serving
<1>5. operations[o].status = "succeeded" /\ EndsOnce(o) => operations'[o].status = "succeeded"
  BY OperationLands, Effect DEF EndsOnce
<1>6. Becomes(o, "succeeded") => Has(o, "succeeded")'
  BY OperationLands DEF Has
<1>7. generations'[o] # generations[o] =>
        w = PutGeneration(o, generations'[o]) /\ Builds(o, generations'[o])
  <2>1. w \in WriteRecord
    BY DEF Lands
  <2>2. w.store = "generations" => w = [store |-> "generations", key |-> w.key, val |-> w.val]
    BY <2>1 DEF WriteRecord
  <2> QED BY <2>2, Effect DEF PutGeneration, Write
<1> QED BY <1>1, <1>2, <1>3, <1>4, <1>5, <1>6, <1>7 DEF Has

\* A journal is replaced by one that says the same, or removed by the last write
\* about its transaction.
LEMMA JournalLands ==
  ASSUME TypeOK, StoresInv, NEW w, Lands(w), NEW o \in Op
  PROVE  /\ \/ journals'[o].kind = journals[o].kind \/ journals[o].kind \notin Kinds
            \/ /\ journals'[o].kind = "none" /\ Closes(o)
               /\ \A v \in Waiting' : v.store = "ledger"
         /\ ~Serving => journals'[o] = journals[o] \/ Closes(o)
<1>1. CASE journals'[o] = journals[o]
  BY <1>1
<1>2. CASE journals'[o] # journals[o]
  <2>0. w.store = "journals" /\ w.key = o /\ journals'[o] = w.val /\ w \in Waiting
    BY <1>2, Effect
  <2>1. /\ w.store = "journals" /\ w.key = o /\ journals'[o] = w.val /\ w \in Waiting
        /\ w.val \in JournalRecord
    BY <2>0, WriteFields DEF Lands
  <2>2. CASE w.val.kind = "none"
    <3>1. Closes(o) /\ \A v \in Waiting' : v.store = "ledger"
      BY <2>1, <2>2 DEF Closes, Lands, Before
    <3> QED BY <2>1, <2>2, <3>1
  <2>3. CASE w.val.kind # "none"
    <3>1. w.val.kind \in Kinds /\ w.val.env \in Env
      BY <2>1, <2>3 DEF JournalRecord, NoJournal, Kinds, CoreTransactions
    <3>2. Keeps(o, w.val.kind, w.val.env)
      BY <2>1 DEF Keeps
    <3>3. ASSUME journals[o].kind \in Kinds PROVE journals[o].kind = w.val.kind
      <4>1. journals[o].env \in Env
        BY <3>3 DEF TypeOK, JournalRecord, NoJournal, Kinds
      <4>2. Keeps(o, journals[o].kind, journals[o].env)
        BY DEF Keeps
      <4> QED BY <3>1, <3>2, <3>3, <4>1, <4>2 DEF StoresInv, OneHome, Claims
    <3>4. Serving
      BY <2>1, <2>3 DEF StoresInv, NobodyLive
    <3> QED BY <2>1, <3>3, <3>4
  <2> QED BY <2>2, <2>3
<1> QED BY <1>1, <1>2

\* What a generation is written as was announced.
LEMMA MemoryLands ==
  ASSUME TypeOK, StoresInv, StaysKnown, NEW w, Lands(w), NEW o \in Op, Honest(o),
         UNCHANGED aborted
  PROVE  LiveIsUnsettled(o)' /\ AbortedApplyEnds(o)' /\ EndsOnce(o)'
<1>1. LiveIsUnsettled(o)'
  <2>1. Live(o)' <=> Live(o)
    BY Shrinks
  <2>2. \A s : Has(o, s)' => Has(o, s)
    BY SoonLands
  <2> QED BY <2>1, <2>2 DEF Honest, LiveIsUnsettled
<1>2. AbortedApplyEnds(o)'
  <2>1. "apply" \in Kinds
    BY DEF Kinds
  <2>2. \A e \in Env : Belongs(o, "apply", e)' => Belongs(o, "apply", e)
    BY <2>1, Shrinks
  <2>3. (Unfinished(o)' => Unfinished(o)) /\ (Unfinished(o)' /\ Ends(o) => Ends(o)')
    BY OperationLands
  <2> QED BY <2>2, <2>3 DEF Honest, AbortedApplyEnds
<1>3. EndsOnce(o)'
  <2>1. \A s : Becomes(o, s)' => Becomes(o, s)
    BY OperationLands
  <2>2. \A s, t \in Terminal : Becomes(o, s)' /\ Becomes(o, t)' => s = t
    BY <2>1 DEF Honest, EndsOnce
  <2>3. ASSUME operations'[o].status = "succeeded", NEW v \in Waiting',
               v.store = "operations", v.key = o
        PROVE  v.val.status = "succeeded"
    <3>1. v \in Waiting /\ v.val \in OperationRecord /\ Before(w, v)
      BY <2>3, WriteFields DEF Lands
    <3>2. CASE operations'[o] = operations[o]
      BY <2>3, <3>1, <3>2 DEF Honest, EndsOnce
    <3>3. CASE operations'[o] # operations[o]
      <4>1. /\ w.store = "operations" /\ w.key = o /\ w.val.status = "succeeded"
            /\ Becomes(o, "succeeded")
        BY <2>3, <3>3, OperationLands
      <4>2. Becomes(o, v.val.status) /\ v.val.status # "absent"
        BY <2>3, <3>1 DEF Becomes, StaysKnown
      <4>3. v.val.status # "active"
        BY <2>3, <3>1, <4>1 DEF Before
      <4>4. v.val.status \in Terminal /\ "succeeded" \in Terminal
        BY <3>1, <4>2, <4>3 DEF OperationRecord, NoOperation, Terminal
      <4> QED BY <4>1, <4>2, <4>4 DEF Honest, EndsOnce
    <3> QED BY <3>2, <3>3
  <2> QED BY <2>2, <2>3 DEF EndsOnce
<1> QED BY <1>1, <1>2, <1>3

LEMMA SettlementLands ==
  ASSUME TypeOK, StoresInv, StaysKnown, NEW w, Lands(w), NEW o \in Op, Honest(o)
  PROVE  SettledWhileOpen(o)'
<1>0. SettledWhileOpen(o)
  BY DEF Honest
<1>1. /\ Live(o)' <=> Live(o)
      /\ Closes(o)' => Closes(o)
      /\ \A s \in GenerationStates : Builds(o, s)' => Builds(o, s)
  BY Shrinks
<1>2. /\ Unfinished(o)' => Unfinished(o)
      /\ Unfinished(o)' /\ Ends(o) => Ends(o)'
  BY OperationLands
<1>3. "staged" \in GenerationStates /\ "absent" \in GenerationStates
      /\ "recorded" \in GenerationStates
  BY DEF GenerationStates
<1>4. \/ journals'[o].kind = journals[o].kind \/ journals[o].kind \notin Kinds
      \/ Closes(o) /\ \A v \in Waiting' : v.store = "ledger"
  BY JournalLands
<1>5. Built \subseteq Kinds
  BY DEF Built, CoreTransactions, Kinds
<1>6. ASSUME \/ Builds(o, "absent")' \/ Builds(o, "recorded")'
             \/ Unfinished(o)' /\ generations'[o] = "recorded"
      PROVE  journals'[o].kind \in Built
  <2>1. journals[o].kind \in Built
    <3>1. CASE Builds(o, "absent")' \/ Builds(o, "recorded")'
      BY <1>0, <1>1, <1>3, <3>1 DEF SettledWhileOpen
    <3>2. CASE Unfinished(o)' /\ generations'[o] = "recorded"
      <4>1. generations[o] = "recorded" \/ Builds(o, "recorded")
        BY <3>2, SoonLands
      <4> QED BY <1>0, <1>2, <3>2, <4>1 DEF SettledWhileOpen
    <3> QED BY <1>6, <3>1, <3>2
  <2>2. ASSUME Closes(o), \A v \in Waiting' : v.store = "ledger" PROVE FALSE
    <3>1. ~Builds(o, "absent")' /\ ~Builds(o, "recorded")' /\ ~Ends(o)'
      BY <2>2 DEF Builds, Ends, Becomes
    <3> QED BY <1>0, <1>2, <1>6, <2>2, <3>1 DEF SettledWhileOpen
  <2> QED BY <1>4, <1>5, <2>1, <2>2
<1> QED BY <1>0, <1>1, <1>2, <1>3, <1>6 DEF SettledWhileOpen

\* A generation of an operation that has failed or succeeded is not staged.
LEMMA NotStaged ==
  ASSUME NEW o \in Op, Honest(o), Has(o, "failed") \/ Has(o, "succeeded")
  PROVE  ~Builds(o, "staged")
  BY DEF Honest, LiveIsUnsettled, SettledWhileOpen

LEMMA FailureLands ==
  ASSUME TypeOK, StoresInv, StaysKnown, Persist, Lands(Head(todo)), Orderly(todo),
         NEW o \in Op, Honest(o)
  PROVE  FailedIsGivenUp(o)' /\ CancelledIsGivenUp(o)'
<1> DEFINE w == Head(todo)
<1>1. /\ \A e \in Env : PointsTo(e, o)' => PointsTo(e, o)
      /\ \A s \in GenerationStates : Builds(o, s)' => Builds(o, s)
  BY Shrinks
<1>2. /\ \A s : Has(o, s)' => Has(o, s)
      /\ Left(o) => Left(o)'
      /\ generations'[o] # generations[o] =>
           w = PutGeneration(o, generations'[o]) /\ Builds(o, generations'[o])
  BY SoonLands
<1>3. "absent" \in GenerationStates /\ "recorded" \in GenerationStates
      /\ generations'[o] \in GenerationStates
  BY <1>2, Effect DEF GenerationStates, TypeOK
<1>4. ASSUME Has(o, "failed")', generations'[o] # "absent" \/ Builds(o, "recorded")'
      PROVE  Builds(o, "absent")' \/ (Left(o)' /\ journals'[o].kind \in Built)
  <2>1. generations[o] # "absent" \/ Builds(o, "recorded")
    <3>1. generations'[o] # "absent" /\ generations[o] = "absent" => Builds(o, "recorded")
      BY <1>2, <1>3, <1>4, NotStaged DEF GenerationStates
    <3> QED BY <1>1, <1>3, <1>4, <3>1
  <2>2. Builds(o, "absent") \/ (Left(o) /\ journals[o].kind \in Built)
    BY <1>2, <1>4, <2>1 DEF Honest, FailedIsGivenUp
  <2>3. CASE Builds(o, "absent") /\ ~Builds(o, "absent")'
    <3>1. PICK v \in Waiting : v.store = "generations" /\ v.key = o /\ v.val = "absent"
      BY <2>3 DEF Builds
    <3>2. v = w
      BY <2>3, <3>1 DEF Builds, Lands
    <3>3. generations'[o] = "absent"
      BY <3>1, <3>2 DEF Lands
    <3>4. PICK u \in Waiting' : u.store = "generations" /\ u.key = o /\ u.val = "recorded"
      BY <1>4, <3>3 DEF Builds
    <3>5. todo \in Script /\ todo # <<>> /\ todo' = Tail(todo)
      BY DEF Persist, TypeOK, Script
    <3>6. PICK i \in 1..Len(Tail(todo)) : Tail(todo)[i] = u
      BY <3>5 DEF Waiting, ToSet
    <3>7. 1 \in 1..Len(todo) /\ i + 1 \in 1..Len(todo) /\ todo[i + 1] = u /\ 1 < i + 1
      BY <3>5, <3>6 DEF Script
    <3>8. Follows(todo[1], u)
      BY <3>7 DEF Orderly
    <3> QED BY <3>4, <3>8 DEF Follows
  <2>4. CASE Left(o) /\ journals[o].kind \in Built
    <3>1. Left(o)' /\ ~Serving /\ ~Closes(o)
      BY <1>2, <2>4 DEF Left
    <3>2. journals'[o] = journals[o]
      BY <3>1, JournalLands
    <3> QED BY <2>4, <3>1, <3>2
  <2> QED BY <2>2, <2>3, <2>4
<1>5. FailedIsGivenUp(o)'
  BY <1>1, <1>2, <1>4 DEF Honest, FailedIsGivenUp
<1>6. CancelledIsGivenUp(o)'
  <2>1. \A e \in Env : Belongs(o, "apply", e)' => Belongs(o, "apply", e)
    BY Shrinks DEF Kinds
  <2> QED BY <1>1, <1>2, <1>3, <2>1 DEF Honest, CancelledIsGivenUp
<1> QED BY <1>5, <1>6

LEMMA PointerLands ==
  ASSUME NEW w, Lands(w), NEW o, NEW e \in Env, Stays(e, o)
  PROVE  /\ environments[e].gen = o => environments'[e].gen = o
         /\ PointsTo(e, o) => PointsTo(e, o)'
<1>1. CASE w.store = "environments" /\ w.key = e
  <2>1. environments'[e] = w.val /\ w.val.gen = o
    BY <1>1 DEF Lands, Stays
  <2> QED BY <2>1 DEF PointsTo
<1>2. CASE ~(w.store = "environments" /\ w.key = e)
  <2>1. environments'[e] = environments[e]
    BY <1>2 DEF Lands
  <2> QED BY <1>2, <2>1 DEF PointsTo, Lands
<1> QED BY <1>1, <1>2

LEMMA SuccessLands ==
  ASSUME TypeOK, StoresInv, StaysKnown, Persist, Lands(Head(todo)), NEW o \in Op, Honest(o)
  PROVE  SucceededIsRecorded(o)' /\ SucceededIsCommitted(o)'
<1> DEFINE w == Head(todo)
<1>1. /\ \A k \in Kinds, e \in Env : /\ Belongs(o, k, e)' => Belongs(o, k, e)
                                     /\ Keeps(o, k, e)' => Keeps(o, k, e)
      /\ \A s \in GenerationStates : Builds(o, s)' => Builds(o, s)
  BY Shrinks
<1>2. Built \subseteq Kinds /\ "create" \in Kinds /\ "apply" \in Kinds
      /\ "absent" \in GenerationStates
  BY DEF Built, CoreTransactions, Kinds, GenerationStates
<1>3. /\ \A s : Has(o, s)' => Has(o, s)
      /\ generations'[o] # generations[o] =>
           w = PutGeneration(o, generations'[o]) /\ Builds(o, generations'[o])
  BY SoonLands
<1>4. SucceededIsRecorded(o)'
  <2> SUFFICES ASSUME (\E k \in {"create", "apply"}, e \in Env : Belongs(o, k, e)'),
                      Has(o, "succeeded")'
               PROVE  generations'[o] = "recorded" /\ ~Builds(o, "absent")'
    BY DEF SucceededIsRecorded
  <2>1. /\ Has(o, "succeeded") /\ ~Builds(o, "absent")
        /\ generations[o] = "recorded" \/ RecordsFirst(o)
    BY <1>1, <1>2, <1>3 DEF Honest, SucceededIsRecorded
  <2>2. RecordsFirst(o) => generations'[o] = "recorded"
    <3>1. /\ PutGeneration(o, "recorded").store = "generations"
          /\ PutGeneration(o, "recorded").key = o /\ PutGeneration(o, "recorded").val = "recorded"
      BY DEF PutGeneration, Write
    <3>2. RecordsFirst(o) => w.store = "generations" /\ w.key = o /\ w.val = "recorded"
      BY <3>1 DEF RecordsFirst
    <3>3. generations'[o] = IF w.store = "generations" /\ w.key = o
                              THEN w.val ELSE generations[o]
      BY DEF Lands
    <3> QED BY <3>2, <3>3
  <2>3. generations'[o] \in GenerationStates
    BY Effect DEF TypeOK
  <2>4. ~Builds(o, "staged")
    BY <2>1, NotStaged
  <2> QED BY <1>1, <1>2, <1>3, <2>1, <2>2, <2>3, <2>4 DEF GenerationStates
<1>5. ASSUME NEW k \in Built, NEW e \in Env, Keeps(o, k, e)', Has(o, "succeeded")'
      PROVE  /\ operations'[o].status = "succeeded" => environments'[e].gen = o
             /\ PointsTo(e, o)' /\ Stays(e, o)'
  <2>1. Keeps(o, k, e) /\ Has(o, "succeeded")
    BY <1>1, <1>2, <1>3, <1>5
  <2>2. /\ operations[o].status = "succeeded" => environments[e].gen = o
        /\ PointsTo(e, o) /\ Stays(e, o)
    BY <2>1 DEF Honest, SucceededIsCommitted
  <2>3. PointsTo(e, o)' /\ Stays(e, o)'
    BY <2>2, PointerLands, SoonLands
  <2>4. ASSUME operations'[o].status = "succeeded" PROVE environments'[e].gen = o
    <3>1. CASE operations'[o] = operations[o]
      BY <2>2, <2>4, <3>1, PointerLands
    <3>2. CASE operations'[o] # operations[o]
      <4>1. /\ w.store = "operations" /\ w.key = o /\ operations'[o] = w.val
            /\ w.val \in OperationRecord /\ w.val.status = "succeeded" /\ w \in Waiting
        BY <2>4, <3>2, OperationLands, Effect
      <4>2. w.val.kind \in Kinds /\ w.val.env \in Env
        BY <4>1 DEF OperationRecord, NoOperation
      <4>3. Belongs(o, w.val.kind, w.val.env)
        BY <4>1 DEF Belongs
      <4>4. w.val.kind = k
        BY <1>2, <2>1, <4>2, <4>3 DEF StoresInv, OneHome, Claims
      <4>5. \A v \in Waiting' : Before(w, v)
        BY DEF Lands
      <4> QED BY <2>3, <4>1, <4>4, <4>5 DEF PointsTo, Before
    <3> QED BY <3>1, <3>2
  <2> QED BY <2>3, <2>4
<1> QED BY <1>4, <1>5 DEF SucceededIsCommitted

LEMMA UsesKeeps ==
  ASSUME TypeOK, NEW o \in Op, Honest(o), NEW p \in Plan, Uses(o, p)
  PROVE  Keeps(o, "apply", PlanFor[p]) /\ PlanFor[p] \in Env
<1>1. PICK e \in Env : Keeps(o, "apply", e)
  <2>1. CASE journals[o].kind = "apply"
    <3>1. journals[o].env \in Env
      BY <2>1 DEF TypeOK, JournalRecord, NoJournal, CoreTransactions
    <3> QED BY <2>1, <3>1 DEF Keeps
  <2>2. ASSUME NEW w \in Waiting, w.store = "journals", w.key = o, w.val.kind = "apply"
        PROVE  \E e \in Env : Keeps(o, "apply", e)
    <3>1. w.val \in JournalRecord
      BY <2>2, WaitingTyped, WriteFields
    <3>2. w.val.env \in Env
      BY <2>2, <3>1 DEF JournalRecord, NoJournal, CoreTransactions
    <3> QED BY <2>2, <3>2 DEF Keeps
  <2> QED BY <2>1, <2>2 DEF Uses
<1> QED BY <1>1, PlanAssumption DEF Honest, PlanIsOwn

\* A journal of an apply goes on naming its plan.
LEMMA PlanStays ==
  ASSUME TypeOK, StoresInv, NEW w, Lands(w), NEW o \in Op, Honest(o), NEW p \in Plan,
         journals[o].kind = "apply", journals[o].plan = p, StaysKnown
  PROVE  \/ journals'[o].kind = "apply" /\ journals'[o].plan = p
         \/ Closes(o) /\ \A v \in Waiting' : v.store = "ledger"
<1>1. CASE journals'[o].kind = "apply"
  <2>1. journals'[o] \in JournalRecord
    <3>1. w.store = "journals" /\ w.key = o => w.val \in JournalRecord
      BY WriteFields DEF Lands
    <3> QED BY <3>1 DEF TypeOK, Lands
  <2>2. PICK q \in Plan : journals'[o].plan = q
    BY <1>1, <2>1 DEF JournalRecord, NoJournal, CoreTransactions
  <2>3. Uses(o, q)'
    BY <1>1, <2>2 DEF Uses
  <2>4. Uses(o, q) /\ Uses(o, p)
    BY <2>3, SoonLands DEF Uses
  <2> QED BY <1>1, <2>2, <2>4 DEF Honest, PlanIsOwn
<1>2. CASE journals'[o].kind # "apply"
  BY <1>2, JournalLands DEF Kinds
<1> QED BY <1>1, <1>2

LEMMA PlanLands ==
  ASSUME TypeOK, StoresInv, StaysKnown, Persist, Lands(Head(todo)),
         \A q \in Op : Honest(q), NEW o \in Op
  PROVE  PlanIsOwn(o)' /\ SpendsOwn(o)'
<1> DEFINE w == Head(todo)
<1>0. Honest(o) /\ "apply" \in Kinds
  BY DEF Kinds
<1>1. \A e \in Env : Keeps(o, "apply", e)' => Keeps(o, "apply", e)
  BY <1>0, Shrinks
<1>2. /\ \A e \in Env : Stays(e, o) => Stays(e, o)'
      /\ \A p \in Plan : (Uses(o, p)' => Uses(o, p)) /\ (Spends(o, p)' => Spends(o, p))
      /\ Has(o, "succeeded") => Has(o, "succeeded")'
  BY <1>0, SoonLands DEF Honest
<1>3. ASSUME NEW p \in Plan, Uses(o, p) PROVE plans'[p] \in {None, o}
  <2>1. plans[p] \in {None, o}
    BY <1>0, <1>3 DEF Honest, PlanIsOwn
  <2>2. CASE plans'[p] # plans[p]
    <3>1. w.store = "plans" /\ w.key = p /\ plans'[p] = w.val /\ w \in Waiting
      BY <2>2, PlanLanding, Effect
    <3>2. PICK q \in Op : plans'[p] = q
      BY <3>1, WaitingTyped DEF WriteRecord
    <3>3. Spends(q, p)
      BY <3>1, <3>2 DEF Spends
    <3>4. Uses(q, p)
      BY <3>3 DEF Honest, SpendsOwn, Uses
    <3>5. Keeps(q, "apply", PlanFor[p]) /\ Keeps(o, "apply", PlanFor[p]) /\ PlanFor[p] \in Env
      BY <1>0, <1>3, <3>4, UsesKeeps
    <3> QED BY <1>0, <3>2, <3>5 DEF StoresInv, OneJournal
  <2> QED BY <2>1, <2>2
<1>4. PlanIsOwn(o)'
  BY <1>0, <1>1, <1>2, <1>3 DEF Honest, PlanIsOwn
<1>5. ASSUME NEW p \in Plan, Spends(o, p)'
      PROVE  /\ journals'[o].kind = "apply" /\ journals'[o].plan = p
             /\ PointsTo(PlanFor[p], o)' /\ Stays(PlanFor[p], o)'
             /\ Has(o, "succeeded")'
  <2>1. /\ journals[o].kind = "apply" /\ journals[o].plan = p
        /\ PointsTo(PlanFor[p], o) /\ Stays(PlanFor[p], o)
        /\ Has(o, "succeeded")
    BY <1>0, <1>2, <1>5 DEF Honest, SpendsOwn
  <2>2. journals'[o].kind = "apply" /\ journals'[o].plan = p
    <3>1. ~ \A v \in Waiting' : v.store = "ledger"
      BY <1>5 DEF Spends
    <3> QED BY <1>0, <2>1, <3>1, PlanStays
  <2>3. PlanFor[p] \in Env
    BY PlanAssumption
  <2>4. PointsTo(PlanFor[p], o)'
    BY <2>1, <2>3, PointerLands
  <2> QED BY <1>2, <2>1, <2>2, <2>3, <2>4
<1>6. SpendsOwn(o)'
  BY <1>5 DEF SpendsOwn
<1> QED BY <1>4, <1>6

\* When a plan is consumed, the pointer has been moved.
LEMMA PlanConsumed ==
  ASSUME TypeOK, StoresInv, Orderly(todo), Persist, Lands(Head(todo)), NEW o \in Op, Honest(o),
         NEW p \in Plan, plans'[p] = o, plans[p] # o
  PROVE  /\ Head(todo).store = "plans" /\ Spends(o, p)
         /\ environments[PlanFor[p]].gen = o
<1> DEFINE w == Head(todo)
<1>1. w.store = "plans" /\ w.key = p /\ w.val = o /\ w \in Waiting
  BY PlanLanding, Effect
<1>2. Spends(o, p)
  BY <1>1 DEF Spends
<1>3. PointsTo(PlanFor[p], o)
  BY <1>2 DEF Honest, SpendsOwn
<1>4. ASSUME NEW v \in Waiting, v.store = "environments" PROVE FALSE
  <2>1. v \in Waiting'
    BY <1>1, <1>4 DEF Lands
  <2>2. todo \in Script /\ todo # <<>> /\ todo' = Tail(todo)
    BY DEF Persist, TypeOK, Script
  <2>3. PICK i \in 1..Len(Tail(todo)) : Tail(todo)[i] = v
    BY <2>1, <2>2 DEF Waiting, ToSet
  <2>4. 1 \in 1..Len(todo) /\ i + 1 \in 1..Len(todo) /\ todo[i + 1] = v /\ 1 < i + 1
        /\ todo[1] = w
    BY <2>2, <2>3 DEF Script
  <2>5. Follows(w, v)
    BY <2>4 DEF Orderly
  <2> QED BY <1>1, <1>4, <2>5 DEF Follows
<1> QED BY <1>1, <1>2, <1>3, <1>4 DEF PointsTo

LEMMA SpentLands ==
  ASSUME TypeOK, StoresInv, AttendedInv, Orderly(todo), Persist, Lands(Head(todo)),
         \A q \in Op : Honest(q), NEW o \in Op
  PROVE  SpentIsCommitted(o)' /\ SucceededSpends(o)'
<1> DEFINE w == Head(todo)
<1>0. Honest(o) /\ "apply" \in Kinds /\ StaysKnown
  BY DEF Kinds, AttendedInv
<1>1. /\ \A e \in Env : Stays(e, o) => Stays(e, o)'
      /\ \A s : Has(o, s)' => Has(o, s)
      /\ Left(o) => Left(o)'
      /\ Has(o, "succeeded") => Has(o, "succeeded")'
      /\ operations[o].status = "succeeded" => operations'[o].status = "succeeded"
  BY <1>0, SoonLands DEF Honest
<1>2. ASSUME NEW p \in Plan, plans'[p] = o
      PROVE  /\ Belongs(o, "apply", PlanFor[p])'
             /\ \/ operations'[o].status = "succeeded"
                \/ /\ journals'[o].kind = "apply" /\ journals'[o].plan = p
                   /\ environments'[PlanFor[p]].gen = o /\ Stays(PlanFor[p], o)'
                   /\ Becomes(o, "succeeded")' \/ Left(o)'
  <2>0. PlanFor[p] \in Env
    BY PlanAssumption
  <2>1. /\ Belongs(o, "apply", PlanFor[p])
        /\ \/ operations[o].status = "succeeded"
           \/ /\ journals[o].kind = "apply" /\ journals[o].plan = p
              /\ environments[PlanFor[p]].gen = o /\ Stays(PlanFor[p], o)
              /\ Has(o, "succeeded") \/ Left(o)
    <3>1. CASE plans[p] = o
      BY <1>0, <3>1 DEF Honest, SpentIsCommitted, Has
    <3>2. CASE plans[p] # o
      <4>1. Spends(o, p) /\ environments[PlanFor[p]].gen = o
        BY <1>0, <1>2, <3>2, PlanConsumed
      <4>2. /\ journals[o].kind = "apply" /\ journals[o].plan = p /\ Stays(PlanFor[p], o)
            /\ Has(o, "succeeded")
        BY <1>0, <4>1 DEF Honest, SpendsOwn
      <4>3. /\ operations[o].kind = "apply" /\ operations[o].env = journals[o].env
            /\ journals[o].env \in Env
        BY <4>2, JournalOfOperation DEF Built
      <4>4. journals[o].env = PlanFor[p]
        BY <1>0, <4>2, <4>3 DEF Honest, PlanIsOwn, Uses, Keeps
      <4> QED BY <4>1, <4>2, <4>3, <4>4 DEF Belongs
    <3> QED BY <3>1, <3>2
  <2>2. Belongs(o, "apply", PlanFor[p])'
    BY <1>0, <2>0, <2>1, BelongsLands
  <2>3. ASSUME operations'[o].status # "succeeded"
        PROVE  /\ journals'[o].kind = "apply" /\ journals'[o].plan = p
               /\ environments'[PlanFor[p]].gen = o /\ Stays(PlanFor[p], o)'
               /\ Becomes(o, "succeeded")' \/ Left(o)'
    <3>1. /\ journals[o].kind = "apply" /\ journals[o].plan = p
          /\ environments[PlanFor[p]].gen = o /\ Stays(PlanFor[p], o)
          /\ Has(o, "succeeded") \/ Left(o)
      BY <1>1, <2>1, <2>3
    <3>2. Becomes(o, "succeeded")' \/ (Left(o) /\ Left(o)')
      BY <1>1, <2>3, <3>1 DEF Has
    <3>3. ~(Closes(o) /\ \A v \in Waiting' : v.store = "ledger")
      BY <3>2 DEF Left, Becomes
    <3>4. journals'[o].kind = "apply" /\ journals'[o].plan = p
      BY <1>0, <3>1, <3>3, PlanStays
    <3>5. environments'[PlanFor[p]].gen = o
      BY <2>0, <3>1, PointerLands
    <3> QED BY <1>1, <2>0, <3>1, <3>2, <3>4, <3>5
  <2> QED BY <2>2, <2>3
<1>3. SpentIsCommitted(o)'
  BY <1>2 DEF SpentIsCommitted
<1>4. SucceededSpends(o)'
  <2> SUFFICES ASSUME (\E e \in Env : Belongs(o, "apply", e)'), Has(o, "succeeded")'
               PROVE  \/ \E p \in Plan : plans'[p] = o \/ Spends(o, p)'
                      \/ Left(o)' /\ journals'[o].kind = "apply"
    BY DEF SucceededSpends
  <2>1. \/ \E p \in Plan : plans[p] = o \/ Spends(o, p)
        \/ Left(o) /\ journals[o].kind = "apply"
    BY <1>0, <1>1, Shrinks DEF Honest, SucceededSpends
  <2>2. ASSUME NEW p \in Plan, plans[p] = o PROVE plans'[p] = o
    <3>1. CASE plans'[p] # plans[p]
      <4>1. w.store = "plans" /\ w.key = p /\ plans'[p] = w.val /\ w \in Waiting
        BY <3>1, PlanLanding, Effect
      <4>2. PICK q \in Op : plans'[p] = q
        BY <4>1, WaitingTyped DEF WriteRecord
      <4>3. Spends(q, p)
        BY <4>1, <4>2 DEF Spends
      <4>4. Uses(q, p)
        BY <4>3 DEF Honest, SpendsOwn, Uses
      <4>5. plans[p] \in {None, q}
        BY <4>4 DEF Honest, PlanIsOwn
      <4> QED BY <2>2, <4>2, <4>5, NoneAssumption
    <3> QED BY <2>2, <3>1
  <2>3. ASSUME NEW p \in Plan, Spends(o, p) PROVE plans'[p] = o \/ Spends(o, p)'
    <3>1. PICK v \in Waiting : v.store = "plans" /\ v.key = p /\ v.val = o
      BY <2>3 DEF Spends
    <3>2. CASE v = w
      BY <3>1, <3>2, PlanLanding
    <3>3. CASE v # w
      BY <3>1, <3>3 DEF Lands, Spends
    <3> QED BY <3>2, <3>3
  <2>4. Left(o) /\ journals[o].kind = "apply" => Left(o)' /\ journals'[o].kind = "apply"
    BY <1>1, JournalLands DEF Left
  <2> QED BY <2>1, <2>2, <2>3, <2>4
<1> QED BY <1>3, <1>4

LEMMA HonestPersist ==
  ASSUME TypeOK, StoresInv, AttendedInv, HonestInv, Persist PROVE HonestInv'
<1>0. Lands(Head(todo)) /\ StaysKnown /\ Orderly(todo) /\ UNCHANGED aborted
      /\ \A o \in Op : Honest(o)
  BY Landing DEF StoresInv, AttendedInv, HonestInv, Persist, volatile
<1>1. Orderly(todo')
  <2>1. todo \in Script /\ todo # <<>> /\ todo' = Tail(todo)
    BY DEF Persist, TypeOK, Script
  <2> QED BY <1>0, <2>1 DEF Orderly, Script
<1>2. ASSUME NEW o \in Op PROVE Honest(o)'
  <2>1. LiveIsUnsettled(o)' /\ AbortedApplyEnds(o)' /\ EndsOnce(o)'
    BY <1>0, MemoryLands
  <2>2. SettledWhileOpen(o)' /\ FailedIsGivenUp(o)' /\ CancelledIsGivenUp(o)'
    BY <1>0, SettlementLands, FailureLands
  <2>3. SucceededIsRecorded(o)' /\ SucceededIsCommitted(o)'
    BY <1>0, SuccessLands
  <2>4. PlanIsOwn(o)' /\ SpendsOwn(o)' /\ SpentIsCommitted(o)' /\ SucceededSpends(o)'
    BY <1>0, PlanLands, SpentLands
  <2> QED BY <2>1, <2>2, <2>3, <2>4 DEF Honest
<1> QED BY <1>1, <1>2 DEF HonestInv

(***************************************************************************)
(* Steps without a block.                                                  *)
(***************************************************************************)

\* An apply that has succeeded, or has an open journal, is in its record.
LEMMA ApplyOfRecord ==
  ASSUME TypeOK, StoresInv, AttendedInv, NEW o \in Op, NEW e \in Env, Belongs(o, "apply", e),
         operations[o].status = "succeeded" \/ journals[o].kind = "apply"
  PROVE  operations[o].kind = "apply" /\ operations[o].env = e
<1>1. operations[o].kind \in Kinds /\ operations[o].env \in Env
  <2>1. operations[o].status # "absent"
    BY DEF AttendedInv, BuiltKnown, Known, Built
  <2> QED BY <2>1 DEF TypeOK, OperationRecord, NoOperation
<1>2. Belongs(o, operations[o].kind, operations[o].env)
  BY DEF Belongs
<1> QED BY <1>1, <1>2 DEF StoresInv, OneHome, Claims, Kinds

LEMMA HonestLost ==
  ASSUME TypeOK, StoresInv, AttendedInv, HonestInv, Crash \/ FinishClose PROVE HonestInv'
<1>1. /\ UNCHANGED << environments, operations, journals, generations, plans >>
      /\ mode' = "down" /\ todo' = <<>> /\ aborted' = {}
      /\ \A o \in Op : ~controllers'[o]
  BY DEF Crash, FinishClose, LoseMemory, Run, durable
<1>2. Waiting' = {} /\ ~Serving' /\ Orderly(todo')
  BY <1>1, FewWrites DEF Waiting, Serving, Orderly
<1>3. ASSUME NEW o \in Op PROVE Honest(o)'
  <2>0. Honest(o)
    BY DEF HonestInv
  <2>1. /\ \A s : (Has(o, s)' => operations[o].status = s /\ Has(o, s)) /\ ~Becomes(o, s)'
        /\ \A s : ~Builds(o, s)'
        /\ ~Closes(o)' /\ Left(o)' /\ ~Live(o)'
        /\ \A e \in Env : (PointsTo(e, o)' <=> environments[e].gen = o) /\ Stays(e, o)'
        /\ \A p : ~Spends(o, p)'
    BY <1>1, <1>2 DEF Has, Becomes, Builds, Closes, Left, Live, PointsTo, Stays, Spends
  <2>2. /\ \A k, e : /\ Belongs(o, k, e)' => Belongs(o, k, e)
                     /\ Keeps(o, k, e)' => Keeps(o, k, e)
        /\ \A p : Uses(o, p)' => Uses(o, p)
        /\ Unfinished(o)' => Unfinished(o)
    BY <1>1, <1>2 DEF Belongs, Keeps, Uses, Unfinished, Becomes
  <2>3. LiveIsUnsettled(o)' /\ AbortedApplyEnds(o)' /\ EndsOnce(o)'
    BY <1>1, <1>2, <2>1 DEF LiveIsUnsettled, AbortedApplyEnds, EndsOnce
  <2>4. SettledWhileOpen(o)'
    BY <1>1, <2>0, <2>1, <2>2 DEF Honest, SettledWhileOpen
  <2>5. FailedIsGivenUp(o)' /\ CancelledIsGivenUp(o)'
    <3>1. FailedIsGivenUp(o)'
      BY <1>1, <2>0, <2>1 DEF Honest, FailedIsGivenUp, SettledWhileOpen, PointsTo
    <3>2. CancelledIsGivenUp(o)'
      BY <1>1, <2>0, <2>1, <2>2 DEF Honest, CancelledIsGivenUp
    <3> QED BY <3>1, <3>2
  <2>6. SucceededIsRecorded(o)' /\ SucceededIsCommitted(o)'
    <3>1. SucceededIsRecorded(o)'
      BY <1>1, <2>0, <2>1, <2>2 DEF Honest, SucceededIsRecorded
    <3>2. SucceededIsCommitted(o)'
      BY <1>1, <2>0, <2>1, <2>2 DEF Honest, SucceededIsCommitted
    <3> QED BY <3>1, <3>2
  <2>7. PlanIsOwn(o)' /\ SpendsOwn(o)'
    BY <1>1, <2>0, <2>1, <2>2 DEF Honest, PlanIsOwn, SpendsOwn
  <2>8. SpentIsCommitted(o)'
    <3> SUFFICES ASSUME NEW p \in Plan, plans[p] = o
                 PROVE  /\ Belongs(o, "apply", PlanFor[p])'
                        /\ \/ operations[o].status = "succeeded"
                           \/ /\ journals[o].kind = "apply" /\ journals[o].plan = p
                              /\ environments[PlanFor[p]].gen = o
      BY <1>1, <2>1, PlanAssumption DEF SpentIsCommitted
    <3>1. PlanFor[p] \in Env
      BY PlanAssumption
    <3>2. /\ Belongs(o, "apply", PlanFor[p])
          /\ \/ operations[o].status = "succeeded"
             \/ /\ journals[o].kind = "apply" /\ journals[o].plan = p
                /\ environments[PlanFor[p]].gen = o
      BY <2>0 DEF Honest, SpentIsCommitted
    <3>3. operations[o].kind = "apply" /\ operations[o].env = PlanFor[p]
      BY <3>1, <3>2, ApplyOfRecord
    <3>4. Belongs(o, "apply", PlanFor[p])'
      BY <1>1, <3>3 DEF Belongs
    <3> QED BY <3>2, <3>4
  <2>9. SucceededSpends(o)'
    BY <1>1, <2>0, <2>1, <2>2 DEF Honest, SucceededSpends, SpendsOwn
  <2> QED BY <2>3, <2>4, <2>5, <2>6, <2>7, <2>8, <2>9 DEF Honest
<1> QED BY <1>2, <1>3 DEF HonestInv

\* Nothing changes but the mode and who is aborted.
LEMMA HonestUnmoved ==
  ASSUME HonestInv, UNCHANGED Stores, UNCHANGED << todo, controllers >>, aborted \subseteq aborted',
         \A o \in Op : o \in aborted' => o \in aborted \/ \A e \in Env : ~Belongs(o, "apply", e),
         \A o \in Op : Left(o) => Left(o)' \/ journals[o].kind \notin Built
  PROVE  HonestInv'
<1>1. /\ UNCHANGED << environments, operations, journals, generations, plans, controllers >>
      /\ Waiting' = Waiting /\ todo' = todo
  BY DEF Stores, Waiting
<1>2. ASSUME NEW o \in Op PROVE Honest(o)'
  <2>0. Honest(o)
    BY <1>2 DEF HonestInv
  <2>1. /\ \A s : (Has(o, s)' <=> Has(o, s)) /\ (Becomes(o, s)' <=> Becomes(o, s))
        /\ \A s : Builds(o, s)' <=> Builds(o, s)
        /\ (Closes(o)' <=> Closes(o)) /\ (Live(o)' <=> Live(o))
        /\ \A e \in Env : (PointsTo(e, o)' <=> PointsTo(e, o)) /\ (Stays(e, o)' <=> Stays(e, o))
        /\ \A p : (Spends(o, p)' <=> Spends(o, p)) /\ (Uses(o, p)' <=> Uses(o, p))
    BY <1>1 DEF Has, Becomes, Builds, Closes, Live, PointsTo, Stays, Spends, Uses
  <2>2. /\ \A k, e : /\ Belongs(o, k, e)' <=> Belongs(o, k, e)
                     /\ Keeps(o, k, e)' <=> Keeps(o, k, e)
        /\ (Unfinished(o)' <=> Unfinished(o)) /\ (Ends(o)' <=> Ends(o))
        /\ RecordsFirst(o)' <=> RecordsFirst(o)
    BY <1>1 DEF Belongs, Keeps, Unfinished, Becomes, Ends, RecordsFirst
  <2>3. LiveIsUnsettled(o)' /\ AbortedApplyEnds(o)'
    BY <1>2, <2>0, <2>1, <2>2 DEF Honest, LiveIsUnsettled, AbortedApplyEnds
  <2>4. EndsOnce(o)'
    BY <1>1, <2>0, <2>1 DEF Honest, EndsOnce
  <2>5. SettledWhileOpen(o)' /\ CancelledIsGivenUp(o)'
    BY <1>1, <2>0, <2>1, <2>2 DEF Honest, SettledWhileOpen, CancelledIsGivenUp
  <2>6. SucceededIsRecorded(o)' /\ SucceededIsCommitted(o)'
    BY <1>1, <2>0, <2>1, <2>2 DEF Honest, SucceededIsRecorded, SucceededIsCommitted
  <2>7. PlanIsOwn(o)' /\ SpendsOwn(o)'
    <3>1. \A p \in Plan : PlanFor[p] \in Env
      BY PlanAssumption
    <3> QED BY <1>1, <2>0, <2>1, <2>2, <3>1 DEF Honest, PlanIsOwn, SpendsOwn
  <2>8. FailedIsGivenUp(o)'
    BY <1>1, <1>2, <2>0, <2>1 DEF Honest, FailedIsGivenUp
  <2>9. SpentIsCommitted(o)'
    <3>1. \A p \in Plan : PlanFor[p] \in Env
      BY PlanAssumption
    <3>2. journals[o].kind = "apply" => journals[o].kind \in Built
      BY DEF Built
    <3> QED BY <1>1, <1>2, <2>0, <2>1, <2>2, <3>1, <3>2 DEF Honest, SpentIsCommitted
  <2>10. SucceededSpends(o)'
    <3>1. journals[o].kind = "apply" => journals[o].kind \in Built
      BY DEF Built
    <3> QED BY <1>1, <1>2, <2>0, <2>1, <2>2, <3>1 DEF Honest, SucceededSpends
  <2> QED BY <2>3, <2>4, <2>5, <2>6, <2>7, <2>8, <2>9, <2>10 DEF Honest
<1>3. Orderly(todo')
  BY <1>1 DEF HonestInv
<1> QED BY <1>2, <1>3 DEF HonestInv

LEMMA HonestModeStep ==
  ASSUME TypeOK, StoresInv, AttendedInv, HonestInv,
         Boot \/ BeginClose \/ ChangesRecovered \/ CoreRecovered
         \/ (\E o \in Op : Spawn(o)) \/ (\E p \in Alive : ProcessDies(p))
         \/ UNCHANGED vars
  PROVE  HonestInv'
<1>1. UNCHANGED Stores /\ UNCHANGED << todo, controllers >>
  BY DEF Stores, Boot, BeginClose, ChangesRecovered, CoreRecovered, Spawn,
         ProcessDies, durable, files, volatile, vars
<1>2. \A o \in Op : Closes(o)' <=> Closes(o)
  BY <1>1 DEF Closes, Waiting
<1>3. CASE BeginClose
  <2>1. /\ mode = "ready" /\ mode' = "closing" /\ aborted' = aborted \cup CoreTasks
        /\ Waiting = {}
    BY <1>3, NothingWaits DEF BeginClose, Idle
  <2>2. \A o \in CoreTasks, e \in Env : ~Belongs(o, "apply", e)
    BY <2>1 DEF CoreTasks, OfKind, Belongs
  <2>3. \A o \in Op : ~Left(o)
    BY <2>1 DEF Left, Serving
  <2> QED BY <1>1, <2>1, <2>2, <2>3, HonestUnmoved
<1>4. CASE CoreRecovered
  <2>1. aborted' = aborted
    BY <1>4 DEF CoreRecovered, volatile
  <2>2. \A o \in Op : journals[o].kind \notin Built
    BY <1>4, RecoveryIsComplete DEF OpenJournal, Built, CoreTransactions
  <2> QED BY <1>1, <2>1, <2>2, HonestUnmoved
<1>5. CASE aborted' = aborted /\ (Serving' <=> Serving)
  <2>1. \A o \in Op : Left(o) => Left(o)'
    BY <1>2, <1>5 DEF Left
  <2> QED BY <1>1, <1>5, <2>1, HonestUnmoved
<1>6. BeginClose \/ CoreRecovered \/ (aborted' = aborted /\ (Serving' <=> Serving))
  BY DEF Boot, ChangesRecovered, Spawn, ProcessDies, vars, volatile, Serving
<1> QED BY <1>3, <1>4, <1>5, <1>6

(***************************************************************************)
(* A block begins.                                                         *)
(***************************************************************************)

\* The block is not about q, except that it may move a pointer to q, which has
\* not failed, or away from q, which has no journal.
Spared(q) ==
  /\ controllers'[q] = controllers[q] /\ (q \in aborted' <=> q \in aborted)
  /\ \A w \in Waiting' :
       /\ w.store \in {"operations", "journals", "generations", "controllers"} => w.key # q
       /\ w.store = "plans" => w.val # q
       /\ w.store = "environments" =>
            /\ w.val.gen = q => environments[w.key].gen = q \/ ~Has(q, "failed")
            /\ environments[w.key].gen = q => w.val.gen = q \/ journals[q].kind \notin Built

\* A block writes no pointer after a plan, and records no generation but first.
Opened == todo = <<>> /\ UNCHANGED Stores /\ Waiting' \subseteq WriteRecord

LEMMA SparedStays ==
  ASSUME TypeOK, Opened, Serving' <=> Serving, NEW q \in Op, Honest(q), Spared(q)
  PROVE  Honest(q)'
<1>1. /\ UNCHANGED << environments, operations, journals, generations, plans >> /\ Waiting = {}
      /\ \A w \in Waiting' : w \in WriteRecord
  BY NothingWaits DEF Opened, Stores
<1>2. /\ \A s : (Has(q, s)' <=> operations[q].status = s) /\ ~Becomes(q, s)'
      /\ \A s : Has(q, s) <=> operations[q].status = s
      /\ \A s : ~Builds(q, s)' /\ ~Builds(q, s)
      /\ ~Closes(q)' /\ ~Closes(q) /\ (Live(q)' <=> Live(q))
      /\ \A p : ~Spends(q, p)' /\ ~Spends(q, p)
  BY <1>1 DEF Spared, Has, Becomes, Builds, Closes, Live, Spends
<1>3. /\ \A k, e : /\ Belongs(q, k, e)' <=> Belongs(q, k, e)
                   /\ Keeps(q, k, e)' <=> Keeps(q, k, e)
                   /\ Keeps(q, k, e) <=> journals[q].kind = k /\ journals[q].env = e
      /\ \A p : (Uses(q, p)' <=> Uses(q, p))
      /\ (Unfinished(q)' <=> Unfinished(q)) /\ ~Ends(q) /\ ~Becomes(q, "succeeded")
      /\ ~RecordsFirst(q)
  BY <1>1 DEF Spared, Belongs, Keeps, Uses, Unfinished, Becomes, Ends, RecordsFirst, Opened
<1>4. /\ \A e \in Env : PointsTo(e, q)' => environments[e].gen = q \/ ~Has(q, "failed")
      /\ \A e \in Env : environments[e].gen = q => PointsTo(e, q) /\ PointsTo(e, q)'
      /\ \A e \in Env : environments[e].gen = q /\ journals[q].kind \in Built => Stays(e, q)'
  BY <1>1 DEF Spared, PointsTo, Stays
<1>5. Left(q) => Left(q)'
  BY <1>2 DEF Left
<1>6. LiveIsUnsettled(q)' /\ AbortedApplyEnds(q)' /\ EndsOnce(q)'
  <2>1. LiveIsUnsettled(q)'
    BY <1>2 DEF Spared, Honest, LiveIsUnsettled
  <2>2. AbortedApplyEnds(q)'
    BY <1>3 DEF Spared, Honest, AbortedApplyEnds
  <2>3. EndsOnce(q)'
    BY <1>2 DEF Spared, EndsOnce
  <2> QED BY <2>1, <2>2, <2>3
<1>7. SettledWhileOpen(q)' /\ CancelledIsGivenUp(q)'
  BY <1>1, <1>2, <1>3 DEF Honest, SettledWhileOpen, CancelledIsGivenUp
<1>8. FailedIsGivenUp(q)'
  BY <1>1, <1>2, <1>4, <1>5 DEF Honest, FailedIsGivenUp
<1>9. SucceededIsRecorded(q)'
  BY <1>1, <1>2, <1>3 DEF Honest, SucceededIsRecorded
<1>10. SucceededIsCommitted(q)'
  BY <1>1, <1>2, <1>3, <1>4 DEF Honest, SucceededIsCommitted
<1>11. PlanIsOwn(q)' /\ SpendsOwn(q)'
  BY <1>1, <1>2, <1>3 DEF Honest, PlanIsOwn, SpendsOwn
<1>12. SpentIsCommitted(q)'
  <2>1. \A p \in Plan : PlanFor[p] \in Env
    BY PlanAssumption
  <2> QED BY <1>1, <1>3, <1>4, <1>5, <2>1 DEF Honest, SpentIsCommitted, Built
<1>13. SucceededSpends(q)'
  BY <1>1, <1>2, <1>3, <1>5 DEF Honest, SucceededSpends
<1> QED BY <1>6, <1>7, <1>8, <1>9, <1>10, <1>11, <1>12, <1>13 DEF Honest

\* The block is about q, which has no generation and no transaction that builds one.
Light(q) ==
  /\ journals[q].kind \notin Built /\ generations[q] = "absent"
  /\ \A w \in Waiting' :
       /\ w.store = "journals" /\ w.key = q => w.val.kind \notin Built
       /\ w.store = "generations" => w.key # q
       /\ w.store = "plans" => w.val # q
       /\ w.store = "operations" /\ w.key = q /\ w.val.status = "succeeded" =>
            w.val.kind \notin {"create", "apply"}
  /\ LiveIsUnsettled(q)' /\ AbortedApplyEnds(q)' /\ EndsOnce(q)'
  /\ Closes(q)' /\ Unfinished(q)' => Ends(q)'

LEMMA LightStays ==
  ASSUME TypeOK, TypeOK', StoresInv', Opened, NEW q \in Op, Honest(q), Light(q)
  PROVE  Honest(q)'
<1>1. /\ UNCHANGED << environments, operations, journals, generations, plans >> /\ Waiting = {}
      /\ \A w \in Waiting' : w \in WriteRecord
  BY NothingWaits DEF Opened, Stores
<1>2. /\ \A s : ~Builds(q, s)'
      /\ \A p : ~Spends(q, p)' /\ ~Uses(q, p)'
      /\ \A k \in Built, e \in Env : ~Keeps(q, k, e)'
  BY <1>1 DEF Light, Builds, Spends, Uses, Keeps, Built
<1>3. ~RecordsFirst(q)'
  <2>1. ASSUME RecordsFirst(q)' PROVE FALSE
    <3>1. todo' # <<>> /\ Head(todo') = PutGeneration(q, "recorded")
      BY <2>1 DEF RecordsFirst
    <3>2. PutGeneration(q, "recorded").store = "generations"
          /\ PutGeneration(q, "recorded").key = q
      BY DEF PutGeneration, Write
    <3>3. Head(todo') \in Waiting'
      <4>1. todo' \in Script
        BY DEF TypeOK, Script
      <4> QED BY <3>1, <4>1, HeadAndRest DEF Waiting
    <3> QED BY <3>1, <3>2, <3>3 DEF Light
  <2> QED BY <2>1
<1>4. \A e \in Env : ~PointsTo(e, q)'
  BY <1>1, <1>3 DEF Light, StoresInv, PointsToRecorded
<1>5. ASSUME NEW k \in {"create", "apply"}, NEW e \in Env, Belongs(q, k, e)', Has(q, "succeeded")'
      PROVE  FALSE
  <2>0. /\ k \in Kinds
        /\ \A l \in Kinds, d \in Env : Belongs(q, l, d)' => l = k
    <3>1. OneHome' /\ k \in Kinds
      BY DEF StoresInv, Kinds
    <3> QED BY <1>5, <3>1 DEF OneHome, Claims
  <2>1. CASE operations[q].status = "succeeded"
    <3>0. operations[q].kind \in Kinds /\ operations[q].env \in Env
      BY <2>1 DEF TypeOK, OperationRecord, NoOperation
    <3>1. PICK l \in Kinds, d \in Env : operations[q].kind = l /\ operations[q].env = d
      BY <3>0
    <3>2. Belongs(q, l, d)'
      BY <1>1, <3>1 DEF Belongs
    <3>3. operations[q].kind = k
      BY <2>0, <3>1, <3>2
    <3>4. Belongs(q, k, operations[q].env) /\ Has(q, "succeeded")
      BY <2>1, <3>3 DEF Belongs, Has
    <3>5. generations[q] = "recorded"
      BY <2>1, <3>1, <3>4 DEF Honest, SucceededIsRecorded
    <3> QED BY <3>5 DEF Light
  <2>2. ASSUME NEW w \in Waiting', w.store = "operations", w.key = q, w.val.status = "succeeded"
        PROVE  FALSE
    <3>1. w.val \in OperationRecord
      BY <1>1, <2>2, WriteFields
    <3>2. w.val.kind \in Kinds /\ w.val.env \in Env
      BY <2>2, <3>1 DEF OperationRecord, NoOperation
    <3>3. Belongs(q, w.val.kind, w.val.env)'
      BY <2>2 DEF Belongs
    <3>4. w.val.kind = k
      BY <2>0, <3>2, <3>3
    <3> QED BY <2>2, <3>4 DEF Light
  <2> QED BY <1>1, <1>5, <2>1, <2>2 DEF Has, Becomes
<1>6. SettledWhileOpen(q)' /\ FailedIsGivenUp(q)' /\ CancelledIsGivenUp(q)'
  BY <1>1, <1>2, <1>4 DEF Light, SettledWhileOpen, FailedIsGivenUp, CancelledIsGivenUp
<1>7. SucceededIsRecorded(q)' /\ SucceededSpends(q)' /\ SucceededIsCommitted(q)'
  BY <1>2, <1>5 DEF SucceededIsRecorded, SucceededSpends, SucceededIsCommitted
<1>8. PlanIsOwn(q)' /\ SpendsOwn(q)'
  BY <1>2 DEF PlanIsOwn, SpendsOwn
<1>9. SpentIsCommitted(q)'
  <2> SUFFICES ASSUME NEW p \in Plan, plans[p] = q PROVE FALSE
    BY <1>1, PlanAssumption DEF SpentIsCommitted
  <2>1. PlanFor[p] \in Env /\ Belongs(q, "apply", PlanFor[p]) /\ operations[q].status = "succeeded"
    BY PlanAssumption DEF Light, Honest, SpentIsCommitted, Built
  <2>2. Belongs(q, "apply", PlanFor[p])'
    BY <1>1, <2>1 DEF Belongs
  <2>3. Has(q, "succeeded")'
    BY <1>1, <2>1 DEF Has
  <2> QED BY <1>5, <2>1, <2>2, <2>3
<1> QED BY <1>6, <1>7, <1>8, <1>9 DEF Light, Honest

\* The order of a block.
LEMMA OrderlySet ==
  ASSUME NEW s \in Script,
         \A w \in ToSet(s) : ~(w.store = "generations" /\ w.val = "recorded"),
         \/ \A w \in ToSet(s) : w.store # "plans"
         \/ \A w \in ToSet(s) : w.store # "environments"
  PROVE  Orderly(s)
<1>1. \A i \in 1..Len(s) : s[i] \in ToSet(s)
  BY DEF ToSet, Script
<1> QED BY <1>1 DEF Orderly, Follows

LEMMA JoinedOrderly ==
  ASSUME NEW s \in Script, NEW t \in Script, Orderly(s), Orderly(t),
         \A v \in ToSet(s), w \in ToSet(t) : Follows(v, w)
  PROVE  Orderly(s \o t)
<1> SUFFICES ASSUME NEW i \in 1..Len(s \o t), NEW j \in 1..Len(s \o t), i < j
             PROVE  Follows((s \o t)[i], (s \o t)[j])
  BY DEF Orderly
<1>1. Len(s \o t) = Len(s) + Len(t) /\ Len(s) \in Nat /\ Len(t) \in Nat
  BY DEF Script
<1>2. \A n \in 1..Len(s \o t) : (s \o t)[n] = IF n <= Len(s) THEN s[n] ELSE t[n - Len(s)]
  BY DEF Script
<1>3. /\ \A n \in 1..Len(s) : s[n] \in ToSet(s)
      /\ \A n \in 1..Len(t) : t[n] \in ToSet(t)
  BY DEF ToSet, Script
<1>4. CASE j <= Len(s)
  BY <1>1, <1>2, <1>4 DEF Orderly
<1>5. CASE i <= Len(s) /\ j > Len(s)
  <2>1. i \in 1..Len(s) /\ j - Len(s) \in 1..Len(t)
    BY <1>1, <1>5
  <2> QED BY <1>2, <1>3, <1>5, <2>1
<1>6. CASE i > Len(s)
  <2>1. i - Len(s) \in 1..Len(t) /\ j - Len(s) \in 1..Len(t) /\ i - Len(s) < j - Len(s)
    BY <1>1, <1>6
  <2> QED BY <1>1, <1>2, <1>6, <2>1 DEF Orderly
<1> QED BY <1>1, <1>4, <1>5, <1>6

(***************************************************************************)
(* The operation the block is about.                                       *)
(***************************************************************************)
LEMMA OpenedFacts ==
  ASSUME TypeOK, Opened, NEW q \in Op
  PROVE  /\ UNCHANGED << environments, operations, journals, generations, plans >>
         /\ Waiting = {} /\ \A w \in Waiting' : w \in WriteRecord
         /\ \A s : /\ Has(q, s) <=> operations[q].status = s
                   /\ Has(q, s)' <=> operations[q].status = s \/ Becomes(q, s)'
                   /\ ~Becomes(q, s) /\ ~Builds(q, s)
         /\ \A k, e : /\ Keeps(q, k, e) <=> journals[q].kind = k /\ journals[q].env = e
                      /\ Belongs(q, k, e) <=> operations[q].kind = k /\ operations[q].env = e
         /\ \A p : /\ Uses(q, p) <=> journals[q].kind = "apply" /\ journals[q].plan = p
                   /\ ~Spends(q, p)
         /\ ~Closes(q) /\ ~Ends(q) /\ ~RecordsFirst(q) /\ (Live(q) <=> controllers[q])
         /\ Unfinished(q) <=> operations[q].status = "active"
         /\ Unfinished(q)' <=> operations[q].status = "active" \/ Becomes(q, "active")'
<1>1. /\ UNCHANGED << environments, operations, journals, generations, plans >> /\ Waiting = {}
      /\ todo = <<>> /\ \A w \in Waiting' : w \in WriteRecord
  BY NothingWaits DEF Opened, Stores
<1> QED BY <1>1 DEF Has, Becomes, Builds, Keeps, Belongs, Uses, Spends, Closes, Ends,
                    RecordsFirst, Live, Unfinished

\* The transaction of q is given up.
LEMMA GivesUpStays ==
  ASSUME TypeOK, Opened, NEW q \in Op, Honest(q), journals[q].kind \in Built,
         operations[q].status # "succeeded", \A e \in Env : environments[e].gen # q,
         ~Live(q)', q \notin aborted',
         \A w \in Waiting' :
           /\ w.store = "operations" /\ w.key = q =>
                w.val.status = "failed" /\ operations[q].status = "active"
           /\ w.store = "journals" /\ w.key = q => w.val.kind = "none"
           /\ w.store = "generations" /\ w.key = q =>
                \/ w.val = "absent"
                \/ w.val = "recorded" /\ operations[q].status # "cancelled"
           /\ w.store = "plans" => w.val # q
           /\ w.store = "environments" => w.val.gen # q,
         Builds(q, "absent")', operations[q].status = "active" => Ends(q)'
  PROVE  Honest(q)'
<1>1. /\ UNCHANGED << environments, operations, journals, generations, plans >>
      /\ \A s : /\ Has(q, s) <=> operations[q].status = s
                /\ Has(q, s)' <=> operations[q].status = s \/ Becomes(q, s)'
      /\ \A k, e : /\ Keeps(q, k, e) <=> journals[q].kind = k /\ journals[q].env = e
                   /\ Belongs(q, k, e) <=> operations[q].kind = k /\ operations[q].env = e
      /\ \A p : Uses(q, p) <=> journals[q].kind = "apply" /\ journals[q].plan = p
      /\ Unfinished(q)' <=> operations[q].status = "active" \/ Becomes(q, "active")'
  BY OpenedFacts
<1>2. /\ \A s : Becomes(q, s)' => s = "failed" /\ operations[q].status = "active"
      /\ ~Has(q, "succeeded")'
      /\ ~Builds(q, "staged")' /\ (Builds(q, "recorded")' => operations[q].status # "cancelled")
      /\ \A e \in Env : ~PointsTo(e, q)'
      /\ \A p : ~Spends(q, p)'
  BY <1>1 DEF Becomes, Builds, PointsTo, Spends
<1>3. /\ \A e \in Env : Keeps(q, "apply", e)' => Keeps(q, "apply", e)
      /\ \A p : Uses(q, p)' => Uses(q, p)
  BY <1>1 DEF Keeps, Uses
<1>4. LiveIsUnsettled(q)' /\ AbortedApplyEnds(q)' /\ EndsOnce(q)'
  <2>1. EndsOnce(q)'
    BY <1>1, <1>2 DEF EndsOnce
  <2> QED BY <2>1 DEF LiveIsUnsettled, AbortedApplyEnds
<1>5. SettledWhileOpen(q)' /\ FailedIsGivenUp(q)'
  BY <1>1, <1>2 DEF SettledWhileOpen, FailedIsGivenUp
<1>6. CancelledIsGivenUp(q)'
  <2> SUFFICES ASSUME NEW e \in Env, Belongs(q, "apply", e)', Has(q, "cancelled")'
               PROVE  generations[q] # "recorded" /\ ~Builds(q, "recorded")'
    BY <1>1 DEF CancelledIsGivenUp
  <2>1. operations[q].status = "cancelled"
    BY <1>1, <1>2
  <2>2. Belongs(q, "apply", e)
    <3>1. \A w \in Waiting' : ~(w.store = "operations" /\ w.key = q)
      BY <2>1
    <3> QED BY <1>1, <3>1 DEF Belongs
  <2> QED BY <1>1, <1>2, <2>1, <2>2 DEF Honest, CancelledIsGivenUp
<1>7. SucceededIsRecorded(q)' /\ SucceededIsCommitted(q)' /\ SucceededSpends(q)'
  BY <1>2 DEF SucceededIsRecorded, SucceededIsCommitted, SucceededSpends
<1>8. PlanIsOwn(q)' /\ SpendsOwn(q)'
  BY <1>1, <1>2, <1>3 DEF Honest, PlanIsOwn, SpendsOwn
<1>9. SpentIsCommitted(q)'
  <2>1. \A p \in Plan : plans[p] # q
    BY PlanAssumption DEF Honest, SpentIsCommitted
  <2> QED BY <1>1, <2>1 DEF SpentIsCommitted
<1> QED BY <1>4, <1>5, <1>6, <1>7, <1>8, <1>9 DEF Honest

\* The operation of a live task is cancelled.
LEMMA CancelledStays ==
  ASSUME TypeOK, StoresInv, Opened, NEW q \in Op, Honest(q), Serving, controllers[q], controllers'[q],
         q \in aborted', operations[q].status = "active", Waiting' = {Ended(q, "cancelled")}
  PROVE  Honest(q)'
<1>0. /\ Ended(q, "cancelled").store = "operations" /\ Ended(q, "cancelled").key = q
      /\ Ended(q, "cancelled").val.kind = operations[q].kind
      /\ Ended(q, "cancelled").val.env = operations[q].env
      /\ Ended(q, "cancelled").val.status = "cancelled"
  BY EndedFields
<1>1. /\ UNCHANGED << environments, operations, journals, generations, plans >>
      /\ \A s : /\ Has(q, s) <=> operations[q].status = s
                /\ Has(q, s)' <=> operations[q].status = s \/ Becomes(q, s)'
      /\ \A k, e : /\ Keeps(q, k, e) <=> journals[q].kind = k /\ journals[q].env = e
                   /\ Belongs(q, k, e) <=> operations[q].kind = k /\ operations[q].env = e
      /\ \A p : Uses(q, p) <=> journals[q].kind = "apply" /\ journals[q].plan = p
      /\ Unfinished(q) <=> operations[q].status = "active"
      /\ Unfinished(q)' <=> operations[q].status = "active" \/ Becomes(q, "active")'
      /\ Live(q) <=> controllers[q]
      /\ \A s : ~Becomes(q, s)
  BY OpenedFacts
<1>2. /\ \A s : Becomes(q, s)' <=> s = "cancelled"
      /\ ~Has(q, "succeeded")' /\ ~Has(q, "failed")' /\ Ends(q)'
      /\ \A s : ~Builds(q, s)'
      /\ ~Closes(q)' /\ \A p : ~Spends(q, p)'
  BY <1>0, <1>1 DEF Becomes, Builds, Closes, Spends, Ends, Terminal
<1>3. /\ \A e : Keeps(q, "apply", e)' => Keeps(q, "apply", e)
      /\ \A p : Uses(q, p)' => Uses(q, p)
  BY <1>0, <1>1 DEF Keeps, Uses
<1>4. generations[q] # "recorded"
  BY <1>1 DEF StoresInv, LiveNotRecorded
<1>5. LiveIsUnsettled(q)' /\ AbortedApplyEnds(q)'
  BY <1>2 DEF LiveIsUnsettled, AbortedApplyEnds
<1>6. EndsOnce(q)' /\ SettledWhileOpen(q)' /\ FailedIsGivenUp(q)' /\ CancelledIsGivenUp(q)'
  BY <1>1, <1>2, <1>4 DEF EndsOnce, SettledWhileOpen, FailedIsGivenUp, CancelledIsGivenUp
<1>7. SucceededIsRecorded(q)' /\ SucceededIsCommitted(q)' /\ SucceededSpends(q)'
  BY <1>2 DEF SucceededIsRecorded, SucceededIsCommitted, SucceededSpends
<1>8. PlanIsOwn(q)' /\ SpendsOwn(q)'
  BY <1>1, <1>2, <1>3 DEF Honest, PlanIsOwn, SpendsOwn
<1>9. SpentIsCommitted(q)'
  <2>1. \A p \in Plan : plans[p] # q
    BY <1>1 DEF Honest, SpentIsCommitted, Left
  <2> QED BY <1>1, <2>1 DEF SpentIsCommitted
<1> QED BY <1>5, <1>6, <1>7, <1>8, <1>9 DEF Honest

\* A new transaction begins.
LEMMA PreparedStays ==
  ASSUME TypeOK, StoresInv, AttendedInv, Opened, NEW q \in Op, Honest(q), ledger[q].state = "none",
         UNCHANGED aborted, Live(q)', NEW k \in Built, NEW e \in Env, NEW p,
         k = "apply" => p \in Plan /\ PlanFor[p] = e /\ plans[p] = None,
         \A w \in Waiting' :
           /\ w.store = "operations" /\ w.key = q => w.val.status = "active"
           /\ w.store = "journals" /\ w.key = q =>
                w.val.kind = k /\ w.val.env = e /\ w.val.plan = p
           /\ w.store = "generations" /\ w.key = q => w.val = "staged"
           /\ w.store = "plans" => w.val # q
  PROVE  Honest(q)'
<1>0. /\ generations[q] = "absent" /\ ~controllers[q] /\ q \notin aborted
      /\ operations[q].kind \notin Kinds /\ journals[q].kind \notin Kinds
  BY DEF StoresInv, Fresh, Blank, AttendedInv, AbortedEnds
<1>1. operations[q].status = "absent"
  BY <1>0 DEF TypeOK, OperationRecord, NoOperation
<1>2. /\ UNCHANGED << environments, operations, journals, generations, plans >>
      /\ \A s : Has(q, s)' <=> operations[q].status = s \/ Becomes(q, s)'
      /\ \A d : Belongs(q, k, d) <=> operations[q].kind = k /\ operations[q].env = d
      /\ \A d : Belongs(q, "apply", d) <=> operations[q].kind = "apply" /\ operations[q].env = d
  BY OpenedFacts
<1>3. /\ \A s : Becomes(q, s)' => s = "active"
      /\ ~Has(q, "succeeded")' /\ ~Has(q, "failed")' /\ ~Has(q, "cancelled")'
      /\ \A s : Builds(q, s)' => s = "staged"
      /\ \A r : ~Spends(q, r)'
  BY <1>1, <1>2 DEF Becomes, Builds, Spends
<1>4. ~Closes(q)'
  BY DEF Closes, Built, CoreTransactions
<1>5. LiveIsUnsettled(q)' /\ AbortedApplyEnds(q)' /\ EndsOnce(q)'
  BY <1>0, <1>1, <1>2, <1>3 DEF LiveIsUnsettled, AbortedApplyEnds, EndsOnce, Terminal
<1>6. SettledWhileOpen(q)' /\ FailedIsGivenUp(q)' /\ CancelledIsGivenUp(q)'
  BY <1>0, <1>2, <1>3, <1>4 DEF SettledWhileOpen, FailedIsGivenUp, CancelledIsGivenUp
<1>7. SucceededIsRecorded(q)' /\ SucceededIsCommitted(q)' /\ SucceededSpends(q)' /\ SpendsOwn(q)'
  BY <1>3 DEF SucceededIsRecorded, SucceededIsCommitted, SucceededSpends, SpendsOwn
<1>8. PlanIsOwn(q)'
  <2>1. \A r : Uses(q, r)' => k = "apply" /\ r = p
    BY <1>0, <1>2 DEF Uses, Kinds
  <2>2. \A d : Keeps(q, "apply", d)' => d = e
    BY <1>0, <1>2 DEF Keeps, Kinds
  <2> QED BY <1>2, <2>1, <2>2 DEF PlanIsOwn
<1>9. SpentIsCommitted(q)'
  <2>1. \A r \in Plan : plans[r] # q
    BY <1>0, <1>2 DEF Honest, SpentIsCommitted, Kinds
  <2> QED BY <1>2, <2>1 DEF SpentIsCommitted
<1> QED BY <1>5, <1>6, <1>7, <1>8, <1>9 DEF Honest

\* The transaction of q is committed: the pointer is about to move.
LEMMA CommitsStays ==
  ASSUME TypeOK, StoresInv, Opened, NEW q \in Op, Honest(q), Serving, controllers[q], ~Live(q)',
         q \notin aborted', journals[q].kind \in Built, \A e \in Env : environments[e].gen # q,
         operations[q].kind = journals[q].kind,
         NEW f \in Env, journals[q].env = f, RecordsFirst(q)', PointsTo(f, q)', Stays(f, q)',
         journals[q].kind = "apply" =>
           q \notin aborted /\ \E p \in Plan : Spends(q, p)',
         \A w \in Waiting' :
           /\ w.store = "operations" /\ w.key = q =>
                /\ w.val.status = "succeeded" /\ operations[q].status = "active"
                /\ w.val.kind = operations[q].kind
           /\ w.store = "journals" /\ w.key = q =>
                \/ w.val.kind = "none"
                \/ /\ w.val.kind = journals[q].kind /\ w.val.env = f
                   /\ w.val.plan = journals[q].plan
           /\ w.store = "generations" /\ w.key = q => w.val = "recorded"
           /\ w.store = "plans" /\ w.val = q =>
                w.key = journals[q].plan /\ journals[q].kind = "apply",
         operations[q].status = "active" => Becomes(q, "succeeded")'
  PROVE  Honest(q)'
<1>1. /\ UNCHANGED << environments, operations, journals, generations, plans >>
      /\ \A s : /\ Has(q, s) <=> operations[q].status = s
                /\ Has(q, s)' <=> operations[q].status = s \/ Becomes(q, s)'
      /\ \A k, e : /\ Keeps(q, k, e) <=> journals[q].kind = k /\ journals[q].env = e
                   /\ Belongs(q, k, e) <=> operations[q].kind = k /\ operations[q].env = e
      /\ \A p : Uses(q, p) <=> journals[q].kind = "apply" /\ journals[q].plan = p
      /\ Unfinished(q)' <=> operations[q].status = "active" \/ Becomes(q, "active")'
      /\ Live(q) <=> controllers[q]
  BY OpenedFacts
<1>2. operations[q].status # "succeeded" /\ operations[q].status # "failed"
      /\ (operations[q].status = "cancelled" => q \in aborted)
  BY <1>1 DEF Honest, LiveIsUnsettled
<1>3. /\ \A s : Becomes(q, s)' <=> s = "succeeded" /\ operations[q].status = "active"
      /\ ~Has(q, "failed")'
      /\ ~Builds(q, "staged")' /\ ~Builds(q, "absent")'
      /\ operations[q].status = "active" => Ends(q)'
  BY <1>1, <1>2 DEF Becomes, Builds, Ends, Terminal
<1>4. /\ \A k \in Built : \A e : Keeps(q, k, e)' => k = journals[q].kind /\ e = f
      /\ \A p : Uses(q, p)' => journals[q].kind = "apply" /\ journals[q].plan = p
      /\ \A p : Spends(q, p)' => journals[q].kind = "apply" /\ journals[q].plan = p
      /\ \A k, e : Belongs(q, k, e)' => k = journals[q].kind
  BY <1>1 DEF Keeps, Uses, Spends, Belongs, Built, CoreTransactions
<1>5. LiveIsUnsettled(q)' /\ AbortedApplyEnds(q)' /\ EndsOnce(q)'
  BY <1>1, <1>2, <1>3 DEF LiveIsUnsettled, AbortedApplyEnds, EndsOnce, Terminal
<1>6. SettledWhileOpen(q)' /\ FailedIsGivenUp(q)'
  BY <1>1, <1>3 DEF SettledWhileOpen, FailedIsGivenUp
<1>7. CancelledIsGivenUp(q)'
  BY <1>1, <1>2, <1>3, <1>4 DEF CancelledIsGivenUp
<1>8. SucceededIsRecorded(q)'
  BY <1>1, <1>2, <1>3 DEF SucceededIsRecorded
<1>9. SucceededIsCommitted(q)'
  BY <1>1, <1>2, <1>4 DEF SucceededIsCommitted
<1>10. journals[q].kind = "apply" =>
         /\ \A p \in Plan : journals[q].plan = p => PlanFor[p] = f /\ plans[p] \in {None, q}
         /\ Has(q, "succeeded")'
  <2>1. journals[q].kind = "apply" => operations[q].status = "active"
    <3>0. operations[q] \in OperationRecord
      BY DEF TypeOK
    <3>1. operations[q].kind = "apply" => operations[q].status # "absent"
      BY <3>0 DEF OperationRecord, NoOperation, Kinds, Terminal
    <3>2. operations[q].status \in Terminal \cup {"active", "absent"}
      BY DEF TypeOK, OperationRecord, NoOperation, Terminal
    <3> QED BY <1>2, <3>1, <3>2 DEF Terminal
  <2>2. \A p \in Plan : journals[q].kind = "apply" /\ journals[q].plan = p =>
          PlanFor[p] = f /\ plans[p] \in {None, q}
    BY <1>1 DEF Honest, PlanIsOwn
  <2> QED BY <1>1, <2>1, <2>2
<1>11. PlanIsOwn(q)'
  <2>1. "apply" \in Built
    BY DEF Built
  <2> QED BY <1>1, <1>4, <1>10, <2>1 DEF PlanIsOwn
<1>12. SpendsOwn(q)'
  BY <1>1, <1>4, <1>10 DEF SpendsOwn
<1>13. SpentIsCommitted(q)'
  <2>1. \A p \in Plan : plans[p] # q
    BY <1>2, PlanAssumption DEF Honest, SpentIsCommitted
  <2> QED BY <1>1, <2>1 DEF SpentIsCommitted
<1>14. SucceededSpends(q)'
  BY <1>4 DEF SucceededSpends
<1> QED BY <1>5, <1>6, <1>7, <1>8, <1>9, <1>11, <1>12, <1>13, <1>14 DEF Honest

\* Recovery finishes a transaction whose pointer was moved.
LEMMA FinishedStays ==
  ASSUME TypeOK, StoresInv, AttendedInv, Opened, NEW q \in Op, Honest(q), ~Serving, UNCHANGED aborted,
         ~Live(q)', journals[q].kind \in Built, NEW f \in Env, journals[q].env = f,
         environments[f].gen = q,
         \A w \in Waiting' :
           /\ w.store = "operations" /\ w.key = q =>
                /\ w.val.status = "succeeded" /\ operations[q].status # "succeeded"
                /\ w.val.kind = operations[q].kind
           /\ w.store = "journals" /\ w.key = q => w.val.kind = "none"
           /\ w.store = "generations" => w.key # q
           /\ w.store = "plans" /\ w.val = q =>
                w.key = journals[q].plan /\ journals[q].kind = "apply"
           /\ w.store # "environments",
         operations[q].status \in {"active", "cancelled"} => Becomes(q, "succeeded")',
         \A p \in Plan : journals[q].kind = "apply" /\ journals[q].plan = p /\ plans[p] = None =>
           Spends(q, p)'
  PROVE  Honest(q)'
<1>1. /\ UNCHANGED << environments, operations, journals, generations, plans >>
      /\ \A s : /\ Has(q, s) <=> operations[q].status = s
                /\ Has(q, s)' <=> operations[q].status = s \/ Becomes(q, s)'
      /\ \A k, e : /\ Keeps(q, k, e) <=> journals[q].kind = k /\ journals[q].env = e
                   /\ Belongs(q, k, e) <=> operations[q].kind = k /\ operations[q].env = e
      /\ \A p : Uses(q, p) <=> journals[q].kind = "apply" /\ journals[q].plan = p
      /\ Unfinished(q)' <=> operations[q].status = "active" \/ Becomes(q, "active")'
      /\ ~RecordsFirst(q)
  BY OpenedFacts
<1>2. operations[q].kind = journals[q].kind
  BY JournalOfOperation
<1>3. generations[q] = "recorded" /\ PointsTo(f, q)
  BY NoneAssumption DEF StoresInv, PointerIntact, PointsTo
<1>4. operations[q].status \in {"active", "cancelled", "succeeded"}
  <2>1. operations[q].status # "failed"
    BY <1>1, <1>3 DEF Honest, FailedIsGivenUp
  <2>2. operations[q].status # "absent"
    BY DEF AttendedInv, BuiltKnown, Known
  <2> QED BY <2>1, <2>2 DEF TypeOK, OperationRecord, NoOperation, Terminal
<1>5. operations[q].kind = "apply" => operations[q].status # "cancelled"
  <2>1. PICK d \in Env : operations[q].env = d
    BY JournalOfOperation
  <2> QED BY <1>1, <1>3, <2>1 DEF Honest, CancelledIsGivenUp
<1>6. /\ Has(q, "succeeded")' /\ ~Has(q, "failed")'
      /\ operations[q].status \in {"active", "cancelled"} => Ends(q)'
      /\ \A s : Becomes(q, s)' => s = "succeeded"
      /\ \A s : ~Builds(q, s)'
      /\ \A e : Stays(e, q)'
      /\ \A e : Belongs(q, "apply", e)' => operations[q].kind = "apply"
  BY <1>1, <1>4 DEF Becomes, Builds, Ends, Terminal, Stays, Belongs
<1>7. /\ \A k \in Built : \A e : Keeps(q, k, e)' => k = journals[q].kind /\ e = f
      /\ \A p : Uses(q, p)' => journals[q].kind = "apply" /\ journals[q].plan = p
      /\ \A p : Spends(q, p)' => journals[q].kind = "apply" /\ journals[q].plan = p
      /\ PointsTo(f, q)'
  BY <1>1 DEF Keeps, Uses, Spends, Built, CoreTransactions, PointsTo
<1>8. q \notin aborted
  BY DEF AttendedInv, AbortedEnds, StoresInv, NobodyLive, Live
<1>9. LiveIsUnsettled(q)' /\ AbortedApplyEnds(q)'
  BY <1>8 DEF LiveIsUnsettled, AbortedApplyEnds
<1>10. EndsOnce(q)'
  BY <1>1, <1>6 DEF EndsOnce
<1>11. SettledWhileOpen(q)' /\ FailedIsGivenUp(q)'
  BY <1>1, <1>6 DEF SettledWhileOpen, FailedIsGivenUp
<1>12. CancelledIsGivenUp(q)'
  BY <1>1, <1>5, <1>6 DEF CancelledIsGivenUp
<1>13. SucceededIsRecorded(q)' /\ SucceededIsCommitted(q)'
  <2>1. SucceededIsRecorded(q)'
    BY <1>1, <1>3, <1>6 DEF SucceededIsRecorded
  <2>2. SucceededIsCommitted(q)'
    BY <1>1, <1>6, <1>7 DEF SucceededIsCommitted
  <2> QED BY <2>1, <2>2
<1>14. \A p \in Plan : journals[q].kind = "apply" /\ journals[q].plan = p =>
         PlanFor[p] = f /\ plans[p] \in {None, q}
  BY <1>1 DEF Honest, PlanIsOwn
<1>15. PlanIsOwn(q)'
  <2>1. "apply" \in Built
    BY DEF Built
  <2> QED BY <1>1, <1>7, <1>14, <2>1 DEF PlanIsOwn
<1>16. SpendsOwn(q)'
  BY <1>1, <1>6, <1>7, <1>14 DEF SpendsOwn
<1>17. SpentIsCommitted(q)'
  <2> SUFFICES ASSUME NEW p \in Plan, plans[p] = q
               PROVE  /\ Belongs(q, "apply", PlanFor[p])'
                      /\ \/ operations[q].status = "succeeded"
                         \/ /\ journals[q].kind = "apply" /\ journals[q].plan = p
                            /\ environments[PlanFor[p]].gen = q /\ Becomes(q, "succeeded")'
    BY <1>1, <1>6, PlanAssumption DEF SpentIsCommitted
  <2>1. /\ Belongs(q, "apply", PlanFor[p])
        /\ \/ operations[q].status = "succeeded"
           \/ /\ journals[q].kind = "apply" /\ journals[q].plan = p
              /\ environments[PlanFor[p]].gen = q
    BY DEF Honest, SpentIsCommitted
  <2>2. operations[q].kind = "apply" /\ operations[q].env = PlanFor[p]
    BY <1>1, <2>1
  <2>3. Belongs(q, "apply", PlanFor[p])'
    BY <1>1, <2>2 DEF Belongs
  <2> QED BY <1>4, <2>1, <2>3
<1>18. SucceededSpends(q)'
  <2> SUFFICES ASSUME operations[q].kind = "apply"
               PROVE  \E p \in Plan : plans[p] = q \/ Spends(q, p)'
    BY <1>1, <1>6 DEF SucceededSpends
  <2>1. journals[q] \in JournalRecord /\ journals[q].kind = "apply"
    BY <1>2 DEF TypeOK
  <2>2. PICK p \in Plan : journals[q].plan = p
    BY <2>1 DEF JournalRecord, NoJournal, CoreTransactions
  <2> QED BY <1>14, <2>1, <2>2
<1> QED BY <1>9, <1>10, <1>11, <1>12, <1>13, <1>15, <1>16, <1>17, <1>18 DEF Honest

(***************************************************************************)
(* The blocks of transactions.                                             *)
(***************************************************************************)
LEMMA HonestBlock ==
  ASSUME TypeOK, Opened, HonestInv, Serving' <=> Serving, Orderly(todo'),
         \A q \in Op : Spared(q) \/ Honest(q)'
  PROVE  HonestInv'
<1>1. ASSUME NEW q \in Op PROVE Honest(q)'
  <2>1. Honest(q)
    BY DEF HonestInv
  <2> QED BY <2>1, SparedStays
<1> QED BY <1>1 DEF HonestInv

\* The block of transaction o is about o and its environment.
OwnBlock(o) ==
  /\ \A q \in Op \ {o} : controllers'[q] = controllers[q] /\ (q \in aborted' <=> q \in aborted)
  /\ \A w \in Waiting' :
       /\ w.store \in {"operations", "journals", "generations"} => w.key = o
       /\ w.store # "controllers"
       /\ w.store = "plans" => w.val = o
       /\ w.store = "environments" => w.key = journals[o].env /\ w.val.gen \in {None, o}

LEMMA OwnSpares ==
  ASSUME TypeOK, StoresInv, Opened, NEW o \in Op, journals[o].kind \in Built, OwnBlock(o),
         NEW q \in Op, q # o
  PROVE  Spared(q)
<1>1. journals[o].env \in Env /\ journals[o].kind \in Kinds /\ None # q
  BY JournalFields, NoneAssumption DEF Built, CoreTransactions, Kinds
<1>2. ASSUME environments[journals[o].env].gen = q, journals[q].kind \in Built PROVE FALSE
  <2>1. journals[q].env \in Env /\ journals[q].kind \in Kinds
    BY <1>2, JournalFields DEF Built, CoreTransactions, Kinds
  <2>2. PointsTo(journals[o].env, q) /\ Keeps(q, journals[q].kind, journals[q].env)
        /\ Keeps(o, journals[o].kind, journals[o].env)
    BY <1>2 DEF PointsTo, Keeps
  <2>3. journals[q].env = journals[o].env
    BY <1>1, <2>1, <2>2 DEF StoresInv, OneHome, Claims
  <2>4. Keeps(q, journals[q].kind, journals[o].env)
    BY <2>2, <2>3
  <2> QED BY <1>1, <2>1, <2>2, <2>4 DEF StoresInv, OneJournal
<1>3. \A w \in Waiting' :
        /\ w.store \in {"operations", "journals", "generations", "controllers"} => w.key # q
        /\ w.store = "plans" => w.val # q
        /\ w.store = "environments" =>
             /\ w.val.gen # q
             /\ environments[w.key].gen = q => journals[q].kind \notin Built
  BY <1>1, <1>2 DEF OwnBlock
<1> QED BY <1>3 DEF OwnBlock, Spared

GivingUp(o) ==
  Settling(o, "failed") \cup Erring(o) \cup Repairing(o)
  \cup {PutGeneration(o, "absent"), PutGeneration(o, "recorded"), Removed(o)}

LEMMA GivingUpFields ==
  ASSUME TypeOK, NEW o \in Op, journals[o].kind \in Built, NEW w \in GivingUp(o)
  PROVE  /\ w.store \in {"operations", "journals", "generations"} => w.key = o
         /\ w.store \notin {"controllers", "plans"}
         /\ w.store = "operations" =>
              w.val.status = "failed" /\ operations[o].status = "active"
         /\ w.store = "journals" => w.val.kind = "none"
         /\ w.store = "generations" => w = PutGeneration(o, w.val) /\ w.val \in {"absent", "recorded"}
         /\ w.store = "environments" => w.key = journals[o].env /\ w.val.gen = None
<1>1. CASE w \in Settling(o, "failed")
  BY <1>1, EndedFields DEF Settling
<1>2. CASE w \in Erring(o)
  <2>1. PICK e \in Env : e = journals[o].env
    BY JournalFields
  <2> QED BY <1>2, <2>1, EnvironmentFields DEF Erring
<1>3. CASE w \in Repairing(o)
  BY <1>3 DEF Repairing, PutLedger, Write
<1>4. CASE w \in {PutGeneration(o, "absent"), PutGeneration(o, "recorded")}
  BY <1>4, GenerationFields DEF PutGeneration, Write
<1>5. CASE w = Removed(o)
  BY <1>5, RemovalFields DEF Removed
<1> QED BY <1>1, <1>2, <1>3, <1>4, <1>5 DEF GivingUp

LEMMA HonestGivesUp ==
  ASSUME TypeOK, StoresInv, HonestInv, Opened, Serving' <=> Serving, Orderly(todo'),
         NEW o \in Op, journals[o].kind \in Built, operations[o].status # "succeeded",
         \A e \in Env : environments[e].gen # o,
         ~controllers'[o], o \notin aborted',
         \A q \in Op \ {o} : controllers'[q] = controllers[q] /\ (q \in aborted' <=> q \in aborted),
         Waiting' \subseteq GivingUp(o), PutGeneration(o, "absent") \in Waiting',
         PutGeneration(o, "recorded") \in Waiting' => operations[o].status # "cancelled",
         operations[o].status = "active" => Ends(o)'
  PROVE  HonestInv'
<1>1. None # o
  BY NoneAssumption
<1>2. \A w \in Waiting' :
        /\ w.store \in {"operations", "journals", "generations"} => w.key = o
        /\ w.store \notin {"controllers", "plans"}
        /\ w.store = "operations" => w.val.status = "failed" /\ operations[o].status = "active"
        /\ w.store = "journals" => w.val.kind = "none"
        /\ w.store = "generations" => w = PutGeneration(o, w.val) /\ w.val \in {"absent", "recorded"}
        /\ w.store = "environments" => w.key = journals[o].env /\ w.val.gen = None
  BY GivingUpFields
<1>3. OwnBlock(o)
  BY <1>2 DEF OwnBlock
<1>4. ~Live(o)' /\ Builds(o, "absent")'
  BY <1>2, GenerationFields DEF Live, Builds
<1>5. Honest(o)
  BY DEF HonestInv
<1>6. Honest(o)'
  BY <1>1, <1>2, <1>4, <1>5, GivesUpStays
<1>7. \A q \in Op : Spared(q) \/ Honest(q)'
  BY <1>3, <1>6, OwnSpares
<1> QED BY <1>7, HonestBlock

Completing(o) ==
  CommitSet(o) \cup Repairing(o)
  \cup IF journals[o].kind = "apply" THEN {PutPlan(journals[o].plan, o)} ELSE {}

LEMMA CompletingFields ==
  ASSUME TypeOK, NEW o \in Op, journals[o].kind \in Built, NEW w \in Completing(o)
  PROVE  /\ w.store \in {"operations", "journals", "generations"} => w.key = o
         /\ w.store # "controllers"
         /\ w.store = "operations" =>
              /\ w.val.status = "succeeded" /\ operations[o].status = "active"
              /\ w.val.kind = operations[o].kind
         /\ w.store = "journals" =>
              \/ w.val.kind = "none"
              \/ /\ w.val.kind = journals[o].kind /\ w.val.env = journals[o].env
                 /\ w.val.plan = journals[o].plan
         /\ w.store = "generations" => w.val = "recorded"
         /\ w.store = "environments" => w.key = journals[o].env /\ w.val.gen = o
         /\ w.store = "plans" =>
              w.val = o /\ w.key = journals[o].plan /\ journals[o].kind = "apply"
<1>1. CASE w \in Settling(o, "succeeded")
  BY <1>1, EndedFields DEF Settling
<1>2. CASE w = PutEnvironment(journals[o].env, Committing(journals[o].env, o))
  <2>1. PICK e \in Env : e = journals[o].env
    BY JournalFields
  <2> QED BY <1>2, <2>1, EnvironmentFields
<1>3. CASE w \in Repairing(o)
  BY <1>3 DEF Repairing, PutLedger, Write
<1>4. CASE w = PutGeneration(o, "recorded")
  BY <1>4, GenerationFields
<1>5. CASE w = Removed(o)
  BY <1>5, RemovalFields DEF Removed
<1>6. CASE w = MarkedCommitted(o)
  BY <1>6, JournalFields DEF MarkedCommitted
<1>7. CASE w = PutPlan(journals[o].plan, o) /\ journals[o].kind = "apply"
  BY <1>7 DEF PutPlan, Write
<1> QED BY <1>1, <1>2, <1>3, <1>4, <1>5, <1>6, <1>7 DEF Completing, CommitSet

LEMMA HonestCommits ==
  ASSUME TypeOK, StoresInv, AttendedInv, HonestInv, Opened, Serving, Serving', Orderly(todo'),
         NEW o \in Op, journals[o].kind \in Built, controllers[o],
         ~controllers'[o], o \notin aborted',
         \A q \in Op \ {o} : controllers'[q] = controllers[q] /\ (q \in aborted' <=> q \in aborted),
         Waiting' \subseteq Completing(o), CommitSet(o) \subseteq Waiting', RecordsFirst(o)',
         journals[o].kind = "apply" =>
           o \notin aborted /\ PutPlan(journals[o].plan, o) \in Waiting'
  PROVE  HonestInv'
<1>1. /\ todo = <<>> /\ \A e \in Env : environments[e].gen # o
      /\ operations[o].kind = journals[o].kind
  <2>1. todo = <<>>
    BY DEF Opened
  <2>2. \A e \in Env : environments[e].gen # o
    BY <2>1, TransactionFacts
  <2>3. operations[o].kind = journals[o].kind
    BY JournalOfOperation
  <2> QED BY <2>1, <2>2, <2>3
<1>2. \A w \in Waiting' :
        /\ w.store \in {"operations", "journals", "generations"} => w.key = o
        /\ w.store # "controllers"
        /\ w.store = "operations" =>
             /\ w.val.status = "succeeded" /\ operations[o].status = "active"
             /\ w.val.kind = operations[o].kind
        /\ w.store = "journals" =>
             \/ w.val.kind = "none"
             \/ /\ w.val.kind = journals[o].kind /\ w.val.env = journals[o].env
                /\ w.val.plan = journals[o].plan
        /\ w.store = "generations" => w.val = "recorded"
        /\ w.store = "environments" => w.key = journals[o].env /\ w.val.gen = o
        /\ w.store = "plans" =>
             w.val = o /\ w.key = journals[o].plan /\ journals[o].kind = "apply"
  BY CompletingFields
<1>3. OwnBlock(o)
  BY <1>2 DEF OwnBlock
<1>4. PICK f \in Env : f = journals[o].env
  BY JournalFields
<1>5. PointsTo(f, o)' /\ Stays(f, o)' /\ ~Live(o)'
  <2>1. PutEnvironment(f, Committing(f, o)) \in Waiting'
    BY <1>4 DEF CommitSet
  <2>2. PointsTo(f, o)'
    BY <2>1, EnvironmentFields DEF PointsTo
  <2>3. Stays(f, o)' /\ ~Live(o)'
    BY <1>2 DEF Stays, Live
  <2> QED BY <2>2, <2>3
<1>6. journals[o].kind = "apply" => o \notin aborted /\ \E p \in Plan : Spends(o, p)'
  <2> SUFFICES ASSUME journals[o].kind = "apply" PROVE \E p \in Plan : Spends(o, p)'
    OBVIOUS
  <2>1. journals[o] \in JournalRecord
    BY DEF TypeOK
  <2>2. PICK p \in Plan : p = journals[o].plan
    BY <2>1 DEF JournalRecord, NoJournal, CoreTransactions
  <2>3. PutPlan(p, o) \in Waiting' /\ PutPlan(p, o).store = "plans" /\ PutPlan(p, o).key = p
        /\ PutPlan(p, o).val = o
    BY <2>2 DEF PutPlan, Write
  <2> QED BY <2>3 DEF Spends
<1>7. operations[o].status = "active" => Becomes(o, "succeeded")'
  <2> SUFFICES ASSUME operations[o].status = "active" PROVE Becomes(o, "succeeded")'
    OBVIOUS
  <2>1. Ended(o, "succeeded") \in Waiting'
    BY DEF CommitSet, Settling
  <2> QED BY <2>1, EndedFields DEF Becomes
<1>8. Honest(o)
  BY DEF HonestInv
<1>9. Honest(o)'
  BY <1>1, <1>2, <1>4, <1>5, <1>6, <1>7, <1>8, CommitsStays
<1>10. \A q \in Op : Spared(q) \/ Honest(q)'
  BY <1>3, <1>9, OwnSpares
<1> QED BY <1>10, HonestBlock

\* What comes last of a block is neither a pointer nor a record.
LEMMA PairOrderly ==
  ASSUME NEW a, NEW b, a.store # "plans", ~(b.store = "generations" /\ b.val = "recorded")
  PROVE  Orderly(<< a, b >>)
<1>1. Len(<< a, b >>) = 2 /\ << a, b >>[1] = a /\ << a, b >>[2] = b
  OBVIOUS
<1> QED BY <1>1 DEF Orderly, Follows

LEMMA TripleOrderly ==
  ASSUME NEW a, NEW b, NEW c, b.store \notin {"generations", "plans"}, a.store # "plans",
         c.store \notin {"generations", "environments"}
  PROVE  Orderly(<< a, b, c >>)
<1>1. Len(<< a, b, c >>) = 3 /\ << a, b, c >>[1] = a /\ << a, b, c >>[2] = b /\ << a, b, c >>[3] = c
  OBVIOUS
<1> QED BY <1>1 DEF Orderly, Follows

Concluding(w) == w.store \in {"operations", "journals", "ledger"}

LEMMA LastOrderly ==
  ASSUME NEW s \in Script, NEW t \in Script, Orderly(s), \A w \in ToSet(t) : Concluding(w)
  PROVE  s \o t \in Script /\ Orderly(s \o t)
<1>1. \A v, w : Concluding(w) => Follows(v, w)
  BY DEF Concluding, Follows
<1>2. Orderly(t)
  BY OrderlySet DEF Concluding
<1> QED BY <1>1, <1>2, JoinedOrderly, Joined

LEMMA EndingParts ==
  ASSUME TypeOK, NEW o \in Op, journals[o].kind \in Built
  PROVE  /\ \A w \in Settling(o, "succeeded") : Concluding(w)
         /\ \A w \in Repairing(o) : Concluding(w)
         /\ Concluding(MarkedCommitted(o)) /\ Concluding(Removed(o))
<1>1. \A w \in Settling(o, "succeeded") : Concluding(w)
  BY EndedFields DEF Settling, Concluding
<1>2. \A w \in Repairing(o) : Concluding(w)
  BY DEF Repairing, PutLedger, Write, Concluding
<1>3. Concluding(MarkedCommitted(o))
  BY JournalFields DEF MarkedCommitted, Concluding
<1>4. Concluding(Removed(o))
  BY RemovalFields DEF Removed, Concluding
<1> QED BY <1>1, <1>2, <1>3, <1>4

LEMMA CommitOrderly ==
  ASSUME TypeOK, NEW o \in Op, journals[o].kind \in CoreTransactions
  PROVE  /\ Orderly(CommitScript(o)) /\ CommitScript(o) # <<>>
         /\ Head(CommitScript(o)) = PutGeneration(o, "recorded")
<1>1. OpenJournal(o) /\ journals[o].env \in Env /\ journals[o].kind \in Built
  BY JournalFields DEF Built, OpenJournal, CoreTransactions
<1>0. PICK E \in Env : E = journals[o].env
  BY <1>1
<1> DEFINE move == << PutGeneration(o, "recorded"), PutEnvironment(E, Committing(E, o)) >>
           settle == Settle(o, "succeeded")
           closing == << MarkedCommitted(o), Removed(o) >>
<1>2. move \in Script /\ closing \in Script /\ settle \in Script
  <2>1. move \in Script
    BY OtherWrites, EnvironmentPuts, Pairs DEF GenerationStates
  <2>2. MarkedCommitted(o) \in WriteRecord /\ Removed(o) \in WriteRecord
    BY <1>1, JournalRecords, JournalWrites DEF OpenJournal, MarkedCommitted, Removed
  <2> QED BY <2>1, <2>2, Pairs, Parts DEF Terminal
<1>3. Orderly(move) /\ move # <<>> /\ Head(move) = PutGeneration(o, "recorded")
  BY PairOrderly, GenerationFields, EnvironmentFields
<1>4. (\A w \in ToSet(closing) : Concluding(w)) /\ (\A w \in ToSet(settle) : Concluding(w))
  <2>1. ToSet(closing) = {MarkedCommitted(o), Removed(o)} /\ ToSet(settle) = Settling(o, "succeeded")
    BY FewWrites, Parts DEF Terminal
  <2> QED BY <1>1, <2>1, EndingParts
<1>5. CommitScript(o) = (move \o settle) \o closing
  BY <1>0 DEF CommitScript, MarkedCommitted, Removed
<1> HIDE DEF move, settle, closing
<1>6. move \o settle \in Script /\ Orderly(move \o settle)
      /\ move \o settle # <<>> /\ Head(move \o settle) = PutGeneration(o, "recorded")
  BY <1>2, <1>3, <1>4, LastOrderly, FirstWrite
<1>7. Orderly((move \o settle) \o closing) /\ (move \o settle) \o closing # <<>>
      /\ Head((move \o settle) \o closing) = PutGeneration(o, "recorded")
  BY <1>2, <1>4, <1>6, LastOrderly, FirstWrite
<1> QED BY <1>5, <1>7

LEMMA GivenUpOrderly ==
  ASSUME TypeOK, NEW o \in Op, journals[o].kind \in Built, NEW s \in Script,
         ToSet(s) \subseteq GivingUp(o), PutGeneration(o, "recorded") \notin ToSet(s)
  PROVE  Orderly(s)
<1>1. \A w \in ToSet(s) : ~(w.store = "generations" /\ w.val = "recorded") /\ w.store # "plans"
  BY GivingUpFields
<1> QED BY <1>1, OrderlySet

LEMMA PublishOrderly ==
  ASSUME TypeOK, NEW o \in Op, journals[o].kind = "apply"
  PROVE  /\ Orderly(PublishScript(o)) /\ PublishScript(o) # <<>>
         /\ Head(PublishScript(o)) = PutGeneration(o, "recorded")
<1>0. OpenJournal(o) /\ journals[o].env \in Env /\ journals[o].plan \in Plan
      /\ journals[o].kind \in Built
  BY JournalRecords DEF OpenJournal, Built
<1>6. PICK E \in Env, p \in Plan : E = journals[o].env /\ p = journals[o].plan
  BY <1>0
<1> DEFINE record == << PutGeneration(o, "recorded") >>
           move == PutEnvironment(E, Committing(E, o))
           moves == << move, MarkedCommitted(o), PutPlan(p, o) >>
           settle == Settle(o, "succeeded")
           repair == RepairLedger(o)
           closing == << Removed(o) >>
<1>1. /\ record \in Script /\ ToSet(record) = {PutGeneration(o, "recorded")} /\ Orderly(record)
      /\ record # <<>> /\ Head(record) = PutGeneration(o, "recorded")
  <2>1. Orderly(record)
    BY DEF Orderly
  <2>2. record \in Script /\ ToSet(record) = {PutGeneration(o, "recorded")}
    BY Parts, FewWrites DEF GenerationStates
  <2>3. record # <<>> /\ Head(record) = PutGeneration(o, "recorded")
    OBVIOUS
  <2> QED BY <2>1, <2>2, <2>3
<1>2. /\ moves \in Script /\ ToSet(moves) = {move, MarkedCommitted(o), PutPlan(p, o)}
      /\ Orderly(moves) /\ \A w \in ToSet(moves) : w.store # "generations"
  <2>1. move \in WriteRecord /\ MarkedCommitted(o) \in WriteRecord
        /\ PutPlan(p, o) \in WriteRecord
    BY <1>0, EnvironmentPuts, JournalRecords, JournalWrites, OtherWrites
       DEF OpenJournal, MarkedCommitted
  <2>2. move.store = "environments" /\ MarkedCommitted(o).store = "journals"
        /\ PutPlan(p, o).store = "plans"
    BY <1>0, EnvironmentFields, JournalFields DEF MarkedCommitted, PutPlan, Write
  <2>3. moves \in Script /\ ToSet(moves) = {move, MarkedCommitted(o), PutPlan(p, o)}
    BY <2>1, Triples, FewWrites
  <2>4. Orderly(moves)
    BY <2>2, TripleOrderly
  <2> QED BY <2>2, <2>3, <2>4
<1>3. /\ settle \in Script /\ repair \in Script /\ closing \in Script
      /\ \A w \in ToSet(settle) \cup ToSet(repair) \cup ToSet(closing) : Concluding(w)
  <2>1. /\ settle \in Script /\ ToSet(settle) = Settling(o, "succeeded")
        /\ repair \in Script /\ ToSet(repair) = Repairing(o)
        /\ closing \in Script /\ ToSet(closing) = {Removed(o)}
    BY Parts DEF Terminal
  <2> QED BY <1>0, <2>1, EndingParts
<1>4. CASE environments[E].revision # expected[o]
  <2>1. PublishScript(o) = record \o RollbackScript(o)
    BY <1>4, <1>6 DEF PublishScript
  <2>2. RollbackScript(o) \in Script
    BY RolledBack
  <2>3. /\ ToSet(RollbackScript(o)) \subseteq GivingUp(o)
        /\ PutGeneration(o, "recorded") \notin RollbackSet(o)
    <3>1. ToSet(RollbackScript(o)) = RollbackSet(o)
      BY RollbackWaits
    <3>2. Ended(o, "failed").store # "generations" /\ Removed(o).store # "generations"
          /\ PutGeneration(o, "absent").val = "absent"
          /\ PutGeneration(o, "recorded").store = "generations"
          /\ PutGeneration(o, "recorded").val = "recorded"
          /\ \A w \in Repairing(o) : w.store # "generations"
      BY DEF Ended, Removed, PutJournal, PutGeneration, Write, Repairing, PutLedger
    <3> QED BY <3>1, <3>2 DEF RollbackSet, GivingUp, Settling
  <2>4. Orderly(RollbackScript(o)) /\ \A w \in ToSet(RollbackScript(o)) :
          ~(w.store = "generations" /\ w.val = "recorded")
    <3>1. ToSet(RollbackScript(o)) = RollbackSet(o)
      BY RollbackWaits
    <3> QED BY <1>0, <2>2, <2>3, <3>1, GivenUpOrderly, GivingUpFields
  <2>5. \A v \in ToSet(record) : v.store # "plans"
    BY <1>1, GenerationFields
  <2> HIDE DEF record
  <2>6. \A v \in ToSet(record), w \in ToSet(RollbackScript(o)) : Follows(v, w)
    BY <2>4, <2>5 DEF Follows
  <2> QED BY <1>1, <2>1, <2>2, <2>4, <2>6, JoinedOrderly, FirstWrite
<1>5. CASE environments[E].revision = expected[o]
  <2>1. PublishScript(o) = record \o (((moves \o settle) \o repair) \o closing)
    BY <1>5, <1>6 DEF PublishScript, Committing, MarkedCommitted, Removed
  <2>2. \A v \in ToSet(record) : v.store # "plans"
    BY <1>1, GenerationFields
  <2>3. \A w : Concluding(w) => w.store # "generations"
    BY DEF Concluding
  <2> HIDE DEF record, moves, settle, repair, closing
  <2>4. moves \o settle \in Script /\ Orderly(moves \o settle)
        /\ ToSet(moves \o settle) = ToSet(moves) \cup ToSet(settle)
    BY <1>2, <1>3, LastOrderly, JoinedWrites
  <2>5. (moves \o settle) \o repair \in Script /\ Orderly((moves \o settle) \o repair)
        /\ ToSet((moves \o settle) \o repair) = ToSet(moves \o settle) \cup ToSet(repair)
    BY <1>3, <2>4, LastOrderly, JoinedWrites
  <2> DEFINE rest == ((moves \o settle) \o repair) \o closing
  <2>6. rest \in Script /\ Orderly(rest)
        /\ ToSet(rest) = ToSet((moves \o settle) \o repair) \cup ToSet(closing)
    BY <1>3, <2>5, LastOrderly, JoinedWrites
  <2>7. \A w \in ToSet(rest) : w.store # "generations"
    BY <1>2, <1>3, <2>3, <2>4, <2>5, <2>6
  <2>8. PublishScript(o) = record \o rest
    BY <2>1
  <2> HIDE DEF rest
  <2>9. \A v \in ToSet(record), w \in ToSet(rest) : Follows(v, w)
    BY <2>2, <2>7 DEF Follows
  <2> QED BY <1>1, <2>6, <2>8, <2>9, JoinedOrderly, FirstWrite
<1> QED BY <1>4, <1>5

\* What gives a generation up does not record it.
LEMMA PutRecordedNot ==
  ASSUME NEW o
  PROVE  PutGeneration(o, "recorded")
           \notin UndoSet(o) \cup RollbackSet(o) \cup CancelSet(o) \cup Repairing(o)
<1>1. /\ Ended(o, "failed").store # "generations" /\ Removed(o).store # "generations"
      /\ PutGeneration(o, "absent").val = "absent"
      /\ PutGeneration(o, "recorded").store = "generations"
      /\ PutGeneration(o, "recorded").val = "recorded"
      /\ \A w \in Repairing(o) : w.store # "generations"
      /\ \A w \in Erring(o) : w.store # "generations"
  BY DEF Ended, Removed, PutJournal, PutGeneration, Write, Repairing, PutLedger, Erring,
         PutEnvironment
<1> QED BY <1>1 DEF RollbackSet, UndoSet, CancelSet, Settling

LEMMA OpenedFiles ==
  ASSUME TypeOK', todo = <<>>, UNCHANGED files
  PROVE  Opened /\ todo' \in Script
<1>1. todo' \in Script
  BY DEF TypeOK, Script
<1>2. Waiting' \subseteq WriteRecord
  BY <1>1 DEF Waiting, ToSet, Script
<1> QED BY <1>1, <1>2, FilesKept DEF Opened

LEMMA OpenedBlock ==
  ASSUME TypeOK', todo = <<>>, UNCHANGED durable
  PROVE  Opened /\ todo' \in Script
<1>1. UNCHANGED files
  BY DurableFiles
<1> QED BY <1>1, OpenedFiles

LEMMA HonestInstallReturns ==
  ASSUME TypeOK, TypeOK', StoresInv, AttendedInv, HonestInv, NEW o \in Op, InstallReturns(o)
  PROVE  HonestInv'
<1>1. /\ Opened /\ mode' = mode /\ Serving /\ journals[o].kind \in CoreTransactions
      /\ controllers[o] /\ aborted' = aborted \ {o} /\ Finished(o)
      /\ (todo' = CommitScript(o) \/ todo' = UndoScript(o, <<>>))
  BY OpenedBlock DEF InstallReturns, TaskReturns, Run, Serving
<1>2. journals[o].kind \in Built /\ journals[o].kind # "apply" /\ (Serving' <=> Serving)
  BY <1>1 DEF Built, CoreTransactions, Serving
<1>3. ~controllers'[o] /\ o \notin aborted'
      /\ \A q \in Op \ {o} : controllers'[q] = controllers[q] /\ (q \in aborted' <=> q \in aborted)
  BY <1>1, TaskEnded
<1>4. CASE todo' = CommitScript(o)
  <2>1. Waiting' = CommitSet(o)
    BY <1>1, <1>4, CommitWaits DEF Waiting
  <2>2. Orderly(todo') /\ RecordsFirst(o)'
    <3>1. /\ Orderly(CommitScript(o)) /\ CommitScript(o) # <<>>
          /\ Head(CommitScript(o)) = PutGeneration(o, "recorded")
      BY <1>1, CommitOrderly
    <3> QED BY <1>4, <3>1 DEF RecordsFirst, PutGeneration
  <2> QED BY <1>1, <1>2, <1>3, <2>1, <2>2, HonestCommits DEF Completing
<1>5. CASE todo' = UndoScript(o, <<>>)
  <2>1. Waiting' = UndoSet(o)
    BY <1>1, <1>5, UndoWaits DEF Waiting
  <2>2. /\ \A e \in Env : environments[e].gen # o
        /\ operations[o].status # "succeeded"
    <3>1. todo = <<>> /\ Live(o)
      BY <1>1 DEF Opened, Live
    <3>2. \A e \in Env : environments[e].gen # o
      BY <1>1, <1>2, <3>1, TransactionFacts
    <3>3. Honest(o)
      BY DEF HonestInv
    <3> QED BY <3>1, <3>2, <3>3 DEF Honest, LiveIsUnsettled, Has
  <2>3. PutGeneration(o, "absent") \in Waiting' /\ Waiting' \subseteq GivingUp(o)
    BY <2>1 DEF UndoSet, GivingUp
  <2>4. PutGeneration(o, "recorded") \notin Waiting'
    BY <2>1, PutRecordedNot
  <2>5. Orderly(todo')
    <3>1. todo' \in Script
      BY DEF TypeOK, Script
    <3> QED BY <1>2, <2>3, <2>4, <3>1, GivenUpOrderly DEF Waiting
  <2>6. operations[o].status = "active" => Ends(o)'
    BY <2>1, EndIsWritten DEF UndoSet, Terminal
  <2> QED BY <1>1, <1>2, <1>3, <2>2, <2>3, <2>4, <2>5, <2>6, HonestGivesUp
<1> QED BY <1>1, <1>4, <1>5

LEMMA HonestStageReturns ==
  ASSUME TypeOK, TypeOK', StoresInv, AttendedInv, HonestInv, NEW o \in Op, StageReturns(o)
  PROVE  HonestInv'
<1>1. /\ Opened /\ todo' \in Script /\ mode' = mode /\ Serving /\ journals[o].kind = "apply"
      /\ controllers[o] /\ aborted' = aborted \ {o} /\ Finished(o)
      /\ \/ todo' = RollbackScript(o)
         \/ todo' = CancelScript(o) /\ o \in aborted
         \/ todo' = PublishScript(o) /\ o \notin aborted
  BY OpenedBlock DEF StageReturns, TaskReturns, Run, Serving
<1>2. journals[o].kind \in Built /\ (Serving' <=> Serving)
  BY <1>1 DEF Built, Serving
<1>3. ~controllers'[o] /\ o \notin aborted'
      /\ \A q \in Op \ {o} : controllers'[q] = controllers[q] /\ (q \in aborted' <=> q \in aborted)
  BY <1>1, TaskEnded
<1>4. /\ \A e \in Env : environments[e].gen # o
      /\ operations[o].status # "succeeded"
      /\ o \notin aborted => operations[o].status # "cancelled"
      /\ o \in aborted => operations[o].status # "active"
  <2>1. todo = <<>> /\ Live(o)
    BY <1>1 DEF Opened, Live
  <2>2. \A e \in Env : environments[e].gen # o
    BY <1>1, <1>2, <2>1, TransactionFacts
  <2>3. Honest(o)
    BY DEF HonestInv
  <2>4. PICK e \in Env : operations[o].kind = "apply" /\ operations[o].env = e
    BY <1>1, <1>2, JournalOfOperation
  <2>5. Belongs(o, "apply", e) /\ ~Ends(o)
    BY <1>1, <2>4, OpenedFacts
  <2> QED BY <2>1, <2>2, <2>3, <2>5
      DEF Honest, LiveIsUnsettled, AbortedApplyEnds, Has, Unfinished
<1>5. ASSUME Waiting' \subseteq GivingUp(o), PutGeneration(o, "absent") \in Waiting',
             PutGeneration(o, "recorded") \in Waiting' => operations[o].status # "cancelled",
             operations[o].status = "active" => Ends(o)', Orderly(todo')
      PROVE  HonestInv'
  BY <1>1, <1>2, <1>3, <1>4, <1>5, HonestGivesUp
<1>6. RollbackSet(o) \subseteq GivingUp(o) /\ PutGeneration(o, "absent") \in RollbackSet(o)
  BY DEF RollbackSet, GivingUp
<1>7. RollbackSet(o) \subseteq Waiting' => (operations[o].status = "active" => Ends(o)')
  BY EndIsWritten DEF RollbackSet, Terminal
<1>8. CASE todo' = RollbackScript(o)
  <2>1. Waiting' = RollbackSet(o)
    BY <1>8, RollbackWaits DEF Waiting
  <2>2. PutGeneration(o, "recorded") \notin Waiting'
    BY <2>1, PutRecordedNot
  <2>3. Orderly(todo')
    BY <1>1, <1>2, <1>6, <2>1, <2>2, GivenUpOrderly DEF Waiting
  <2> QED BY <1>5, <1>6, <1>7, <2>1, <2>2, <2>3
<1>9. CASE todo' = CancelScript(o) /\ o \in aborted
  <2>1. Waiting' = CancelSet(o)
    BY <1>9, CancelWaits DEF Waiting
  <2>2. PutGeneration(o, "recorded") \notin Waiting'
    BY <2>1, PutRecordedNot
  <2>3. Waiting' \subseteq GivingUp(o) /\ PutGeneration(o, "absent") \in Waiting'
    BY <2>1 DEF CancelSet, GivingUp
  <2>4. Orderly(todo')
    BY <1>1, <1>2, <2>2, <2>3, GivenUpOrderly DEF Waiting
  <2> QED BY <1>4, <1>5, <1>9, <2>2, <2>3, <2>4
<1>10. CASE todo' = PublishScript(o) /\ o \notin aborted
  <2>1. /\ Orderly(todo') /\ RecordsFirst(o)'
    <3>1. /\ Orderly(PublishScript(o)) /\ PublishScript(o) # <<>>
          /\ Head(PublishScript(o)) = PutGeneration(o, "recorded")
      BY <1>1, PublishOrderly
    <3> QED BY <1>10, <3>1 DEF RecordsFirst, PutGeneration
  <2>2. \/ Waiting' = {PutGeneration(o, "recorded")} \cup RollbackSet(o)
        \/ Waiting' = PublishSet(o)
    BY <1>1, <1>10, PublishWaits DEF Waiting
  <2>3. CASE Waiting' = {PutGeneration(o, "recorded")} \cup RollbackSet(o)
    <3>1. Waiting' \subseteq GivingUp(o) /\ PutGeneration(o, "absent") \in Waiting'
      BY <1>6, <2>3 DEF GivingUp
    <3> QED BY <1>4, <1>5, <1>7, <1>10, <2>1, <2>3, <3>1
  <2>4. CASE Waiting' = PublishSet(o)
    <3>1. Waiting' \subseteq Completing(o) /\ CommitSet(o) \subseteq Waiting'
          /\ PutPlan(journals[o].plan, o) \in Waiting'
      BY <1>1, <2>4 DEF PublishSet, Completing
    <3> QED BY <1>1, <1>2, <1>3, <1>10, <2>1, <3>1, HonestCommits
  <2> QED BY <2>2, <2>3, <2>4
<1> QED BY <1>1, <1>8, <1>9, <1>10

Finishing(o) ==
  Repairing(o) \cup Consuming(o) \cup {Removed(o)}
  \cup IF operations[o].status # "succeeded" THEN {Ended(o, "succeeded")} ELSE {}

LEMMA FinishingFields ==
  ASSUME TypeOK, NEW o \in Op, journals[o].kind \in Built, NEW w \in Finishing(o)
  PROVE  /\ w.store \in {"operations", "journals"} => w.key = o
         /\ w.store \notin {"controllers", "generations", "environments"}
         /\ w.store = "operations" =>
              /\ w.val.status = "succeeded" /\ operations[o].status # "succeeded"
              /\ w.val.kind = operations[o].kind
         /\ w.store = "journals" => w.val.kind = "none"
         /\ w.store = "plans" =>
              w.val = o /\ w.key = journals[o].plan /\ journals[o].kind = "apply"
<1>1. CASE w = Ended(o, "succeeded") /\ operations[o].status # "succeeded"
  BY <1>1, EndedFields
<1>2. CASE w \in Repairing(o)
  BY <1>2 DEF Repairing, PutLedger, Write
<1>3. CASE w = Removed(o)
  BY <1>3, RemovalFields DEF Removed
<1>4. CASE w \in Consuming(o)
  BY <1>4 DEF Consuming, PutPlan, Write
<1> QED BY <1>1, <1>2, <1>3, <1>4 DEF Finishing

LEMMA HonestFinishes ==
  ASSUME TypeOK, TypeOK', StoresInv, AttendedInv, HonestInv, Opened, ~Serving, ~Serving',
         UNCHANGED << controllers, aborted >>,
         NEW o \in Op, journals[o].kind \in Built, environments[journals[o].env].gen = o,
         Waiting' \subseteq Finishing(o), Consuming(o) \subseteq Waiting',
         operations[o].status \in {"active", "cancelled"} => Ended(o, "succeeded") \in Waiting'
  PROVE  HonestInv'
<1>1. \A w \in Waiting' :
        /\ w.store \in {"operations", "journals"} => w.key = o
        /\ w.store \notin {"controllers", "generations", "environments"}
        /\ w.store = "operations" =>
             /\ w.val.status = "succeeded" /\ operations[o].status # "succeeded"
             /\ w.val.kind = operations[o].kind
        /\ w.store = "journals" => w.val.kind = "none"
        /\ w.store = "plans" =>
             w.val = o /\ w.key = journals[o].plan /\ journals[o].kind = "apply"
  BY FinishingFields
<1>2. OwnBlock(o)
  BY <1>1 DEF OwnBlock
<1>3. PICK f \in Env : f = journals[o].env
  BY JournalFields
<1>4. ~Live(o)'
  BY <1>1 DEF StoresInv, NobodyLive, Live
<1>5. operations[o].status \in {"active", "cancelled"} => Becomes(o, "succeeded")'
  BY EndedFields DEF Becomes
<1>6. \A p \in Plan : journals[o].kind = "apply" /\ journals[o].plan = p /\ plans[p] = None =>
        Spends(o, p)'
  <2> SUFFICES ASSUME NEW p \in Plan, journals[o].kind = "apply", journals[o].plan = p,
                      plans[p] = None
               PROVE  Spends(o, p)'
    OBVIOUS
  <2>1. PutPlan(p, o) \in Waiting' /\ PutPlan(p, o).store = "plans" /\ PutPlan(p, o).key = p
        /\ PutPlan(p, o).val = o
    BY DEF Consuming, PutPlan, Write
  <2> QED BY <2>1 DEF Spends
<1>7. Honest(o)
  BY DEF HonestInv
<1>8. Honest(o)'
  BY <1>1, <1>3, <1>4, <1>5, <1>6, <1>7, FinishedStays
<1>9. \A q \in Op : Spared(q) \/ Honest(q)'
  BY <1>2, <1>8, OwnSpares
<1>10. Orderly(todo')
  <2>1. todo' \in Script
    BY DEF TypeOK, Script
  <2> QED BY <1>1, <2>1, OrderlySet DEF Waiting
<1> QED BY <1>9, <1>10, HonestBlock

\* A recovered transaction: nobody works on it.
LEMMA RecoveredFacts ==
  ASSUME TypeOK, StoresInv, AttendedInv, HonestInv, Opened, ~Serving,
         UNCHANGED << controllers, aborted >>, NEW o \in Op
  PROVE  /\ ~controllers'[o] /\ o \notin aborted' /\ todo = <<>>
         /\ \A q \in Op \ {o} : controllers'[q] = controllers[q]
                                /\ (q \in aborted' <=> q \in aborted)
         /\ journals[o].kind \in Built /\ environments[journals[o].env].gen # o =>
              /\ \A e \in Env : environments[e].gen # o
              /\ operations[o].status # "succeeded"
<1>1. ~controllers[o] /\ o \notin aborted /\ todo = <<>>
  BY DEF StoresInv, NobodyLive, Live, AttendedInv, AbortedEnds, Opened
<1>2. ASSUME journals[o].kind \in Built, environments[journals[o].env].gen # o
      PROVE  (\A e \in Env : environments[e].gen # o) /\ operations[o].status # "succeeded"
  <2>1. PICK e \in Env : e = journals[o].env
    BY <1>2, JournalFields
  <2>2. Honest(o) /\ Keeps(o, journals[o].kind, e)
    BY <2>1 DEF HonestInv, Keeps
  <2>3. operations[o].status # "succeeded"
    BY <1>2, <2>1, <2>2 DEF Honest, SucceededIsCommitted, Has
  <2> QED BY <1>1, <1>2, <2>3, TransactionFacts
<1> QED BY <1>1, <1>2

LEMMA HonestRecoverJournal ==
  ASSUME TypeOK, TypeOK', StoresInv, AttendedInv, HonestInv, NEW o \in Op, RecoverJournal(o)
  PROVE  HonestInv'
<1>1. /\ Opened /\ todo' \in Script /\ ~Serving /\ ~Serving' /\ (Serving' <=> Serving)
      /\ UNCHANGED << controllers, aborted >> /\ journals[o].kind \in CoreTransactions
  <2>1. /\ UNCHANGED << durable, controllers, aborted, mode >> /\ todo = <<>>
        /\ mode = "recoverCore" /\ journals[o].kind \in CoreTransactions
    BY DEF RecoverJournal, Recovering, CoreJournals, volatile
  <2> QED BY <2>1, OpenedBlock DEF Serving
<1>2. journals[o].kind \in Built /\ journals[o].kind # "apply"
  BY <1>1 DEF Built, CoreTransactions
<1>3. /\ ~controllers'[o] /\ o \notin aborted' /\ todo = <<>>
      /\ \A q \in Op \ {o} : controllers'[q] = controllers[q]
                             /\ (q \in aborted' <=> q \in aborted)
      /\ environments[journals[o].env].gen # o =>
           /\ \A e \in Env : environments[e].gen # o
           /\ operations[o].status # "succeeded"
  BY <1>1, <1>2, RecoveredFacts
<1>4. PointerNames(o) <=> environments[journals[o].env].gen = o
  <2>1. Names(o, journals[o].kind, journals[o].gen) /\ journals[o] \in JournalRecord
    BY DEF Names, TypeOK
  <2>2. journals[o].gen \in Op
    BY <1>1, <2>1 DEF JournalRecord, NoJournal, CoreTransactions
  <2>3. journals[o].gen = o
    BY <1>2, <2>1, <2>2 DEF StoresInv, OwnGeneration
  <2> QED BY <1>1, <2>3 DEF PointerNames, OpenJournal, CoreTransactions
<1>5. CASE PointerNames(o)
  <2>1. Waiting' = FinalizeSet(o)
    BY <1>5, FinalizeWaits DEF RecoverJournal, Run, Waiting
  <2>2. Waiting' \subseteq Finishing(o) /\ Consuming(o) \subseteq Waiting'
        /\ (operations[o].status \in {"active", "cancelled"} => Ended(o, "succeeded") \in Waiting')
    BY <1>2, <2>1 DEF FinalizeSet, Finishing, Consuming
  <2> QED BY <1>1, <1>2, <1>4, <1>5, <2>2, HonestFinishes
<1>6. CASE ~PointerNames(o)
  <2>1. Waiting' = UndoSet(o) \cup Repairing(o)
    BY <1>1, <1>6, UndoWaits DEF RecoverJournal, Run, Waiting
  <2>2. PutGeneration(o, "absent") \in Waiting' /\ Waiting' \subseteq GivingUp(o)
    BY <2>1 DEF UndoSet, GivingUp
  <2>3. PutGeneration(o, "recorded") \notin Waiting'
    BY <2>1, PutRecordedNot
  <2>4. Orderly(todo')
    BY <1>1, <1>2, <2>2, <2>3, GivenUpOrderly DEF Waiting
  <2>5. operations[o].status = "active" => Ends(o)'
    BY <2>1, EndIsWritten DEF UndoSet, Terminal
  <2> QED BY <1>1, <1>2, <1>3, <1>4, <1>6, <2>2, <2>3, <2>4, <2>5, HonestGivesUp
<1> QED BY <1>5, <1>6

\* The write moves no pointer that matters: to a generation that has not failed,
\* from one that has no journal.
Moves(w) ==
  w.store = "environments" =>
    \A q \in Op :
      /\ w.val.gen = q => environments[w.key].gen = q \/ ~Has(q, "failed")
      /\ environments[w.key].gen = q => w.val.gen = q \/ journals[q].kind \notin Built

\* A block about operations without transactions.
LEMMA LightBlock ==
  ASSUME TypeOK, TypeOK', StoresInv', HonestInv, Opened, Serving' <=> Serving,
         \A w \in Waiting' : w.store \notin {"plans", "generations"} /\ Moves(w),
         \A q \in Op :
           \/ /\ controllers'[q] = controllers[q] /\ (q \in aborted' <=> q \in aborted)
              /\ \A w \in Waiting' :
                   w.store \in {"operations", "journals", "controllers"} => w.key # q
           \/ Light(q)
  PROVE  HonestInv'
<1>1. Orderly(todo')
  <2>1. todo' \in Script
    BY DEF TypeOK, Script
  <2> QED BY <2>1, OrderlySet DEF Waiting
<1>2. ASSUME NEW q \in Op PROVE Spared(q) \/ Honest(q)'
  <2>1. Light(q) => Honest(q)'
    <3>1. Honest(q)
      BY DEF HonestInv
    <3> QED BY <3>1, LightStays
  <2>2. ASSUME controllers'[q] = controllers[q], q \in aborted' <=> q \in aborted,
               \A w \in Waiting' :
                 w.store \in {"operations", "journals", "controllers"} => w.key # q
        PROVE  Spared(q)
    BY <2>2 DEF Spared, Moves
  <2> QED BY <2>1, <2>2
<1> QED BY <1>1, <1>2, HonestBlock

\* An operation that builds nothing has no generation.
LEMMA BuildsNothing ==
  ASSUME TypeOK, StoresInv, NEW o \in Op, NEW k \in Kinds \ Built, NEW e \in Env,
         Claims(o, k, e)
  PROVE  /\ generations[o] = "absent" /\ journals[o].kind \notin Built
         /\ operations[o].kind \notin Built
<1>1. generations[o] = "absent"
  BY DEF StoresInv, BuiltByTransaction
<1>2. journals[o].kind \notin Built
  <2> SUFFICES ASSUME journals[o].kind \in Built PROVE FALSE
    OBVIOUS
  <2>1. journals[o].env \in Env /\ journals[o].kind \in Kinds
    BY JournalFields DEF Built, CoreTransactions, Kinds
  <2>2. Claims(o, journals[o].kind, journals[o].env)
    BY DEF Claims, Keeps
  <2> QED BY <2>1, <2>2 DEF StoresInv, OneHome
<1>3. operations[o].kind \notin Built
  <2> SUFFICES ASSUME operations[o].kind \in Built PROVE FALSE
    OBVIOUS
  <2>0. operations[o] \in OperationRecord
    BY DEF TypeOK
  <2>1. operations[o].env \in Env /\ operations[o].kind \in Kinds
    BY <2>0 DEF OperationRecord, NoOperation, Built, CoreTransactions, Kinds
  <2>2. Claims(o, operations[o].kind, operations[o].env)
    BY DEF Claims, Belongs
  <2> QED BY <2>1, <2>2 DEF StoresInv, OneHome
<1> QED BY <1>1, <1>2, <1>3

\* An operation without a transaction or a task comes to an end.
LEMMA LightEnds ==
  ASSUME TypeOK, Opened, NEW o \in Op, journals[o].kind \notin Built, generations[o] = "absent",
         operations[o].kind \notin {"create", "apply"} \/ operations[o].status # "absent",
         \A w \in Waiting' : w.store \notin {"plans", "generations"},
         ~Live(o)', o \notin aborted', NEW s \in Terminal, s = "succeeded" =>
            operations[o].kind \notin {"create", "apply"},
         \A w \in Waiting' :
           /\ w.store = "operations" /\ w.key = o =>
                w = Ended(o, s) /\ operations[o].status # "succeeded"
           /\ w.store = "journals" /\ w.key = o => w.val.kind = "none",
         Closes(o)' /\ operations[o].status = "active" => Ended(o, s) \in Waiting'
  PROVE  Light(o)
<1>1. /\ Ended(o, s).store = "operations" /\ Ended(o, s).key = o
      /\ Ended(o, s).val.kind = operations[o].kind /\ Ended(o, s).val.status = s
  BY EndedFields
<1>2. \A t : Becomes(o, t)' => t = s /\ operations[o].status # "succeeded"
  BY <1>1 DEF Becomes
<1>3. LiveIsUnsettled(o)' /\ AbortedApplyEnds(o)'
  BY DEF LiveIsUnsettled, AbortedApplyEnds
<1>4. EndsOnce(o)'
  BY <1>2 DEF EndsOnce, Opened, Stores, Becomes
<1>5. Closes(o)' /\ Unfinished(o)' => Ends(o)'
  <2>1. Unfinished(o)' => operations[o].status = "active"
    BY <1>2 DEF Unfinished, Terminal, Opened, Stores
  <2> QED BY <2>1, EndIsWritten
<1> QED BY <1>1, <1>3, <1>4, <1>5 DEF Light, Built, CoreTransactions

\* A recovered restore moves no pointer and builds nothing.
LEMMA HonestRecoverRestore ==
  ASSUME TypeOK, TypeOK', StoresInv, StoresInv', AttendedInv, HonestInv, Opened,
         ~Serving, ~Serving', UNCHANGED << controllers, aborted >>,
         NEW o \in Op, journals[o].kind = "restore", NEW s \in {"succeeded", "failed"},
         \A w \in Waiting' :
           \/ w = Ended(o, s) /\ operations[o].status # "succeeded"
           \/ w \in Repairing(o) \/ w = Removed(o),
         operations[o].status = "active" => Ended(o, s) \in Waiting'
  PROVE  HonestInv'
<1>1. generations[o] = "absent" /\ journals[o].kind \notin Built /\ operations[o].kind \notin Built
  <2>0. journals[o] \in JournalRecord
    BY DEF TypeOK
  <2>1. journals[o].env \in Env
    BY <2>0 DEF JournalRecord, NoJournal, CoreTransactions
  <2>2. Claims(o, "restore", journals[o].env)
    BY DEF Claims, Keeps
  <2>3. "restore" \in Kinds \ Built
    BY DEF Kinds, Built, CoreTransactions
  <2> QED BY <2>1, <2>2, <2>3, BuildsNothing
<1>2. \A w \in Waiting' :
        /\ w.store = "operations" => w = Ended(o, s) /\ operations[o].status # "succeeded"
        /\ w.store = "journals" => w.val.kind = "none"
        /\ w.store \in {"operations", "journals"} => w.key = o
        /\ w.store \notin {"plans", "generations", "environments", "controllers"}
  <2> SUFFICES ASSUME NEW w \in Waiting'
               PROVE  /\ w.store = "operations" =>
                           w = Ended(o, s) /\ operations[o].status # "succeeded"
                      /\ w.store = "journals" => w.val.kind = "none"
                      /\ w.store \in {"operations", "journals"} => w.key = o
                      /\ w.store \notin {"plans", "generations", "environments", "controllers"}
    OBVIOUS
  <2>1. CASE w = Ended(o, s) /\ operations[o].status # "succeeded"
    BY <2>1, EndedFields
  <2>2. CASE w \in Repairing(o)
    BY <2>2 DEF Repairing, PutLedger, Write
  <2>3. CASE w = Removed(o)
    BY <2>3, RemovalFields DEF Removed
  <2> QED BY <2>1, <2>2, <2>3
<1>3. ~Live(o)' /\ o \notin aborted'
  BY <1>2, RecoveredFacts DEF Live
<1>4. s \in Terminal /\ operations[o].kind \notin {"create", "apply"}
  BY <1>1 DEF Terminal, Built, CoreTransactions
<1>5. Light(o)
  BY <1>1, <1>2, <1>3, <1>4, LightEnds
<1>6. \A q \in Op :
        \/ /\ controllers'[q] = controllers[q] /\ (q \in aborted' <=> q \in aborted)
           /\ \A w \in Waiting' :
                w.store \in {"operations", "journals", "controllers"} => w.key # q
        \/ Light(q)
  BY <1>2, <1>5
<1>7. \A w \in Waiting' : w.store \notin {"plans", "generations"} /\ Moves(w)
  BY <1>2 DEF Moves
<1> QED BY <1>6, <1>7, LightBlock

LEMMA HonestRecoverChange ==
  ASSUME TypeOK, TypeOK', StoresInv, StoresInv', AttendedInv, HonestInv, NEW o \in Op,
         RecoverChange(o)
  PROVE  HonestInv'
<1>1. /\ Opened /\ todo' \in Script /\ ~Serving /\ ~Serving' /\ (Serving' <=> Serving)
      /\ UNCHANGED << controllers, aborted >> /\ journals[o].kind \in ChangeTransactions
  <2>1. /\ UNCHANGED << durable, controllers, aborted, mode >> /\ todo = <<>>
        /\ mode = "recoverChanges" /\ journals[o].kind \in ChangeTransactions
    BY DEF RecoverChange, ChangeJournals, volatile
  <2> QED BY <2>1, OpenedBlock DEF Serving
<1>2. Waiting' =
        IF environments[journals[o].env].gen = journals[o].gen
          THEN MarkSet(o) \cup Consuming(o) \cup {Removed(o)}
          ELSE IF journals[o].kind = "restore"
            THEN Settling(o, "failed") \cup Repairing(o) \cup {Removed(o)}
            ELSE RollbackSet(o)
  BY RecoverChangeWaits
<1>3. CASE journals[o].kind = "restore"
  <2>1. CASE environments[journals[o].env].gen = journals[o].gen
    <3>1. Waiting' = MarkSet(o) \cup {Removed(o)}
      BY <1>2, <1>3, <2>1 DEF Consuming
    <3>2. \A w \in Waiting' :
            \/ w = Ended(o, "succeeded") /\ operations[o].status # "succeeded"
            \/ w \in Repairing(o) \/ w = Removed(o)
      BY <3>1 DEF MarkSet
    <3>3. operations[o].status = "active" => Ended(o, "succeeded") \in Waiting'
      BY <3>1 DEF MarkSet
    <3> QED BY <1>1, <1>3, <3>2, <3>3, HonestRecoverRestore
  <2>2. CASE environments[journals[o].env].gen # journals[o].gen
    <3>1. Waiting' = Settling(o, "failed") \cup Repairing(o) \cup {Removed(o)}
      BY <1>2, <1>3, <2>2
    <3>2. \A w \in Waiting' :
            \/ w = Ended(o, "failed") /\ operations[o].status # "succeeded"
            \/ w \in Repairing(o) \/ w = Removed(o)
      BY <3>1 DEF Settling
    <3>3. operations[o].status = "active" => Ended(o, "failed") \in Waiting'
      BY <3>1 DEF Settling
    <3> QED BY <1>1, <1>3, <3>2, <3>3, HonestRecoverRestore
  <2> QED BY <2>1, <2>2
<1>4. CASE journals[o].kind = "apply"
  <2>0. journals[o].kind \in Built
    BY <1>4 DEF Built
  <2>1. journals[o].gen = o
    <3>1. Names(o, "apply", journals[o].gen) /\ journals[o].gen \in Op
      BY <1>4 DEF Names, TypeOK, JournalRecord, NoJournal, CoreTransactions
    <3>2. "apply" \in Built
      BY DEF Built
    <3> QED BY <3>1, <3>2 DEF StoresInv, OwnGeneration
  <2>2. /\ ~controllers'[o] /\ o \notin aborted' /\ todo = <<>>
        /\ \A q \in Op \ {o} : controllers'[q] = controllers[q]
                               /\ (q \in aborted' <=> q \in aborted)
        /\ environments[journals[o].env].gen # o =>
             /\ \A e \in Env : environments[e].gen # o
             /\ operations[o].status # "succeeded"
    BY <1>1, <2>0, RecoveredFacts
  <2>3. CASE environments[journals[o].env].gen = o
    <3>1. Waiting' = MarkSet(o) \cup Consuming(o) \cup {Removed(o)}
      BY <1>2, <2>1, <2>3
    <3>2. Waiting' \subseteq Finishing(o) /\ Consuming(o) \subseteq Waiting'
          /\ (operations[o].status \in {"active", "cancelled"} =>
                Ended(o, "succeeded") \in Waiting')
      BY <3>1 DEF MarkSet, Finishing
    <3> QED BY <1>1, <2>0, <2>3, <3>2, HonestFinishes
  <2>4. CASE environments[journals[o].env].gen # o
    <3>1. Waiting' = RollbackSet(o)
      BY <1>2, <1>4, <2>1, <2>4
    <3>2. PutGeneration(o, "absent") \in Waiting' /\ Waiting' \subseteq GivingUp(o)
      BY <3>1 DEF RollbackSet, GivingUp
    <3>3. PutGeneration(o, "recorded") \notin Waiting'
      BY <3>1, PutRecordedNot
    <3>4. Orderly(todo')
      BY <1>1, <2>0, <3>2, <3>3, GivenUpOrderly DEF Waiting
    <3>5. operations[o].status = "active" => Ends(o)'
      BY <3>1, EndIsWritten DEF RollbackSet, Settling, Terminal
    <3> QED BY <1>1, <2>0, <2>2, <2>4, <3>2, <3>3, <3>4, <3>5, HonestGivesUp
  <2> QED BY <2>3, <2>4
<1> QED BY <1>1, <1>3, <1>4 DEF ChangeTransactions

LEMMA HonestCancels ==
  ASSUME TypeOK, TypeOK', StoresInv, AttendedInv, HonestInv, NEW o \in Op,
         CancelOperation(o) \/ CancelApply(o)
  PROVE  HonestInv'
<1>1. /\ todo = <<>> /\ UNCHANGED << durable, mode, controllers >> /\ mode = "ready"
      /\ operations[o].status = "active" /\ todo' = Settle(o, "cancelled")
      /\ aborted' = IF controllers[o] THEN aborted \cup {o} ELSE aborted
  BY DEF CancelOperation, CancelApply, Idle, Pending, Run
<1>2. Opened /\ todo' \in Script
  BY <1>1, OpenedBlock
<1>3. Waiting' = {Ended(o, "cancelled")}
  BY <1>1, SettleWrites DEF Waiting
<1>4. controllers[o]
  BY <1>1, NothingWaits DEF AttendedInv, Attended, Unfinished, Live, Ends, Becomes
<1>5. Ended(o, "cancelled").store = "operations" /\ Ended(o, "cancelled").key = o
  BY EndedFields
<1>6. Honest(o)'
  <2>1. Honest(o)
    BY DEF HonestInv
  <2> QED BY <1>1, <1>2, <1>3, <1>4, <2>1, CancelledStays DEF Serving
<1>7. \A q \in Op : Spared(q) \/ Honest(q)'
  BY <1>1, <1>3, <1>4, <1>5, <1>6 DEF Spared
<1>8. Orderly(todo')
  BY <1>2, <1>3, <1>5, OrderlySet DEF Waiting
<1> QED BY <1>1, <1>2, <1>7, <1>8, HonestBlock DEF Serving

(***************************************************************************)
(* The blocks that touch no generation, journal or pointer.                *)
(***************************************************************************)
Calm(w) ==
  /\ w.store \notin {"plans", "generations", "journals", "controllers"}
  /\ w.store = "environments" => w.val.gen = environments[w.key].gen

LEMMA CalmWrites ==
  ASSUME TypeOK
  PROVE  /\ \A e \in Env : \A s : Calm(PutState(e, s)) /\ PutState(e, s).store = "environments"
         /\ \A e, s : Calm(Marked(e, s)) /\ Marked(e, s).store = "launches"
         /\ \A e, r : Calm(PutLaunch(e, r)) /\ PutLaunch(e, r).store = "launches"
         /\ \A o \in Op : \A s : Calm(Ended(o, s))
         /\ \A o, k, s : Calm(PutLedger(o, k, s)) /\ PutLedger(o, k, s).store = "ledger"
<1>1. \A e \in Env : \A s : Calm(PutState(e, s)) /\ PutState(e, s).store = "environments"
  BY StateFields DEF Calm
<1>2. \A o \in Op : \A s : Calm(Ended(o, s))
  BY EndedFields DEF Calm
<1>3. /\ \A e, s : Calm(Marked(e, s)) /\ Marked(e, s).store = "launches"
      /\ \A e, r : Calm(PutLaunch(e, r)) /\ PutLaunch(e, r).store = "launches"
      /\ \A o, k, s : Calm(PutLedger(o, k, s)) /\ PutLedger(o, k, s).store = "ledger"
  BY DEF Calm, Marked, PutLaunch, PutLedger, Write
<1> QED BY <1>1, <1>2, <1>3

LEMMA CalmBlock ==
  ASSUME TypeOK, TypeOK', StoresInv', HonestInv, Opened, Serving' <=> Serving,
         \A w \in Waiting' : Calm(w),
         \A q \in Op :
           \/ /\ controllers'[q] = controllers[q] /\ (q \in aborted' <=> q \in aborted)
              /\ \A w \in Waiting' : w.store = "operations" => w.key # q
           \/ Light(q)
  PROVE  HonestInv'
<1>1. \A w \in Waiting' :
        /\ w.store \notin {"plans", "generations", "journals", "controllers"} /\ Moves(w)
  BY DEF Calm, Moves
<1> QED BY <1>1, LightBlock

\* A start or stop that ends, without a task.
LEMMA ProcessEnds ==
  ASSUME TypeOK, StoresInv, Opened, NEW o \in Op, operations[o].kind \in {"start", "stop"},
         ~controllers'[o], o \notin aborted', NEW s \in Terminal,
         \A w \in Waiting' :
           /\ Calm(w)
           /\ w.store = "operations" /\ w.key = o =>
                w = Ended(o, s) /\ operations[o].status # "succeeded"
  PROVE  Light(o)
<1>1. OfKind(o, {"start", "stop"})
  BY DEF OfKind
<1>2. operations[o].env \in Env /\ ~OpenJournal(o)
  BY <1>1, ProcessRequest
<1>3. generations[o] = "absent" /\ journals[o].kind \notin Built
  <2>1. Claims(o, operations[o].kind, operations[o].env)
    BY DEF Claims, Belongs
  <2>2. operations[o].kind \in Kinds \ Built
    BY DEF Kinds, Built, CoreTransactions
  <2> QED BY <1>2, <2>1, <2>2, BuildsNothing
<1>4. ~Live(o)' /\ ~Closes(o)'
  BY DEF Calm, Live, Closes
<1>5. \A w \in Waiting' :
        /\ w.store \notin {"plans", "generations", "journals"}
        /\ w.store = "operations" /\ w.key = o =>
             w = Ended(o, s) /\ operations[o].status # "succeeded"
  BY DEF Calm
<1> QED BY <1>3, <1>4, <1>5, LightEnds

LEMMA HonestStartTask ==
  ASSUME TypeOK, TypeOK', StoresInv, StoresInv', AttendedInv, HonestInv, NEW o \in Op,
         LaunchIntent(o) \/ Identify(o) \/ Ready(o) \/ StartFails(o)
  PROVE  HonestInv'
<1>0. /\ todo = <<>> /\ UNCHANGED << files, mode >> /\ operations[o].kind = "start"
      /\ controllers[o] /\ Serving' = Serving
  BY DurableFiles
     DEF LaunchIntent, Identify, Ready, StartFails, Spawned, TaskOf, TaskReturns, OfKind, Serving
<1>1. PICK e \in Env : e = operations[o].env
  BY <1>0, OperationRecords
<1>2. Opened
  BY <1>0, OpenedFiles
<1>3. CASE LaunchIntent(o) \/ Identify(o)
  <2>1. UNCHANGED << controllers, aborted >>
    BY <1>3 DEF LaunchIntent, Identify, volatile
  <2>2. \A w \in Waiting' : Calm(w) /\ w.store = "launches"
    <3>1. PICK r : todo' = << PutLaunch(e, r) >>
      BY <1>1, <1>3 DEF LaunchIntent, Identify, Run, Spawning
    <3> QED BY <3>1, FewWrites, CalmWrites DEF Waiting
  <2> QED BY <1>0, <1>2, <2>1, <2>2, CalmBlock
<1>4. ASSUME Ready(o) \/ StartFails(o) PROVE HonestInv'
  <2>1. Finished(o) /\ o \notin aborted' /\ \A q \in Op \ {o} : (q \in aborted' <=> q \in aborted)
    BY <1>4 DEF Ready, StartFails
  <2>2. ~controllers'[o] /\ \A q \in Op \ {o} : controllers'[q] = controllers[q]
    BY <2>1, TaskEnded
  <2>3. PICK s \in Terminal :
          \A w \in Waiting' : \/ w \in Settling(o, s) \/ \E t : w = PutState(e, t)
                              \/ \E t : w = Marked(e, t)
    <3>1. CASE Ready(o)
      BY <1>1, <3>1, ReadyWaits DEF Terminal
    <3>2. CASE StartFails(o)
      BY <1>1, <3>2, StartFailsWaits DEF Failing, Reverting, Terminal
    <3> QED BY <1>4, <3>1, <3>2
  <2>4. \A w \in Waiting' :
          /\ Calm(w)
          /\ w.store = "operations" => w = Ended(o, s) /\ w.key = o
                                       /\ operations[o].status # "succeeded"
    BY <2>3, CalmWrites, EndedFields DEF Settling
  <2>5. Light(o)
    BY <1>0, <1>2, <2>1, <2>2, <2>4, ProcessEnds
  <2> QED BY <1>0, <1>2, <2>1, <2>2, <2>4, <2>5, CalmBlock
<1> QED BY <1>3, <1>4

LEMMA HonestStopTask ==
  ASSUME TypeOK, TypeOK', StoresInv, StoresInv', AttendedInv, HonestInv, NEW o \in Op,
         StopReturns(o) \/ StopUnconfirmed(o)
  PROVE  HonestInv'
<1>0. /\ todo = <<>> /\ UNCHANGED << files, mode >> /\ operations[o].kind = "stop"
      /\ Serving' = Serving /\ Finished(o) /\ aborted' = aborted \ {o}
  BY DurableFiles DEF StopReturns, StopUnconfirmed, TaskOf, TaskReturns, OfKind, Serving
<1>1. PICK e \in Env : e = operations[o].env
  BY <1>0, OperationRecords
<1>2. Opened
  BY <1>0, OpenedFiles
<1>3. ~controllers'[o] /\ \A q \in Op \ {o} : controllers'[q] = controllers[q]
  BY <1>0, TaskEnded
<1>4. PICK s \in Terminal :
        \A w \in Waiting' : \/ w \in Settling(o, s) \/ \E t : w = PutState(e, t)
                            \/ \E t : w = Marked(e, t)
  <2>1. \A w \in Failing(o) : w \in Settling(o, "failed") \/ \E t : w = PutState(e, t)
    BY <1>1 DEF Failing, Reverting
  <2>2. PICK s \in {"succeeded", "failed"} :
          \A w \in Stopping(o) : w \in Settling(o, s) \/ \E t : w = PutState(e, t)
    BY <1>1, <2>1 DEF Stopping
  <2>3. PICK t : \/ Waiting' = {Marked(e, t)} \cup Stopping(o)
                 \/ Waiting' = {Marked(e, t)} \cup Failing(o)
    BY <1>1, StopTaskWaits
  <2> QED BY <2>1, <2>2, <2>3 DEF Terminal
<1>5. \A w \in Waiting' :
        /\ Calm(w)
        /\ w.store = "operations" => w = Ended(o, s) /\ w.key = o
                                     /\ operations[o].status # "succeeded"
  BY <1>4, CalmWrites, EndedFields DEF Settling
<1>6. Light(o)
  BY <1>0, <1>2, <1>3, <1>5, ProcessEnds
<1> QED BY <1>0, <1>2, <1>3, <1>5, <1>6, CalmBlock

LEMMA HonestExitCallback ==
  ASSUME TypeOK, TypeOK', StoresInv, StoresInv', AttendedInv, HonestInv, NEW o \in Op,
         NEW e \in Env, ExitCallback(o, e)
  PROVE  HonestInv'
<1>1. todo = <<>> /\ UNCHANGED << durable, mode, controllers, aborted >> /\ Serving' = Serving
  BY DEF ExitCallback, Serving
<1>2. Opened
  BY <1>1, OpenedBlock
<1>3. Waiting' = Strays(o, e)
  BY ExitWaits
<1>4. \A w \in Waiting' :
        \/ \E q \in StrayStarts(e) : w = Ended(q, "failed")
        \/ \E t : w = PutState(e, t) \/ w = Marked(e, t)
  BY <1>3 DEF Strays
<1>5. \A w \in Waiting' :
        /\ Calm(w)
        /\ \A q \in Op : w.store = "operations" /\ w.key = q =>
             w = Ended(q, "failed") /\ q \in StrayStarts(e)
  BY <1>4, CalmWrites, EndedFields DEF StrayStarts
<1>6. \A q \in StrayStarts(e) : Light(q)
  <2> SUFFICES ASSUME NEW q \in StrayStarts(e) PROVE Light(q)
    OBVIOUS
  <2>1. /\ q \in Op /\ operations[q].kind \in {"start", "stop"} /\ ~controllers'[q]
        /\ operations[q].status # "succeeded" /\ q \notin aborted'
    BY <1>1 DEF StrayStarts, Pending, AttendedInv, AbortedEnds
  <2> QED BY <1>2, <1>5, <2>1, ProcessEnds DEF Terminal
<1> QED BY <1>1, <1>2, <1>5, <1>6, CalmBlock

LEMMA HonestReconciliation ==
  ASSUME TypeOK, TypeOK', StoresInv, StoresInv', AttendedInv, HonestInv,
         ProcessesReconciled \/ \E e \in Env : ReconcileLaunch(e)
  PROVE  HonestInv'
<1>1. /\ todo = <<>> /\ UNCHANGED << files, controllers, aborted >>
      /\ ~Serving /\ ~Serving'
  BY DurableFiles DEF ProcessesReconciled, ReconcileLaunch, Serving
<1>2. Opened
  BY <1>1, OpenedFiles
<1>3. \A w \in Waiting' :
        /\ Calm(w)
        /\ \A q \in Op : w.store = "operations" /\ w.key = q =>
             w = Ended(q, "failed") /\ q \in Interrupted
  <2>1. CASE ProcessesReconciled
    <3>1. \A w \in Waiting' : \/ \E e \in Stale : w = PutState(e, Reconciled(e))
                              \/ \E q \in Interrupted : w = Ended(q, "failed")
      BY <2>1, ReconciledWaits
    <3>2. Stale \subseteq Env /\ Interrupted \subseteq Op
      BY DEF Stale, Interrupted
    <3>3. \A e \in Env : \A s : Calm(PutState(e, s)) /\ PutState(e, s).store # "operations"
      BY CalmWrites
    <3>4. \A q \in Op : Calm(Ended(q, "failed")) /\ Ended(q, "failed").key = q
      BY CalmWrites, EndedFields
    <3> QED BY <3>1, <3>2, <3>3, <3>4
  <2>2. ASSUME NEW e \in Env, ReconcileLaunch(e)
        PROVE  \A w \in Waiting' : Calm(w) /\ w.store # "operations"
    BY <2>2, ReconcileLaunchWaits, CalmWrites
  <2> QED BY <2>1, <2>2
<1>4. \A q \in Interrupted : Light(q)
  <2> SUFFICES ASSUME NEW q \in Interrupted PROVE Light(q)
    OBVIOUS
  <2>1. /\ q \in Op /\ operations[q].kind \in {"start", "stop"}
        /\ operations[q].status # "succeeded"
    BY DEF Interrupted, Pending
  <2>2. ~controllers'[q] /\ q \notin aborted'
    BY <1>1, <2>1 DEF StoresInv, NobodyLive, Live, AttendedInv, AbortedEnds
  <2> QED BY <1>2, <1>3, <2>1, <2>2, ProcessEnds DEF Terminal
<1> QED BY <1>1, <1>2, <1>3, <1>4, CalmBlock

\* An unfinished operation without a journal has no generation.
LEMMA OrphanBuiltNothing ==
  ASSUME TypeOK, StoresInv, HonestInv, NEW o \in Op, ~OpenJournal(o), operations[o].status = "active"
  PROVE  generations[o] = "absent" /\ journals[o].kind \notin Built
<1>1. journals[o].kind \notin Built
  BY DEF OpenJournal, Built, CoreTransactions
<1>2. generations[o] # "staged"
  BY <1>1 DEF StoresInv, StagedHasJournal
<1>3. generations[o] # "recorded"
  BY <1>1 DEF HonestInv, Honest, SettledWhileOpen, Unfinished
<1> QED BY <1>1, <1>2, <1>3 DEF TypeOK, GenerationStates

LEMMA HonestRecoverOrphans ==
  ASSUME TypeOK, TypeOK', StoresInv, StoresInv', AttendedInv, HonestInv,
         \/ \E o \in Op : \/ RecoverOrphan(o) \/ RecoverOrphanChange(o)
                          \/ SettleSwitchLedger(o) \/ SweepChangeLedger(o)
         \/ \E e \in Env : RecoverCreating(e)
  PROVE  HonestInv'
<1>1. /\ todo = <<>> /\ UNCHANGED << durable, controllers, aborted >>
      /\ ~Serving /\ ~Serving'
  BY DEF RecoverOrphan, RecoverOrphanChange, SettleSwitchLedger, SweepChangeLedger,
         RecoverCreating, Recovering, volatile, Serving
<1>2. Opened
  BY <1>1, OpenedBlock
<1>3. \A q \in Op : ~controllers'[q] /\ q \notin aborted'
  BY <1>1 DEF StoresInv, NobodyLive, Live, AttendedInv, AbortedEnds
<1>4. ASSUME NEW o \in Op, ~OpenJournal(o), operations[o].status = "active",
             \A w \in Waiting' :
               \/ w = Ended(o, "failed") /\ Ended(o, "failed") \in Waiting'
               \/ w.store = "environments" /\ Moves(w),
             Ended(o, "failed") \in Waiting'
      PROVE  HonestInv'
  <2>1. generations[o] = "absent" /\ journals[o].kind \notin Built
    BY <1>4, OrphanBuiltNothing
  <2>2. Ended(o, "failed").store = "operations" /\ Ended(o, "failed").key = o
    BY EndedFields
  <2>3. /\ \A w \in Waiting' :
             /\ w.store \in {"operations", "environments"}
             /\ w.store = "operations" => w = Ended(o, "failed")
        /\ ~Live(o)'
    BY <1>3, <1>4, <2>2 DEF Live
  <2>4. Light(o)
    BY <1>2, <1>3, <1>4, <2>1, <2>3, LightEnds DEF Terminal
  <2>5. \A w \in Waiting' : Moves(w)
    BY <1>4, <2>2 DEF Moves
  <2> QED BY <1>1, <1>2, <2>2, <2>3, <2>4, <2>5, LightBlock
<1>5. ASSUME mode = "recoverCore", CoreJournals = {}, NEW e \in Env
      PROVE  /\ PutEnvironment(e, Errored(e)).store = "environments"
             /\ Moves(PutEnvironment(e, Errored(e)))
  <2>1. \A q \in Op : journals[q].kind \notin Built /\ q # None
    BY <1>5, NoneAssumption DEF CoreJournals, StoresInv, NoChangeJournal, Built, ChangeTransactions
  <2>2. /\ PutEnvironment(e, Errored(e)).store = "environments"
        /\ PutEnvironment(e, Errored(e)).val.gen = None
    BY EnvironmentFields
  <2> QED BY <2>1, <2>2 DEF Moves
<1>6. ASSUME NEW o \in Op, RecoverOrphan(o) PROVE HonestInv'
  <2>1. /\ mode = "recoverCore" /\ CoreJournals = {} /\ ~OpenJournal(o)
        /\ operations[o].status = "active"
    BY <1>6 DEF RecoverOrphan, Recovering, OrphanTransactions, Pending
  <2>2. PICK e \in Env : e = operations[o].env
    BY <1>6, RecoverOrphanWaits
  <2>3. /\ Ended(o, "failed") \in Waiting'
        /\ \A w \in Waiting' : w = Ended(o, "failed") \/ w = PutEnvironment(e, Errored(e))
    BY <1>6, <2>1, <2>2, RecoverOrphanWaits DEF Settling
  <2>4. \A w \in Waiting' : w = Ended(o, "failed") \/ (w.store = "environments" /\ Moves(w))
    BY <1>5, <2>1, <2>3
  <2> QED BY <1>4, <2>1, <2>3, <2>4
<1>7. ASSUME NEW o \in Op,
             RecoverOrphanChange(o) \/ SettleSwitchLedger(o) \/ SweepChangeLedger(o)
      PROVE  HonestInv'
  <2>1. CASE Waiting' = {PutLedger(o, ledger[o].method, "failed")}
    <3>1. \A w \in Waiting' : Calm(w) /\ w.store # "operations"
      BY <2>1, CalmWrites
    <3> QED BY <1>1, <1>2, <3>1, CalmBlock
  <2>2. CASE Waiting' = Settling(o, "failed") /\ Pending(o, ChangeTransactions)
             /\ ~OpenJournal(o)
    <3>1. Waiting' = {Ended(o, "failed")} /\ operations[o].status = "active"
      BY <2>2 DEF Settling, Pending
    <3> QED BY <1>4, <2>2, <3>1
  <2> QED BY <1>7, <2>1, <2>2, LedgerWaits
<1>8. ASSUME NEW e \in Env, RecoverCreating(e) PROVE HonestInv'
  <2>1. /\ Waiting' = {PutEnvironment(e, Errored(e))}
        /\ mode = "recoverCore" /\ CoreJournals = {}
    BY <1>8, FewWrites DEF RecoverCreating, Recovering, Run, Waiting
  <2>2. \A w \in Waiting' : w.store = "environments" /\ Moves(w)
    BY <1>5, <2>1
  <2> QED BY <1>1, <1>2, <2>2, LightBlock
<1> QED BY <1>6, <1>7, <1>8

(***************************************************************************)
(* The requests.                                                           *)
(***************************************************************************)

\* A request that builds nothing: it ends at once, or begins a task.
LEMMA LightRequest ==
  ASSUME TypeOK, TypeOK', StoresInv, StoresInv', AttendedInv, HonestInv, NEW o \in Op,
         Idle, UNCHANGED << durable, mode, controllers, aborted >>, ledger[o].state = "none",
         NEW k \in Kinds \ {"create", "apply"}, NEW s \in Terminal,
         \A w \in Waiting' :
           /\ w.store \notin {"plans", "generations"} /\ Moves(w)
           /\ w.store \in {"operations", "journals", "controllers"} => w.key = o
           /\ w.store = "operations" => w.val.kind = k /\ w.val.status \in {"active", s}
           /\ w.store = "journals" => w.val.kind \notin Built,
         \/ \A w \in Waiting' : w.store # "controllers"
         \/ \A w \in Waiting' : w.store = "operations" => w.val.status = "active",
         Closes(o)' => Ends(o)'
  PROVE  HonestInv'
<1>1. todo = <<>> /\ (Serving' <=> Serving)
  BY DEF Idle, Serving
<1>2. Opened
  BY <1>1, OpenedBlock
<1>3. /\ generations[o] = "absent" /\ ~controllers[o] /\ operations[o].kind \notin Kinds
      /\ journals[o].kind \notin Kinds
  BY DEF StoresInv, Fresh, Blank
<1>4. operations[o].status = "absent" /\ journals[o].kind \notin Built
  <2>1. operations[o] \in OperationRecord
    BY DEF TypeOK
  <2>2. operations[o] = NoOperation
    BY <1>3, <2>1 DEF OperationRecord
  <2> QED BY <1>3, <2>2 DEF NoOperation, Built, CoreTransactions, Kinds
<1>5. o \notin aborted'
  BY <1>3 DEF AttendedInv, AbortedEnds
<1>6. /\ \A t : Becomes(o, t)' => t \in {"active", s}
      /\ \A t : Has(o, t)' => t \in {"absent", "active", s}
      /\ Live(o)' => \A t : Has(o, t)' => t \in {"absent", "active"}
  <2>1. operations' = operations /\ ~controllers'[o]
    BY <1>3 DEF durable
  <2>2. \A t : Becomes(o, t)' => t \in {"active", s}
    BY DEF Becomes
  <2>3. Live(o)' => \A t : Becomes(o, t)' => t = "active"
    BY <2>1 DEF Live, Becomes
  <2> QED BY <1>4, <2>1, <2>2, <2>3 DEF Has
<1>7. LiveIsUnsettled(o)' /\ AbortedApplyEnds(o)' /\ EndsOnce(o)'
  <2>1. LiveIsUnsettled(o)'
    BY <1>6 DEF LiveIsUnsettled
  <2>2. AbortedApplyEnds(o)'
    BY <1>5 DEF AbortedApplyEnds
  <2>3. EndsOnce(o)'
    <3>1. "active" \notin Terminal /\ operations'[o].status # "succeeded"
      BY <1>4 DEF Terminal, durable
    <3> QED BY <1>6, <3>1 DEF EndsOnce
  <2> QED BY <2>1, <2>2, <2>3
<1>8. Light(o)
  BY <1>3, <1>4, <1>7 DEF Light
<1>9. \A q \in Op :
        \/ /\ controllers'[q] = controllers[q] /\ (q \in aborted' <=> q \in aborted)
           /\ \A w \in Waiting' :
                w.store \in {"operations", "journals", "controllers"} => w.key # q
        \/ Light(q)
  BY <1>8
<1> QED BY <1>1, <1>2, <1>9, LightBlock

\* A switch to the active combination and a restore of the active generation.
LEMMA HonestNothingToDo ==
  ASSUME TypeOK, TypeOK', StoresInv, StoresInv', AttendedInv, HonestInv, NEW o \in Op,
         NEW e \in Env, NoopSwitch(o, e) \/ RestoreActive(o, e)
  PROVE  HonestInv'
<1>1. /\ Idle /\ UNCHANGED << durable, mode, controllers, aborted >>
      /\ ledger[o].state = "none"
  BY DEF NoopSwitch, MaySwitch, RestoreActive, NewRequest, volatile
<1>2. PICK k \in {"switch", "restore"} :
        Waiting' = Answering(o, k) \cup {PutOperation(o, k, e, "active"),
                                         PutOperation(o, k, e, "succeeded")}
  BY NoopWaits, RestoreActiveWaits
<1>3. \A w \in Waiting' :
        \/ w.store = "ledger"
        \/ /\ w.store = "operations" /\ w.key = o /\ w.val.kind = k
           /\ w.val.status \in {"active", "succeeded"}
  BY <1>2, AnswerFields, OperationFields
<1>4. k \in Kinds \ {"create", "apply"} /\ "succeeded" \in Terminal
  BY DEF Kinds, Terminal
<1>5. ~Closes(o)' /\ \A w \in Waiting' : Moves(w)
  BY <1>3 DEF Closes, Moves
<1>6. \A w \in Waiting' :
        /\ w.store \notin {"plans", "generations"} /\ Moves(w)
        /\ w.store \in {"operations", "journals", "controllers"} => w.key = o
        /\ w.store = "operations" => w.val.kind = k /\ w.val.status \in {"active", "succeeded"}
        /\ w.store = "journals" => w.val.kind \notin Built
        /\ w.store # "controllers"
  BY <1>3, <1>5
<1> QED BY <1>1, <1>4, <1>5, <1>6, LightRequest

LEMMA HonestRestore ==
  ASSUME TypeOK, TypeOK', StoresInv, StoresInv', AttendedInv, HonestInv, NEW o \in Op,
         NEW e \in Env, NEW g \in Op, RestoreGeneration(o, e, g)
  PROVE  HonestInv'
<1>1. /\ Idle /\ UNCHANGED << durable, mode, controllers, aborted >>
      /\ ledger[o].state = "none" /\ generations[g] = "recorded"
  BY DEF RestoreGeneration, NewRequest, volatile
<1> DEFINE moved == PutEnvironment(e, [environments[e] EXCEPT !.gen = g, !.revision = @ + 1])
<1>2. /\ Waiting = {} /\ Serving
  BY <1>1, NothingWaits DEF Idle, Serving
<1>3. moved.store = "environments" /\ moved.key = e /\ moved.val.gen = g
  <2>1. environments[e] \in EnvironmentRecord
    BY DEF TypeOK
  <2> QED BY <2>1 DEF PutEnvironment, Write, EnvironmentRecord
<1>4. Moves(moved)
  <2>1. ASSUME Has(g, "failed") PROVE FALSE
    <3>1. FailedIsGivenUp(g)
      BY DEF HonestInv, Honest
    <3> QED BY <1>1, <1>2, <2>1, <3>1 DEF FailedIsGivenUp, Builds, Left
  <2>2. ASSUME NEW q \in Op, environments[e].gen = q, journals[q].kind \in Built PROVE FALSE
    <3>1. PointsTo(e, q) /\ Keeps(q, journals[q].kind, journals[q].env)
      BY <2>2 DEF PointsTo, Keeps
    <3>2. journals[q].kind \in Kinds /\ journals[q].env \in Env
      BY <2>2, JournalFields DEF Built, CoreTransactions, Kinds
    <3>3. Live(q)
      BY <1>2, <3>1, <3>2 DEF StoresInv, JournalIsLive, Closes
    <3>4. generations[q] = "recorded"
      BY <2>2, NoneAssumption DEF StoresInv, PointerIntact
    <3> QED BY <3>3, <3>4 DEF StoresInv, LiveNotRecorded
  <2> QED BY <1>3, <2>1, <2>2 DEF Moves
<1>5. Waiting' = Answering(o, "restore") \cup Restoring(o, e, g)
  BY RestoreWaits
<1>6. \A w \in Waiting' :
        \/ w.store = "ledger"
        \/ w = moved
        \/ /\ w.store = "operations" /\ w.key = o /\ w.val.kind = "restore"
           /\ w.val.status \in {"active", "succeeded"}
        \/ /\ w.store = "journals" /\ w.key = o /\ w.val.kind \in {"restore", "none"}
  <2>1. \A w \in Answering(o, "restore") : w.store = "ledger"
    BY AnswerFields
  <2>2. \A r : PutJournal(o, r).store = "journals" /\ PutJournal(o, r).key = o
               /\ PutJournal(o, r).val = r
    BY DEF PutJournal, Write
  <2>3. PutLedger(o, "restore", "ok").store = "ledger" /\ NoJournal.kind = "none"
    BY DEF PutLedger, Write, NoJournal
  <2> QED BY <1>5, <2>1, <2>2, <2>3, OperationFields DEF Restoring
<1>7. "restore" \in Kinds \ {"create", "apply"} /\ "succeeded" \in Terminal
      /\ "restore" \notin Built /\ "none" \notin Built
  BY DEF Kinds, Terminal, Built, CoreTransactions
<1>8. Ends(o)'
  <2>1. PutOperation(o, "restore", e, "succeeded") \in Waiting'
    BY <1>5 DEF Restoring
  <2> QED BY <1>7, <2>1, OperationFields DEF Ends, Becomes
<1>9. \A w \in Waiting' : Moves(w)
  BY <1>4, <1>6 DEF Moves
<1>10. \A w \in Waiting' :
        /\ w.store \notin {"plans", "generations"} /\ Moves(w)
        /\ w.store \in {"operations", "journals", "controllers"} => w.key = o
        /\ w.store = "operations" =>
             w.val.kind = "restore" /\ w.val.status \in {"active", "succeeded"}
        /\ w.store = "journals" => w.val.kind \notin Built
        /\ w.store # "controllers"
  BY <1>3, <1>6, <1>7, <1>9
<1> QED BY <1>1, <1>7, <1>8, <1>10, LightRequest

LEMMA HonestProcessRequests ==
  ASSUME TypeOK, TypeOK', StoresInv, StoresInv', AttendedInv, HonestInv, NEW o \in Op,
         NEW e \in Env, Start(o, e) \/ Stop(o, e)
  PROVE  HonestInv'
<1>1. /\ Idle /\ UNCHANGED << durable, mode, controllers, aborted >>
      /\ ledger[o].state = "none"
  BY DEF Start, Stop, NewRequest, volatile
<1> DEFINE Own(k, w) ==
             \/ w = PutOperation(o, k, e, "active") \/ w = Register(o)
             \/ w.store \in {"ledger", "launches"} \/ \E t : w = PutState(e, t)
<1>2. \A k : /\ \A w \in Answering(o, k) : Own(k, w)
             /\ \A w \in Departing(o, k, e) : Own(k, w)
             /\ \A w \in Refusing(o, k, e) : w = PutOperation(o, k, e, "failed") \/ Own(k, w)
  <2>1. \A k : \A w \in Answering(o, k) : w.store = "ledger"
    BY AnswerFields
  <2> QED BY <2>1 DEF Departing, Refusing
<1>3. PICK k \in {"start", "stop"}, s \in {"failed", "succeeded"} :
        \/ \A w \in Waiting' : Own(k, w)
        \/ \A w \in Waiting' :
             w # Register(o) /\ (w = PutOperation(o, k, e, s) \/ Own(k, w))
  <2>0. /\ \A r, t : Marked(e, t).store = "launches" /\ Spawning(e, r).store = "launches"
        /\ Register(o).store = "controllers"
        /\ \A k, t : PutOperation(o, k, e, t) # Register(o) /\ PutState(e, t) # Register(o)
        /\ \A k, t : PutLedger(o, k, t) # Register(o)
    BY DEF Marked, Spawning, PutLaunch, Register, Write, PutOperation, PutState, PutEnvironment,
           PutLedger
  <2>1. CASE Start(o, e)
    <3>1. CASE Waiting' = Answering(o, "start") \cup Departing(o, "start", e)
                            \cup Refusing(o, "start", e)
      <4>1. \A w \in Waiting' : w = PutOperation(o, "start", e, "failed") \/ Own("start", w)
        BY <1>2, <3>1
      <4>2. Register(o) \notin Waiting'
        BY <2>0, <3>1 DEF Answering, Departing, Refusing
      <4> QED BY <4>1, <4>2
    <3>2. CASE Waiting' = Answering(o, "start") \cup Departing(o, "start", e)
                 \cup {Register(o)}
                 \cup IF launches[e].by = None THEN {Spawning(e, environments[e].gen)} ELSE {}
      BY <1>2, <2>0, <3>2
    <3> QED BY <2>1, <3>1, <3>2, StartWaits
  <2>2. CASE Stop(o, e)
    <3> DEFINE base == Answering(o, "stop") \cup Departing(o, "stop", e)
    <3>1. \/ Waiting' = base \cup Refusing(o, "stop", e)
          \/ Waiting' = base \cup {Marked(e, "unverifiable")} \cup Refusing(o, "stop", e)
          \/ Waiting' = base \cup {Marked(e, "ended")}
                          \cup {PutOperation(o, "stop", e, "succeeded"), PutState(e, "stopped")}
          \/ Waiting' = base \cup {Register(o), Marked(e, "stopping")}
          \/ Waiting' = base \cup {Register(o)}
      BY <2>2, StopWaits
    <3>2. /\ \A w \in base : Own("stop", w) /\ Register(o) \notin base
          /\ Register(o) \notin Refusing(o, "stop", e)
      BY <1>2, <2>0 DEF Answering, Departing, Refusing
    <3>3. \A t : Marked(e, t) # Register(o)
      BY <2>0
    <3> HIDE DEF base
    <3>4. CASE Waiting' = base \cup Refusing(o, "stop", e)
      BY <1>2, <3>2, <3>4
    <3>5. CASE Waiting' = base \cup {Marked(e, "unverifiable")} \cup Refusing(o, "stop", e)
      BY <1>2, <2>0, <3>2, <3>3, <3>5
    <3>6. CASE Waiting' = base \cup {Marked(e, "ended")}
                            \cup {PutOperation(o, "stop", e, "succeeded"), PutState(e, "stopped")}
      BY <2>0, <3>2, <3>3, <3>6
    <3>7. CASE Waiting' = base \cup {Register(o), Marked(e, "stopping")}
               \/ Waiting' = base \cup {Register(o)}
      BY <2>0, <3>2, <3>7
    <3> QED BY <3>1, <3>4, <3>5, <3>6, <3>7
  <2> QED BY <2>1, <2>2
<1>4. \A w :
        /\ Own(k, w) =>
             /\ w.store \notin {"plans", "generations", "journals"}
             /\ w.store \in {"operations", "controllers"} => w.key = o
             /\ w.store = "operations" => w.val.kind = k /\ w.val.status = "active"
             /\ w.store = "environments" => w.val.gen = environments[w.key].gen
             /\ w.store = "controllers" => w = Register(o)
        /\ w = PutOperation(o, k, e, s) =>
             w.store = "operations" /\ w.key = o /\ w.val.kind = k /\ w.val.status = s
  BY OperationFields, StateFields DEF Register, Write
<1> HIDE DEF Own
<1>5. \A w \in Waiting' :
        /\ w.store \notin {"plans", "generations", "journals"}
        /\ w.store \in {"operations", "controllers"} => w.key = o
        /\ w.store = "operations" => w.val.kind = k /\ w.val.status \in {"active", s}
        /\ w.store = "environments" => w.val.gen = environments[w.key].gen
  BY <1>3, <1>4
<1>6. \/ \A w \in Waiting' : w.store # "controllers"
      \/ \A w \in Waiting' : w.store = "operations" => w.val.status = "active"
  BY <1>3, <1>4
<1>7. k \in Kinds \ {"create", "apply"} /\ s \in Terminal /\ ~Closes(o)'
      /\ \A w \in Waiting' : Moves(w)
  BY <1>5 DEF Kinds, Terminal, Closes, Moves
<1> QED BY <1>1, <1>5, <1>6, <1>7, LightRequest

\* A request that builds a generation.
LEMMA HonestBuild ==
  ASSUME TypeOK, TypeOK', StoresInv, AttendedInv, HonestInv, NEW o \in Op, NEW e \in Env,
         NEW k \in Built, NEW p, k = "apply" => p \in Plan /\ PlanFor[p] = e /\ plans[p] = None,
         Idle, UNCHANGED << durable, mode, controllers, aborted >>, ledger[o].state = "none",
         NEW E, Waiting' = Answering(o, k) \cup Building(o, k, e, p) \cup E,
         \A w \in E : w.store = "environments" /\ w.val.gen = environments[w.key].gen
  PROVE  HonestInv'
<1>1. todo = <<>> /\ (Serving' <=> Serving)
  BY DEF Idle, Serving
<1>2. Opened /\ todo' \in Script
  BY <1>1, OpenedBlock
<1>3. \A w \in Waiting' :
        /\ w.store \in {"operations", "journals", "generations", "controllers"} => w.key = o
        /\ w.store = "operations" => w.val.status = "active"
        /\ w.store = "journals" => w.val.kind = k /\ w.val.env = e /\ w.val.plan = p
        /\ w.store = "generations" => w.val = "staged"
        /\ w.store # "plans"
        /\ w.store = "environments" => w.val.gen = environments[w.key].gen
  <2>1. \A w \in Answering(o, k) : w.store = "ledger"
    BY AnswerFields
  <2>2. \A w \in Building(o, k, e, p) :
          /\ w.store \in {"operations", "journals", "generations", "controllers"} /\ w.key = o
          /\ w.store = "operations" => w.val.status = "active"
          /\ w.store = "journals" => w.val.kind = k /\ w.val.env = e /\ w.val.plan = p
          /\ w.store = "generations" => w.val = "staged"
    BY BuildingFields
  <2> QED BY <2>1, <2>2
<1>4. Live(o)'
  <2>1. Register(o) \in Waiting'
    BY DEF Building
  <2> QED BY <2>1 DEF Live, Register, Write
<1>5. Honest(o)'
  <2>1. Honest(o)
    BY DEF HonestInv
  <2> QED BY <1>2, <1>3, <1>4, <2>1, PreparedStays
<1>6. \A q \in Op : Spared(q) \/ Honest(q)'
  BY <1>3, <1>5 DEF Spared
<1>7. Orderly(todo')
  BY <1>2, <1>3, OrderlySet DEF Waiting
<1> QED BY <1>1, <1>2, <1>6, <1>7, HonestBlock

LEMMA HonestBuildRequests ==
  ASSUME TypeOK, TypeOK', StoresInv, AttendedInv, HonestInv, NEW o \in Op, NEW e \in Env,
         \/ CreateEnvironment(o, e) \/ SwitchCombination(o, e)
         \/ \E p \in Plan : ApplyChange(o, e, p)
  PROVE  HonestInv'
<1>1. /\ Idle /\ UNCHANGED << durable, mode, controllers, aborted >>
      /\ ledger[o].state = "none"
  BY DEF CreateEnvironment, SwitchCombination, ApplyChange, MaySwitch, NewRequest, volatile
<1>2. "create" \in Built /\ "switch" \in Built /\ "apply" \in Built
  BY DEF Built, CoreTransactions
<1>3. CASE CreateEnvironment(o, e)
  <2> DEFINE put == PutEnvironment(e, [NoEnvironment EXCEPT !.state = "creating"])
             E == {put}
  <2>1. environments[e].gen = None
    BY <1>3 DEF CreateEnvironment, StoresInv, Present, Unused
  <2>2. put.store = "environments" /\ put.key = e /\ put.val.gen = None
    BY DEF PutEnvironment, Write, NoEnvironment
  <2>3. Waiting' = Answering(o, "create") \cup Building(o, "create", e, None) \cup E
    BY <1>3, CreateWaits
  <2>4. \A w \in E : w.store = "environments" /\ w.val.gen = environments[w.key].gen
    BY <2>1, <2>2
  <2> HIDE DEF E, AttendedInv, HonestInv
  <2> QED BY <1>1, <1>2, <2>3, <2>4, HonestBuild
<1>4. CASE SwitchCombination(o, e)
  <2> DEFINE E == {}
  <2>1. Waiting' = Answering(o, "switch") \cup Building(o, "switch", e, None) \cup E
    BY <1>4, SwitchWaits
  <2>2. \A w \in E : FALSE
    OBVIOUS
  <2> HIDE DEF E, AttendedInv, HonestInv
  <2> QED BY <1>1, <1>2, <2>1, <2>2, HonestBuild
<1>5. ASSUME NEW p \in Plan, ApplyChange(o, e, p) PROVE HonestInv'
  <2> DEFINE E == {}
  <2>1. Waiting' = Answering(o, "apply") \cup Building(o, "apply", e, p) \cup E
    BY <1>5, ApplyWaits
  <2>2. \A w \in E : FALSE
    OBVIOUS
  <2>3. PlanFor[p] = e /\ plans[p] = None
    BY <1>5 DEF ApplyChange
  <2> HIDE DEF E, AttendedInv, HonestInv
  <2> QED BY <1>1, <1>2, <2>1, <2>2, <2>3, HonestBuild
<1> QED BY <1>3, <1>4, <1>5

(***************************************************************************)
(* The whole instance.                                                     *)
(***************************************************************************)
LEMMA HonestNext ==
  ASSUME TypeOK, TypeOK', StoresInv, StoresInv', AttendedInv, HonestInv, [Next]_vars, ~WriteFails
  PROVE  HonestInv'
<1>1. CASE Requests
  BY <1>1, HonestBuildRequests, HonestRestore, HonestNothingToDo, HonestProcessRequests
     DEF Requests
<1>2. CASE Cancels
  BY <1>2, HonestCancels DEF Cancels
<1>3. CASE Surroundings
  BY <1>3, HonestLost, HonestModeStep, HonestExitCallback DEF Surroundings
<1>4. CASE Boot \/ FinishClose \/ Persist \/ UNCHANGED vars
  BY <1>4, HonestModeStep, HonestLost, HonestPersist
<1>5. CASE RecoverySteps
  BY <1>5, HonestRecoverChange, HonestRecoverJournal, HonestRecoverOrphans,
     HonestReconciliation, HonestModeStep
     DEF RecoverySteps
<1>6. CASE \E o \in Op : TaskSteps(o)
  BY <1>6, HonestInstallReturns, HonestStageReturns, HonestStartTask, HonestStopTask,
     HonestModeStep
     DEF TaskSteps
<1> QED BY <1>1, <1>2, <1>3, <1>4, <1>5, <1>6 DEF Next

\* The invariant, until the disk refuses a write.
HonestSound == faults = 0 => StoresInv /\ AttendedInv /\ HonestInv

LEMMA HonestUnrefused == TypeOK /\ HonestSound /\ [Next]_vars => HonestSound'
<1> SUFFICES ASSUME TypeOK, HonestSound, [Next]_vars, faults' = 0
             PROVE  StoresInv' /\ AttendedInv' /\ HonestInv'
  BY DEF HonestSound
<1>1. TypeOK'
  BY TypeStep
<1>2. faults = 0 /\ ~WriteFails
  <2>1. WriteFails => faults' # 0
    BY DEF WriteFails, TypeOK
  <2>2. ~WriteFails => faults' = faults
    BY FaultsKept
  <2> QED BY <2>1, <2>2
<1>3. StoresInv /\ AttendedInv /\ HonestInv
  BY <1>2 DEF HonestSound
<1>4. StoresInv' /\ AttendedInv'
  BY <1>1, <1>2, <1>3, StoresStep, AttendedNext
<1>5. HonestInv'
  BY <1>1, <1>2, <1>3, <1>4, HonestNext
<1> QED BY <1>4, <1>5

\* The outcome of an operation, the state of its generation, the pointer of its
\* environment and the plan it consumes agree, now or once the running block is
\* written, in every state that is reached without a refused write.
THEOREM HonestInvariant == Spec => []HonestSound
<1>1. Init => HonestSound
  BY StoresInit, AttendedInit, HonestInit DEF HonestSound
<1> QED BY <1>1, HonestUnrefused, TypeCorrect, PTL DEF Spec

\* At rest the outcome of an operation without a task is what happened to its
\* generation: a failed one left nothing behind, neither did a cancelled apply,
\* and a successful create or apply has a recorded generation, also where a crash
\* interrupted the commit, the undoing or the cancellation.
THEOREM OutcomeIsHonest == Spec => [](faults = 0 => HonestOutcome)
<1>1. ASSUME TypeOK, StoresInv, HonestInv, Idle, NEW o \in Op, ~controllers[o]
      PROVE  /\ operations[o].status = "failed" => generations[o] = "absent"
             /\ operations[o].status = "cancelled" /\ OfKind(o, {"apply"})
                  => generations[o] = "absent"
             /\ operations[o].status = "succeeded" /\ OfKind(o, {"create", "apply"})
                  => generations[o] = "recorded"
  <2>1. Waiting = {} /\ Serving
    BY <1>1, NothingWaits DEF Idle, Serving
  <2>2. Honest(o) /\ generations[o] \in GenerationStates
    BY <1>1 DEF HonestInv, TypeOK
  <2>3. operations[o].status = "failed" => generations[o] = "absent"
    BY <2>1, <2>2 DEF Honest, FailedIsGivenUp, Has, Builds, Left
  <2>4. operations[o].status = "cancelled" /\ OfKind(o, {"apply"}) => generations[o] = "absent"
    <3> SUFFICES ASSUME operations[o].status = "cancelled", operations[o].kind = "apply"
                 PROVE  generations[o] = "absent"
      BY DEF OfKind
    <3>1. operations[o].env \in Env
      BY <1>1, OperationRecords
    <3>2. Belongs(o, "apply", operations[o].env) /\ Has(o, "cancelled")
      BY DEF Belongs, Has
    <3>3. generations[o] # "recorded"
      BY <2>2, <3>1, <3>2 DEF Honest, CancelledIsGivenUp
    <3>4. ASSUME generations[o] = "staged" PROVE FALSE
      <4>1. journals[o].kind \in Built
        BY <1>1, <3>4 DEF StoresInv, StagedHasJournal
      <4>2. Keeps(o, journals[o].kind, journals[o].env)
        BY DEF Keeps
      <4>3. journals[o].kind \in Kinds /\ journals[o].env \in Env
        BY <1>1, <4>1, JournalFields DEF Built, CoreTransactions, Kinds
      <4> QED BY <1>1, <2>1, <4>2, <4>3 DEF StoresInv, JournalIsLive, Live, Closes
    <3> QED BY <2>2, <3>3, <3>4 DEF GenerationStates
  <2>5. operations[o].status = "succeeded" /\ OfKind(o, {"create", "apply"})
          => generations[o] = "recorded"
    <3> SUFFICES ASSUME operations[o].status = "succeeded", operations[o].kind \in {"create", "apply"}
                 PROVE  generations[o] = "recorded"
      BY DEF OfKind
    <3>1. operations[o].env \in Env
      BY <1>1, OperationRecords
    <3>2. Belongs(o, operations[o].kind, operations[o].env) /\ Has(o, "succeeded")
      BY DEF Belongs, Has
    <3> QED BY <2>2, <3>1, <3>2 DEF Honest, SucceededIsRecorded
  <2> QED BY <2>3, <2>4, <2>5
<1>2. TypeOK /\ HonestSound => (faults = 0 => HonestOutcome)
  BY <1>1 DEF HonestSound, HonestOutcome
<1> QED BY <1>2, TypeCorrect, HonestInvariant, PTL

\* At rest a plan is consumed exactly when its apply was committed, also when
\* recovery finished the commit: no plan is applied twice, and none is lost to a
\* change that was rolled back.
THEOREM PlanAlwaysFollowsCommit == Spec => [](faults = 0 => PlanFollowsCommit)
<1>1. ASSUME TypeOK, StoresInv, HonestInv, Idle
      PROVE  PlanFollowsCommit
  <2>1. Waiting = {} /\ Serving
    BY <1>1, NothingWaits DEF Idle, Serving
  <2>2. ASSUME NEW p \in Plan, plans[p] # None
        PROVE  operations[plans[p]].kind = "apply" /\ operations[plans[p]].status = "succeeded"
    <3>1. PICK o \in Op : plans[p] = o
      BY <1>1, <2>2 DEF TypeOK
    <3>2. PlanFor[p] \in Env /\ SpentIsCommitted(o)
      BY <1>1, PlanAssumption DEF HonestInv, Honest
    <3> QED BY <2>1, <3>1, <3>2 DEF SpentIsCommitted, Belongs, Becomes, Left
  <2>3. ASSUME NEW o \in Op, OfKind(o, {"apply"}), operations[o].status = "succeeded"
        PROVE  \E p \in Plan : plans[p] = o
    <3>1. operations[o].kind = "apply" /\ operations[o].env \in Env
      BY <1>1, <2>3, OperationRecords DEF OfKind
    <3>2. Belongs(o, "apply", operations[o].env) /\ Has(o, "succeeded") /\ SucceededSpends(o)
      BY <1>1, <2>3, <3>1 DEF Belongs, Has, HonestInv, Honest
    <3> QED BY <2>1, <3>1, <3>2 DEF SucceededSpends, Spends, Left
  <2> QED BY <2>2, <2>3 DEF PlanFollowsCommit
<1>2. TypeOK /\ HonestSound => (faults = 0 => PlanFollowsCommit)
  <2>1. ~Idle => PlanFollowsCommit
    BY DEF PlanFollowsCommit
  <2> QED BY <1>1, <2>1 DEF HonestSound
<1> QED BY <1>2, TypeCorrect, HonestInvariant, PTL

(***************************************************************************)
(* The ledger is settled: no change, and with one environment no switch,   *)
(* is left in-progress once its request or the recovery is over.           *)
(***************************************************************************)
\* The data root holds one environment.
OneEnvironment == \A e, f \in Env : e = f
\* The methods whose ledger record never stays in-progress.
Promised == ChangeTransactions \cup IF OneEnvironment THEN {"switch"} ELSE {}

\* The ledger record of o is in-progress for method m, now or soon.
Interrupts(r, m) == r.method = m /\ r.state = "in-progress"
Undecided(o, m) ==
  \/ Interrupts(ledger[o], m)
  \/ \E w \in Waiting : w.store = "ledger" /\ w.key = o /\ Interrupts(w.val, m)
Completes(w, o) == w.store = "ledger" /\ w.key = o /\ w.val.state = "ok"
AnswerComes(o) == todo # <<>> /\ Completes(todo[Len(todo)], o)
Repaired(o) == \E w \in Waiting : Completes(w, o)

\* While requests are served, the block of an undecided one ends with its answer.
AnswerWaits ==
  Serving => \A o \in Op, m \in Promised : Undecided(o, m) => AnswerComes(o)

\* A switch left in-progress is the one whose journal is open.
SoleSwitch ==
  OneEnvironment => \A o, q \in Op, e \in Env :
    Keeps(o, "switch", e) /\ Undecided(q, "switch") => o = q

\* The recovery that saw a switch journal repairs the record with the journal.
SeenIsRepaired ==
  OneEnvironment /\ mode = "recoverCore" /\ switchJournalSeen =>
    \A o \in Op : Undecided(o, "switch") =>
      Repaired(o) \/ \E e \in Env : Keeps(o, "switch", e) /\ ~Closes(o)

LedgerInv == AnswerWaits /\ SoleSwitch /\ SeenIsRepaired

LEMMA LedgerInit == Init => LedgerInv
<1> SUFFICES ASSUME Init PROVE LedgerInv
  OBVIOUS
<1>1. Waiting = {} /\ mode = "down" /\ \A o \in Op : ledger[o].state = "none"
  BY NothingWaits DEF Init, NoLedger
<1>2. \A o \in Op : \A m : ~Undecided(o, m)
  BY <1>1 DEF Undecided, Interrupts
<1> QED BY <1>1, <1>2 DEF LedgerInv, AnswerWaits, SoleSwitch, SeenIsRepaired, Serving

(***************************************************************************)
(* Writes reach their stores.                                              *)
(***************************************************************************)
LEMMA LastStays ==
  ASSUME NEW s \in Script, s # <<>>
  PROVE  /\ Tail(s) # <<>> => Tail(s)[Len(Tail(s))] = s[Len(s)]
         /\ Tail(s) = <<>> => s[Len(s)] = Head(s)
  BY DEF Script

LEMMA LedgerPersist ==
  ASSUME TypeOK, StoresInv, AttendedInv, LedgerInv, Persist PROVE LedgerInv'
<1> DEFINE w == Head(todo)
<1>1. Lands(w)
  BY Landing DEF StoresInv
<1>2. UNCHANGED << mode, switchJournalSeen >>
  BY DEF Persist, volatile
<1>3. todo \in Script /\ todo # <<>> /\ todo' = Tail(todo)
  BY DEF Persist, TypeOK, Script
<1>4. \A o \in Op : \A m : Undecided(o, m)' => Undecided(o, m)
  <2>1. w \in Waiting /\ \A v \in Waiting' : v \in Waiting
    BY <1>1 DEF Lands
  <2>2. \A o \in Op : ledger'[o] # ledger[o] => w.store = "ledger" /\ w.key = o
                                               /\ ledger'[o] = w.val
    BY <1>1, Effect
  <2> QED BY <2>1, <2>2 DEF Undecided
<1>5. \A o \in Op : \A m : Undecided(o, m)' /\ AnswerComes(o) => AnswerComes(o)'
  <2> SUFFICES ASSUME NEW o \in Op, NEW m, Undecided(o, m)', AnswerComes(o)
               PROVE  AnswerComes(o)'
    OBVIOUS
  <2>1. CASE todo' # <<>>
    BY <1>3, <2>1, LastStays DEF AnswerComes
  <2>2. CASE todo' = <<>>
    <3>1. Waiting' = {}
      BY <2>2, FewWrites DEF Waiting
    <3>2. Completes(w, o)
      BY <1>3, <2>2, LastStays DEF AnswerComes
    <3>3. ledger'[o] = w.val
      BY <1>1, <3>2 DEF Completes, Lands
    <3> QED BY <3>1, <3>2, <3>3 DEF Undecided, Interrupts, Completes
  <2> QED BY <2>1, <2>2
<1> HIDE DEF w
<1>6. "switch" \in Kinds
  BY DEF Kinds
<1>7. AnswerWaits'
  BY <1>2, <1>4, <1>5 DEF LedgerInv, AnswerWaits, Serving
<1>8. SoleSwitch'
  BY <1>1, <1>4, <1>6, Shrinks DEF LedgerInv, SoleSwitch
<1>9. SeenIsRepaired'
  <2> SUFFICES ASSUME OneEnvironment, mode = "recoverCore", switchJournalSeen,
                      NEW o \in Op, Undecided(o, "switch")'
               PROVE  Repaired(o)' \/ \E e \in Env : Keeps(o, "switch", e)' /\ ~Closes(o)'
    BY <1>2 DEF SeenIsRepaired
  <2>1. CASE Repaired(o)
    <3>1. PICK v \in Waiting : Completes(v, o)
      BY <2>1 DEF Repaired
    <3>2. CASE v = w
      <4>1. ledger'[o] = w.val
        BY <1>1, <3>1, <3>2 DEF Completes, Lands
      <4>2. PICK u \in Waiting' : u.store = "ledger" /\ u.val.state = "in-progress"
        BY <3>1, <3>2, <4>1 DEF Undecided, Interrupts, Completes
      <4>3. u \in Waiting
        BY <1>1 DEF Lands
      <4> QED BY <4>2, <4>3 DEF AttendedInv, LedgerSwept, Serving
    <3> QED BY <1>1, <3>1, <3>2 DEF Lands, Repaired
  <2>2. ASSUME NEW e \in Env, Keeps(o, "switch", e), ~Closes(o)
        PROVE  Keeps(o, "switch", e)' /\ ~Closes(o)'
    BY <1>1, <1>6, <2>2, KeepsLands, Shrinks
  <2>3. Undecided(o, "switch")
    BY <1>4
  <2> QED BY <2>1, <2>2, <2>3 DEF LedgerInv, SeenIsRepaired
<1> QED BY <1>7, <1>8, <1>9 DEF LedgerInv

(***************************************************************************)
(* A block begins.                                                         *)
(***************************************************************************)

\* A write that leaves nothing in-progress and, in a recovery, opens no journal.
Tidy(w) ==
  /\ w.store = "ledger" => w.val.state # "in-progress"
  /\ w.store = "journals" => Serving \/ w.val.kind = "none"

LEMMA LedgerQuiet ==
  ASSUME LedgerInv, todo = <<>>, UNCHANGED << journals, ledger, mode, switchJournalSeen >>,
         \A w \in Waiting' : Tidy(w),
         \A o \in Op : mode = "recoverCore" /\ Closes(o)' /\ Undecided(o, "switch") => Repaired(o)'
  PROVE  LedgerInv'
<1>1. Waiting = {}
  BY NothingWaits
<1>2. \A o \in Op : \A m : Undecided(o, m)' => Undecided(o, m)
  BY DEF Undecided, Interrupts, Tidy
<1>3. \A o \in Op : ~AnswerComes(o) /\ ~Repaired(o)
  BY <1>1 DEF AnswerComes, Repaired
<1>4. Serving => \A o \in Op, m \in Promised : ~Undecided(o, m)
  BY <1>3 DEF LedgerInv, AnswerWaits
<1>5. AnswerWaits'
  BY <1>2, <1>4 DEF AnswerWaits, Serving
<1>6. SoleSwitch'
  <2>1. ~Serving => \A o \in Op, e \in Env : Keeps(o, "switch", e)' => Keeps(o, "switch", e)
    BY DEF Keeps, Tidy
  <2>2. OneEnvironment => "switch" \in Promised
    BY DEF Promised
  <2> QED BY <1>2, <1>4, <2>1, <2>2 DEF LedgerInv, SoleSwitch
<1>7. SeenIsRepaired'
  <2>1. \A o \in Op, e \in Env : Keeps(o, "switch", e) => Keeps(o, "switch", e)'
    BY <1>1 DEF Keeps
  <2> QED BY <1>2, <1>3, <2>1 DEF LedgerInv, SeenIsRepaired
<1> QED BY <1>5, <1>6, <1>7 DEF LedgerInv

\* What writes of tasks and of a recovery are tidy.
LEMMA TidyWrites ==
  ASSUME TypeOK, NEW o \in Op
  PROVE  /\ \A s : Tidy(Ended(o, s)) /\ Tidy(PutGeneration(o, s))
         /\ \A s : \A w \in Settling(o, s) : Tidy(w)
         /\ \A p : Tidy(PutPlan(p, o))
         /\ Tidy(Removed(o)) /\ (Serving => Tidy(MarkedCommitted(o)))
         /\ \A w \in Repairing(o) : Tidy(w)
         /\ \A m : Tidy(PutLedger(o, m, "failed"))
         /\ \A e, r : Tidy(PutEnvironment(e, r)) /\ Tidy(PutLaunch(e, r))
         /\ \A e, s : Tidy(PutState(e, s)) /\ Tidy(Marked(e, s)) /\ Tidy(Spawning(e, s))
<1>1. \A s : Tidy(Ended(o, s)) /\ Tidy(PutGeneration(o, s))
  BY DEF Tidy, Ended, PutGeneration, Write
<1>2. \A p : Tidy(PutPlan(p, o))
  BY DEF Tidy, PutPlan, Write
<1>3. Tidy(Removed(o)) /\ (Serving => Tidy(MarkedCommitted(o)))
  BY DEF Tidy, Removed, MarkedCommitted, NoJournal, PutJournal, Write
<1>4. /\ \A m : Tidy(PutLedger(o, m, "failed"))
      /\ \A w \in Repairing(o) : Tidy(w)
  BY DEF Tidy, Repairing, PutLedger, Write
<1>5. \A e, r : Tidy(PutEnvironment(e, r)) /\ Tidy(PutLaunch(e, r))
  BY DEF Tidy, PutEnvironment, PutLaunch, Write
<1>6. \A e, s : Tidy(PutState(e, s)) /\ Tidy(Marked(e, s)) /\ Tidy(Spawning(e, s))
  BY DEF Tidy, PutState, PutEnvironment, PutLaunch, Marked, Spawning, Write
<1> HIDE DEF Tidy
<1> QED BY <1>1, <1>2, <1>3, <1>4, <1>5, <1>6 DEF Settling

\* The sets of writes.
LEMMA TidySets ==
  ASSUME TypeOK, NEW o \in Op
  PROVE  /\ \A w \in UndoSet(o) \cup RollbackSet(o) \cup CancelSet(o) \cup FinalizeSet(o)
                       \cup MarkSet(o) \cup Consuming(o) : Tidy(w)
         /\ Serving => \A w \in CommitSet(o) \cup PublishSet(o) : Tidy(w)
         /\ \A w \in Failing(o) \cup Stopping(o) : Tidy(w)
<1> HIDE DEF Tidy
<1>1. \A w \in UndoSet(o) \cup RollbackSet(o) \cup CancelSet(o) : Tidy(w)
  BY TidyWrites DEF UndoSet, RollbackSet, CancelSet, Erring
<1>2. \A w \in FinalizeSet(o) \cup MarkSet(o) \cup Consuming(o) : Tidy(w)
  BY TidyWrites DEF FinalizeSet, MarkSet, Consuming
<1>3. Serving => \A w \in CommitSet(o) : Tidy(w)
  BY TidyWrites DEF CommitSet
<1>4. Serving => \A w \in PublishSet(o) : Tidy(w)
  BY <1>3, TidyWrites DEF PublishSet
<1>5. \A w \in Failing(o) : Tidy(w)
  BY TidyWrites DEF Failing, Reverting
<1>6. \A w \in Stopping(o) : Tidy(w)
  BY <1>5, TidyWrites DEF Stopping
<1> QED BY <1>1, <1>2, <1>3, <1>4, <1>5, <1>6

LEMMA LedgerTransactions ==
  ASSUME TypeOK, LedgerInv, NEW o \in Op, InstallReturns(o) \/ StageReturns(o)
  PROVE  LedgerInv'
<1>1. /\ todo = <<>> /\ UNCHANGED << journals, ledger, mode, switchJournalSeen >>
      /\ Serving /\ mode # "recoverCore"
  BY DEF InstallReturns, StageReturns, TaskReturns, durable, Serving
<1>2. \A w \in Waiting' : Tidy(w)
  <2>1. CASE InstallReturns(o)
    <3>1. journals[o].kind \in CoreTransactions
          /\ (todo' = CommitScript(o) \/ todo' = UndoScript(o, <<>>))
      BY <2>1 DEF InstallReturns, Run
    <3>2. Waiting' = CommitSet(o) \/ Waiting' = UndoSet(o)
      BY <3>1, CommitWaits, UndoWaits DEF Waiting
    <3> QED BY <1>1, <3>2, TidySets
  <2>2. CASE StageReturns(o)
    <3>1. journals[o].kind = "apply"
          /\ (todo' = RollbackScript(o) \/ todo' = CancelScript(o) \/ todo' = PublishScript(o))
      BY <2>2 DEF StageReturns, Run
    <3>2. \/ Waiting' = RollbackSet(o) \/ Waiting' = CancelSet(o) \/ Waiting' = PublishSet(o)
          \/ Waiting' = {PutGeneration(o, "recorded")} \cup RollbackSet(o)
      BY <3>1, RollbackWaits, CancelWaits, PublishWaits DEF Waiting
    <3> QED BY <1>1, <3>2, TidySets, TidyWrites
  <2> QED BY <2>1, <2>2
<1> HIDE DEF LedgerInv, Tidy
<1> QED BY <1>1, <1>2, LedgerQuiet

LEMMA LedgerCancels ==
  ASSUME TypeOK, LedgerInv, NEW o \in Op, CancelOperation(o) \/ CancelApply(o)
  PROVE  LedgerInv'
<1>1. /\ todo = <<>> /\ UNCHANGED << journals, ledger, mode, switchJournalSeen >>
      /\ mode # "recoverCore" /\ todo' = Settle(o, "cancelled")
  BY DEF CancelOperation, CancelApply, Idle, Run, durable
<1>2. \A w \in Waiting' : Tidy(w)
  <2>1. Waiting' = Settling(o, "cancelled")
    BY <1>1, SettleWrites DEF Waiting, Settling
  <2> QED BY <2>1, TidyWrites
<1> HIDE DEF LedgerInv, Tidy
<1> QED BY <1>1, <1>2, LedgerQuiet

LEMMA LedgerProcessTasks ==
  ASSUME TypeOK, LedgerInv, NEW o \in Op,
         \/ LaunchIntent(o) \/ Identify(o) \/ Ready(o) \/ StartFails(o)
         \/ StopReturns(o) \/ StopUnconfirmed(o) \/ \E e \in Env : ExitCallback(o, e)
  PROVE  LedgerInv'
<1>1. /\ todo = <<>> /\ UNCHANGED << journals, ledger, mode, switchJournalSeen >>
      /\ mode # "recoverCore"
  BY DEF LaunchIntent, Identify, Ready, StartFails, StopReturns, StopUnconfirmed, ExitCallback,
         Spawned, TaskOf, TaskReturns, durable, files, volatile
<1>2. \A w \in Waiting' : Tidy(w)
  <2>1. CASE LaunchIntent(o) \/ Identify(o)
    <3>1. PICK e, r : todo' = << PutLaunch(e, r) >>
      BY <2>1 DEF LaunchIntent, Identify, Run, Spawning
    <3> QED BY <3>1, FewWrites, TidyWrites DEF Waiting
  <2>2. CASE Ready(o)
    BY <2>2, ReadyWaits, TidyWrites
  <2>3. CASE StartFails(o)
    BY <2>3, StartFailsWaits, TidySets, TidyWrites
  <2>4. CASE StopReturns(o) \/ StopUnconfirmed(o)
    BY <2>4, StopTaskWaits, TidySets, TidyWrites
  <2>5. ASSUME NEW e \in Env, ExitCallback(o, e) PROVE \A w \in Waiting' : Tidy(w)
    <3>1. \A q \in StrayStarts(e) : Tidy(Ended(q, "failed"))
      BY TidyWrites DEF StrayStarts
    <3> HIDE DEF Tidy
    <3> QED BY <2>5, <3>1, ExitWaits, TidyWrites DEF Strays
  <2> QED BY <2>1, <2>2, <2>3, <2>4, <2>5
<1> HIDE DEF LedgerInv, Tidy
<1> QED BY <1>1, <1>2, LedgerQuiet

(***************************************************************************)
(* Recovery.                                                               *)
(***************************************************************************)
LEMMA LedgerRecoverChange ==
  ASSUME TypeOK, LedgerInv, NEW o \in Op, RecoverChange(o) PROVE LedgerInv'
<1>1. /\ todo = <<>> /\ UNCHANGED << journals, ledger, mode, switchJournalSeen >>
      /\ mode # "recoverCore"
  BY DEF RecoverChange, durable, volatile
<1>2. \A w \in Waiting' : Tidy(w)
  BY RecoverChangeWaits, TidySets, TidyWrites
<1> HIDE DEF LedgerInv, Tidy
<1> QED BY <1>1, <1>2, LedgerQuiet

\* The journal goes with the repair of the ledger record.
LEMMA LedgerRecoverJournal ==
  ASSUME TypeOK, LedgerInv, NEW o \in Op, RecoverJournal(o) PROVE LedgerInv'
<1>1. /\ todo = <<>> /\ UNCHANGED << journals, ledger, mode, switchJournalSeen >>
      /\ journals[o].kind \in CoreTransactions
  BY DEF RecoverJournal, Recovering, CoreJournals, durable, volatile
<1>2. Waiting' = FinalizeSet(o) \/ Waiting' = UndoSet(o) \cup Repairing(o)
  BY <1>1, FinalizeWaits, UndoWaits DEF RecoverJournal, Run, Waiting
<1>3. \A w \in Waiting' : Tidy(w)
  BY <1>2, TidySets, TidyWrites
<1>4. ASSUME NEW q \in Op, Closes(q)', Undecided(q, "switch") PROVE Repaired(q)'
  <2>1. Repairing(o) \subseteq Waiting'
    BY <1>2 DEF FinalizeSet
  <2>2. \A w \in Waiting' : w.store = "journals" => w.key = o
    <3>1. \A w \in UndoSet(o) : w.store = "journals" => w.key = o
      BY DEF UndoSet, Settling, Erring, Removed, Ended, PutEnvironment, PutGeneration, PutJournal,
             Write
    <3>2. \A w \in FinalizeSet(o) \cup Repairing(o) : w.store = "journals" => w.key = o
      BY DEF FinalizeSet, Repairing, Removed, Ended, PutLedger, PutJournal, Write
    <3> QED BY <1>2, <3>1, <3>2
  <2>3. q = o
    BY <1>4, <2>2 DEF Closes
  <2>4. ledger[o].state = "in-progress"
    BY <1>1, <1>4, <2>3, NothingWaits DEF Undecided, Interrupts
  <2>5. PutLedger(o, ledger[o].method, "ok") \in Waiting'
    BY <2>1, <2>4 DEF Repairing
  <2> QED BY <2>3, <2>5 DEF Repaired, Completes, PutLedger, Write
<1> HIDE DEF LedgerInv, Tidy
<1> QED BY <1>1, <1>3, <1>4, LedgerQuiet

LEMMA LedgerRecoverOrphans ==
  ASSUME TypeOK, LedgerInv,
         \/ \E o \in Op : \/ RecoverOrphan(o) \/ RecoverOrphanChange(o)
                          \/ SettleSwitchLedger(o) \/ SweepChangeLedger(o)
         \/ \E e \in Env : RecoverCreating(e) \/ ReconcileLaunch(e)
  PROVE  LedgerInv'
<1>1. todo = <<>> /\ UNCHANGED << journals, ledger, mode, switchJournalSeen >>
  BY DEF RecoverOrphan, RecoverOrphanChange, SettleSwitchLedger, SweepChangeLedger,
         RecoverCreating, ReconcileLaunch, Recovering, durable, files, volatile
<1>2. \A w \in Waiting' : Tidy(w) /\ w.store # "journals"
  <2>1. ASSUME NEW o \in Op, \/ RecoverOrphan(o) \/ RecoverOrphanChange(o)
                             \/ SettleSwitchLedger(o) \/ SweepChangeLedger(o)
        PROVE  \A w \in Waiting' : Tidy(w) /\ w.store # "journals"
    <3>1. \A w \in Settling(o, "failed") : w.store # "journals"
      BY DEF Settling, Ended, Write
    <3>2. \A m : PutLedger(o, m, "failed").store # "journals"
      BY DEF PutLedger, Write
    <3>3. \A e, r : PutEnvironment(e, r).store # "journals"
      BY DEF PutEnvironment, Write
    <3> HIDE DEF Tidy
    <3>4. CASE RecoverOrphan(o)
      BY <3>1, <3>3, <3>4, RecoverOrphanWaits, TidyWrites
    <3>5. CASE RecoverOrphanChange(o) \/ SettleSwitchLedger(o) \/ SweepChangeLedger(o)
      BY <3>1, <3>2, <3>5, LedgerWaits, TidyWrites
    <3> QED BY <2>1, <3>4, <3>5
  <2>2. ASSUME NEW e \in Env, RecoverCreating(e)
        PROVE  \A w \in Waiting' : Tidy(w) /\ w.store # "journals"
    <3>1. Waiting' = {PutEnvironment(e, Errored(e))}
      BY <2>2, FewWrites DEF RecoverCreating, Run, Waiting
    <3> QED BY <3>1 DEF Tidy, PutEnvironment, Write
  <2>3. ASSUME NEW e \in Env, ReconcileLaunch(e)
        PROVE  \A w \in Waiting' : Tidy(w) /\ w.store # "journals"
    BY <2>3, ReconcileLaunchWaits DEF Tidy, Marked, Write
  <2> QED BY <2>1, <2>2, <2>3
<1>3. \A o \in Op : ~Closes(o)'
  BY <1>2 DEF Closes
<1> HIDE DEF LedgerInv, Tidy
<1> QED BY <1>1, <1>2, <1>3, LedgerQuiet

\* recover() reads the journals: the switch it sees is the one in-progress.
LEMMA LedgerReconciled ==
  ASSUME TypeOK, LedgerInv, ProcessesReconciled PROVE LedgerInv'
<1>1. /\ todo = <<>> /\ UNCHANGED << journals, ledger >>
      /\ mode' = "recoverCore" /\ switchJournalSeen' = \E o \in Op : journals[o].kind = "switch"
  BY DEF ProcessesReconciled, durable
<1>2. Waiting = {} /\ \A w \in Waiting' : w.store \notin {"ledger", "journals"}
  BY <1>1, NothingWaits, ReconciledWaits
     DEF PutState, PutEnvironment, Ended, Write
<1>3. \A o \in Op : /\ \A m : Undecided(o, m)' <=> Undecided(o, m)
                    /\ \A e : Keeps(o, "switch", e)' <=> Keeps(o, "switch", e)
                    /\ ~Closes(o)'
  BY <1>1, <1>2 DEF Undecided, Keeps, Closes
<1>4. AnswerWaits' /\ SoleSwitch'
  BY <1>1, <1>3 DEF LedgerInv, AnswerWaits, SoleSwitch, Serving
<1>5. SeenIsRepaired'
  <2> SUFFICES ASSUME OneEnvironment, switchJournalSeen', NEW q \in Op, Undecided(q, "switch")
               PROVE  \E e \in Env : Keeps(q, "switch", e)' /\ ~Closes(q)'
    BY <1>3 DEF SeenIsRepaired
  <2>1. PICK o \in Op : journals[o].kind = "switch"
    BY <1>1
  <2>2. journals[o].env \in Env /\ Keeps(o, "switch", journals[o].env)
    BY <2>1, JournalRecords DEF Keeps
  <2>3. q = o
    BY <2>2 DEF LedgerInv, SoleSwitch
  <2> QED BY <1>3, <2>2, <2>3
<1> QED BY <1>4, <1>5 DEF LedgerInv

(***************************************************************************)
(* Steps that write nothing, and the end of the instance.                  *)
(***************************************************************************)
LEMMA LedgerModeStep ==
  ASSUME TypeOK, StoresInv, AttendedInv, LedgerInv,
         Boot \/ BeginClose \/ ChangesRecovered \/ CoreRecovered
         \/ (\E o \in Op : Spawn(o)) \/ (\E p \in Alive : ProcessDies(p))
         \/ UNCHANGED vars
  PROVE  LedgerInv'
<1>1. UNCHANGED << journals, ledger, todo, switchJournalSeen >>
  BY DEF Boot, BeginClose, ChangesRecovered, CoreRecovered, Spawn, ProcessDies, durable, files,
         volatile, vars
<1>2. \A o \in Op : /\ \A m : Undecided(o, m)' <=> Undecided(o, m)
                    /\ \A e : Keeps(o, "switch", e)' <=> Keeps(o, "switch", e)
                    /\ Closes(o)' <=> Closes(o)
                    /\ AnswerComes(o)' <=> AnswerComes(o)
                    /\ Repaired(o)' <=> Repaired(o)
  BY <1>1 DEF Undecided, Keeps, Closes, AnswerComes, Repaired, Waiting
<1>3. SoleSwitch'
  BY <1>2 DEF LedgerInv, SoleSwitch
<1>4. SeenIsRepaired'
  <2>1. mode' = "recoverCore" => mode = "recoverCore"
    BY DEF Boot, BeginClose, ChangesRecovered, CoreRecovered, Spawn, ProcessDies, vars
  <2> QED BY <1>1, <1>2, <2>1 DEF LedgerInv, SeenIsRepaired
<1>5. AnswerWaits'
  <2>1. CASE CoreRecovered
    <3>1. /\ Waiting = {} /\ mode = "recoverCore"
          /\ \A o \in Op : /\ ~OpenJournal(o)
                           /\ ledger[o].method \in ChangeTransactions
                                => ledger[o].state # "in-progress"
      BY <2>1, RecoveryIsComplete
    <3>2. \A o \in Op, m \in ChangeTransactions : ~Undecided(o, m)
      BY <3>1 DEF Undecided, Interrupts
    <3>3. ASSUME OneEnvironment, NEW o \in Op, Undecided(o, "switch") PROVE FALSE
      <4>1. ledger[o].method = "switch" /\ ledger[o].state = "in-progress"
        BY <3>1, <3>3 DEF Undecided, Interrupts
      <4>2. ledger[o] = [method |-> "switch", state |-> "in-progress"]
        BY <4>1 DEF TypeOK, LedgerRecord
      <4>3. switchJournalSeen
        BY <2>1, <4>2 DEF CoreRecovered, OrphanSwitchLedgers
      <4> QED BY <3>1, <3>3, <4>3
           DEF LedgerInv, SeenIsRepaired, Repaired, Keeps, OpenJournal
    <3> QED BY <1>2, <3>2, <3>3 DEF AnswerWaits, Promised
  <2>2. CASE ~CoreRecovered
    <3>1. Serving' => Serving
      BY <2>2 DEF Boot, BeginClose, ChangesRecovered, Spawn, ProcessDies, vars, Serving, Idle
    <3> QED BY <1>2, <3>1 DEF LedgerInv, AnswerWaits
  <2> QED BY <2>1, <2>2
<1> QED BY <1>3, <1>4, <1>5 DEF LedgerInv

LEMMA LedgerGone ==
  ASSUME LedgerInv, Crash \/ FinishClose PROVE LedgerInv'
<1>1. UNCHANGED << journals, ledger >> /\ mode' = "down" /\ todo' = <<>>
  BY DEF Crash, FinishClose, LoseMemory, Run, durable
<1>2. Waiting' = {}
  BY <1>1, FewWrites DEF Waiting
<1>3. \A o \in Op : /\ \A m : Undecided(o, m)' => Undecided(o, m)
                    /\ \A e : Keeps(o, "switch", e)' => Keeps(o, "switch", e)
  BY <1>1, <1>2 DEF Undecided, Keeps
<1> QED BY <1>1, <1>3
    DEF LedgerInv, AnswerWaits, SoleSwitch, SeenIsRepaired, Serving
(***************************************************************************)
(* The requests.                                                           *)
(***************************************************************************)

\* A write of request o, of kind k, says in the ledger and the journals that it is.
Reports(w, o, k) ==
  /\ w.store = "ledger" => w.key = o /\ w.val.method = k
  /\ w.store = "journals" => w.key = o /\ w.val.kind \in {"none", k}

LEMMA AnswerLast ==
  ASSUME NEW o, NEW k, NEW W, NEW effect \in Seq(W), todo' = Dispatched(o, k, effect)
  PROVE  AnswerComes(o)'
<1> DEFINE a == PutLedger(o, k, "in-progress")
           b == PutLedger(o, k, "ok")
<1>1. Completes(b, o)
  BY DEF Completes, PutLedger, Write
<1>2. todo' = << a >> \o effect \o << b >>
  BY DEF Dispatched
<1> HIDE DEF a, b
<1>3. << a >> \o effect \o << b >> # <<>>
      /\ (<< a >> \o effect \o << b >>)[Len(<< a >> \o effect \o << b >>)] = b
  OBVIOUS
<1> QED BY <1>1, <1>2, <1>3 DEF AnswerComes, Completes

LEMMA LedgerRequest ==
  ASSUME TypeOK, StoresInv, LedgerInv, NEW o \in Op, NEW k \in Kinds,
         Idle, UNCHANGED << journals, ledger, mode >>, ledger[o].state = "none",
         \A w \in Waiting' : Reports(w, o, k),
         k \in {"switch", "apply", "restore"} => AnswerComes(o)',
         k = "switch" /\ OneEnvironment => \A q \in Op : journals[q].kind # "switch"
  PROVE  LedgerInv'
<1>1. Waiting = {} /\ mode' = "ready" /\ Serving
  BY NothingWaits DEF Idle, Serving
<1>2. \A q \in Op, m \in Promised : ~Undecided(q, m)
  BY <1>1 DEF LedgerInv, AnswerWaits, AnswerComes, Idle
<1>3. \A q \in Op, m \in Promised : Undecided(q, m)' => q = o /\ m = k
  BY <1>2 DEF Undecided, Interrupts, Reports
<1>4. AnswerWaits'
  BY <1>3 DEF AnswerWaits, Promised, ChangeTransactions
<1>5. SoleSwitch'
  <2> SUFFICES ASSUME OneEnvironment, NEW p \in Op, NEW q \in Op, NEW e \in Env,
                      Keeps(p, "switch", e)', Undecided(q, "switch")'
               PROVE  p = q
    BY DEF SoleSwitch
  <2>1. q = o /\ k = "switch"
    BY <1>3 DEF Promised
  <2>2. journals[p].kind # "switch"
    BY <2>1
  <2> QED BY <2>1, <2>2 DEF Keeps, Reports
<1> QED BY <1>1, <1>4, <1>5 DEF LedgerInv, SeenIsRepaired

LEMMA ReportingWrites ==
  ASSUME TypeOK, NEW o \in Op, NEW k \in Kinds, NEW e \in Env
  PROVE  /\ \A w \in Answering(o, k) : Reports(w, o, k)
         /\ \A p : \A w \in Building(o, k, e, p) : Reports(w, o, k)
         /\ \A s : Reports(PutOperation(o, k, e, s), o, k)
         /\ \A r : Reports(PutEnvironment(e, r), o, k)
         /\ \A s : Reports(PutState(e, s), o, k) /\ Reports(Marked(e, s), o, k)
         /\ \A g : Reports(Spawning(e, g), o, k)
         /\ Reports(Register(o), o, k)
         /\ k = "restore" => \A g : \A w \in Restoring(o, e, g) : Reports(w, o, k)
         /\ \A w \in Departing(o, k, e) \cup Refusing(o, k, e) : Reports(w, o, k)
<1>1. \A w \in Answering(o, k) : Reports(w, o, k)
  BY AnswerFields DEF Reports
<1>2. \A p : \A w \in Building(o, k, e, p) : Reports(w, o, k)
  BY BuildingFields DEF Reports
<1>3. /\ \A s : Reports(PutOperation(o, k, e, s), o, k)
      /\ \A r : Reports(PutEnvironment(e, r), o, k)
      /\ Reports(Register(o), o, k)
      /\ \A s : Reports(PutLedger(o, k, s), o, k)
  BY DEF Reports, PutOperation, PutEnvironment, Register, PutLedger, Write
<1>4. /\ \A s : Reports(PutState(e, s), o, k) /\ Reports(Marked(e, s), o, k)
      /\ \A g : Reports(Spawning(e, g), o, k)
  BY DEF Reports, PutState, PutEnvironment, PutLaunch, Marked, Spawning, Write
<1>5. \A r : r.kind \in {"none", k} => Reports(PutJournal(o, r), o, k)
  BY DEF Reports, PutJournal, Write
<1>6. NoJournal.kind = "none"
  BY DEF NoJournal
<1> HIDE DEF Reports
<1>7. \A w \in Departing(o, k, e) \cup Refusing(o, k, e) : Reports(w, o, k)
  BY <1>3, <1>4 DEF Departing, Refusing
<1>8. k = "restore" => \A g : \A w \in Restoring(o, e, g) : Reports(w, o, k)
  BY <1>3, <1>5, <1>6 DEF Restoring
<1> QED BY <1>1, <1>2, <1>3, <1>4, <1>7, <1>8

\* With one environment, a switch that is admitted finds no journal of another.
LEMMA LedgerSwitch ==
  ASSUME TypeOK, StoresInv, LedgerInv, NEW o \in Op, NEW e \in Env,
         SwitchCombination(o, e) \/ NoopSwitch(o, e)
  PROVE  LedgerInv'
<1>1. /\ Idle /\ UNCHANGED << journals, ledger, mode >> /\ ledger[o].state = "none"
      /\ ~HasJournal(e, CoreTransactions \cup ChangeTransactions) /\ "switch" \in Kinds
  BY DEF SwitchCombination, NoopSwitch, MaySwitch, NewRequest, durable, Kinds
<1>2. OneEnvironment => \A q \in Op : journals[q].kind # "switch"
  <2> SUFFICES ASSUME OneEnvironment, NEW q \in Op, journals[q].kind = "switch" PROVE FALSE
    OBVIOUS
  <2>1. journals[q].env = e
    BY JournalRecords DEF OneEnvironment
  <2> QED BY <1>1, <2>1 DEF HasJournal, CoreTransactions
<1>3. \A w \in Waiting' : Reports(w, o, "switch")
  BY <1>1, SwitchWaits, NoopWaits, ReportingWrites
<1>4. AnswerComes(o)'
  <2>1. \A a, b, c, d : << a, b, c, d >> \in Seq({a, b, c, d}) /\ << a, b >> \in Seq({a, b})
    OBVIOUS
  <2>2. CASE SwitchCombination(o, e)
    <3>1. PICK a, b, c, d : todo' = Dispatched(o, "switch", << a, b, c, d >>)
      BY <2>2 DEF SwitchCombination, Run, Prepared
    <3> QED BY <2>1, <3>1, AnswerLast
  <2>3. CASE NoopSwitch(o, e)
    <3>1. PICK a, b : todo' = Dispatched(o, "switch", << a, b >>)
      BY <2>3 DEF NoopSwitch, Run
    <3> QED BY <2>1, <3>1, AnswerLast
  <2> QED BY <2>2, <2>3
<1> HIDE DEF LedgerInv, Reports
<1> QED BY <1>1, <1>2, <1>3, <1>4, LedgerRequest

LEMMA LedgerChanges ==
  ASSUME TypeOK, StoresInv, LedgerInv, NEW o \in Op, NEW e \in Env,
         \/ \E p \in Plan : ApplyChange(o, e, p)
         \/ \E g \in Op : RestoreGeneration(o, e, g)
         \/ RestoreActive(o, e)
  PROVE  LedgerInv'
<1>1. CASE \E p \in Plan : ApplyChange(o, e, p)
  <2>0. PICK p \in Plan : ApplyChange(o, e, p)
    BY <1>1
  <2>1. Idle /\ UNCHANGED << journals, ledger, mode >> /\ ledger[o].state = "none"
        /\ "apply" \in Kinds
    BY <2>0 DEF ApplyChange, NewRequest, durable, Kinds
  <2>2. \A w \in Waiting' : Reports(w, o, "apply")
    BY <2>0, <2>1, ApplyWaits, ReportingWrites
  <2>3. PICK a, b, c, d : todo' = Dispatched(o, "apply", << a, b, c, d >>)
    BY <2>0 DEF ApplyChange, Run
  <2>4. << a, b, c, d >> \in Seq({a, b, c, d})
    OBVIOUS
  <2>5. AnswerComes(o)'
    BY <2>3, <2>4, AnswerLast
  <2> HIDE DEF LedgerInv, Reports
  <2> QED BY <2>1, <2>2, <2>5, LedgerRequest
<1>2. CASE \E g \in Op : RestoreGeneration(o, e, g)
  <2>0. PICK g \in Op : RestoreGeneration(o, e, g)
    BY <1>2
  <2>1. /\ Idle /\ UNCHANGED << journals, ledger, mode >> /\ ledger[o].state = "none"
        /\ "restore" \in Kinds
    <3>1. Idle /\ ledger[o].state = "none" /\ UNCHANGED << durable, mode >>
      BY <2>0, Zenon DEF RestoreGeneration, NewRequest
    <3> QED BY <3>1 DEF durable, Kinds
  <2>2. \A w \in Waiting' : Reports(w, o, "restore")
    BY <2>0, <2>1, RestoreWaits, ReportingWrites
  <2>3. \E a, b, c, d, r, s : todo' = Dispatched(o, "restore", << a, b, c, d, r, s >>)
    BY <2>0, Zenon DEF RestoreGeneration, Run
  <2>4. PICK a, b, c, d, r, s : todo' = Dispatched(o, "restore", << a, b, c, d, r, s >>)
    BY <2>3
  <2>5. << a, b, c, d, r, s >> \in Seq({a, b, c, d, r, s})
    OBVIOUS
  <2>6. AnswerComes(o)'
    BY <2>4, <2>5, AnswerLast
  <2> HIDE DEF LedgerInv, Reports
  <2> QED BY <2>1, <2>2, <2>6, LedgerRequest
<1>3. CASE RestoreActive(o, e)
  <2>1. /\ Idle /\ UNCHANGED << journals, ledger, mode >> /\ ledger[o].state = "none"
        /\ "restore" \in Kinds
    BY <1>3 DEF RestoreActive, NewRequest, durable, Kinds
  <2>2. \A w \in Waiting' : Reports(w, o, "restore")
    BY <1>3, <2>1, RestoreActiveWaits, ReportingWrites
  <2>3. PICK a, b, c : todo' = Dispatched(o, "restore", << a, b, c >>)
    BY <1>3 DEF RestoreActive, Run
  <2>4. << a, b, c >> \in Seq({a, b, c})
    OBVIOUS
  <2>5. AnswerComes(o)'
    BY <2>3, <2>4, AnswerLast
  <2> HIDE DEF LedgerInv, Reports
  <2> QED BY <2>1, <2>2, <2>5, LedgerRequest
<1> QED BY <1>1, <1>2, <1>3

LEMMA LedgerOtherRequests ==
  ASSUME TypeOK, StoresInv, LedgerInv, NEW o \in Op, NEW e \in Env,
         CreateEnvironment(o, e) \/ Start(o, e) \/ Stop(o, e)
  PROVE  LedgerInv'
<1>1. /\ Idle /\ UNCHANGED << journals, ledger, mode >> /\ ledger[o].state = "none"
      /\ {"create", "start", "stop"} \subseteq Kinds
  BY DEF CreateEnvironment, Start, Stop, NewRequest, durable, Kinds
<1>2. PICK k \in {"create", "start", "stop"} : \A w \in Waiting' : Reports(w, o, k)
  <2>1. CASE CreateEnvironment(o, e)
    BY <1>1, <2>1, CreateWaits, ReportingWrites
  <2>2. CASE Start(o, e)
    <3> HIDE DEF Reports
    <3> QED BY <1>1, <2>2, StartWaits, ReportingWrites
  <2>3. CASE Stop(o, e)
    <3> HIDE DEF Reports
    <3> QED BY <1>1, <2>3, StopWaits, ReportingWrites
  <2> QED BY <2>1, <2>2, <2>3
<1> HIDE DEF LedgerInv, Reports
<1> QED BY <1>1, <1>2, LedgerRequest

(***************************************************************************)
(* The whole instance.                                                     *)
(***************************************************************************)
LEMMA LedgerNext ==
  ASSUME TypeOK, StoresInv, AttendedInv, LedgerInv, [Next]_vars, ~WriteFails
  PROVE  LedgerInv'
<1> HIDE DEF LedgerInv
<1>1. CASE Requests
  BY <1>1, LedgerSwitch, LedgerChanges, LedgerOtherRequests DEF Requests
<1>2. CASE Cancels
  BY <1>2, LedgerCancels DEF Cancels
<1>3. CASE Surroundings
  BY <1>3, LedgerGone, LedgerModeStep, LedgerProcessTasks DEF Surroundings
<1>4. CASE Boot \/ FinishClose \/ Persist \/ UNCHANGED vars
  BY <1>4, LedgerModeStep, LedgerGone, LedgerPersist
<1>5. CASE RecoverySteps
  BY <1>5, LedgerRecoverChange, LedgerRecoverJournal, LedgerRecoverOrphans, LedgerReconciled,
     LedgerModeStep
     DEF RecoverySteps
<1>6. CASE \E o \in Op : TaskSteps(o)
  BY <1>6, LedgerTransactions, LedgerProcessTasks, LedgerModeStep DEF TaskSteps
<1> QED BY <1>1, <1>2, <1>3, <1>4, <1>5, <1>6 DEF Next

\* The invariant, until the disk refuses a write.
LedgerSound == faults = 0 => LedgerInv

LEMMA LedgerUnrefused ==
  TypeOK /\ AttendedSound /\ LedgerSound /\ [Next]_vars => LedgerSound'
<1> SUFFICES ASSUME TypeOK, AttendedSound, LedgerSound, [Next]_vars, faults' = 0
             PROVE  LedgerInv'
  BY DEF LedgerSound
<1>1. faults = 0 /\ ~WriteFails
  <2>1. WriteFails => faults' # 0
    BY DEF WriteFails, TypeOK
  <2>2. ~WriteFails => faults' = faults
    BY FaultsKept
  <2> QED BY <2>1, <2>2
<1> HIDE DEF LedgerInv
<1> QED BY <1>1, LedgerNext DEF AttendedSound, LedgerSound

\* While requests are served an in-progress record is about to be answered, and
\* a switch left in-progress by a crash is the one whose journal recovery reads, in
\* every state that is reached without a refused write.
THEOREM LedgerInvariant == Spec => []LedgerSound
<1>1. Init => LedgerSound
  BY LedgerInit DEF LedgerSound
<1> QED BY <1>1, LedgerUnrefused, TypeCorrect, AttendedInvariant, PTL DEF Spec

\* At rest no request of changes.apply or generations.restore is in-progress,
\* whatever number of environments the data root holds.
ChangesSettled ==
  Idle => \A o \in Op : ledger[o].method \in ChangeTransactions
                          => ledger[o].state # "in-progress"

LEMMA AnsweredAtRest ==
  TypeOK /\ LedgerSound /\ faults = 0
    => ChangesSettled /\ (OneEnvironment => LedgerSettled)
<1> SUFFICES ASSUME LedgerInv, Idle
             PROVE  \A o \in Op : ledger[o].method \in Promised => ledger[o].state # "in-progress"
  BY DEF LedgerSound, ChangesSettled, LedgerSettled, Promised, ChangeTransactions
<1> QED BY DEF LedgerInv, AnswerWaits, AnswerComes, Undecided, Interrupts, Idle, Serving

\* The dispatcher's record of an apply or a restore is settled when its request
\* is over, or the recovery after a crash.
THEOREM ChangesAlwaysSettled == Spec => [](faults = 0 => ChangesSettled)
  BY AnsweredAtRest, LedgerInvariant, TypeCorrect, PTL

\* With one environment the record of a switch is, too: a recovery that reads a
\* switch journal skips the orphaned records, but then the one in-progress is the
\* one of that journal.
THEOREM LedgerAlwaysSettled == Spec => [](faults = 0 /\ OneEnvironment => LedgerSettled)
  BY AnsweredAtRest, LedgerInvariant, TypeCorrect, PTL
===============================================================================
