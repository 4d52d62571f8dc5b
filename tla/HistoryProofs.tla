----------------------------- MODULE HistoryProofs -----------------------------
(***************************************************************************)
(* The launcher implements GenerationHistory, for every set of             *)
(* environments, requests and plans and every number of crashes, as long   *)
(* as the disk refuses no write: the inductive invariant, that every step  *)
(* preserves it, and that each write is then a commit, a restore or        *)
(* nothing.                                                                *)
(***************************************************************************)
EXTENDS CommitProofs

(***************************************************************************)
(* The inductive invariant.                                                *)
(***************************************************************************)
Keeping(w) ==
  /\ w.val.gen = environments[w.key].gen
  /\ w.val.revision = environments[w.key].revision
\* The pointer moves to the generation of an open transaction, or by a restore.
Moving(w) ==
  /\ w.val.revision = environments[w.key].revision + 1
  /\ w.val.gen \in Op /\ w.val.gen # environments[w.key].gen
  /\ \/ journals[w.val.gen].kind \in Built /\ journals[w.val.gen].env = w.key
     \/ \E o \in Op : Keeps(o, "restore", w.key)
Alone(w) ==
  \A v \in Waiting : v.store = "environments" /\ v.key = w.key => v = w

\* A block moves the pointer of an environment at most once, by one revision,
\* and then writes no other record of it.
MovesOnce ==
  \A w \in Waiting : w.store = "environments" => Keeping(w) \/ (Moving(w) /\ Alone(w))

\* An environment has no generation before its creation commits, and always has
\* one afterwards.
CreatingIsEmpty ==
  /\ \A e \in Env :
       /\ environments[e].state = "absent" => environments[e].revision = 0
       /\ environments[e].state = "creating" => environments[e].gen = None
  /\ \A w \in Waiting :
       w.store = "environments" /\ w.val.state = "creating" => w.val.gen = None
CreatedFirst ==
  \A o, q \in Op, e \in Env :
    Belongs(o, "create", e) /\ PointsTo(e, q) => generations[o] = "recorded" \/ RecordsFirst(o)
ChangesPresent ==
  \A o \in Op, k \in {"switch", "apply"}, e \in Env :
    Keeps(o, k, e) => environments[e].gen # None
SettledIsPointed ==
  \A o \in Op : generations[o] = "recorded" /\ ~OpenJournal(o) =>
    environments[operations[o].env].gen # None

\* A recorded generation belongs to an operation, and the journal under which it
\* was recorded is closed when the pointer names it or when it is removed again.
RecordedKnown == \A o \in Op : generations[o] = "recorded" => Known(o)
OpensLive ==
  \A w \in Waiting : w.store = "journals" /\ w.val.kind \in Built =>
    journals[w.key].kind \in Built \/ Live(w.key)
ClosedIsCommitted ==
  \A o \in Op :
    Closes(o) /\ journals[o].kind \in Built /\ (generations[o] = "recorded" \/ Builds(o, "recorded"))
      => \/ Builds(o, "absent")
         \/ PointsTo(journals[o].env, o) /\ Stays(journals[o].env, o)

HistoryInv ==
  /\ MovesOnce /\ CreatingIsEmpty /\ CreatedFirst /\ ChangesPresent /\ SettledIsPointed
  /\ RecordedKnown /\ OpensLive /\ ClosedIsCommitted

LEMMA HistoryInit == Init => HistoryInv
<1> SUFFICES ASSUME Init PROVE HistoryInv
  OBVIOUS
<1>1. Waiting = {}
  BY NothingWaits DEF Init
<1>2. /\ \A o \in Op : generations[o] = "absent" /\ operations[o].kind = "none"
                       /\ journals[o].kind = "none"
      /\ \A e \in Env : environments[e] = [state |-> "absent", revision |-> 0, gen |-> None]
  BY DEF Init, NoOperation, NoJournal, NoEnvironment
<1>3. MovesOnce /\ CreatingIsEmpty /\ OpensLive /\ ClosedIsCommitted
  BY <1>1, <1>2 DEF MovesOnce, CreatingIsEmpty, OpensLive, ClosedIsCommitted, Closes
<1>4. CreatedFirst /\ ChangesPresent /\ SettledIsPointed /\ RecordedKnown
  <2>1. CreatedFirst
    BY <1>1, <1>2 DEF CreatedFirst, Belongs
  <2>2. ChangesPresent
    BY <1>1, <1>2 DEF ChangesPresent, Keeps
  <2> QED BY <1>2, <2>1, <2>2 DEF SettledIsPointed, RecordedKnown
<1> QED BY <1>3, <1>4 DEF HistoryInv

LEMMA TailFollows ==
  ASSUME NEW s \in Script, s # <<>>, Orderly(s)
  PROVE  \A w \in ToSet(Tail(s)) : Follows(Head(s), w)
  BY DEF Orderly, Script, ToSet

\* A write leaves the pointer of an environment or is the one that moves it.
LEMMA PointerMoves ==
  ASSUME TypeOK, MovesOnce, NEW w, Lands(w), NEW e \in Env
  PROVE  /\ \/ /\ environments'[e].gen = environments[e].gen
               /\ environments'[e].revision = environments[e].revision
            \/ /\ w.store = "environments" /\ w.key = e /\ environments'[e] = w.val
               /\ Moving(w) /\ Alone(w)
         /\ environments[e].gen # None => environments'[e].gen # None
<1>1. CASE w.store = "environments" /\ w.key = e
  <2>1. w \in Waiting /\ environments'[e] = w.val
    BY <1>1 DEF Lands
  <2>2. Keeping(w) \/ (Moving(w) /\ Alone(w))
    BY <1>1, <2>1 DEF MovesOnce
  <2>3. CASE Keeping(w)
    BY <1>1, <2>1, <2>3 DEF Keeping
  <2>4. CASE Moving(w) /\ Alone(w)
    <3>1. environments'[e].gen # None
      BY <2>1, <2>4, NoneAssumption DEF Moving
    <3> QED BY <1>1, <2>1, <2>4, <3>1
  <2> QED BY <2>2, <2>3, <2>4
<1>2. CASE ~(w.store = "environments" /\ w.key = e)
  <2>1. environments'[e] = environments[e]
    BY <1>2 DEF Lands
  <2> QED BY <2>1
<1> QED BY <1>1, <1>2

\* The journal of a transaction stays what it is until it is removed, which is
\* the last write of a block but for the answer.
LEMMA KeptLands ==
  ASSUME TypeOK, StoresInv, NEW w, Lands(w), NEW o \in Op, NEW k \in Kinds, NEW e \in Env,
         \E v \in Waiting' : v.store # "ledger"
  PROVE  /\ journals[o].kind = k /\ journals[o].env = e =>
              journals'[o].kind = k /\ journals'[o].env = e
         /\ Keeps(o, k, e) => Keeps(o, k, e)'
<1>1. ASSUME journals[o].kind = k, journals[o].env = e
      PROVE  journals'[o].kind = k /\ journals'[o].env = e
  <2>1. journals'[o].kind = k
    BY <1>1, JournalLands
  <2>2. CASE journals'[o] = journals[o]
    BY <1>1, <2>2
  <2>3. CASE journals'[o] # journals[o]
    <3>1. w.store = "journals" /\ w.key = o /\ journals'[o] = w.val /\ w \in Waiting
      BY <2>3, Effect
    <3>2. w.val.kind = k /\ w.val \in JournalRecord
      BY <2>1, <3>1, WriteFields DEF Lands
    <3>3. w.val.env \in Env
      BY <3>2 DEF JournalRecord, NoJournal, Kinds
    <3>4. Keeps(o, k, w.val.env) /\ Keeps(o, k, e)
      BY <1>1, <3>1, <3>2 DEF Keeps
    <3>5. w.val.env = e
      BY <3>3, <3>4 DEF StoresInv, OneHome, Claims
    <3> QED BY <2>1, <3>1, <3>5
  <2> QED BY <2>2, <2>3
<1>2. w.store = "journals" /\ w.key = o => journals'[o] = w.val
  BY DEF Lands
<1>3. ASSUME Keeps(o, k, e) PROVE Keeps(o, k, e)'
  <2>1. CASE journals[o].kind = k /\ journals[o].env = e
    BY <1>1, <2>1 DEF Keeps
  <2>2. CASE \E u \in Waiting : /\ u.store = "journals" /\ u.key = o
                                /\ u.val.kind = k /\ u.val.env = e
    <3>1. PICK u \in Waiting : /\ u.store = "journals" /\ u.key = o
                               /\ u.val.kind = k /\ u.val.env = e
      BY <2>2
    <3>2. u = w \/ u \in Waiting'
      BY <3>1 DEF Lands
    <3>3. u = w => journals'[o] = u.val
      BY <1>2, <3>1
    <3>4. u = w => journals'[o].kind = k /\ journals'[o].env = e
      BY <3>1, <3>3
    <3>5. CASE u \in Waiting'
      BY <3>1, <3>5 DEF Keeps
    <3> QED BY <3>2, <3>4, <3>5 DEF Keeps
  <2> QED BY <1>3, <2>1, <2>2 DEF Keeps
<1> QED BY <1>1, <1>3

LEMMA MovesLand ==
  ASSUME TypeOK, StoresInv, MovesOnce, NEW w, Lands(w) PROVE MovesOnce'
<1> SUFFICES ASSUME NEW v \in Waiting', v.store = "environments"
             PROVE  (Keeping(v) \/ (Moving(v) /\ Alone(v)))'
  BY DEF MovesOnce
<1>1. v \in Waiting /\ v.key \in Env
  BY WriteFields DEF Lands
<1>2. PICK e \in Env : v.key = e
  BY <1>1
<1>3. CASE /\ environments'[e].gen = environments[e].gen
           /\ environments'[e].revision = environments[e].revision
  <2>1. CASE Keeping(v)
    BY <1>2, <1>3, <2>1 DEF Keeping
  <2>2. CASE Moving(v) /\ Alone(v)
    <3>1. Alone(v)'
      BY <2>2 DEF Alone, Lands
    <3>2. v.val.gen \in Op /\ v.store # "ledger"
      BY <2>2 DEF Moving
    <3>3. /\ journals[v.val.gen].kind \in Built /\ journals[v.val.gen].env = e =>
               journals'[v.val.gen].kind \in Built /\ journals'[v.val.gen].env = e
          /\ \A o \in Op : Keeps(o, "restore", e) => Keeps(o, "restore", e)'
      <4>1. Built \subseteq Kinds /\ "restore" \in Kinds
        BY DEF Built, CoreTransactions, Kinds
      <4> QED BY <3>2, <4>1, KeptLands
    <3>4. Moving(v)'
      BY <1>2, <1>3, <2>2, <3>2, <3>3 DEF Moving
    <3> QED BY <3>1, <3>4
  <2> QED BY <1>1, <2>1, <2>2 DEF MovesOnce
<1>4. CASE /\ w.store = "environments" /\ w.key = e /\ environments'[e] = w.val
           /\ Moving(w) /\ Alone(w)
  <2>1. v = w
    BY <1>1, <1>2, <1>4 DEF Alone
  <2> QED BY <1>2, <1>4, <2>1 DEF Keeping
<1> QED BY <1>3, <1>4, PointerMoves

LEMMA PresenceLands ==
  ASSUME TypeOK, StoresInv, HistoryInv, Persist, Lands(Head(todo))
  PROVE  CreatingIsEmpty' /\ ChangesPresent'
<1> DEFINE w == Head(todo)
<1>1. w \in Waiting /\ \A v \in Waiting' : v \in Waiting
  BY DEF Lands
<1>2. \A e \in Env : environments'[e] = IF w.store = "environments" /\ w.key = e
                                          THEN w.val ELSE environments[e]
  BY DEF Lands
<1>3. \A e \in Env : environments[e].gen # None => environments'[e].gen # None
  BY PointerMoves DEF HistoryInv
<1>4. \A k \in Kinds : \A o \in Op : \A e \in Env : Keeps(o, k, e)' => Keeps(o, k, e)
  BY Shrinks
<1>5. "switch" \in Kinds /\ "apply" \in Kinds
  BY DEF Kinds
<1> HIDE DEF w
<1>6. CreatingIsEmpty'
  BY <1>1, <1>2 DEF HistoryInv, CreatingIsEmpty, StoresInv, StaysPresent
<1>7. ChangesPresent'
  BY <1>3, <1>4, <1>5 DEF HistoryInv, ChangesPresent
<1> QED BY <1>6, <1>7

LEMMA CreationLands ==
  ASSUME TypeOK, StoresInv, HonestInv, HistoryInv, Persist, Lands(Head(todo))
  PROVE  CreatedFirst'
<1> DEFINE w == Head(todo)
<1> SUFFICES ASSUME NEW o \in Op, NEW q \in Op, NEW e \in Env,
                    Belongs(o, "create", e)', PointsTo(e, q)'
             PROVE  generations'[o] = "recorded"
  BY DEF CreatedFirst
<1>1. "create" \in Kinds /\ Lands(w) /\ w \in Waiting
  BY DEF Kinds, Lands
<1>2. Belongs(o, "create", e) /\ PointsTo(e, q)
  BY <1>1, Shrinks
<1>3. generations[o] = "recorded" \/ RecordsFirst(o)
  BY <1>2 DEF HistoryInv, CreatedFirst
<1>4. CASE RecordsFirst(o)
  <2>1. w.store = "generations" /\ w.key = o /\ w.val = "recorded"
    BY <1>4 DEF RecordsFirst, PutGeneration, Write
  <2> QED BY <1>1, <2>1 DEF Lands
<1>5. ASSUME generations[o] = "recorded", generations'[o] # "recorded" PROVE FALSE
  <2>1. Builds(o, generations'[o]) /\ generations'[o] \in GenerationStates
    BY <1>1, <1>5, Effect
  <2>2. ~Builds(o, "staged")
    BY <1>5 DEF HonestInv, Honest, SettledWhileOpen, StoresInv, LiveNotRecorded
  <2>3. Builds(o, "absent")
    BY <1>5, <2>1, <2>2 DEF GenerationStates
  <2>4. journals[o].kind \in Built
    BY <2>3 DEF HonestInv, Honest, SettledWhileOpen
  <2>5. journals[o].kind \in Kinds /\ journals[o].env \in Env
    BY <2>4, JournalFields DEF Built, CoreTransactions, Kinds
  <2>6. Keeps(o, journals[o].kind, journals[o].env)
    BY DEF Keeps
  <2>7. journals[o].kind = "create" /\ journals[o].env = e
    BY <1>1, <1>2, <2>5, <2>6 DEF StoresInv, OneHome, Claims
  <2>8. q = o
    BY <1>1, <1>2, <2>6, <2>7 DEF StoresInv, CreatedAlone
  <2> QED BY <1>2, <2>3, <2>8 DEF StoresInv, NotUnrecorded
<1> QED BY <1>3, <1>4, <1>5

LEMMA RecordedLands ==
  ASSUME TypeOK, StoresInv, AttendedInv, HonestInv, HistoryInv, NEW w, Lands(w)
  PROVE  RecordedKnown' /\ OpensLive'
<1>1. RecordedKnown'
  <2> SUFFICES ASSUME NEW o \in Op, generations'[o] = "recorded" PROVE Known(o)'
    BY DEF RecordedKnown
  <2>1. Known(o) => Known(o)'
    BY OperationLands DEF AttendedInv
  <2>2. CASE generations[o] = "recorded"
    BY <2>1, <2>2 DEF HistoryInv, RecordedKnown
  <2>3. CASE generations[o] # "recorded"
    <3>1. Builds(o, "recorded")
      BY <2>3, Effect
    <3>2. journals[o].kind \in Built
      BY <3>1 DEF HonestInv, Honest, SettledWhileOpen
    <3> QED BY <2>1, <3>2 DEF AttendedInv, BuiltKnown
  <2> QED BY <2>2, <2>3
<1>2. OpensLive'
  <2> SUFFICES ASSUME NEW v \in Waiting', v.store = "journals", v.val.kind \in Built
               PROVE  journals'[v.key].kind \in Built \/ Live(v.key)'
    BY DEF OpensLive
  <2>1. v \in Waiting /\ v.key \in Op
    BY WriteFields DEF Lands
  <2>2. PICK o \in Op : v.key = o
    BY <2>1
  <2>3. journals[o].kind \in Built \/ Live(o)
    BY <2>1, <2>2 DEF HistoryInv, OpensLive
  <2>4. Live(o)' <=> Live(o)
    BY Shrinks
  <2>5. CASE journals[o].kind \in Built
    <3>1. journals[o].kind \in Kinds /\ journals[o].env \in Env /\ v.store # "ledger"
      BY <2>5, JournalFields DEF Built, CoreTransactions, Kinds
    <3>2. journals'[o].kind = journals[o].kind
      BY <3>1, KeptLands
    <3> QED BY <2>2, <2>5, <3>2
  <2> QED BY <2>2, <2>3, <2>4, <2>5
<1> QED BY <1>1, <1>2

\* A recorded generation is removed only under its open journal, while no record
\* names it.
LEMMA RecordedStays ==
  ASSUME TypeOK, StoresInv, HonestInv, NEW w, Lands(w), NEW o \in Op,
         generations[o] = "recorded", generations'[o] # "recorded"
  PROVE  journals[o].kind \in Built /\ Builds(o, "absent") /\ \A e \in Env : ~PointsTo(e, o)
<1>1. Builds(o, generations'[o]) /\ generations'[o] \in GenerationStates
  BY Effect
<1>2. ~Builds(o, "staged")
  BY DEF HonestInv, Honest, SettledWhileOpen, StoresInv, LiveNotRecorded
<1>3. Builds(o, "absent")
  BY <1>1, <1>2 DEF GenerationStates
<1> QED BY <1>3 DEF HonestInv, Honest, SettledWhileOpen, StoresInv, NotUnrecorded

\* The operation behind a recorded generation keeps its environment.
LEMMA RecordedHome ==
  ASSUME TypeOK, StoresInv, AttendedInv, HistoryInv, NEW w, Lands(w), NEW o \in Op,
         generations[o] = "recorded"
  PROVE  /\ operations[o].env \in Env /\ operations[o].kind \in Kinds
         /\ Claims(o, operations[o].kind, operations[o].env)
         /\ operations'[o].env = operations[o].env
<1>1. Known(o)
  BY DEF HistoryInv, RecordedKnown
<1>2. operations[o].env \in Env /\ operations[o].kind \in Kinds
  BY <1>1, OperationRecords DEF Known
<1>3. Belongs(o, operations[o].kind, operations[o].env)
  BY DEF Belongs
<1>4. CASE operations'[o] = operations[o]
  BY <1>2, <1>3, <1>4 DEF Claims
<1>5. CASE operations'[o] # operations[o]
  <2>1. /\ w.store = "operations" /\ w.key = o /\ operations'[o] = w.val
        /\ w.val \in OperationRecord /\ w.val.status # "absent" /\ w \in Waiting
    BY <1>5, OperationLands DEF AttendedInv, Lands
  <2>2. w.val.kind \in Kinds /\ w.val.env \in Env
    BY <2>1 DEF OperationRecord, NoOperation
  <2>3. Belongs(o, w.val.kind, w.val.env)
    BY <2>1 DEF Belongs
  <2>4. w.val.env = operations[o].env
    BY <1>2, <1>3, <2>2, <2>3 DEF StoresInv, OneHome, Claims
  <2> QED BY <1>2, <1>3, <2>1, <2>4 DEF Claims
<1> QED BY <1>4, <1>5

\* The removal of its journal leaves a recorded generation under the pointer.
LEMMA RemovalLands ==
  ASSUME TypeOK, StoresInv, AttendedInv, HistoryInv, NEW w, Lands(w), NEW o \in Op,
         generations[o] = "recorded", OpenJournal(o), ~OpenJournal(o)'
  PROVE  /\ journals[o].kind \in Built /\ environments[operations[o].env].gen = o
         /\ environments'[operations[o].env] = environments[operations[o].env]
         /\ generations'[o] = generations[o]
<1>1. w \in Waiting /\ w.store = "journals" /\ w.key = o /\ w.val.kind = "none"
  BY Effect DEF OpenJournal
<1>2. Closes(o) /\ \A v \in Waiting' : v.store = "ledger"
  BY <1>1 DEF Closes, Lands, Before
<1>3. \A v \in Waiting : v = w \/ v.store = "ledger"
  BY <1>2 DEF Lands
<1>4. journals[o].kind \in Kinds /\ journals[o].env \in Env
  BY DEF OpenJournal, TypeOK, JournalRecord, NoJournal, Kinds, CoreTransactions
<1>5. journals[o].kind \in Built
  <2>1. Claims(o, journals[o].kind, journals[o].env)
    BY DEF Claims, Keeps
  <2> QED BY <1>4, <2>1 DEF StoresInv, BuiltByTransaction
<1>6. operations[o].env = journals[o].env
  BY <1>5, JournalOfOperation
<1>7. ~Builds(o, "absent")
  BY <1>1, <1>3 DEF Builds
<1>8. PointsTo(journals[o].env, o)
  BY <1>2, <1>5, <1>7 DEF HistoryInv, ClosedIsCommitted
<1>9. environments[journals[o].env].gen = o
  BY <1>1, <1>3, <1>8 DEF PointsTo
<1>10. environments'[journals[o].env] = environments[journals[o].env] /\ generations'[o] = generations[o]
  BY <1>1, <1>4 DEF Lands
<1> QED BY <1>5, <1>6, <1>9, <1>10

LEMMA SettledLands ==
  ASSUME TypeOK, StoresInv, AttendedInv, HonestInv, HistoryInv, NEW w, Lands(w)
  PROVE  SettledIsPointed'
<1> SUFFICES ASSUME NEW o \in Op, generations'[o] = "recorded", ~OpenJournal(o)'
             PROVE  environments'[operations'[o].env].gen # None
  BY DEF SettledIsPointed
<1>1. CASE generations[o] = "recorded"
  <2>1. operations[o].env \in Env /\ operations'[o].env = operations[o].env
    BY <1>1, RecordedHome
  <2>2. environments[operations[o].env].gen # None
    <3>1. CASE OpenJournal(o)
      BY <1>1, <3>1, RemovalLands, NoneAssumption
    <3>2. CASE ~OpenJournal(o)
      BY <1>1, <3>2 DEF HistoryInv, SettledIsPointed
    <3> QED BY <3>1, <3>2
  <2> QED BY <2>1, <2>2, PointerMoves DEF HistoryInv
<1>2. CASE generations[o] # "recorded"
  <2>1. Builds(o, "recorded") /\ w.store = "generations"
    BY <1>2, Effect
  <2>2. journals[o].kind \in Built
    BY <2>1 DEF HonestInv, Honest, SettledWhileOpen
  <2>3. journals'[o] = journals[o]
    BY <2>1, Effect
  <2> QED BY <2>2, <2>3 DEF OpenJournal, Built, CoreTransactions
<1> QED BY <1>1, <1>2

LEMMA ClosingLands ==
  ASSUME TypeOK, StoresInv, AttendedInv, HonestInv, HistoryInv, Persist, Lands(Head(todo))
  PROVE  ClosedIsCommitted'
<1> DEFINE w == Head(todo)
<1> SUFFICES ASSUME NEW o \in Op, Closes(o)', journals'[o].kind \in Built,
                    generations'[o] = "recorded" \/ Builds(o, "recorded")'
             PROVE  Builds(o, "absent")' \/ (PointsTo(journals[o].env, o) /\ Stays(journals[o].env, o))'
  BY DEF ClosedIsCommitted
<1>1. Lands(w) /\ w \in Waiting /\ (\A v \in Waiting' : v \in Waiting) /\ Closes(o)
  <2>1. Closes(o)' => Closes(o)
    BY Shrinks
  <2> QED BY <2>1 DEF Lands
<1>2. PICK c \in Waiting' : c.store = "journals" /\ c.key = o /\ c.val.kind = "none"
  BY DEF Closes
<1>3. ~Builds(o, "recorded")'
  <2>1. todo \in Script /\ todo # <<>> /\ todo' = Tail(todo)
    BY DEF TypeOK, Script, Persist
  <2>2. \A v \in ToSet(Tail(todo)) : Follows(Head(todo), v)
    BY <2>1, TailFollows DEF HonestInv
  <2>3. \A v \in Waiting' : ~(v.store = "generations" /\ v.val = "recorded")
    BY <2>1, <2>2 DEF Follows, Waiting
  <2> QED BY <2>3 DEF Builds
<1>4. generations'[o] = "recorded"
  BY <1>3
<1>5. generations[o] = "recorded" \/ Builds(o, "recorded")
  BY <1>1, <1>4, Effect
<1>6. journals[o].kind \in Built
  <2>1. CASE generations[o] = "recorded"
    <3>1. CASE journals'[o] = journals[o]
      BY <3>1
    <3>2. CASE journals'[o] # journals[o]
      <4>1. w.store = "journals" /\ w.key = o /\ w.val = journals'[o]
        BY <1>1, <3>2, Effect
      <4>2. journals[o].kind \in Built \/ Live(o)
        BY <1>1, <4>1 DEF HistoryInv, OpensLive
      <4> QED BY <2>1, <4>2 DEF StoresInv, LiveNotRecorded
    <3> QED BY <3>1, <3>2
  <2>2. CASE Builds(o, "recorded")
    BY <2>2 DEF HonestInv, Honest, SettledWhileOpen
  <2> QED BY <1>5, <2>1, <2>2
<1>7. PICK e \in Env : journals[o].env = e
  BY <1>6, JournalFields
<1>8. journals'[o].env = e
  <2>1. journals[o].kind \in Kinds /\ c.store # "ledger"
    BY <1>2, <1>6 DEF Built, CoreTransactions, Kinds
  <2> QED BY <1>1, <1>2, <1>7, <2>1, KeptLands
<1>9. Builds(o, "absent") \/ (PointsTo(e, o) /\ Stays(e, o))
  BY <1>1, <1>5, <1>6, <1>7 DEF HistoryInv, ClosedIsCommitted
<1>10. CASE Builds(o, "absent")
  <2>1. PICK b \in Waiting : b.store = "generations" /\ b.key = o /\ b.val = "absent"
    BY <1>10 DEF Builds
  <2>2. b # w
    BY <1>1, <1>4, <2>1 DEF Lands
  <2>3. b \in Waiting'
    BY <1>1, <2>1, <2>2 DEF Lands
  <2> QED BY <2>1, <2>3 DEF Builds
<1>11. CASE PointsTo(e, o) /\ Stays(e, o)
  <2>1. PointsTo(e, o)' /\ Stays(e, o)'
    BY <1>1, <1>11, PointerLands, SoonLands DEF AttendedInv
  <2> QED BY <1>8, <2>1 DEF PointsTo, Stays
<1> QED BY <1>9, <1>10, <1>11

LEMMA HistoryPersist ==
  ASSUME TypeOK, StoresInv, AttendedInv, HonestInv, HistoryInv, Persist PROVE HistoryInv'
<1>1. Lands(Head(todo))
  BY Landing DEF StoresInv
<1>2. MovesOnce'
  BY <1>1, MovesLand DEF HistoryInv
<1>3. CreatingIsEmpty' /\ ChangesPresent' /\ CreatedFirst'
  BY <1>1, PresenceLands, CreationLands
<1>4. RecordedKnown' /\ OpensLive' /\ SettledIsPointed' /\ ClosedIsCommitted'
  BY <1>1, RecordedLands, SettledLands, ClosingLands
<1> QED BY <1>2, <1>3, <1>4 DEF HistoryInv

LEMMA HistoryLost ==
  ASSUME TypeOK, StoresInv, HonestInv, HistoryInv, Crash \/ FinishClose PROVE HistoryInv'
<1>1. UNCHANGED << environments, operations, journals, generations >> /\ todo' = <<>>
  BY DEF Crash, FinishClose, LoseMemory, Run, durable
<1>2. Waiting' = {}
  BY <1>1, FewWrites DEF Waiting
<1>3. \A o \in Op : ~Closes(o)'
  BY <1>2 DEF Closes
<1>4. MovesOnce' /\ CreatingIsEmpty' /\ OpensLive' /\ ClosedIsCommitted'
  BY <1>1, <1>2, <1>3
     DEF HistoryInv, MovesOnce, CreatingIsEmpty, OpensLive, ClosedIsCommitted
<1>5. SettledIsPointed' /\ RecordedKnown'
  BY <1>1 DEF HistoryInv, SettledIsPointed, RecordedKnown, OpenJournal, Known
<1>6. ChangesPresent'
  <2>1. \A k, e : \A o \in Op : Keeps(o, k, e)' => Keeps(o, k, e)
    BY <1>1, <1>2 DEF Keeps
  <2> QED BY <1>1, <2>1 DEF HistoryInv, ChangesPresent
<1>7. CreatedFirst'
  <2> SUFFICES ASSUME NEW o \in Op, NEW q \in Op, NEW e \in Env,
                      Belongs(o, "create", e)', PointsTo(e, q)'
               PROVE  generations[o] = "recorded"
    BY <1>1 DEF CreatedFirst
  <2>1. Belongs(o, "create", e) /\ PointsTo(e, q) /\ environments[e].gen = q
    BY <1>1, <1>2 DEF Belongs, PointsTo
  <2>2. generations[o] = "recorded" \/ RecordsFirst(o)
    BY <2>1 DEF HistoryInv, CreatedFirst
  <2>3. CASE RecordsFirst(o)
    <3>1. Builds(o, "recorded")
      <4>1. /\ PutGeneration(o, "recorded").store = "generations"
            /\ PutGeneration(o, "recorded").key = o /\ PutGeneration(o, "recorded").val = "recorded"
        BY GenerationFields
      <4>2. PutGeneration(o, "recorded") \in Waiting
        <5>1. todo \in Script
          BY DEF TypeOK, Script
        <5> QED BY <2>3, <5>1, HeadAndRest DEF RecordsFirst, Waiting
      <4> QED BY <4>1, <4>2 DEF Builds
    <3>2. journals[o].kind \in Built
      BY <3>1 DEF HonestInv, Honest, SettledWhileOpen
    <3>3. journals[o].kind \in Kinds /\ journals[o].env \in Env /\ "create" \in Kinds
      BY <3>2, JournalFields DEF Built, CoreTransactions, Kinds
    <3>4. Keeps(o, journals[o].kind, journals[o].env)
      BY DEF Keeps
    <3>5. journals[o].kind = "create" /\ journals[o].env = e
      BY <2>1, <3>3, <3>4 DEF StoresInv, OneHome, Claims
    <3>6. q = o
      BY <2>1, <3>3, <3>4, <3>5 DEF StoresInv, CreatedAlone
    <3> QED BY <2>1, <3>6, NoneAssumption DEF StoresInv, PointerIntact
  <2> QED BY <2>2, <2>3
<1> QED BY <1>4, <1>5, <1>6, <1>7 DEF HistoryInv

LEMMA HistoryModeStep ==
  ASSUME HistoryInv,
         Boot \/ BeginClose \/ ChangesRecovered \/ CoreRecovered
         \/ (\E o \in Op : Spawn(o)) \/ (\E p \in Alive : ProcessDies(p))
         \/ UNCHANGED vars
  PROVE  HistoryInv'
<1>1. UNCHANGED << environments, operations, journals, generations, todo, controllers >>
  BY DEF Stores, Boot, BeginClose, ChangesRecovered, CoreRecovered, Spawn,
         ProcessDies, durable, files, volatile, vars
<1>2. Waiting' = Waiting /\ \A o \in Op : (Closes(o)' <=> Closes(o)) /\ (Live(o)' <=> Live(o))
  BY <1>1 DEF Waiting, Closes, Live
<1>3. MovesOnce'
  <2> SUFFICES ASSUME NEW w \in Waiting, w.store = "environments"
               PROVE  (Keeping(w) \/ (Moving(w) /\ Alone(w)))'
    BY <1>2 DEF MovesOnce
  <2>1. CASE Keeping(w)
    BY <1>1, <2>1 DEF Keeping
  <2>2. CASE Moving(w) /\ Alone(w)
    <3>1. \A o \in Op : \A e : Keeps(o, "restore", e)' <=> Keeps(o, "restore", e)
      BY <1>1, <1>2 DEF Keeps
    <3> QED BY <1>1, <1>2, <2>2, <3>1 DEF Moving, Alone
  <2> QED BY <2>1, <2>2 DEF HistoryInv, MovesOnce
<1>4. CreatingIsEmpty' /\ SettledIsPointed' /\ RecordedKnown'
  BY <1>1, <1>2
     DEF HistoryInv, CreatingIsEmpty, SettledIsPointed, RecordedKnown, OpenJournal, Known
<1>5. CreatedFirst' /\ ChangesPresent'
  BY <1>1, <1>2
     DEF HistoryInv, CreatedFirst, ChangesPresent, Belongs, PointsTo, RecordsFirst, Keeps
<1>6. OpensLive'
  <2>1. \A w \in Waiting : Live(w.key) => Live(w.key)'
    BY <1>1, <1>2 DEF Live
  <2> QED BY <1>1, <1>2, <2>1 DEF HistoryInv, OpensLive
<1>7. ClosedIsCommitted'
  <2> SUFFICES ASSUME NEW o \in Op, Closes(o), journals[o].kind \in Built,
                      generations[o] = "recorded" \/ Builds(o, "recorded")
               PROVE  Builds(o, "absent")'
                      \/ (PointsTo(journals[o].env, o) /\ Stays(journals[o].env, o))'
    BY <1>1, <1>2 DEF ClosedIsCommitted, Builds
  <2>1. Builds(o, "absent") \/ (PointsTo(journals[o].env, o) /\ Stays(journals[o].env, o))
    BY DEF HistoryInv, ClosedIsCommitted
  <2> QED BY <1>1, <1>2, <2>1 DEF Builds, PointsTo, Stays
<1> QED BY <1>3, <1>4, <1>5, <1>6, <1>7 DEF HistoryInv

\* The write moves no pointer, opens no journal and begins no creation.
Tame(w) ==
  /\ w.store = "environments" => Keeping(w) /\ (w.val.state = "creating" => w.val.gen = None)
  /\ w.store = "journals" /\ w.val.kind # "none" =>
       journals[w.key].kind = w.val.kind /\ journals[w.key].env = w.val.env
  /\ w.store = "operations" /\ w.val.kind = "create" =>
       operations[w.key].kind = "create" /\ operations[w.key].env = w.val.env

\* A block that moves no pointer and closes a journal only where the pointer is
\* right or the generation is removed.
LEMMA HistoryTame ==
  ASSUME TypeOK, StoresInv, HistoryInv, Opened, \A w \in Waiting' : Tame(w),
         \A o \in Op :
           Closes(o)' /\ journals[o].kind \in Built
             /\ (generations[o] = "recorded" \/ Builds(o, "recorded")')
             => Builds(o, "absent")' \/ environments[journals[o].env].gen = o
  PROVE  HistoryInv'
<1>1. /\ UNCHANGED << environments, operations, journals, generations >> /\ Waiting = {}
      /\ todo = <<>>
  BY NothingWaits DEF Opened, Stores
<1>2. \A w \in Waiting' : w.store = "environments" => Keeping(w)
  BY DEF Tame
<1>3. MovesOnce' /\ CreatingIsEmpty'
  <2>1. MovesOnce'
    BY <1>1, <1>2 DEF MovesOnce, Keeping
  <2>2. CreatingIsEmpty'
    BY <1>1 DEF HistoryInv, CreatingIsEmpty, Tame
  <2> QED BY <2>1, <2>2
<1>4. SettledIsPointed' /\ RecordedKnown'
  BY <1>1 DEF HistoryInv, SettledIsPointed, RecordedKnown, OpenJournal, Known
<1>5. CreatedFirst'
  <2> SUFFICES ASSUME NEW o \in Op, NEW q \in Op, NEW e \in Env,
                      Belongs(o, "create", e)', PointsTo(e, q)'
               PROVE  generations[o] = "recorded"
    BY <1>1 DEF CreatedFirst
  <2>1. Belongs(o, "create", e)
    BY <1>1 DEF Belongs, Tame
  <2>2. PointsTo(e, q)
    BY <1>1, <1>2 DEF PointsTo, Keeping
  <2>3. ~RecordsFirst(o)
    BY <1>1 DEF RecordsFirst
  <2> QED BY <2>1, <2>2, <2>3 DEF HistoryInv, CreatedFirst
<1>6. ChangesPresent'
  <2>1. \A k \in {"switch", "apply"} : \A e : \A o \in Op : Keeps(o, k, e)' => Keeps(o, k, e)
    BY <1>1 DEF Keeps, Tame
  <2> QED BY <1>1, <2>1 DEF HistoryInv, ChangesPresent
<1>7. OpensLive'
  <2>1. "none" \notin Built
    BY DEF Built, CoreTransactions
  <2> QED BY <1>1, <2>1 DEF OpensLive, Tame
<1>8. ClosedIsCommitted'
  <2> SUFFICES ASSUME NEW o \in Op, Closes(o)', journals[o].kind \in Built,
                      generations[o] = "recorded" \/ Builds(o, "recorded")',
                      environments[journals[o].env].gen = o
               PROVE  (PointsTo(journals[o].env, o) /\ Stays(journals[o].env, o))'
    BY <1>1 DEF ClosedIsCommitted, Builds
  <2>1. \A w \in Waiting' : w.store = "environments" /\ w.key = journals[o].env => w.val.gen = o
    BY <1>2 DEF Keeping
  <2> QED BY <1>1, <2>1 DEF PointsTo, Stays
<1> QED BY <1>3, <1>4, <1>5, <1>6, <1>7, <1>8 DEF HistoryInv

LEMMA RevisionFields ==
  ASSUME TypeOK, NEW e \in Env, NEW g
  PROVE  /\ PutEnvironment(e, Errored(e)).val.revision = environments[e].revision
         /\ PutEnvironment(e, Committing(e, g)).val.revision = environments[e].revision + 1
<1>1. environments[e] \in EnvironmentRecord
  BY DEF TypeOK
<1> QED BY <1>1 DEF EnvironmentRecord, PutEnvironment, Errored, Committing, Write

\* An environment without a pointer is marked, which moves nothing.
LEMMA ErroredTame ==
  ASSUME TypeOK, NEW e \in Env, environments[e].gen = None
  PROVE  Tame(PutEnvironment(e, Errored(e)))
  BY EnvironmentFields, RevisionFields DEF Tame, Keeping

LEMMA CalmTame ==
  ASSUME TypeOK
  PROVE  /\ \A e \in Env : \A s : s # "creating" => Tame(PutState(e, s))
         /\ \A o \in Op : \A s : Tame(Ended(o, s))
<1>1. \A e \in Env : \A s : s # "creating" => Tame(PutState(e, s))
  BY StateFields DEF Tame, Keeping
<1>2. \A o \in Op : \A s : Tame(Ended(o, s))
  BY EndedFields DEF Tame
<1> QED BY <1>1, <1>2

\* A block that neither moves a pointer nor closes a transaction.
LEMMA HistoryLight ==
  ASSUME TypeOK, StoresInv, HistoryInv, Opened, \A w \in Waiting' : Tame(w),
         \A o \in Op : Closes(o)' => journals[o].kind \notin Built
  PROVE  HistoryInv'
  BY HistoryTame

LEMMA HistoryGivesUp ==
  ASSUME TypeOK, StoresInv, HistoryInv, Opened, NEW o \in Op, journals[o].kind \in Built,
         \A e \in Env : environments[e].gen # o,
         Waiting' \subseteq GivingUp(o), PutGeneration(o, "absent") \in Waiting'
  PROVE  HistoryInv'
<1>1. Builds(o, "absent")'
  BY GenerationFields DEF Builds
<1>2. \A w \in Waiting' : Tame(w) /\ (w.store = "journals" => w.key = o)
  <2> SUFFICES ASSUME NEW w \in Waiting' PROVE Tame(w) /\ (w.store = "journals" => w.key = o)
    OBVIOUS
  <2>1. /\ w.store \in {"operations", "journals", "generations"} => w.key = o
        /\ w.store = "journals" => w.val.kind = "none"
    BY GivingUpFields
  <2>2. CASE w \in Erring(o)
    <3>1. journals[o].kind = "create" /\ w = PutEnvironment(journals[o].env, Errored(journals[o].env))
      BY <2>2 DEF Erring
    <3>2. PICK e \in Env : e = journals[o].env
      BY JournalFields
    <3>3. ASSUME NEW q \in Op, environments[e].gen = q PROVE FALSE
      <4>1. Keeps(o, "create", e) /\ PointsTo(e, q) /\ "create" \in Kinds
        BY <3>1, <3>2, <3>3 DEF Keeps, PointsTo, Kinds
      <4>2. q = o
        BY <4>1 DEF StoresInv, CreatedAlone
      <4> QED BY <3>3, <4>2
    <3>4. environments[e].gen = None
      BY <3>3 DEF TypeOK, EnvironmentRecord
    <3> QED BY <2>1, <3>1, <3>2, <3>4, ErroredTame
  <2>3. CASE w \in Settling(o, "failed")
    BY <2>1, <2>3, CalmTame DEF Settling
  <2>4. CASE w.store \in {"ledger", "generations", "journals"}
    BY <2>1, <2>4 DEF Tame
  <2>5. /\ \A v \in Repairing(o) : v.store = "ledger"
        /\ \A s : PutGeneration(o, s).store = "generations" /\ Removed(o).store = "journals"
    BY DEF Repairing, PutLedger, PutGeneration, Removed, PutJournal, Write
  <2> QED BY <2>2, <2>3, <2>4, <2>5 DEF GivingUp
<1>3. \A q \in Op : Closes(q)' => q = o
  BY <1>2 DEF Closes
<1> QED BY <1>1, <1>2, <1>3, HistoryTame

LEMMA HistoryFinishes ==
  ASSUME TypeOK, StoresInv, HistoryInv, Opened, NEW o \in Op, journals[o].kind \in Built,
         environments[journals[o].env].gen = o, Waiting' \subseteq Finishing(o)
  PROVE  HistoryInv'
<1>1. \A w \in Waiting' : Tame(w) /\ (w.store = "journals" => w.key = o)
  <2> SUFFICES ASSUME NEW w \in Waiting' PROVE Tame(w) /\ (w.store = "journals" => w.key = o)
    OBVIOUS
  <2>1. /\ w.store \in {"operations", "journals"} => w.key = o
        /\ w.store # "environments"
        /\ w.store = "journals" => w.val.kind = "none"
    BY FinishingFields
  <2>2. CASE w.store = "operations"
    <3>1. w = Ended(o, "succeeded")
      BY <2>2 DEF Finishing, Repairing, Consuming, Removed, PutLedger, PutPlan, PutJournal, Write
    <3> QED BY <2>1, <2>2, <3>1, CalmTame
  <2>3. CASE w.store # "operations"
    BY <2>1, <2>3 DEF Tame
  <2> QED BY <2>2, <2>3
<1>2. \A q \in Op : Closes(q)' => q = o
  BY <1>1 DEF Closes
<1> QED BY <1>1, <1>2, HistoryTame

\* The pointer is about to move to the generation of o.
LEMMA HistoryCommits ==
  ASSUME TypeOK, StoresInv, HistoryInv, Opened, NEW o \in Op, journals[o].kind \in Built,
         controllers[o], Waiting' \subseteq Completing(o), CommitSet(o) \subseteq Waiting',
         RecordsFirst(o)'
  PROVE  HistoryInv'
<1>1. /\ UNCHANGED << environments, operations, journals, generations >> /\ Waiting = {}
      /\ todo = <<>>
  BY NothingWaits DEF Opened, Stores
<1>2. PICK e \in Env : e = journals[o].env
  BY JournalFields
<1> DEFINE moved == PutEnvironment(e, Committing(e, o))
<1>3. /\ moved.store = "environments" /\ moved.key = e /\ moved.val.gen = o
      /\ moved.val.state = "stopped" /\ moved.val.revision = environments[e].revision + 1
  BY EnvironmentFields, RevisionFields
<1>4. moved \in Waiting'
  BY <1>2 DEF CommitSet
<1>5. \A w \in Waiting' :
        /\ w.store = "environments" => w = moved
        /\ w.store = "operations" =>
             w.key = o /\ w.val.kind = operations[o].kind /\ w.val.env = operations[o].env
        /\ w.store = "journals" =>
             /\ w.key = o
             /\ w.val.kind = "none"
                \/ (w.val.kind = journals[o].kind /\ w.val.env = journals[o].env)
  <2> SUFFICES ASSUME NEW w \in Waiting'
               PROVE  /\ w.store = "environments" => w = moved
                      /\ w.store = "operations" =>
                           w.key = o /\ w.val.kind = operations[o].kind
                           /\ w.val.env = operations[o].env
                      /\ w.store = "journals" =>
                           /\ w.key = o
                           /\ w.val.kind = "none"
                              \/ (w.val.kind = journals[o].kind /\ w.val.env = journals[o].env)
    OBVIOUS
  <2>1. /\ w.store \in {"operations", "journals"} => w.key = o
        /\ w.store = "journals" =>
             \/ w.val.kind = "none"
             \/ w.val.kind = journals[o].kind /\ w.val.env = journals[o].env
    BY CompletingFields
  <2>2. w.store = "operations" => w = Ended(o, "succeeded")
    BY DEF Completing, CommitSet, Settling, Repairing, Removed, MarkedCommitted, PutLedger,
           PutPlan, PutJournal, PutGeneration, PutEnvironment, Write
  <2>3. w.store = "environments" => w = moved
    BY <1>2, EndedFields
       DEF Completing, CommitSet, Settling, Repairing, Removed, MarkedCommitted, PutLedger,
           PutPlan, PutJournal, PutGeneration, Write
  <2> QED BY <2>1, <2>2, <2>3, EndedFields
<1> HIDE DEF moved
<1>6. environments[e].gen # o
  BY <1>1, TransactionFacts
<1>7. MovesOnce' /\ CreatingIsEmpty'
  <2>1. ASSUME NEW w \in Waiting', w.store = "environments"
        PROVE  (Moving(w) /\ Alone(w))'
    <3>1. /\ w.key = e /\ w.val.gen = o /\ w.val.revision = environments[e].revision + 1
          /\ \A v \in Waiting' : v.store = "environments" => v = w
      BY <1>3, <1>5, <2>1
    <3> QED BY <1>1, <1>2, <1>6, <3>1 DEF Moving, Alone
  <2>2. MovesOnce'
    BY <2>1 DEF MovesOnce
  <2>3. CreatingIsEmpty'
    BY <1>1, <1>3, <1>5 DEF HistoryInv, CreatingIsEmpty
  <2> QED BY <2>2, <2>3
<1>8. SettledIsPointed' /\ RecordedKnown'
  BY <1>1 DEF HistoryInv, SettledIsPointed, RecordedKnown, OpenJournal, Known
<1>9. CreatedFirst'
  <2> SUFFICES ASSUME NEW c \in Op, NEW q \in Op, NEW f \in Env,
                      Belongs(c, "create", f)', PointsTo(f, q)'
               PROVE  generations[c] = "recorded" \/ RecordsFirst(c)'
    BY <1>1 DEF CreatedFirst
  <2>1. Belongs(c, "create", f)
    BY <1>1, <1>5 DEF Belongs
  <2>2. \A p \in Op : PointsTo(f, p) => generations[c] = "recorded"
    BY <1>1, <2>1 DEF HistoryInv, CreatedFirst, RecordsFirst
  <2>3. PointsTo(f, q) \/ f = e
    BY <1>1, <1>3, <1>5 DEF PointsTo
  <2>4. CASE f = e /\ journals[o].kind = "create"
    <3>1. Keeps(o, "create", e) /\ Claims(c, "create", e) /\ "create" \in Kinds
      BY <1>2, <2>1, <2>4 DEF Keeps, Claims, Kinds
    <3> QED BY <3>1 DEF StoresInv, CreatedAlone
  <2>5. CASE f = e /\ journals[o].kind # "create"
    <3>1. journals[o].kind \in {"switch", "apply"} /\ Keeps(o, journals[o].kind, e)
      BY <1>2, <2>5 DEF Keeps, Built, CoreTransactions
    <3>2. environments[e].gen # None
      BY <3>1 DEF HistoryInv, ChangesPresent
    <3>3. environments[e].gen \in Op /\ PointsTo(e, environments[e].gen)
      BY <3>2 DEF TypeOK, EnvironmentRecord, PointsTo
    <3> QED BY <2>2, <2>5, <3>3
  <2> QED BY <2>2, <2>3, <2>4, <2>5
<1>10. ChangesPresent' /\ OpensLive'
  <2>1. \A q \in Op, k \in {"switch", "apply"}, f \in Env : Keeps(q, k, f)' => Keeps(q, k, f)
    BY <1>1, <1>5 DEF Keeps
  <2>2. "none" \notin Built
    BY DEF Built, CoreTransactions
  <2>3. ChangesPresent'
    BY <1>1, <2>1 DEF HistoryInv, ChangesPresent
  <2>4. OpensLive'
    BY <1>1, <1>5, <2>2 DEF OpensLive
  <2> QED BY <2>3, <2>4
<1>11. ClosedIsCommitted'
  <2>1. \A q \in Op : Closes(q)' => q = o
    BY <1>5 DEF Closes
  <2>2. PointsTo(e, o)' /\ Stays(e, o)'
    BY <1>3, <1>4, <1>5 DEF PointsTo, Stays
  <2> QED BY <1>1, <1>2, <2>1, <2>2 DEF ClosedIsCommitted, PointsTo, Stays
<1> QED BY <1>7, <1>8, <1>9, <1>10, <1>11 DEF HistoryInv

\* A request that builds a generation.
LEMMA HistoryBuild ==
  ASSUME TypeOK, StoresInv, HistoryInv, Opened, UNCHANGED controllers, NEW o \in Op, NEW e \in Env,
         NEW k \in Built, NEW p, k = "create" <=> environments[e].gen = None,
         NEW E, Waiting' = Answering(o, k) \cup Building(o, k, e, p) \cup E,
         \A w \in E : w.store = "environments" /\ Tame(w)
  PROVE  HistoryInv'
<1>1. /\ UNCHANGED << environments, operations, journals, generations >> /\ Waiting = {}
      /\ todo = <<>>
  BY NothingWaits DEF Opened, Stores
<1>2. \A w \in Waiting' :
        /\ w.store = "operations" => w.key = o /\ w.val.kind = k /\ w.val.env = e
        /\ w.store = "journals" => w.key = o /\ w.val.kind = k /\ w.val.env = e
        /\ w.store = "environments" => Keeping(w) /\ Tame(w)
  <2>1. \A w \in Answering(o, k) : w.store = "ledger"
    BY AnswerFields
  <2>2. \A w \in Building(o, k, e, p) :
          /\ w.store = "operations" => w.key = o /\ w.val.kind = k /\ w.val.env = e
          /\ w.store = "journals" => w.key = o /\ w.val.kind = k /\ w.val.env = e
          /\ w.store # "environments"
    BY BuildingFields
  <2> QED BY <2>1, <2>2 DEF Tame
<1>3. k # "none" /\ Live(o)'
  <2>1. Register(o) \in Waiting'
    BY DEF Building
  <2> QED BY <2>1 DEF Live, Register, Write, Built, CoreTransactions
<1>4. MovesOnce' /\ CreatingIsEmpty'
  <2>1. MovesOnce'
    BY <1>1, <1>2 DEF MovesOnce, Keeping
  <2>2. CreatingIsEmpty'
    BY <1>1, <1>2 DEF HistoryInv, CreatingIsEmpty, Tame
  <2> QED BY <2>1, <2>2
<1>5. SettledIsPointed' /\ RecordedKnown'
  BY <1>1 DEF HistoryInv, SettledIsPointed, RecordedKnown, OpenJournal, Known
<1>6. CreatedFirst'
  <2> SUFFICES ASSUME NEW c \in Op, NEW q \in Op, NEW f \in Env,
                      Belongs(c, "create", f)', PointsTo(f, q)'
               PROVE  generations[c] = "recorded"
    BY <1>1 DEF CreatedFirst
  <2>1. environments[f].gen = q
    BY <1>1, <1>2 DEF PointsTo, Keeping
  <2>2. Belongs(c, "create", f)
    BY <1>1, <1>2, <2>1, NoneAssumption DEF Belongs
  <2> QED BY <1>1, <2>1, <2>2 DEF HistoryInv, CreatedFirst, RecordsFirst, PointsTo
<1>7. ChangesPresent'
  <2>1. \A q \in Op, l \in {"switch", "apply"}, f \in Env :
          Keeps(q, l, f)' => Keeps(q, l, f) \/ (l = k /\ f = e)
    BY <1>1, <1>2 DEF Keeps
  <2> QED BY <1>1, <2>1 DEF HistoryInv, ChangesPresent
<1>8. OpensLive' /\ ClosedIsCommitted'
  <2>1. \A q \in Op : ~Closes(q)'
    BY <1>2, <1>3 DEF Closes
  <2>2. OpensLive'
    BY <1>2, <1>3 DEF OpensLive, Live
  <2> QED BY <2>1, <2>2 DEF ClosedIsCommitted
<1> QED BY <1>4, <1>5, <1>6, <1>7, <1>8 DEF HistoryInv

LEMMA HistoryBuildRequests ==
  ASSUME TypeOK, TypeOK', StoresInv, HistoryInv, NEW o \in Op, NEW e \in Env,
         \/ CreateEnvironment(o, e) \/ SwitchCombination(o, e)
         \/ \E p \in Plan : ApplyChange(o, e, p)
  PROVE  HistoryInv'
<1>1. todo = <<>> /\ UNCHANGED << durable, controllers >>
  BY DEF CreateEnvironment, SwitchCombination, ApplyChange, MaySwitch, Idle
<1>2. Opened
  BY <1>1, OpenedBlock
<1>3. "create" \in Built /\ "switch" \in Built /\ "apply" \in Built
  BY DEF Built, CoreTransactions
<1>4. CASE CreateEnvironment(o, e)
  <2> DEFINE put == PutEnvironment(e, [NoEnvironment EXCEPT !.state = "creating"])
             E == {put}
  <2>1. environments[e].state = "absent" /\ environments[e].gen = None
    BY <1>4 DEF CreateEnvironment, StoresInv, Present, Unused
  <2>2. environments[e].revision = 0
    BY <2>1 DEF HistoryInv, CreatingIsEmpty
  <2>3. /\ put.store = "environments" /\ put.key = e /\ put.val.gen = None
        /\ put.val.revision = 0
    BY DEF PutEnvironment, Write, NoEnvironment
  <2>4. Waiting' = Answering(o, "create") \cup Building(o, "create", e, None) \cup E
    BY <1>4, CreateWaits
  <2> HIDE DEF put
  <2>5. \A w \in E : w.store = "environments" /\ Tame(w)
    BY <2>1, <2>2, <2>3 DEF Tame, Keeping
  <2> HIDE DEF E, HistoryInv
  <2> QED BY <1>1, <1>2, <1>3, <2>1, <2>4, <2>5, HistoryBuild
<1>5. CASE SwitchCombination(o, e)
  <2> DEFINE E == {}
  <2>1. Waiting' = Answering(o, "switch") \cup Building(o, "switch", e, None) \cup E
    BY <1>5, SwitchWaits
  <2>2. environments[e].gen # None /\ \A w \in E : FALSE
    BY <1>5 DEF SwitchCombination, MaySwitch
  <2> HIDE DEF E, HistoryInv
  <2> QED BY <1>1, <1>2, <1>3, <2>1, <2>2, HistoryBuild
<1>6. ASSUME NEW p \in Plan, ApplyChange(o, e, p) PROVE HistoryInv'
  <2> DEFINE E == {}
  <2>1. Waiting' = Answering(o, "apply") \cup Building(o, "apply", e, p) \cup E
    BY <1>6, ApplyWaits
  <2>2. environments[e].gen # None /\ \A w \in E : FALSE
    BY <1>6 DEF ApplyChange
  <2> HIDE DEF E, HistoryInv
  <2> QED BY <1>1, <1>2, <1>3, <2>1, <2>2, HistoryBuild
<1> QED BY <1>4, <1>5, <1>6

\* A pointer is about to move back to a generation committed before.
LEMMA HistoryRestore ==
  ASSUME TypeOK, TypeOK', StoresInv, HistoryInv, NEW o \in Op, NEW e \in Env, NEW g \in Op,
         RestoreGeneration(o, e, g)
  PROVE  HistoryInv'
<1>1. /\ mode = "ready" /\ todo = <<>> /\ UNCHANGED << durable, controllers >>
      /\ ledger[o].state = "none" /\ generations[g] = "recorded" /\ operations[g].env = e
      /\ environments[e].gen # g
  BY DEF RestoreGeneration, NewRequest, Idle
<1>2. /\ UNCHANGED << environments, operations, journals, generations >> /\ Waiting = {}
      /\ Serving
  BY <1>1, NothingWaits DEF durable, Serving
<1> DEFINE j == [kind |-> "restore", env |-> e, gen |-> g, plan |-> None, phase |-> "committed"]
           moved == PutEnvironment(e, [environments[e] EXCEPT !.gen = g, !.revision = @ + 1])
<1>3. /\ moved.store = "environments" /\ moved.key = e /\ moved.val.gen = g
      /\ moved.val.revision = environments[e].revision + 1
      /\ moved.val.state = environments[e].state
  <2>1. environments[e] \in EnvironmentRecord
    BY DEF TypeOK
  <2> QED BY <2>1 DEF PutEnvironment, Write, EnvironmentRecord
<1>4. environments[e].gen # None
  <2>1. ASSUME OpenJournal(g) PROVE FALSE
    <3>1. journals[g].kind \in Kinds /\ journals[g].env \in Env
      <4>1. journals[g] \in JournalRecord
        BY DEF TypeOK
      <4> QED BY <2>1, <4>1 DEF OpenJournal, JournalRecord, NoJournal, Kinds, CoreTransactions
    <3>2. Keeps(g, journals[g].kind, journals[g].env)
      BY DEF Keeps
    <3>3. Live(g)
      BY <1>2, <3>1, <3>2 DEF StoresInv, JournalIsLive, Closes
    <3> QED BY <1>1, <3>3 DEF StoresInv, LiveNotRecorded
  <2> QED BY <1>1, <2>1 DEF HistoryInv, SettledIsPointed
<1>5. Waiting' = Answering(o, "restore") \cup Restoring(o, e, g)
  BY RestoreWaits
<1>6. /\ PutJournal(o, j) \in Waiting' /\ PutJournal(o, j).store = "journals"
      /\ PutJournal(o, j).key = o /\ PutJournal(o, j).val.kind = "restore"
      /\ PutJournal(o, j).val.env = e
  BY <1>5 DEF Restoring, PutJournal, Write
<1>7. \A w \in Waiting' :
        \/ w.store = "ledger"
        \/ w = moved
        \/ w.store = "operations" /\ w.val.kind = "restore"
        \/ w.store = "journals" /\ w.key = o /\ w.val.kind \in {"restore", "none"}
  <2>1. \A w \in Answering(o, "restore") : w.store = "ledger"
    BY AnswerFields
  <2>2. \A r : PutJournal(o, r).store = "journals" /\ PutJournal(o, r).key = o
               /\ PutJournal(o, r).val = r
    BY DEF PutJournal, Write
  <2>3. PutLedger(o, "restore", "ok").store = "ledger" /\ NoJournal.kind = "none"
    BY DEF PutLedger, Write, NoJournal
  <2> QED BY <1>5, <2>1, <2>2, <2>3, OperationFields DEF Restoring
<1>8. Keeps(o, "restore", e)'
  BY <1>6 DEF Keeps
<1> HIDE DEF moved, j
<1>9. \A w \in Waiting' :
        /\ w.store = "environments" =>
             /\ w.key = e /\ w.val.gen = g /\ w.val.revision = environments[e].revision + 1
             /\ w.val.state = environments[e].state
             /\ \A v \in Waiting' : v.store = "environments" => v = w
        /\ w.store = "operations" => w.val.kind = "restore"
        /\ w.store = "journals" => w.key = o /\ w.val.kind \in {"restore", "none"}
  BY <1>3, <1>7
<1>10. environments[e].gen \in Op /\ PointsTo(e, environments[e].gen)
       /\ environments[e].state # "creating"
  BY <1>4 DEF TypeOK, EnvironmentRecord, PointsTo, HistoryInv, CreatingIsEmpty
<1>11. MovesOnce' /\ CreatingIsEmpty'
  <2>1. ASSUME NEW w \in Waiting', w.store = "environments"
        PROVE  (Moving(w) /\ Alone(w))'
    BY <1>1, <1>2, <1>8, <1>9, <2>1 DEF Moving, Alone
  <2>2. CreatingIsEmpty'
    BY <1>2, <1>9, <1>10 DEF HistoryInv, CreatingIsEmpty
  <2> QED BY <2>1, <2>2 DEF MovesOnce
<1>12. SettledIsPointed' /\ RecordedKnown'
  BY <1>2 DEF HistoryInv, SettledIsPointed, RecordedKnown, OpenJournal, Known
<1>13. CreatedFirst'
  <2> SUFFICES ASSUME NEW c \in Op, NEW q \in Op, NEW f \in Env,
                      Belongs(c, "create", f)', PointsTo(f, q)'
               PROVE  generations[c] = "recorded"
    BY <1>2 DEF CreatedFirst
  <2>1. Belongs(c, "create", f)
    BY <1>2, <1>9 DEF Belongs
  <2>2. PointsTo(f, q) \/ f = e
    BY <1>2, <1>9 DEF PointsTo
  <2>3. \E r \in Op : PointsTo(f, r)
    BY <1>10, <2>2
  <2> QED BY <1>1, <2>1, <2>3 DEF HistoryInv, CreatedFirst, RecordsFirst
<1>14. ChangesPresent' /\ OpensLive'
  <2>1. \A q \in Op, l \in {"switch", "apply"}, f \in Env : Keeps(q, l, f)' => Keeps(q, l, f)
    BY <1>2, <1>9 DEF Keeps
  <2>2. ChangesPresent'
    BY <1>2, <2>1 DEF HistoryInv, ChangesPresent
  <2>3. OpensLive'
    BY <1>9 DEF OpensLive, Built, CoreTransactions
  <2> QED BY <2>2, <2>3
<1>15. ClosedIsCommitted'
  <2>1. \A q \in Op : Closes(q)' => q = o
    BY <1>9 DEF Closes
  <2>2. journals[o].kind \notin Built
    BY <1>1 DEF StoresInv, Fresh, Blank, Built, CoreTransactions, Kinds
  <2> QED BY <1>2, <2>1, <2>2 DEF ClosedIsCommitted
<1> QED BY <1>11, <1>12, <1>13, <1>14, <1>15 DEF HistoryInv

\* The steps of the tasks and the recovery of transactions.
LEMMA HistoryInstallReturns ==
  ASSUME TypeOK, TypeOK', StoresInv, HistoryInv, NEW o \in Op, InstallReturns(o)
  PROVE  HistoryInv'
<1>1. /\ Opened /\ todo = <<>> /\ journals[o].kind \in CoreTransactions /\ controllers[o]
      /\ (todo' = CommitScript(o) \/ todo' = UndoScript(o, <<>>))
  BY OpenedBlock DEF InstallReturns, TaskReturns, Run
<1>2. journals[o].kind \in Built
  BY <1>1 DEF Built
<1>3. CASE todo' = CommitScript(o)
  <2>1. Waiting' = CommitSet(o)
    BY <1>1, <1>3, CommitWaits DEF Waiting
  <2>2. RecordsFirst(o)'
    BY <1>1, <1>3, CommitOrderly DEF RecordsFirst, PutGeneration
  <2> QED BY <1>1, <1>2, <2>1, <2>2, HistoryCommits DEF Completing
<1>4. CASE todo' = UndoScript(o, <<>>)
  <2>1. Waiting' = UndoSet(o)
    BY <1>1, <1>4, UndoWaits DEF Waiting
  <2>2. \A e \in Env : environments[e].gen # o
    BY <1>1, <1>2, TransactionFacts
  <2>3. PutGeneration(o, "absent") \in Waiting' /\ Waiting' \subseteq GivingUp(o)
    BY <2>1 DEF UndoSet, GivingUp
  <2> QED BY <1>1, <1>2, <2>2, <2>3, HistoryGivesUp
<1> QED BY <1>1, <1>3, <1>4

LEMMA HistoryStageReturns ==
  ASSUME TypeOK, TypeOK', StoresInv, HistoryInv, NEW o \in Op, StageReturns(o)
  PROVE  HistoryInv'
<1>1. /\ Opened /\ todo = <<>> /\ journals[o].kind = "apply" /\ controllers[o]
      /\ \/ todo' = RollbackScript(o) \/ todo' = CancelScript(o) \/ todo' = PublishScript(o)
  BY OpenedBlock DEF StageReturns, TaskReturns, Run
<1>2. journals[o].kind \in Built
  BY <1>1 DEF Built
<1>3. \A e \in Env : environments[e].gen # o
  BY <1>1, <1>2, TransactionFacts
<1>4. /\ RollbackSet(o) \subseteq GivingUp(o) /\ PutGeneration(o, "absent") \in RollbackSet(o)
      /\ CancelSet(o) \subseteq GivingUp(o) /\ PutGeneration(o, "absent") \in CancelSet(o)
      /\ PutGeneration(o, "recorded") \in GivingUp(o)
  BY DEF RollbackSet, CancelSet, GivingUp
<1>5. CASE todo' = RollbackScript(o) \/ todo' = CancelScript(o)
  <2>1. Waiting' = RollbackSet(o) \/ Waiting' = CancelSet(o)
    BY <1>5, RollbackWaits, CancelWaits DEF Waiting
  <2> QED BY <1>1, <1>2, <1>3, <1>4, <2>1, HistoryGivesUp
<1>6. CASE todo' = PublishScript(o)
  <2>1. \/ Waiting' = {PutGeneration(o, "recorded")} \cup RollbackSet(o)
        \/ Waiting' = PublishSet(o)
    BY <1>1, <1>6, PublishWaits DEF Waiting
  <2>2. CASE Waiting' = {PutGeneration(o, "recorded")} \cup RollbackSet(o)
    BY <1>1, <1>2, <1>3, <1>4, <2>2, HistoryGivesUp
  <2>3. CASE Waiting' = PublishSet(o)
    <3>1. Waiting' \subseteq Completing(o) /\ CommitSet(o) \subseteq Waiting'
      BY <1>1, <2>3 DEF PublishSet, Completing
    <3>2. RecordsFirst(o)'
      BY <1>1, <1>6, PublishOrderly DEF RecordsFirst, PutGeneration
    <3> QED BY <1>1, <1>2, <3>1, <3>2, HistoryCommits
  <2> QED BY <2>1, <2>2, <2>3
<1> QED BY <1>1, <1>5, <1>6

LEMMA HistoryRecoverJournal ==
  ASSUME TypeOK, TypeOK', StoresInv, HistoryInv, NEW o \in Op, RecoverJournal(o)
  PROVE  HistoryInv'
<1>1. /\ Opened /\ todo = <<>> /\ journals[o].kind \in CoreTransactions
  BY OpenedBlock DEF RecoverJournal, Recovering, CoreJournals
<1>2. journals[o].kind \in Built /\ journals[o].kind # "apply" /\ OpenJournal(o)
  BY <1>1 DEF Built, CoreTransactions, OpenJournal
<1>3. journals[o].gen = o
  <2>1. Names(o, journals[o].kind, journals[o].gen) /\ journals[o] \in JournalRecord
    BY DEF Names, TypeOK
  <2>2. journals[o].gen \in Op
    BY <1>1, <2>1 DEF JournalRecord, NoJournal, CoreTransactions
  <2> QED BY <1>2, <2>1, <2>2 DEF StoresInv, OwnGeneration
<1>4. CASE PointerNames(o)
  <2>1. Waiting' = FinalizeSet(o)
    BY <1>4, FinalizeWaits DEF RecoverJournal, Run, Waiting
  <2>2. Waiting' \subseteq Finishing(o)
    BY <2>1 DEF FinalizeSet, Finishing
  <2> QED BY <1>1, <1>2, <1>3, <1>4, <2>2, HistoryFinishes DEF PointerNames
<1>5. CASE ~PointerNames(o)
  <2>1. Waiting' = UndoSet(o) \cup Repairing(o)
    BY <1>1, <1>5, UndoWaits DEF RecoverJournal, Run, Waiting
  <2>2. PutGeneration(o, "absent") \in Waiting' /\ Waiting' \subseteq GivingUp(o)
    BY <2>1 DEF UndoSet, GivingUp
  <2>3. \A e \in Env : environments[e].gen # o
    BY <1>1, <1>2, <1>3, <1>5, TransactionFacts DEF PointerNames
  <2> QED BY <1>1, <1>2, <2>2, <2>3, HistoryGivesUp
<1> QED BY <1>4, <1>5

LEMMA HistoryRecoverChange ==
  ASSUME TypeOK, TypeOK', StoresInv, HistoryInv, NEW o \in Op, RecoverChange(o)
  PROVE  HistoryInv'
<1>1. /\ Opened /\ todo = <<>> /\ journals[o].kind \in ChangeTransactions
  BY OpenedBlock DEF RecoverChange, ChangeJournals
<1>2. Waiting' =
        IF environments[journals[o].env].gen = journals[o].gen
          THEN MarkSet(o) \cup Consuming(o) \cup {Removed(o)}
          ELSE IF journals[o].kind = "restore"
            THEN Settling(o, "failed") \cup Repairing(o) \cup {Removed(o)}
            ELSE RollbackSet(o)
  BY RecoverChangeWaits
<1>3. CASE journals[o].kind = "restore"
  <2>1. \A w \in Waiting' :
          \/ \E s : w = Ended(o, s)
          \/ w \in Repairing(o) \/ w = Removed(o)
    BY <1>2, <1>3 DEF MarkSet, Consuming, Settling
  <2>2. \A w \in Repairing(o) : w.store = "ledger"
    BY DEF Repairing, PutLedger, Write
  <2>3. \A w \in Waiting' : Tame(w) /\ (w.store = "journals" => w.key = o)
    <3>1. Tame(Removed(o)) /\ Removed(o).key = o
      BY RemovalFields DEF Tame, Removed
    <3>2. \A w \in Repairing(o) : Tame(w) /\ w.store # "journals"
      BY <2>2 DEF Tame
    <3>3. \A s : Tame(Ended(o, s)) /\ Ended(o, s).store # "journals"
      BY CalmTame, EndedFields
    <3> QED BY <2>1, <3>1, <3>2, <3>3
  <2>4. \A q \in Op : Closes(q)' => journals[q].kind \notin Built
    BY <1>3, <2>3 DEF Closes, Built, CoreTransactions
  <2> QED BY <1>1, <2>3, <2>4, HistoryLight
<1>4. CASE journals[o].kind = "apply"
  <2>0. journals[o].kind \in Built
    BY <1>4 DEF Built
  <2>1. journals[o].gen = o
    <3>1. Names(o, "apply", journals[o].gen) /\ journals[o].gen \in Op
      BY <1>4 DEF Names, TypeOK, JournalRecord, NoJournal, CoreTransactions
    <3> QED BY <1>4, <2>0, <3>1 DEF StoresInv, OwnGeneration
  <2>2. CASE environments[journals[o].env].gen = o
    <3>1. Waiting' = MarkSet(o) \cup Consuming(o) \cup {Removed(o)}
      BY <1>2, <2>1, <2>2
    <3>2. Waiting' \subseteq Finishing(o)
      BY <3>1 DEF MarkSet, Finishing
    <3> QED BY <1>1, <2>0, <2>2, <3>2, HistoryFinishes
  <2>3. CASE environments[journals[o].env].gen # o
    <3>1. Waiting' = RollbackSet(o)
      BY <1>2, <1>4, <2>1, <2>3
    <3>2. PutGeneration(o, "absent") \in Waiting' /\ Waiting' \subseteq GivingUp(o)
      BY <3>1 DEF RollbackSet, GivingUp
    <3>3. \A e \in Env : environments[e].gen # o
      BY <1>1, <2>0, <2>3, TransactionFacts
    <3> QED BY <1>1, <2>0, <3>2, <3>3, HistoryGivesUp
  <2> QED BY <2>2, <2>3
<1> QED BY <1>1, <1>3, <1>4 DEF ChangeTransactions

\* The marks of processes and the ends of operations.
Mark(w) ==
  \/ w.store \in {"ledger", "launches", "controllers"}
  \/ w.store = "operations" /\ w.val.kind # "create"
  \/ \E o \in Op, s \in Terminal : w = Ended(o, s)
  \/ \E e \in Env, s \in EnvironmentStates \ {"creating"} : w = PutState(e, s)

LEMMA HistoryMarks ==
  ASSUME TypeOK, StoresInv, HistoryInv, Opened, \A w \in Waiting' : Mark(w)
  PROVE  HistoryInv'
<1>1. \A w \in Waiting' : Tame(w) /\ w.store # "journals"
  <2> SUFFICES ASSUME NEW w \in Waiting' PROVE Tame(w) /\ w.store # "journals"
    OBVIOUS
  <2>1. CASE w.store \in {"ledger", "launches", "controllers"}
             \/ (w.store = "operations" /\ w.val.kind # "create")
    BY <2>1 DEF Tame
  <2>2. ASSUME NEW o \in Op, NEW s \in Terminal, w = Ended(o, s)
        PROVE  Tame(w) /\ w.store # "journals"
    BY <2>2, CalmTame, EndedFields
  <2>3. ASSUME NEW e \in Env, NEW s \in EnvironmentStates \ {"creating"}, w = PutState(e, s)
        PROVE  Tame(w) /\ w.store # "journals"
    <3>1. s # "creating"
      OBVIOUS
    <3> QED BY <2>3, <3>1, CalmTame, StateFields
  <2> QED BY <2>1, <2>2, <2>3 DEF Mark
<1>2. \A o \in Op : ~Closes(o)'
  BY <1>1 DEF Closes
<1> QED BY <1>1, <1>2, HistoryLight

LEMMA MarkWrites ==
  ASSUME TypeOK
  PROVE  /\ \A e \in Env : /\ Mark(PutState(e, "running")) /\ Mark(PutState(e, "stopped"))
                           /\ \A o : /\ Mark(PutState(e, During(o)))
                                     /\ Mark(PutState(e, Reverted(o)))
                           /\ Mark(PutState(e, Reconciled(e)))
         /\ \A e, s : Mark(Marked(e, s)) /\ \A r : Mark(PutLaunch(e, r))
         /\ \A o \in Op : \A s \in Terminal : \A w \in Settling(o, s) : Mark(w)
         /\ \A o \in Op : Mark(Register(o))
         /\ \A o, k : \A w \in Answering(o, k) : Mark(w)
         /\ \A o, e, s : \A k \in {"switch", "restore", "start", "stop"} :
              Mark(PutOperation(o, k, e, s))
<1>1. /\ \A o : During(o) \in {"starting", "stopping"} /\ Reverted(o) \in {"stopped", "running"}
      /\ \A e : Reconciled(e) \in {"running", "stopped"}
      /\ {"running", "stopped", "starting", "stopping"} \subseteq EnvironmentStates \ {"creating"}
  BY DEF During, Reverted, Reconciled, EnvironmentStates
<1>2. \A e \in Env : \A s \in {"running", "stopped", "starting", "stopping"} : Mark(PutState(e, s))
  BY <1>1 DEF Mark
<1>3. \A e, s : Mark(Marked(e, s)) /\ \A r : Mark(PutLaunch(e, r))
  <2>1. \A e, s : Marked(e, s).store = "launches" /\ \A r : PutLaunch(e, r).store = "launches"
    BY DEF Marked, PutLaunch, Write
  <2> QED BY <2>1 DEF Mark
<1>4. \A o \in Op : \A s \in Terminal : \A w \in Settling(o, s) : Mark(w)
  BY DEF Settling, Mark
<1>5. \A o \in Op : Mark(Register(o))
  BY DEF Register, Write, Mark
<1>6. \A o, k : \A w \in Answering(o, k) : Mark(w)
  BY AnswerFields DEF Mark
<1>7. \A o, e, s : \A k \in {"switch", "restore", "start", "stop"} : Mark(PutOperation(o, k, e, s))
  <2> SUFFICES ASSUME NEW o, NEW e, NEW s, NEW k \in {"switch", "restore", "start", "stop"}
               PROVE  Mark(PutOperation(o, k, e, s))
    OBVIOUS
  <2>1. PutOperation(o, k, e, s).store = "operations" /\ PutOperation(o, k, e, s).val.kind = k
    BY OperationFields
  <2> QED BY <2>1 DEF Mark
<1> QED BY <1>1, <1>2, <1>3, <1>4, <1>5, <1>6, <1>7

LEMMA HistoryStartTask ==
  ASSUME TypeOK, TypeOK', StoresInv, HistoryInv, NEW o \in Op,
         LaunchIntent(o) \/ Identify(o) \/ Ready(o) \/ StartFails(o)
  PROVE  HistoryInv'
<1>1. todo = <<>> /\ UNCHANGED files /\ operations[o].kind = "start"
  BY DurableFiles DEF LaunchIntent, Identify, Ready, StartFails, Spawned, TaskOf,
                      TaskReturns, OfKind
<1>2. PICK e \in Env : e = operations[o].env
  BY <1>1, OperationRecords
<1>3. Opened
  BY <1>1, OpenedFiles
<1>4. \A w \in Waiting' : Mark(w)
  <2>1. CASE LaunchIntent(o) \/ Identify(o)
    <3>1. PICK r : todo' = << PutLaunch(e, r) >>
      BY <1>2, <2>1 DEF LaunchIntent, Identify, Run, Spawning
    <3> QED BY <3>1, FewWrites, MarkWrites DEF Waiting
  <2>2. CASE Ready(o)
    BY <1>2, <2>2, ReadyWaits, MarkWrites DEF Terminal
  <2>3. CASE StartFails(o)
    BY <1>2, <2>3, StartFailsWaits, MarkWrites DEF Failing, Reverting, Terminal
  <2> QED BY <2>1, <2>2, <2>3
<1> QED BY <1>3, <1>4, HistoryMarks

LEMMA HistoryStopTask ==
  ASSUME TypeOK, TypeOK', StoresInv, HistoryInv, NEW o \in Op,
         StopReturns(o) \/ StopUnconfirmed(o)
  PROVE  HistoryInv'
<1>1. todo = <<>> /\ UNCHANGED files /\ operations[o].kind = "stop"
  BY DurableFiles DEF StopReturns, StopUnconfirmed, TaskOf, TaskReturns, OfKind
<1>2. PICK e \in Env : e = operations[o].env
  BY <1>1, OperationRecords
<1>3. Opened
  BY <1>1, OpenedFiles
<1>4. /\ \A w \in Failing(o) : Mark(w)
      /\ \A w \in Stopping(o) : Mark(w)
  BY <1>2, MarkWrites DEF Failing, Reverting, Stopping, Terminal
<1>5. \A w \in Waiting' : Mark(w)
  BY <1>4, StopTaskWaits, MarkWrites
<1> QED BY <1>3, <1>5, HistoryMarks

LEMMA HistoryProcesses ==
  ASSUME TypeOK, TypeOK', StoresInv, HistoryInv,
         \/ ProcessesReconciled
         \/ \E e \in Env : ReconcileLaunch(e) \/ \E o \in Op : ExitCallback(o, e)
  PROVE  HistoryInv'
<1>1. todo = <<>> /\ UNCHANGED files
  BY DurableFiles DEF ProcessesReconciled, ReconcileLaunch, ExitCallback
<1>2. Opened
  BY <1>1, OpenedFiles
<1>3. \A q \in Op : operations[q].status = "active" => Mark(Ended(q, "failed"))
  BY DEF Mark, Terminal
<1>4. CASE ProcessesReconciled
  <2>1. \A q \in Interrupted : q \in Op /\ operations[q].status = "active"
    BY DEF Interrupted, Pending
  <2>2. \A e \in Stale : e \in Env
    BY DEF Stale
  <2>3. \A w \in Waiting' : \/ \E e \in Stale : w = PutState(e, Reconciled(e))
                            \/ \E q \in Interrupted : w = Ended(q, "failed")
    BY <1>4, ReconciledWaits
  <2>4. \A w \in Waiting' : Mark(w)
    BY <1>3, <2>1, <2>2, <2>3, MarkWrites
  <2> QED BY <1>2, <2>4, HistoryMarks
<1>5. ASSUME NEW e \in Env, ReconcileLaunch(e) PROVE HistoryInv'
  <2>1. \A w \in Waiting' : Mark(w)
    BY <1>5, ReconcileLaunchWaits, MarkWrites
  <2> QED BY <1>2, <2>1, HistoryMarks
<1>6. ASSUME NEW e \in Env, NEW o \in Op, ExitCallback(o, e) PROVE HistoryInv'
  <2>1. Waiting' = Strays(o, e)
    BY <1>6, ExitWaits
  <2>2. \A w \in Waiting' :
          \/ \E q \in StrayStarts(e) : w = Ended(q, "failed")
          \/ w = PutState(e, "stopped") \/ w = Marked(e, "ended")
    BY <2>1 DEF Strays
  <2>3. \A w \in Waiting' : Mark(w)
    BY <1>3, <2>2, MarkWrites DEF StrayStarts, Pending
  <2> QED BY <1>2, <2>3, HistoryMarks
<1> QED BY <1>4, <1>5, <1>6

LEMMA HistoryCancels ==
  ASSUME TypeOK, TypeOK', StoresInv, HistoryInv, NEW o \in Op, CancelOperation(o) \/ CancelApply(o)
  PROVE  HistoryInv'
<1>1. Opened
  BY OpenedBlock DEF CancelOperation, CancelApply, Idle
<1>2. Waiting' = Settling(o, "cancelled")
  BY SettleWrites DEF CancelOperation, CancelApply, Run, Waiting, Settling
<1>3. \A w \in Waiting' : Mark(w)
  BY <1>2, MarkWrites DEF Terminal
<1> QED BY <1>1, <1>3, HistoryMarks

LEMMA HistoryLightRequests ==
  ASSUME TypeOK, TypeOK', StoresInv, HistoryInv, NEW o \in Op, NEW e \in Env,
         NoopSwitch(o, e) \/ RestoreActive(o, e) \/ Start(o, e) \/ Stop(o, e)
  PROVE  HistoryInv'
<1>1. Opened
  BY OpenedBlock DEF NoopSwitch, MaySwitch, RestoreActive, Start, Stop, Idle
<1>2. \A k \in {"start", "stop"} : /\ \A w \in Departing(o, k, e) : Mark(w)
                                  /\ \A w \in Refusing(o, k, e) : Mark(w)
  BY MarkWrites DEF Departing, Refusing
<1>3. \A w \in Waiting' : Mark(w)
  <2>1. CASE NoopSwitch(o, e)
    BY <2>1, NoopWaits, MarkWrites
  <2>2. CASE RestoreActive(o, e)
    BY <2>2, RestoreActiveWaits, MarkWrites
  <2>3. CASE Start(o, e)
    <3>1. Mark(Spawning(e, environments[e].gen))
      BY MarkWrites DEF Spawning
    <3>2. \A w \in Waiting' :
            \/ w \in Answering(o, "start") \cup Departing(o, "start", e) \cup Refusing(o, "start", e)
            \/ w = Register(o) \/ w = Spawning(e, environments[e].gen)
      BY <2>3, StartWaits
    <3> QED BY <1>2, <3>1, <3>2, MarkWrites
  <2>4. CASE Stop(o, e)
    <3>1. \A w \in Waiting' :
            \/ w \in Answering(o, "stop") \cup Departing(o, "stop", e) \cup Refusing(o, "stop", e)
            \/ w = Register(o) \/ (\E s : w = Marked(e, s))
            \/ w = PutOperation(o, "stop", e, "succeeded") \/ w = PutState(e, "stopped")
      BY <2>4, StopWaits
    <3> QED BY <1>2, <3>1, MarkWrites
  <2> QED BY <2>1, <2>2, <2>3, <2>4
<1> QED BY <1>1, <1>3, HistoryMarks

LEMMA HistoryRecoverOrphans ==
  ASSUME TypeOK, TypeOK', StoresInv, HonestInv, HistoryInv,
         \/ \E o \in Op : \/ RecoverOrphan(o) \/ RecoverOrphanChange(o)
                          \/ SettleSwitchLedger(o) \/ SweepChangeLedger(o)
         \/ \E e \in Env : RecoverCreating(e)
  PROVE  HistoryInv'
<1>1. todo = <<>> /\ Opened
  BY OpenedBlock DEF RecoverOrphan, RecoverOrphanChange, SettleSwitchLedger, SweepChangeLedger,
                     RecoverCreating, Recovering
<1>2. ASSUME NEW e \in Env, environments[e].gen = None, NEW o \in Op,
             \A w \in Waiting' : w = PutEnvironment(e, Errored(e)) \/ w \in Settling(o, "failed")
      PROVE  HistoryInv'
  <2>1. \A w \in Waiting' : Tame(w)
    BY <1>2, ErroredTame, CalmTame DEF Settling
  <2>2. \A w \in Waiting' : w.store # "journals"
    BY <1>2, EnvironmentFields, EndedFields DEF Settling
  <2>3. \A q \in Op : ~Closes(q)'
    BY <2>2 DEF Closes
  <2> QED BY <1>1, <2>1, <2>3, HistoryLight
<1>3. ASSUME NEW o \in Op, RecoverOrphan(o) PROVE HistoryInv'
  <2>1. /\ ~OpenJournal(o) /\ operations[o].status = "active"
        /\ operations[o].kind \in CoreTransactions
    BY <1>3 DEF RecoverOrphan, OrphanTransactions, Pending
  <2>2. PICK e \in Env : e = operations[o].env
    BY <1>3, RecoverOrphanWaits
  <2>3. CASE operations[o].kind = "create"
    <3>1. \A q \in Op : environments[e].gen # q
      <4>1. generations[o] = "absent" /\ ~RecordsFirst(o) /\ Belongs(o, "create", e)
        BY <1>1, <2>1, <2>2, <2>3, OrphanBuiltNothing DEF RecordsFirst, Belongs
      <4> QED BY <4>1 DEF HistoryInv, CreatedFirst, PointsTo
    <3>2. environments[e].gen = None
      BY <3>1 DEF TypeOK, EnvironmentRecord
    <3> QED BY <1>2, <1>3, <2>2, <3>2, RecoverOrphanWaits
  <2>4. CASE operations[o].kind # "create"
    <3>1. \A w \in Waiting' : Mark(w)
      BY <1>3, <2>4, RecoverOrphanWaits, MarkWrites DEF Terminal
    <3> QED BY <1>1, <3>1, HistoryMarks
  <2> QED BY <2>3, <2>4
<1>4. ASSUME NEW o \in Op,
             RecoverOrphanChange(o) \/ SettleSwitchLedger(o) \/ SweepChangeLedger(o)
      PROVE  HistoryInv'
  <2>1. \A w \in Waiting' : Mark(w)
    <3>1. Mark(PutLedger(o, ledger[o].method, "failed"))
      BY DEF Mark, PutLedger, Write
    <3> QED BY <1>4, <3>1, LedgerWaits, MarkWrites DEF Terminal
  <2> QED BY <1>1, <2>1, HistoryMarks
<1>5. ASSUME NEW e \in Env, RecoverCreating(e) PROVE HistoryInv'
  <2>1. /\ Waiting' = {PutEnvironment(e, Errored(e))} /\ environments[e].state = "creating"
    BY <1>5, FewWrites DEF RecoverCreating, OrphanCreations, Run, Waiting
  <2>2. environments[e].gen = None
    BY <2>1 DEF HistoryInv, CreatingIsEmpty
  <2>3. Tame(PutEnvironment(e, Errored(e))) /\ PutEnvironment(e, Errored(e)).store = "environments"
    BY <2>2, ErroredTame, EnvironmentFields
  <2>4. \A q \in Op : ~Closes(q)'
    BY <2>1, <2>3 DEF Closes
  <2> QED BY <1>1, <2>1, <2>3, <2>4, HistoryLight
<1> QED BY <1>3, <1>4, <1>5

(***************************************************************************)
(* The whole instance.                                                     *)
(***************************************************************************)
LEMMA HistoryNext ==
  ASSUME TypeOK, TypeOK', StoresInv, AttendedInv, HonestInv, HistoryInv, [Next]_vars, ~WriteFails
  PROVE  HistoryInv'
<1>1. CASE Requests
  BY <1>1, HistoryBuildRequests, HistoryRestore, HistoryLightRequests DEF Requests
<1>2. CASE Cancels
  BY <1>2, HistoryCancels DEF Cancels
<1>3. CASE Surroundings
  BY <1>3, HistoryLost, HistoryModeStep, HistoryProcesses DEF Surroundings
<1>4. CASE Boot \/ FinishClose \/ Persist \/ UNCHANGED vars
  BY <1>4, HistoryModeStep, HistoryLost, HistoryPersist
<1>5. CASE RecoverySteps
  BY <1>5, HistoryRecoverChange, HistoryRecoverJournal, HistoryRecoverOrphans,
     HistoryProcesses, HistoryModeStep
     DEF RecoverySteps
<1>6. CASE \E o \in Op : TaskSteps(o)
  BY <1>6, HistoryInstallReturns, HistoryStageReturns, HistoryStartTask, HistoryStopTask,
     HistoryModeStep
     DEF TaskSteps
<1> QED BY <1>1, <1>2, <1>3, <1>4, <1>5, <1>6 DEF Next

HistorySound == faults = 0 => StoresInv /\ AttendedInv /\ HonestInv /\ HistoryInv

LEMMA HistoryUnrefused == TypeOK /\ HistorySound /\ [Next]_vars => HistorySound'
<1> SUFFICES ASSUME TypeOK, HistorySound, [Next]_vars, faults' = 0
             PROVE  StoresInv' /\ AttendedInv' /\ HonestInv' /\ HistoryInv'
  BY DEF HistorySound
<1>1. TypeOK'
  BY TypeStep
<1>2. faults = 0 /\ ~WriteFails
  <2>1. WriteFails => faults' # 0
    BY DEF WriteFails, TypeOK
  <2>2. ~WriteFails => faults' = faults
    BY FaultsKept
  <2> QED BY <2>1, <2>2
<1>3. StoresInv /\ AttendedInv /\ HonestInv /\ HistoryInv
  BY <1>2 DEF HistorySound
<1>4. StoresInv' /\ AttendedInv' /\ HonestInv'
  BY <1>2, <1>3, HonestUnrefused DEF HonestSound
<1>5. HistoryInv'
  BY <1>1, <1>2, <1>3, HistoryNext
<1> QED BY <1>4, <1>5

(***************************************************************************)
(* The inductive invariant of the history: a block moves a pointer at most *)
(* once and by one revision, to a recorded generation of that environment  *)
(* which either was built under a journal still open or was committed      *)
(* before (runTransaction, runApply, runRestore; recovery moves none).     *)
(***************************************************************************)
THEOREM HistoryInvariant == Spec => []HistorySound
<1>1. Init => HistorySound
  BY StoresInit, AttendedInit, HonestInit, HistoryInit DEF HistorySound
<1> QED BY <1>1, HistoryUnrefused, TypeCorrect, PTL DEF Spec

(***************************************************************************)
(* The refinement: one write of the launcher is a commit, a restore or     *)
(* invisible to GenerationHistory.                                         *)
(***************************************************************************)
Held(o, e) ==
  /\ generations[o] = "recorded"
  /\ operations[o].env = e
  /\ environments[e].gen = o \/ ~OpenJournal(o)

LEMMA RetainedIsHeld ==
  /\ \A e \in Env : Retained(e) = {o \in Op : Held(o, e)}
  /\ \A e \in Env : Retained(e)' = {o \in Op : Held(o, e)'}
  BY DEF Retained, Held

\* No step but the landing of a write changes what the history is made of.
LEMMA HistoryKept ==
  ASSUME [Next]_vars, ~Persist
  PROVE  UNCHANGED << environments, operations, journals, generations >>
<1>1. CASE Requests \/ Cancels
  <2>1. ASSUME NEW o \in Op, NEW e \in Env,
               CreateEnvironment(o, e) \/ SwitchCombination(o, e) \/ NoopSwitch(o, e)
        PROVE  UNCHANGED durable
    BY <2>1 DEF CreateEnvironment, SwitchCombination, NoopSwitch
  <2>2. ASSUME NEW o \in Op, NEW e \in Env, NEW p \in Plan, ApplyChange(o, e, p)
        PROVE  UNCHANGED durable
    BY <2>2 DEF ApplyChange
  <2>3. ASSUME NEW o \in Op, NEW e \in Env, NEW g \in Op,
               RestoreGeneration(o, e, g) \/ RestoreActive(o, e)
        PROVE  UNCHANGED durable
    BY <2>3 DEF RestoreGeneration, RestoreActive
  <2>4. ASSUME NEW o \in Op, NEW e \in Env, Start(o, e) \/ Stop(o, e)
        PROVE  UNCHANGED durable
    BY <2>4 DEF Start, Stop
  <2>5. ASSUME NEW o \in Op, CancelOperation(o) \/ CancelApply(o) PROVE UNCHANGED durable
    BY <2>5 DEF CancelOperation, CancelApply
  <2>6. UNCHANGED durable
    BY <1>1, <2>1, <2>2, <2>3, <2>4, <2>5 DEF Requests, Cancels
  <2> QED BY <2>6 DEF durable
<1>2. CASE Surroundings
  BY <1>2 DEF Surroundings, durable, files, Crash, WriteFails, ProcessDies, ExitCallback, BeginClose
<1>3. CASE Boot \/ FinishClose \/ UNCHANGED vars
  BY <1>3 DEF durable, vars, Boot, FinishClose
<1>4. CASE RecoverySteps
  BY <1>4 DEF RecoverySteps, durable, files, RecoverChange, RecoverOrphanChange, SweepChangeLedger,
     ChangesRecovered, ReconcileLaunch, ProcessesReconciled, RecoverJournal, RecoverOrphan,
     SettleSwitchLedger, RecoverCreating, CoreRecovered
<1>5. CASE \E o \in Op : TaskSteps(o)
  BY <1>5 DEF TaskSteps, durable, files, InstallReturns, StageReturns, LaunchIntent, Spawn, Identify,
     Ready, StartFails, StopReturns, StopUnconfirmed
<1> QED BY <1>1, <1>2, <1>3, <1>4, <1>5 DEF Next

\* Where the pointer stays, what is held stays: a generation is recorded under its
\* open journal, which is removed only once the pointer names it.
LEMMA HeldStays ==
  ASSUME TypeOK, StoresInv, AttendedInv, HonestInv, HistoryInv, NEW w, Lands(w),
         NEW o \in Op, NEW e \in Env, environments'[e].gen = environments[e].gen
  PROVE  Held(o, e)' <=> Held(o, e)
<1>1. ASSUME Held(o, e)' PROVE Held(o, e)
  <2>1. /\ generations'[o] = "recorded" /\ operations'[o].env = e
        /\ environments[e].gen = o \/ ~OpenJournal(o)'
    BY <1>1 DEF Held
  <2>2. generations[o] = "recorded"
    <3> SUFFICES ASSUME generations[o] # "recorded" PROVE FALSE
      OBVIOUS
    <3>1. Builds(o, "recorded") /\ w.store = "generations"
      BY <2>1, Effect
    <3>2. journals[o].kind \in Built
      BY <3>1 DEF HonestInv, Honest, SettledWhileOpen
    <3>3. journals'[o] = journals[o]
      BY <3>1, Effect
    <3>4. environments[e].gen = o
      BY <2>1, <3>2, <3>3 DEF OpenJournal, Built, CoreTransactions
    <3> QED BY <3>4, NoneAssumption DEF StoresInv, PointerIntact
  <2>3. operations[o].env = e
    BY <2>1, <2>2, RecordedHome
  <2>4. CASE OpenJournal(o) /\ ~OpenJournal(o)'
    BY <2>2, <2>3, <2>4, RemovalLands DEF Held
  <2> QED BY <2>1, <2>2, <2>3, <2>4 DEF Held
<1>2. ASSUME Held(o, e) PROVE Held(o, e)'
  <2>1. /\ generations[o] = "recorded" /\ operations[o].env = e
        /\ environments[e].gen = o \/ ~OpenJournal(o)
    BY <1>2 DEF Held
  <2>2. generations'[o] = "recorded"
    <3> SUFFICES ASSUME generations'[o] # "recorded" PROVE FALSE
      OBVIOUS
    <3>1. journals[o].kind \in Built /\ ~PointsTo(e, o)
      BY <2>1, RecordedStays
    <3> QED BY <2>1, <3>1 DEF PointsTo, OpenJournal, Built, CoreTransactions
  <2>3. operations'[o].env = e
    BY <2>1, RecordedHome
  <2>4. environments'[e].gen = o \/ ~OpenJournal(o)'
    <3> SUFFICES ASSUME ~OpenJournal(o), OpenJournal(o)' PROVE FALSE
      BY <2>1
    <3>1. w.store = "journals" /\ w.key = o /\ w.val = journals'[o] /\ w \in Waiting
      BY Effect DEF OpenJournal
    <3>2. w.val \in JournalRecord /\ w.val.kind # "none"
      BY <3>1, WriteFields DEF Lands, OpenJournal
    <3>3. CASE w.val.kind \in Built
      <4>1. Live(o)
        BY <3>1, <3>3 DEF HistoryInv, OpensLive, OpenJournal, Built, CoreTransactions
      <4> QED BY <2>1, <4>1 DEF StoresInv, LiveNotRecorded
    <3>4. CASE w.val.kind \notin Built
      <4>1. w.val.kind \in Kinds \ Built /\ w.val.env \in Env
        BY <3>2, <3>4 DEF JournalRecord, NoJournal, Built, CoreTransactions, Kinds
      <4>2. Claims(o, w.val.kind, w.val.env)
        BY <3>1 DEF Claims, Keeps
      <4> QED BY <2>1, <4>1, <4>2 DEF StoresInv, BuiltByTransaction
    <3> QED BY <3>3, <3>4
  <2> QED BY <2>2, <2>3, <2>4 DEF Held
<1> QED BY <1>1, <1>2

\* A pointer that moves goes to a recorded generation of the environment, and
\* nothing else gets or loses its place there.
LEMMA HeldMoves ==
  ASSUME TypeOK, StoresInv, AttendedInv, HonestInv, HistoryInv, NEW w, Lands(w),
         NEW e \in Env, w.store = "environments", w.key = e, Moving(w),
         w.val.gen \in Op => generations[w.val.gen] = "recorded"
  PROVE  \E g \in Op :
           /\ w.val.gen = g /\ Held(g, e)'
           /\ \A o \in Op \ {g} : Held(o, e)' <=> Held(o, e)
           /\ \/ \A d \in Env : ~Held(g, d)
              \/ Held(g, e)
<1>1. PICK g \in Op : g = w.val.gen
  BY DEF Moving
<1>2. /\ w \in Waiting /\ environments'[e] = w.val
      /\ \A o \in Op : /\ generations'[o] = generations[o] /\ operations'[o] = operations[o]
                       /\ journals'[o] = journals[o]
  BY DEF Lands
<1>3. /\ generations[g] = "recorded" /\ environments[e].gen # g /\ PointsTo(e, g)
  BY <1>1, <1>2 DEF Moving, PointsTo
<1>4. operations[g].env = e /\ operations[g].kind \in Built
  <2>1. operations[g].env \in Env /\ operations[g].kind \in Kinds
        /\ Claims(g, operations[g].kind, operations[g].env)
    BY <1>3, RecordedHome
  <2>2. operations[g].env = e
    BY <1>3, <2>1 DEF StoresInv, OneHome
  <2>3. operations[g].kind \in Built
    BY <1>3, <2>1 DEF StoresInv, BuiltByTransaction
  <2> QED BY <2>2, <2>3
<1>5. Held(g, e)'
  BY <1>1, <1>2, <1>3, <1>4 DEF Held
<1>6. PICK q \in Op, k \in Kinds :
        /\ Keeps(q, k, e)
        /\ k \in Built => q = g /\ OpenJournal(g)
        /\ k \notin Built => q # g
  <2>1. CASE journals[g].kind \in Built /\ journals[g].env = e
    BY <2>1 DEF Keeps, OpenJournal, Built, CoreTransactions, Kinds
  <2>2. CASE ~(journals[g].kind \in Built /\ journals[g].env = e)
    <3>1. PICK q \in Op : Keeps(q, "restore", e)
      BY <1>1, <2>2 DEF Moving
    <3>2. "restore" \in Kinds /\ "restore" \notin Built
      BY DEF Kinds, Built, CoreTransactions
    <3>3. q # g
      BY <1>3, <3>1, <3>2 DEF StoresInv, BuiltByTransaction, Claims
    <3> QED BY <3>1, <3>2, <3>3
  <2> QED BY <2>1, <2>2
<1>7. \A o \in Op : OpenJournal(o) /\ operations[o].env = e /\ generations[o] = "recorded" => o = q
  <2> SUFFICES ASSUME NEW o \in Op, OpenJournal(o), operations[o].env = e, generations[o] = "recorded"
               PROVE  o = q
    OBVIOUS
  <2>1. journals[o].kind \in Kinds /\ journals[o].env \in Env
    BY DEF OpenJournal, TypeOK, JournalRecord, NoJournal, Kinds, CoreTransactions
  <2>2. Keeps(o, journals[o].kind, journals[o].env)
    BY DEF Keeps
  <2>3. operations[o].kind \in Kinds /\ Claims(o, operations[o].kind, e)
    BY RecordedHome
  <2>4. journals[o].env = e
    BY <2>1, <2>2, <2>3 DEF StoresInv, OneHome, Claims
  <2> QED BY <1>6, <2>1, <2>2, <2>4 DEF StoresInv, OneJournal
<1>8. ASSUME NEW o \in Op \ {g} PROVE Held(o, e)' <=> Held(o, e)
  <2>1. Held(o, e)' <=> generations[o] = "recorded" /\ operations[o].env = e /\ ~OpenJournal(o)
    BY <1>1, <1>2, <1>8 DEF Held, OpenJournal
  <2>2. generations[o] = "recorded" /\ operations[o].env = e => ~OpenJournal(o)
    <3> SUFFICES ASSUME generations[o] = "recorded", operations[o].env = e, OpenJournal(o) PROVE FALSE
      OBVIOUS
    <3>1. o = q
      BY <1>7
    <3>2. k \notin Built
      BY <1>6, <1>8, <3>1
    <3>3. Claims(o, k, e)
      BY <1>6, <3>1 DEF Claims
    <3> QED BY <3>2, <3>3 DEF StoresInv, BuiltByTransaction
  <2> QED BY <2>1, <2>2 DEF Held
<1>9. CASE k \in Built
  BY <1>1, <1>3, <1>4, <1>5, <1>6, <1>8, <1>9 DEF Held
<1>10. CASE k \notin Built
  <2>1. ~OpenJournal(g)
    BY <1>3, <1>4, <1>6, <1>7, <1>10
  <2>2. Held(g, e)
    BY <1>3, <1>4, <2>1 DEF Held
  <2> QED BY <1>1, <1>5, <1>8, <2>2
<1> QED BY <1>9, <1>10

LEMMA HistoryStarts == Init => History!Init
<1> SUFFICES ASSUME Init PROVE History!Init
  OBVIOUS
<1>1. \A e \in Env : environments[e].gen = None /\ environments[e].revision = 0
  BY DEF Init, NoEnvironment
<1>2. \A e \in Env : Retained(e) = {}
  BY DEF Init, Retained
<1> QED BY <1>1, <1>2 DEF History!Init

LEMMA HistoryMoves ==
  ASSUME TypeOK, StoresInv, AttendedInv, HonestInv, HistoryInv, Persist
  PROVE  History!Next \/ UNCHANGED History!history
<1> DEFINE w == Head(todo)
           active == [e \in Env |-> environments[e].gen]
           revision == [e \in Env |-> environments[e].revision]
           retained == [e \in Env |-> Retained(e)]
<1>1. Lands(w)
  BY Landing DEF StoresInv
<1>2. \A e \in Env : \/ /\ environments'[e].gen = environments[e].gen
                        /\ environments'[e].revision = environments[e].revision
                     \/ w.store = "environments" /\ w.key = e /\ environments'[e] = w.val /\ Moving(w)
  BY <1>1, PointerMoves DEF HistoryInv
<1>3. w.store = "environments" /\ w.val.gen \in Op /\ w.key \in Env => generations[w.val.gen] = "recorded"
  <2> SUFFICES ASSUME w.store = "environments", w.val.gen \in Op, w.key \in Env
               PROVE  generations[w.val.gen] = "recorded"
    OBVIOUS
  <2>1. PointsTo(w.key, w.val.gen)
    BY <1>1 DEF PointsTo, Lands
  <2>2. ~RecordsFirst(w.val.gen)
    BY DEF RecordsFirst, PutGeneration, Write
  <2> QED BY <2>1, <2>2 DEF StoresInv, PointsToRecorded
<1>4. /\ active' = [e \in Env |-> environments'[e].gen]
      /\ revision' = [e \in Env |-> environments'[e].revision]
      /\ retained' = [e \in Env |-> {o \in Op : Held(o, e)'}]
      /\ retained = [e \in Env |-> {o \in Op : Held(o, e)}]
  BY RetainedIsHeld
<1> HIDE DEF w
<1>5. CASE \A e \in Env : /\ environments'[e].gen = environments[e].gen
                          /\ environments'[e].revision = environments[e].revision
  <2>1. \A e \in Env : \A o \in Op : Held(o, e)' <=> Held(o, e)
    BY <1>1, <1>5, HeldStays
  <2>2. active' = active /\ revision' = revision
    BY <1>4, <1>5
  <2>3. retained' = retained
    <3>1. \A e \in Env : {o \in Op : Held(o, e)'} = {o \in Op : Held(o, e)}
      BY <2>1
    <3> HIDE DEF retained
    <3> QED BY <1>4, <3>1
  <2> QED BY <2>2, <2>3 DEF History!history
<1>6. CASE ~\A e \in Env : /\ environments'[e].gen = environments[e].gen
                           /\ environments'[e].revision = environments[e].revision
  <2>1. PICK e \in Env : w.store = "environments" /\ w.key = e /\ environments'[e] = w.val /\ Moving(w)
    BY <1>2, <1>6
  <2>2. PICK g \in Op :
          /\ w.val.gen = g /\ Held(g, e)'
          /\ \A o \in Op \ {g} : Held(o, e)' <=> Held(o, e)
          /\ \/ \A d \in Env : ~Held(g, d)
             \/ Held(g, e)
    BY <1>1, <1>3, <2>1, HeldMoves
  <2>3. /\ environments'[e].gen = g /\ environments'[e].revision = environments[e].revision + 1
        /\ environments[e].gen # g
    BY <2>1, <2>2 DEF Moving
  <2>4. \A d \in Env \ {e} : /\ environments'[d].gen = environments[d].gen
                             /\ environments'[d].revision = environments[d].revision
    BY <1>2, <2>1
  <2>5. \A d \in Env \ {e} : \A o \in Op : Held(o, d)' <=> Held(o, d)
    BY <1>1, <2>4, HeldStays
  <2>6. active' = [active EXCEPT ![e] = g] /\ revision' = [revision EXCEPT ![e] = @ + 1]
    BY <1>4, <2>3, <2>4
  <2>7. History!Point(e, g)
    BY <2>6 DEF History!Point
  <2>8. \A d \in Env : {o \in Op : Held(o, d)'} =
          IF d = e THEN {o \in Op : Held(o, d)} \cup {g} ELSE {o \in Op : Held(o, d)}
    BY <2>2, <2>5
  <2>9. CASE \A d \in Env : ~Held(g, d)
    <3>1. retained' = [retained EXCEPT ![e] = @ \cup {g}] /\ \A d \in Env : g \notin retained[d]
      <4> HIDE DEF retained
      <4> QED BY <1>4, <2>8, <2>9
    <3> QED BY <2>7, <3>1 DEF History!Commit, History!Next
  <2>10. CASE Held(g, e)
    <3>1. retained' = retained /\ g \in retained[e]
      <4>1. \A d \in Env : {o \in Op : Held(o, d)'} = {o \in Op : Held(o, d)}
        BY <2>8, <2>10
      <4> HIDE DEF retained
      <4> QED BY <1>4, <2>10, <4>1
    <3>2. active[e] # g
      BY <2>3
    <3> QED BY <2>7, <3>1, <3>2 DEF History!Restore, History!Next
  <2> QED BY <2>2, <2>9, <2>10
<1> QED BY <1>5, <1>6

LEMMA HistoryImplemented ==
  TypeOK /\ HistorySound /\ [Next]_vars /\ faults = 0 /\ (faults = 0)'
    => [History!Next]_(History!history)
<1> SUFFICES ASSUME TypeOK, HistorySound, [Next]_vars, faults = 0, faults' = 0
             PROVE  History!Next \/ UNCHANGED History!history
  OBVIOUS
<1>1. StoresInv /\ AttendedInv /\ HonestInv /\ HistoryInv
  BY DEF HistorySound
<1>2. CASE Persist
  BY <1>1, <1>2, HistoryMoves
<1>3. CASE ~Persist
  <2>1. UNCHANGED << environments, operations, journals, generations >>
    BY <1>3, HistoryKept
  <2>2. \A e \in Env : Retained(e)' = Retained(e)
    BY <2>1 DEF Retained, OpenJournal
  <2> QED BY <2>1, <2>2 DEF History!history
<1> QED BY <1>2, <1>3

(***************************************************************************)
(* While the disk refuses no write, the launcher implements                *)
(* GenerationHistory: through all transactions, cancellations, crashes and *)
(* recoveries, the composition of an environment changes only by a commit  *)
(* of a generation built for it or by a restore of one committed before.   *)
(***************************************************************************)
THEOREM LauncherImplementsHistory == Spec /\ [](faults = 0) => ImplementsHistory
<1> HIDE DEF Init, Next, TypeOK, HistorySound
<1>1. Spec => History!Init
  BY HistoryStarts, PTL DEF Spec
<1> QED BY <1>1, HistoryImplemented, TypeCorrect, HistoryInvariant, PTL
        DEF Spec, ImplementsHistory, History!Spec
===============================================================================
