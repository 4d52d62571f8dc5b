-------------------------- MODULE GenerationHistory ---------------------------
(***************************************************************************)
(* What the launcher promises about the generations of an environment:     *)
(* the composition changes only by moving one pointer, to a generation     *)
(* built for this move or to one committed before; every move counts one   *)
(* revision; a committed generation is kept.  There is no way back from a  *)
(* commit and no trace of a transaction that did not commit.               *)
(***************************************************************************)
EXTENDS Naturals

CONSTANTS Environment, Generation, Nothing

VARIABLES
  active,     \* the generation the pointer names, or Nothing
  revision,   \* how often the pointer moved
  retained    \* the generations committed so far

history == << active, revision, retained >>

Init ==
  /\ active = [e \in Environment |-> Nothing]
  /\ revision = [e \in Environment |-> 0]
  /\ retained = [e \in Environment |-> {}]

Point(e, g) ==
  /\ active' = [active EXCEPT ![e] = g]
  /\ revision' = [revision EXCEPT ![e] = @ + 1]

Commit(e, g) ==
  /\ \A d \in Environment : g \notin retained[d]
  /\ Point(e, g)
  /\ retained' = [retained EXCEPT ![e] = @ \cup {g}]

Restore(e, g) ==
  /\ g \in retained[e] \ {active[e]}
  /\ Point(e, g)
  /\ UNCHANGED retained

Next == \E e \in Environment, g \in Generation : Commit(e, g) \/ Restore(e, g)

Spec == Init /\ [][Next]_history

===============================================================================
