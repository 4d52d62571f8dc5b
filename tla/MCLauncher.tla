------------------------------ MODULE MCLauncher ------------------------------
(***************************************************************************)
(* Instances of the launcher for TLC.                                      *)
(***************************************************************************)
EXTENDS LauncherProperties

CONSTANTS e1, e2

Plans1 == [p \in Plan |-> e1]
Requests4 == Permutations(Op)

===============================================================================
