-------------------------- MODULE MCEnvironmentHome --------------------------
(***************************************************************************)
(* Instances of EnvironmentHome for TLC.                                   *)
(***************************************************************************)
EXTENDS EnvironmentHome, TLC

Generations == Permutations(Gen)

===============================================================================
