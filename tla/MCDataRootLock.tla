---------------------------- MODULE MCDataRootLock ----------------------------
(***************************************************************************)
(* Instances of the data-root lock for TLC.                                *)
(***************************************************************************)
EXTENDS DataRootLock, TLC

Contenders == Permutations(Instance)

===============================================================================
