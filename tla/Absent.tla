-------------------------------- MODULE Absent --------------------------------
(* What `null`, `undefined` and a missing file are in the modules that need no  *)
(* finer distinction.                                                          *)
CONSTANT None
=============================================================================
