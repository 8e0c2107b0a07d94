--------------------------- MODULE MCDynamicSource ---------------------------
(* Small instances of DynamicSource for TLC.                                 *)
EXTENDS DynamicSource, TLC

CallerSymmetry == Permutations(Caller)
=============================================================================
