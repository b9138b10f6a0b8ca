-------------------------- MODULE MCStageDRunLock --------------------------
(* Small instances of StageDRunLock for TLC. *)
EXTENDS StageDRunLock, TLC

RunSymmetry == Permutations(Run)
=============================================================================
