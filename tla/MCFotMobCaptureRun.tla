------------------------- MODULE MCFotMobCaptureRun -------------------------
(* Small instances of FotMobCaptureRun for TLC. *)
EXTENDS FotMobCaptureRun, TLC

CONSTANTS p1, p2, p3

ProcSymmetry == Permutations(Proc)
=============================================================================
