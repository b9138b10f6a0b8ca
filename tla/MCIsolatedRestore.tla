-------------------------- MODULE MCIsolatedRestore --------------------------
(* Small instances of IsolatedRestore for TLC. *)
EXTENDS IsolatedRestore, TLC

CONSTANTS w1, w2, r1, r2, quota, entry, state

(* The quota configuration is replaced once.  A ledger entry is added. A   *)
(* file of the run state is there, is removed and is there again.          *)
MCLastVersion == quota :> 1 @@ entry :> 1 @@ state :> 2
MCAbsentAt    == quota :> 9 @@ entry :> 0 @@ state :> 1

MCPathOrder   == quota :> 1 @@ entry :> 2 @@ state :> 3

MCTop == quota :> "config" @@ entry :> "request-accounting" @@ state :> "run-state"

MCSymmetry == Permutations(Writer) \cup Permutations(Restorer)
=============================================================================
