------------------------ MODULE MCFotMobStagingStore ------------------------
(* Small instances of FotMobStagingStore for TLC. *)
EXTENDS FotMobStagingStore, TLC

CONSTANTS p1, p2, m1, m2, v1, v2, i1, i2, e11

Ok(m, v, i) == [kind |-> "ok", match |-> m, payload |-> v, identity |-> i]
Quarantined(m) == [kind |-> "quarantined", match |-> m, code |-> e11]
Rejected(m) == [kind |-> "rejected", match |-> m, code |-> e11]

(* A first version next to a quarantine; a second version, once with the   *)
(* identity of the first and once without; the same snapshot twice, next   *)
(* to a rejection; the same quarantine twice.                              *)
MCBatches ==
    {<<Ok(m1, v1, i1), Quarantined(m2)>>,
     <<Ok(m1, v2, i1), Ok(m2, v1, i1)>>,
     <<Ok(m1, v2, i2), Quarantined(m2)>>,
     <<Ok(m2, v1, i1), Ok(m2, v1, i1), Rejected(m1)>>,
     <<Quarantined(m2), Quarantined(m2)>>}

ProcSymmetry == Permutations(Process)
=============================================================================
