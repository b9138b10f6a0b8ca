--------------------------- MODULE CommittedLedger ---------------------------
(***************************************************************************)
(* What the staging store promises to a reader of its committed state: one *)
(* ledger of observations and quarantines.  A commit adds to it, all at    *)
(* once; nothing that is recorded is ever removed, changed or recorded     *)
(* again under the same key.                                               *)
(***************************************************************************)
EXTENDS Naturals

VARIABLES ledger, commits

vars == <<ledger, commits>>

SameObservation(o, x) == o.match = x.match /\ o.payload = x.payload
SameQuarantine(q, x)  == q.match = x.match /\ q.code = x.code

Init == ledger = [obs |-> {}, quar |-> {}] /\ commits = 0

Commit ==
    /\ commits' = commits + 1
    /\ ledger.obs \subseteq ledger'.obs
    /\ ledger.quar \subseteq ledger'.quar
    /\ \A o \in ledger'.obs \ ledger.obs : ~\E x \in ledger.obs : SameObservation(o, x)
    /\ \A q \in ledger'.quar \ ledger.quar : ~\E x \in ledger.quar : SameQuarantine(q, x)

Spec == Init /\ [][Commit]_vars
=============================================================================
