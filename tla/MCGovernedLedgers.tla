-------------------------- MODULE MCGovernedLedgers --------------------------
(* Small instances of GovernedLedgers for TLC. *)
EXTENDS GovernedLedgers, TLC

CONSTANTS p, q, e1, e2, good, bad, moved, f1, f2

MCPayload == good :> <<e1, e2>> @@ bad :> <<e1>> @@ moved :> <<e1>>

MCMatch ==
    good  :> (e1 :> f1 @@ e2 :> f2) @@
    bad   :> (e1 :> NoFixture @@ e2 :> NoFixture) @@
    moved :> (e1 :> f2 @@ e2 :> NoFixture)

MCSymmetry == Permutations(Process)
=============================================================================
