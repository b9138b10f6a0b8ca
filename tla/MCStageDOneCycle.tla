-------------------------- MODULE MCStageDOneCycle --------------------------
(* A small instance: the second authorization reuses the request of the    *)
(* first, the third reuses the run of the second.                          *)
EXTENDS StageDOneCycle, TLC

CONSTANTS c1, c2, c3, a1, a2, a3, r1, r2, q1, q2, p1, p2

MCAuthOf    == (c1 :> a1) @@ (c2 :> a2) @@ (c3 :> a3)
MCRunOf     == (a1 :> r1) @@ (a2 :> r2) @@ (a3 :> r2)
MCRequestOf == (a1 :> q1) @@ (a2 :> q1) @@ (a3 :> q2)

PayloadSymmetry == Permutations(Payload)
=============================================================================
