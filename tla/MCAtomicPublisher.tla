------------------------- MODULE MCAtomicPublisher -------------------------
(* Small instances of AtomicPublisher for TLC. *)
EXTENDS AtomicPublisher

CONSTANTS w1, w2, b1, b2, b3, i1, i2, i3

(* b1 and b2 are different captures that resolve to an overlapping item    *)
(* (the same fixture decision).  b3 claims b1's capture and logical key    *)
(* for a different RAW payload that resolves to the same items.            *)
MCKeyOf == (b1 :> "k1") @@ (b2 :> "k2") @@ (b3 :> "k1")
MCCaptureOf == (b1 :> "c1") @@ (b2 :> "c2") @@ (b3 :> "c1")
MCSourceOf == (b1 :> "s1") @@ (b2 :> "s2") @@ (b3 :> "s3")
MCItems == (b1 :> {i1, i2}) @@ (b2 :> {i2, i3}) @@ (b3 :> {i1, i2})
MCEvidenceAt == (b1 :> 1) @@ (b2 :> 2) @@ (b3 :> 1)

(* The capture host's clock and the publisher's agree: evidence captured    *)
(* before the store existed carries an earlier time.                       *)
EarlyEvidenceAt == (b1 :> 0) @@ (b2 :> 0) @@ (b3 :> 0)

WriterSymmetry == Permutations({w1, w2})
=============================================================================
