CONSTANTS
    p = p  q = q
    e1 = e1  e2 = e2
    f1 = f1  f2 = f2
    good = good  bad = bad  moved = moved
    NoFixture = NoFixture
    Process = {p, q}
    Event = {e1, e2}
    Fixture = {f1, f2}
    Capture = {good, bad, moved}
    Payload <- MCPayload
    Match <- MCMatch
    MaxRows = 2
    MaxTroubles = 1
SPECIFICATION Spec
INVARIANTS TypeOK VerifiedIsSound EveryPriceWasGoverned OnlyTroubleCloses AcknowledgedIsKept
PROPERTY ShutStaysShut
SYMMETRY MCSymmetry
CHECK_DEADLOCK FALSE
