CONSTANTS
    p1 = p1  p2 = p2
    Process = {p1, p2}
    m1 = m1  m2 = m2  v1 = v1  v2 = v2  i1 = i1  i2 = i2  e11 = e11
    Match = {m1, m2}
    Payload = {v1, v2}
    Identity = {i1, i2}
    Code = {e11}
    Batches <- MCBatches
    NoLock = NoLock
    None = None
    LateAt = {"marker"}
    MaxStarts = 3
    MaxFaults = 2
    MaxCrashes = 1
SPECIFICATION Spec
INVARIANTS CommittedIntact
SYMMETRY ProcSymmetry
CHECK_DEADLOCK FALSE
