CONSTANTS
    w1 = w1  w2 = w2
    b1 = b1  b2 = b2  b3 = b3
    i1 = i1  i2 = i2  i3 = i3
    Writer = {w1, w2}
    Batch = {b1, b2, b3}
    Item = {i1, i2, i3}
    KeyOf <- MCKeyOf
    CaptureOf <- MCCaptureOf
    SourceOf <- MCSourceOf
    Items <- MCItems
    EvidenceAt <- EarlyEvidenceAt
    CreatedAt = 1
    ClockFloor = 0
    MaxClock = 2
    MaxReadRetries = 1
    Faults = {"lockSetup", "stage", "rename", "sync", "reader", "release"}
    MaxFaults = 1
    MaxCrashes = 1
    MaxCalls = 2
    MaxPowerLosses = 2
    Free = Free
    Stale = Stale
SPECIFICATION FairSpec
INVARIANTS LostOnlyIfUnsynced
PROPERTIES PublishTerminates
