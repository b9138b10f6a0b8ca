CONSTANTS
    p1 = p1  p2 = p2  p3 = p3
    Proc = {p1, p2}
    PlanSize = 2
    MaxRequests = 2
    Delay = 2
    MoverMayDie = FALSE
    Free = Free
    Absent = Absent
    MaxClock = 3
    MaxSetBack = 1
    MaxStarts = 2
    MaxCrashes = 2
    MaxFaults = 1
SPECIFICATION Spec
INVARIANTS TypeOK OneFetcher RequestsRecorded RequestSpacing StateIsSound
PROPERTIES NoSecondCapture
SYMMETRY ProcSymmetry
CHECK_DEADLOCK FALSE
