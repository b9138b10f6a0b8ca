CONSTANTS
    p1 = p1  p2 = p2  p3 = p3
    Proc = {p1, p2, p3}
    PlanSize = 1
    MaxRequests = 2
    Delay = 0
    MoverMayDie = FALSE
    Free = Free
    Absent = Absent
    MaxClock = 0
    MaxSetBack = 0
    MaxStarts = 2
    MaxCrashes = 1
    MaxFaults = 0
SPECIFICATION Spec
INVARIANT OneFetcher
SYMMETRY ProcSymmetry
CHECK_DEADLOCK FALSE
