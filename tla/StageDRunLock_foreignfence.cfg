CONSTANTS
    Run = {r1, r2, r3, r4}
    Nobody = Nobody
    MaxEvents = 1
    MaxSwaps = 1
    MaxRollbacks = 0
    MaxCrashes = 0
    Faults = {"create", "undoSync"}
    MaxFaults = 2
SPECIFICATION Spec
INVARIANTS RunMutualExclusion
SYMMETRY RunSymmetry
CHECK_DEADLOCK FALSE
