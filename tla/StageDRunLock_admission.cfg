CONSTANTS
    Run = {r1, r2, r3}
    Nobody = Nobody
    MaxEvents = 1
    MaxSwaps = 1
    MaxRollbacks = 1
    MaxCrashes = 1
    Faults = {"create", "undo", "cleanup", "validate", "bind", "unlink", "sync"}
    MaxFaults = 2
SPECIFICATION Spec
INVARIANTS TypeOK RunMutualExclusion FailClosed SpentNeverForgotten CleanExit
SYMMETRY RunSymmetry
CHECK_DEADLOCK FALSE
