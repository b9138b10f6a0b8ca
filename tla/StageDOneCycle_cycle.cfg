CONSTANTS
    c1 = c1  c2 = c2  c3 = c3
    a1 = a1  a2 = a2  a3 = a3
    r1 = r1  r2 = r2
    q1 = q1  q2 = q2
    p1 = p1  p2 = p2
    Cycle = {c1, c2, c3}
    Authorization = {a1, a2, a3}
    AuthOf <- MCAuthOf
    RunOf <- MCRunOf
    RequestOf <- MCRequestOf
    Payload = {p1, p2}
    None = None
    SpendLimit = 2
    PlanLimit = 4
    DailyCap = 1
    InitialUsed = 0
    PeriodEnd = 2
    Lifetime = 2
    MaxTime = 2
    MaxOutside = 1
    Faults = {"marker", "read", "ledger", "credential", "raw", "receipt", "build", "publish", "release", "crash"}
    MaxFaults = 1
SPECIFICATION Spec
INVARIANTS TypeOK SpendAccounted NoRetry WithinBudget RecordsInOrder BalanceCovers
PROPERTIES DivergenceIsAdjudicated
SYMMETRY PayloadSymmetry
CHECK_DEADLOCK FALSE
