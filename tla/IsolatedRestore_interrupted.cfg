CONSTANTS
    w1 = w1  w2 = w2  r1 = r1  r2 = r2
    quota = quota  entry = entry  state = state
    Writer = {w1, w2}
    Restorer = {r1, r2}
    Generation = {"g1"}
    File = {quota, entry, state}
    First = quota
    Identified = {quota, entry}
    PathOrder <- MCPathOrder
    LastVersion <- MCLastVersion
    AbsentAt <- MCAbsentAt
    Top <- MCTop
    Torn = Torn
    Nobody = Nobody
SPECIFICATION Spec
INVARIANT AbsentOrComplete
SYMMETRY MCSymmetry
CHECK_DEADLOCK FALSE
