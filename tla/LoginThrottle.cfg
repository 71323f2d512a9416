SPECIFICATION Spec
CONSTANTS
    Worker = {w1, w2}
    Ident = {i1, i2}
    Rate = 2
    Duration = 2
    MaxTime = 4
    MaxChecks = 4
    MaxOutages = 1
    None = None
SYMMETRY Symmetry
CHECK_DEADLOCK FALSE
INVARIANTS
    TypeOK
    NewestFirst
    ExceededOnlyIfBlind
PROPERTIES
    RefusedOnlyOverRate
