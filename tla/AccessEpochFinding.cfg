SPECIFICATION Spec
CONSTANTS
    Jti = {j1}
    User = {u1}
    Call = {c1, c2}
    AccessTTL = 2
    Ticks = 2
    MaxSecond = 3
    MaxOutages = 0
    None = None
SYMMETRY Symmetry
CHECK_DEADLOCK FALSE
INVARIANTS
    RevokedForTheirLifetime
