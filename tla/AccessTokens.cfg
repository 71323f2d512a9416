SPECIFICATION Spec
CONSTANTS
    Jti = {j1}
    User = {u1, u2}
    Call = {c1, c2}
    AccessTTL = 2
    Ticks = 2
    MaxSecond = 4
    MaxOutages = 1
    None = None
SYMMETRY Symmetry
CHECK_DEADLOCK FALSE
INVARIANTS
    TypeOK
    LoggedOutUntilExpiry
    RevokedUntilExpiry
    RefusedOnlyIfRevoked
