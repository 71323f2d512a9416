SPECIFICATION Spec
CONSTANTS
    User = {u1}
    Address = {a1}
    Request = {r1, r2}
    Ops = {"register", "update", "add"}
    MaxEarlier = 0
    None = None
SYMMETRY Symmetry
CHECK_DEADLOCK FALSE
INVARIANT EveryEmailIsLowercase
