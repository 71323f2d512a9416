SPECIFICATION Spec
CONSTANTS
    User = {u1}
    Session = {f1}
    Jti = {j1, j2}
    Role = {x1}
    Request = {r1, r2}
    Ops = {"refresh", "deactivate"}
    None = None
SYMMETRY Symmetry
CHECK_DEADLOCK FALSE
INVARIANTS
    DeactivatedIsOut
