SPECIFICATION Spec
CONSTANTS
    Token = {t1, t2, t3}
    Family = {f1}
    User = {u1}
    Device = {}
    Request = {r1, r2, r3}
    Lifetime = 1
    MaxTime = 0
    BindDevice = FALSE
    None = None
SYMMETRY Symmetry
INVARIANTS
    ReuseRevokesFamily
