SPECIFICATION Spec
CONSTANTS
    Token = {t1, t2, t3, t4}
    Family = {f1}
    User = {u1}
    Device = {d1, d2}
    Request = {r1, r2, r3}
    Lifetime = 1
    MaxTime = 1
    BindDevice = TRUE
    None = None
SYMMETRY Symmetry
INVARIANTS
    TypeOK
    AtMostOneLive
    SingleUse
    SweepSurvivorsWereRotated
    OneDevicePerFamily
    SlidingExpiry
PROPERTIES
    RevocationIsFinal
    ImplementsTokenFamily
