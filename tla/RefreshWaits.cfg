SPECIFICATION FairSpec
CONSTANTS
    Token = {t1, t2, t3, t4}
    Family = {f1, f2}
    User = {u1}
    Device = {}
    Request = {r1, r2}
    Lifetime = 1
    MaxTime = 0
    BindDevice = FALSE
    None = None
INVARIANTS
    DeadlockNeedsTwoLogoutAlls
PROPERTIES
    EveryRequestEnds
