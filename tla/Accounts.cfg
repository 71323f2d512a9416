SPECIFICATION Spec
CONSTANTS
    User = {u1, u2}
    Address = {a1, a2}
    Request = {r1, r2, r3}
    Ops = {"register", "bootstrap", "update", "assign", "add", "page", "delete"}
    MaxEarlier = 1
    None = None
SYMMETRY Symmetry
CHECK_DEADLOCK FALSE
INVARIANTS
    TypeOK
    OneAccountPerAddress
    NoAccountWithoutRole
    AdministratorsAreWhole
    LoginFindsAccounts
    PasswordChangesHold
