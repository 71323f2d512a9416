SPECIFICATION MCSpec
CONSTANTS
    Email = {e1, e2}
    Request = {r1, r2}
    MaxUsers = 2
    MaxLimit = 1
    None = None
    Address = {a1, a2, p1, p2}
    Trusted = {p1, p2}
    Junk = Junk
    Absent = Absent
    MaxHops = 2
    MaxSent = 2
    Key = {k1, s1}
    Sensitive = {s1}
    MaxDepth = 3
    MaxItems = 1
SYMMETRY Symmetry
CHECK_DEADLOCK FALSE
INVARIANTS
    TypeOK
    AddressIsTheClients
    SecretsStayOut
    DeedsAreRecordedOnce
PROPERTIES
    AnsweredIsRecorded
    EmailSnapshot
    WalksAreComplete
