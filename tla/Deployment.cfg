SPECIFICATION FairSpec
CONSTANTS
    Timeout = 1
    Interval = 1
    Seeded = {user_read, role_assign}
    UserRead = user_read
    AuditRead = audit_read
    Request = {r1}
    MaxRoles = 4
CHECK_DEADLOCK FALSE
INVARIANTS
    RowsAreTheMigrations
    LinksHold
    OneLateAttempt
PROPERTIES
    ServesAgain
