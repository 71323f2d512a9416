SPECIFICATION Spec
CONSTANTS
    User = {u1}
    Session = {f1, f2}
    Jti = {j1, j2}
    Role = {x1}
    Request = {r1, r2, r3}
    Ops = {"login", "refresh", "logout", "logout_all", "activate", "deactivate", "delete", "assign_role"}
    None = None
SYMMETRY Symmetry
CHECK_DEADLOCK FALSE
INVARIANTS
    TypeOK
    DeactivatedDoors
    ClaimsCoverRoles
    NothingOutlivesAUser
    LogoutIsWhole
