---------------------------- MODULE RbacCatalog ----------------------------
(***************************************************************************)
(* The rows of roles, permissions and their links under the data           *)
(* migrations of apps/authz (0002, 0005, 0006), forward and backward, and  *)
(* under the requests that link users to roles meanwhile.                  *)
(*                                                                         *)
(* A migration applied is one transaction with its record in               *)
(* django_migrations; a migration reversed commits first and loses its     *)
(* record in a transaction of its own.  Foreign keys are checked when a    *)
(* transaction commits.  Primary keys are not reused.                      *)
(***************************************************************************)
EXTENDS Naturals, FiniteSets, Sequences

CONSTANTS
    Seeded,     \* PERMISSION_CODES of 0002
    UserRead,   \* "user.read", one of them
    AuditRead,  \* "audit.read", of 0006
    Request,    \* requests that link a user to a role, each runs at most once
    MaxRoles    \* bound on the role rows ever inserted

ASSUME CodesAssumption == UserRead \in Seeded /\ AuditRead \notin Seeded
ASSUME MaxRolesAssumption == MaxRoles \in Nat

VARIABLES
    applied,    \* the data migrations recorded in django_migrations
    roles,      \* every role row by its key, also those that are gone
    codes,      \* the rows of Permission
    links,      \* RolePermission: keys of roles with codes
    userLinks,  \* UserRole: who holds which role, and the one it was to be
    migrate,    \* manage.py migrate, run by one operator
    held,       \* the role each request has looked up
    torn,       \* history: reversed, and still recorded
    granted     \* history: links a repository call has granted

catalogVars ==
    <<applied, roles, codes, links, userLinks, migrate, held, torn, granted>>

-----------------------------------------------------------------------------
Migration == {2, 5, 6}

RoleName == {"admin", "user"}

\* PERMISSION_CATALOG of permissions.py.
Catalog == Seeded \cup {AuditRead}

Key == 1 .. MaxRoles

Live == {k \in DOMAIN roles : roles[k].live}

\* The rows of that name that are there.
KeysNamed(rows, name) == {k \in DOMAIN rows : rows[k].live /\ rows[k].name = name}

Named(name) == KeysNamed(roles, name)

Idle == [pc |-> "idle"]
At(pc, target) == [pc |-> pc, target |-> target]

NoRole == [pc |-> "new"]

InitCatalog ==
    /\ applied = {}
    /\ roles = <<>>
    /\ codes = {}
    /\ links = {}
    /\ userLinks = {}
    /\ migrate = Idle
    /\ held = [r \in Request |-> NoRole]
    /\ torn = {}
    /\ granted = {}

-----------------------------------------------------------------------------
(* What each data migration makes of the rows; user links follow the roles. *)

\* get_or_create of a role.
WithRole(rows, name) ==
    IF KeysNamed(rows, name) = {}
    THEN Append(rows, [name |-> name, live |-> TRUE])
    ELSE rows

\* The admin role first.
WithRoles(rows) == WithRole(WithRole(rows, "admin"), "user")

seed_roles_and_permissions ==
    LET rows == WithRoles(roles)
    IN  [roles |-> rows,
         codes |-> codes \cup Seeded,
         links |-> links \cup (KeysNamed(rows, "admin") \X Seeded)
                         \cup (KeysNamed(rows, "user") \X {UserRead})]

\* Django deletes what refers to a deleted row first.
Cascade(rows, kept) ==
    [roles |-> rows,
     codes |-> kept,
     links |-> {l \in links : rows[l[1]].live /\ l[2] \in kept}]

unseed_roles_and_permissions ==
    Cascade([k \in DOMAIN roles |-> [name |-> roles[k].name, live |-> FALSE]],
            codes \ Seeded)

\* The links become new.
Relinked(new) == [roles |-> roles, codes |-> codes, links |-> new]

remove_default_user_admin_permission ==
    Relinked(links \ (Named("user") \X {UserRead}))

restore_default_user_admin_permission ==
    Relinked(links \cup (Named("user") \X (codes \cap {UserRead})))

\* Fault: the permission is added and not linked to the administrators.
AddCodeAlone ==
    [roles |-> roles, codes |-> codes \cup {AuditRead}, links |-> links]

add_audit_read_permission ==
    [roles |-> roles,
     codes |-> codes \cup {AuditRead},
     links |-> links \cup (Named("admin") \X {AuditRead})]

remove_audit_read_permission == Cascade(roles, codes \ {AuditRead})

Applied(n) ==
    CASE n = 2 -> seed_roles_and_permissions
      [] n = 5 -> remove_default_user_admin_permission
      [] n = 6 -> add_audit_read_permission

Reversed(n) ==
    CASE n = 2 -> unseed_roles_and_permissions
      [] n = 5 -> restore_default_user_admin_permission
      [] n = 6 -> remove_audit_read_permission

-----------------------------------------------------------------------------
(* manage.py migrate                                                       *)

\* A target that is recorded (or 0001) is reversed to, any other one applied.
Backward(target) == target \in applied \cup {1}

ToReverse(target) == {n \in applied : n > target}
ToApply(target) == {n \in Migration \ applied : n <= target}

Lowest(S) == CHOOSE n \in S : \A k \in S : n <= k
Highest(S) == CHOOSE n \in S : \A k \in S : n >= k

Migrate(target) ==
    /\ migrate = Idle
    /\ migrate' = At(IF Backward(target) THEN "reverse" ELSE "apply", target)
    /\ UNCHANGED <<applied, roles, codes, links, userLinks, held, torn, granted>>

\* The rows become t.  User links go with their role.
Rows(t) ==
    /\ roles' = t.roles
    /\ codes' = t.codes
    /\ links' = t.links
    /\ userLinks' = {l \in userLinks : t.roles[l.role].live}
    /\ granted' = granted \cap t.links

\* The next migration and its record, in one transaction.
Apply ==
    LET n == Lowest(ToApply(migrate.target)) IN
    /\ migrate.pc = "apply"
    /\ ToApply(migrate.target) # {}
    /\ Len(Applied(n).roles) <= MaxRoles
    /\ Rows(Applied(n))
    /\ applied' = applied \cup {n}
    /\ UNCHANGED <<migrate, held, torn>>

\* The reversal deletes the links it finds, and then what they refer to ...
ReverseLinks ==
    /\ migrate.pc = "reverse"
    /\ ToReverse(migrate.target) # {}
    /\ migrate' = [pc |-> "commit", target |-> migrate.target,
                   users |-> userLinks, links |-> links]
    /\ UNCHANGED <<applied, roles, codes, links, userLinks, held, torn, granted>>

\* A link that was committed since, to a row that is to go.
Referred(t) ==
    \/ \E l \in userLinks \ migrate.users : ~t.roles[l.role].live
    \/ \E l \in links \ migrate.links : ~t.roles[l[1]].live \/ l[2] \notin t.codes

\* ... and commits, unless such a link is there: then it fails as a whole.
Reverse ==
    LET n == Highest(ToReverse(migrate.target)) IN
    /\ migrate.pc = "commit"
    /\ IF Referred(Reversed(n))
       THEN /\ migrate' = Idle
            /\ UNCHANGED <<roles, codes, links, userLinks, torn, granted>>
       ELSE /\ Rows(Reversed(n))
            /\ torn' = torn \cup {n}
            /\ migrate' = At("unrecord", migrate.target)
    /\ UNCHANGED <<applied, held>>

Unrecord ==
    LET n == Highest(ToReverse(migrate.target)) IN
    /\ migrate.pc = "unrecord"
    /\ applied' = applied \ {n}
    /\ torn' = torn \ {n}
    /\ migrate' = At("reverse", migrate.target)
    /\ UNCHANGED <<roles, codes, links, userLinks, held, granted>>

\* Nothing is left to do (or, of this instance, no key).
Migrated ==
    /\ \/ migrate.pc = "reverse" /\ ToReverse(migrate.target) = {}
       \/ /\ migrate.pc = "apply"
          /\ \A n \in ToApply(migrate.target) :
                n = Lowest(ToApply(migrate.target)) => Len(Applied(n).roles) > MaxRoles
    /\ migrate' = Idle
    /\ UNCHANGED <<applied, roles, codes, links, userLinks, held, torn, granted>>

MigrateStep == Apply \/ ReverseLinks \/ Reverse \/ Unrecord \/ Migrated

-----------------------------------------------------------------------------
(* Requests and commands that link a user to a role: register and          *)
(* bootstrap_admin look it up by its name, assign_role by the key a client *)
(* has learnt, however long ago.                                           *)

\* Refused at once when there is no such role.
FindRole(r, name) ==
    /\ held[r].pc = "new"
    /\ held' = [held EXCEPT ![r] =
                  IF Named(name) = {} THEN [pc |-> "ended"]
                  ELSE [pc |-> "found", meant |-> name, role |-> CHOOSE k \in Named(name) : TRUE]]
    /\ UNCHANGED <<applied, roles, codes, links, userLinks, migrate, torn, granted>>

FindRoleByKey(r, k) ==
    /\ held[r].pc = "new"
    /\ held' = [held EXCEPT ![r] =
                  IF k \notin Live THEN [pc |-> "ended"]
                  ELSE [pc |-> "found", meant |-> roles[k].name, role |-> k]]
    /\ UNCHANGED <<applied, roles, codes, links, userLinks, migrate, torn, granted>>

\* Fault: UserRole.role without its constraint in the database.
RoleMayBeGone(k) == TRUE

\* The foreign key of UserRole.role.
RoleIsThere(k) == k \in Live

\* The link, alone or with its account, is committed or fails.
LinkUser(r) ==
    /\ held[r].pc = "found"
    /\ userLinks' = IF RoleIsThere(held[r].role)
                    THEN userLinks \cup {[by |-> r, role |-> held[r].role, meant |-> held[r].meant]}
                    ELSE userLinks
    /\ held' = [held EXCEPT ![r] = [pc |-> "ended"]]
    /\ UNCHANGED <<applied, roles, codes, links, migrate, torn, granted>>

\* A request fails between its statements.
FailRequest(r) ==
    /\ held[r].pc = "found"
    /\ held' = [held EXCEPT ![r] = [pc |-> "ended"]]
    /\ UNCHANGED <<applied, roles, codes, links, userLinks, migrate, torn, granted>>

\* agrant_permission, idempotent.
GrantPermission(k, code) ==
    /\ k \in Live /\ code \in codes
    /\ links' = links \cup {<<k, code>>}
    /\ granted' = granted \cup {<<k, code>>}
    /\ UNCHANGED <<applied, roles, codes, userLinks, migrate, held, torn>>

RequestStep ==
    \E r \in Request :
        \/ \E name \in RoleName : FindRole(r, name)
        \/ \E k \in DOMAIN roles : FindRoleByKey(r, k)
        \/ LinkUser(r)
        \/ FailRequest(r)

-----------------------------------------------------------------------------
(* Interruptions: what was not committed is rolled back.                   *)

MigrateLost == migrate' = Idle

RequestsLost ==
    held' = [r \in Request |-> IF held[r].pc = "found" THEN [pc |-> "ended"] ELSE held[r]]

RowsStay == UNCHANGED <<applied, roles, codes, links, userLinks, torn, granted>>

-----------------------------------------------------------------------------
(* Properties                                                              *)

Held ==
    {NoRole, [pc |-> "ended"]} \cup [pc : {"found"}, role : Key, meant : RoleName]

Commands ==
    {Idle} \cup [pc : {"apply", "reverse", "unrecord"}, target : {1} \cup Migration]

CatalogTypeOK ==
    /\ applied \subseteq Migration
    /\ roles \in Seq([name : RoleName, live : BOOLEAN]) /\ Len(roles) <= MaxRoles
    /\ codes \subseteq Catalog
    /\ links \subseteq (DOMAIN roles) \X Catalog
    /\ userLinks \subseteq [by : Request, role : DOMAIN roles, meant : RoleName]
    /\ migrate \in Commands \/ migrate.pc = "commit"
    /\ held \in [Request -> Held]
    /\ torn \subseteq applied
    /\ granted \subseteq links

\* The links of a catalogue with the migrations of A.
LinksOf(A) ==
    IF 2 \notin A THEN {}
    ELSE (Named("admin") \X Seeded)
         \cup (IF 6 \in A THEN Named("admin") \X {AuditRead} ELSE {})
         \cup (IF 5 \in A THEN {} ELSE Named("user") \X {UserRead})

\* Whatever path of applying, reversing, failing and retrying led here, the
\* rows are those of the migrations in force: the recorded ones but one whose
\* reversal is not recorded yet.  More is there only if it was granted.
RowsAreTheMigrations ==
    LET inForce == applied \ torn IN
    /\ {roles[k].name : k \in Live} = IF 2 \in inForce THEN RoleName ELSE {}
    /\ \A name \in RoleName : Cardinality(Named(name)) <= 1
    /\ codes = (IF 2 \in inForce THEN Seeded ELSE {})
               \cup (IF 6 \in inForce THEN {AuditRead} ELSE {})
    /\ links = LinksOf(inForce) \cup granted

\* With every migration recorded, and none reversed behind its record, the
\* catalogue is that of permissions.py: administrators hold every permission,
\* the default role none that was not granted to it.
HeadIsTheCatalog ==
    applied = Migration /\ torn = {} =>
        /\ codes = Catalog
        /\ \A k \in Named("admin"), code \in Catalog : <<k, code>> \in links
        /\ \A k \in Named("user"), code \in Catalog :
              <<k, code>> \in links => <<k, code>> \in granted
        /\ Named("admin") # {} /\ Named("user") # {}

\* Who is linked to a role is linked to one that is there and is the one that
\* was meant, however long its key was held and whatever was reversed and
\* seeded anew meanwhile.
LinksHold ==
    \A l \in userLinks : l.role \in Live /\ roles[l.role].name = l.meant
=============================================================================
