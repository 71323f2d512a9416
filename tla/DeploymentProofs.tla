-------------------------- MODULE DeploymentProofs --------------------------
(***************************************************************************)
(* Theorems about Deployment.  The server's invariant says that the        *)
(* history of late attempts is empty while a wait sleeps; the catalogue's  *)
(* says which rows there are for the migrations in force, that what is     *)
(* recorded was applied in order, and that the key a request holds is      *)
(* still the one it looked up.                                             *)
(***************************************************************************)
EXTENDS Deployment, FiniteSetTheorems, SequenceTheorems, TLAPS

-----------------------------------------------------------------------------
(* The server.  An attempt at the deadline or later is the last of its wait: *)
(* the failure that follows it sees the deadline passed.                     *)

\* A late attempt is the last: the deadline has passed, and no sleep follows.
LateInv ==
    /\ late <= 1
    /\ late > 0 => waited >= Timeout
    /\ pc = "asleep" => late = 0

\* The inductive invariant of the server.
ServerInv == ServerTypeOK /\ LateInv

\* Before the container starts, no attempt was made.
LEMMA ServerInit == ASSUME Init PROVE ServerInv
<1> USE OptionsAssumption
<1> QED BY DEF Init, InitServer, ServerInv, ServerTypeOK, LateInv

\* Every step of wait_for_db, gunicorn and the lifespan handler keeps the
\* server's invariant.
LEMMA ServerKept == ASSUME ServerInv, ServerStep PROVE ServerInv'
<1> USE OptionsAssumption DEF ServerInv, ServerTypeOK, LateInv
<1>1. CASE StartContainer
  BY <1>1 DEF StartContainer, AttemptAt
<1>2. CASE Connect
  BY <1>2 DEF Connect
<1>3. CASE GiveUpOrSleep
  BY <1>3 DEF GiveUpOrSleep, Overdue
<1>4. CASE Wake
  BY <1>4 DEF Wake, AttemptAt
<1>5. CASE Lifespan
  BY <1>5 DEF Lifespan, Boot
<1>6. CASE LoseWorker
  BY <1>6 DEF LoseWorker
<1>7. CASE Stop
  BY <1>7 DEF Stop
<1>8. CASE Tick
  BY <1>8 DEF Tick
<1> QED BY <1>1, <1>2, <1>3, <1>4, <1>5, <1>6, <1>7, <1>8 DEF ServerStep

\* The rest of the deployment leaves the server alone or flips the database.
LEMMA ServerInvariant == ASSUME ServerInv, [Next]_vars PROVE ServerInv'
<1>1. CASE Server
  BY <1>1, ServerKept DEF Server
<1>2. CASE Database
  BY <1>2 DEF Database, FlipDatabase, ServerInv, ServerTypeOK, LateInv
<1>3. CASE Serve \/ Grant \/ Operator \/ Command
  BY <1>3 DEF Serve, Grant, Operator, Command, Connected, ServerInv, ServerTypeOK, LateInv
<1>4. CASE UNCHANGED vars
  BY <1>4 DEF vars, ServerInv, ServerTypeOK, LateInv
<1> QED BY <1>1, <1>2, <1>3, <1>4 DEF Next

\* A wait makes at most one attempt at the deadline or later: it is tested
\* after each attempt only, and the sleep may pass it.
THEOREM OneAttemptIsLate == Spec => []OneLateAttempt
<1>1. Init => ServerInv BY ServerInit
<1>2. ServerInv /\ [Next]_vars => ServerInv' BY ServerInvariant
<1>3. ServerInv => OneLateAttempt BY DEF ServerInv, LateInv, OneLateAttempt
<1> QED BY <1>1, <1>2, <1>3, PTL DEF Spec

-----------------------------------------------------------------------------
(* The catalogue.                                                          *)

\* The migrations whose rows are there: the recorded ones but one whose
\* reversal is not recorded yet.
InForce == applied \ torn

\* Migrations are applied lowest first and reversed highest first.
InOrder == applied \in {{}, {2}, {2, 5}, {2, 5, 6}}

\* What the command is at is there to be done.
CommandInv ==
    /\ migrate.pc \in {"idle", "apply", "reverse", "commit", "unrecord"}
    /\ migrate.pc # "idle" => migrate.target \in {1} \cup Migration
    /\ migrate.pc \in {"commit", "unrecord"} => ToReverse(migrate.target) # {}
    /\ migrate.pc = "unrecord" => Highest(ToReverse(migrate.target)) \in torn

\* One role of each name while 0002 is in force, none otherwise.
RolesInv ==
    /\ 2 \notin InForce => Live = {}
    /\ 2 \in InForce => \A name \in RoleName : \E k \in Live : roles[k].name = name
    /\ \A j, k \in Live : roles[j].name = roles[k].name => j = k

\* The permissions are those of the migrations in force.
CodesInv ==
    codes = (IF 2 \in InForce THEN Seeded ELSE {})
            \cup (IF 6 \in InForce THEN {AuditRead} ELSE {})

\* So are the links, but for those granted, and no link dangles.
LinksInv ==
    /\ links = LinksOf(InForce) \cup granted
    /\ granted \subseteq Live \X codes

\* A key a request holds has always been that of the role it was to be: keys
\* are not reused and names do not change.
HeldInv ==
    \A r \in Request : held[r].pc = "found" =>
        held[r].role \in DOMAIN roles /\ roles[held[r].role].name = held[r].meant

\* The inductive invariant of the catalogue.
CatalogInv ==
    /\ CatalogTypeOK
    /\ InOrder
    /\ CommandInv
    /\ RolesInv
    /\ CodesInv
    /\ LinksInv
    /\ HeldInv
    /\ LinksHold

\* An empty database, where no migration is recorded.
LEMMA CatalogInit == ASSUME Init PROVE CatalogInv
<1> USE CodesAssumption, MaxRolesAssumption DEF Init, InitCatalog, Idle, NoRole
<1>1. CatalogTypeOK
  BY DEF CatalogTypeOK, Commands, Held
<1>2. InOrder /\ CommandInv
  BY DEF InOrder, CommandInv
<1>3. RolesInv /\ CodesInv
  BY DEF RolesInv, CodesInv, InForce, Live
<1>4. LinksInv
  BY DEF LinksInv, InForce, LinksOf
<1>5. HeldInv /\ LinksHold
  BY DEF HeldInv, LinksHold
<1> QED BY <1>1, <1>2, <1>3, <1>4, <1>5 DEF CatalogInv

-----------------------------------------------------------------------------
(* What each migration makes of rows that obey the invariant.              *)

\* A role row as get_or_create inserts it.
Role(name) == [name |-> name, live |-> TRUE]

\* 0002 is applied where there is no role: it inserts two.
LEMMA Seeding ==
  ASSUME CatalogInv, Live = {}
  PROVE  LET new == Len(roles) + 1
             t == seed_roles_and_permissions
         IN  /\ t.roles = Append(Append(roles, Role("admin")), Role("user"))
             /\ t.codes = codes \cup Seeded
             /\ t.links = links \cup ({new} \X Seeded) \cup ({new + 1} \X {UserRead})
<1> DEFINE one == Append(roles, Role("admin"))
           two == Append(Append(roles, Role("admin")), Role("user"))
           new == Len(roles) + 1
<1>1. roles \in Seq([name : RoleName, live : BOOLEAN])
  BY DEF CatalogInv, CatalogTypeOK
<1>2. \A k \in DOMAIN roles : ~roles[k].live
  BY DEF Live
<1>3. /\ new \in Nat
      /\ DOMAIN roles = 1 .. new - 1
      /\ DOMAIN one = 1 .. new
      /\ one[new] = Role("admin")
      /\ \A k \in DOMAIN roles : one[k] = roles[k]
  BY <1>1 DEF Role, RoleName
<1>4. /\ DOMAIN two = 1 .. new + 1
      /\ two[new] = Role("admin")
      /\ two[new + 1] = Role("user")
      /\ \A k \in DOMAIN roles : two[k] = roles[k]
  BY <1>1 DEF Role, RoleName
<1>5. WithRole(roles, "admin") = one
  BY <1>2 DEF WithRole, KeysNamed, Role
<1>6. WithRole(one, "user") = two
  <2>1. KeysNamed(one, "user") = {}
    BY <1>2, <1>3 DEF KeysNamed, Role
  <2> QED BY <2>1 DEF WithRole, Role
<1>7. KeysNamed(two, "admin") = {new} /\ KeysNamed(two, "user") = {new + 1}
  BY <1>2, <1>3, <1>4 DEF KeysNamed, Role
<1>8. WithRoles(roles) = two
  BY <1>5, <1>6 DEF WithRoles
<1> QED BY <1>7, <1>8 DEF seed_roles_and_permissions

-----------------------------------------------------------------------------
(* The plan of a command.                                                  *)

\* migrate applies 0002, 0005 and 0006 in this order.
LEMMA NextToApply ==
  ASSUME InOrder, NEW target \in {1} \cup Migration, ToApply(target) # {}
  PROVE  LET n == Lowest(ToApply(target))
         IN  \/ applied = {} /\ n = 2
             \/ applied = {2} /\ n = 5
             \/ applied = {2, 5} /\ n = 6
<1> DEFINE S == ToApply(target)
<1> USE DEF InOrder, ToApply, Migration
<1>1. CASE applied = {}
  <2>1. 2 \in S /\ \A k \in S : 2 <= k BY <1>1
  <2> QED BY <1>1, <2>1 DEF Lowest
<1>2. CASE applied = {2}
  <2>1. 5 \in S /\ \A k \in S : 5 <= k BY <1>2
  <2> QED BY <1>2, <2>1 DEF Lowest
<1>3. CASE applied = {2, 5}
  <2>1. 6 \in S /\ \A k \in S : 6 <= k BY <1>3
  <2> QED BY <1>3, <2>1 DEF Lowest
<1> QED BY <1>1, <1>2, <1>3

\* migrate reverses what is recorded in the opposite order.
LEMMA NextToReverse ==
  ASSUME InOrder, NEW target \in {1} \cup Migration, ToReverse(target) # {}
  PROVE  LET n == Highest(ToReverse(target))
         IN  \/ applied = {2} /\ n = 2
             \/ applied = {2, 5} /\ n = 5
             \/ applied = {2, 5, 6} /\ n = 6
<1> DEFINE S == ToReverse(target)
<1> USE DEF InOrder, ToReverse, Migration
<1>1. CASE applied = {2}
  <2>1. 2 \in S /\ \A k \in S : 2 >= k BY <1>1
  <2> QED BY <1>1, <2>1 DEF Highest
<1>2. CASE applied = {2, 5}
  <2>1. 5 \in S /\ \A k \in S : 5 >= k BY <1>2
  <2> QED BY <1>2, <2>1 DEF Highest
<1>3. CASE applied = {2, 5, 6}
  <2>1. 6 \in S /\ \A k \in S : 6 >= k BY <1>3
  <2> QED BY <1>3, <2>1 DEF Highest
<1> QED BY <1>1, <1>2, <1>3

-----------------------------------------------------------------------------
(* A migration's step: the rows, the record and the holders of keys.       *)

\* The invariant of what is stored, and of the keys requests hold.
StoredInv ==
    /\ roles \in Seq([name : RoleName, live : BOOLEAN]) /\ Len(roles) <= MaxRoles
    /\ codes \subseteq Catalog
    /\ links \subseteq (DOMAIN roles) \X Catalog
    /\ userLinks \subseteq [by : Request, role : DOMAIN roles, meant : RoleName]
    /\ granted \subseteq links
    /\ RolesInv
    /\ CodesInv
    /\ LinksInv
    /\ HeldInv
    /\ LinksHold

\* The rows by their keys.
LEMMA RoleRows ==
  ASSUME StoredInv
  PROVE  /\ Len(roles) \in Nat /\ DOMAIN roles = 1 .. Len(roles)
         /\ DOMAIN roles \subseteq Key
         /\ \A k \in DOMAIN roles : roles[k].name \in RoleName
<1> DEFINE S == [name : RoleName, live : BOOLEAN]
<1>1. roles \in Seq(S) /\ Len(roles) <= MaxRoles
  BY DEF StoredInv
<1>2. Len(roles) \in Nat /\ roles \in [1 .. Len(roles) -> S]
  <2> HIDE DEF S
  <2> QED BY <1>1, LenProperties
<1> QED BY <1>1, <1>2, MaxRolesAssumption DEF Key

\* What is stored obeys the catalogue's invariant.
LEMMA StoredFromCatalog == ASSUME CatalogInv PROVE StoredInv
BY DEF CatalogInv, CatalogTypeOK, StoredInv

\* 0002, applied to an empty catalogue.
LEMMA ApplySeed ==
  ASSUME CatalogInv, applied = {}, Rows(Applied(2)), applied' = {2},
         torn' = torn, held' = held, Len(Applied(2).roles) <= MaxRoles
  PROVE  StoredInv'
<1> DEFINE new == Len(roles) + 1
<1> USE CodesAssumption, MaxRolesAssumption
<1>1. torn = {} /\ InForce = {} /\ InForce' = {2}
  BY DEF CatalogInv, CatalogTypeOK, InForce
<1>2. Live = {} /\ codes = {} /\ granted = {} /\ links = {} /\ userLinks = {}
  BY <1>1 DEF CatalogInv, RolesInv, CodesInv, LinksInv, LinksOf, LinksHold
<1>3. /\ roles' = Append(Append(roles, Role("admin")), Role("user"))
      /\ codes' = Seeded
      /\ links' = ({new} \X Seeded) \cup ({new + 1} \X {UserRead})
      /\ granted' = {} /\ userLinks' = {}
      /\ Len(roles') <= MaxRoles
  BY <1>2, Seeding DEF Rows, Applied
<1>4. roles \in Seq([name : RoleName, live : BOOLEAN])
  BY DEF CatalogInv, CatalogTypeOK
<1>5. /\ roles' \in Seq([name : RoleName, live : BOOLEAN])
      /\ new \in Nat /\ DOMAIN roles' = 1 .. new + 1
      /\ DOMAIN roles = 1 .. new - 1
      /\ roles'[new] = Role("admin") /\ roles'[new + 1] = Role("user")
      /\ \A k \in DOMAIN roles : roles'[k] = roles[k]
  BY <1>3, <1>4 DEF Role, RoleName
<1>6. Live' = {new, new + 1}
  BY SMTT(30), <1>2, <1>5 DEF Live, Role
<1>7. RolesInv'
  BY <1>1, <1>5, <1>6 DEF RolesInv, Role, RoleName
<1>8. CodesInv' /\ codes' \subseteq Catalog
  BY <1>1, <1>3 DEF CodesInv, Catalog
<1>9. LinksInv' /\ links' \subseteq (DOMAIN roles') \X Catalog
  <2>1. Named("admin")' = {new} /\ Named("user")' = {new + 1}
    BY <1>5, <1>6 DEF Named, KeysNamed, Live, Role
  <2> QED BY <1>1, <1>3, <1>5, <2>1 DEF LinksInv, LinksOf, Catalog
<1>10. HeldInv'
  BY <1>5 DEF HeldInv, CatalogInv
<1>11. LinksHold' /\ granted' \subseteq links'
  BY <1>3 DEF LinksHold
<1>12. userLinks' \subseteq [by : Request, role : DOMAIN roles', meant : RoleName]
  BY <1>3
<1> QED BY <1>3, <1>5, <1>7, <1>8, <1>9, <1>10, <1>11, <1>12 DEF StoredInv

\* A migration that leaves the roles alone leaves alone who refers to them.
LEMMA RolesStay ==
  ASSUME StoredInv, NEW t, t.roles = roles, Rows(t), held' = held
  PROVE  /\ roles' = roles /\ codes' = t.codes /\ links' = t.links
         /\ granted' = granted \cap t.links
         /\ userLinks' = userLinks
         /\ HeldInv' /\ LinksHold'
         /\ Live' = Live
         /\ \A name : Named(name)' = Named(name)
<1>1. roles' = roles /\ codes' = t.codes /\ links' = t.links
      /\ granted' = granted \cap t.links
  BY DEF Rows
<1>2. userLinks' = userLinks
  BY DEF Rows, StoredInv, LinksHold, Live
<1>3. HeldInv'
  BY <1>1 DEF StoredInv, HeldInv
<1>4. Live' = Live /\ \A name : Named(name)' = Named(name)
  BY <1>1 DEF Live, Named, KeysNamed
<1>5. LinksHold'
  BY <1>1, <1>2, <1>4 DEF StoredInv, LinksHold
<1> QED BY <1>1, <1>2, <1>3, <1>4, <1>5

\* No role has two names.
LEMMA NamesDiffer ==
  /\ Named("admin") \cap Named("user") = {}
  /\ Named("admin") \subseteq Live /\ Named("user") \subseteq Live
BY DEF Named, KeysNamed, Live

\* 0005 takes user.read from the default role and keeps everything else.
LEMMA ApplyRemoveUserRead ==
  ASSUME CatalogInv, applied = {2}, Rows(Applied(5)), applied' = {2, 5},
         torn' = torn, held' = held
  PROVE  StoredInv'
<1> DEFINE t == remove_default_user_admin_permission
<1>1. StoredInv /\ torn \subseteq {2}
  BY StoredFromCatalog DEF CatalogInv, CatalogTypeOK
<1>2. Applied(5) = t /\ t.roles = roles /\ t.codes = codes
      /\ t.links = links \ (Named("user") \X {UserRead})
  BY DEF Applied, remove_default_user_admin_permission, Relinked
<1>3. Rows(t)
  BY <1>2
<1> HIDE DEF t
<1>4. /\ roles' = roles /\ codes' = codes
      /\ links' = links \ (Named("user") \X {UserRead})
      /\ granted' = granted \cap links'
      /\ userLinks' = userLinks
      /\ HeldInv' /\ LinksHold'
      /\ Live' = Live
      /\ \A name : Named(name)' = Named(name)
  BY <1>1, <1>2, <1>3, RolesStay
<1>5. InForce' = InForce \cup {5} /\ InForce \subseteq {2}
  BY <1>1 DEF InForce
<1>6. RolesInv'
  BY <1>1, <1>4, <1>5 DEF StoredInv, RolesInv
<1>7. CodesInv'
  BY <1>1, <1>4, <1>5 DEF StoredInv, CodesInv
<1>8. LinksInv'
  <2>1. links = LinksOf(InForce) \cup granted /\ granted \subseteq Live \X codes
    BY <1>1 DEF StoredInv, LinksInv
  <2>2. LinksOf(InForce) \ (Named("user") \X {UserRead}) = LinksOf(InForce \cup {5})
    BY <1>5, NamesDiffer DEF LinksOf
  <2>3. LinksOf(InForce)' = LinksOf(InForce \cup {5})
    BY <1>4, <1>5 DEF LinksOf
  <2>4. links' = LinksOf(InForce)' \cup granted'
    BY <1>4, <2>1, <2>2, <2>3
  <2>5. granted' \subseteq Live' \X codes'
    BY <1>4, <2>1
  <2> QED BY <2>4, <2>5 DEF LinksInv
<1> QED BY <1>1, <1>4, <1>6, <1>7, <1>8 DEF StoredInv

\* 0006 adds audit.read, linked to the administrators if 0002 is in force.
LEMMA ApplyAuditRead ==
  ASSUME CatalogInv, applied = {2, 5}, Rows(Applied(6)), applied' = {2, 5, 6},
         torn' = torn, held' = held
  PROVE  StoredInv'
<1> DEFINE t == add_audit_read_permission
<1> USE CodesAssumption
<1>1. StoredInv /\ torn \subseteq {2, 5}
  BY StoredFromCatalog DEF CatalogInv, CatalogTypeOK
<1>2. Applied(6) = t /\ t.roles = roles /\ t.codes = codes \cup {AuditRead}
      /\ t.links = links \cup (Named("admin") \X {AuditRead})
  BY DEF Applied, add_audit_read_permission
<1>3. Rows(t)
  BY <1>2
<1> HIDE DEF t
<1>4. /\ roles' = roles /\ codes' = codes \cup {AuditRead}
      /\ links' = links \cup (Named("admin") \X {AuditRead})
      /\ granted' = granted \cap links'
      /\ userLinks' = userLinks
      /\ HeldInv' /\ LinksHold'
      /\ Live' = Live
      /\ \A name : Named(name)' = Named(name)
  BY <1>1, <1>2, <1>3, RolesStay
<1>5. InForce' = InForce \cup {6} /\ InForce \subseteq {2, 5}
  BY <1>1 DEF InForce
<1>6. RolesInv'
  BY <1>1, <1>4, <1>5 DEF StoredInv, RolesInv
<1>7. CodesInv' /\ codes' \subseteq Catalog
  BY <1>1, <1>4, <1>5 DEF StoredInv, CodesInv, Catalog
<1>8. granted' = granted
  BY <1>1, <1>4 DEF StoredInv
<1>9. LinksInv'
  <2>1. links = LinksOf(InForce) \cup granted /\ granted \subseteq Live \X codes
    BY <1>1 DEF StoredInv, LinksInv
  <2>2. 2 \notin InForce => Named("admin") = {}
    BY <1>1, NamesDiffer DEF StoredInv, RolesInv
  <2>3. LinksOf(InForce) \cup (Named("admin") \X {AuditRead}) = LinksOf(InForce \cup {6})
    BY <1>5, <2>2 DEF LinksOf
  <2>4. LinksOf(InForce)' = LinksOf(InForce \cup {6})
    BY <1>4, <1>5 DEF LinksOf
  <2>5. links' = LinksOf(InForce)' \cup granted'
    BY <1>4, <1>8, <2>1, <2>3, <2>4
  <2>6. granted' \subseteq Live' \X codes'
    BY <1>4, <1>8, <2>1
  <2> QED BY <2>5, <2>6 DEF LinksInv
<1>10. links' \subseteq (DOMAIN roles') \X Catalog
  BY <1>1, <1>4, NamesDiffer DEF StoredInv, Live, Catalog
<1> QED BY <1>1, <1>4, <1>6, <1>7, <1>8, <1>9, <1>10 DEF StoredInv

\* 0006 reversed, once or again: audit.read goes with its links.
LEMMA ReverseAuditRead ==
  ASSUME CatalogInv, applied = {2, 5, 6}, Rows(Reversed(6)), applied' = applied,
         torn' = torn \cup {6}, held' = held
  PROVE  StoredInv'
<1> DEFINE t == remove_audit_read_permission
<1> USE CodesAssumption
<1>1. StoredInv /\ torn \subseteq {2, 5, 6}
  BY StoredFromCatalog DEF CatalogInv, CatalogTypeOK
<1>2. Reversed(6) = t /\ t.roles = roles /\ t.codes = codes \ {AuditRead}
      /\ t.links = {l \in links : roles[l[1]].live /\ l[2] \in codes \ {AuditRead}}
  BY DEF Reversed, remove_audit_read_permission, Cascade
<1>3. Rows(t)
  BY <1>2
<1> HIDE DEF t
<1>4. /\ roles' = roles /\ codes' = codes \ {AuditRead}
      /\ links' = {l \in links : roles[l[1]].live /\ l[2] \in codes \ {AuditRead}}
      /\ granted' = granted \cap links'
      /\ userLinks' = userLinks
      /\ HeldInv' /\ LinksHold'
      /\ Live' = Live
      /\ \A name : Named(name)' = Named(name)
  BY <1>1, <1>2, <1>3, RolesStay
<1>5. InForce' = InForce \ {6} /\ InForce \subseteq {2, 5, 6}
  BY <1>1 DEF InForce
<1>6. RolesInv'
  BY <1>1, <1>4, <1>5 DEF StoredInv, RolesInv
<1>7. CodesInv' /\ codes' \subseteq Catalog
  BY <1>1, <1>4, <1>5 DEF StoredInv, CodesInv
<1>8. LinksInv'
  <2>1. links = LinksOf(InForce) \cup granted /\ granted \subseteq Live \X codes
    BY <1>1 DEF StoredInv, LinksInv
  <2>2. codes' = IF 2 \in InForce THEN Seeded ELSE {}
    BY <1>1, <1>4, <1>5 DEF StoredInv, CodesInv
  <2>3. {l \in LinksOf(InForce) : roles[l[1]].live /\ l[2] \in codes'}
            = LinksOf(InForce \ {6})
    BY <1>5, <2>2 DEF LinksOf, Named, KeysNamed
  <2>4. LinksOf(InForce)' = LinksOf(InForce \ {6})
    BY <1>4, <1>5 DEF LinksOf
  <2>5. links' = LinksOf(InForce)' \cup granted'
    <3> DEFINE old == LinksOf(InForce)
               new == LinksOf(InForce \ {6})
    <3>1. links = old \cup granted BY <2>1
    <3>2. new = {l \in old : roles[l[1]].live /\ l[2] \in codes \ {AuditRead}}
      BY <1>4, <2>3
    <3> HIDE DEF old, new
    <3>3. links' = new \cup granted' BY <1>4, <3>1, <3>2
    <3> QED BY <2>4, <3>3 DEF new
  <2>6. granted' \subseteq Live' \X codes'
    BY <1>4, <2>1
  <2> QED BY <2>5, <2>6 DEF LinksInv
<1> QED BY <1>1, <1>4, <1>6, <1>7, <1>8 DEF StoredInv

\* 0005 reversed, once or again: the default role has user.read back.
LEMMA ReverseRemoveUserRead ==
  ASSUME CatalogInv, applied = {2, 5}, Rows(Reversed(5)), applied' = applied,
         torn' = torn \cup {5}, held' = held
  PROVE  StoredInv'
<1> DEFINE t == restore_default_user_admin_permission
<1> USE CodesAssumption
<1>1. StoredInv /\ torn \subseteq {2, 5}
  BY StoredFromCatalog DEF CatalogInv, CatalogTypeOK
<1>2. Reversed(5) = t /\ t.roles = roles /\ t.codes = codes
      /\ t.links = links \cup (Named("user") \X (codes \cap {UserRead}))
  BY DEF Reversed, restore_default_user_admin_permission, Relinked
<1>3. Rows(t)
  BY <1>2
<1> HIDE DEF t
<1>4. /\ roles' = roles /\ codes' = codes
      /\ links' = links \cup (Named("user") \X (codes \cap {UserRead}))
      /\ granted' = granted \cap links'
      /\ userLinks' = userLinks
      /\ HeldInv' /\ LinksHold'
      /\ Live' = Live
      /\ \A name : Named(name)' = Named(name)
  BY <1>1, <1>2, <1>3, RolesStay
<1>5. InForce' = InForce \ {5} /\ InForce \subseteq {2, 5}
  BY <1>1 DEF InForce
<1>6. RolesInv'
  BY <1>1, <1>4, <1>5 DEF StoredInv, RolesInv
<1>7. CodesInv'
  BY <1>1, <1>4, <1>5 DEF StoredInv, CodesInv
<1>8. granted' = granted
  BY <1>1, <1>4 DEF StoredInv
<1>9. LinksInv'
  <2>1. links = LinksOf(InForce) \cup granted /\ granted \subseteq Live \X codes
    BY <1>1 DEF StoredInv, LinksInv
  <2>2. IF 2 \in InForce THEN UserRead \in codes ELSE Named("user") = {}
    BY <1>1, NamesDiffer DEF StoredInv, RolesInv, CodesInv
  <2>3. LinksOf(InForce) \cup (Named("user") \X (codes \cap {UserRead}))
            = LinksOf(InForce \ {5})
    BY <1>5, <2>2 DEF LinksOf
  <2>4. LinksOf(InForce)' = LinksOf(InForce \ {5})
    BY <1>4, <1>5 DEF LinksOf
  <2>5. links' = LinksOf(InForce)' \cup granted'
    <3> DEFINE old == LinksOf(InForce)
               new == LinksOf(InForce \ {5})
               more == Named("user") \X (codes \cap {UserRead})
    <3>1. links = old \cup granted /\ old \cup more = new BY <2>1, <2>3
    <3>2. links' = links \cup more BY <1>4
    <3> HIDE DEF old, new, more
    <3>3. links' = new \cup granted BY <3>1, <3>2
    <3> QED BY <1>8, <2>4, <3>3 DEF new
  <2>6. granted' \subseteq Live' \X codes'
    BY <1>4, <1>8, <2>1
  <2> QED BY <2>5, <2>6 DEF LinksInv
<1>10. links' \subseteq (DOMAIN roles') \X Catalog
  BY <1>1, <1>4, NamesDiffer DEF StoredInv, Live
<1> QED BY <1>1, <1>4, <1>6, <1>7, <1>8, <1>9, <1>10 DEF StoredInv

\* 0002 is reversed when no other migration is recorded: everything goes.
LEMMA ReverseSeed ==
  ASSUME CatalogInv, applied = {2}, Rows(Reversed(2)), applied' = applied,
         torn' = torn \cup {2}, held' = held
  PROVE  StoredInv'
<1> DEFINE dead == [k \in DOMAIN roles |-> [name |-> roles[k].name, live |-> FALSE]]
<1> USE CodesAssumption
<1>1. StoredInv /\ torn \subseteq {2}
  BY StoredFromCatalog DEF CatalogInv, CatalogTypeOK
<1>2. InForce \subseteq {2} /\ InForce' = {}
  BY <1>1 DEF InForce
<1>3. codes \subseteq Seeded
  BY <1>1, <1>2 DEF StoredInv, CodesInv
<1> HIDE DEF dead
<1>4. roles' = dead /\ codes' = {} /\ links' = {}
      /\ userLinks' = {l \in userLinks : dead[l.role].live}
  <2>1. codes \ Seeded = {}
    BY <1>3
  <2>2. Reversed(2) = Cascade(dead, codes \ Seeded)
    BY DEF Reversed, unseed_roles_and_permissions, dead
  <2>3. /\ Reversed(2).roles = dead
        /\ Reversed(2).codes = codes \ Seeded
        /\ Reversed(2).links = {l \in links : dead[l[1]].live /\ l[2] \in codes \ Seeded}
    BY <2>2 DEF Cascade
  <2> QED BY <2>1, <2>3 DEF Rows
<1>5. roles \in Seq([name : RoleName, live : BOOLEAN])
  BY <1>1 DEF StoredInv
<1>6. /\ dead \in Seq([name : RoleName, live : BOOLEAN])
      /\ Len(dead) = Len(roles)
      /\ DOMAIN dead = DOMAIN roles
      /\ \A k \in DOMAIN dead : ~dead[k].live /\ dead[k].name = roles[k].name
  <2> DEFINE S == [name : RoleName, live : BOOLEAN]
  <2>1. /\ Len(roles) \in Nat /\ DOMAIN roles = 1 .. Len(roles)
        /\ \A k \in DOMAIN roles : roles[k].name \in RoleName
    BY <1>1, RoleRows
  <2>2. dead \in [1 .. Len(roles) -> S]
    BY <2>1 DEF dead
  <2>3. dead \in Seq(S) /\ Len(dead) = Len(roles)
    <3> HIDE DEF S
    <3> QED BY <2>1, <2>2
  <2> QED BY <2>1, <2>2, <2>3 DEF dead
<1>7. granted' = {}
  BY <1>4 DEF Rows
<1>8. userLinks' = {}
  <2>1. \A l \in userLinks : ~dead[l.role].live
    BY <1>1, <1>6 DEF StoredInv
  <2> QED BY <1>4, <2>1
<1>9. Live' = {}
  BY <1>4, <1>6 DEF Live
<1>10. RolesInv' /\ CodesInv' /\ LinksInv'
  BY <1>2, <1>4, <1>5, <1>7, <1>9 DEF RolesInv, CodesInv, LinksInv, LinksOf
<1>11. HeldInv'
  BY <1>1, <1>4, <1>6 DEF StoredInv, HeldInv
<1>12. LinksHold'
  BY <1>8 DEF LinksHold
<1> QED BY <1>1, <1>4, <1>5, <1>6, <1>7, <1>8, <1>10, <1>11, <1>12 DEF StoredInv

-----------------------------------------------------------------------------
(* Every step keeps the catalogue's invariant.                             *)

\* What is stored and held does not depend on the command or the server.
LEMMA StoredStays ==
  ASSUME StoredInv,
         UNCHANGED <<roles, codes, links, userLinks, granted, held>>,
         InForce' = InForce
  PROVE  StoredInv'
<1>1. /\ Live' = Live /\ \A name : Named(name)' = Named(name)
  BY DEF Live, Named, KeysNamed
<1>2. LinksOf(InForce)' = LinksOf(InForce)
  BY <1>1 DEF LinksOf
<1>3. RolesInv' /\ CodesInv'
  BY <1>1 DEF StoredInv, RolesInv, CodesInv
<1>4. LinksInv'
  BY <1>1, <1>2 DEF StoredInv, LinksInv
<1>5. HeldInv' /\ LinksHold'
  BY <1>1 DEF StoredInv, HeldInv, LinksHold
<1> QED BY <1>3, <1>4, <1>5 DEF StoredInv

\* The rest of the invariant: the record of migrations, the command, the
\* requests' own types.
ControlInv ==
    /\ applied \subseteq Migration
    /\ torn \subseteq applied
    /\ InOrder
    /\ CommandInv
    /\ migrate \in Commands \/ migrate.pc = "commit"
    /\ held \in [Request -> Held]

\* The invariant speaks of what is stored and of what runs.
LEMMA CatalogSplit == CatalogInv => ControlInv /\ StoredInv
BY DEF CatalogInv, CatalogTypeOK, ControlInv, StoredInv

\* Both parts after a step are the invariant after it.
LEMMA CatalogJoin == ASSUME ControlInv', StoredInv' PROVE CatalogInv'
BY DEF CatalogInv, CatalogTypeOK, ControlInv, StoredInv

\* The forms of a command, and those that owe no more than their target.
LEMMA CommandForms ==
  /\ Idle \in Commands /\ Idle.pc = "idle"
  /\ \A target \in {1} \cup Migration, how \in {"apply", "reverse", "unrecord"} :
        At(how, target) \in Commands /\ At(how, target).pc = how
        /\ At(how, target).target = target
BY DEF Commands, Idle, At

\* A command that begins, goes on to the next migration or ends.
LEMMA CommandPlain ==
  ASSUME \/ migrate' = Idle
         \/ \E target \in {1} \cup Migration, how \in {"apply", "reverse"} :
                migrate' = At(how, target)
  PROVE  CommandInv' /\ migrate' \in Commands
<1>1. CASE migrate' = Idle
  <2>1. migrate'.pc = "idle" BY <1>1, CommandForms
  <2> QED BY <1>1, <2>1, CommandForms DEF CommandInv
<1>2. ASSUME NEW target \in {1} \cup Migration, NEW how \in {"apply", "reverse"},
             migrate' = At(how, target)
      PROVE  CommandInv' /\ migrate' \in Commands
  <2>1. migrate'.pc = how /\ migrate'.target = target /\ migrate' \in Commands
    BY <1>2, CommandForms
  <2> QED BY <2>1 DEF CommandInv
<1> QED BY <1>1, <1>2

\* A migration applied keeps the catalogue's invariant.
LEMMA ApplyKept == ASSUME CatalogInv, Apply PROVE CatalogInv'
<1> DEFINE n == Lowest(ToApply(migrate.target))
<1>1. ControlInv /\ StoredInv
  BY CatalogSplit
<1>2. migrate.target \in {1} \cup Migration /\ migrate \in Commands
  BY <1>1 DEF Apply, ControlInv, CommandInv
<1>3. \/ applied = {} /\ n = 2
      \/ applied = {2} /\ n = 5
      \/ applied = {2, 5} /\ n = 6
  BY <1>1, <1>2, NextToApply DEF Apply, ControlInv
<1>4. /\ Rows(Applied(n)) /\ Len(Applied(n).roles) <= MaxRoles
      /\ applied' = applied \cup {n} /\ torn' = torn
      /\ held' = held /\ migrate' = migrate /\ migrate.pc = "apply"
  BY DEF Apply
<1> HIDE DEF n
<1>5. StoredInv'
  <2>1. CASE applied = {} /\ n = 2
    BY <1>4, <2>1, ApplySeed
  <2>2. CASE applied = {2} /\ n = 5
    BY <1>4, <2>2, ApplyRemoveUserRead
  <2>3. CASE applied = {2, 5} /\ n = 6
    BY <1>4, <2>3, ApplyAuditRead
  <2> QED BY <1>3, <2>1, <2>2, <2>3
<1>6. ControlInv'
  <2>1. InOrder' /\ applied' \subseteq Migration /\ torn' \subseteq applied'
    BY <1>1, <1>3, <1>4 DEF InOrder, Migration, ControlInv
  <2>2. CommandInv'
    BY <1>2, <1>4 DEF CommandInv
  <2> QED BY <1>1, <1>2, <1>4, <2>1, <2>2 DEF ControlInv
<1> QED BY <1>5, <1>6, CatalogJoin

\* The links a reversal finds change nothing yet.
LEMMA ReverseLinksKept == ASSUME CatalogInv, ReverseLinks PROVE CatalogInv'
<1>1. ControlInv /\ StoredInv
  BY CatalogSplit
<1>2. StoredInv'
  BY <1>1, StoredStays DEF ReverseLinks, InForce
<1>3. /\ migrate'.pc = "commit" /\ migrate'.target = migrate.target
      /\ applied' = applied /\ torn' = torn /\ held' = held
      /\ migrate.pc = "reverse" /\ ToReverse(migrate.target) # {}
  BY DEF ReverseLinks
<1>4. ToReverse(migrate.target)' = ToReverse(migrate.target)
  BY <1>3 DEF ToReverse
<1>5. CommandInv'
  BY <1>1, <1>3, <1>4 DEF ControlInv, CommandInv
<1>6. ControlInv'
  BY <1>1, <1>3, <1>5 DEF ControlInv, InOrder
<1> QED BY <1>2, <1>6, CatalogJoin

\* A reversal that commits tears its migration; one that fails changes nothing.
LEMMA ReverseKept == ASSUME CatalogInv, Reverse PROVE CatalogInv'
<1> DEFINE n == Highest(ToReverse(migrate.target))
<1>1. ControlInv /\ StoredInv
  BY CatalogSplit
<1>2. migrate.target \in {1} \cup Migration /\ ToReverse(migrate.target) # {}
  BY <1>1 DEF Reverse, ControlInv, CommandInv
<1>3. \/ applied = {2} /\ n = 2
      \/ applied = {2, 5} /\ n = 5
      \/ applied = {2, 5, 6} /\ n = 6
  BY <1>1, <1>2, NextToReverse DEF ControlInv
<1>4. applied' = applied /\ held' = held
  BY DEF Reverse
<1>5. CASE Referred(Reversed(n))
  <2>1. migrate' = Idle /\ UNCHANGED <<roles, codes, links, userLinks, torn, granted>>
    BY <1>5 DEF Reverse
  <2>2. StoredInv'
    BY <1>1, <1>4, <2>1, StoredStays DEF InForce
  <2>3. ControlInv'
    BY <1>1, <1>4, <2>1, CommandPlain DEF ControlInv, InOrder
  <2> QED BY <2>2, <2>3, CatalogJoin
<1>6. CASE ~Referred(Reversed(n))
  <2>1. /\ Rows(Reversed(n)) /\ torn' = torn \cup {n}
        /\ migrate' = At("unrecord", migrate.target)
    BY <1>6 DEF Reverse
  <2>2. /\ migrate' \in Commands /\ migrate'.pc = "unrecord"
        /\ migrate'.target = migrate.target
    BY <1>2, <2>1, CommandForms
  <2>3. ToReverse(migrate.target)' = ToReverse(migrate.target)
    BY <1>4, <2>2 DEF ToReverse
  <2>4. CommandInv'
    BY <1>2, <2>1, <2>2, <2>3 DEF CommandInv
  <2> HIDE DEF n
  <2>5. StoredInv'
    <3>1. CASE applied = {2} /\ n = 2
      BY <1>4, <2>1, <3>1, ReverseSeed
    <3>2. CASE applied = {2, 5} /\ n = 5
      BY <1>4, <2>1, <3>2, ReverseRemoveUserRead
    <3>3. CASE applied = {2, 5, 6} /\ n = 6
      BY <1>4, <2>1, <3>3, ReverseAuditRead
    <3> QED BY <1>3, <3>1, <3>2, <3>3
  <2>6. InOrder' /\ applied' \subseteq Migration /\ torn' \subseteq applied'
    BY <1>1, <1>3, <1>4, <2>1 DEF ControlInv, InOrder
  <2>7. ControlInv'
    BY <1>1, <1>4, <2>2, <2>4, <2>6 DEF ControlInv
  <2> QED BY <2>5, <2>7, CatalogJoin
<1> QED BY <1>5, <1>6

\* The record of a torn migration goes, and the rows are those of the others.
LEMMA UnrecordKept == ASSUME CatalogInv, Unrecord PROVE CatalogInv'
<1> DEFINE n == Highest(ToReverse(migrate.target))
<1>1. ControlInv /\ StoredInv
  BY CatalogSplit
<1>2. migrate.target \in {1} \cup Migration /\ ToReverse(migrate.target) # {} /\ n \in torn
  BY <1>1 DEF Unrecord, ControlInv, CommandInv
<1>3. \/ applied = {2} /\ n = 2
      \/ applied = {2, 5} /\ n = 5
      \/ applied = {2, 5, 6} /\ n = 6
  BY <1>1, <1>2, NextToReverse DEF ControlInv
<1>4. /\ applied' = applied \ {n} /\ torn' = torn \ {n}
      /\ migrate' = At("reverse", migrate.target)
      /\ UNCHANGED <<roles, codes, links, userLinks, held, granted>>
  BY DEF Unrecord
<1> HIDE DEF n
<1>5. StoredInv'
  BY <1>1, <1>2, <1>4, StoredStays DEF InForce
<1>6. CommandInv' /\ migrate' \in Commands
  BY <1>2, <1>4, CommandPlain
<1>7. InOrder' /\ applied' \subseteq Migration /\ torn' \subseteq applied'
  BY <1>1, <1>3, <1>4 DEF ControlInv, InOrder
<1>8. ControlInv'
  BY <1>1, <1>4, <1>6, <1>7 DEF ControlInv
<1> QED BY <1>5, <1>8, CatalogJoin

\* A command begins, ends or is lost.
LEMMA CommandChanges ==
  ASSUME CatalogInv, UNCHANGED <<applied, roles, codes, links, userLinks, held, torn, granted>>,
         \/ migrate' = Idle
         \/ \E target \in {1} \cup Migration, how \in {"apply", "reverse"} :
                migrate' = At(how, target)
         \/ migrate' = migrate
  PROVE  CatalogInv'
<1>1. ControlInv /\ StoredInv
  BY CatalogSplit
<1>2. StoredInv'
  BY <1>1, StoredStays DEF InForce
<1>3. CommandInv' /\ (migrate' \in Commands \/ migrate'.pc = "commit")
  <2>1. CASE migrate' = migrate
    BY <1>1, <2>1 DEF ControlInv, CommandInv, ToReverse, Highest
  <2> QED BY <2>1, CommandPlain
<1>4. ControlInv'
  BY <1>1, <1>3 DEF ControlInv, InOrder
<1> QED BY <1>2, <1>4, CatalogJoin

\* agrant_permission adds a link of its own.
LEMMA GrantKept ==
  ASSUME CatalogInv, NEW k, NEW code \in Catalog, GrantPermission(k, code)
  PROVE  CatalogInv'
<1>1. ControlInv /\ StoredInv
  BY CatalogSplit
<1>2. /\ k \in Live /\ code \in codes
      /\ links' = links \cup {<<k, code>>} /\ granted' = granted \cup {<<k, code>>}
      /\ UNCHANGED <<applied, roles, codes, userLinks, migrate, held, torn>>
  BY DEF GrantPermission
<1>3. /\ InForce' = InForce /\ Live' = Live
      /\ \A name : Named(name)' = Named(name)
  BY <1>2 DEF InForce, Live, Named, KeysNamed
<1>4. LinksOf(InForce)' = LinksOf(InForce)
  BY <1>3 DEF LinksOf
<1>5. LinksInv' /\ granted' \subseteq links' /\ links' \subseteq (DOMAIN roles') \X Catalog
  <2> DEFINE old == LinksOf(InForce)
  <2>1. links = old \cup granted /\ granted \subseteq Live \X codes
        /\ links \subseteq (DOMAIN roles) \X Catalog
    BY <1>1 DEF StoredInv, LinksInv
  <2>2. k \in DOMAIN roles
    BY <1>2 DEF Live
  <2> HIDE DEF old
  <2>3. links' = old \cup granted' /\ granted' \subseteq Live' \X codes'
    BY <1>2, <1>3, <2>1
  <2>4. LinksInv'
    BY <1>4, <2>3 DEF LinksInv, old
  <2>5. granted' \subseteq links'
    BY <2>3
  <2>6. links' \subseteq (DOMAIN roles') \X Catalog
    BY <1>2, <2>1, <2>2
  <2> QED BY <2>4, <2>5, <2>6
<1>6. RolesInv' /\ CodesInv' /\ HeldInv' /\ LinksHold'
  BY <1>1, <1>2, <1>3 DEF StoredInv, RolesInv, CodesInv, HeldInv, LinksHold
<1>7. StoredInv'
  BY <1>1, <1>2, <1>5, <1>6 DEF StoredInv
<1>8. ControlInv'
  BY <1>1, <1>2 DEF ControlInv, InOrder, CommandInv, ToReverse, Highest
<1> QED BY <1>7, <1>8, CatalogJoin

\* The requests: a key that is looked up, a link that is made.
LEMMA RequestsKept ==
  ASSUME CatalogInv, held' \in [Request -> Held], HeldInv',
         userLinks' \subseteq [by : Request, role : DOMAIN roles, meant : RoleName],
         LinksHold',
         UNCHANGED <<applied, roles, codes, links, migrate, torn, granted>>
  PROVE  CatalogInv'
<1>1. ControlInv /\ StoredInv
  BY CatalogSplit
<1>2. /\ InForce' = InForce /\ Live' = Live
      /\ \A name : Named(name)' = Named(name)
  BY DEF InForce, Live, Named, KeysNamed
<1>3. LinksOf(InForce)' = LinksOf(InForce)
  BY <1>2 DEF LinksOf
<1>4. RolesInv' /\ CodesInv' /\ LinksInv'
  BY <1>1, <1>2, <1>3 DEF StoredInv, RolesInv, CodesInv, LinksInv
<1>5. StoredInv'
  BY <1>1, <1>4 DEF StoredInv
<1>6. ControlInv'
  BY <1>1 DEF ControlInv, InOrder, CommandInv, ToReverse, Highest
<1> QED BY <1>5, <1>6, CatalogJoin

\* register, assign_role and bootstrap_admin keep the catalogue's invariant.
LEMMA RequestStepKept == ASSUME CatalogInv, RequestStep PROVE CatalogInv'
<1>1. ControlInv /\ StoredInv
  BY CatalogSplit
<1>2. /\ held \in [Request -> Held] /\ HeldInv /\ LinksHold
      /\ userLinks \subseteq [by : Request, role : DOMAIN roles, meant : RoleName]
      /\ DOMAIN roles \subseteq Key
      /\ \A k \in DOMAIN roles : roles[k].name \in RoleName
  BY <1>1, RoleRows DEF ControlInv, StoredInv
<1> DEFINE found(name, k) == [pc |-> "found", meant |-> name, role |-> k]
           ended == [pc |-> "ended"]
<1>3. /\ ended \in Held /\ ended.pc # "found"
      /\ \A name \in RoleName, k \in DOMAIN roles :
            found(name, k) \in Held /\ found(name, k).role = k /\ found(name, k).meant = name
  BY <1>2 DEF Held
<1> HIDE DEF found, ended
<1>4. ASSUME NEW r \in Request, held' = [held EXCEPT ![r] = ended],
             UNCHANGED <<applied, roles, codes, links, userLinks, migrate, torn, granted>>
      PROVE  CatalogInv'
  <2>1. held' \in [Request -> Held] /\ HeldInv'
    BY <1>2, <1>3, <1>4 DEF HeldInv
  <2>2. LinksHold'
    BY <1>2, <1>4 DEF LinksHold, Live
  <2> QED BY <1>2, <1>4, <2>1, <2>2, RequestsKept
<1>5. ASSUME NEW r \in Request, NEW name \in RoleName, NEW k \in DOMAIN roles,
             roles[k].name = name, held' = [held EXCEPT ![r] = found(name, k)],
             UNCHANGED <<applied, roles, codes, links, userLinks, migrate, torn, granted>>
      PROVE  CatalogInv'
  <2>1. held' \in [Request -> Held] /\ HeldInv'
    BY <1>2, <1>3, <1>5 DEF HeldInv
  <2>2. LinksHold'
    BY <1>2, <1>5 DEF LinksHold, Live
  <2> QED BY <1>2, <1>5, <2>1, <2>2, RequestsKept
<1>6. ASSUME NEW r \in Request, NEW name \in RoleName, FindRole(r, name)
      PROVE  CatalogInv'
  <2>1. CASE Named(name) = {}
    BY <1>4, <1>6, <2>1 DEF FindRole, ended
  <2>2. CASE Named(name) # {}
    <3> DEFINE k == CHOOSE k \in Named(name) : TRUE
    <3>1. k \in DOMAIN roles /\ roles[k].name = name
      BY <2>2 DEF Named, KeysNamed
    <3>2. held' = [held EXCEPT ![r] = found(name, k)]
          /\ UNCHANGED <<applied, roles, codes, links, userLinks, migrate, torn, granted>>
      BY <1>6, <2>2 DEF FindRole, found
    <3> HIDE DEF k
    <3> QED BY <1>5, <3>1, <3>2
  <2> QED BY <2>1, <2>2
<1>7. ASSUME NEW r \in Request, NEW k \in DOMAIN roles, FindRoleByKey(r, k)
      PROVE  CatalogInv'
  <2>1. CASE k \notin Live
    BY <1>4, <1>7, <2>1 DEF FindRoleByKey, ended
  <2>2. CASE k \in Live
    <3>1. held' = [held EXCEPT ![r] = found(roles[k].name, k)]
          /\ UNCHANGED <<applied, roles, codes, links, userLinks, migrate, torn, granted>>
      BY <1>7, <2>2 DEF FindRoleByKey, found
    <3> QED BY <1>2, <1>5, <3>1
  <2> QED BY <2>1, <2>2
<1>8. ASSUME NEW r \in Request, LinkUser(r)
      PROVE  CatalogInv'
  <2> DEFINE new == [by |-> r, role |-> held[r].role, meant |-> held[r].meant]
  <2>1. /\ held[r].role \in DOMAIN roles /\ roles[held[r].role].name = held[r].meant
        /\ held[r].meant \in RoleName
    BY <1>2, <1>8 DEF LinkUser, HeldInv
  <2>2. new \in [by : Request, role : DOMAIN roles, meant : RoleName]
        /\ new.role = held[r].role /\ new.meant = held[r].meant
    BY <2>1
  <2>3. /\ held' = [held EXCEPT ![r] = ended]
        /\ userLinks' = userLinks \/ (held[r].role \in Live /\ userLinks' = userLinks \cup {new})
        /\ UNCHANGED <<applied, roles, codes, links, migrate, torn, granted>>
    BY <1>8 DEF LinkUser, RoleIsThere, ended
  <2> HIDE DEF new
  <2>4. held' \in [Request -> Held] /\ HeldInv'
    BY <1>2, <1>3, <2>3 DEF HeldInv
  <2>5. LinksHold'
    BY <1>2, <2>1, <2>2, <2>3 DEF LinksHold, Live
  <2>6. userLinks' \subseteq [by : Request, role : DOMAIN roles, meant : RoleName]
    BY <1>2, <2>2, <2>3
  <2> QED BY <2>3, <2>4, <2>5, <2>6, RequestsKept
<1>9. ASSUME NEW r \in Request, FailRequest(r)
      PROVE  CatalogInv'
  BY <1>4, <1>9 DEF FailRequest, ended
<1> QED BY <1>6, <1>7, <1>8, <1>9 DEF RequestStep

\* A lost worker ends the requests that have looked a role up.
LEMMA RequestsLostKept ==
  ASSUME CatalogInv, RequestsLost
  PROVE  held' \in [Request -> Held]
         /\ \A r \in Request : held'[r].pc # "found"
<1>1. held \in [Request -> Held]
  BY DEF CatalogInv, CatalogTypeOK
<1>2. [pc |-> "ended"] \in Held
  BY DEF Held
<1> QED BY <1>1, <1>2 DEF RequestsLost

\* A server that exits or loses its worker takes commands and requests with
\* it, and no row.
LEMMA ServerStepKept == ASSUME CatalogInv, Server PROVE CatalogInv'
<1> DEFINE rows == <<applied, roles, codes, links, userLinks, torn, granted>>
<1>1. UNCHANGED rows /\ (migrate' = Idle \/ migrate' = migrate)
  BY DEF Server, RowsStay, MigrateLost
<1>2. CASE held' = held
  BY <1>1, <1>2, CommandChanges
<1>3. CASE RequestsLost
  <2>1. held' \in [Request -> Held]
        /\ \A r \in Request : held'[r].pc # "found"
    BY <1>3, RequestsLostKept
  <2>2. ControlInv /\ StoredInv
    BY CatalogSplit
  <2>3. CommandInv' /\ (migrate' \in Commands \/ migrate'.pc = "commit")
    <3>1. CASE migrate' = migrate
      BY <1>1, <2>2, <3>1 DEF ControlInv, CommandInv, ToReverse, Highest
    <3> QED BY <1>1, <3>1, CommandPlain
  <2>4. ControlInv'
    BY <1>1, <2>1, <2>2, <2>3 DEF ControlInv, InOrder
  <2>5. HeldInv'
    BY <2>1 DEF HeldInv
  <2>6. /\ InForce' = InForce /\ Live' = Live
        /\ \A name : Named(name)' = Named(name)
    BY <1>1 DEF InForce, Live, Named, KeysNamed
  <2>7. LinksOf(InForce)' = LinksOf(InForce)
    BY <2>6 DEF LinksOf
  <2>8. RolesInv' /\ CodesInv' /\ LinksInv' /\ LinksHold'
    BY <1>1, <2>2, <2>6, <2>7 DEF StoredInv, RolesInv, CodesInv, LinksInv, LinksHold
  <2>9. StoredInv'
    BY <1>1, <2>2, <2>5, <2>8 DEF StoredInv
  <2> QED BY <2>4, <2>9, CatalogJoin
<1> QED BY <1>2, <1>3 DEF Server

\* Every step of the deployment keeps the catalogue's invariant.
LEMMA CatalogInvariant == ASSUME CatalogInv, [Next]_vars PROVE CatalogInv'
<1>1. CASE Server
  BY <1>1, ServerStepKept
<1>2. CASE Database
  BY <1>2, CommandChanges DEF Database, MigrateLost, RowsStay
<1>3. CASE Serve
  BY <1>3, RequestStepKept DEF Serve
<1>4. CASE Grant
  BY <1>4, GrantKept DEF Grant
<1>5. CASE Operator
  <2>1. PICK target \in {1} \cup Migration : Migrate(target)
    BY <1>5 DEF Operator
  <2> QED BY <2>1, CommandChanges DEF Migrate
<1>6. CASE Command
  <2>1. CASE Migrated
    BY <2>1, CommandChanges DEF Migrated
  <2> QED BY <1>6, <2>1, ApplyKept, ReverseLinksKept, ReverseKept, UnrecordKept
      DEF Command, MigrateStep
<1>7. CASE UNCHANGED vars
  BY <1>7, CommandChanges DEF vars
<1> QED BY <1>1, <1>2, <1>3, <1>4, <1>5, <1>6, <1>7 DEF Next

\* The invariant of the catalogue, whatever requests and outages do.
THEOREM CatalogHolds == Spec => []CatalogInv
<1>1. Init => CatalogInv BY CatalogInit
<1>2. CatalogInv /\ [Next]_vars => CatalogInv' BY CatalogInvariant
<1> QED BY <1>1, <1>2, PTL DEF Spec

-----------------------------------------------------------------------------
(* The properties.                                                         *)

\* Every variable of the server and of the catalogue keeps its type, and a
\* migration that is torn is recorded.
THEOREM DeploymentTypeCorrect == Spec => []TypeOK
<1>1. Init => ServerInv BY ServerInit
<1>2. ServerInv /\ [Next]_vars => ServerInv' BY ServerInvariant
<1>3. ServerInv /\ CatalogInv => TypeOK BY DEF ServerInv, CatalogInv, TypeOK
<1> QED BY <1>1, <1>2, <1>3, CatalogHolds, PTL DEF Spec

\* Whoever is linked to a role is linked to one that is there and was meant,
\* however long register, assign_role or bootstrap_admin held its key.
THEOREM UserLinksHold == Spec => []LinksHold
<1>1. CatalogInv => LinksHold BY DEF CatalogInv
<1> QED BY <1>1, CatalogHolds, PTL

\* The name of a role is unique.
LEMMA AtMostOneNamed ==
  ASSUME RolesInv, NEW name
  PROVE  Cardinality(Named(name)) <= 1
<1>1. CASE Named(name) = {}
  BY <1>1, FS_EmptySet
<1>2. CASE Named(name) # {}
  <2>1. PICK k \in Named(name) : TRUE
    BY <1>2
  <2>2. Named(name) = {k}
    BY <2>1 DEF RolesInv, Named, KeysNamed, Live
  <2>3. Cardinality({k}) = 1
    BY FS_Singleton
  <2> QED BY <2>2, <2>3
<1> QED BY <1>1, <1>2

\* Whatever 0002, 0005 and 0006 were applied, reversed, interrupted and
\* retried, the rows are those of the migrations in force.
THEOREM RowsFollowMigrations == Spec => []RowsAreTheMigrations
<1>1. ASSUME CatalogInv PROVE RowsAreTheMigrations
  <2>1. StoredInv
    BY <1>1, StoredFromCatalog
  <2>2. {roles[k].name : k \in Live} = IF 2 \in InForce THEN RoleName ELSE {}
    <3>1. \A k \in Live : roles[k].name \in RoleName
      BY <2>1, RoleRows DEF Live
    <3> QED BY <2>1, <3>1 DEF StoredInv, RolesInv
  <2>3. \A name \in RoleName : Cardinality(Named(name)) <= 1
    BY <2>1, AtMostOneNamed DEF StoredInv
  <2> QED BY <2>1, <2>2, <2>3
      DEF StoredInv, CodesInv, LinksInv, RowsAreTheMigrations, InForce
<1> QED BY <1>1, CatalogHolds, PTL

\* With every migration in force the catalogue is that of permissions.py.
THEOREM HeadHolds == Spec => []HeadIsTheCatalog
<1>1. ASSUME CatalogInv PROVE HeadIsTheCatalog
  <2> SUFFICES ASSUME applied = Migration, torn = {}
               PROVE  /\ codes = Catalog
                      /\ \A k \in Named("admin"), code \in Catalog : <<k, code>> \in links
                      /\ \A k \in Named("user"), code \in Catalog :
                            <<k, code>> \in links => <<k, code>> \in granted
                      /\ Named("admin") # {} /\ Named("user") # {}
    BY DEF HeadIsTheCatalog
  <2>1. InForce = {2, 5, 6}
    BY DEF InForce, Migration
  <2>2. codes = Catalog
    BY <1>1, <2>1 DEF CatalogInv, CodesInv, Catalog
  <2>3. links = (Named("admin") \X Catalog) \cup granted
    <3>1. LinksOf(InForce) = Named("admin") \X Catalog
      BY <2>1 DEF LinksOf, Catalog
    <3> QED BY <1>1, <3>1 DEF CatalogInv, LinksInv
  <2>4. Named("admin") # {} /\ Named("user") # {}
    BY <1>1, <2>1 DEF CatalogInv, RolesInv, Named, KeysNamed, Live, RoleName
  <2> QED BY <2>2, <2>3, <2>4, NamesDiffer
<1> QED BY <1>1, CatalogHolds, PTL
=============================================================================
