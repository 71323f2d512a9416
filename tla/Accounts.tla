------------------------------ MODULE Accounts ------------------------------
(***************************************************************************)
(* The accounts_user and authz_userrole tables and what writes them:       *)
(* registration (AuthService.register, also behind                         *)
(* AdminService.create_user), AdminService.update_user, delete_user and    *)
(* assign_role, bootstrap_admin, and two pages of the Django admin: the    *)
(* form that adds a user and the one that changes a password.  Its change  *)
(* form is no program: it asks for date_joined, which auto_now_add makes   *)
(* not editable, so Django refuses to build it (FieldError).               *)
(*                                                                         *)
(* Only committed rows are in users and links.  A request that has written *)
(* and not committed holds its row ("write") or its new index entry        *)
(* ("commit"); PostgreSQL makes others wait for both.                      *)
(***************************************************************************)
EXTENDS Naturals, FiniteSets

CONSTANTS
    User,        \* primary keys
    Address,     \* email addresses, case apart
    Request,
    Ops,         \* the programs of the instance
    MaxEarlier,  \* bound on the number of accounts there are at first
    None

ASSUME NoneAssumption == None \notin User \cup Address

VARIABLES
    users,       \* the account with each primary key
    links,       \* the roles linked to each account
    added,       \* the keys of accounts the add form has made
    changes,     \* the number of passwords changed so far
    pc,
    req          \* the local variables of each request

tables == <<users, links, added, changes>>
vars == <<tables, pc, req>>

-----------------------------------------------------------------------------
(* Emails and rows                                                         *)

\* An email as it is typed: lower says whether it is in lower case.
Email == [address : Address, lower : BOOLEAN]

normalize_email(e) == [e EXCEPT !.lower = TRUE]

NoEmail == [address |-> None, lower |-> TRUE]

\* Fault: the index is on the email as it is.
SameSpelling(e, f) == e = f

\* Two emails with one entry in the index on Lower(email).
SameEntry(e, f) == e.address = f.address

\* password counts the changes: 0 is the one the account was created with.
NoRow == [state |-> "free", email |-> NoEmail, password |-> 0, staff |-> FALSE]

Account(e, password, staff) ==
    [state |-> "present", email |-> e, password |-> password, staff |-> staff]

Present(u) == users[u].state = "present"

\* staff is is_staff; bootstrap_admin alone sets is_superuser, and always with it.
\* is_active is a subject of AuthSystem.
NoReq == [op |-> "none", user |-> None, email |-> NoEmail, password |-> "keep",
          staff |-> "keep", role |-> "none", row |-> NoRow, stamp |-> 0]

\* Accounts of earlier requests: of the API and bootstrap_admin, which give a role,
\* and the flags only with "admin"; or of the add form, which gives what it is asked.
Init ==
    /\ users \in [User -> {NoRow} \cup {Account(e, 0, b) : e \in Email, b \in BOOLEAN}]
    /\ Cardinality({u \in User : Present(u)}) <= MaxEarlier
    /\ \A u, v \in User : Present(u) /\ Present(v) /\ u # v =>
          ~SameEntry(users[u].email, users[v].email)
    /\ added \in SUBSET {u \in User : Present(u)}
    /\ links \in [User -> SUBSET {"user", "admin"}]
    /\ \A u \in User :
          /\ ~Present(u) => links[u] = {}
          /\ Present(u) /\ u \notin added =>
                /\ users[u].email.lower
                /\ links[u] # {}
                /\ users[u].staff => "admin" \in links[u]
    /\ changes = 0
    /\ pc = [r \in Request |-> "idle"]
    /\ req = [r \in Request |-> NoReq]

Start(r, q, next) ==
    /\ pc[r] = "idle"
    /\ q.op \in Ops
    /\ req' = [req EXCEPT ![r] = q]
    /\ pc' = [pc EXCEPT ![r] = next]

\* A request for an account that is not there.
Refuse(r, op) ==
    /\ pc[r] = "idle"
    /\ op \in Ops
    /\ pc' = [pc EXCEPT ![r] = "missing"]
    /\ UNCHANGED req

GoTo(r, next) == pc' = [pc EXCEPT ![r] = next]

\* An exception leaves the request, and its local variables are gone.
Raise(r, how) ==
    /\ GoTo(r, how)
    /\ req' = [req EXCEPT ![r] = NoReq]

-----------------------------------------------------------------------------
(* What an UPDATE of a request makes of its row                            *)

NewEmail(r) ==
    IF req[r].email = NoEmail THEN users[req[r].user].email ELSE req[r].email

Staff(r, old) == IF req[r].staff = "keep" THEN old ELSE req[r].staff = "on"

\* Fault: a bootstrap saves every field that it has read.
NewRowSaved(r) ==
    LET old == IF req[r].op = "bootstrap" THEN req[r].row ELSE users[req[r].user]
    IN  Account(NewEmail(r),
                IF req[r].password = "new" THEN changes + 1 ELSE old.password,
                Staff(r, old.staff))

NewRow(r) ==
    LET old == users[req[r].user]
    IN  Account(NewEmail(r),
                IF req[r].password = "new" THEN changes + 1 ELSE old.password,
                Staff(r, old.staff))

\* The passwords changed once r has committed.
Changes(r) == IF req[r].password = "new" THEN changes + 1 ELSE changes

\* The role r links, in the same transaction as the account if it writes that.
Roles(r) == {req[r].role} \ {"none"}

-----------------------------------------------------------------------------
(* Waiting                                                                 *)

Holds(r, u) == pc[r] = "write" /\ req[r].user = u

Renames(r) == ~SameEntry(NewEmail(r), users[req[r].user].email)

Inserts(r, u) == pc[r] = "commit" /\ req[r].user = u

\* Whether the index entry of e depends on the end of r's transaction.
InDoubt(r, e) ==
    \/ pc[r] = "commit" /\ SameEntry(req[r].email, e)
    \/ pc[r] = "write" /\ Renames(r) /\ SameEntry(users[req[r].user].email, e)

\* A row lock; an index entry for a new row; one for a changed row.
WaitsFor(r, q) ==
    /\ q # r
    /\ \/ pc[r] = "lock" /\ Holds(q, req[r].user)
       \/ pc[r] = "insert" /\ (InDoubt(q, req[r].email) \/ Inserts(q, req[r].user))
       \/ pc[r] = "write" /\ Renames(r) /\ InDoubt(q, NewEmail(r))

Waits(r) == \E q \in Request : WaitsFor(r, q)

\* Another account has the index entry, or the key of a row to be inserted.
Taken(r) ==
    \E u \in User : Present(u) /\
        IF u = req[r].user THEN pc[r] = "insert"
        ELSE /\ pc[r] = "write" => Renames(r)
             /\ SameEntry(users[u].email, req[r].email)

\* IntegrityError is EmailAlreadyExists for the API, and fatal to the others.
OnConflict(r) == IF req[r].op \in {"register", "update"} THEN "taken" ELSE "failed"

-----------------------------------------------------------------------------
(* Registration                                                            *)

\* The default role is read and the password hashed; the transaction begins.
Register(r, e) ==
    /\ Start(r, [NoReq EXCEPT !.op = "register", !.email = normalize_email(e),
                              !.role = "user"], "insert")
    /\ UNCHANGED tables

\* A new account is of staff only if a bootstrap or a page of the Django admin
\* says so.
Inserted(r) ==
    Account(req[r].email, IF req[r].password = "new" THEN changes + 1 ELSE 0, Staff(r, FALSE))

\* A password page inserts with the key it has read, others with a new one.
KeyFor(r, u) ==
    IF req[r].user # None THEN u = req[r].user
    ELSE users[u].state = "free" /\ ~\E q \in Request : Inserts(q, u)

\* Fault: the INSERT of the account is committed by itself.
InsertAlone(r, u) ==
    /\ pc[r] = "insert"
    /\ ~Waits(r)
    /\ \/ /\ Taken(r)
          /\ Raise(r, OnConflict(r))
          /\ UNCHANGED users
       \/ /\ ~Taken(r)
          /\ KeyFor(r, u)
          /\ req' = [req EXCEPT ![r].user = u]
          /\ users' = [users EXCEPT ![u] = Inserted(r)]
          /\ GoTo(r, "commit")
    /\ UNCHANGED <<links, added, changes>>

InsertUser(r, u) ==
    /\ pc[r] = "insert"
    /\ ~Waits(r)
    /\ \/ /\ Taken(r)
          /\ Raise(r, OnConflict(r))
       \/ /\ ~Taken(r)
          /\ KeyFor(r, u)
          /\ req' = [req EXCEPT ![r].user = u]
          /\ GoTo(r, "commit")
    /\ UNCHANGED tables

\* A registration and a bootstrap link their role in the same transaction.  stamp
\* and added are history variables.
Commit(r) ==
    /\ pc[r] = "commit"
    /\ users' = [users EXCEPT ![req[r].user] = Inserted(r)]
    /\ links' = [links EXCEPT ![req[r].user] = Roles(r)]
    /\ added' = IF req[r].op = "add" THEN added \cup {req[r].user} ELSE added
    /\ changes' = Changes(r)
    /\ req' = [req EXCEPT ![r].stamp = changes']
    /\ GoTo(r, "done")

-----------------------------------------------------------------------------
(* Update                                                                  *)

\* Fault: the new email is written as it was typed.
UpdateAsTyped(r, u, e, password) ==
    /\ e # NoEmail \/ password # "keep"
    /\ Start(r, [NoReq EXCEPT !.op = "update", !.user = u, !.email = e,
                              !.password = password], "lock")
    /\ UNCHANGED tables

\* Only fields that were sent are written; without any the user is read.
Update(r, u, e, password) ==
    /\ e # NoEmail \/ password # "keep"
    /\ Start(r, [NoReq EXCEPT !.op = "update", !.user = u,
                              !.email = IF e = NoEmail THEN e ELSE normalize_email(e),
                              !.password = password], "lock")
    /\ UNCHANGED tables

\* The UPDATE finds its row, waits for it and holds it.  Without it the API and
\* save(update_fields) write nothing; save() inserts what was read.
LockRow(r) ==
    /\ pc[r] = "lock"
    /\ ~Waits(r)
    /\ CASE Present(req[r].user)    -> GoTo(r, "write") /\ UNCHANGED req
         [] req[r].op = "page"       -> GoTo(r, "insert") /\ UNCHANGED req
         [] req[r].op = "update"     -> Raise(r, "missing")
         [] OTHER                    -> Raise(r, "failed")
    /\ UNCHANGED tables

\* Fault: a bootstrap commits its flags before it links the role.
WriteFlags(r) ==
    /\ pc[r] = "write"
    /\ ~Waits(r)
    /\ \/ /\ Taken(r)
          /\ Raise(r, OnConflict(r))
          /\ UNCHANGED <<users, changes>>
       \/ /\ ~Taken(r)
          /\ users' = [users EXCEPT ![req[r].user] = NewRow(r)]
          /\ changes' = Changes(r)
          /\ req' = [req EXCEPT ![r].stamp = changes']
          /\ GoTo(r, IF req[r].op = "bootstrap" THEN "link" ELSE "done")
    /\ UNCHANGED <<links, added>>

\* The index is tested if the email changed; COMMIT, with the role link of a
\* bootstrap.
Write(r) ==
    /\ pc[r] = "write"
    /\ ~Waits(r)
    /\ \/ /\ Taken(r)
          /\ Raise(r, OnConflict(r))
          /\ UNCHANGED tables
       \/ /\ ~Taken(r)
          /\ users' = [users EXCEPT ![req[r].user] = NewRow(r)]
          /\ links' = [links EXCEPT ![req[r].user] = @ \cup Roles(r)]
          /\ changes' = Changes(r)
          /\ req' = [req EXCEPT ![r].stamp = changes']
          /\ GoTo(r, "done")
          /\ UNCHANGED added

-----------------------------------------------------------------------------
(* bootstrap_admin                                                         *)

\* Fault: the account is looked up by its address, found or not.
BootstrapUnchecked(r, e) ==
    /\ Start(r, [NoReq EXCEPT !.op = "bootstrap", !.role = "admin"], "link")
    /\ UNCHANGED tables

\* Flags that are set already are not written; with is_staff set, is_active or
\* is_superuser may still be missing.
Bootstrap(r, e) ==
    LET email == normalize_email(e)
        found == {u \in User : Present(u) /\ users[u].email = email}
        q == [NoReq EXCEPT !.op = "bootstrap", !.role = "admin"]
    IN  /\ \/ /\ found = {}
              /\ Start(r, [q EXCEPT !.email = email, !.staff = "on"], "insert")
           \/ \E u \in found :
                 \/ /\ users[u].staff
                    /\ Start(r, [q EXCEPT !.user = u], "link")
                 \/ Start(r, [q EXCEPT !.user = u, !.row = users[u],
                                       !.staff = IF users[u].staff THEN "keep" ELSE "on"], "lock")
        /\ UNCHANGED tables

-----------------------------------------------------------------------------
(* Role links                                                              *)

\* assign_role looks the account up, and the role, which is there.
Assign(r, u, role) ==
    /\ IF Present(u)
       THEN Start(r, [NoReq EXCEPT !.op = "assign", !.user = u, !.role = role], "link")
       ELSE Refuse(r, "assign")
    /\ UNCHANGED tables

\* get_or_create of the link, and COMMIT, which looks for the account again.
LinkRole(r) ==
    /\ pc[r] = "link"
    /\ \/ /\ Present(req[r].user)
          /\ links' = [links EXCEPT ![req[r].user] = @ \cup Roles(r)]
          /\ GoTo(r, "done")
          /\ UNCHANGED req
       \/ /\ ~Present(req[r].user)
          /\ Raise(r, "failed")
          /\ UNCHANGED links
    /\ UNCHANGED <<users, added, changes>>

-----------------------------------------------------------------------------
(* Deletion, and the Django admin                                          *)

\* The DELETE waits for the row and takes the links with it.
DeleteUser(r, u) ==
    /\ ~\E s \in Request : Holds(s, u)
    /\ \/ /\ ~Present(u)
          /\ Refuse(r, "delete")
          /\ UNCHANGED <<users, links>>
       \/ /\ Present(u)
          /\ Start(r, [NoReq EXCEPT !.op = "delete", !.user = u], "done")
          /\ users' = [users EXCEPT ![u] = [NoRow EXCEPT !.state = "gone"]]
          /\ links' = [links EXCEPT ![u] = {}]
    /\ UNCHANGED <<added, changes>>

\* The add form is posted: the email is kept as it was typed, is_staff is a box to
\* tick, and no role is linked.  The form's own look for the address is made again by
\* the INSERT.  (Django's createsuperuser does the same with a lower-case email.)
AddForm(r, e, staff) ==
    /\ Start(r, [NoReq EXCEPT !.op = "add", !.email = e,
                              !.staff = IF staff THEN "on" ELSE "off"], "insert")
    /\ UNCHANGED tables

\* A password page is posted: the row is read, and set_password and save() will
\* write every field of it with a new password.
PasswordPage(r, u) ==
    /\ Present(u)
    /\ Start(r, [NoReq EXCEPT !.op = "page", !.user = u, !.email = users[u].email,
                              !.row = users[u], !.password = "new",
                              !.staff = IF users[u].staff THEN "on" ELSE "off"], "lock")
    /\ UNCHANGED tables

-----------------------------------------------------------------------------
Ended == {"done", "taken", "missing", "failed"}

\* The process or its connection is lost, or PostgreSQL ends a deadlock: nothing
\* of the transaction stays.
Fail(r) ==
    /\ pc[r] \notin Ended \cup {"idle"}
    /\ Raise(r, "failed")
    /\ UNCHANGED tables

Step(r) ==
    \/ \E u \in User : InsertUser(r, u)
    \/ Commit(r) \/ LockRow(r) \/ Write(r) \/ LinkRole(r)

Next ==
    \E r \in Request :
        \/ \E e \in Email :
              \/ Register(r, e)
              \/ Bootstrap(r, e)
              \/ \E staff \in BOOLEAN : AddForm(r, e, staff)
        \/ \E u \in User :
              \/ \E e \in Email \cup {NoEmail}, password \in {"keep", "new"} :
                    Update(r, u, e, password)
              \/ \E role \in {"user", "admin"} : Assign(r, u, role)
              \/ PasswordPage(r, u)
              \/ DeleteUser(r, u)
        \/ Step(r)
        \/ Fail(r)

Spec == Init /\ [][Next]_vars

-----------------------------------------------------------------------------
(* Properties                                                              *)

Places == Ended \cup {"idle", "insert", "commit", "lock", "write", "link"}

TypeOK ==
    /\ users \in [User -> [state : {"free", "present", "gone"}, email : Email \cup {NoEmail},
                          password : Nat, staff : BOOLEAN]]
    /\ links \in [User -> SUBSET {"user", "admin"}]
    /\ added \subseteq User
    /\ changes \in Nat
    /\ pc \in [Request -> Places]
    /\ \A r \in Request : pc[r] \in {"commit", "lock", "write", "link"} => req[r].user \in User

\* However registrations, renames and the pages of the Django admin overlap, no two
\* accounts have one address in different case.
OneAccountPerAddress ==
    \A u, v \in User : Present(u) /\ Present(v) /\ users[u].email.address = users[v].email.address
        => u = v

Done(r, op, u) == req[r].op = op /\ req[r].user = u /\ pc[r] = "done"

\* A password page that saved an account deleted meanwhile brings it back without
\* its links.
Revived(u) == \E r, d \in Request : Done(r, "page", u) /\ Done(d, "delete", u)

\* No account is without a role, wherever a registration or a bootstrap was cut
\* short or overtaken, but for those the add form made.
NoAccountWithoutRole ==
    \A u \in User : Present(u) => links[u] # {} \/ u \in added \/ Revived(u)

\* A password page that read the account without the flags has saved it.
Demoted(u) == \E p \in Request : Done(p, "page", u) /\ ~req[p].row.staff

\* "Bootstrap one account for Django admin and the API RBAC admin role": the flags
\* come with the role, unless the add form gave them, and a bootstrap that is done has
\* given both.  Only a password page that had read the account before takes the flags
\* back; nothing but a deletion takes the role.
AdministratorsAreWhole ==
    \A u \in User : Present(u) =>
        \/ Revived(u)
        \/ /\ users[u].staff => "admin" \in links[u] \/ u \in added
           /\ \A b \in Request : Done(b, "bootstrap", u) =>
                 "admin" \in links[u] /\ (users[u].staff \/ Demoted(u))

\* Login looks an account up by the canonical email.  It misses only accounts the add
\* form made, and an update of the email repairs them for good, unless a password page
\* that had read the account before puts the typed one back.
LoginFindsAccounts ==
    \A u \in User : Present(u) /\ ~users[u].email.lower =>
        /\ u \in added
        /\ \A r \in Request : Done(r, "update", u) /\ req[r].email # NoEmail =>
              \E p \in Request : Done(p, "page", u) /\ req[p].email = users[u].email

\* A changed password stays until it is changed again, whichever program changed it and
\* whatever others save meanwhile.
PasswordChangesHold ==
    \A r \in Request, u \in User :
        (Done(r, "update", u) \/ Done(r, "page", u)) /\ req[r].password = "new" /\ Present(u)
            => users[u].password >= req[r].stamp

(* What the repository's own words promise.                                *)

\* "email identity is case-insensitive: every value is normalized to lowercase".
EveryEmailIsLowercase ==
    \A u \in User : Present(u) => users[u].email.lower
=============================================================================
