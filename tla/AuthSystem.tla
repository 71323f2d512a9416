----------------------------- MODULE AuthSystem -----------------------------
(***************************************************************************)
(* The use cases of apps/authz/services/auth.py and of administration, as  *)
(* they are awaited: the account row, its role links, refresh-token        *)
(* sessions, access tokens and the blocklist are separate stores, and a    *)
(* request gives way to the others between any two of its steps.           *)
(*                                                                         *)
(* A session is what RefreshTokens shows of a family: how often it was     *)
(* rotated and whether it is live; a rotation holds it from SELECT FOR     *)
(* UPDATE to COMMIT, an UPDATE ends what its snapshot found and nobody     *)
(* rotated meanwhile.  Redis answers here, and a token is refused by the   *)
(* epoch if it was issued before it; outages and the rounding of instants  *)
(* are the subject of AccessTokens.                                        *)
(***************************************************************************)
EXTENDS Naturals

CONSTANTS
    User,
    Session,      \* refresh-token families
    Jti,          \* access tokens
    Role,         \* a role stands for the permissions granted to it as well
    Request,      \* each runs one use case
    Ops,          \* the use cases of the instance
    None

ASSUME NoneAssumption ==
    /\ None \notin User /\ None \notin Session
    /\ None \notin Jti /\ None \notin Request

VARIABLES
    status,       \* of each user: "active", "inactive", "deleted"
    links,        \* the roles linked to each user
    session,
    access,       \* the access tokens issued
    blocked,      \* the bl:jti keys
    epoch,        \* the user_epoch keys, 0 if there is none
    clock,        \* the number of clock reads so far
    pc,
    req           \* the local variables of each request

accounts == <<status, links>>
redis == <<blocked, epoch>>
vars == <<status, links, session, access, blocked, epoch, clock, pc, req>>

-----------------------------------------------------------------------------
NoReq == [op |-> "none", user |-> None, session |-> None, gen |-> 0, jti |-> None,
          role |-> None, at |-> 0, roles |-> {}, permissions |-> {}, snap |-> {},
          began |-> 0, wrote |-> FALSE]

NoAccess == [user |-> None, iat |-> 0, roles |-> {}, permissions |-> {}, by |-> None]
Earlier(u) == [user |-> u, iat |-> 1, roles |-> {}, permissions |-> {}, by |-> None]

Vacant == [user |-> None, gen |-> 0, state |-> "vacant"]
Opened(u) == [user |-> u, gen |-> 0, state |-> "live"]

Issued(j) == access[j].user # None

\* JWTAuth.authenticate: no account is read.
Accepts(j) ==
    /\ Issued(j)
    /\ j \notin blocked
    /\ ~(access[j].iat < epoch[access[j].user])

\* A rotation holds the row it selected for update.
Locked(f) == \E r \in Request : pc[r] = "rotate" /\ req[r].session = f

\* Sessions and tokens of earlier logins may exist; nothing is revoked.
Init ==
    /\ status = [u \in User |-> "active"]
    /\ links \in [User -> SUBSET Role]
    /\ session \in [Session -> {Vacant} \cup {Opened(u) : u \in User}]
    /\ access \in [Jti -> {NoAccess} \cup {Earlier(u) : u \in User}]
    /\ blocked = {}
    /\ epoch = [u \in User |-> 0]
    /\ clock = 1
    /\ pc = [r \in Request |-> "idle"]
    /\ req = [r \in Request |-> NoReq]

\* began is a history variable: when the request took its first step.
Start(r, q, next) ==
    /\ pc[r] = "idle"
    /\ q.op \in Ops
    /\ req' = [req EXCEPT ![r] = [q EXCEPT !.began = clock]]
    /\ pc' = [pc EXCEPT ![r] = next]

GoTo(r, next) == pc' = [pc EXCEPT ![r] = next]

-----------------------------------------------------------------------------
(* Login                                                                   *)

\* Fault: is_active is not tested.
LoginUnchecked(r, u) ==
    /\ Start(r, [NoReq EXCEPT !.op = "login", !.user = u],
             IF status[u] = "deleted" THEN "refused" ELSE "roles")
    /\ UNCHANGED <<accounts, session, access, redis, clock>>

\* aget_credentials, and the tests made on what it returned.
LoginCredentials(r, u) ==
    /\ Start(r, [NoReq EXCEPT !.op = "login", !.user = u],
             IF status[u] = "active" THEN "roles" ELSE "refused")
    /\ UNCHANGED <<accounts, session, access, redis, clock>>

\* The INSERT of a root token; a deleted user violates the foreign key.
CreateSession(r, f) ==
    LET u == req[r].user
    IN  /\ pc[r] = "create"
        /\ session[f] = Vacant
        /\ \/ /\ status[u] # "deleted"
              /\ session' = [session EXCEPT ![f] = Opened(u)]
              /\ req' = [req EXCEPT ![r].session = f]
              /\ GoTo(r, "issue")
           \/ /\ status[u] = "deleted"
              /\ GoTo(r, "refused")
              /\ UNCHANGED <<session, req>>
        /\ UNCHANGED <<accounts, access, redis, clock>>

-----------------------------------------------------------------------------
(* The claims of an access token, read after login or rotation             *)

ReadRoles(r) ==
    /\ pc[r] = "roles"
    /\ req' = [req EXCEPT ![r].roles = links[req[r].user]]
    /\ GoTo(r, "permissions")
    /\ UNCHANGED <<accounts, session, access, redis, clock>>

ReadPermissions(r) ==
    /\ pc[r] = "permissions"
    /\ req' = [req EXCEPT ![r].permissions = links[req[r].user]]
    /\ GoTo(r, IF req[r].op = "login" THEN "create" ELSE "issue")
    /\ UNCHANGED <<accounts, session, access, redis, clock>>

\* Fault: the role names are read again when the token is made.
IssueTokenRereading(r, j) ==
    /\ pc[r] = "issue"
    /\ ~Issued(j)
    /\ clock' = clock + 1
    /\ access' = [access EXCEPT ![j] =
          [user |-> req[r].user, iat |-> clock', roles |-> links[req[r].user],
           permissions |-> req[r].permissions, by |-> r]]
    /\ GoTo(r, "done")
    /\ UNCHANGED <<accounts, session, redis, req>>

\* encode_access_token reads the clock.
IssueToken(r, j) ==
    /\ pc[r] = "issue"
    /\ ~Issued(j)
    /\ clock' = clock + 1
    /\ access' = [access EXCEPT ![j] =
          [user |-> req[r].user, iat |-> clock', roles |-> req[r].roles,
           permissions |-> req[r].permissions, by |-> r]]
    /\ GoTo(r, "done")
    /\ UNCHANGED <<accounts, session, redis, req>>

-----------------------------------------------------------------------------
(* Refresh                                                                 *)

\* A client presents the token of any generation it was given.
RefreshStart(r, f, g) ==
    /\ session[f] # Vacant
    /\ clock' = clock + 1
    /\ Start(r, [NoReq EXCEPT !.op = "refresh", !.session = f, !.gen = g, !.at = clock'],
             "select")
    /\ UNCHANGED <<accounts, session, access, redis>>

Current(r) ==
    LET s == session[req[r].session]
    IN  s.state = "live" /\ s.gen = req[r].gen

\* The outcome of _rotate for the row it has locked: missing; reused; expired
\* or rotated; binding mismatch.
SelectForUpdate(r) ==
    LET f == req[r].session
        s == session[f]
    IN  /\ pc[r] = "select"
        /\ ~(Locked(f) /\ Current(r))
        /\ \/ s.state = "deleted" /\ GoTo(r, "refused") /\ UNCHANGED <<session, req>>
           \/ /\ s.state # "deleted" /\ ~Current(r)
              /\ req' = [req EXCEPT ![r].user = s.user]
              /\ GoTo(r, "snapshot")
              /\ UNCHANGED session
           \/ /\ Current(r)
              /\ GoTo(r, "refused") \/ GoTo(r, "rotate")
              /\ req' = [req EXCEPT ![r].user = s.user]
              /\ UNCHANGED session
           \/ /\ Current(r)
              /\ session' = [session EXCEPT ![f].state = "ended"]
              /\ req' = [req EXCEPT ![r].user = s.user]
              /\ GoTo(r, "epoch")
        /\ UNCHANGED <<accounts, access, redis, clock>>

Rotate(r) ==
    /\ pc[r] = "rotate"
    /\ session' = [session EXCEPT ![req[r].session].gen = @ + 1]
    /\ GoTo(r, "roles")
    /\ UNCHANGED <<accounts, access, redis, clock, req>>

-----------------------------------------------------------------------------
(* Revoking every token of a family or of a user                           *)

Covers(r, f) ==
    CASE req[r].op = "refresh"    -> f = req[r].session
      [] req[r].op = "logout_all" -> session[f].user = req[r].user

Snapshot(r) ==
    /\ pc[r] = "snapshot"
    /\ req' = [req EXCEPT ![r].snap =
          {<<f, session[f].gen>> : f \in {e \in Session : Covers(r, e) /\ session[e].state = "live"}}]
    /\ GoTo(r, "sweep")
    /\ UNCHANGED <<accounts, session, access, redis, clock>>

Sweep(r) ==
    /\ pc[r] = "sweep"
    /\ \A p \in req[r].snap : ~Locked(p[1])
    /\ session' = [f \in Session |->
          IF session[f].state = "live" /\ <<f, session[f].gen>> \in req[r].snap
          THEN [session[f] EXCEPT !.state = "ended"] ELSE session[f]]
    /\ GoTo(r, IF req[r].op = "logout_all" THEN "done" ELSE "epoch")
    /\ UNCHANGED <<accounts, access, redis, clock, req>>

\* Fault: a logout-all answers once the epoch is written.
RevokeUserAlone(r) ==
    /\ pc[r] = "epoch"
    /\ epoch' = [epoch EXCEPT ![req[r].user] = req[r].at]
    /\ req' = [req EXCEPT ![r].wrote = TRUE]
    /\ GoTo(r, "done")
    /\ UNCHANGED <<accounts, session, access, blocked, clock>>

\* BlocklistService.revoke_user; wrote is a history variable.
RevokeUser(r) ==
    /\ pc[r] = "epoch"
    /\ epoch' = [epoch EXCEPT ![req[r].user] = req[r].at]
    /\ req' = [req EXCEPT ![r].wrote = TRUE]
    /\ GoTo(r, IF req[r].op = "logout_all" THEN "snapshot" ELSE "done")
    /\ UNCHANGED <<accounts, session, access, blocked, clock>>

LogoutAllStart(r, j) ==
    /\ Accepts(j)
    /\ Start(r, [NoReq EXCEPT !.op = "logout_all", !.user = access[j].user], "now")
    /\ UNCHANGED <<accounts, session, access, redis, clock>>

LogoutAllNow(r) ==
    /\ pc[r] = "now"
    /\ clock' = clock + 1
    /\ req' = [req EXCEPT ![r].at = clock']
    /\ GoTo(r, "epoch")
    /\ UNCHANGED <<accounts, session, access, redis>>

-----------------------------------------------------------------------------
(* Logout: the access token it is authenticated by, then a refresh token   *)

\* Fault: the router does not pass the token's jti.
LogoutStartWithoutJti(r, j, f, g) ==
    /\ Accepts(j)
    /\ f # None => session[f] # Vacant
    /\ Start(r, [NoReq EXCEPT !.op = "logout", !.session = f, !.gen = g], "block")
    /\ UNCHANGED <<accounts, session, access, redis, clock>>

\* The refresh token is any that was issued, or none that exists.
LogoutStart(r, j, f, g) ==
    /\ Accepts(j)
    /\ f # None => session[f] # Vacant
    /\ Start(r, [NoReq EXCEPT !.op = "logout", !.jti = j, !.session = f, !.gen = g], "block")
    /\ UNCHANGED <<accounts, session, access, redis, clock>>

BlockToken(r) ==
    /\ pc[r] = "block"
    /\ blocked' = blocked \cup {req[r].jti}
    /\ GoTo(r, "lookup")
    /\ UNCHANGED <<accounts, session, access, epoch, clock, req>>

\* An unknown token ends the request without an error.
Lookup(r) ==
    /\ pc[r] = "lookup"
    /\ GoTo(r, IF \E f \in Session : f = req[r].session /\ session[f].state # "deleted"
               THEN "revoke" ELSE "done")
    /\ UNCHANGED <<accounts, session, access, redis, clock, req>>

\* Fault: a rotation under way is not waited for.
RevokeUnlocked(r) ==
    /\ pc[r] = "revoke"
    /\ session' = IF Current(r) /\ ~Locked(req[r].session)
                  THEN [session EXCEPT ![req[r].session].state = "ended"]
                  ELSE session
    /\ GoTo(r, "done")
    /\ UNCHANGED <<accounts, access, redis, clock, req>>

\* arevoke: one row, unless it is revoked already.
Revoke(r) ==
    /\ pc[r] = "revoke"
    /\ ~(Locked(req[r].session) /\ Current(r))
    /\ session' = IF Current(r)
                  THEN [session EXCEPT ![req[r].session].state = "ended"]
                  ELSE session
    /\ GoTo(r, "done")
    /\ UNCHANGED <<accounts, access, redis, clock, req>>

-----------------------------------------------------------------------------
(* Administration                                                          *)

\* UserRepository.aupdate with is_active, its UPDATE.
SetActive(r, u, op) ==
    /\ op \in {"activate", "deactivate"}
    /\ Start(r, [NoReq EXCEPT !.op = op, !.user = u],
             IF status[u] = "deleted" THEN "refused" ELSE "reread")
    /\ status' = IF status[u] = "deleted" THEN status
                 ELSE [status EXCEPT ![u] = IF op = "activate" THEN "active" ELSE "inactive"]
    /\ UNCHANGED <<links, session, access, redis, clock>>

\* The row is read again; without it the user counts as not found, and
\* nothing is revoked.
Reread(r) ==
    /\ pc[r] = "reread"
    /\ \/ /\ status[req[r].user] = "deleted"
          /\ GoTo(r, "refused")
          /\ UNCHANGED <<clock, req>>
       \/ /\ status[req[r].user] # "deleted"
          /\ req[r].op = "activate"
          /\ GoTo(r, "done")
          /\ UNCHANGED <<clock, req>>
       \/ /\ status[req[r].user] # "deleted"
          /\ req[r].op = "deactivate"
          /\ clock' = clock + 1
          /\ req' = [req EXCEPT ![r].at = clock']
          /\ GoTo(r, "epoch")
    /\ UNCHANGED <<accounts, session, access, redis>>

\* The DELETE cascades to role links and refresh tokens.  It waits for a
\* rotation's row, or fails on the row the rotation inserts.
DeleteUser(r, u) ==
    LET held == \E f \in Session : session[f].user = u /\ Locked(f)
        q == [NoReq EXCEPT !.op = "delete", !.user = u]
    IN  /\ \/ /\ status[u] # "deleted" /\ ~held
              /\ Start(r, q, "done")
              /\ status' = [status EXCEPT ![u] = "deleted"]
              /\ links' = [links EXCEPT ![u] = {}]
              /\ session' = [f \in Session |->
                    IF session[f].user = u THEN [session[f] EXCEPT !.state = "deleted"]
                    ELSE session[f]]
           \/ /\ status[u] = "deleted" \/ held
              /\ Start(r, q, "refused")
              /\ UNCHANGED <<status, links, session>>
        /\ UNCHANGED <<access, redis, clock>>

\* get_user, and the role's lookup, which nothing here can make fail.
AssignStart(r, u, x) ==
    /\ Start(r, [NoReq EXCEPT !.op = "assign_role", !.user = u, !.role = x],
             IF status[u] = "deleted" THEN "refused" ELSE "link")
    /\ UNCHANGED <<accounts, session, access, redis, clock>>

\* Fault: the link is written as if the user were still there.
AssignUnchecked(r) ==
    /\ pc[r] = "link"
    /\ links' = [links EXCEPT ![req[r].user] = @ \cup {req[r].role}]
    /\ GoTo(r, "done")
    /\ UNCHANGED <<status, session, access, redis, clock, req>>

\* aget_or_create of the link; a deleted user violates the foreign key.
AssignRole(r) ==
    /\ pc[r] = "link"
    /\ \/ /\ status[req[r].user] # "deleted"
          /\ links' = [links EXCEPT ![req[r].user] = @ \cup {req[r].role}]
          /\ GoTo(r, "done")
       \/ /\ status[req[r].user] = "deleted"
          /\ GoTo(r, "refused")
          /\ UNCHANGED links
    /\ UNCHANGED <<status, session, access, redis, clock, req>>

-----------------------------------------------------------------------------
Ended == {"done", "refused", "failed"}

\* The worker, or a store it talks to, is lost: what was committed stays.
Fail(r) ==
    /\ pc[r] \notin Ended \cup {"idle"}
    /\ GoTo(r, "failed")
    /\ UNCHANGED <<accounts, session, access, redis, clock, req>>

Step(r) ==
    \/ ReadRoles(r) \/ ReadPermissions(r)
    \/ \E f \in Session : CreateSession(r, f)
    \/ \E j \in Jti : IssueToken(r, j)
    \/ SelectForUpdate(r) \/ Rotate(r)
    \/ Snapshot(r) \/ Sweep(r)
    \/ LogoutAllNow(r) \/ RevokeUser(r)
    \/ BlockToken(r) \/ Lookup(r) \/ Revoke(r)
    \/ Reread(r) \/ AssignRole(r)

Next ==
    \E r \in Request :
        \/ \E u \in User : LoginCredentials(r, u) \/ DeleteUser(r, u)
        \/ \E f \in Session : \E g \in 0 .. session[f].gen :
              \/ RefreshStart(r, f, g)
              \/ \E j \in Jti : LogoutStart(r, j, f, g)
        \/ \E j \in Jti : LogoutStart(r, j, None, 0)
        \/ \E j \in Jti : LogoutAllStart(r, j)
        \/ \E u \in User, op \in Ops : SetActive(r, u, op)
        \/ \E u \in User, x \in Role : AssignStart(r, u, x)
        \/ Step(r)
        \/ Fail(r)

Spec == Init /\ [][Next]_vars

-----------------------------------------------------------------------------
(* Properties                                                              *)

PC == Ended \cup {"idle", "roles", "permissions", "create", "issue", "select", "rotate",
                  "snapshot", "sweep", "now", "epoch", "block", "lookup", "revoke", "reread", "link"}

TypeOK ==
    /\ status \in [User -> {"active", "inactive", "deleted"}]
    /\ links \in [User -> SUBSET Role]
    /\ session \in [Session -> [user : User \cup {None}, gen : Nat,
                               state : {"vacant", "live", "ended", "deleted"}]]
    /\ access \in [Jti -> [user : User \cup {None}, iat : Nat, roles : SUBSET Role,
                          permissions : SUBSET Role, by : Request \cup {None}]]
    /\ blocked \in SUBSET Jti
    /\ epoch \in [User -> Nat]
    /\ clock \in Nat
    /\ pc \in [Request -> PC]

\* Whether a revocation of the user whose clock was read before d's has
\* overwritten the epoch: AccessTokens is about those.
Overwritten(d) ==
    \E q \in Request : req[q].wrote /\ req[q].user = req[d].user /\ req[q].at < req[d].at

Opener(j) == access[j].by

\* While a user is deactivated, an access token of theirs works only if a
\* refresh issued it after the revocation, which does not look at the
\* account, or a login that had read the account before the UPDATE.
DeactivatedDoors ==
    \A d \in Request, j \in Jti :
        /\ req[d].op = "deactivate" /\ req[d].wrote /\ ~Overwritten(d)
        /\ status[req[d].user] = "inactive"
        /\ \A q \in Request : req[q].op = "activate" => req[q].user # req[d].user
        /\ access[j].user = req[d].user /\ Accepts(j)
        => /\ Opener(j) # None
           /\ access[j].iat > req[d].at
           /\ \/ req[Opener(j)].op = "refresh"
              \/ req[Opener(j)].op = "login" /\ req[Opener(j)].began < req[d].at

\* The permissions in a token cover its roles: assignments only grow, and
\* the roles are read first.  Only the deletion of the user between the two
\* reads takes permissions away.
ClaimsCoverRoles ==
    \A j \in Jti : Issued(j) =>
        \/ access[j].roles \subseteq access[j].permissions
        \/ status[access[j].user] = "deleted"

\* A deletion leaves no session and no role link behind, whatever login,
\* rotation or assignment overlapped it.
NothingOutlivesAUser ==
    \A u \in User : status[u] = "deleted" =>
        /\ links[u] = {}
        /\ \A f \in Session : session[f].user = u => session[f].state = "deleted"

\* A logout that answered has ended both tokens: the access token is
\* refused, and the refresh token cannot be exchanged, nor is it being.
EndsItsTokens(r) ==
    req[r].op = "logout" /\ pc[r] = "done" =>
        /\ ~Accepts(req[r].jti)
        /\ req[r].session # None => ~Current(r)

\* A logout-all, a reuse or a deactivation refuses the access tokens older
\* than it once it has written the epoch, whether or not it gets any further.
EndsOlderAccess(r) ==
    req[r].wrote /\ ~Overwritten(r) =>
        \A j \in Jti :
            access[j].user = req[r].user /\ Accepts(j) => access[j].iat > req[r].at

\* The request that made the current token of a session.
Makes(q, f) ==
    /\ req[q].session = f
    /\ \/ req[q].op = "login" /\ session[f].gen = 0
       \/ req[q].op = "refresh" /\ session[f].gen = req[q].gen + 1

\* It has yet to issue an access token for it, or issued it after r's instant.
Survives(r, f) ==
    \E q \in Request :
        /\ Makes(q, f)
        /\ \/ pc[q] \in {"roles", "permissions", "issue", "failed"}
           \/ \E j \in Jti : Opener(j) = q /\ access[j].iat > req[r].at

\* A logout-all that answered has ended the sessions, but for a login or a
\* rotation that came after the ones it found.
EndsAllSessions(r) ==
    req[r].op = "logout_all" /\ pc[r] = "done" =>
        \A f \in Session :
            session[f].user = req[r].user /\ session[f].state = "live" => Survives(r, f)

\* What a logout ends has ended, whatever overlapped it.
LogoutIsWhole ==
    \A r \in Request : EndsItsTokens(r) /\ EndsOlderAccess(r) /\ EndsAllSessions(r)

(* What the repository's own words promise.                                *)

\* "admin deactivate/ban (is_active=False) -> bump user_epoch -> access
\* tokens die at once".
DeactivatedIsOut ==
    \A d \in Request, j \in Jti :
        /\ req[d].op = "deactivate" /\ pc[d] = "done"
        /\ status[req[d].user] = "inactive"
        /\ access[j].user = req[d].user
        => ~Accepts(j)
=============================================================================
