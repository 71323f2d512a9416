-------------------------- MODULE AuthSystemProofs --------------------------
(***************************************************************************)
(* Proofs about the use cases side by side, for any number of users,       *)
(* sessions, tokens, roles and requests.                                   *)
(***************************************************************************)
EXTENDS AuthSystem, TLAPS

Inputs ==
    [op : Ops \cup {"none"}, user : User \cup {None}, session : Session \cup {None},
     gen : Nat, jti : Jti \cup {None}, role : Role \cup {None}, at : Nat,
     roles : SUBSET Role, permissions : SUBSET Role, snap : SUBSET (Session \X Nat),
     began : Nat, wrote : BOOLEAN]

SessionRecord ==
    [user : User \cup {None}, gen : Nat, state : {"vacant", "live", "ended", "deleted"}]

AccessRecord ==
    [user : User \cup {None}, iat : Nat, roles : SUBSET Role, permissions : SUBSET Role,
     by : Request \cup {None}]

Typed == TypeOK /\ req \in [Request -> Inputs]

\* A session is vacant or somebody's.
SessionsOwned ==
    \A f \in Session :
        IF session[f].state = "vacant" THEN session[f] = Vacant
        ELSE session[f].user \in User

\* What the place a request has reached says of its inputs.
At(r, places) == pc[r] \in places

ControlOf(r) ==
    /\ At(r, {"idle"}) => req[r] = NoReq
    /\ At(r, {"create"}) => req[r].op = "login"
    /\ At(r, {"roles", "permissions", "issue"}) => req[r].op \in {"login", "refresh"}
    /\ At(r, {"select", "rotate"}) => req[r].op = "refresh" /\ req[r].session \in Session
    /\ At(r, {"snapshot", "sweep"}) => req[r].op \in {"refresh", "logout_all"}
    /\ At(r, {"now"}) => req[r].op = "logout_all"
    /\ At(r, {"epoch"}) => req[r].op \in {"refresh", "logout_all", "deactivate"}
    /\ At(r, {"block", "lookup", "revoke"}) => req[r].op = "logout" /\ req[r].jti \in Jti
    /\ At(r, {"revoke"}) => req[r].session \in Session
    /\ At(r, {"reread"}) => req[r].op \in {"activate", "deactivate"}
    /\ At(r, {"link"}) => req[r].op = "assign_role" /\ req[r].role \in Role
    /\ At(r, {"roles", "permissions", "create", "issue", "rotate", "snapshot", "sweep",
              "now", "epoch", "reread", "link"}) => req[r].user \in User

Control == \A r \in Request : ControlOf(r)

\* A client presents a token it was given.
Presents(r) ==
    req[r].op \in {"refresh", "logout"} /\ req[r].session # None =>
        /\ session[req[r].session].state # "vacant"
        /\ req[r].gen <= session[req[r].session].gen

Presented == \A r \in Request : Presents(r)

\* The roles a request has read are among those it reads permissions for.
ClaimsReadBy(r) ==
    /\ At(r, {"permissions"}) =>
          req[r].roles \subseteq links[req[r].user] \/ status[req[r].user] = "deleted"
    /\ At(r, {"create", "issue"}) =>
          req[r].roles \subseteq req[r].permissions \/ status[req[r].user] = "deleted"

ClaimsRead == \A r \in Request : ClaimsReadBy(r)

\* The first half of a logout holds through the second.
LogoutBlocked ==
    \A r \in Request : req[r].op = "logout" /\ At(r, {"lookup", "revoke", "done"}) =>
        req[r].jti \in blocked

\* A logout that answered left nothing to exchange.
WholeOf(r) ==
    req[r].op = "logout" /\ At(r, {"done"}) /\ req[r].session # None => ~Current(r)

Logouts == LogoutBlocked /\ \A r \in Request : WholeOf(r)

Composed ==
    /\ Typed /\ SessionsOwned /\ Control /\ Presented
    /\ ClaimsRead /\ ClaimsCoverRoles
    /\ NothingOutlivesAUser
    /\ Logouts

-----------------------------------------------------------------------------
LEMMA NoReqTyped == NoReq \in Inputs
BY DEF NoReq, Inputs

\* A use case begins in an idle request, with the inputs it was given.
LEMMA StartSteps ==
    ASSUME Typed, NEW r \in Request, NEW q \in Inputs, NEW next, Start(r, q, next)
    PROVE  /\ req' \in [Request -> Inputs]
           /\ pc[r] = "idle" /\ pc'[r] = next
           /\ q.op \in Ops
           /\ req'[r] = [q EXCEPT !.began = clock]
           /\ \A s \in Request \ {r} : req'[s] = req[s] /\ pc'[s] = pc[s]
<1>1. [q EXCEPT !.began = clock] \in Inputs
  BY DEF Typed, TypeOK, Inputs
<1>. QED BY <1>1 DEF Start, Typed, TypeOK

\* Filling in one input of a request.
LEMMA InputsWith ==
    ASSUME NEW i \in Inputs
    PROVE  /\ \A u \in User \cup {None} : [i EXCEPT !.user = u] \in Inputs
           /\ \A f \in Session : [i EXCEPT !.session = f] \in Inputs
           /\ \A t \in Nat : [i EXCEPT !.at = t] \in Inputs
           /\ \A X \in SUBSET Role : [i EXCEPT !.roles = X] \in Inputs
           /\ \A X \in SUBSET Role : [i EXCEPT !.permissions = X] \in Inputs
           /\ \A S \in SUBSET (Session \X Nat) : [i EXCEPT !.snap = S] \in Inputs
           /\ [i EXCEPT !.wrote = TRUE] \in Inputs
BY ZenonT(60) DEF Inputs

\* The inputs keep their types, whichever of them a step fills in.
LEMMA InputsNext == Typed /\ SessionsOwned /\ Control /\ [Next]_vars
                        => req' \in [Request -> Inputs]
<1>. SUFFICES ASSUME Typed, SessionsOwned, Control, [Next]_vars
              PROVE  req' \in [Request -> Inputs]
  OBVIOUS
<1>. USE DEF Typed
<1>1. ASSUME NEW r \in Request, NEW u \in User, LoginCredentials(r, u)
      PROVE  req' \in [Request -> Inputs]
  <2>. DEFINE q == [NoReq EXCEPT !.op = "login", !.user = u]
  <2>1. q \in Inputs
    BY <1>1 DEF LoginCredentials, Start, NoReq, Inputs, TypeOK
  <2>2. PICK next : Start(r, q, next)
    BY <1>1 DEF LoginCredentials
  <2>. HIDE DEF q
  <2>. QED BY <2>1, <2>2, StartSteps
<1>2. ASSUME NEW r \in Request, NEW u \in User, DeleteUser(r, u)
      PROVE  req' \in [Request -> Inputs]
  <2>. DEFINE q == [NoReq EXCEPT !.op = "delete", !.user = u]
  <2>1. q \in Inputs
    BY <1>2 DEF DeleteUser, Start, NoReq, Inputs, TypeOK
  <2>2. PICK next : Start(r, q, next)
    BY <1>2 DEF DeleteUser
  <2>. HIDE DEF q
  <2>. QED BY <2>1, <2>2, StartSteps
<1>3. ASSUME NEW r \in Request, NEW f \in Session, NEW g \in Nat, RefreshStart(r, f, g)
      PROVE  req' \in [Request -> Inputs]
  <2>. DEFINE q == [NoReq EXCEPT !.op = "refresh", !.session = f, !.gen = g, !.at = clock']
  <2>1. q \in Inputs
    <3>1. clock' \in Nat /\ "refresh" \in Ops
      BY <1>3 DEF RefreshStart, Start, NoReq, TypeOK
    <3>. QED BY <3>1 DEF NoReq, Inputs
  <2>2. PICK next : Start(r, q, next)
    BY <1>3 DEF RefreshStart
  <2>. HIDE DEF q
  <2>. QED BY <2>1, <2>2, StartSteps
<1>4. ASSUME NEW r \in Request, NEW j \in Jti, NEW f \in Session \cup {None}, NEW g \in Nat, LogoutStart(r, j, f, g)
      PROVE  req' \in [Request -> Inputs]
  <2>. DEFINE q == [NoReq EXCEPT !.op = "logout", !.jti = j, !.session = f, !.gen = g]
  <2>1. q \in Inputs
    BY <1>4 DEF LogoutStart, Start, NoReq, Inputs, TypeOK
  <2>2. PICK next : Start(r, q, next)
    BY <1>4 DEF LogoutStart
  <2>. HIDE DEF q
  <2>. QED BY <2>1, <2>2, StartSteps
<1>5. ASSUME NEW r \in Request, NEW j \in Jti, LogoutAllStart(r, j)
      PROVE  req' \in [Request -> Inputs]
  <2>. DEFINE q == [NoReq EXCEPT !.op = "logout_all", !.user = access[j].user]
  <2>1. q \in Inputs
    BY <1>5 DEF LogoutAllStart, Start, NoReq, Inputs, TypeOK
  <2>2. PICK next : Start(r, q, next)
    BY <1>5 DEF LogoutAllStart
  <2>. HIDE DEF q
  <2>. QED BY <2>1, <2>2, StartSteps
<1>6. ASSUME NEW r \in Request, NEW u \in User, NEW op \in Ops, SetActive(r, u, op)
      PROVE  req' \in [Request -> Inputs]
  <2>. DEFINE q == [NoReq EXCEPT !.op = op, !.user = u]
  <2>1. q \in Inputs
    BY <1>6 DEF SetActive, Start, NoReq, Inputs, TypeOK
  <2>2. PICK next : Start(r, q, next)
    BY <1>6 DEF SetActive
  <2>. HIDE DEF q
  <2>. QED BY <2>1, <2>2, StartSteps
<1>7. ASSUME NEW r \in Request, NEW u \in User, NEW x \in Role, AssignStart(r, u, x)
      PROVE  req' \in [Request -> Inputs]
  <2>. DEFINE q == [NoReq EXCEPT !.op = "assign_role", !.user = u, !.role = x]
  <2>1. q \in Inputs
    BY <1>7 DEF AssignStart, Start, NoReq, Inputs, TypeOK
  <2>2. PICK next : Start(r, q, next)
    BY <1>7 DEF AssignStart
  <2>. HIDE DEF q
  <2>. QED BY <2>1, <2>2, StartSteps
<1>8. ASSUME NEW r \in Request, ReadRoles(r)
      PROVE  req' \in [Request -> Inputs]
  <2>1. links[req[r].user] \in SUBSET Role
    BY <1>8 DEF ReadRoles, Control, ControlOf, At, TypeOK
  <2>2. [req[r] EXCEPT !.roles = links[req[r].user]] \in Inputs
    BY <2>1, InputsWith
  <2>. QED BY <1>8, <2>2 DEF ReadRoles
<1>9. ASSUME NEW r \in Request, ReadPermissions(r)
      PROVE  req' \in [Request -> Inputs]
  <2>1. links[req[r].user] \in SUBSET Role
    BY <1>9 DEF ReadPermissions, Control, ControlOf, At, TypeOK
  <2>2. [req[r] EXCEPT !.permissions = links[req[r].user]] \in Inputs
    BY <2>1, InputsWith
  <2>. QED BY <1>9, <2>2 DEF ReadPermissions
<1>10. ASSUME NEW r \in Request, NEW f \in Session, CreateSession(r, f)
      PROVE  req' \in [Request -> Inputs]
  <2>1. [req[r] EXCEPT !.session = f] \in Inputs
    BY InputsWith
  <2>. QED BY <1>10, <2>1 DEF CreateSession
<1>11. ASSUME NEW r \in Request, SelectForUpdate(r)
      PROVE  req' \in [Request -> Inputs]
  <2>1. session[req[r].session].user \in User \cup {None}
    BY <1>11 DEF SelectForUpdate, Control, ControlOf, At, TypeOK
  <2>2. [req[r] EXCEPT !.user = session[req[r].session].user] \in Inputs
    BY <2>1, InputsWith
  <2>. QED BY <1>11, <2>2 DEF SelectForUpdate
<1>12. ASSUME NEW r \in Request, Snapshot(r)
      PROVE  req' \in [Request -> Inputs]
  <2>. DEFINE S == {<<f, session[f].gen>> :
                       f \in {e \in Session : Covers(r, e) /\ session[e].state = "live"}}
  <2>1. S \in SUBSET (Session \X Nat)
    BY DEF TypeOK
  <2>2. req' = [req EXCEPT ![r].snap = S]
    BY <1>12 DEF Snapshot
  <2>. HIDE DEF S
  <2>3. [req[r] EXCEPT !.snap = S] \in Inputs
    BY <2>1, InputsWith
  <2>. QED BY <2>2, <2>3
<1>13. ASSUME NEW r \in Request, LogoutAllNow(r)
      PROVE  req' \in [Request -> Inputs]
  <2>1. clock' \in Nat
    BY <1>13 DEF LogoutAllNow, TypeOK
  <2>2. [req[r] EXCEPT !.at = clock'] \in Inputs
    BY <2>1, InputsWith
  <2>. QED BY <1>13, <2>2 DEF LogoutAllNow
<1>14. ASSUME NEW r \in Request, RevokeUser(r)
      PROVE  req' \in [Request -> Inputs]
  <2>1. [req[r] EXCEPT !.wrote = TRUE] \in Inputs
    BY InputsWith
  <2>. QED BY <1>14, <2>1 DEF RevokeUser
<1>15. ASSUME NEW r \in Request, Reread(r)
      PROVE  req' \in [Request -> Inputs]
  <2>1. clock' \in Nat
    BY <1>15 DEF Reread, TypeOK
  <2>2. [req[r] EXCEPT !.at = clock'] \in Inputs
    BY <2>1, InputsWith
  <2>. QED BY <1>15, <2>2 DEF Reread
<1>16. ASSUME NEW r \in Request,
              Rotate(r) \/ Sweep(r) \/ BlockToken(r) \/ Lookup(r) \/ Revoke(r)
                 \/ AssignRole(r) \/ Fail(r) \/ \E j \in Jti : IssueToken(r, j)
       PROVE  req' \in [Request -> Inputs]
  BY <1>16 DEF Rotate, Sweep, BlockToken, Lookup, Revoke, AssignRole, Fail, IssueToken
<1>17. CASE UNCHANGED vars
  BY <1>17 DEF vars
<1>18. \A f \in Session : 0 .. session[f].gen \subseteq Nat
  BY DEF TypeOK
<1>. QED BY <1>1, <1>2, <1>3, <1>4, <1>5, <1>6, <1>7, <1>8, <1>9, <1>10, <1>11, <1>12, <1>13,
            <1>14, <1>15, <1>16, <1>17, <1>18 DEF Next, Step

\* What a step may do to a session keeps its type.
LEMMA SessionSteps ==
    ASSUME TypeOK, NEW f \in Session
    PROVE  /\ session[f] \in SessionRecord
           /\ [session[f] EXCEPT !.state = "ended"] \in SessionRecord
           /\ [session[f] EXCEPT !.state = "deleted"] \in SessionRecord
           /\ [session[f] EXCEPT !.gen = @ + 1] \in SessionRecord
BY DEF TypeOK, SessionRecord

LEMMA TypedNext == Typed /\ SessionsOwned /\ Control /\ [Next]_vars => Typed'
<1>. SUFFICES ASSUME Typed, SessionsOwned, Control, [Next]_vars PROVE TypeOK'
  BY InputsNext DEF Typed
<1>. USE DEF Typed
<1>. USE DEF TypeOK, PC, Ended, GoTo, Start, accounts, redis
<1>1. ASSUME NEW r \in Request, NEW u \in User, LoginCredentials(r, u) PROVE TypeOK'
  BY <1>1 DEF LoginCredentials
<1>2. ASSUME NEW r \in Request, NEW u \in User, DeleteUser(r, u) PROVE TypeOK'
  <2>1. /\ UNCHANGED <<access, redis, clock>>
        /\ pc' \in [Request -> PC]
    BY <1>2 DEF DeleteUser
  <2>2. /\ status' \in [User -> {"active", "inactive", "deleted"}]
        /\ links' \in [User -> SUBSET Role]
    BY <1>2 DEF DeleteUser
  <2>3. session' \in [Session -> SessionRecord]
    BY <1>2, SessionSteps DEF DeleteUser
  <2>. QED BY <2>1, <2>2, <2>3 DEF SessionRecord
<1>3. ASSUME NEW r \in Request, NEW f \in Session, NEW g \in Nat,
             RefreshStart(r, f, g) \/ \E j \in Jti : LogoutStart(r, j, f, g)
      PROVE  TypeOK'
  <2>1. CASE RefreshStart(r, f, g)
    BY <2>1 DEF RefreshStart
  <2>2. CASE \E j \in Jti : LogoutStart(r, j, f, g)
    BY <2>2 DEF LogoutStart
  <2>. QED BY <1>3, <2>1, <2>2
<1>4. ASSUME NEW r \in Request, NEW j \in Jti,
             LogoutStart(r, j, None, 0) \/ LogoutAllStart(r, j)
      PROVE  TypeOK'
  BY <1>4 DEF LogoutStart, LogoutAllStart
<1>5. ASSUME NEW r \in Request, NEW u \in User, NEW op \in Ops, SetActive(r, u, op)
      PROVE  TypeOK'
  BY <1>5 DEF SetActive
<1>6. ASSUME NEW r \in Request, NEW u \in User, NEW x \in Role, AssignStart(r, u, x)
      PROVE  TypeOK'
  BY <1>6 DEF AssignStart
<1>7. ASSUME NEW r \in Request,
             ReadRoles(r) \/ ReadPermissions(r) \/ Snapshot(r) \/ LogoutAllNow(r)
                \/ Lookup(r) \/ Fail(r)
      PROVE  TypeOK'
  BY <1>7 DEF ReadRoles, ReadPermissions, Snapshot, LogoutAllNow, Lookup, Fail
<1>8. ASSUME NEW r \in Request, NEW f \in Session, CreateSession(r, f) PROVE TypeOK'
  <2>1. req[r].user \in User
    BY <1>8 DEF CreateSession, Control, ControlOf, At
  <2>2. Opened(req[r].user) \in SessionRecord
    BY <2>1 DEF Opened, SessionRecord
  <2>3. session' \in [Session -> SessionRecord]
    BY <1>8, <2>2 DEF CreateSession, SessionRecord
  <2>. QED BY <1>8, <2>3 DEF CreateSession, SessionRecord
<1>9. ASSUME NEW r \in Request, NEW j \in Jti, IssueToken(r, j) PROVE TypeOK'
  <2>1. req[r].user \in User /\ req[r] \in Inputs /\ clock + 1 \in Nat
    BY <1>9 DEF IssueToken, Control, ControlOf, At
  <2>. QED BY <1>9, <2>1 DEF IssueToken, Inputs
<1>10. ASSUME NEW r \in Request, SelectForUpdate(r) PROVE TypeOK'
  <2>1. req[r].session \in Session
    BY <1>10 DEF SelectForUpdate, Control, ControlOf, At
  <2>2. \/ session' = session
        \/ session' = [session EXCEPT ![req[r].session].state = "ended"]
    BY <1>10 DEF SelectForUpdate
  <2>3. session' \in [Session -> SessionRecord]
    <3>1. session \in [Session -> SessionRecord]
      BY DEF SessionRecord
    <3>. QED BY <2>1, <2>2, <3>1, SessionSteps
  <2>4. pc' \in [Request -> PC]
    BY <1>10 DEF SelectForUpdate
  <2>5. UNCHANGED <<accounts, access, redis, clock>>
    BY <1>10 DEF SelectForUpdate
  <2>. QED BY <2>3, <2>4, <2>5 DEF SessionRecord
<1>11. ASSUME NEW r \in Request, Rotate(r) PROVE TypeOK'
  <2>1. req[r].session \in Session
    BY <1>11 DEF Rotate, Control, ControlOf, At
  <2>2. [session[req[r].session] EXCEPT !.gen = @ + 1] \in SessionRecord
    BY <2>1, SessionSteps
  <2>. QED BY <1>11, <2>2 DEF Rotate, SessionRecord
<1>12. ASSUME NEW r \in Request, Sweep(r) PROVE TypeOK'
  <2>1. \A f \in Session : session'[f] = session[f]
                            \/ session'[f] = [session[f] EXCEPT !.state = "ended"]
    BY <1>12 DEF Sweep
  <2>2. session' \in [Session -> SessionRecord]
    <3>1. session' = [f \in Session |-> session'[f]]
      BY <1>12 DEF Sweep
    <3>. QED BY <2>1, <3>1 DEF SessionRecord
  <2>3. pc' \in [Request -> PC] /\ UNCHANGED <<accounts, access, redis, clock>>
    BY <1>12 DEF Sweep, GoTo
  <2>. QED BY <2>2, <2>3 DEF SessionRecord
<1>13. ASSUME NEW r \in Request, RevokeUser(r) PROVE TypeOK'
  <2>1. req[r].at \in Nat
    BY DEF Inputs
  <2>. QED BY <1>13, <2>1 DEF RevokeUser
<1>14. ASSUME NEW r \in Request, BlockToken(r) PROVE TypeOK'
  <2>1. req[r].jti \in Jti
    BY <1>14 DEF BlockToken, Control, ControlOf, At
  <2>. QED BY <1>14, <2>1 DEF BlockToken
<1>15. ASSUME NEW r \in Request, Revoke(r) PROVE TypeOK'
  <2>1. req[r].session \in Session
    BY <1>15 DEF Revoke, Control, ControlOf, At
  <2>2. session' = session \/ session' = [session EXCEPT ![req[r].session].state = "ended"]
    BY <1>15 DEF Revoke
  <2>3. session' \in [Session -> SessionRecord]
    <3>1. session \in [Session -> SessionRecord]
      BY DEF SessionRecord
    <3>. QED BY <2>1, <2>2, <3>1, SessionSteps
  <2>4. pc' \in [Request -> PC] /\ UNCHANGED <<accounts, access, redis, clock>>
    BY <1>15 DEF Revoke, GoTo
  <2>. QED BY <2>3, <2>4 DEF SessionRecord
<1>16. ASSUME NEW r \in Request, Reread(r) PROVE TypeOK'
  BY <1>16 DEF Reread
<1>17. ASSUME NEW r \in Request, AssignRole(r) PROVE TypeOK'
  <2>1. req[r].user \in User /\ req[r].role \in Role
    BY <1>17 DEF AssignRole, Control, ControlOf, At
  <2>2. links[req[r].user] \cup {req[r].role} \in SUBSET Role
    BY <2>1
  <2>3. links' \in [User -> SUBSET Role]
    BY <1>17, <2>2 DEF AssignRole
  <2>. QED BY <1>17, <2>3 DEF AssignRole
<1>18. CASE UNCHANGED vars
  BY <1>18 DEF vars
<1>19. \A f \in Session : 0 .. session[f].gen \subseteq Nat
  OBVIOUS
<1>. QED BY <1>1, <1>2, <1>3, <1>4, <1>5, <1>6, <1>7, <1>8, <1>9, <1>10, <1>11, <1>12, <1>13,
            <1>14, <1>15, <1>16, <1>17, <1>18, <1>19 DEF Next, Step

-----------------------------------------------------------------------------
\* Which actions write which store.
LEMMA AccountWriters ==
    ASSUME [Next]_vars, accounts' # accounts
    PROVE  \E r \in Request :
              \/ \E u \in User : DeleteUser(r, u) \/ \E op \in Ops : SetActive(r, u, op)
              \/ AssignRole(r)
BY ZenonT(60) DEF Next, Step, vars, accounts, redis, LoginCredentials, RefreshStart, LogoutStart,
       LogoutAllStart, AssignStart, ReadRoles, ReadPermissions, CreateSession, IssueToken,
       SelectForUpdate, Rotate, Snapshot, Sweep, LogoutAllNow, RevokeUser, BlockToken,
       Lookup, Revoke, Reread, Fail

LEMMA SessionWriters ==
    ASSUME [Next]_vars, session' # session
    PROVE  \E r \in Request :
              \/ \E u \in User : DeleteUser(r, u)
              \/ \E f \in Session : CreateSession(r, f)
              \/ SelectForUpdate(r) \/ Rotate(r) \/ Sweep(r) \/ Revoke(r)
BY DEF Next, Step, vars, accounts, redis, LoginCredentials, RefreshStart, LogoutStart,
       LogoutAllStart, SetActive, AssignStart, ReadRoles, ReadPermissions, IssueToken,
       Snapshot, LogoutAllNow, RevokeUser, BlockToken, Lookup, Reread, AssignRole, Fail

LEMMA TokenWriters ==
    ASSUME [Next]_vars, <<access, blocked, epoch>>' # <<access, blocked, epoch>>
    PROVE  \E r \in Request :
              (\E j \in Jti : IssueToken(r, j)) \/ BlockToken(r) \/ RevokeUser(r)
BY ZenonT(60) DEF Next, Step, vars, accounts, redis, LoginCredentials, DeleteUser, RefreshStart,
       LogoutStart, LogoutAllStart, SetActive, AssignStart, ReadRoles, ReadPermissions,
       CreateSession, SelectForUpdate, Rotate, Snapshot, Sweep, LogoutAllNow, Lookup,
       Revoke, Reread, AssignRole, Fail

LEMMA ClockWriters ==
    ASSUME Typed, [Next]_vars
    PROVE  clock \in Nat /\ clock' \in {clock, clock + 1}
<1>1. clock' \in {clock, clock + 1}
  BY ZenonT(60) DEF Next, Step, vars, accounts, redis, LoginCredentials, DeleteUser, RefreshStart,
       LogoutStart, LogoutAllStart, SetActive, AssignStart, ReadRoles, ReadPermissions,
       CreateSession, IssueToken, SelectForUpdate, Rotate, Snapshot, Sweep, LogoutAllNow,
       RevokeUser, BlockToken, Lookup, Revoke, Reread, AssignRole, Fail
<1>. QED BY <1>1 DEF Typed, TypeOK

\* A request's first step, one for each use case.
Starts(r) ==
    \/ \E u \in User : LoginCredentials(r, u) \/ DeleteUser(r, u)
    \/ \E f \in Session : \E g \in 0 .. session[f].gen :
          \/ RefreshStart(r, f, g)
          \/ \E j \in Jti : LogoutStart(r, j, f, g)
    \/ \E j \in Jti : LogoutStart(r, j, None, 0)
    \/ \E j \in Jti : LogoutAllStart(r, j)
    \/ \E u \in User, op \in Ops : SetActive(r, u, op)
    \/ \E u \in User, x \in Role : AssignStart(r, u, x)

LEMMA NextSteps ==
    [Next]_vars => UNCHANGED vars \/ \E r \in Request : Starts(r) \/ Step(r) \/ Fail(r)
BY Zenon DEF Next, Starts

\* A step is of one request, and the others stay where they are.
Moves(r) == \A s \in Request \ {r} : pc'[s] = pc[s] /\ req'[s] = req[s]

LEMMA OneMoves ==
    ASSUME Typed, [Next]_vars
    PROVE  \/ UNCHANGED vars
           \/ \E r \in Request : Moves(r) /\ (Starts(r) \/ Step(r) \/ Fail(r))
<1>. USE DEF Typed, TypeOK, Moves
<1>1. ASSUME NEW r \in Request, NEW q, NEW next, Start(r, q, next) PROVE Moves(r)
  BY <1>1 DEF Start
<1>2. ASSUME NEW r \in Request, Starts(r) PROVE Moves(r)
  <2>1. PICK q, next : Start(r, q, next)
    BY <1>2 DEF Starts, LoginCredentials, DeleteUser, SetActive, AssignStart,
               LogoutAllStart, LogoutStart, RefreshStart
  <2>. QED BY <1>1, <2>1
<1>3. ASSUME NEW r \in Request, Step(r) \/ Fail(r) PROVE Moves(r)
  <2>1. CASE ReadRoles(r) \/ ReadPermissions(r) \/ (\E f \in Session : CreateSession(r, f))
                \/ \E j \in Jti : IssueToken(r, j)
    BY <2>1 DEF ReadRoles, ReadPermissions, CreateSession, IssueToken, GoTo
  <2>2. CASE SelectForUpdate(r)
    BY <2>2 DEF SelectForUpdate, GoTo
  <2>3. CASE Rotate(r) \/ Snapshot(r) \/ Sweep(r) \/ LogoutAllNow(r) \/ RevokeUser(r)
    BY <2>3 DEF Rotate, Snapshot, Sweep, LogoutAllNow, RevokeUser, GoTo
  <2>4. CASE BlockToken(r) \/ Lookup(r) \/ Revoke(r) \/ Reread(r) \/ AssignRole(r) \/ Fail(r)
    BY <2>4 DEF BlockToken, Lookup, Revoke, Reread, AssignRole, Fail, GoTo
  <2>. QED BY <1>3, <2>1, <2>2, <2>3, <2>4 DEF Step
<1>. QED BY <1>2, <1>3, NextSteps

LEMMA AccountsPersist ==
    ASSUME Typed, [Next]_vars, NEW u \in User
    PROVE  /\ status[u] = "deleted" => status'[u] = "deleted"
           /\ links[u] \subseteq links'[u] \/ status'[u] = "deleted"
<1>1. CASE accounts' = accounts
  BY <1>1 DEF accounts
<1>2. ASSUME NEW r \in Request, NEW v \in User, DeleteUser(r, v)
      PROVE  /\ status[u] = "deleted" => status'[u] = "deleted"
             /\ links[u] \subseteq links'[u] \/ status'[u] = "deleted"
  BY <1>2 DEF DeleteUser, Typed, TypeOK
<1>3. ASSUME NEW r \in Request, NEW v \in User, NEW op \in Ops, SetActive(r, v, op)
      PROVE  /\ status[u] = "deleted" => status'[u] = "deleted"
             /\ links[u] \subseteq links'[u] \/ status'[u] = "deleted"
  BY <1>3 DEF SetActive, Typed, TypeOK
<1>4. ASSUME NEW r \in Request, AssignRole(r)
      PROVE  /\ status[u] = "deleted" => status'[u] = "deleted"
             /\ links[u] \subseteq links'[u] \/ status'[u] = "deleted"
  BY <1>4 DEF AssignRole, Typed, TypeOK
<1>. QED BY <1>1, <1>2, <1>3, <1>4, AccountWriters

\* A session goes on from where it is: never vacant, live or younger again.
Later(f) ==
    /\ session'[f].state # "vacant"
    /\ session'[f].user = session[f].user
    /\ session[f].gen <= session'[f].gen
    /\ session[f].state # "live" => session'[f].state = session[f].state \/ session'[f].state = "deleted"

LEMMA SessionsPersist ==
    ASSUME Typed, Control, [Next]_vars, NEW f \in Session, session[f].state # "vacant"
    PROVE  Later(f)
<1>. USE DEF Typed, TypeOK, Later
<1>1. CASE session' = session
  BY <1>1
<1>2. ASSUME NEW r \in Request, NEW u \in User, DeleteUser(r, u) PROVE Later(f)
  BY <1>2 DEF DeleteUser
<1>3. ASSUME NEW r \in Request, NEW g \in Session, CreateSession(r, g) PROVE Later(f)
  BY <1>3 DEF CreateSession, Vacant
<1>4. ASSUME NEW r \in Request, SelectForUpdate(r) PROVE Later(f)
  BY <1>4 DEF SelectForUpdate, Current, Control, ControlOf, At
<1>5. ASSUME NEW r \in Request, Rotate(r) PROVE Later(f)
  BY <1>5 DEF Rotate, Control, ControlOf, At
<1>6. ASSUME NEW r \in Request, Sweep(r) PROVE Later(f)
  BY <1>6 DEF Sweep
<1>7. ASSUME NEW r \in Request, Revoke(r) PROVE Later(f)
  BY <1>7 DEF Revoke, Current, Control, ControlOf, At
<1>. QED BY <1>1, <1>2, <1>3, <1>4, <1>5, <1>6, <1>7, SessionWriters

\* What a step after the first does to the inputs of its request, and where it
\* leads.
Keeps(r) ==
    /\ req'[r].op = req[r].op /\ req'[r].jti = req[r].jti /\ req'[r].gen = req[r].gen
    /\ req'[r].role = req[r].role /\ req'[r].began = req[r].began
    /\ req'[r].user = req[r].user \/ At(r, {"select"})
    /\ req'[r].session = req[r].session \/ At(r, {"create"})
    /\ req'[r].at = req[r].at \/ At(r, {"now", "reread"})
    /\ req'[r].roles = req[r].roles \/ At(r, {"roles"})
    /\ req'[r].permissions = req[r].permissions \/ At(r, {"permissions"})
    /\ req'[r].wrote = req[r].wrote \/ At(r, {"epoch"})

LEMMA StepKeeps ==
    ASSUME Typed, NEW r \in Request, Step(r) \/ Fail(r)
    PROVE  Keeps(r)
<1>. req[r] \in Inputs
  BY DEF Typed
<1>1. CASE UNCHANGED req
  BY <1>1 DEF Keeps
<1>. USE DEF Typed, Inputs, Keeps, At
<1>2. CASE ReadRoles(r)
  BY <1>2 DEF ReadRoles
<1>3. CASE ReadPermissions(r)
  BY <1>3 DEF ReadPermissions
<1>4. CASE \E f \in Session : CreateSession(r, f)
  BY <1>4 DEF CreateSession
<1>5. CASE SelectForUpdate(r)
  BY <1>5 DEF SelectForUpdate
<1>6. CASE Snapshot(r)
  BY <1>6 DEF Snapshot
<1>7. CASE LogoutAllNow(r)
  BY <1>7 DEF LogoutAllNow
<1>8. CASE RevokeUser(r)
  BY <1>8 DEF RevokeUser
<1>9. CASE Reread(r)
  BY <1>9 DEF Reread
<1>. HIDE DEF Keeps, Inputs
<1>. QED BY <1>1, <1>2, <1>3, <1>4, <1>5, <1>6, <1>7, <1>8, <1>9
        DEF Step, Rotate, IssueToken, Sweep, BlockToken, Lookup, Revoke, AssignRole, Fail

Leads(r) ==
    \/ pc[r] = "roles" /\ pc'[r] = "permissions"
    \/ pc[r] = "permissions" /\ pc'[r] = IF req[r].op = "login" THEN "create" ELSE "issue"
    \/ pc[r] = "create" /\ pc'[r] \in {"issue", "refused"}
    \/ pc[r] = "select" /\ pc'[r] \in {"refused", "snapshot", "rotate", "epoch"}
    \/ pc[r] = "rotate" /\ pc'[r] = "roles"
    \/ pc[r] = "snapshot" /\ pc'[r] = "sweep"
    \/ pc[r] = "sweep" /\ pc'[r] = IF req[r].op = "logout_all" THEN "done" ELSE "epoch"
    \/ pc[r] = "now" /\ pc'[r] = "epoch"
    \/ pc[r] = "epoch" /\ pc'[r] = IF req[r].op = "logout_all" THEN "snapshot" ELSE "done"
    \/ pc[r] = "block" /\ pc'[r] = "lookup"
    \/ pc[r] = "lookup" /\ pc'[r] \in {"revoke", "done"}
    \/ pc[r] = "reread" /\ pc'[r] = "refused"
    \/ pc[r] = "reread" /\ pc'[r] = IF req[r].op = "activate" THEN "done" ELSE "epoch"
    \/ pc[r] = "link" /\ pc'[r] \in {"refused", "done"}
    \/ pc[r] \in {"issue", "revoke"} /\ pc'[r] = "done"
    \/ pc[r] \notin Ended \cup {"idle"} /\ pc'[r] = "failed"

LEMMA StepLeads ==
    ASSUME Typed, NEW r \in Request, Step(r) \/ Fail(r)
    PROVE  Leads(r)
<1>. USE DEF Typed, TypeOK, Leads, At, GoTo
<1>1. CASE ReadRoles(r) \/ ReadPermissions(r)
  BY <1>1 DEF ReadRoles, ReadPermissions
<1>2. CASE (\E f \in Session : CreateSession(r, f)) \/ \E j \in Jti : IssueToken(r, j)
  BY <1>2 DEF CreateSession, IssueToken
<1>3. CASE SelectForUpdate(r)
  BY <1>3 DEF SelectForUpdate
<1>4. CASE Rotate(r) \/ Snapshot(r) \/ Sweep(r) \/ RevokeUser(r)
  BY <1>4 DEF Rotate, Snapshot, Sweep, RevokeUser
<1>5. CASE LogoutAllNow(r) \/ Reread(r)
  BY <1>5 DEF LogoutAllNow, Reread
<1>6. CASE BlockToken(r) \/ Lookup(r) \/ Revoke(r)
  BY <1>6 DEF BlockToken, Lookup, Revoke
<1>7. CASE AssignRole(r) \/ Fail(r)
  BY <1>7 DEF AssignRole, Fail
<1>. HIDE DEF Leads
<1>. QED BY <1>1, <1>2, <1>3, <1>4, <1>5, <1>6, <1>7 DEF Step

LEMMA ControlNext ==
    Typed /\ SessionsOwned /\ Control /\ Presented /\ [Next]_vars => Control'
<1>. SUFFICES ASSUME Typed, SessionsOwned, Control, Presented, [Next]_vars,
                     NEW r \in Request
              PROVE  ControlOf(r)'
  BY DEF Control
<1>1. CASE pc'[r] = pc[r] /\ req'[r] = req[r]
  BY <1>1 DEF Control, ControlOf, At
<1>2. CASE Starts(r)
  <2>. USE DEF Typed, TypeOK, Start, NoReq, ControlOf, At
  <2>1. ASSUME NEW u \in User, LoginCredentials(r, u) PROVE ControlOf(r)'
    BY <2>1 DEF LoginCredentials
  <2>2. ASSUME NEW u \in User, DeleteUser(r, u) PROVE ControlOf(r)'
    BY <2>2 DEF DeleteUser
  <2>3. ASSUME NEW f \in Session, NEW g \in Nat, RefreshStart(r, f, g) PROVE ControlOf(r)'
    BY <2>3 DEF RefreshStart
  <2>4. ASSUME NEW j \in Jti, NEW f, NEW g, LogoutStart(r, j, f, g) PROVE ControlOf(r)'
    BY <2>4 DEF LogoutStart
  <2>5. ASSUME NEW j \in Jti, LogoutAllStart(r, j) PROVE ControlOf(r)'
    BY <2>5 DEF LogoutAllStart, Accepts, Issued
  <2>6. ASSUME NEW u \in User, NEW op \in Ops, SetActive(r, u, op) PROVE ControlOf(r)'
    BY <2>6 DEF SetActive
  <2>7. ASSUME NEW u \in User, NEW x \in Role, AssignStart(r, u, x) PROVE ControlOf(r)'
    BY <2>7 DEF AssignStart
  <2>8. \A f \in Session : 0 .. session[f].gen \subseteq Nat
    OBVIOUS
  <2>. HIDE DEF ControlOf, Start, TypeOK
  <2>. QED BY <1>2, <2>1, <2>2, <2>3, <2>4, <2>5, <2>6, <2>7, <2>8 DEF Starts
<1>3. CASE Step(r) \/ Fail(r)
  <2>1. Keeps(r) /\ Leads(r) /\ ControlOf(r)
    BY <1>3, StepKeeps, StepLeads DEF Control
  <2>2. CASE SelectForUpdate(r)
    <3>1. req[r].session \in Session /\ pc[r] = "select"
      BY <2>1, <2>2 DEF SelectForUpdate, ControlOf, At
    <3>2. session[req[r].session].user \in User
      BY <2>1, <2>2, <3>1, NoneAssumption DEF SessionsOwned, Presented, Presents, ControlOf, At
    <3>3. At(r, {"refused"})' \/ req'[r].user \in User
      BY <2>2, <3>2, InputsNext DEF SelectForUpdate, At, Typed, TypeOK, Inputs, GoTo
    <3>. QED BY <2>1, <3>1, <3>3 DEF Keeps, Leads, ControlOf, At
  <2>3. CASE Lookup(r)
    BY <2>1, <2>3 DEF Lookup, GoTo, Keeps, ControlOf, At, Typed, TypeOK
  <2>4. CASE pc[r] \notin {"select", "lookup"}
    <3>. USE DEF ControlOf, At, Ended
    <3>1. CASE pc'[r] \in Ended
      BY <3>1
    <3>2. CASE pc[r] \in {"roles", "permissions", "create", "rotate"} /\ pc'[r] \notin Ended
      BY <2>1, <2>4, <3>2 DEF Keeps, Leads
    <3>3. CASE pc[r] \in {"snapshot", "now", "epoch", "block"} /\ pc'[r] \notin Ended
      BY <2>1, <2>4, <3>3 DEF Keeps, Leads
    <3>4. CASE pc[r] = "sweep" /\ pc'[r] \notin Ended
      BY <2>1, <2>4, <3>4 DEF Keeps, Leads
    <3>5. CASE pc[r] = "reread" /\ pc'[r] \notin Ended
      BY <2>1, <2>4, <3>5 DEF Keeps, Leads
    <3>. QED BY <2>1, <2>4, <3>1, <3>2, <3>3, <3>4, <3>5 DEF Leads
  <2>5. CASE pc[r] \in {"select", "lookup"} /\ Fail(r)
    BY <2>1, <2>5 DEF Fail, GoTo, Keeps, ControlOf, At, Typed, TypeOK
  <2>6. pc[r] \in {"select", "lookup"} => SelectForUpdate(r) \/ Lookup(r) \/ Fail(r)
    BY <1>3 DEF Step, ReadRoles, ReadPermissions, CreateSession, IssueToken, Rotate,
               Snapshot, Sweep, LogoutAllNow, RevokeUser, BlockToken, Revoke, Reread,
               AssignRole
  <2>. QED BY <2>2, <2>3, <2>4, <2>5, <2>6
<1>. QED BY <1>1, <1>2, <1>3, OneMoves DEF Moves, vars

\* What a request has after its first step.
Begins(r) ==
    /\ pc[r] = "idle"
    /\ pc'[r] \in {"roles", "select", "block", "now", "reread", "link", "done", "refused"}
    /\ pc'[r] = "roles" => req'[r].op = "login"
    /\ req'[r].op = "logout" => pc'[r] = "block"
    /\ req'[r].op = "logout_all" => pc'[r] = "now"
    /\ req'[r].began = clock /\ req'[r].wrote = FALSE
    /\ req'[r].at = IF req'[r].op = "refresh" THEN clock' ELSE 0
    /\ req'[r].op \in {"login", "activate", "deactivate"} => req'[r].user \in User
    /\ req'[r].op = "login" /\ pc'[r] # "refused" => status[req'[r].user] = "active"
    /\ req'[r].op = "deactivate" => status'[req'[r].user] # "active"

LEMMA StartBegins ==
    ASSUME Typed, NEW r \in Request, Starts(r)
    PROVE  Begins(r)
<1>. USE DEF Typed, TypeOK, Start, NoReq, Begins
<1>1. ASSUME NEW u \in User, LoginCredentials(r, u) PROVE Begins(r)
  BY <1>1 DEF LoginCredentials
<1>2. ASSUME NEW u \in User, DeleteUser(r, u) PROVE Begins(r)
  <2>1. PICK next \in {"done", "refused"} :
            Start(r, [NoReq EXCEPT !.op = "delete", !.user = u], next)
    BY <1>2, Zenon DEF DeleteUser
  <2>. QED BY <2>1
<1>3. ASSUME NEW f \in Session, NEW g \in Nat, RefreshStart(r, f, g) PROVE Begins(r)
  BY <1>3 DEF RefreshStart
<1>4. ASSUME NEW j \in Jti, NEW f, NEW g, LogoutStart(r, j, f, g) PROVE Begins(r)
  BY <1>4 DEF LogoutStart
<1>5. ASSUME NEW j \in Jti, LogoutAllStart(r, j) PROVE Begins(r)
  BY <1>5 DEF LogoutAllStart
<1>6. ASSUME NEW u \in User, NEW op \in Ops, SetActive(r, u, op) PROVE Begins(r)
  <2>1. CASE status[u] = "deleted"
    BY <1>6, <2>1 DEF SetActive
  <2>2. CASE status[u] # "deleted"
    BY <1>6, <2>2 DEF SetActive
  <2>. QED BY <2>1, <2>2
<1>7. ASSUME NEW u \in User, NEW x \in Role, AssignStart(r, u, x) PROVE Begins(r)
  BY <1>7 DEF AssignStart
<1>8. \A f \in Session : 0 .. session[f].gen \subseteq Nat
  OBVIOUS
<1>. HIDE DEF Begins, Start, TypeOK
<1>. QED BY <1>1, <1>2, <1>3, <1>4, <1>5, <1>6, <1>7, <1>8 DEF Starts

\* A token presented at the start is one the session had.
LEMMA StartPresents ==
    ASSUME Typed, SessionsOwned, NEW r \in Request, Starts(r)
    PROVE  Presents(r)'
<1>. USE DEF Typed, TypeOK, Start, NoReq, Presents
<1>1. ASSUME NEW u \in User, LoginCredentials(r, u) \/ DeleteUser(r, u) PROVE Presents(r)'
  <2>1. CASE LoginCredentials(r, u)
    BY <2>1 DEF LoginCredentials
  <2>2. CASE DeleteUser(r, u)
    <3>1. PICK next \in {"done", "refused"} :
              Start(r, [NoReq EXCEPT !.op = "delete", !.user = u], next)
      BY <2>2, Zenon DEF DeleteUser
    <3>. QED BY <3>1
  <2>. QED BY <1>1, <2>1, <2>2
<1>2. ASSUME NEW f \in Session, NEW g \in 0 .. session[f].gen, RefreshStart(r, f, g)
      PROVE  Presents(r)'
  BY <1>2 DEF RefreshStart, SessionsOwned
<1>3. ASSUME NEW f \in Session, NEW g \in 0 .. session[f].gen,
             NEW j \in Jti, LogoutStart(r, j, f, g)
      PROVE  Presents(r)'
  BY <1>3, NoneAssumption DEF LogoutStart, SessionsOwned
<1>4. ASSUME NEW j \in Jti, LogoutStart(r, j, None, 0) \/ LogoutAllStart(r, j)
      PROVE  Presents(r)'
  <2>1. CASE LogoutStart(r, j, None, 0)
    BY <2>1 DEF LogoutStart
  <2>2. CASE LogoutAllStart(r, j)
    BY <2>2 DEF LogoutAllStart
  <2>. QED BY <1>4, <2>1, <2>2
<1>5. ASSUME NEW u \in User, NEW op \in Ops, SetActive(r, u, op) PROVE Presents(r)'
  BY <1>5 DEF SetActive
<1>6. ASSUME NEW u \in User, NEW x \in Role, AssignStart(r, u, x) PROVE Presents(r)'
  BY <1>6 DEF AssignStart
<1>. HIDE DEF Presents, Start, TypeOK
<1>. QED BY <1>1, <1>2, <1>3, <1>4, <1>5, <1>6 DEF Starts

LEMMA PresentedNext ==
    Typed /\ SessionsOwned /\ Control /\ Presented /\ [Next]_vars => Presented'
<1>. SUFFICES ASSUME Typed, SessionsOwned, Control, Presented, [Next]_vars,
                     NEW r \in Request
              PROVE  Presents(r)'
  BY DEF Presented
<1>1. Presents(r) /\ ControlOf(r) /\ req[r] \in Inputs
  BY DEF Presented, Control, Typed
<1>2. CASE req'[r].op = req[r].op /\ req'[r].gen = req[r].gen
           /\ (req'[r].session = req[r].session \/ req[r].op = "login")
  <2>1. CASE req[r].op \in {"refresh", "logout"} /\ req[r].session # None
    <3>1. req[r].session \in Session /\ session[req[r].session].state # "vacant"
      BY <1>1, <2>1 DEF Presents, Inputs
    <3>2. Later(req[r].session)
      BY <3>1, SessionsPersist
    <3>3. /\ req[r].gen \in Nat /\ session[req[r].session].gen \in Nat
          /\ session'[req[r].session].gen \in Nat
      BY <1>1, <3>1, TypedNext DEF Inputs, Typed, TypeOK
    <3>. QED BY <1>1, <1>2, <2>1, <3>2, <3>3 DEF Later, Presents
  <2>. QED BY <1>2, <2>1 DEF Presents
<1>3. CASE Starts(r)
  BY <1>3, StartPresents
<1>4. CASE Step(r) \/ Fail(r)
  BY <1>1, <1>2, <1>4, StepKeeps DEF Keeps, ControlOf, At
<1>. QED BY <1>2, <1>3, <1>4, OneMoves DEF Moves, vars

\* Only a login takes a vacant session, for a user who is there.
LEMMA Opens ==
    ASSUME Typed, SessionsOwned, Control, Presented, [Next]_vars,
           NEW f \in Session, session[f].state = "vacant", session'[f] # session[f]
    PROVE  \E r \in Request : /\ req[r].user \in User
                             /\ status'[req[r].user] # "deleted"
                             /\ accounts' = accounts
                             /\ session'[f] = Opened(req[r].user)
<1>. USE DEF Typed, TypeOK
<1>1. session[f] = Vacant /\ session[f].user \notin User
  BY NoneAssumption DEF SessionsOwned, Vacant
<1>2. ASSUME NEW r \in Request, NEW u \in User, DeleteUser(r, u) PROVE FALSE
  BY <1>1, <1>2 DEF DeleteUser
<1>3. ASSUME NEW r \in Request, SelectForUpdate(r) \/ Revoke(r) PROVE FALSE
  BY <1>3 DEF SelectForUpdate, Revoke, Current
<1>4. ASSUME NEW r \in Request, Rotate(r) PROVE FALSE
  BY <1>4, NoneAssumption DEF Rotate, Control, ControlOf, At, Presented, Presents
<1>5. ASSUME NEW r \in Request, Sweep(r) PROVE FALSE
  BY <1>5 DEF Sweep
<1>6. ASSUME NEW r \in Request, NEW g \in Session, CreateSession(r, g)
      PROVE  /\ req[r].user \in User
             /\ status'[req[r].user] # "deleted"
             /\ accounts' = accounts
             /\ session'[f] = Opened(req[r].user)
  BY <1>6 DEF CreateSession, accounts, Control, ControlOf, At
<1>. QED BY <1>2, <1>3, <1>4, <1>5, <1>6, SessionWriters

LEMMA SessionsOwnedNext ==
    Typed /\ SessionsOwned /\ Control /\ Presented /\ [Next]_vars => SessionsOwned'
<1>. SUFFICES ASSUME Typed, SessionsOwned, Control, Presented, [Next]_vars, NEW f \in Session
              PROVE  IF session'[f].state = "vacant" THEN session'[f] = Vacant
                     ELSE session'[f].user \in User
  BY DEF SessionsOwned, Vacant
<1>1. CASE session'[f] = session[f]
  BY <1>1 DEF SessionsOwned
<1>2. CASE session[f].state = "vacant" /\ session'[f] # session[f]
  <2>1. PICK r \in Request : req[r].user \in User /\ session'[f] = Opened(req[r].user)
    BY <1>2, Opens
  <2>. QED BY <2>1 DEF Opened
<1>3. CASE session[f].state # "vacant"
  <2>1. session[f].user \in User
    BY <1>3 DEF SessionsOwned
  <2>2. Later(f)
    BY <1>3, SessionsPersist
  <2>. QED BY <2>1, <2>2 DEF Later
<1>. QED BY <1>1, <1>2, <1>3

-----------------------------------------------------------------------------
(* Deletion                                                                *)

LEMMA NothingOutlivesNext ==
    Typed /\ SessionsOwned /\ Control /\ Presented /\ NothingOutlivesAUser /\ [Next]_vars
        => NothingOutlivesAUser'
<1>. SUFFICES ASSUME Typed, SessionsOwned, Control, Presented, NothingOutlivesAUser,
                     [Next]_vars, NEW u \in User, status'[u] = "deleted"
              PROVE  /\ links'[u] = {}
                     /\ \A f \in Session : session'[f].user = u => session'[f].state = "deleted"
  BY DEF NothingOutlivesAUser
<1>. USE DEF Typed, TypeOK
<1>1. CASE status[u] # "deleted"
  <2>1. PICK r \in Request : DeleteUser(r, u)
    <3>1. accounts' # accounts
      BY <1>1 DEF accounts
    <3>2. PICK r \in Request : \/ \E v \in User : \/ DeleteUser(r, v)
                                                \/ \E op \in Ops : SetActive(r, v, op)
                              \/ AssignRole(r)
      BY <3>1, AccountWriters
    <3>3. CASE AssignRole(r)
      BY <1>1, <3>3 DEF AssignRole
    <3>4. ASSUME NEW v \in User, NEW op \in Ops, SetActive(r, v, op) PROVE FALSE
      BY <1>1, <3>4 DEF SetActive
    <3>5. ASSUME NEW v \in User, DeleteUser(r, v) PROVE v = u
      BY <1>1, <3>5 DEF DeleteUser
    <3>. QED BY <3>2, <3>3, <3>4, <3>5
  <2>. QED BY <1>1, <2>1 DEF DeleteUser
<1>2. CASE status[u] = "deleted"
  <2>1. links'[u] = {}
    <3>1. CASE accounts' = accounts
      BY <1>2, <3>1 DEF accounts, NothingOutlivesAUser
    <3>2. ASSUME NEW r \in Request,
                 \/ AssignRole(r)
                 \/ \E v \in User : DeleteUser(r, v) \/ \E op \in Ops : SetActive(r, v, op)
          PROVE  links'[u] = {}
      BY <1>2, <3>2 DEF AssignRole, DeleteUser, SetActive, NothingOutlivesAUser
    <3>. QED BY <3>1, <3>2, AccountWriters
  <2>2. ASSUME NEW f \in Session, session'[f].user = u PROVE session'[f].state = "deleted"
    <3>1. CASE session[f].state # "vacant"
      BY <1>2, <2>2, <3>1, SessionsPersist DEF Later, NothingOutlivesAUser
    <3>2. CASE session[f].state = "vacant"
      <4>1. session[f].user = None /\ session'[f] # session[f]
        BY <2>2, <3>2, NoneAssumption DEF SessionsOwned, Vacant
      <4>2. PICK r \in Request : /\ status'[req[r].user] # "deleted"
                                /\ session'[f] = Opened(req[r].user)
        BY <3>2, <4>1, Opens
      <4>. QED BY <2>2, <4>2 DEF Opened
    <3>. QED BY <3>1, <3>2
  <2>. QED BY <2>1, <2>2
<1>. QED BY <1>1, <1>2

-----------------------------------------------------------------------------
(* Claims                                                                  *)

LEMMA ClaimsReadNext ==
    Typed /\ Control /\ ClaimsRead /\ [Next]_vars => ClaimsRead'
<1>. SUFFICES ASSUME Typed, Control, ClaimsRead, [Next]_vars, NEW r \in Request
              PROVE  ClaimsReadBy(r)'
  BY DEF ClaimsRead
<1>1. ClaimsReadBy(r) /\ ControlOf(r)
  BY DEF ClaimsRead, Control
<1>2. CASE pc'[r] = pc[r] /\ req'[r] = req[r]
  BY <1>1, <1>2, AccountsPersist DEF ClaimsReadBy, ControlOf, At
<1>3. CASE Starts(r)
  BY <1>3, StartBegins DEF Begins, ClaimsReadBy, At
<1>4. CASE ReadRoles(r)
  BY <1>1, <1>4 DEF ReadRoles, accounts, GoTo, ClaimsReadBy, At, Typed, TypeOK, Inputs
<1>5. CASE ReadPermissions(r)
  BY <1>1, <1>5 DEF ReadPermissions, accounts, GoTo, ClaimsReadBy, At, Typed, TypeOK, Inputs
<1>6. CASE (Step(r) \/ Fail(r)) /\ pc[r] \notin {"roles", "permissions"}
  <2>1. Keeps(r) /\ Leads(r)
    BY <1>6, StepKeeps, StepLeads
  <2>2. CASE pc[r] = "create"
    BY <1>1, <1>6, <2>1, <2>2, AccountsPersist DEF Keeps, Leads, ClaimsReadBy, ControlOf, At
  <2>3. CASE pc[r] # "create"
    BY <1>6, <2>1, <2>3 DEF Leads, ClaimsReadBy, At
  <2>. QED BY <2>2, <2>3
<1>7. CASE Fail(r)
  BY <1>7 DEF Fail, GoTo, ClaimsReadBy, At, Typed, TypeOK
<1>8. pc[r] \in {"roles", "permissions"} /\ Step(r) => ReadRoles(r) \/ ReadPermissions(r)
  BY DEF Step, CreateSession, IssueToken, SelectForUpdate, Rotate, Snapshot, Sweep,
         LogoutAllNow, RevokeUser, BlockToken, Lookup, Revoke, Reread, AssignRole
<1>. QED BY <1>2, <1>3, <1>4, <1>5, <1>6, <1>7, <1>8, OneMoves DEF Moves, vars

LEMMA ClaimsCoverRolesNext ==
    Typed /\ Control /\ ClaimsRead /\ ClaimsCoverRoles /\ [Next]_vars => ClaimsCoverRoles'
<1>. SUFFICES ASSUME Typed, Control, ClaimsRead, ClaimsCoverRoles, [Next]_vars,
                     NEW j \in Jti, Issued(j)'
              PROVE  \/ access'[j].roles \subseteq access'[j].permissions
                     \/ status'[access'[j].user] = "deleted"
  BY DEF ClaimsCoverRoles
<1>1. CASE access'[j] = access[j]
  <2>1. access[j].user \in User
    BY <1>1 DEF Issued, Typed, TypeOK
  <2>. QED BY <1>1, <2>1, AccountsPersist DEF ClaimsCoverRoles, Issued
<1>2. ASSUME NEW r \in Request, IssueToken(r, j)
      PROVE  \/ access'[j].roles \subseteq access'[j].permissions
             \/ status'[access'[j].user] = "deleted"
  BY <1>2 DEF IssueToken, accounts, ClaimsRead, ClaimsReadBy, At, Typed, TypeOK
<1>3. access'[j] # access[j] => \E r \in Request : IssueToken(r, j)
  BY TokenWriters DEF IssueToken, BlockToken, RevokeUser, Typed, TypeOK
<1>. QED BY <1>1, <1>2, <1>3

-----------------------------------------------------------------------------
(* Logout                                                                  *)

LEMMA LogoutBlockedNext ==
    Typed /\ Control /\ LogoutBlocked /\ [Next]_vars => LogoutBlocked'
<1>. SUFFICES ASSUME Typed, Control, LogoutBlocked, [Next]_vars, NEW r \in Request,
                     req'[r].op = "logout", At(r, {"lookup", "revoke", "done"})'
              PROVE  req'[r].jti \in blocked'
  BY DEF LogoutBlocked, At
<1>1. blocked \subseteq blocked'
  <2>1. ASSUME NEW q \in Request, IssueToken(q, CHOOSE j \in Jti : IssueToken(q, j))
                                  \/ BlockToken(q) \/ RevokeUser(q)
        PROVE  blocked \subseteq blocked'
    BY <2>1 DEF IssueToken, BlockToken, RevokeUser, redis
  <2>. QED BY <2>1, TokenWriters
<1>2. CASE pc'[r] = pc[r] /\ req'[r] = req[r]
  BY <1>1, <1>2 DEF LogoutBlocked, At
<1>3. CASE Starts(r)
  BY <1>3, StartBegins DEF Begins, At
<1>4. CASE Step(r) \/ Fail(r)
  <2>1. Keeps(r) /\ Leads(r) /\ ControlOf(r)
    BY <1>4, StepKeeps, StepLeads DEF Control
  <2>2. CASE pc[r] = "block"
    <3>1. BlockToken(r)
      BY <1>4, <2>2 DEF Step, Fail, GoTo, At, Typed, TypeOK, ReadRoles, ReadPermissions,
             CreateSession, IssueToken, SelectForUpdate, Rotate, Snapshot, Sweep,
             LogoutAllNow, RevokeUser, Lookup, Revoke, Reread, AssignRole
    <3>. QED BY <2>1, <3>1 DEF BlockToken, Keeps
  <2>3. CASE pc[r] # "block"
    <3>1. req[r].op = "logout"
      BY <2>1 DEF Keeps
    <3>2. pc[r] \in {"lookup", "revoke"}
      BY <2>1, <2>3, <3>1 DEF Leads, ControlOf, At
    <3>. QED BY <1>1, <2>1, <3>1, <3>2 DEF Keeps, LogoutBlocked, At
  <2>. QED BY <2>2, <2>3
<1>. QED BY <1>2, <1>3, <1>4, OneMoves DEF Moves, vars

\* What cannot be exchanged will not be.
LEMMA CurrentPersists ==
    ASSUME Typed, SessionsOwned, Control, Presented, [Next]_vars,
           NEW r \in Request, ~Current(r),
           req[r].op = "logout", req[r].session # None, req'[r] = req[r]
    PROVE  ~Current(r)'
<1>1. /\ req[r].session \in Session /\ req[r].gen \in Nat
      /\ session[req[r].session].gen \in Nat
  BY DEF Typed, TypeOK, Inputs
<1>2. /\ session[req[r].session].state # "vacant"
      /\ req[r].gen <= session[req[r].session].gen
  BY DEF Presented, Presents
<1>3. Later(req[r].session)
  BY <1>1, <1>2, SessionsPersist
<1>4. session'[req[r].session].gen \in Nat
  BY <1>1, TypedNext DEF Typed, TypeOK
<1>. QED BY <1>1, <1>2, <1>3, <1>4 DEF Later, Current

LEMMA WholeNext ==
    Typed /\ SessionsOwned /\ Control /\ Presented /\ Logouts /\ [Next]_vars
        => \A r \in Request : WholeOf(r)'
<1>. SUFFICES ASSUME Typed, SessionsOwned, Control, Presented, Logouts, [Next]_vars,
                     NEW r \in Request,
                     req'[r].op = "logout", pc'[r] = "done", req'[r].session # None
              PROVE  ~Current(r)'
  BY DEF WholeOf, At
<1>1. CASE pc'[r] = pc[r] /\ req'[r] = req[r]
  BY <1>1, CurrentPersists DEF Logouts, WholeOf, At
<1>2. CASE Starts(r)
  BY <1>2, StartBegins DEF Begins
<1>3. CASE Step(r) \/ Fail(r)
  <2>1. Keeps(r) /\ Leads(r) /\ ControlOf(r)
    BY <1>3, StepKeeps, StepLeads DEF Control
  <2>2. req[r].op = "logout" /\ req[r].session = req'[r].session
    BY <2>1 DEF Keeps, ControlOf, At
  <2>3. pc[r] \in {"lookup", "revoke"}
    BY <2>1, <2>2 DEF Leads, ControlOf, At
  <2>4. Lookup(r) \/ Revoke(r)
    BY <1>3, <2>3 DEF Step, Fail, GoTo, Typed, TypeOK, ReadRoles, ReadPermissions,
           CreateSession, IssueToken, SelectForUpdate, Rotate, Snapshot, Sweep,
           LogoutAllNow, RevokeUser, BlockToken, Reread, AssignRole
  <2>5. req[r].session \in Session
    BY <2>2 DEF Typed, Inputs
  <2>6. CASE Lookup(r)
    BY <2>2, <2>5, <2>6 DEF Lookup, GoTo, Current, Typed, TypeOK
  <2>7. CASE Revoke(r)
    BY <2>2, <2>5, <2>7 DEF Revoke, Current, Typed, TypeOK
  <2>. QED BY <2>4, <2>6, <2>7
<1>. QED BY <1>1, <1>2, <1>3, OneMoves DEF Moves, vars

-----------------------------------------------------------------------------
LEMMA ComposedInit == Init => Composed
<1>. SUFFICES ASSUME Init PROVE Composed
  OBVIOUS
<1>1. ASSUME NEW f \in Session
      PROVE  session[f] = Vacant \/ \E u \in User : session[f] = Opened(u)
  BY DEF Init
<1>2. /\ Vacant \in SessionRecord /\ Vacant.state = "vacant"
      /\ \A u \in User : Opened(u) \in SessionRecord /\ Opened(u).state # "vacant"
                                                   /\ Opened(u).user \in User
  BY DEF SessionRecord, Vacant, Opened
<1>3. SessionsOwned /\ session \in [Session -> SessionRecord]
  <2>1. session \in [Session -> {Vacant} \cup {Opened(u) : u \in User}]
    BY DEF Init
  <2>2. {Vacant} \cup {Opened(u) : u \in User} \subseteq SessionRecord
    BY <1>2
  <2>3. session \in [Session -> SessionRecord]
    BY <2>1, <2>2
  <2>4. \A f \in Session : session[f] # Vacant =>
            session[f].state # "vacant" /\ session[f].user \in User
    BY <1>1, <1>2
  <2>. QED BY <1>2, <2>3, <2>4 DEF SessionsOwned
<1>4. ASSUME NEW j \in Jti
      PROVE  access[j] = NoAccess \/ \E u \in User : access[j] = Earlier(u)
  BY DEF Init
<1>5. ASSUME NEW j \in Jti
      PROVE  access[j] \in AccessRecord /\ access[j].roles = {}
  <2>1. /\ NoAccess \in AccessRecord /\ NoAccess.roles = {}
        /\ \A u \in User : Earlier(u) \in AccessRecord /\ Earlier(u).roles = {}
    BY DEF NoAccess, Earlier, AccessRecord
  <2>. QED BY <1>4, <2>1
<1>6. Typed
  BY <1>3, <1>5, NoReqTyped DEF Init, Typed, TypeOK, SessionRecord, AccessRecord, PC
<1>7. \A r \in Request : pc[r] = "idle" /\ req[r] = NoReq
  BY DEF Init
<1>8. Control /\ ClaimsRead
  BY <1>7 DEF Control, ControlOf, ClaimsRead, ClaimsReadBy, At
<1>9. Presented /\ Logouts
  BY <1>7 DEF Presented, Presents, NoReq, Logouts, LogoutBlocked, WholeOf, At
<1>10. ClaimsCoverRoles
  BY <1>5 DEF ClaimsCoverRoles
<1>11. NothingOutlivesAUser
  BY DEF Init, NothingOutlivesAUser
<1>. QED BY <1>3, <1>6, <1>8, <1>9, <1>10, <1>11 DEF Composed

LEMMA ComposedNext == Composed /\ [Next]_vars => Composed'
BY TypedNext, SessionsOwnedNext, ControlNext, PresentedNext, ClaimsReadNext,
   ClaimsCoverRolesNext, NothingOutlivesNext, LogoutBlockedNext, WholeNext
   DEF Composed, Logouts

LEMMA ComposedInvariant == Spec => []Composed
BY ComposedInit, ComposedNext, PTL DEF Spec

\* Every variable keeps its type, for any number of requests, users and tokens.
THEOREM SystemTypeCorrect == Spec => []TypeOK
BY ComposedInvariant, PTL DEF Composed, Typed

\* The permissions in an access token cover its roles, whatever is assigned between
\* the two reads of auth.py:166 and 225.
THEOREM ClaimsAreCovered == Spec => []ClaimsCoverRoles
BY ComposedInvariant, PTL DEF Composed

\* DELETE leaves no session and no role link behind, however many logins, rotations
\* and assignments overlap it.
THEOREM DeletionIsComplete == Spec => []NothingOutlivesAUser
BY ComposedInvariant, PTL DEF Composed

-----------------------------------------------------------------------------
(* What a deactivation leaves open.                                        *)

\* Every clock read has an instant of its own; the tokens of earlier logins
\* are older than all of them.
ReadsOf(r) ==
    /\ req[r].at <= clock /\ req[r].began <= clock
    /\ req[r].at # 0 => req[r].at > 1
    /\ req[r].wrote \/ At(r, {"epoch"}) \/ req[r].op = "refresh" => req[r].at # 0

ReadFor(j) ==
    Issued(j) =>
        /\ access[j].iat <= clock
        /\ access[j].by = None => access[j].iat = 1
        /\ \A r \in Request : req[r].at # 0 => req[r].at # access[j].iat

ClockReads ==
    /\ clock >= 1
    /\ \A r \in Request : ReadsOf(r)
    /\ \A j \in Jti : ReadFor(j)

\* A token is issued by a login or a refresh of its user.
IssuedBy(j) ==
    access[j].by # None =>
        /\ At(Opener(j), {"done"})
        /\ req[Opener(j)].op \in {"login", "refresh"}
        /\ req[Opener(j)].user = access[j].user

Issuers == \A j \in Jti : IssuedBy(j)

\* A request has revoked its user's tokens when it ends, or for a logout of all
\* sessions, before it ends them.
RevokedBy(r) ==
    req[r].wrote =>
        \/ At(r, {"done", "failed"})
        \/ At(r, {"snapshot", "sweep"}) /\ req[r].op = "logout_all"

\* The epoch is at least the instant of every revocation not overwritten.
EpochCovers ==
    \A d \in Request : req[d].wrote =>
        /\ req[d].user \in User
        /\ RevokedBy(d)
        /\ epoch[req[d].user] >= req[d].at \/ Overwritten(d)

Unbanned(u) == \E q \in Request : req[q].op = "activate" /\ req[q].user = u

\* A deactivation nobody undoes keeps later logins out.
Deactivation(d) == req[d].op = "deactivate" /\ ~Unbanned(req[d].user)

BansHold ==
    \A d \in Request : Deactivation(d) =>
        /\ req[d].user \in User
        /\ status[req[d].user] # "active"

LoginsBefore ==
    \A d, q \in Request :
        /\ Deactivation(d) /\ req[d].at # 0
        /\ req[q].op = "login" /\ req[q].user = req[d].user
        /\ ~At(q, {"refused"})
        => req[q].began < req[d].at

Doors == Composed /\ ClockReads /\ Issuers /\ EpochCovers /\ BansHold /\ LoginsBefore

-----------------------------------------------------------------------------
LEMMA DoorsHold == Doors => DeactivatedDoors
<1>. SUFFICES ASSUME Doors, NEW d \in Request, NEW j \in Jti,
                     req[d].op = "deactivate", req[d].wrote, ~Overwritten(d),
                     \A q \in Request : req[q].op = "activate" => req[q].user # req[d].user,
                     access[j].user = req[d].user, Accepts(j)
              PROVE  /\ Opener(j) # None
                     /\ access[j].iat > req[d].at
                     /\ \/ req[Opener(j)].op = "refresh"
                        \/ req[Opener(j)].op = "login" /\ req[Opener(j)].began < req[d].at
  BY DEF DeactivatedDoors
<1>1. /\ req[d].at \in Nat /\ access[j].iat \in Nat /\ access[j].user \in User
      /\ epoch[req[d].user] \in Nat /\ access[j].by \in Request \cup {None}
  BY DEF Doors, Composed, Typed, TypeOK, Inputs, Accepts, Issued
<1>2. access[j].iat >= epoch[req[d].user] /\ epoch[req[d].user] >= req[d].at
  BY <1>1 DEF Doors, EpochCovers, Accepts
<1>3. req[d].at # 0 /\ req[d].at > 1 /\ req[d].at # access[j].iat
  BY DEF Doors, ClockReads, ReadsOf, ReadFor, Accepts
<1>4. access[j].iat > req[d].at
  BY <1>1, <1>2, <1>3
<1>5. Opener(j) \in Request
  BY <1>1, <1>3, <1>4 DEF Doors, ClockReads, ReadFor, Accepts, Opener
<1>6. /\ At(Opener(j), {"done"})
      /\ req[Opener(j)].op \in {"login", "refresh"}
      /\ req[Opener(j)].user = req[d].user
  BY <1>5, NoneAssumption DEF Doors, Issuers, IssuedBy, Opener
<1>7. req[Opener(j)].op = "login" => req[Opener(j)].began < req[d].at
  BY <1>3, <1>5, <1>6 DEF Doors, LoginsBefore, Deactivation, Unbanned, At
<1>. QED BY <1>4, <1>5, <1>6, <1>7, NoneAssumption

-----------------------------------------------------------------------------
\* A request starts, or goes on as the use case it is; one that has ended stays.
GoesOn(r) ==
    /\ req'[r].op = req[r].op /\ req'[r].began = req[r].began
    /\ req'[r].user = req[r].user \/ (req[r].op = "refresh" /\ At(r, {"select"}))
    /\ req'[r].wrote = req[r].wrote \/ At(r, {"epoch"})
    /\ pc[r] \in Ended => pc'[r] = pc[r] /\ req'[r] = req[r]

LEMMA StartsOrGoesOn ==
    ASSUME Typed, Control, [Next]_vars, NEW r \in Request
    PROVE  (Starts(r) /\ Begins(r) /\ req[r] = NoReq) \/ GoesOn(r)
<1>1. CASE pc'[r] = pc[r] /\ req'[r] = req[r]
  BY <1>1 DEF GoesOn
<1>2. CASE Starts(r)
  BY <1>2, StartBegins DEF Begins, Control, ControlOf, At
<1>3. CASE Step(r) \/ Fail(r)
  <2>1. Keeps(r) /\ Leads(r) /\ ControlOf(r)
    BY <1>3, StepKeeps, StepLeads DEF Control
  <2>2. pc[r] \notin Ended
    BY <2>1 DEF Leads, Ended
  <2>. QED BY <2>1, <2>2 DEF Keeps, ControlOf, GoesOn, At
<1>. QED BY <1>1, <1>2, <1>3, OneMoves DEF Moves, vars

\* A request keeps the instant it read, or reads one that is new.
Reads(r) ==
    \/ req'[r].at = req[r].at /\ (At(r, {"now", "reread"}) => ~At(r, {"epoch"})')
    \/ req'[r].at = clock + 1 /\ clock' = clock + 1

\* Only RefreshStart begins a refresh.
LEMMA RefreshesStart ==
    ASSUME Typed, NEW r \in Request, Starts(r), req'[r].op = "refresh"
    PROVE  \E f \in Session : \E g \in 0 .. session[f].gen : RefreshStart(r, f, g)
<1>. USE DEF Typed, TypeOK, Start, NoReq
<1>1. ASSUME NEW u \in User, LoginCredentials(r, u) PROVE FALSE
  BY <1>1 DEF LoginCredentials
<1>2. ASSUME NEW u \in User, DeleteUser(r, u) PROVE FALSE
  <2>1. PICK next \in {"done", "refused"} :
            Start(r, [NoReq EXCEPT !.op = "delete", !.user = u], next)
    BY <1>2, Zenon DEF DeleteUser
  <2>. QED BY <2>1
<1>3. ASSUME NEW j \in Jti, NEW f, NEW g, LogoutStart(r, j, f, g) PROVE FALSE
  BY <1>3 DEF LogoutStart
<1>4. ASSUME NEW j \in Jti, LogoutAllStart(r, j) PROVE FALSE
  BY <1>4 DEF LogoutAllStart
<1>5. ASSUME NEW u \in User, NEW op \in Ops, SetActive(r, u, op) PROVE FALSE
  BY <1>5 DEF SetActive
<1>6. ASSUME NEW u \in User, NEW x \in Role, AssignStart(r, u, x) PROVE FALSE
  BY <1>6 DEF AssignStart
<1>. HIDE DEF Start, TypeOK
<1>. QED BY <1>1, <1>2, <1>3, <1>4, <1>5, <1>6 DEF Starts

LEMMA RequestReads ==
    ASSUME Typed, Control, [Next]_vars, NEW r \in Request
    PROVE  Reads(r)
<1>. USE DEF Typed, TypeOK, Reads, At
<1>1. CASE pc'[r] = pc[r] /\ req'[r] = req[r]
  BY <1>1
<1>2. CASE Starts(r)
  <2>1. Begins(r)
    BY <1>2, StartBegins
  <2>2. req[r].at = 0
    <3>1. req[r] = NoReq
      BY <2>1 DEF Begins, Control, ControlOf
    <3>. QED BY <3>1 DEF NoReq
  <2>3. CASE req'[r].op = "refresh"
    <3>1. PICK f \in Session : \E g \in 0 .. session[f].gen : RefreshStart(r, f, g)
      BY <1>2, <2>3, RefreshesStart
    <3>2. clock' = clock + 1
      BY <3>1 DEF RefreshStart
    <3>. QED BY <2>1, <2>3, <3>2 DEF Begins
  <2>. QED BY <2>1, <2>2, <2>3 DEF Begins
<1>3. CASE LogoutAllNow(r) \/ Reread(r)
  <2>1. req[r] \in Inputs
    OBVIOUS
  <2>. QED BY <1>3, <2>1 DEF LogoutAllNow, Reread, GoTo, Inputs
<1>4. CASE (Step(r) \/ Fail(r)) /\ pc[r] \notin {"now", "reread"}
  BY <1>4, StepKeeps DEF Keeps
<1>5. CASE Fail(r)
  BY <1>5 DEF Fail, GoTo
<1>6. pc[r] \in {"now", "reread"} /\ Step(r) => LogoutAllNow(r) \/ Reread(r)
  BY DEF Step, ReadRoles, ReadPermissions, CreateSession, IssueToken, SelectForUpdate,
         Rotate, Snapshot, Sweep, RevokeUser, BlockToken, Lookup, Revoke, AssignRole
<1>. QED BY <1>1, <1>2, <1>3, <1>4, <1>5, <1>6, OneMoves DEF Moves, vars

-----------------------------------------------------------------------------
(* Instants                                                                *)

LEMMA ReadsOfNext ==
    ASSUME Typed, Control, ClockReads, [Next]_vars, NEW r \in Request
    PROVE  ReadsOf(r)'
<1>1. /\ clock \in Nat /\ clock' \in {clock, clock + 1} /\ clock >= 1
      /\ req[r].at \in Nat /\ req[r].began \in Nat
  BY ClockWriters DEF Typed, ClockReads, Inputs
<1>2. ReadsOf(r) /\ Reads(r) /\ ControlOf(r)
  BY RequestReads DEF ClockReads, Control
<1>3. /\ req'[r].at <= clock' /\ (req'[r].at # 0 => req'[r].at > 1)
  BY <1>1, <1>2 DEF ReadsOf, Reads
<1>4. req'[r].began <= clock'
  <2>1. req'[r].began \in {clock, req[r].began}
    BY StartsOrGoesOn DEF Begins, GoesOn
  <2>. QED BY <1>1, <1>2, <2>1 DEF ReadsOf
<1>5. ASSUME req'[r].wrote \/ At(r, {"epoch"})' \/ req'[r].op = "refresh"
      PROVE  req'[r].at # 0
  <2>1. CASE Starts(r) /\ Begins(r) /\ req[r] = NoReq
    BY <1>1, <1>5, <2>1 DEF Begins, At
  <2>2. CASE GoesOn(r)
    <3>1. CASE req'[r].at # req[r].at
      BY <1>1, <1>2, <3>1 DEF Reads
    <3>2. CASE req[r].wrote \/ At(r, {"epoch"}) \/ req[r].op = "refresh"
      BY <1>1, <1>2, <3>2 DEF ReadsOf, Reads
    <3>3. CASE ~(req[r].wrote \/ At(r, {"epoch"}) \/ req[r].op = "refresh")
      <4>1. At(r, {"epoch"})'
        BY <1>5, <2>2, <3>3 DEF GoesOn
      <4>2. pc[r] # pc'[r] /\ pc[r] # "idle"
        BY <2>2, <3>3, <4>1, StartBegins, OneMoves, StepLeads
           DEF At, Begins, Leads, Ended, Moves, vars
      <4>3. Step(r) \/ Fail(r)
        BY <4>2, OneMoves, StartBegins DEF Moves, Begins, vars
      <4>4. At(r, {"now", "reread"})
        BY <1>2, <3>3, <4>1, <4>3, StepLeads DEF Leads, ControlOf, At
      <4>. QED BY <1>1, <1>2, <4>1, <4>4 DEF Reads
    <3>. QED BY <3>2, <3>3
  <2>. QED BY <2>1, <2>2, StartsOrGoesOn
<1>. QED BY <1>3, <1>4, <1>5 DEF ReadsOf, At

LEMMA ReadForNext ==
    ASSUME Typed, Control, ClockReads, [Next]_vars, NEW j \in Jti
    PROVE  ReadFor(j)'
<1>1. clock \in Nat /\ clock' \in {clock, clock + 1} /\ clock >= 1
  BY ClockWriters DEF ClockReads
<1>2. \A r \in Request : req[r].at \in Nat /\ req[r].at <= clock /\ Reads(r)
  BY RequestReads DEF ClockReads, ReadsOf, Typed, Inputs
<1>3. CASE access'[j] = access[j]
  <2>1. access[j].iat \in Nat /\ ReadFor(j)
    BY DEF Typed, TypeOK, ClockReads
  <2>. QED BY <1>1, <1>2, <1>3, <2>1 DEF ReadFor, Issued, Reads
<1>4. ASSUME NEW r \in Request, IssueToken(r, j) PROVE ReadFor(j)'
  <2>1. access'[j].iat = clock + 1 /\ access'[j].by = r /\ clock' = clock + 1 /\ req' = req
    BY <1>4 DEF IssueToken, Typed, TypeOK
  <2>. QED BY <1>1, <1>2, <2>1, NoneAssumption DEF ReadFor
<1>5. access'[j] # access[j] => \E r \in Request : IssueToken(r, j)
  BY TokenWriters DEF IssueToken, BlockToken, RevokeUser, Typed, TypeOK
<1>. QED BY <1>3, <1>4, <1>5

LEMMA ClockReadsNext == Typed /\ Control /\ ClockReads /\ [Next]_vars => ClockReads'
<1>. SUFFICES ASSUME Typed, Control, ClockReads, [Next]_vars PROVE ClockReads'
  OBVIOUS
<1>1. clock' >= 1
  BY ClockWriters DEF ClockReads
<1>. QED BY <1>1, ReadsOfNext, ReadForNext DEF ClockReads

-----------------------------------------------------------------------------
(* Issuers                                                                 *)

LEMMA IssuersNext == Typed /\ Control /\ Issuers /\ [Next]_vars => Issuers'
<1>. SUFFICES ASSUME Typed, Control, Issuers, [Next]_vars, NEW j \in Jti
              PROVE  IssuedBy(j)'
  BY DEF Issuers
<1>1. CASE access'[j] = access[j] /\ access[j].by # None
  <2>1. Opener(j) \in Request /\ access[j].by = Opener(j)
    BY <1>1 DEF Typed, TypeOK, Opener
  <2>2. /\ pc[Opener(j)] = "done"
        /\ req[Opener(j)].op \in {"login", "refresh"}
        /\ req[Opener(j)].user = access[j].user
    BY <1>1 DEF Issuers, IssuedBy, At
  <2>3. pc'[Opener(j)] = "done" /\ req'[Opener(j)] = req[Opener(j)]
    BY <2>1, <2>2, StartsOrGoesOn DEF Begins, GoesOn, Ended
  <2>. QED BY <1>1, <2>1, <2>2, <2>3 DEF IssuedBy, Opener, At
<1>2. ASSUME NEW r \in Request, IssueToken(r, j) PROVE IssuedBy(j)'
  <2>1. /\ access'[j].by = r /\ access'[j].user = req[r].user
        /\ pc'[r] = "done" /\ req' = req
    BY <1>2 DEF IssueToken, GoTo, Typed, TypeOK
  <2>2. req[r].op \in {"login", "refresh"}
    BY <1>2 DEF IssueToken, Control, ControlOf, At
  <2>. QED BY <2>1, <2>2 DEF IssuedBy, Opener, At
<1>3. access'[j] # access[j] => \E r \in Request : IssueToken(r, j)
  BY TokenWriters DEF IssueToken, BlockToken, RevokeUser, Typed, TypeOK
<1>4. access'[j] = access[j] /\ access[j].by = None => IssuedBy(j)'
  BY DEF IssuedBy
<1>. QED BY <1>1, <1>2, <1>3, <1>4

-----------------------------------------------------------------------------
(* Epochs                                                                  *)

\* What a request has revoked stays on its record.
LEMMA RevocationsStay ==
    ASSUME Typed, Control, EpochCovers, [Next]_vars, NEW d \in Request, req[d].wrote
    PROVE  req'[d].wrote /\ req'[d].user = req[d].user /\ req'[d].at = req[d].at
<1>1. RevokedBy(d)
  BY DEF EpochCovers
<1>2. CASE pc'[d] = pc[d] /\ req'[d] = req[d]
  BY <1>2
<1>3. CASE Starts(d)
  BY <1>1, <1>3, StartBegins DEF Begins, RevokedBy, At
<1>4. CASE Step(d) \/ Fail(d)
  BY <1>1, <1>4, StepKeeps DEF Keeps, RevokedBy, At
<1>. QED BY <1>2, <1>3, <1>4, OneMoves DEF Moves, vars

LEMMA RevokedByNext ==
    ASSUME Typed, Control, EpochCovers, [Next]_vars, NEW d \in Request
    PROVE  RevokedBy(d)'
<1>1. RevokedBy(d) /\ ControlOf(d)
  BY DEF EpochCovers, RevokedBy, Control
<1>2. CASE pc'[d] = pc[d] /\ req'[d] = req[d]
  BY <1>1, <1>2 DEF RevokedBy, At
<1>3. CASE Starts(d)
  BY <1>3, StartBegins DEF Begins, RevokedBy
<1>4. CASE Step(d) \/ Fail(d)
  <2>1. Keeps(d) /\ Leads(d)
    BY <1>4, StepKeeps, StepLeads
  <2>2. CASE req[d].wrote
    BY <1>1, <2>1, <2>2 DEF RevokedBy, Keeps, Leads, Ended, At
  <2>3. CASE ~req[d].wrote
    <3>1. CASE pc[d] = "epoch"
      BY <2>1, <3>1 DEF RevokedBy, Keeps, Leads, At
    <3>2. CASE pc[d] # "epoch"
      <4>1. req'[d].wrote = req[d].wrote
        BY <2>1, <3>2 DEF Keeps, At
      <4>. QED BY <2>3, <4>1 DEF RevokedBy
    <3>. QED BY <3>1, <3>2
  <2>. QED BY <2>2, <2>3
<1>. QED BY <1>2, <1>3, <1>4, OneMoves DEF Moves, vars

LEMMA EpochCoversNext ==
    Typed /\ Control /\ ClockReads /\ EpochCovers /\ [Next]_vars => EpochCovers'
<1>. SUFFICES ASSUME Typed, Control, ClockReads, EpochCovers, [Next]_vars,
                     NEW d \in Request, req'[d].wrote
              PROVE  /\ req'[d].user \in User
                     /\ epoch'[req'[d].user] >= req'[d].at \/ Overwritten(d)'
  BY RevokedByNext DEF EpochCovers, RevokedBy
<1>1. \A r \in Request : req[r].at \in Nat
  BY DEF Typed, Inputs
<1>2. ASSUME NEW q \in Request, RevokeUser(q)
      PROVE  /\ req[q].user \in User
             /\ epoch' = [epoch EXCEPT ![req[q].user] = req[q].at]
             /\ req'[q].wrote /\ req'[q].user = req[q].user /\ req'[q].at = req[q].at
             /\ \A r \in Request \ {q} : req'[r] = req[r]
  <2>1. req[q] \in Inputs /\ req[q].user \in User
    BY <1>2 DEF RevokeUser, Typed, Control, ControlOf, At
  <2>. QED BY <1>2, <2>1 DEF RevokeUser, Typed, Inputs
<1>3. CASE req[d].wrote
  <2>1. req'[d].user = req[d].user /\ req'[d].at = req[d].at /\ req[d].user \in User
    BY <1>3, RevocationsStay DEF EpochCovers
  <2>2. CASE Overwritten(d)
    <3>1. PICK q \in Request : /\ req[q].wrote /\ req[q].user = req[d].user
                               /\ req[q].at < req[d].at
      BY <2>2 DEF Overwritten
    <3>2. req'[q].wrote /\ req'[q].user = req[q].user /\ req'[q].at = req[q].at
      BY <3>1, RevocationsStay
    <3>. QED BY <2>1, <3>1, <3>2 DEF Overwritten
  <2>3. CASE epoch[req[d].user] >= req[d].at /\ epoch' = epoch
    BY <2>1, <2>3
  <2>4. ASSUME epoch[req[d].user] >= req[d].at, NEW q \in Request, RevokeUser(q)
        PROVE  epoch'[req[d].user] >= req[d].at \/ Overwritten(d)'
    <3>1. CASE req[q].user # req[d].user \/ req[q].at >= req[d].at
      BY <1>2, <2>1, <2>4, <3>1 DEF Typed, TypeOK
    <3>2. CASE req[q].user = req[d].user /\ ~(req[q].at >= req[d].at)
      <4>1. req[q].at < req[d].at
        BY <1>1, <3>2
      <4>. QED BY <1>2, <2>1, <2>4, <3>2, <4>1 DEF Overwritten
    <3>. QED BY <3>1, <3>2
  <2>5. epoch' = epoch \/ \E q \in Request : RevokeUser(q)
    BY TokenWriters DEF IssueToken, BlockToken, redis
  <2>. QED BY <1>3, <2>1, <2>2, <2>3, <2>4, <2>5 DEF EpochCovers
<1>4. CASE ~req[d].wrote
  <2>1. /\ pc[d] = "epoch" /\ ~(pc'[d] = pc[d] /\ req'[d] = req[d]) /\ ~Starts(d)
    BY <1>4, StartsOrGoesOn, StartBegins DEF Begins, GoesOn, At
  <2>2. Step(d) \/ Fail(d)
    BY <2>1, OneMoves DEF Moves, vars
  <2>3. RevokeUser(d)
    BY <1>4, <2>1, <2>2 DEF Step, Fail, ReadRoles, ReadPermissions, CreateSession, IssueToken,
       SelectForUpdate, Rotate, Snapshot, Sweep, LogoutAllNow, BlockToken, Lookup, Revoke,
       Reread, AssignRole
  <2>4. epoch'[req[d].user] = req[d].at
    BY <1>2, <2>3 DEF Typed, TypeOK
  <2>. QED BY <1>1, <1>2, <2>3, <2>4
<1>. QED BY <1>3, <1>4

-----------------------------------------------------------------------------
(* Bans                                                                    *)

\* Whoever was activated stays so on record.
LEMMA DeactivationBefore ==
    ASSUME Typed, Control, [Next]_vars, NEW d \in Request, Deactivation(d)', GoesOn(d)
    PROVE  Deactivation(d) /\ req'[d].user = req[d].user
<1>1. req[d].op = "deactivate" /\ req'[d].user = req[d].user
  BY DEF Deactivation, GoesOn
<1>2. ASSUME NEW q \in Request, req[q].op = "activate"
      PROVE  req'[q].op = "activate" /\ req'[q].user = req[q].user
  BY <1>2, StartsOrGoesOn DEF GoesOn, NoReq
<1>. QED BY <1>1, <1>2 DEF Deactivation, Unbanned

\* Only an activation makes an account active.
LEMMA Activates ==
    ASSUME Typed, [Next]_vars, NEW u \in User, status[u] # "active", status'[u] = "active"
    PROVE  Unbanned(u)'
<1>1. PICK r \in Request : \/ \E v \in User : \/ DeleteUser(r, v)
                                            \/ \E op \in Ops : SetActive(r, v, op)
                          \/ AssignRole(r)
  BY AccountWriters DEF accounts
<1>2. CASE AssignRole(r)
  BY <1>2 DEF AssignRole
<1>3. ASSUME NEW v \in User, DeleteUser(r, v) PROVE FALSE
  BY <1>3 DEF DeleteUser, Typed, TypeOK
<1>4. ASSUME NEW v \in User, NEW op \in Ops, SetActive(r, v, op) PROVE Unbanned(u)'
  <2>1. v = u /\ op = "activate"
    BY <1>4 DEF SetActive, Typed, TypeOK
  <2>2. req'[r].op = "activate" /\ req'[r].user = u
    BY <1>4, <2>1 DEF SetActive, Start, NoReq, Typed
  <2>. QED BY <2>2 DEF Unbanned
<1>. QED BY <1>1, <1>2, <1>3, <1>4

LEMMA BansHoldNext == Typed /\ Control /\ BansHold /\ [Next]_vars => BansHold'
<1>. SUFFICES ASSUME Typed, Control, BansHold, [Next]_vars,
                     NEW d \in Request, Deactivation(d)'
              PROVE  req'[d].user \in User /\ status'[req'[d].user] # "active"
  BY DEF BansHold
<1>1. CASE Begins(d)
  BY <1>1 DEF Begins, Deactivation
<1>2. CASE GoesOn(d)
  <2>1. Deactivation(d) /\ req'[d].user = req[d].user
    BY <1>2, DeactivationBefore
  <2>2. req[d].user \in User /\ status[req[d].user] # "active"
    BY <2>1 DEF BansHold
  <2>. QED BY <2>1, <2>2, Activates DEF Deactivation
<1>. QED BY <1>1, <1>2, StartsOrGoesOn

LEMMA LoginsBeforeNext ==
    Typed /\ Control /\ ClockReads /\ BansHold /\ LoginsBefore /\ [Next]_vars => LoginsBefore'
<1>. SUFFICES ASSUME Typed, Control, ClockReads, BansHold, LoginsBefore, [Next]_vars,
                     NEW d \in Request, NEW q \in Request,
                     Deactivation(d)', req'[d].at # 0,
                     req'[q].op = "login", req'[q].user = req'[d].user, pc'[q] # "refused"
              PROVE  req'[q].began < req'[d].at
  BY DEF LoginsBefore, At
<1>1. GoesOn(d)
  BY StartsOrGoesOn DEF Begins, Deactivation
<1>2. Deactivation(d) /\ req'[d].user = req[d].user
  BY <1>1, DeactivationBefore
<1>3. GoesOn(q)
  BY <1>2, StartsOrGoesOn DEF Begins, BansHold
<1>4. /\ req[q].op = "login" /\ req[q].user = req[d].user /\ req'[q].began = req[q].began
      /\ pc[q] # "refused"
  BY <1>2, <1>3 DEF GoesOn, Ended
<1>5. /\ clock \in Nat /\ req[q].began \in Nat /\ req[q].began <= clock
  BY DEF Typed, TypeOK, Inputs, ClockReads, ReadsOf
<1>6. req'[d].at = req[d].at \/ req'[d].at = clock + 1
  BY RequestReads DEF Reads
<1>7. req[d].at # 0 => req[q].began < req[d].at
  BY <1>2, <1>4 DEF LoginsBefore, At
<1>. QED BY <1>4, <1>5, <1>6, <1>7

-----------------------------------------------------------------------------
LEMMA DoorsInit == Init => Doors
<1>. SUFFICES ASSUME Init PROVE Doors
  OBVIOUS
<1>1. \A r \in Request : /\ pc[r] = "idle" /\ req[r].op = "none" /\ req[r].at = 0
                         /\ req[r].began = 0 /\ req[r].wrote = FALSE
  BY DEF Init, NoReq
<1>2. ASSUME NEW j \in Jti
      PROVE  access[j].by = None /\ (Issued(j) => access[j].iat = 1)
  <2>1. access[j] = NoAccess \/ \E u \in User : access[j] = Earlier(u)
    BY DEF Init
  <2>2. /\ NoAccess.by = None /\ NoAccess.user = None
        /\ \A u \in User : Earlier(u).by = None /\ Earlier(u).iat = 1
    BY DEF NoAccess, Earlier
  <2>. QED BY <2>1, <2>2 DEF Issued
<1>3. ClockReads
  BY <1>1, <1>2 DEF Init, ClockReads, ReadsOf, ReadFor, At
<1>4. Issuers /\ EpochCovers /\ BansHold /\ LoginsBefore
  BY <1>1, <1>2 DEF Issuers, IssuedBy, EpochCovers, BansHold, LoginsBefore, Deactivation
<1>. QED BY <1>3, <1>4, ComposedInit DEF Doors

LEMMA DoorsNext == Doors /\ [Next]_vars => Doors'
BY ComposedNext, ClockReadsNext, IssuersNext, EpochCoversNext, BansHoldNext, LoginsBeforeNext
   DEF Doors, Composed

\* While a user is deactivated, an access token of theirs works only if a refresh
\* issued it after the revocation, or a login that had read the account before.
THEOREM DeactivationDoors == Spec => []DeactivatedDoors
<1>1. Spec => []Doors
  BY DoorsInit, DoorsNext, PTL DEF Spec
<1>. QED BY <1>1, DoorsHold, PTL

-----------------------------------------------------------------------------
(* Sessions as families of single-use tokens                               *)

\* A rotation that has its row exchanges what was presented to it, and no
\* other request is exchanging it.
RotatesAlone(r) ==
    pc[r] = "rotate" =>
        /\ Current(r)
        /\ \A q \in Request : pc[q] = "rotate" /\ req[q].session = req[r].session => q = r

RotationsAreExclusive == \A r \in Request : RotatesAlone(r)

\* Whatever another request does, a row that is held stays as it is.
LEMMA HeldSessions ==
    ASSUME Typed, SessionsOwned, Control, RotationsAreExclusive, [Next]_vars,
           NEW r \in Request, pc[r] = "rotate", ~Rotate(r)
    PROVE  session'[req[r].session] = session[req[r].session]
<1>. DEFINE f == req[r].session
<1>. USE DEF Typed, TypeOK
<1>1. f \in Session /\ Locked(f) /\ session[f].state = "live" /\ session[f].user \in User
  BY DEF Control, ControlOf, At, Locked, RotationsAreExclusive, RotatesAlone, Current, SessionsOwned
<1>. HIDE DEF f
<1>2. ASSUME NEW q \in Request, NEW u \in User, DeleteUser(q, u) PROVE session'[f] = session[f]
  BY <1>1, <1>2 DEF DeleteUser
<1>3. ASSUME NEW q \in Request, NEW g \in Session, CreateSession(q, g) PROVE session'[f] = session[f]
  BY <1>1, <1>3 DEF CreateSession, Vacant
<1>4. ASSUME NEW q \in Request, SelectForUpdate(q) PROVE session'[f] = session[f]
  <2>1. CASE session' = session
    BY <2>1
  <2>2. CASE Current(q) /\ session' = [session EXCEPT ![req[q].session].state = "ended"]
    <3>1. ~Locked(req[q].session)
      BY <1>4, <2>2 DEF SelectForUpdate
    <3>2. req[q].session # f
      BY <1>1, <3>1
    <3>. QED BY <2>2, <3>2
  <2>. QED BY <1>4, <2>1, <2>2, Zenon DEF SelectForUpdate
<1>5. ASSUME NEW q \in Request, Rotate(q) PROVE session'[f] = session[f]
  <2>1. pc[q] = "rotate" /\ q # r
    BY <1>5 DEF Rotate
  <2>2. req[q].session # f
    BY <2>1 DEF RotationsAreExclusive, RotatesAlone, f
  <2>. QED BY <1>5, <2>2 DEF Rotate
<1>6. ASSUME NEW q \in Request, Sweep(q) PROVE session'[f] = session[f]
  <2>1. <<f, session[f].gen>> \notin req[q].snap
    BY <1>1, <1>6 DEF Sweep
  <2>. QED BY <1>1, <1>6, <2>1 DEF Sweep
<1>7. ASSUME NEW q \in Request, Revoke(q) PROVE session'[f] = session[f]
  <2>1. Current(q) => req[q].session # f
    BY <1>1, <1>7 DEF Revoke
  <2>. QED BY <1>7, <2>1 DEF Revoke
<1>8. session' = session => session'[f] = session[f]
  OBVIOUS
<1>. QED BY <1>2, <1>3, <1>4, <1>5, <1>6, <1>7, <1>8, SessionWriters DEF f

\* Who comes to hold a row has found it current and held by nobody.
LEMMA HoldingBegins ==
    ASSUME Typed, NEW r \in Request, Starts(r) \/ Step(r) \/ Fail(r),
           pc'[r] = "rotate"
    PROVE  /\ Current(r) /\ ~Locked(req[r].session) /\ session' = session
           /\ req'[r].session = req[r].session /\ req'[r].gen = req[r].gen
<1>1. ~Starts(r)
  BY StartBegins DEF Begins
<1>2. Step(r) \/ Fail(r)
  BY <1>1
<1>3. pc[r] = "select" /\ Keeps(r)
  BY <1>2, StepLeads, StepKeeps DEF Leads
<1>4. SelectForUpdate(r)
  BY <1>2, <1>3 DEF Step, Fail, GoTo, Typed, TypeOK, ReadRoles, ReadPermissions,
         CreateSession, IssueToken, Rotate, Snapshot, Sweep, LogoutAllNow, RevokeUser,
         BlockToken, Lookup, Revoke, Reread, AssignRole
<1>5. Current(r) /\ session' = session
  BY <1>4 DEF SelectForUpdate, GoTo, Typed, TypeOK
<1>6. ~Locked(req[r].session)
  BY <1>4, <1>5 DEF SelectForUpdate
<1>7. req'[r].session = req[r].session
  BY <1>3 DEF Keeps, At
<1>8. req'[r].gen = req[r].gen
  BY <1>3 DEF Keeps
<1>. QED BY <1>5, <1>6, <1>7, <1>8

LEMMA RotationsNext ==
    Typed /\ SessionsOwned /\ Control /\ RotationsAreExclusive /\ [Next]_vars
        => RotationsAreExclusive'
<1>. SUFFICES ASSUME Typed, SessionsOwned, Control, RotationsAreExclusive, [Next]_vars
              PROVE  RotationsAreExclusive'
  OBVIOUS
<1>1. CASE UNCHANGED vars
  BY <1>1 DEF vars, RotationsAreExclusive, RotatesAlone, Current
<1>2. ASSUME NEW p \in Request, Moves(p), Starts(p) \/ Step(p) \/ Fail(p)
      PROVE  RotationsAreExclusive'
  <2>1. ASSUME NEW r \in Request, r # p, pc'[r] = "rotate"
        PROVE  /\ pc[r] = "rotate" /\ req'[r] = req[r]
               /\ Current(r)'
    <3>1. pc[r] = "rotate" /\ req'[r] = req[r]
      BY <1>2, <2>1 DEF Moves
    <3>2. ~Rotate(r)
      BY <2>1 DEF Rotate, GoTo, Typed, TypeOK
    <3>3. session'[req[r].session] = session[req[r].session]
      BY <3>1, <3>2, HeldSessions
    <3>4. Current(r)
      BY <3>1 DEF RotationsAreExclusive, RotatesAlone
    <3>. QED BY <3>1, <3>3, <3>4 DEF Current
  <2>2. ASSUME pc'[p] = "rotate"
        PROVE  /\ Current(p)'
               /\ \A q \in Request \ {p} :
                     pc'[q] = "rotate" => req'[q].session # req'[p].session
    <3>1. /\ Current(p) /\ ~Locked(req[p].session) /\ session' = session
          /\ req'[p].session = req[p].session /\ req'[p].gen = req[p].gen
      BY <1>2, <2>2, HoldingBegins
    <3>2. ASSUME NEW q \in Request \ {p}, pc'[q] = "rotate"
          PROVE  req'[q].session # req'[p].session
      <4>1. pc[q] = "rotate" /\ req'[q] = req[q]
        BY <2>1, <3>2
      <4>. QED BY <3>1, <4>1 DEF Locked
    <3>. QED BY <3>1, <3>2 DEF Current
  <2>3. ASSUME NEW r \in Request, NEW q \in Request, r # p, q # p,
               pc'[r] = "rotate", pc'[q] = "rotate", req'[q].session = req'[r].session
        PROVE  q = r
    BY <2>1, <2>3 DEF RotationsAreExclusive, RotatesAlone
  <2>4. ASSUME NEW r \in Request, pc'[r] = "rotate" PROVE Current(r)'
    BY <2>1, <2>2, <2>4
  <2>5. ASSUME NEW r \in Request, NEW q \in Request,
               pc'[r] = "rotate", pc'[q] = "rotate", req'[q].session = req'[r].session
        PROVE  q = r
    BY <2>2, <2>3, <2>5
  <2>. QED BY <2>4, <2>5 DEF RotationsAreExclusive, RotatesAlone
<1>. QED BY <1>1, <1>2, OneMoves

Rotating == Composed /\ RotationsAreExclusive

LEMMA RotatingInvariant == Spec => []Rotating
<1>1. Init => Rotating
  <2>1. Init => RotationsAreExclusive
    BY DEF Init, RotationsAreExclusive, RotatesAlone
  <2>. QED BY <2>1, ComposedInit DEF Rotating
<1>2. Rotating /\ [Next]_vars => Rotating'
  BY ComposedNext, RotationsNext DEF Rotating, Composed
<1>. QED BY <1>1, <1>2, PTL DEF Spec

\* No two refreshes exchange one token, and what a refresh exchanges is what was
\* presented to it (auth.py:103-142), whatever revocations and deletions overlap it.
THEOREM RotationsStayExclusive == Spec => []RotationsAreExclusive
BY RotatingInvariant, PTL DEF Rotating

\* What a client holds of a session: a token of each generation it has had, of
\* which the last one can be exchanged while the session is live.
Generations(f) ==
    IF session[f] = Vacant THEN {} ELSE {<<f, i>> : i \in 0 .. session[f].gen}
Usable(f) ==
    IF session[f].state = "live" THEN {<<f, session[f].gen>>} ELSE {}

knownBar == [f \in Session |-> Generations(f)]
liveBar == [f \in Session |-> Usable(f)]

Families == INSTANCE TokenFamily WITH
    Token <- Session \X Nat, Family <- Session, known <- knownBar, live <- liveBar

\* Each step of the use cases is one of TokenFamily's or changes nothing of it.
\* Its initial states have no session yet; here some may be open at first.
StepsOfTokenFamily == [][Families!Next]_(Families!vars)

LEMMA FamilyOpens ==
    ASSUME Typed, SessionsOwned, NEW f \in Session, NEW u \in User, session[f] = Vacant,
           session' = [session EXCEPT ![f] = Opened(u)]
    PROVE  Families!Next
<1>. DEFINE t == <<f, 0>>
<1>1. knownBar[f] = {} /\ \A g \in Session : t \notin knownBar[g]
  <2>1. \A g \in Session \ {f} : t \notin Generations(g)
    BY DEF Generations
  <2>2. Generations(f) = {}
    BY DEF Generations
  <2>. QED BY <2>1, <2>2 DEF knownBar
<1>2. session'[f] = Opened(u) /\ \A g \in Session \ {f} : session'[g] = session[g]
  BY DEF Typed, TypeOK
<1>3. /\ Opened(u) # Vacant /\ Opened(u).state = "live" /\ Opened(u).gen = 0
  BY NoneAssumption DEF Opened, Vacant
<1>4. Generations(f)' = {t} /\ Usable(f)' = {t}
  <2>1. 0 .. 0 = {0}
    OBVIOUS
  <2>. QED BY <1>2, <1>3, <2>1 DEF Generations, Usable
<1>5. \A g \in Session \ {f} : Generations(g)' = Generations(g) /\ Usable(g)' = Usable(g)
  BY <1>2 DEF Generations, Usable
<1>6. knownBar' = [knownBar EXCEPT ![f] = {t}] /\ liveBar' = [liveBar EXCEPT ![f] = {t}]
  BY <1>4, <1>5 DEF knownBar, liveBar
<1>7. t \in Session \X Nat
  OBVIOUS
<1>. HIDE DEF t
<1>. QED BY <1>1, <1>6, <1>7 DEF Families!Next, Families!Open, Families!Unused

LEMMA FamilyRotates ==
    ASSUME Typed, NEW f \in Session, session[f].state = "live",
           session' = [session EXCEPT ![f].gen = @ + 1]
    PROVE  Families!Next
<1>. DEFINE n == session[f].gen
           t == <<f, n>>
           c == <<f, n + 1>>
<1>1. session[f] \in SessionRecord
  BY SessionSteps DEF Typed
<1>2. /\ session'[f] = [session[f] EXCEPT !.gen = n + 1]
      /\ \A g \in Session \ {f} : session'[g] = session[g]
  BY DEF Typed, TypeOK
<1>3. n \in Nat /\ session'[f].gen = n + 1 /\ session'[f].state = "live"
  BY <1>1, <1>2 DEF SessionRecord
<1>4. session[f] # Vacant /\ session'[f] # Vacant
  BY <1>3 DEF Vacant
<1>5. Usable(f) = {t} /\ Usable(f)' = {c}
  BY <1>3 DEF Usable
<1>6. Generations(f)' = Generations(f) \cup {c} /\ c \notin Generations(f)
  <2>1. 0 .. (n + 1) = (0 .. n) \cup {n + 1} /\ n + 1 \notin 0 .. n
    BY <1>3
  <2>2. Generations(f) = {<<f, i>> : i \in 0 .. n}
    BY <1>4 DEF Generations
  <2>3. Generations(f)' = {<<f, i>> : i \in 0 .. (n + 1)}
    BY <1>3, <1>4 DEF Generations
  <2>. QED BY <2>1, <2>2, <2>3
<1>7. \A g \in Session \ {f} : Generations(g)' = Generations(g) /\ Usable(g)' = Usable(g)
  BY <1>2 DEF Generations, Usable
<1>8. \A g \in Session \ {f} : c \notin Generations(g)
  BY DEF Generations
<1>9. t \in Session \X Nat /\ c \in Session \X Nat
  BY <1>3
<1>. HIDE DEF t, c
<1>10. /\ knownBar' = [knownBar EXCEPT ![f] = @ \cup {c}]
       /\ liveBar' = [liveBar EXCEPT ![f] = {c}]
  BY <1>5, <1>6, <1>7 DEF knownBar, liveBar
<1>11. liveBar[f] = {t} /\ \A g \in Session : c \notin knownBar[g]
  BY <1>5, <1>6, <1>8 DEF knownBar, liveBar
<1>. QED BY <1>9, <1>10, <1>11 DEF Families!Next, Families!Exchange, Families!Unused

\* Sessions that end keep their generation.
Ends(F) ==
    \A f \in Session :
        IF f \in F
        THEN /\ session[f] # Vacant /\ session'[f].gen = session[f].gen
             /\ session'[f].state \in {"ended", "deleted"}
        ELSE session'[f] = session[f]

LEMMA FamiliesEnd ==
    ASSUME Typed, NEW F \in SUBSET Session, Ends(F)
    PROVE  Families!Next
<1>1. ASSUME NEW f \in Session
      PROVE  /\ Generations(f)' = Generations(f)
             /\ Usable(f)' = IF f \in F THEN {} ELSE Usable(f)
  <2>1. CASE f \in F
    <3>1. /\ session[f] # Vacant /\ session'[f].gen = session[f].gen
          /\ session'[f].state \in {"ended", "deleted"}
      BY <2>1 DEF Ends
    <3>2. session'[f] # Vacant
      BY <3>1 DEF Vacant
    <3>. QED BY <2>1, <3>1, <3>2 DEF Generations, Usable
  <2>2. CASE f \notin F
    BY <2>2 DEF Ends, Generations, Usable
  <2>. QED BY <2>1, <2>2
<1>2. knownBar' = knownBar
  BY <1>1 DEF knownBar
<1>3. liveBar' = [f \in Session |-> IF f \in F THEN {} ELSE liveBar[f]]
  BY <1>1 DEF liveBar
<1>. QED BY <1>2, <1>3 DEF Families!Next, Families!End

LEMMA FamilySteps ==
    Rotating /\ [Next]_vars => [Families!Next]_(Families!vars)
<1>. SUFFICES ASSUME Rotating, [Next]_vars PROVE [Families!Next]_(Families!vars)
  OBVIOUS
<1>. USE DEF Rotating, Composed
<1>1. ASSUME session' = session PROVE UNCHANGED Families!vars
  BY <1>1 DEF Families!vars, knownBar, liveBar, Generations, Usable
<1>2. ASSUME NEW r \in Request, NEW u \in User, DeleteUser(r, u), session' # session
      PROVE  Families!Next
  <2>. DEFINE F == {f \in Session : session[f].user = u}
  <2>1. session' = [f \in Session |->
            IF session[f].user = u THEN [session[f] EXCEPT !.state = "deleted"] ELSE session[f]]
    BY <1>2, Zenon DEF DeleteUser
  <2>2. ASSUME NEW f \in Session, session[f].user = u
        PROVE  /\ session[f] # Vacant /\ session'[f].gen = session[f].gen
               /\ session'[f].state = "deleted"
    BY <2>1, <2>2, SessionSteps, NoneAssumption DEF Typed, SessionRecord, Vacant
  <2>3. Ends(F)
    BY <2>1, <2>2 DEF Ends
  <2>. QED BY <2>3, FamiliesEnd
<1>3. ASSUME NEW r \in Request, NEW f \in Session, CreateSession(r, f), session' # session
      PROVE  Families!Next
  <2>1. session[f] = Vacant /\ session' = [session EXCEPT ![f] = Opened(req[r].user)]
    BY <1>3, Zenon DEF CreateSession
  <2>2. req[r].user \in User
    BY <1>3 DEF CreateSession, Control, ControlOf, At
  <2>. QED BY <2>1, <2>2, FamilyOpens
<1>4. ASSUME NEW f \in Session, session[f].state = "live",
             session' = [session EXCEPT ![f].state = "ended"]
      PROVE  Families!Next
  <2>1. session'[f] = [session[f] EXCEPT !.state = "ended"]
        /\ \A g \in Session \ {f} : session'[g] = session[g]
    BY <1>4 DEF Typed, TypeOK
  <2>2. session[f] \in SessionRecord
    BY SessionSteps DEF Typed
  <2>3. session'[f].gen = session[f].gen /\ session'[f].state = "ended"
    BY <2>1, <2>2 DEF SessionRecord
  <2>4. session[f] # Vacant
    BY <1>4 DEF Vacant
  <2>5. Ends({f})
    BY <2>1, <2>3, <2>4 DEF Ends
  <2>. QED BY <2>5, FamiliesEnd
<1>5. ASSUME NEW r \in Request, SelectForUpdate(r), session' # session
      PROVE  Families!Next
  <2>1. Current(r) /\ session' = [session EXCEPT ![req[r].session].state = "ended"]
    BY <1>5, Zenon DEF SelectForUpdate
  <2>2. req[r].session \in Session
    BY <1>5 DEF SelectForUpdate, Control, ControlOf, At
  <2>. QED BY <1>4, <2>1, <2>2 DEF Current
<1>6. ASSUME NEW r \in Request, Rotate(r)
      PROVE  Families!Next
  <2>1. req[r].session \in Session /\ session[req[r].session].state = "live"
    BY <1>6 DEF Rotate, Control, ControlOf, At, RotationsAreExclusive, RotatesAlone, Current
  <2>2. session' = [session EXCEPT ![req[r].session].gen = @ + 1]
    BY <1>6 DEF Rotate
  <2>. QED BY <2>1, <2>2, FamilyRotates
<1>7. ASSUME NEW r \in Request, Sweep(r)
      PROVE  Families!Next
  <2>. DEFINE F == {f \in Session : session[f].state = "live" /\ <<f, session[f].gen>> \in req[r].snap}
  <2>1. session' = [f \in Session |->
            IF f \in F THEN [session[f] EXCEPT !.state = "ended"] ELSE session[f]]
    BY <1>7 DEF Sweep
  <2>2. ASSUME NEW f \in F
        PROVE  /\ session[f] # Vacant /\ session'[f].gen = session[f].gen
               /\ session'[f].state = "ended"
    BY <2>1, SessionSteps DEF Typed, SessionRecord, Vacant
  <2>3. F \in SUBSET Session
    OBVIOUS
  <2>. HIDE DEF F
  <2>4. Ends(F)
    BY <2>1, <2>2, <2>3 DEF Ends
  <2>. QED BY <2>3, <2>4, FamiliesEnd
<1>8. ASSUME NEW r \in Request, Revoke(r), session' # session
      PROVE  Families!Next
  <2>1. Current(r) /\ session' = [session EXCEPT ![req[r].session].state = "ended"]
    BY <1>8 DEF Revoke
  <2>2. req[r].session \in Session
    BY <1>8 DEF Revoke, Control, ControlOf, At
  <2>. QED BY <1>4, <2>1, <2>2 DEF Current
<1>. QED BY <1>1, <1>2, <1>3, <1>5, <1>6, <1>7, <1>8, SessionWriters

\* The sessions of this module do what TokenFamily allows, as the table of
\* RefreshTokens does (TableImplementsSessions there): one token of a session can be
\* exchanged, for a new one, until the session ends (docs/adr/0002).
THEOREM SessionsAreFamilies == Spec => StepsOfTokenFamily
BY RotatingInvariant, FamilySteps, PTL DEF Spec, StepsOfTokenFamily

-----------------------------------------------------------------------------
(* What a logout of all sessions leaves                                    *)

\* From its snapshot on, a live session of the user is to be ended, or
\* somebody else's doing.
SparesOnly(r, f) ==
    session[f].user = req[r].user /\ session[f].state = "live" =>
        \/ At(r, {"sweep"}) /\ <<f, session[f].gen>> \in req[r].snap
        \/ Survives(r, f)

EndsAll(r) ==
    req[r].op = "logout_all" /\ At(r, {"sweep", "done"}) =>
        \A f \in Session : SparesOnly(r, f)

AllEnd == \A r \in Request : EndsAll(r)

\* An access token somebody opened has a user.
Signed == \A j \in Jti : access[j].by # None => Issued(j)

\* A session that is live after a step was so before, and as it is, or was
\* just opened or rotated.
LEMMA LiveSteps ==
    ASSUME Typed, Control, [Next]_vars, NEW f \in Session, session'[f].state = "live"
    PROVE  \/ session'[f] = session[f]
           \/ \E q \in Request : CreateSession(q, f) /\ session' # session
           \/ \E q \in Request : Rotate(q) /\ req[q].session = f
<1>. USE DEF Typed, TypeOK
<1>1. ASSUME NEW q \in Request, NEW u \in User, DeleteUser(q, u) PROVE session'[f] = session[f]
  BY <1>1 DEF DeleteUser
<1>2. ASSUME NEW q \in Request, NEW g \in Session, CreateSession(q, g), g # f
      PROVE  session'[f] = session[f]
  BY <1>2 DEF CreateSession
<1>3. ASSUME NEW q \in Request, SelectForUpdate(q) PROVE session'[f] = session[f]
  <2>1. session' = session \/ session' = [session EXCEPT ![req[q].session].state = "ended"]
    BY <1>3, Zenon DEF SelectForUpdate
  <2>. QED BY <2>1
<1>4. ASSUME NEW q \in Request, Rotate(q), req[q].session # f PROVE session'[f] = session[f]
  BY <1>4 DEF Rotate
<1>5. ASSUME NEW q \in Request, Sweep(q) PROVE session'[f] = session[f]
  BY <1>5 DEF Sweep
<1>6. ASSUME NEW q \in Request, Revoke(q) PROVE session'[f] = session[f]
  <2>1. session' = session \/ session' = [session EXCEPT ![req[q].session].state = "ended"]
    BY <1>6, Zenon DEF Revoke
  <2>. QED BY <2>1
<1>7. session' = session => session'[f] = session[f]
  OBVIOUS
<1>. QED BY <1>1, <1>2, <1>3, <1>4, <1>5, <1>6, <1>7, SessionWriters

\* Only LoginCredentials begins a login.
LEMMA OnlyLoginsLogIn ==
    ASSUME Typed, NEW r \in Request, Starts(r), req'[r].op = "login"
    PROVE  \E u \in User : LoginCredentials(r, u)
<1>. USE DEF Typed, TypeOK, Start, NoReq
<1>1. ASSUME NEW u \in User, DeleteUser(r, u) PROVE FALSE
  <2>1. PICK next \in {"done", "refused"} :
            Start(r, [NoReq EXCEPT !.op = "delete", !.user = u], next)
    BY <1>1, Zenon DEF DeleteUser
  <2>. QED BY <2>1
<1>2. ASSUME NEW f \in Session, NEW g, RefreshStart(r, f, g) PROVE FALSE
  BY <1>2 DEF RefreshStart
<1>3. ASSUME NEW j \in Jti, NEW f, NEW g, LogoutStart(r, j, f, g) PROVE FALSE
  BY <1>3 DEF LogoutStart
<1>4. ASSUME NEW j \in Jti, LogoutAllStart(r, j) PROVE FALSE
  BY <1>4 DEF LogoutAllStart
<1>5. ASSUME NEW u \in User, NEW op \in Ops, SetActive(r, u, op) PROVE FALSE
  BY <1>5 DEF SetActive
<1>6. ASSUME NEW u \in User, NEW x \in Role, AssignStart(r, u, x) PROVE FALSE
  BY <1>6 DEF AssignStart
<1>. HIDE DEF Start, TypeOK
<1>. QED BY <1>1, <1>2, <1>3, <1>4, <1>5, <1>6 DEF Starts

\* A login has no session before it has created one.
UnopenedBy(r) ==
    req[r].op = "login" /\ At(r, {"roles", "permissions", "create"}) => req[r].session = None

Unopened == \A r \in Request : UnopenedBy(r)

LEMMA UnopenedNext == Typed /\ Control /\ Unopened /\ [Next]_vars => Unopened'
<1>. SUFFICES ASSUME Typed, Control, Unopened, [Next]_vars, NEW r \in Request
              PROVE  UnopenedBy(r)'
  BY DEF Unopened
<1>1. CASE pc'[r] = pc[r] /\ req'[r] = req[r]
  BY <1>1 DEF Unopened, UnopenedBy, At
<1>2. CASE Starts(r)
  <2>1. CASE \E u \in User : LoginCredentials(r, u)
    <3>1. req'[r].session = None
      BY <2>1 DEF LoginCredentials, Start, NoReq, Typed, TypeOK
    <3>. QED BY <3>1 DEF UnopenedBy
  <2>2. CASE ~\E u \in User : LoginCredentials(r, u)
    <3>1. ~(req'[r].op = "login")
      BY <1>2, <2>2, OnlyLoginsLogIn
    <3>. QED BY <3>1 DEF UnopenedBy
  <2>. QED BY <2>1, <2>2
<1>3. CASE Step(r) \/ Fail(r)
  <2>1. Keeps(r) /\ Leads(r) /\ ControlOf(r)
    BY <1>3, StepKeeps, StepLeads DEF Control
  <2>2. SUFFICES ASSUME req'[r].op = "login", pc'[r] \in {"roles", "permissions", "create"}
                 PROVE  req'[r].session = None
    BY DEF UnopenedBy, At
  <2>3. req[r].op = "login" /\ pc[r] \in {"roles", "permissions"}
    BY <2>1, <2>2 DEF Keeps, Leads, ControlOf, At
  <2>. QED BY <2>1, <2>3 DEF Keeps, Unopened, UnopenedBy, At
<1>. QED BY <1>1, <1>2, <1>3, OneMoves DEF Moves, vars

LEMMA SignedNext == Typed /\ Control /\ Signed /\ [Next]_vars => Signed'
<1>. SUFFICES ASSUME Typed, Control, Signed, [Next]_vars, NEW j \in Jti, access'[j].by # None
              PROVE  access'[j].user # None
  BY DEF Signed, Issued
<1>1. CASE access'[j] = access[j]
  BY <1>1 DEF Signed, Issued
<1>2. ASSUME NEW r \in Request, IssueToken(r, j) PROVE access'[j].user # None
  <2>1. access'[j].user = req[r].user /\ req[r].user \in User
    BY <1>2 DEF IssueToken, Typed, TypeOK, Control, ControlOf, At
  <2>. QED BY <2>1, NoneAssumption
<1>3. access'[j] # access[j] => \E r \in Request : IssueToken(r, j)
  BY TokenWriters DEF IssueToken, BlockToken, RevokeUser, Typed, TypeOK
<1>. QED BY <1>1, <1>2, <1>3

\* What was issued stays as it is.
LEMMA IssuedStays ==
    ASSUME Typed, [Next]_vars, NEW j \in Jti, Issued(j)
    PROVE  access'[j] = access[j]
<1>1. access'[j] # access[j] => \E r \in Request : IssueToken(r, j)
  BY TokenWriters DEF IssueToken, BlockToken, RevokeUser, Typed, TypeOK
<1>. QED BY <1>1 DEF IssueToken

\* Who issues an access token has it from a later instant than any read so far.
LEMMA IssuesLater ==
    ASSUME Typed, ClockReads, NEW r \in Request, NEW q \in Request, NEW j \in Jti, IssueToken(q, j)
    PROVE  access'[j].by = q /\ access'[j].iat > req[r].at
<1>1. access'[j].by = q /\ access'[j].iat = clock + 1
  BY DEF IssueToken, Typed, TypeOK
<1>2. req[r].at \in Nat /\ clock \in Nat /\ req[r].at <= clock
  BY DEF Typed, TypeOK, Inputs, ClockReads, ReadsOf
<1>. QED BY <1>1, <1>2

\* Who made a token and has yet to issue an access token goes on to do so, later
\* than any instant read so far, and what it has issued stays issued.
LEMMA SurvivesPersists ==
    ASSUME Typed, Control, ClockReads, Issuers, Signed, Unopened, [Next]_vars,
           NEW r \in Request, req'[r].at = req[r].at,
           NEW f \in Session, session'[f] = session[f], Survives(r, f)
    PROVE  Survives(r, f)'
<1>1. PICK q \in Request :
          /\ Makes(q, f)
          /\ \/ pc[q] \in {"roles", "permissions", "issue", "failed"}
             \/ \E j \in Jti : Opener(j) = q /\ access[j].iat > req[r].at
  BY DEF Survives
<1>2. CASE \E j \in Jti : Opener(j) = q /\ access[j].iat > req[r].at
  <2>1. PICK j \in Jti : access[j].by = q /\ access[j].iat > req[r].at
    BY <1>2 DEF Opener
  <2>2. access[j].by # None
    BY <2>1, NoneAssumption
  <2>3. access'[j] = access[j]
    BY <2>2, IssuedStays DEF Signed
  <2>4. pc[q] = "done"
    BY <2>1, <2>2 DEF Issuers, IssuedBy, Opener, At
  <2>5. req'[q] = req[q]
    <3>1. req[q] # NoReq
      BY <1>1 DEF Makes, NoReq
    <3>. QED BY <2>4, <3>1, StartsOrGoesOn DEF GoesOn, Ended
  <2>6. Makes(q, f)'
    BY <1>1, <2>5 DEF Makes
  <2>. QED BY <2>1, <2>3, <2>6 DEF Survives, Opener
<1>3. CASE pc[q] \in {"roles", "permissions", "issue", "failed"}
  <2>1. CASE pc'[q] = pc[q] /\ req'[q] = req[q]
    <3>1. Makes(q, f)'
      BY <1>1, <2>1 DEF Makes
    <3>. QED BY <1>3, <2>1, <3>1 DEF Survives
  <2>2. CASE Starts(q)
    BY <1>3, <2>2, StartBegins DEF Begins
  <2>3. CASE Step(q) \/ Fail(q)
    <3>1. Keeps(q) /\ Leads(q) /\ ControlOf(q)
      BY <2>3, StepKeeps, StepLeads DEF Control
    <3>2. Makes(q, f)'
      BY <1>1, <1>3, <3>1 DEF Keeps, Makes, At
    <3>3. CASE pc'[q] \in {"roles", "permissions", "issue", "failed"}
      BY <3>2, <3>3 DEF Survives
    <3>4. CASE pc'[q] = "create"
      <4>1. req[q].op = "login" /\ pc[q] = "permissions"
        BY <1>3, <3>1, <3>4 DEF Leads
      <4>. QED BY <1>1, <4>1, NoneAssumption DEF Makes, Unopened, UnopenedBy, At
    <3>5. CASE pc[q] = "issue" /\ pc'[q] = "done"
      <4>1. \E j \in Jti : IssueToken(q, j)
        BY <2>3, <3>5 DEF Step, Fail, GoTo, Typed, TypeOK, ReadRoles, ReadPermissions,
               CreateSession, SelectForUpdate, Rotate, Snapshot, Sweep, LogoutAllNow,
               RevokeUser, BlockToken, Lookup, Revoke, Reread, AssignRole
      <4>2. \E j \in Jti : access'[j].by = q /\ access'[j].iat > req'[r].at
        BY <4>1, IssuesLater
      <4>. QED BY <3>2, <4>2 DEF Survives, Opener
    <3>. QED BY <1>3, <3>1, <3>3, <3>4, <3>5 DEF Leads, Ended
  <2>. QED BY <2>1, <2>2, <2>3, OneMoves DEF Moves, vars
<1>. QED BY <1>1, <1>2, <1>3

\* A session that a step opens or rotates is somebody's who has yet to issue.
LEMMA MakersSurvive ==
    ASSUME Typed, Control, RotationsAreExclusive, [Next]_vars,
           NEW f \in Session, session'[f].state = "live", session'[f] # session[f],
           NEW r \in Request
    PROVE  Survives(r, f)'
<1>. USE DEF Typed, TypeOK
<1>1. ASSUME NEW q \in Request, CreateSession(q, f), session' # session PROVE Survives(r, f)'
  <2>1. /\ session'[f].gen = 0 /\ pc'[q] = "issue"
        /\ req'[q].session = f /\ req'[q].op = req[q].op
    BY <1>1 DEF CreateSession, Opened, GoTo, Inputs
  <2>2. req[q].op = "login"
    BY <1>1 DEF CreateSession, Control, ControlOf, At
  <2>. QED BY <2>1, <2>2 DEF Survives, Makes
<1>2. ASSUME NEW q \in Request, Rotate(q), req[q].session = f PROVE Survives(r, f)'
  <2>1. /\ session'[f] = [session[f] EXCEPT !.gen = session[f].gen + 1]
        /\ pc'[q] = "roles" /\ req' = req
    BY <1>2 DEF Rotate, GoTo
  <2>2. session[f].gen = req[q].gen /\ req[q].op = "refresh"
    BY <1>2 DEF Rotate, Control, ControlOf, At, RotationsAreExclusive, RotatesAlone, Current
  <2>3. session'[f].gen = session[f].gen + 1
    BY <2>1, SessionSteps DEF SessionRecord
  <2>. QED BY <1>2, <2>1, <2>2, <2>3 DEF Survives, Makes
<1>. QED BY <1>1, <1>2, LiveSteps

Whole == Rotating /\ Doors /\ Signed /\ Unopened /\ AllEnd

LEMMA AllEndNext == Whole /\ [Next]_vars => AllEnd'
<1>. SUFFICES ASSUME Whole, [Next]_vars, NEW r \in Request,
                     req'[r].op = "logout_all", pc'[r] \in {"sweep", "done"},
                     NEW f \in Session,
                     session'[f].user = req'[r].user, session'[f].state = "live"
              PROVE  \/ pc'[r] = "sweep" /\ <<f, session'[f].gen>> \in req'[r].snap
                     \/ Survives(r, f)'
  BY DEF AllEnd, EndsAll, SparesOnly, At
<1>. USE DEF Whole, Rotating, Composed, Doors
<1>1. CASE session'[f] # session[f]
  BY <1>1, MakersSurvive
<1>2. ASSUME session'[f] = session[f], req'[r].at = req[r].at, Survives(r, f)
      PROVE  Survives(r, f)'
  BY <1>2, SurvivesPersists
<1>3. CASE session'[f] = session[f] /\ pc'[r] = pc[r] /\ req'[r] = req[r]
  <2>1. SparesOnly(r, f)
    BY <1>3 DEF AllEnd, EndsAll, At
  <2>. QED BY <1>2, <1>3, <2>1 DEF SparesOnly, At
<1>4. CASE Starts(r)
  BY <1>4, StartBegins DEF Begins
<1>5. CASE session'[f] = session[f] /\ (Step(r) \/ Fail(r))
  <2>1. Keeps(r) /\ Leads(r) /\ ControlOf(r)
    BY <1>5, StepKeeps, StepLeads DEF Control
  <2>2. /\ req[r].op = "logout_all"
        /\ \/ pc[r] = "snapshot" /\ pc'[r] = "sweep"
           \/ pc[r] = "sweep" /\ pc'[r] = "done"
    BY <1>5, <2>1 DEF Keeps, Leads, ControlOf, At
  <2>3. req'[r].user = req[r].user /\ req'[r].at = req[r].at
    BY <2>1, <2>2 DEF Keeps, At
  <2>4. Snapshot(r) \/ Sweep(r)
    BY <1>5, <2>2 DEF Step, Fail, GoTo, Typed, TypeOK, ReadRoles, ReadPermissions,
           CreateSession, IssueToken, SelectForUpdate, Rotate, LogoutAllNow, RevokeUser,
           BlockToken, Lookup, Revoke, Reread, AssignRole
  <2>5. CASE Snapshot(r)
    <3>1. req'[r].snap =
              {<<e, session[e].gen>> : e \in {g \in Session : Covers(r, g) /\ session[g].state = "live"}}
      BY <2>5 DEF Snapshot, Typed, Inputs
    <3>2. Covers(r, f)
      BY <1>5, <2>2, <2>3 DEF Covers
    <3>3. <<f, session'[f].gen>> \in req'[r].snap
      BY <1>5, <3>1, <3>2
    <3>4. pc'[r] = "sweep"
      BY <2>5 DEF Snapshot, GoTo, Typed, TypeOK
    <3>. QED BY <3>3, <3>4
  <2>6. CASE Sweep(r)
    <3>1. session'[f] = IF session[f].state = "live" /\ <<f, session[f].gen>> \in req[r].snap
                        THEN [session[f] EXCEPT !.state = "ended"] ELSE session[f]
      BY <2>6 DEF Sweep
    <3>2. <<f, session[f].gen>> \notin req[r].snap
      BY <1>5, <3>1, SessionSteps DEF Typed, SessionRecord
    <3>3. pc[r] = "sweep"
      BY <2>6 DEF Sweep
    <3>4. SparesOnly(r, f)
      BY <2>2, <3>3 DEF AllEnd, EndsAll, At
    <3>5. Survives(r, f)
      BY <1>5, <2>3, <3>2, <3>4 DEF SparesOnly
    <3>. QED BY <1>2, <1>5, <2>3, <3>5
  <2>. QED BY <2>4, <2>5, <2>6
<1>. QED BY <1>1, <1>3, <1>4, <1>5, OneMoves DEF Moves, vars

LEMMA WholeInvariant == Spec => []Whole
<1>1. Init => Whole
  <2>1. ASSUME Init PROVE AllEnd /\ Signed /\ Unopened /\ RotationsAreExclusive
    <3>1. \A r \in Request : pc[r] = "idle" /\ req[r] = NoReq
      BY <2>1 DEF Init
    <3>2. ASSUME NEW j \in Jti PROVE access[j].by = None
      <4>1. access[j] = NoAccess \/ \E u \in User : access[j] = Earlier(u)
        BY <2>1 DEF Init
      <4>2. NoAccess.by = None /\ \A u \in User : Earlier(u).by = None
        BY DEF NoAccess, Earlier
      <4>. QED BY <4>1, <4>2
    <3>. QED BY <3>1, <3>2 DEF AllEnd, EndsAll, Signed, Unopened, UnopenedBy, At, NoReq,
               RotationsAreExclusive, RotatesAlone
  <2>. QED BY <2>1, ComposedInit, DoorsInit DEF Whole, Rotating
<1>2. Whole /\ [Next]_vars => Whole'
  <2>1. Whole /\ [Next]_vars => Composed' /\ Doors' /\ RotationsAreExclusive'
    BY ComposedNext, DoorsNext, RotationsNext DEF Whole, Rotating, Composed
  <2>2. Whole /\ [Next]_vars => Signed' /\ Unopened'
    BY SignedNext, UnopenedNext DEF Whole, Rotating, Composed
  <2>. QED BY <2>1, <2>2, AllEndNext DEF Whole, Rotating
<1>. QED BY <1>1, <1>2, PTL DEF Spec

LEMMA OlderAccessEnds ==
    ASSUME Doors, NEW r \in Request
    PROVE  EndsOlderAccess(r)
<1>. SUFFICES ASSUME req[r].wrote, ~Overwritten(r), NEW j \in Jti,
                     access[j].user = req[r].user, Accepts(j)
              PROVE  access[j].iat > req[r].at
  BY DEF EndsOlderAccess
<1>1. /\ req[r].at \in Nat /\ access[j].iat \in Nat
      /\ \A u \in User : epoch[u] \in Nat
  BY DEF Doors, Composed, Typed, TypeOK, Inputs
<1>2. req[r].user \in User /\ epoch[req[r].user] >= req[r].at
  BY DEF Doors, EpochCovers
<1>3. access[j].iat >= epoch[req[r].user]
  BY <1>1, <1>2 DEF Accepts
<1>4. req[r].at # access[j].iat
  BY DEF Doors, ClockReads, ReadsOf, ReadFor, Accepts
<1>. QED BY <1>1, <1>2, <1>3, <1>4

\* A logout that answered has ended both of its tokens; a logout-all has ended the
\* access tokens older than it even if it got no further than Redis, and, once it
\* answered, every session but those a login or a rotation made after its snapshot
\* (auth.py:182-213).
THEOREM LogoutsAreWhole == Spec => []LogoutIsWhole
<1>1. Whole => LogoutIsWhole
  <2>. SUFFICES ASSUME Whole, NEW r \in Request
                PROVE  EndsItsTokens(r) /\ EndsOlderAccess(r) /\ EndsAllSessions(r)
    BY DEF LogoutIsWhole
  <2>1. EndsItsTokens(r)
    BY DEF Whole, Rotating, Composed, Logouts, LogoutBlocked, WholeOf, EndsItsTokens, Accepts, At
  <2>2. EndsOlderAccess(r)
    BY OlderAccessEnds DEF Whole
  <2>3. EndsAllSessions(r)
    BY DEF Whole, AllEnd, EndsAll, SparesOnly, EndsAllSessions, At
  <2>. QED BY <2>1, <2>2, <2>3
<1>. QED BY <1>1, WholeInvariant, PTL
=============================================================================
