--------------------------- MODULE RefreshTokens ---------------------------
(***************************************************************************)
(* The refresh-token table and the requests that write it: login, refresh, *)
(* logout and logout-all (apps/authz/services/auth.py over                 *)
(* apps/authz/repositories/refresh_tokens.py).                             *)
(*                                                                         *)
(* A request is one HTTP request.  Its database work is split where other  *)
(* requests can run in between: PostgreSQL at READ COMMITTED, the level    *)
(* the project leaves in force, gives each statement its own snapshot,     *)
(* row locks last until the transaction ends, and an UPDATE that waited    *)
(* for a row tests its WHERE clause again on the row's latest version.  A  *)
(* row inserted by a transaction that commits after the snapshot is not    *)
(* found by the statement.                                                 *)
(*                                                                         *)
(* Only committed rows are in "row": a rotation's two writes appear when   *)
(* it commits.                                                             *)
(***************************************************************************)
EXTENDS Naturals, FiniteSets

CONSTANTS
    Token,        \* identities of refresh-token rows, a bound on their number
    Family,       \* family ids (uuid4), a bound on the number of logins
    User,
    Device,       \* device hashes, see security/binding.py
    Request,      \* HTTP requests, each runs at most once
    Lifetime,     \* settings.REFRESH_TOKEN_LIFETIME, in clock ticks
    MaxTime,      \* bound on the clock
    BindDevice,   \* settings.REFRESH_BIND_DEVICE
    None          \* Python's None, SQL's NULL

ASSUME NoneAssumption ==
    /\ None \notin Token
    /\ None \notin Family
    /\ None \notin User
    /\ None \notin Device
    /\ None \notin Request
    /\ None \notin Nat
ASSUME LifetimeAssumption == Lifetime \in Nat \ {0}
ASSUME MaxTimeAssumption == MaxTime \in Nat
ASSUME BindDeviceAssumption == BindDevice \in BOOLEAN

VARIABLES
    clock,        \* timezone.now(), the same on every instance
    row,          \* the committed rows of the table
    delivered,    \* the tokens whose raw value a client has received
    lock,         \* the transaction holding each row's lock
    pc,           \* where each request is
    req,          \* each request's inputs and the "now" it read
    outcome,      \* RefreshRotationResult.outcome, or how the request ended
    issued,       \* the replacement a rotation created
    want,         \* the row a request's statement is about to lock
    snap,         \* the rows a revoking UPDATE found in its snapshot
    todo,         \* those it has still to lock and test again
    hit           \* those it has locked, found live and set revoked_at in

db == <<row, lock>>
statement == <<want, snap, todo, hit>>
vars == <<clock, row, delivered, lock, pc, req, outcome, issued,
          want, snap, todo, hit>>

-----------------------------------------------------------------------------
Time == Nat

Row == [user    : User \cup {None},
        family  : Family \cup {None},
        parent  : Token \cup {None},
        device  : Device \cup {None},
        expires : Time,
        revoked : Time \cup {None}]

\* An id no row has been inserted under.
Vacant == [user |-> None, family |-> None, parent |-> None,
           device |-> None, expires |-> 0, revoked |-> None]

Op == {"none", "refresh", "logout", "logout_all"}

Req == [op     : Op,
        token  : Token \cup {None},
        user   : User \cup {None},
        device : Device \cup {None},
        at     : Time]

NoReq == [op |-> "none", token |-> None, user |-> None,
          device |-> None, at |-> 0]

PC == {"idle", "lookup", "lock", "rotate", "snapshot", "sweep",
       "respond", "done"}

Outcomes == {"none", "rotated", "missing", "expired", "reused",
             "binding_mismatch", "failed"}

Exists(t) == row[t].family # None
Live(t) == Exists(t) /\ row[t].revoked = None
InFamily(f) == {t \in Token : row[t].family = f}

\* Fault: the row is read without FOR UPDATE.
FreeUnlocked(t, r) == TRUE

Free(t, r) == lock[t] \in {None, r}

\* Fault: a transaction is left open.
ReleasedNothing(r) == lock

Released(r) == [t \in Token |-> IF lock[t] = r THEN None ELSE lock[t]]

-----------------------------------------------------------------------------
Init ==
    /\ clock = 0
    /\ row = [t \in Token |-> Vacant]
    /\ delivered = {}
    /\ lock = [t \in Token |-> None]
    /\ pc = [r \in Request |-> "idle"]
    /\ req = [r \in Request |-> NoReq]
    /\ outcome = [r \in Request |-> "none"]
    /\ issued = [r \in Request |-> None]
    /\ want = [r \in Request |-> None]
    /\ snap = [r \in Request |-> {}]
    /\ todo = [r \in Request |-> {}]
    /\ hit = [r \in Request |-> {}]

-----------------------------------------------------------------------------
(* Login: one INSERT outside any transaction.  The response that carries   *)
(* the raw token may be lost.                                              *)

\* Fault: expires_at is not filled in.
RootRowWithoutExpiry(u, f, d) ==
    [user |-> u, family |-> f, parent |-> None, device |-> d,
     expires |-> None, revoked |-> None]

RootRow(u, f, d) ==
    [user |-> u, family |-> f, parent |-> None, device |-> d,
     expires |-> clock + Lifetime, revoked |-> None]

Login(u, f, d, t) ==
    /\ InFamily(f) = {}
    /\ ~Exists(t)
    /\ row' = [row EXCEPT ![t] = RootRow(u, f, d)]
    /\ delivered' \in {delivered, delivered \cup {t}}
    /\ UNCHANGED <<clock, lock, pc, req, outcome, issued, statement>>

-----------------------------------------------------------------------------
(* The start of a request.  A client presents a token it was given, or a   *)
(* string that is no token of ours (None).                                 *)

Start(r, input, first, wanted) ==
    /\ pc[r] = "idle"
    /\ req' = [req EXCEPT ![r] = input]
    /\ pc' = [pc EXCEPT ![r] = first]
    /\ want' = [want EXCEPT ![r] = wanted]
    /\ UNCHANGED <<clock, db, delivered, outcome, issued, snap, todo, hit>>

\* AuthService.refresh reads "now" before it awaits the transaction.
RefreshStart(r, t, d) ==
    /\ t \in delivered \cup {None}
    /\ Start(r, [op |-> "refresh", token |-> t, user |-> None,
                 device |-> d, at |-> clock], "lock", t)

LogoutStart(r, t) ==
    /\ t \in delivered \cup {None}
    /\ Start(r, [op |-> "logout", token |-> t, user |-> None,
                 device |-> None, at |-> 0], "lookup", None)

\* AuthService.logout_all reads "now" first and stamps the rows with it.
LogoutAllStart(r, u) ==
    Start(r, [op |-> "logout_all", token |-> None, user |-> u,
              device |-> None, at |-> clock], "snapshot", None)

-----------------------------------------------------------------------------
(* Refresh: RefreshTokenRepository._rotate, one transaction.               *)

\* Fault: a request without a User-Agent passes for any device.
MismatchIgnoringAbsent(r, t) ==
    /\ BindDevice
    /\ None \notin {row[t].device, req[r].device}
    /\ row[t].device # req[r].device

Mismatch(r, t) ==
    /\ BindDevice
    /\ row[t].device # None
    /\ row[t].device # req[r].device

\* Fault: the row's revoked_at is not looked at.
VerdictWithoutReuse(r, t) ==
    IF t = None THEN "missing"
    ELSE IF row[t].expires <= req[r].at THEN "expired"
    ELSE IF Mismatch(r, t) THEN "binding_mismatch"
    ELSE "rotated"

\* Fault: a token is still good at the instant it expires.
VerdictLenientExpiry(r, t) ==
    IF t = None THEN "missing"
    ELSE IF row[t].revoked # None THEN "reused"
    ELSE IF row[t].expires < req[r].at THEN "expired"
    ELSE IF Mismatch(r, t) THEN "binding_mismatch"
    ELSE "rotated"

\* The early returns of _rotate, in their order.
Verdict(r, t) ==
    IF t = None THEN "missing"
    ELSE IF row[t].revoked # None THEN "reused"
    ELSE IF row[t].expires <= req[r].at THEN "expired"
    ELSE IF Mismatch(r, t) THEN "binding_mismatch"
    ELSE "rotated"

AfterVerdict(v) ==
    CASE v \in {"missing", "expired"}          -> "respond"
      [] v \in {"reused", "binding_mismatch"}  -> "snapshot"
      [] OTHER                                 -> "rotate"

\* SELECT ... FOR UPDATE, and the tests on the row it returns.  A
\* transaction that ends without a write keeps no lock.
SelectForUpdate(r) ==
    LET t == req[r].token
        v == Verdict(r, t)
    IN  /\ pc[r] = "lock"
        /\ t # None => Free(t, r)
        /\ outcome' = [outcome EXCEPT ![r] = v]
        /\ pc' = [pc EXCEPT ![r] = AfterVerdict(v)]
        /\ want' = [want EXCEPT ![r] = None]
        /\ lock' = IF v \in {"missing", "expired"}
                   THEN lock ELSE [lock EXCEPT ![t] = r]
        /\ UNCHANGED <<clock, row, delivered, req, issued, snap, todo, hit>>

\* The replacement: same user and family, bound to the device its parent
\* was bound to, or to the presenting one.
ChildRow(r, t) ==
    [user |-> row[t].user, family |-> row[t].family, parent |-> t,
     device |-> IF row[t].device # None THEN row[t].device ELSE req[r].device,
     expires |-> req[r].at + Lifetime, revoked |-> None]

\* Fault: revoked_at is set on the object and not saved.
ConsumedUnsaved(r, t) == row[t]

Consumed(r, t) == [row[t] EXCEPT !.revoked = req[r].at]

\* save(), create() and COMMIT.
Rotate(r, c) ==
    LET t == req[r].token IN
    /\ pc[r] = "rotate"
    /\ ~Exists(c)
    /\ row' = [row EXCEPT ![t] = Consumed(r, t), ![c] = ChildRow(r, t)]
    /\ lock' = Released(r)
    /\ issued' = [issued EXCEPT ![r] = c]
    /\ pc' = [pc EXCEPT ![r] = "respond"]
    /\ UNCHANGED <<clock, delivered, req, outcome, statement>>

-----------------------------------------------------------------------------
(* Logout: look the row up, read "now", then UPDATE it in a statement of   *)
(* its own.  Every delivered token has a row.                              *)

Lookup(r) ==
    /\ pc[r] = "lookup"
    /\ req' = [req EXCEPT ![r].at = clock]
    /\ pc' = [pc EXCEPT ![r] = IF req[r].token = None
                               THEN "respond" ELSE "snapshot"]
    /\ UNCHANGED <<clock, db, delivered, outcome, issued, statement>>

-----------------------------------------------------------------------------
(* The revoking UPDATE: of a family (reuse, binding mismatch), of a user   *)
(* (logout-all) or of one row (logout), where revoked_at IS NULL.          *)

\* Fault: reuse revokes the replacement of the token, not its family.
MatchesChildOnly(r, t) ==
    CASE req[r].op = "refresh"    -> row[t].parent = req[r].token
      [] req[r].op = "logout"     -> t = req[r].token
      [] OTHER                    -> row[t].user = req[r].user

\* Fault: logout ends all the sessions of the token's user.
MatchesWholeUser(r, t) ==
    CASE req[r].op = "refresh"    -> row[t].family = row[req[r].token].family
      [] req[r].op = "logout"     -> row[t].user = row[req[r].token].user
      [] OTHER                    -> row[t].user = req[r].user

Matches(r, t) ==
    CASE req[r].op = "refresh"    -> row[t].family = row[req[r].token].family
      [] req[r].op = "logout"     -> t = req[r].token
      [] OTHER                    -> row[t].user = req[r].user

Found(r) == {t \in Token : Live(t) /\ Matches(r, t)}

\* The statement's scan, in no order PostgreSQL promises.
Scan(S) == IF S = {} THEN {None} ELSE S

Snapshot(r) ==
    /\ pc[r] = "snapshot"
    /\ snap' = [snap EXCEPT ![r] = Found(r)]
    /\ todo' = [todo EXCEPT ![r] = Found(r)]
    /\ \E w \in Scan(Found(r)) : want' = [want EXCEPT ![r] = w]
    /\ pc' = [pc EXCEPT ![r] = "sweep"]
    /\ UNCHANGED <<clock, db, delivered, req, outcome, issued, hit>>

\* Fault: rows are written by id, without testing revoked_at again.
RecheckNothing(r, t) == TRUE

Recheck(r, t) == Live(t)

\* The row is locked, after a wait if another transaction holds it, and
\* stays locked even when the second test of the WHERE clause rejects it.
SweepRow(r) ==
    LET t == want[r] IN
    /\ pc[r] = "sweep"
    /\ t # None
    /\ Free(t, r)
    /\ lock' = [lock EXCEPT ![t] = r]
    /\ hit' = [hit EXCEPT ![r] = IF Recheck(r, t) THEN @ \cup {t} ELSE @]
    /\ todo' = [todo EXCEPT ![r] = @ \ {t}]
    /\ \E w \in Scan(todo[r] \ {t}) : want' = [want EXCEPT ![r] = w]
    /\ UNCHANGED <<clock, row, delivered, pc, req, outcome, issued, snap>>

SweepCommit(r) ==
    /\ pc[r] = "sweep"
    /\ want[r] = None
    /\ row' = [t \in Token |-> IF t \in hit[r] THEN Consumed(r, t) ELSE row[t]]
    /\ lock' = Released(r)
    /\ pc' = [pc EXCEPT ![r] = "respond"]
    /\ UNCHANGED <<clock, delivered, req, outcome, issued, statement>>

-----------------------------------------------------------------------------
\* The response reaches the client, with the replacement if there is one.
Respond(r) ==
    /\ pc[r] = "respond"
    /\ delivered' = delivered \cup ({issued[r]} \ {None})
    /\ pc' = [pc EXCEPT ![r] = "done"]
    /\ UNCHANGED <<clock, db, req, outcome, issued, statement>>

(* The worker, the connection or the client is lost, or the transaction is *)
(* PostgreSQL's deadlock victim: an open transaction rolls back, and after *)
(* the commit the response is lost.                                        *)
Fail(r) ==
    /\ pc[r] \notin {"idle", "done"}
    /\ pc' = [pc EXCEPT ![r] = "done"]
    /\ outcome' = [outcome EXCEPT ![r] = "failed"]
    /\ lock' = Released(r)
    /\ want' = [want EXCEPT ![r] = None]
    /\ snap' = [snap EXCEPT ![r] = {}]
    /\ todo' = [todo EXCEPT ![r] = {}]
    /\ hit' = [hit EXCEPT ![r] = {}]
    /\ UNCHANGED <<clock, row, delivered, req, issued>>

Tick ==
    /\ clock < MaxTime
    /\ clock' = clock + 1
    /\ UNCHANGED <<db, delivered, pc, req, outcome, issued, statement>>

\* Nothing is left to do within the bounds.
Finished ==
    /\ \A r \in Request : pc[r] = "done"
    /\ clock = MaxTime
    /\ UNCHANGED vars

-----------------------------------------------------------------------------
Begin(r) ==
    \/ \E t \in Token \cup {None}, d \in Device \cup {None} : RefreshStart(r, t, d)
    \/ \E t \in Token \cup {None} : LogoutStart(r, t)
    \/ \E u \in User : LogoutAllStart(r, u)

Step(r) ==
    \/ SelectForUpdate(r)
    \/ \E c \in Token : Rotate(r, c)
    \/ Lookup(r)
    \/ Snapshot(r)
    \/ SweepRow(r)
    \/ SweepCommit(r)
    \/ Respond(r)

Next ==
    \/ \E u \in User, f \in Family, d \in Device \cup {None}, t \in Token :
           Login(u, f, d, t)
    \/ \E r \in Request : Begin(r) \/ Step(r) \/ Fail(r)
    \/ Tick
    \/ Finished

Spec == Init /\ [][Next]_vars

(* Every request that was started is carried on by its worker; a lock is   *)
(* granted once it stays free; PostgreSQL's detector ends one transaction  *)
(* of every cycle of waits.  Nothing makes a client send a request, and    *)
(* nothing makes one fail otherwise.                                       *)
WaitsFor(r, q) == want[r] # None /\ q # r /\ lock[want[r]] = q

Deadlocked(C) == C # {} /\ \A r \in C : \E q \in C : WaitsFor(r, q)

BreakDeadlock ==
    \E C \in SUBSET Request : Deadlocked(C) /\ \E r \in C : Fail(r)

Fairness ==
    /\ \A r \in Request : WF_vars(Step(r))
    /\ WF_vars(BreakDeadlock)

FairSpec == Spec /\ Fairness

-----------------------------------------------------------------------------
(* Properties                                                              *)

\* Every variable has its type, and a row is either vacant or complete.
TypeOK ==
    /\ clock \in Time
    /\ row \in [Token -> Row]
    /\ \A t \in Token : Exists(t) \/ row[t] = Vacant
    /\ delivered \subseteq {t \in Token : Exists(t)}
    /\ lock \in [Token -> Request \cup {None}]
    /\ pc \in [Request -> PC]
    /\ req \in [Request -> Req]
    /\ outcome \in [Request -> Outcomes]
    /\ issued \in [Request -> Token \cup {None}]
    /\ want \in [Request -> Token \cup {None}]
    /\ snap \in [Request -> SUBSET Token]
    /\ todo \in [Request -> SUBSET Token]
    /\ hit \in [Request -> SUBSET Token]

\* Whatever refreshes, logouts and sweeps overlap, a session never has two
\* usable refresh tokens.
AtMostOneLive ==
    \A s, t \in Token :
        Live(s) /\ Live(t) /\ row[s].family = row[t].family => s = t

\* "Atomically consume a refresh token and create its replacement": two
\* concurrent refreshes of one token never both get a replacement, and a
\* token that was replaced is not live.
SingleUse ==
    \A s, t \in Token :
        /\ row[t].parent # None /\ row[s].parent = row[t].parent => s = t
        /\ row[t].parent = s => row[s].revoked # None

\* A committed row changes once at most, from live to revoked: no later
\* sweep, logout or rotation moves revoked_at or brings the token back.
RevocationIsFinal ==
    [][\A t \in Token : Exists(t) =>
          \/ row'[t] = row[t]
          \/ /\ row[t].revoked = None
             /\ row'[t].revoked # None
             /\ row'[t] = [row[t] EXCEPT !.revoked = row'[t].revoked]]_vars

\* The families a finished request's UPDATE had to end.
EndedFamilies(r) ==
    {row[s].family : s \in snap[r]} \cup
    {row[t].family : t \in {u \in Token :
        u = req[r].token /\ outcome[r] \in {"reused", "binding_mismatch"}}}

\* A sweep (reuse, binding mismatch, logout, logout-all) ends each session
\* it covers for ever, unless the row it found was rotated before the sweep
\* could lock it: only then is a token of that session live afterwards.
SweepSurvivorsWereRotated ==
    \A r \in Request : pc[r] \in {"respond", "done"} =>
        \A t \in Token : Live(t) /\ row[t].family \in EndedFamilies(r) =>
            \E s \in snap[r] \ hit[r], c \in Token :
                row[s].family = row[t].family /\ row[c].parent = s

\* A session is bound to one device at most, by its login or by a later rotation;
\* once bound, its live token carries the device; and with REFRESH_BIND_DEVICE a
\* replacement is only ever issued to the device it is bound to.
OneDevicePerFamily ==
    /\ \A s, t \in Token :
          row[s].family = row[t].family =>
              \/ None \in {row[s].device, row[t].device}
              \/ row[s].device = row[t].device
    /\ \A s, t \in Token :
          Live(t) /\ row[s].family = row[t].family /\ row[s].device # None
              => row[t].device = row[s].device
    /\ BindDevice => \A r \in Request :
          issued[r] # None => row[issued[r]].device = req[r].device

\* A token is consumed before it expires, by the clock its request read.  Its
\* replacement never expires earlier than it would have, and lives for one lifetime
\* from that instant, however long the request waited for the row: no token is good
\* for longer than a lifetime from now.
SlidingExpiry ==
    /\ \A t \in Token : row[t].expires <= clock + Lifetime
    /\ \A t, c \in Token : row[c].parent = t =>
        /\ row[t].revoked < row[t].expires
        /\ row[t].expires <= row[c].expires
        /\ row[c].expires = row[t].revoked + Lifetime

\* Row locks are taken in an order such that only two overlapping
\* logout-alls can close a cycle of waits: refreshes and logouts alone, or
\* with one logout-all, never deadlock.
DeadlockNeedsTwoLogoutAlls ==
    \A C \in SUBSET Request : Deadlocked(C) =>
        \E r, q \in C : r # q /\ {req[r].op, req[q].op} = {"logout_all"}

\* A request that was started ends: no wait for a row lock is for ever.
EveryRequestEnds ==
    \A r \in Request : pc[r] # "idle" ~> pc[r] = "done"

(* What the repository's own words promise of a sweep, without the         *)
(* exception.                                                              *)

\* "Rotate a refresh token, revoking its full family on detected reuse."
ReuseRevokesFamily ==
    \A r \in Request :
        pc[r] = "done" /\ outcome[r] = "reused" =>
            \A t \in Token : row[t].family = row[req[r].token].family => ~Live(t)

(* The abstract view: a session has no or one usable token.                *)
Sessions == INSTANCE TokenFamily WITH
    known <- [f \in Family |-> InFamily(f)],
    live <- [f \in Family |-> {t \in InFamily(f) : Live(t)}]

\* The table implements single-use rotation of sessions.
ImplementsTokenFamily == Sessions!Spec
=============================================================================
