# Verification of the RBAC authentication service

TLA+ models, TLC runs and TLAPS proofs for the Django Ninja service in this
repository (paths below are relative to its root): registration and login,
rotating refresh tokens, short-lived JWT access tokens with a Redis blocklist,
role-based permissions, administration and an audit log.

## 1. The system

| Component | State it keeps | Operations | Talks to |
| --- | --- | --- | --- |
| Refresh-token sessions (`apps/authz/repositories/refresh_tokens.py`, `apps/authz/services/auth.py`, `apps/authz/models.py`) | one PostgreSQL row per token: user, family, parent, device hash, expiry, revoked_at | login inserts a root; refresh rotates under `SELECT ... FOR UPDATE`; reuse, device mismatch, logout and logout-all run a revoking UPDATE | PostgreSQL, blocklist, audit |
| Access tokens and blocklist (`apps/authz/security/jwt.py`, `blocklist.py`, `apps/authz/api/auth.py`) | nothing for a token; Redis keys `bl:jti:*` and `user_epoch:*` with a time to live | issue; block one token; revoke a user's tokens; check every request | Redis |
| Login, registration (`apps/authz/services/auth.py`) | the sequence of awaits of a request | credentials, role lookup, token pair, audit | all stores |
| Accounts and administration (`apps/accounts`) | users (email, password, is_active, flags), role links | create, update, deactivate, delete, assign role; `bootstrap_admin` | PostgreSQL, blocklist, audit |
| RBAC catalogue (`apps/authz/repositories/rbac.py`, data migrations) | roles, permissions, grants | seeding and its reversals, reads of a user's roles and codes, the permission guard | PostgreSQL |
| Audit trail (`apps/audit`) | append-only rows | best-effort append after the action, filtered listing | PostgreSQL |
| Login throttle (`apps/common/throttling.py`) | a list of times per client in the shared cache | allow or refuse | Redis |
| Startup (`wait_for_db`, `config/asgi.py`) | none | wait for the database, ASGI lifespan | PostgreSQL |
| Settings, schemas, error handlers, schema migrations, Docker | configuration only | | |

Several server processes handle requests at once, and a request gives way to
others at every `await`. There is one transaction helper
(`apps/common/db.py`); whatever is not inside it commits statement by
statement. Redis is not part of any transaction and fails open. What is hard
here is therefore: what overlapping statements see of each other at READ
COMMITTED; row-lock cycles; clocks read before a wait and used after it; the
rounding of instants to seconds; answers lost after the commit; Redis down or
empty. `PROJECT.json` lists each such place with its line and the properties
that watch it.

What makes the components correct:

- sessions: one usable token at most, single use, final revocation, sweeps that
  end what they cover, an inherited device binding, an expiry that cannot be
  outlived, no wait for ever;
- access tokens: what was revoked is refused until it expires, and nothing else
  is refused;
- login, accounts, administration: no orphaned user or role link, one account
  per email, a deactivated or deleted user loses access in a bounded time, what
  was done leaves an event or a warning;
- catalogue: the default role never gets administrative permissions, forward
  or backward;
- throttle: no more than the rate in a window, up to what concurrent readers
  of one list may add;
- startup: ready only after the database answered, and an end to the wait.

## 2. The modules

### RefreshTokens

The table and the requests that write it. Only committed rows are in `row`;
a request's program counter `pc` stops wherever another request can run:

| Action | Code |
| --- | --- |
| `Login` | `AuthService._issue_token_pair` / `acreate`, one INSERT |
| `RefreshStart` | `AuthService.refresh` up to `arotate`: "now" is read here |
| `SelectForUpdate` | `SELECT ... FOR UPDATE` and the early returns of `_rotate`, in their order (`Verdict`) |
| `Rotate` | `save()`, `create()`, COMMIT |
| `LogoutStart`, `Lookup` | `AuthService.logout`: the lookup, then "now" |
| `LogoutAllStart` | `AuthService.logout_all` |
| `Snapshot`, `SweepRow`, `SweepCommit` | the UPDATE ... WHERE revoked_at IS NULL of reuse, mismatch, logout and logout-all: its snapshot, one step for each row it locks and tests again, its commit |
| `Respond` | the client has the answer, and the replacement token with it |
| `Fail` | worker, connection or client lost, or chosen as deadlock victim: rollback, or a lost answer after the commit |

PostgreSQL itself is external and modelled from how the code uses it at its
default isolation level, READ COMMITTED: a snapshot for each statement, row
locks to the end of the transaction, a second test of the WHERE clause on a row
that was waited for (`Recheck`), rows inserted after the snapshot not found,
any scan order. A row stays locked even if the second test rejects it. Token
strings, hashes, IP addresses and user agents are abstracted to identities; a
client presents a token it received, or something that is no token (`None`).
`arevoke_family` has no caller and is not modelled; deletion of a user (which
cascades to the rows) is an action of `AuthSystem`.

`TokenFamily` is the abstract promise of docs/adr/0002: a session opens with one
token, exchanges it for another, and once ended stays ended. `RefreshTokens`
maps to it (`known`, `live` of each family) and is checked to implement it. So does
`AuthSystem`, with sessions reduced to a counter and a state.

`RefreshTokensInv` holds the inductive invariant. `RefreshTokensProofs` proves
types, ownership, lineage, expiry and device binding, the sweeps, the refinement and
the order of the row locks. `MCRefreshTokens` is the symmetry set.

### AccessTokens

Tokens, the two kinds of Redis key and the check each request makes. An instant
is a second and a position within it (`Ticks` positions), because `iat` and
`exp` are whole seconds, revocations have microseconds and are rounded up
(`Ceil`), and keys expire a whole number of seconds after they are written.

| Action | Code |
| --- | --- |
| `Issue` | `encode_access_token` |
| `LogoutAuthenticated`, `LogoutRemaining` | the logout router: `JWTAuth`, then `_remaining_access_ttl` |
| `RevokeUser` | the callers of `revoke_user` reading "now": logout-all, reuse, mismatch, deactivation |
| `Write` | the SET of `block_token` or `revoke_user` |
| `Abandon` | the request dies before the SET |
| `RedisDown`, `RedisUp` | outage; Redis returns with its keys, or empty (it has no volume in docker-compose.yml) |

`Accepts` is `JWTAuth.authenticate` with `decode_access_token` and `is_blocked`.
A call that wrote and whose key has not been lost is `done`; one that found Redis
down, or whose key was lost with Redis, is `lost`: the properties promise
nothing for it, as README.md, "Redis failure mode", says.

`AccessTokensProofs` holds the proofs, `MCAccessTokens` the symmetry set.

### AuthSystem

The two modules above each look at one store. `AuthSystem` puts a user's
account, role links, sessions, access tokens and blocklist side by side and
takes the use cases one await at a time: any number of requests, each anywhere
in any use case, and any of them lost at any point (`Fail`).

| Use case | Steps, in the order of the code |
| --- | --- |
| login | `LoginCredentials` (with its tests on what it read), `ReadRoles`, `ReadPermissions`, `CreateSession`, `IssueToken` |
| refresh | `RefreshStart` ("now"), `SelectForUpdate`, then `Rotate`, `ReadRoles`, `ReadPermissions`, `IssueToken`; or `Snapshot`, `Sweep`, `RevokeUser` for a reuse, which `SelectForUpdate` shortens to `RevokeUser` for a mismatch: the presented row is the session's only live one and is held |
| logout | `LogoutStart` (authenticated), `BlockToken`, `Lookup`, `Revoke` |
| logout-all | `LogoutAllStart` (authenticated), `LogoutAllNow`, `RevokeUser`, `Snapshot`, `Sweep` |
| activate, deactivate | `SetActive` (the UPDATE), `Reread`, and `RevokeUser` for a deactivation |
| delete | `DeleteUser`, with the cascade to links and refresh tokens |
| assign a role | `AssignStart` (the lookups), `AssignRole` |

To keep a product of this size checkable each store is reduced to what
its own module shows of it. A session is one record: how often it was
rotated (`gen`) and whether it is live; a client presents any generation it was
given. The row lock of `SELECT ... FOR UPDATE` is "a request is at `rotate`"
(`Locked`): sweeps, logouts and deletions wait for it. A sweep ends what its
snapshot found and nobody rotated since. Redis answers, and instants are numbered by
`clock`, one for each clock read, so the epoch comparison has no rounding. Tokens do
not expire. A user begins with any role links, sessions and access tokens
earlier requests may have left.

`began` and `wrote` are history variables: when a request began and whether its
epoch was written.

`LogoutIsWhole` has three parts. A logout that answered has ended its two tokens. A
logout-all, a reuse or a deactivation has ended the access tokens older than its instant
as soon as its epoch is written, even if it then fails, unless an overlapping revocation
read its clock earlier and wrote later. A logout-all that answered has ended
the sessions; one that is live was opened or rotated by a request (`Makes`) that has not
issued its access token yet, or issued it after that instant (`Survives`).

`AuthSystemProofs` holds the proofs, and `MCAuthSystem` the symmetry set. That the reduced
sessions are what their own module shows is proved as well: they implement
`TokenFamily` (`StepsOfTokenFamily`), like the rows of `RefreshTokens`, with a token for each
generation of a session. It is stated of the steps only, since a user may begin with open
sessions.

### Accounts

The account rows and role links, and what writes them: registration,
`update_user`, `delete_user`, `assign_role`, `bootstrap_admin` and two pages of the Django
admin. `users` and `links` are what is committed. A request goes through the transaction it
needs:

| Program | Steps |
| --- | --- |
| registration, also `create_user` | `Register`, `InsertUser`, `Commit` (account and role link) |
| `update_user` | `Update` (the fields sent), `LockRow`, `Write`; the second read and the revocation are in `AuthSystem` |
| `assign_role` | `Assign` (the lookups), `LinkRole` |
| `bootstrap_admin` | `Bootstrap` (the lookup), then `InsertUser` and `Commit`, or `LockRow` and `Write`, or `LinkRole` alone when no flag is missing |
| `delete_user` | `DeleteUser` |
| add form of the Django admin | `AddForm` (email as typed, `is_staff` as ticked, no role), `InsertUser`, `Commit` |
| password page of the Django admin | `PasswordPage` (reads the row), `LockRow`, `Write` (every field it read, with a new password); or `InsertUser` and `Commit`, since `save()` inserts what it cannot update |

The change form of the Django admin is no program: `UserAdmin.fieldsets`
(accounts/admin.py:23) asks for `date_joined`, which `auto_now_add` (models.py:53) makes
not editable and which is not in `readonly_fields`, so Django raises `FieldError` on every
request of that page. The add form and the password page are Django's own; `UserAdmin`
configures the first and inherits the second, and they are known here by that. The delete
page issues the DELETE of `delete_user`, and `createsuperuser` does what an add form with
a lower-case email does.

PostgreSQL makes a statement wait for a row another transaction has written and for a
unique index entry another transaction is adding or leaving (`InDoubt`, `WaitsFor`),
and fails it if the entry is taken when that one has committed (`Taken`); an exception
takes the request out of its program (`Raise`). An email is an
address and whether it is in lower case; `normalize_email` makes it so, and the index
sees the address only. A password is the number of its change (`changes` counts them,
`stamp` is the one a request has made). `staff` is `is_staff`; `is_superuser` is set by
`bootstrap_admin` alone, always with it. `is_active` is left to `AuthSystem`. `added` is a history
variable: the accounts the add form made. `Init` lets accounts of earlier requests, of
either origin, be there. `MCAccounts` is the symmetry set.

### AuditTrail and AuditContext

The audit log, the requests that write it and a client that pages through it. An
action commits first, in one step (what overlapping sessions and accounts do to each
other is in the modules above); then each event takes two awaits:

| Action | Code |
| --- | --- |
| `Start` | `AuditContext.from_request`: the principal's id, which may be that of a deleted account, and never an email (`Principal` has none) |
| `Login`, `Register`, `Refresh`, `Logout`, `LogoutAll`, `UpdateUser` and `Reread`, `DeleteUser`, `AssignRole` | the use case, and which events with which actor and target it is to record: the principal, the new account, or the owner of the refresh token that was sent |
| `WithActorEmail`, `LookupFails` | `_with_actor_email`, and its exception path |
| `Insert`, `InsertFails` | `acreate`, and the warning that takes its place |
| `Respond`, `Lose` | the answer; a worker lost between any two awaits |
| `OpenListing`, `CountEvents`, `PageOfEvents`, `PageOfUsers`, `CountUsers` | `GET /audit-logs` counts first and reads then, `GET /users` the other way round |
| `TurnPage` | external: a client that goes on from offset + limit of the answer and stops at a short page, or when it has reached the answer's total |

`created_at` is the instant the statement is built at, of which only the order matters;
the row shows when it is committed. `since` is a history variable: which emails each
account has had since a request began. Left out: the filters of the listing, and what is
only copied or cut: outcome, user agent, request id, `mask_ip`.

`AuditTrailProofs` holds the proofs.

`AuditContext` has what an event says of its request: `FromRequest` builds the context with
`ClientIp` (`_client_ip`), `RecordWith` records the metadata through `Sanitize`
(`sanitize_metadata`). Each is held against a reference: the host that sent the request
through a chain of trusted proxies, and the set of values no sensitive key leads to (`Nodes`).
Which keys are sensitive is a constant. The recursion of `sanitize_metadata` and
`_sanitize_value` is a recursive function, `Sanitized`, over the values of bounded depth,
so that it can be reasoned about. `AuditContextProofs` holds the proofs. `MCAuditTrail` joins both modules and lets the
request of `AuditContext` run only where nothing else does, because what it records
depends on nothing else. It also bounds the paging (`Paged`): while a listing is read, the
requests under way are registrations, deletions and logout-alls, which make a row appear,
make one disappear and write an event; the other use cases do nothing else to the rows.

### LoginThrottle

The sliding window of login, refresh and registration. `Get` reads the list of a client's
bucket, `Decide` reads the clock, drops old times and refuses or goes on, `Set` writes the
list back. The code is synchronous, so one worker does one check at a time, and several
workers share the cache. Redis may be down (reads are empty, writes are dropped, by
`IGNORE_EXCEPTIONS`) and may come back empty. `SimpleRateThrottle`, with `get_ident`, is
Ninja's and external; the buckets, rates and routes are this repository's. `allowed` and
`blind` are history variables: how often a limit let through in each tick (`Passes`,
`Recent` count those of the last period), and when its list last lost an entry.
`LoginThrottleProofs` holds the proofs.

### Startup, RbacCatalog and Deployment

`Startup` is the container: `wait_for_db` (`Connect`, `GiveUpOrSleep`, `Wake`), gunicorn's
worker with the lifespan check of config/asgi.py (`Lifespan`), a lost worker and its
replacement, and Docker's `restart: always` (`StartContainer`). A worker whose startup
fails makes gunicorn exit.

`RbacCatalog` is the tables of roles, permissions and their links under `manage.py migrate`,
to any of the data migrations 0002, 0005 and 0006 and back. An applied migration and its
record are one transaction (`Apply`); Django commits a reversal (`Reverse`) before it
removes the record (`Unrecord`), so an interruption can leave a migration reversed and
recorded (`torn`). Meanwhile requests look a role up (`FindRole`, `FindRoleByKey`) and
link a user to it later (`LinkUser`): the foreign key, checked at the commit, decides.
`granted` has what `agrant_permission` added; only tests call it so far.

`Deployment` runs both: requests only while the server serves, commands only while the
container runs, nothing while PostgreSQL is down, and what each takes with it when
it goes.

## 3. What the runs check

| Run | Instance | Properties |
| --- | --- | --- |
| `RefreshSessions` | 4 tokens, 1 family, 3 requests, 2 devices and none, clock 0..1, lifetime 1 | `TypeOK`, `AtMostOneLive`, `SingleUse`, `SweepSurvivorsWereRotated`, `OneDevicePerFamily`, `SlidingExpiry`, `RevocationIsFinal`, `ImplementsTokenFamily` |
| `RefreshWaits` | 4 tokens, 2 families, 2 requests, `FairSpec`, no symmetry | `DeadlockNeedsTwoLogoutAlls`, `EveryRequestEnds` |
| `RefreshReuseFinding` | 1 family, 2-3 requests | `ReuseRevokesFamily`, violated |
| `AccessTokens` | 1 token, 2 users, 2 calls, lifetime 2 s, half seconds, 1 outage | `TypeOK`, `LoggedOutUntilExpiry`, `RevokedUntilExpiry`, `RefusedOnlyIfRevoked` |
| `AccessEpochFinding` | 2 calls | `RevokedForTheirLifetime`, violated |
| `AuthSystem` | 1 user, 2 sessions, 2 access tokens, 1 role, 3 requests, all eight use cases | `TypeOK`, `DeactivatedDoors`, `ClaimsCoverRoles`, `NothingOutlivesAUser`, `LogoutIsWhole` |
| `AuthDeactivatedFinding` | 2 requests, refresh and deactivate | `DeactivatedIsOut`, violated |
| `Accounts` | 2 keys, 2 addresses, 3 requests, at most 1 earlier account, all seven programs | `TypeOK`, `OneAccountPerAddress`, `NoAccountWithoutRole`, `AdministratorsAreWhole`, `LoginFindsAccounts`, `PasswordChangesHold` |
| `AccountsCaseFinding` | 1 key, 1 address, 2 requests | `EveryEmailIsLowercase`, violated |
| `AuditTrail` | 2 ids, 2 emails, 2 requests, all nine use cases, pages of 1; 4 addresses, headers of 2 entries from the client, 2 proxies, metadata of 2 keys and 3 levels, lists of 1 item | `TypeOK`, `DeedsAreRecordedOnce`, `AnsweredIsRecorded`, `EmailSnapshot`, `WalksAreComplete`, `AddressIsTheClients`, `SecretsStayOut` |
| `LoginThrottle` | 2 workers, 2 clients, 4 checks, rate 2 in 2 ticks, 1 outage | `TypeOK`, `NewestFirst`, `ExceededOnlyIfBlind`, `RefusedOnlyOverRate` |
| `Deployment` | timeout and interval 1, 3 permissions, 1 request, 4 role rows, `FairSpec` | `RowsAreTheMigrations`, `LinksHold`, `OneLateAttempt`, `ServesAgain` |

Why the bounds are enough. In a family at most one token is live, so a race
is between requests about the same token, its parent or its child: four tokens
are a chain of three rotations, three requests a rotation between the two
statements of another request with a third one to observe or disturb. A
wait needs a row of each of two families (a family has one live row) and, for a
cycle, two requests; chains of more are cycles of the same two kinds of wait. In
`RefreshSessions` a lifetime of 1 in a clock of
0..1 lets a request read its clock, wait, and act before and at the
expiry, where a token is refused. In `AccessTokens` a lifetime of two seconds on a clock of 0..4 lets a
token expire while its keys live and the keys expire after it; two calls are
what overtaking takes. Users in the access model only matter as owner or other:
two. In `AuthSystem` every property is about one user, two requests that
overlap and a third that observes or disturbs; the use cases of different users
share no row and no key. Two sessions are what a login or a sweep of more than
one needs, and each request issues at most one access token. In `Accounts` two keys and
two addresses are what a conflict or an exchange of emails takes, and three requests
put a third one between the read and the write of another; an earlier account, of
the API or of the add form, leaves all three requests to overlap on it. In `AuditTrail` two requests are
one that records and one that renames, deletes or registers between its awaits; pages of
one row with a limit of 0, 1 and 2 asked for reach every clamp, and two accounts or
up to four events make the pages. A header of two entries from the client and two from
proxies has every kind of entry before and after the client's; three levels nest mappings
and lists both ways, and longer lists are left to the theorem. In `LoginThrottle` two workers make a stale write, a
rate of two has a boundary on both sides, and a clock of two periods lets entries and
keys expire. In `Deployment` each link of a catalogue is to one of three kinds of
permission (moved by 0005, added by 0006, neither); four role rows let the tables be
seeded, emptied and seeded again; an attempt can end before, at and after a deadline of 1.

Only `RefreshTokens` checks for deadlock, with `Finished` as the state in which
every request of the instance has run. `AccessTokens` stops when the clock and
the calls are used up, `AuthSystem` and `Accounts` when their requests are, `AuditTrail` and `LoginThrottle` likewise, so their
configurations switch the check off. `Deployment` never stops: its configuration leaves
the check to `ServesAgain`.

Fairness (`FairSpec`): a started request's next step is weakly fair, because its
coroutine is scheduled until it ends and PostgreSQL grants a lock that stays
free; `BreakDeadlock` is weakly fair, because the deadlock detector ends one
transaction of every cycle after `deadlock_timeout`. No request has to
start, and no other failure has to happen.
In `Deployment` weak fairness is asked of the container's restart (`restart: always`, which
follows an exit or a lost host or daemon and not a `docker stop`, so `Stop` is none), of
each step of the waiting and booting process and of the clock, and of a migrate command
that runs; never of the database, of a loss or of the operator.

### What the violated runs show

- `ReuseRevokesFamily` (apps/authz/services/auth.py:108): the family UPDATE of a
  detected reuse starts while another request is rotating the family's current
  token. It waits for that row, finds it revoked when it gets it, and the new
  row is not in its snapshot. The request answers `reused` and the session goes
  on. `SweepSurvivorsWereRotated` is what does hold, and says that this is the
  only way a token outlives a sweep. The UPDATE of `arevoke_user`
  (refresh_tokens.py:72-75, "Revoke every active refresh token for a user.")
  behaves the same.
- `RevokedForTheirLifetime` (blocklist.py:36): the epoch is overwritten, not
  raised, with an instant read before the call (in `refresh`, before the whole
  rotation transaction). Written late, it moves the epoch back, and a token
  issued between the two instants is accepted again. `RevokedUntilExpiry` is
  what holds: only such an earlier-read call re-admits a token.
- `DeactivatedIsOut` (docs/adr/0008-redis-throttle-and-blocklist.md:38, README.md:82):
  a refresh never reads `is_active`, so one that issues its access token after the
  deactivation has written the epoch, whether it was under way or begins later,
  hands the deactivated user a working token. A login that had read the account
  before the UPDATE does the same once. `DeactivatedDoors` says that there is no
  other way in.
- `EveryEmailIsLowercase` (docs/adr/0004-custom-user-email-login.md:27): the Django
  admin's add form stores an email as typed. The account keeps its address, which the index
  on `Lower("email")` protects, but login, which looks for the canonical form, does not
  find it. `LoginFindsAccounts` says that nothing else does this, and that an update of
  the email repairs it.

### What the passing runs say of limits of the code

- `RefusedOnlyIfRevoked`: a token issued after a revocation, in the same second, is
  refused for its whole life, because the epoch is rounded up and `iat` down. The effect
  ends with the second. (The test at tests/test_blocklist.py:41 revokes on a whole second
  and does not meet it.)
- `ExceededOnlyIfBlind`: checks that overlap may write over each other's entries, in one
  bucket and from any number of workers, so the rate is enforced over the cluster
  (docs/adr/0008) up to the entries lost that way, and to none while Redis is down.
- `EmailSnapshot`: the snapshot is taken after the action. The event of a self-deletion has
  no email, and an actor renamed meanwhile appears under the new one.
- `WalksAreComplete`: a client that pages by offset misses a row when an earlier one is
  deleted between two of its pages, and, if it trusts a total counted before the page,
  an event inserted between.
- `RowsAreTheMigrations`: a `migrate` interrupted between a reversal and the removal of its
  record leaves the migration listed as applied; a later forward `migrate` does not
  repair it, reversing once more does.
- `LinksHold`: a registration whose default role is reversed away while it hashes the
  password is rolled back, and answers "email already exists", because `register` reads
  every `IntegrityError` so (auth.py:75-77).

## 4. What is proved

For any number of tokens, families, users, devices and requests, any lifetime
and either setting of `REFRESH_BIND_DEVICE`, from the named assumptions of
the modules (`None` is none of the identities, lifetimes and the number of
positions in a second are positive):

| Module | Theorem | Statement |
| --- | --- | --- |
| `RefreshTokensProofs` | `TypeCorrect` | `Spec => []TypeOK` |
| | `RevocationFinal` | `Spec => RevocationIsFinal` |
| | `OneLiveTokenPerSession` | `Spec => []AtMostOneLive` |
| | `TokensAreSingleUse` | `Spec => []SingleUse` |
| | `ExpirySlides` | `Spec => []SlidingExpiry` |
| | `SessionsAreBound` | `Spec => []OneDevicePerFamily` |
| | `SweepsMissOnlyRotations` | `Spec => []SweepSurvivorsWereRotated` |
| | `TableImplementsSessions` | `Spec => ImplementsTokenFamily` |
| | `OnlyLogoutAllsDeadlock` | `Spec => []DeadlockNeedsTwoLogoutAlls` |
| `AccessTokensProofs` | `AccessTypeCorrect` | `Spec => []TypeOK` |
| | `LogoutHolds` | `Spec => []LoggedOutUntilExpiry` |
| | `RevocationHolds` | `Spec => []RevokedUntilExpiry` |
| | `RefusalsAreRevocations` | `Spec => []RefusedOnlyIfRevoked` |
| `AuthSystemProofs` | `SystemTypeCorrect` | `Spec => []TypeOK` |
| | `ClaimsAreCovered` | `Spec => []ClaimsCoverRoles` |
| | `DeletionIsComplete` | `Spec => []NothingOutlivesAUser` |
| | `LogoutsAreWhole` | `Spec => []LogoutIsWhole` |
| | `RotationsStayExclusive` | `Spec => []RotationsAreExclusive` |
| | `SessionsAreFamilies` | `Spec => StepsOfTokenFamily` |
| | `DeactivationDoors` | `Spec => []DeactivatedDoors` |
| `AccountsProofs` | `AccountsAreSound` | `Spec => []AccountsInv` |
| | `AccountsTypeCorrect` | `Spec => []TypeOK` |
| | `OneAccountHolds` | `Spec => []OneAccountPerAddress` |
| | `EveryAccountHasARole` | `Spec => []NoAccountWithoutRole` |
| | `AdministratorsStayWhole` | `Spec => []AdministratorsAreWhole` |
| | `LoginFinds` | `Spec => []LoginFindsAccounts` |
| | `PasswordsHold` | `Spec => []PasswordChangesHold` |
| `AuditTrailProofs` | `AuditTypeCorrect` | `Spec => []TypeOK` |
| | `DeedsAreTrue` | `Spec => []DeedsAreRecordedOnce` |
| | `AnswersAreRecorded` | `Spec => AnsweredIsRecorded` |
| | `EmailsAreSnapshots` | `Spec => EmailSnapshot` |
| | `WalksHold` | `Spec => WalksAreComplete` |
| `AuditContextProofs` | `AddressIsAlwaysTheClients` | `ContextSpec => []AddressIsTheClients` |
| | `SecretsAlwaysStayOut` | `ContextSpec => []SecretsStayOut` |
| `LoginThrottleProofs` | `ThrottleTypeCorrect` | `Spec => []TypeOK` |
| | `ListsStaySorted` | `Spec => []NewestFirst` |
| | `OnlyBlindLimitsExceed` | `Spec => []ExceededOnlyIfBlind` |
| | `RefusalsAreDeserved` | `Spec => RefusedOnlyOverRate` |
| `DeploymentProofs` | `OneAttemptIsLate` | `Spec => []OneLateAttempt` |
| | `UserLinksHold` | `Spec => []LinksHold` |
| | `RowsFollowMigrations` | `Spec => []RowsAreTheMigrations` |
| | `HeadHolds` | `Spec => []HeadIsTheCatalog` |
| | `DeploymentTypeCorrect` | `Spec => []TypeOK` |

The argument. `TypeOK` is not inductive: `Rotate` and `SweepCommit` write
rows that exist only because of where the request stands. `Base` adds
`Control` (what `pc` says of the request's inputs) and `Statement` (a sweep's
`todo` and `hit` are among the existing rows it found). `Locked` adds
`Ownership`: a row a request is about to write is locked by it and live. That
is the heart: two requests cannot both own a row, so `Rotate` consumes a live
row nobody else consumes and a sweep stamps only live rows. Final revocation
follows at once, since a row changes only when its owner writes it. `AtMostOneLive`
and `SingleUse` are inductive only together (`Lineage`): a second
child of one token would need its parent live after it was replaced, and
a second live token a rotation whose parent was not the live one.

`SlidingExpiry` needs what a request's "now" is worth when it writes: `Clocks`
bounds it by the clock, which is why no token expires later than a lifetime from now, and
by the expiry of the row the request holds, which nobody else can have moved.
`OneDevicePerFamily` needs `LeafBinding`: the live row of a session carries
the session's device if it has one, and only that row decides which device the next one
carries; a request about to rotate it was presented by that device.
`SweepSurvivorsWereRotated` is a property of finished sweeps; `Coverage` follows
one from its snapshot: a live row of a session it covers is still to be
visited or already hit (`Covers`), or one of the rows it found was
replaced meanwhile, which is then not among the rows it hits (`Swept`). It is
proved for one request at a time: `SweepRowCovers` and `CommitSweeps` are its
own steps, `QuietSteps` those of the others. The refinement uses `Locked` and
`Lineage` only: `Rotate` is `Exchange` because the row it owns is the only
live one of its family, a commit of a sweep is `End` of the families of the rows
it hit, and all other steps change nothing a session shows.

`RefreshTokensInv` holds these conjuncts; TLC checked them as invariants before
they were proved.

`DeadlockNeedsTwoLogoutAlls` takes two more invariants. `Waiting` says what each request
holds and asks for: a request at a `SELECT ... FOR UPDATE` holds nothing yet, one that
sweeps holds the row it presented or rows it has visited (`Holds`, `Asks`), and its
snapshot has one row of each session (`Finds`), which is its own row when a logout, or a
refresh with the wrong device, sweeps (`Presents`). `Ages` gives the rows ranks, in the
order they were written: the live row of a session ranks above its other rows, so a refresh
that holds a used row and sweeps waits for a higher one. Whoever is waited for and waits
itself is then either a refresh, which wants a higher row of the same session, or a
logout-all, which wants a row of another session (`LinkOfWaits`). If a closed set of waits
had at most one logout-all, take those of its requests that want a row of the session this
logout-all waits for, or all if there is none: the one that wants the highest row waits for
a refresh that wants a higher one, which is a contradiction (`WaitsEnd`). Two logout-alls
deadlock when they visit two sessions in opposite order.

For `AccessTokens` the invariant is `Held`. What a call carries, when it comes to
write: the remaining time of its token, counted from now, reaches the token's
expiry however long the call waited (`PendingBlocks`), and the instant it revokes at
is not in the future (`PendingRevocations`). What it has left, once written and not
lost: a key that outlives its token (`DoneBlocks`), or an epoch whose key lives
at least `AccessTTL` past the revoked instant, by which time every token issued
before it has expired (`Written`, `Epochs`). The epoch of a user is always the
rounded-up instant of one of the revocations Redis has not lost: a finished
revocation is either still the bound, or overwritten by another, which the property
names. Clock arithmetic on seconds and positions is done in the lemmas
`WithTtl` and `ClockSteps`.

For `AuthSystem` the invariant is `Composed`. It joins types, what `pc` says of a
request's inputs (`Control`), that a presented generation is never ahead of its
session (`Presented`), that roles a request has read are among those it reads
permissions for (`ClaimsRead`), and the properties themselves. The argument is
about one request at a time: `OneMoves` says that a step leaves the other requests
where they are, `StepKeeps`, `StepLeads` and `StartBegins` what it does to its own,
and `AccountWriters`, `SessionWriters` and `TokenWriters` which actions can
disturb a store. What others do is then one lemma per store: links only grow
unless the user is deleted, a deletion is final (`AccountsPersist`), and a
session only goes on (`SessionsPersist`), so a token that cannot be exchanged
will not be: that carries a logout past its end.

`RotationsAreExclusive` is the row lock of `SELECT ... FOR UPDATE`: whoever is about to
rotate a session presents its current token and is alone. It is inductive with
`Composed` (`Rotating`): sweeps, logouts and deletions wait for such a
request, so nothing moves the session under it. The refinement rests on it: `Rotate` is
`Exchange`, because the generation it replaces is the one that can be exchanged.
`FamilyOpens`, `FamilyRotates` and `FamiliesEnd` are the three steps of the abstract
specification.

`DeactivatedDoors` needs `Doors` on top: every clock read has an instant of its
own (`ClockReads`), a token was issued by a finished login or refresh of its user
(`Issuers`), the epoch is at least every revocation not overwritten
(`EpochCovers`), a deactivation nobody undoes keeps the account not active
(`BansHold`), and so a login not refused began before it (`LoginsBefore`). An
accepted token is then not older than the epoch, hence younger than the
deactivation, hence issued by one of the two doors.

`LogoutIsWhole` takes `Rotating`, `Doors` and three more (`Whole`). `OlderAccessEnds` is a
consequence of `Doors`: the epoch covers the revocation, an accepted token is not older than
the epoch, and no two clocks read alike. The sessions need an induction: `AllEnd` says, from
the snapshot of a logout-all on, that a live session is in it at its present generation, or
survives for a reason. `LiveSteps` says how a session can be live after a step: as it was,
just opened, or just rotated. In the last two cases its maker still has its access token to issue
(`MakersSurvive`); when it issues it, it reads the clock after the logout-all did
(`IssuesLater`). What a maker has done stays done: an access token somebody opened is never written
again (`Signed`, `IssuedStays`), and a login that has opened no session names none
(`Unopened`), so it is not taken for the maker of another's.

For `Accounts` the invariant is `AccountsInv`. The properties are not inductive: a
COMMIT or a change of address is harmless only for what the request has waited for
before. `Position` and `Orders` say what a request is about by where it stands and by
its program. `Footing` and `Apart` say that the key and the address of an uncommitted INSERT
are nobody's, and no two such requests hold one; a row being written is there. `Standing`
says what a request still knows of the account it has read: a bootstrap that found the
flags set, that they are, or that a password page took them back or revived the account; a
password page that read the flags, that the admin role is linked, unless the add form gave
them. Assignments and bootstraps only add links, and only a deletion takes them, which is
why the role stays. `Kept` carries a changed password along. `Sound` is what is true of one
account, `Whole` and `Findable` its flags and its email: `Findable` is inductive because an
email as typed comes from the add form or from a password page that read it there.
`QuietStep` handles the steps that change no row, and `RaiseKept` and `RefuseKept` those
that end a request; for the ones that write, `TouchStep` asks only about the account that is
touched and the requests that work on it, and `OthersElsewhere` and `SoundStays` do the rest.

For `AuditTrail` the invariant is `TrailInv`, in layers. `Base` has the types and what they
rest on: the actor of a request is an account, of which `since` knows everything it has been
(`Acts`); a request takes its events one after the other, and no two of them have one action
(`Paced`); the times taken so far are bounded (`Dated`), without which there need be no later
one. `Drafts` says that an email about to be written is one its account has had, which
renamings cannot undo, since what is known only grows. `Tells` says of each event of
a request whether it is in the log: once if the request is past it, not at all before, and
nothing is promised after a failed INSERT. `Told` and `Untold` are `DeedsAreRecordedOnce` with
what is still to be told: a birth or death that a request is about to record is of an
account no event and no other request tells of. It holds because an id is given once and
because a DELETE that removed no row has nothing to record. `ActsHaveOutcomes` and `ActDeeds`
reduce the nine use cases to what they do to the accounts and to the request,
`DeedsStay` and `InsertKeepsDeeds` to what that means for the log.

The walks of its listings have an invariant of their own, `Walks`, on the same `Base`. Times
are never shared (`Stamped`), so both listings are strict orders. A row the client has not
seen is behind the page it asks for: an event always (`EventWalk`), as events only come
in front of the older ones; a user as long as the users before it when the walk began are all
there (`UserWalk`), as ids grow. `PlacesAreAll` and `PageIsFull` turn that into what the client
looks at: the places of n rows are 0 to n-1, so a page before such a row is full, and the
row is in the total. The users are counted after their page and the events before it,
which is the difference between the two exceptions of `WalksAreComplete`.

For `AuditContext` the invariant is `ContextInv`, and the work is in the operators. The
theorems are about `ContextSpec`, the request alone; the run's `event` takes steps of
`ContextNext` or none. `ClientIpIsClients` holds for any header and any chain of proxies: what
the proxies added ends with trusted addresses, so the last entry that is none is the first
they added, at the place after those the client sent itself. `EveryValueIsClean` is an
induction over the levels of metadata. The library's induction theorems cannot be used;
`Induction` is about sets of numbers instead, and a level goes into the set when its claim
holds. That `Metadata`, `Sanitized` and `Nodes` satisfy their recursive equations is proved
the same way, by solutions for 0 to n levels that extend to one more
(`MetadataIsRecursive`, `SanitizedIsRecursive`, `NodesIsRecursive`). `SanitizedSteps` then says
what sanitizing does to one level, a mapping or a list, and `CleanAbove` what
follows for the values inside it. That a place in a list is no sensitive key is an
assumption, `KeyAssumption`: keys are strings.

For `LoginThrottle` the invariant is `ThrottleInv`, which relates the list of a bucket to the
passes of its limit in both directions. Each recent entry of a list, and of a copy a worker
holds, is a pass of its own (`Numbered`): a stale write can lose entries and never
invents one, so a full list means as many passes (`RefusedOnlyOverRate`). Each recent pass since
the last loss is an entry of its own (`Listed`): so a limit that has lost nothing in the
period has all its passes in a list no longer than the rate (`ExceededOnlyIfBlind`).
Both are injections, between the entries of a list and the passes, that each step
extends or restricts; `UpTo` and `Falling` say that what `Pruned` drops is old and
what it keeps is recent.

For `Deployment` the two parts keep an invariant each. `ServerInv` says that no late
attempt lies behind a wait that sleeps, so the one that follows is the first. `CatalogInv`
adds to the properties that the record is always a prefix of 0002, 0005, 0006 (`InOrder`),
that a migration about to lose its record has been torn (`CommandInv`), that there is one
role of each name while 0002 is in force and none otherwise (`RolesInv`), and that the
key a request holds is that of the role it looked up (`HeldInv`): keys are not reused and
names do not change. Each migration has a lemma for each direction; a reversal that runs
again, because its record was not removed, finds the rows as it left them. `HeadIsTheCatalog`,
which no run checks, follows: with everything recorded and nothing torn the rows are the
catalogue of `permissions.py`.

## 5. What is only model-checked, and what is left out

- `EveryRequestEnds` is a temporal property under fairness, outside what the
  proof system handles.
- `ServesAgain` is temporal as well.
- `RotationsAreExclusive`, `StepsOfTokenFamily` and `HeadIsTheCatalog` are the other way
  round: proved for every instance, and in no run.
- Two updates that exchange the emails of two accounts deadlock, in the model as in
  PostgreSQL; `Fail` is the way out. No property is stated about it.
- The password page of the Django admin writes back the `is_active` it read, which is not in
  `Accounts`. An account it activates again is one `AuthSystem`'s `activate` could have
  activated. One it deactivates keeps its sessions and access tokens, as no epoch is
  written: `DeactivatedDoors` is about deactivations by the API, whose epoch was written.
- The Django admin records no event in the audit log and is not in `AuditTrail`; an account
  a password page brought back can be deleted, and its deletion recorded, again.
- What a client is for the throttle is what `get_ident` tells apart. `NUM_PROXIES` is not set, so
  that is the `X-Forwarded-For` header as it was sent, and a client can choose to be another one.
  docs/adr/0006-login-security-hardening.md:25 also names a throttle for each email; the
  code has none, and so has `LoginThrottle`.
- The schema migrations 0001, 0003, 0004 and 0007 change no row; `migrate authz zero`,
  which drops the tables, is not modelled, nor two migrate commands at once.
- Not modelled: password hashing, signatures, JSON schemas and envelopes, error
  texts, health checks, settings parsing (values enter as constants), the permission
  guard as a decorator (the claims it reads are in `AuthSystem`), the listings of roles and
  permissions.

## 6. Plan

1. `RefreshTokens`, `TokenFamily`, `AccessTokens`, `AuthSystem`, `Accounts`: done, as
   above.
2. `AuditTrail`, `AuditContext`, `LoginThrottle`, `Startup`, `RbacCatalog`, `Deployment`: done,
   as above.
3. Proofs of the invariants and action properties the runs check: done, as above. What is left
   to TLC is in section 5.
