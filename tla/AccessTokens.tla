---------------------------- MODULE AccessTokens ----------------------------
(***************************************************************************)
(* Access tokens and the Redis blocklist that revokes them before they     *)
(* expire: apps/authz/security/jwt.py, apps/authz/security/blocklist.py    *)
(* and JWTAuth in apps/authz/api/auth.py.                                  *)
(*                                                                         *)
(* A token carries its issue time in whole seconds; a revocation is taken  *)
(* from a clock with microseconds; a Redis key lives for a whole number of *)
(* seconds from the instant it is written.  An instant is therefore a      *)
(* second and a position within it.                                        *)
(*                                                                         *)
(* A blocklist call reads the clock in one step and reaches Redis in a     *)
(* later one: for a detected reuse a whole database transaction lies in    *)
(* between (AuthService.refresh reads "now" first).                        *)
(***************************************************************************)
EXTENDS Naturals

CONSTANTS
    Jti,          \* identities of access tokens, a bound on their number
    User,
    Call,         \* calls of the blocklist, each made at most once
    AccessTTL,    \* settings.ACCESS_TOKEN_LIFETIME, in seconds
    Ticks,        \* positions told apart within a second
    MaxSecond,    \* bound on the clock
    MaxOutages,   \* bound on Redis outages
    None          \* Python's None, a missing Redis value

ASSUME NoneAssumption ==
    /\ None \notin Jti
    /\ None \notin User
ASSUME AccessTTLAssumption == AccessTTL \in Nat \ {0}
ASSUME TicksAssumption == Ticks \in Nat \ {0}
ASSUME BoundsAssumption == MaxSecond \in Nat /\ MaxOutages \in Nat

VARIABLES
    now,          \* the clock of every instance and of Redis
    token,        \* the access tokens issued so far
    jtiUntil,     \* when each bl:jti key expires
    epoch,        \* the value of each user_epoch key
    epochUntil,   \* when each user_epoch key expires
    up,           \* Redis answers
    outages,      \* Redis outages so far
    pc,           \* where each blocklist call is
    call          \* its arguments

redis == <<jtiUntil, epoch, epochUntil>>
vars == <<now, token, jtiUntil, epoch, epochUntil, up, outages, pc, call>>

-----------------------------------------------------------------------------
Instant == [sec : Nat, sub : 0 .. Ticks - 1]
Epoch == [sec |-> 0, sub |-> 0]

Before(a, b) == a.sec < b.sec \/ (a.sec = b.sec /\ a.sub < b.sub)
After(a, seconds) == [sec |-> a.sec + seconds, sub |-> a.sub]

\* Fault: int(at.timestamp()).
CeilTruncated(a) == a.sec

\* math.ceil(at.timestamp()).
Ceil(a) == IF a.sub = 0 THEN a.sec ELSE a.sec + 1

Token == [user : User \cup {None}, issued : Instant]
Unissued == [user |-> None, issued |-> Epoch]

CallKind == {"none", "block_token", "revoke_user"}
Arguments == [kind : CallKind, jti : Jti \cup {None}, user : User \cup {None},
              at : Instant, ttl : Nat]
NoCall == [kind |-> "none", jti |-> None, user |-> None, at |-> Epoch, ttl |-> 0]

\* "done": the call returned and Redis still has what it wrote; "lost": it
\* never wrote, or Redis lost its data since.
PC == {"idle", "authenticated", "write", "done", "lost"}

Issued(j) == token[j].user # None

-----------------------------------------------------------------------------
(* The claims and the check made by every authenticated request.           *)

IssuedAt(j) == token[j].issued.sec
ExpiresAt(j) == token[j].issued.sec + AccessTTL

\* PyJWT refuses a token once exp <= now.
Decodes(j) == Issued(j) /\ now.sec < ExpiresAt(j)

JtiBlocked(j) == Before(now, jtiUntil[j])

\* Fault: a token issued in the second of the epoch is blocked too.
EpochBlocksInclusive(j) ==
    LET u == token[j].user
    IN  Before(now, epochUntil[u]) /\ IssuedAt(j) <= epoch[u]

EpochBlocks(j) ==
    LET u == token[j].user
    IN  Before(now, epochUntil[u]) /\ IssuedAt(j) < epoch[u]

\* BlocklistService.is_blocked; an unreachable Redis blocks nothing.
IsBlocked(j) == up /\ (JtiBlocked(j) \/ EpochBlocks(j))

\* JWTAuth.authenticate.
Accepts(j) == Decodes(j) /\ ~IsBlocked(j)

-----------------------------------------------------------------------------
Init ==
    /\ now = Epoch
    /\ token = [j \in Jti |-> Unissued]
    /\ jtiUntil = [j \in Jti |-> Epoch]
    /\ epoch = [u \in User |-> 0]
    /\ epochUntil = [u \in User |-> Epoch]
    /\ up = TRUE
    /\ outages = 0
    /\ pc = [c \in Call |-> "idle"]
    /\ call = [c \in Call |-> NoCall]

\* encode_access_token, at the end of a login or a refresh.
Issue(j, u) ==
    /\ ~Issued(j)
    /\ token' = [token EXCEPT ![j] = [user |-> u, issued |-> now]]
    /\ UNCHANGED <<now, redis, up, outages, pc, call>>

\* Logout is authenticated by the token it blocks.
LogoutAuthenticated(c, j) ==
    /\ pc[c] = "idle"
    /\ Accepts(j)
    /\ call' = [call EXCEPT ![c] = [kind |-> "block_token", jti |-> j, user |-> None,
                                    at |-> Epoch, ttl |-> 0]]
    /\ pc' = [pc EXCEPT ![c] = "authenticated"]
    /\ UNCHANGED <<now, token, redis, up, outages>>

\* Fault: the remaining life is rounded down.
RemainingRoundedDown(j) ==
    LET end == IF now.sub = 0 THEN ExpiresAt(j) ELSE ExpiresAt(j) - 1
    IN  IF end > now.sec THEN end - now.sec ELSE 0

\* Fault: no max(0, ...).
RemainingUnclamped(j) == ExpiresAt(j) - now.sec

\* max(0, ceil(exp - now)): exp is a whole second, so what now has beyond
\* its own second is rounded away.
Remaining(j) ==
    IF ExpiresAt(j) > now.sec THEN ExpiresAt(j) - now.sec ELSE 0

LogoutRemaining(c) ==
    /\ pc[c] = "authenticated"
    /\ call' = [call EXCEPT ![c].ttl = Remaining(call[c].jti)]
    /\ pc' = [pc EXCEPT ![c] = "write"]
    /\ UNCHANGED <<now, token, redis, up, outages>>

\* Logout-all, a detected reuse, a binding mismatch and a deactivation read
\* the clock and call revoke_user with it.
RevokeUser(c, u) ==
    /\ pc[c] = "idle"
    /\ call' = [call EXCEPT ![c] = [kind |-> "revoke_user", jti |-> None, user |-> u,
                                    at |-> now, ttl |-> AccessTTL]]
    /\ pc' = [pc EXCEPT ![c] = "write"]
    /\ UNCHANGED <<now, token, redis, up, outages>>

\* A ttl of zero and an error both write nothing and raise nothing.
Write(c) ==
    LET a == call[c]
        written == up /\ a.ttl > 0
    IN  /\ pc[c] = "write"
        /\ jtiUntil' = IF written /\ a.kind = "block_token"
                       THEN [jtiUntil EXCEPT ![a.jti] = After(now, a.ttl)]
                       ELSE jtiUntil
        /\ epoch' = IF written /\ a.kind = "revoke_user"
                    THEN [epoch EXCEPT ![a.user] = Ceil(a.at)]
                    ELSE epoch
        /\ epochUntil' = IF written /\ a.kind = "revoke_user"
                         THEN [epochUntil EXCEPT ![a.user] = After(now, a.ttl)]
                         ELSE epochUntil
        /\ pc' = [pc EXCEPT ![c] = IF up THEN "done" ELSE "lost"]
        /\ UNCHANGED <<now, token, up, outages, call>>

\* The request dies before its call reaches Redis.
Abandon(c) ==
    /\ pc[c] \in {"authenticated", "write"}
    /\ pc' = [pc EXCEPT ![c] = "lost"]
    /\ UNCHANGED <<now, token, redis, up, outages, call>>

RedisDown ==
    /\ up
    /\ outages < MaxOutages
    /\ up' = FALSE
    /\ outages' = outages + 1
    /\ UNCHANGED <<now, token, redis, pc, call>>

\* Redis is back with its data, or without: the compose file gives it no
\* volume.
RedisUp ==
    /\ ~up
    /\ up' = TRUE
    /\ \/ UNCHANGED <<redis, pc>>
       \/ /\ jtiUntil' = [j \in Jti |-> Epoch]
          /\ epoch' = [u \in User |-> 0]
          /\ epochUntil' = [u \in User |-> Epoch]
          /\ pc' = [c \in Call |-> IF pc[c] = "done" THEN "lost" ELSE pc[c]]
    /\ UNCHANGED <<now, token, outages, call>>

Tick ==
    /\ \/ now.sub + 1 < Ticks /\ now' = [now EXCEPT !.sub = @ + 1]
       \/ now.sub + 1 = Ticks /\ now.sec < MaxSecond /\ now' = [sec |-> now.sec + 1, sub |-> 0]
    /\ UNCHANGED <<token, redis, up, outages, pc, call>>

Next ==
    \/ \E j \in Jti, u \in User : Issue(j, u)
    \/ \E c \in Call, j \in Jti : LogoutAuthenticated(c, j)
    \/ \E c \in Call, u \in User : RevokeUser(c, u)
    \/ \E c \in Call : LogoutRemaining(c) \/ Write(c) \/ Abandon(c)
    \/ RedisDown
    \/ RedisUp
    \/ Tick

Spec == Init /\ [][Next]_vars

-----------------------------------------------------------------------------
(* Properties                                                              *)

TypeOK ==
    /\ now \in Instant
    /\ token \in [Jti -> Token]
    /\ jtiUntil \in [Jti -> Instant]
    /\ epoch \in [User -> Nat]
    /\ epochUntil \in [User -> Instant]
    /\ up \in BOOLEAN
    /\ outages \in Nat
    /\ pc \in [Call -> PC]
    /\ call \in [Call -> Arguments]

Revoked(c) == pc[c] = "done" /\ call[c].kind = "revoke_user"

\* A logged-out access token stays refused until it expires: the rounded-up
\* key outlives the token, whenever between two ticks it is written.
LoggedOutUntilExpiry ==
    up => \A c \in Call : pc[c] = "done" /\ call[c].kind = "block_token" =>
        ~Accepts(call[c].jti)

\* A token issued before a revocation of its user stays refused until it
\* expires, the second it was issued in included, unless a call that had
\* read an earlier clock wrote the epoch as well.
RevokedUntilExpiry ==
    up => \A c \in Call, j \in Jti :
        /\ Revoked(c)
        /\ token[j].user = call[c].user
        /\ Before(token[j].issued, call[c].at)
        /\ Accepts(j)
        => \E d \in Call : /\ Revoked(d)
                           /\ call[d].user = call[c].user
                           /\ Before(call[d].at, call[c].at)

\* A token is only refused by the epoch of its user if it was issued less
\* than a second after some revocation of that user: a later login works.
RefusedOnlyIfRevoked ==
    \A j \in Jti : Issued(j) /\ up /\ EpochBlocks(j) =>
        \E c \in Call :
            /\ Revoked(c)
            /\ call[c].user = token[j].user
            /\ Before(token[j].issued, After(call[c].at, 1))

(* What the repository's own words promise of the epoch.                   *)

\* "Invalidate tokens issued before ``at`` for the duration of their
\* lifetime."
RevokedForTheirLifetime ==
    up => \A c \in Call, j \in Jti :
        /\ Revoked(c)
        /\ token[j].user = call[c].user
        /\ Before(token[j].issued, call[c].at)
        => ~Accepts(j)
=============================================================================
