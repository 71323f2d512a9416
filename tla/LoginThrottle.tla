--------------------------- MODULE LoginThrottle ---------------------------
(***************************************************************************)
(* The throttle of login, refresh and registration                         *)
(* (apps/common/throttling.py on Django Ninja's SimpleRateThrottle): a     *)
(* list of times per client and scope in the shared Redis cache.           *)
(*                                                                         *)
(* A check reads the list, reads the clock, drops what is too old, and     *)
(* refuses or writes the list back with its own time in front.  It is      *)
(* synchronous code on a worker's event loop, so one worker does one check *)
(* at a time; the workers of all instances share the cache, and run        *)
(* between any two steps of a check.  A cache that cannot be reached reads *)
(* as empty and drops writes (IGNORE_EXCEPTIONS).                          *)
(***************************************************************************)
EXTENDS Integers, Sequences, FiniteSets

CONSTANTS
    Worker,      \* server processes
    Ident,       \* clients, as get_ident tells them apart
    Rate,        \* the count of THROTTLE_LOGIN
    Duration,    \* its period, in clock ticks
    MaxTime,     \* bound on the clock
    MaxChecks,   \* bound on the number of checks
    MaxOutages,  \* bound on the number of outages of Redis
    None

ASSUME RateAssumption == Rate \in Nat \ {0} /\ Duration \in Nat \ {0}
ASSUME BoundsAssumption == MaxTime \in Nat /\ MaxChecks \in Nat /\ MaxOutages \in Nat
ASSUME NoneAssumption == None \notin Ident /\ None \notin Worker /\ None \notin Int

VARIABLES
    clock,      \* time.time(), the same on every instance
    up,         \* Redis can be reached
    outages,    \* how often it could not
    cache,      \* the list of each bucket, newest first, and when its key expires
    pc,         \* where each worker's check is
    check,      \* the check it is doing
    allowed,    \* history: the times of the checks a limit has let through
    blind,      \* history: when the list of a limit last lost an entry
    checks      \* how many checks were begun

vars == <<clock, up, outages, cache, pc, check, allowed, blind, checks>>

-----------------------------------------------------------------------------
Endpoint == {"login", "refresh", "register"}

Scope == {"login", "register"}

\* Fault: every endpoint counts in one bucket.
ScopeShared(endpoint) == "login"

\* The subclass the route was given.
ScopeOf(endpoint) == IF endpoint = "register" THEN "register" ELSE "login"

Bucket == Scope \X Ident

\* get_cache_key.
CacheKey(endpoint, ident) == <<ScopeOf(endpoint), ident>>

\* The limits the routes are meant to have: "Shared IP bucket for login and
\* refresh attempts", "Separate IP bucket for registration".
LimitOf(endpoint, ident) ==
    <<IF endpoint \in {"login", "refresh"} THEN "login" ELSE "register", ident>>

Check == [limit : Bucket, bucket : Bucket, history : Seq(Nat), at : Nat]

NoCheck == [limit |-> None]

Absent == [history |-> <<>>, expires |-> 0]

\* Fault: the cache's answer in an outage is not replaced by a list.
CachedOrNone(b) == IF up THEN cache[b].history ELSE None

\* cache.get(key, []).
Cached(b) == IF up THEN cache[b].history ELSE <<>>

\* Fault: an entry as old as the period still counts.
ExpiredLate(t, now) == t < now - Duration

Expired(t, now) == t <= now - Duration

\* history.pop() as long as the last entry is too old.
Pruned(history, now) ==
    LET kept == {n \in 0 .. Len(history) :
                    \A i \in n + 1 .. Len(history) : Expired(history[i], now)}
        shortest == CHOOSE n \in kept : \A m \in kept : n <= m
    IN  SubSeq(history, 1, shortest)

\* Fault: one check too many is let through.
FullLate(history) == Len(history) > Rate

Full(history) == Len(history) >= Rate

\* Fault: the new time goes to the end of the list.
WithEntryLast(history, now) == Append(history, now)

\* history.insert(0, now).
WithEntry(history, now) == <<now>> \o history

-----------------------------------------------------------------------------
Init ==
    /\ clock = 0
    /\ up = TRUE
    /\ outages = 0
    /\ cache = [b \in Bucket |-> Absent]
    /\ pc = [w \in Worker |-> "idle"]
    /\ check = [w \in Worker |-> NoCheck]
    /\ allowed = [b \in Bucket |-> [t \in 0 .. MaxTime |-> 0]]
    /\ blind = [b \in Bucket |-> None]
    /\ checks = 0

\* A request reaches a throttled endpoint: the list is read.
Get(w, endpoint, ident) ==
    LET b == CacheKey(endpoint, ident) IN
    /\ pc[w] = "idle"
    /\ checks < MaxChecks
    /\ checks' = checks + 1
    /\ check' = [check EXCEPT ![w] =
                    [limit |-> LimitOf(endpoint, ident), bucket |-> b,
                     history |-> Cached(b), at |-> 0]]
    /\ pc' = [pc EXCEPT ![w] = "timer"]
    /\ UNCHANGED <<clock, up, outages, cache, allowed, blind>>

\* The clock is read once the list is there, the old entries go, and the
\* rest decides.  A refused check writes nothing.
Decide(w) ==
    LET kept == Pruned(check[w].history, clock)
    IN  /\ pc[w] = "timer"
        /\ IF Full(kept)
           THEN /\ pc' = [pc EXCEPT ![w] = "idle"]
                /\ check' = [check EXCEPT ![w] = NoCheck]
           ELSE /\ pc' = [pc EXCEPT ![w] = "set"]
                /\ check' = [check EXCEPT ![w].at = clock, ![w].history = kept]
        /\ UNCHANGED <<clock, up, outages, cache, allowed, blind, checks>>

\* cache.set(key, history, duration), and the request goes on.  What others
\* wrote to the list since it was read is lost; so is the write in an outage.
Set(w) ==
    LET c == check[w]
        lost == ~up \/ Pruned(Cached(c.bucket), c.at) # c.history
    IN  /\ pc[w] = "set"
        /\ cache' = IF up THEN [cache EXCEPT ![c.bucket] =
                                  [history |-> WithEntry(c.history, c.at),
                                   expires |-> clock + Duration]]
                    ELSE cache
        /\ blind' = IF lost THEN [blind EXCEPT ![c.limit] = clock] ELSE blind
        /\ allowed' = [allowed EXCEPT ![c.limit][c.at] = @ + 1]
        /\ pc' = [pc EXCEPT ![w] = "idle"]
        /\ check' = [check EXCEPT ![w] = NoCheck]
        /\ UNCHANGED <<clock, up, outages, checks>>

\* The worker is lost before the list is written; earlier it leaves no trace.
Lose(w) ==
    /\ pc[w] = "set"
    /\ pc' = [pc EXCEPT ![w] = "idle"]
    /\ check' = [check EXCEPT ![w] = NoCheck]
    /\ UNCHANGED <<clock, up, outages, cache, allowed, blind, checks>>

RedisDown ==
    /\ up
    /\ outages < MaxOutages
    /\ up' = FALSE
    /\ outages' = outages + 1
    /\ UNCHANGED <<clock, cache, pc, check, allowed, blind, checks>>

\* Redis is back, with its keys or without.
RedisUp ==
    /\ ~up
    /\ up' = TRUE
    /\ \/ UNCHANGED <<cache, blind>>
       \/ /\ cache' = [b \in Bucket |-> Absent]
          /\ blind' = [b \in Bucket |-> clock]
    /\ UNCHANGED <<clock, outages, pc, check, allowed, checks>>

\* Time passes, and keys whose time has come are gone.  What lies more than
\* a period back is dropped from the history variables.
Tick ==
    LET now == clock + 1
        recent(t) == now - Duration < t
    IN  /\ clock < MaxTime
        /\ clock' = now
        /\ cache' = [b \in Bucket |-> IF cache[b].expires <= now THEN Absent ELSE cache[b]]
        /\ allowed' = [b \in Bucket |-> [t \in 0 .. MaxTime |->
                                           IF recent(t) THEN allowed[b][t] ELSE 0]]
        /\ blind' = [b \in Bucket |-> IF blind[b] # None /\ recent(blind[b])
                                      THEN blind[b] ELSE None]
        /\ UNCHANGED <<up, outages, pc, check, checks>>

Next ==
    \/ \E w \in Worker :
          \/ \E endpoint \in Endpoint, ident \in Ident : Get(w, endpoint, ident)
          \/ Decide(w)
          \/ Set(w)
          \/ Lose(w)
    \/ RedisDown
    \/ RedisUp
    \/ Tick

Spec == Init /\ [][Next]_vars

-----------------------------------------------------------------------------
(* Properties                                                              *)

Entry == [history : Seq(Nat), expires : Nat]

TypeOK ==
    /\ clock \in 0 .. MaxTime
    /\ up \in BOOLEAN
    /\ outages \in 0 .. MaxOutages
    /\ cache \in [Bucket -> Entry]
    /\ pc \in [Worker -> {"idle", "timer", "set"}]
    /\ DOMAIN check = Worker
    /\ \A w \in Worker : IF pc[w] = "idle" THEN check[w] = NoCheck ELSE check[w] \in Check
    /\ allowed \in [Bucket -> [0 .. MaxTime -> Nat]]
    /\ blind \in [Bucket -> Nat \cup {None}]
    /\ checks \in 0 .. MaxChecks

\* The lists stay sorted, newest first, however checks overlap: only then
\* does popping from the end drop every entry that is too old.  They never
\* hold more than the rate.
NewestFirst ==
    \A b \in Bucket :
        /\ Len(cache[b].history) <= Rate
        /\ \A i, j \in DOMAIN cache[b].history :
              i <= j => cache[b].history[i] >= cache[b].history[j]

InPeriod == {t \in 0 .. MaxTime : clock - Duration < t /\ t <= clock}

\* The checks a limit has let through in the last period, those of one time
\* numbered.
Passes(limit) == UNION {{t} \X (1 .. allowed[limit][t]) : t \in InPeriod}

Recent(limit) == Cardinality(Passes(limit))

\* A client is refused only if its limit has let it through as often as the
\* rate allows in the last period: not for refused attempts, not for those
\* of other clients or of the other limit, not after the period, and not
\* because of an outage.
RefusedOnlyOverRate ==
    [][\A w \in Worker : pc[w] = "timer" /\ pc'[w] = "idle" =>
          Recent(check[w].limit) >= Rate]_vars

\* A limit lets more than its rate through only if its list lost an entry in
\* the period: because a check wrote over what another had written since, or
\* because Redis was down or came back empty.
ExceededOnlyIfBlind ==
    \A limit \in Bucket : Recent(limit) > Rate => blind[limit] # None
=============================================================================
