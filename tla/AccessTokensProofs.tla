------------------------- MODULE AccessTokensProofs -------------------------
(***************************************************************************)
(* Proofs about the blocklist, for any number of tokens, users and calls,  *)
(* any access lifetime and any resolution of the clock.                    *)
(***************************************************************************)
EXTENDS AccessTokens, TLAPS

\* What a logout's call carries is enough for the token's remaining life,
\* however late it is written.
PendingBlocks ==
    \A c \in Call :
      /\ pc[c] = "authenticated" => call[c].kind = "block_token"
      /\ call[c].kind = "block_token" /\ pc[c] # "idle" =>
            /\ call[c].jti \in Jti
            /\ Issued(call[c].jti)
            /\ pc[c] = "write" => ExpiresAt(call[c].jti) <= now.sec + call[c].ttl

\* A key Redis still has outlives the token it blocks.
DoneBlocks ==
    \A c \in Call : pc[c] = "done" /\ call[c].kind = "block_token" =>
        \/ ExpiresAt(call[c].jti) <= jtiUntil[call[c].jti].sec
        \/ ExpiresAt(call[c].jti) <= now.sec

\* A revocation is written after its clock was read, with the lifetime of an
\* access token.
PendingRevocations ==
    \A c \in Call : call[c].kind = "revoke_user" /\ pc[c] # "idle" =>
        /\ call[c].user \in User
        /\ call[c].at.sec <= now.sec
        /\ pc[c] = "write" => call[c].ttl = AccessTTL

\* The epoch of a user was written by a revocation Redis has not lost, and lives as
\* long as the tokens issued before any of them.
Written(u) ==
    \E d \in Call : Revoked(d) /\ call[d].user = u /\ epoch[u] = Ceil(call[d].at)

Epochs ==
    /\ \A c \in Call : Revoked(c) =>
          /\ call[c].at.sec + AccessTTL <= epochUntil[call[c].user].sec
          /\ Written(call[c].user)
    /\ \A u \in User : epoch[u] # 0 => Written(u)

Held == TypeOK /\ PendingBlocks /\ DoneBlocks /\ PendingRevocations /\ Epochs

-----------------------------------------------------------------------------
LEMMA HeldInit == Init => Held
BY NoneAssumption, TicksAssumption
   DEF Init, Held, TypeOK, PendingBlocks, DoneBlocks, PendingRevocations, Epochs,
       Written, Revoked, Instant, Epoch, Token, Unissued, NoCall, Arguments,
       CallKind, PC

\* Filling in the remaining life leaves the other arguments alone.
LEMMA WithTtl ==
    ASSUME NEW a \in Arguments, NEW n \in Nat
    PROVE  LET b == [a EXCEPT !.ttl = n]
           IN  /\ b \in Arguments
               /\ b.kind = a.kind /\ b.jti = a.jti /\ b.user = a.user /\ b.at = a.at
               /\ b.ttl = n
BY DEF Arguments

LEMMA TypeNext == TypeOK /\ PendingBlocks /\ [Next]_vars => TypeOK'
<1>. SUFFICES ASSUME TypeOK, PendingBlocks, [Next]_vars PROVE TypeOK'
  OBVIOUS
<1>. USE TicksAssumption, AccessTTLAssumption
<1>1. ASSUME NEW j \in Jti, NEW u \in User, Issue(j, u) PROVE TypeOK'
  BY <1>1 DEF Issue, TypeOK, redis, Token
<1>2. ASSUME NEW c \in Call, NEW j \in Jti, LogoutAuthenticated(c, j) PROVE TypeOK'
  <2>1. Epoch \in Instant
    BY DEF Epoch, Instant
  <2>2. [kind |-> "block_token", jti |-> j, user |-> None, at |-> Epoch, ttl |-> 0]
            \in Arguments
    BY <2>1 DEF Arguments, CallKind
  <2>. QED BY <1>2, <2>2 DEF LogoutAuthenticated, TypeOK, redis, PC
<1>3. ASSUME NEW c \in Call, NEW u \in User, RevokeUser(c, u) PROVE TypeOK'
  BY <1>3 DEF RevokeUser, TypeOK, redis, Arguments, CallKind, PC
<1>4. ASSUME NEW c \in Call, LogoutRemaining(c) PROVE TypeOK'
  <2>1. Remaining(call[c].jti) \in Nat
    <3>1. call[c].jti \in Jti
      BY <1>4 DEF PendingBlocks, LogoutRemaining
    <3>2. ExpiresAt(call[c].jti) \in Nat /\ now.sec \in Nat
      BY <3>1 DEF ExpiresAt, TypeOK, Token, Instant
    <3>. QED BY <3>2 DEF Remaining
  <2>2. /\ call[c] \in Arguments
        /\ call' = [call EXCEPT ![c] = [call[c] EXCEPT !.ttl = Remaining(call[c].jti)]]
    BY <1>4 DEF LogoutRemaining, TypeOK
  <2>3. call' \in [Call -> Arguments]
    BY <2>1, <2>2, WithTtl DEF TypeOK
  <2>. QED BY <1>4, <2>3 DEF LogoutRemaining, TypeOK, redis, PC
<1>5. ASSUME NEW c \in Call, Write(c) PROVE TypeOK'
  <2>1. /\ call[c] \in Arguments
        /\ After(now, call[c].ttl) \in Instant
        /\ Ceil(call[c].at) \in Nat
    BY DEF TypeOK, Arguments, After, Ceil, Instant
  <2>2. jtiUntil' \in [Jti -> Instant]
    BY <1>5, <2>1 DEF Write, TypeOK
  <2>3. epoch' \in [User -> Nat]
    BY <1>5, <2>1 DEF Write, TypeOK
  <2>4. epochUntil' \in [User -> Instant]
    BY <1>5, <2>1 DEF Write, TypeOK
  <2>5. pc' \in [Call -> PC]
    BY <1>5 DEF Write, TypeOK, PC
  <2>. QED BY <1>5, <2>2, <2>3, <2>4, <2>5 DEF Write, TypeOK
<1>6. ASSUME NEW c \in Call, Abandon(c) PROVE TypeOK'
  BY <1>6 DEF Abandon, TypeOK, redis, PC
<1>7. CASE RedisDown
  <2>1. outages' \in Nat
    BY <1>7 DEF RedisDown, TypeOK
  <2>. QED BY <1>7, <2>1, Zenon DEF RedisDown, TypeOK, redis
<1>8. CASE RedisUp
  BY <1>8 DEF RedisUp, TypeOK, redis, PC, Instant, Epoch
<1>9. CASE Tick
  BY <1>9 DEF Tick, TypeOK, redis, Instant
<1>10. CASE UNCHANGED vars
  BY <1>10 DEF vars, TypeOK
<1>. QED BY <1>1, <1>2, <1>3, <1>4, <1>5, <1>6, <1>7, <1>8, <1>9, <1>10 DEF Next

\* Tokens issued keep their claims.
LEMMA ClaimsStay ==
    ASSUME TypeOK, [Next]_vars, NEW j \in Jti, Issued(j)
    PROVE  Issued(j)' /\ token'[j] = token[j] /\ ExpiresAt(j)' = ExpiresAt(j)
<1>1. token'[j] = token[j]
  BY DEF TypeOK, Next, vars, Issue, LogoutAuthenticated, LogoutRemaining, RevokeUser,
         Write, Abandon, RedisDown, RedisUp, Tick, Issued
<1>. QED BY <1>1 DEF Issued, ExpiresAt

\* The clock does not run backwards.
LEMMA ClockSteps ==
    ASSUME TypeOK, [Next]_vars
    PROVE  now.sec \in Nat /\ now'.sec \in Nat /\ now.sec <= now'.sec
<1>1. now \in Instant /\ now.sec \in Nat
  BY DEF TypeOK, Instant
<1>2. CASE Tick
  BY <1>1, <1>2 DEF Tick, Instant
<1>3. CASE now' = now
  BY <1>1, <1>3
<1>. QED BY <1>2, <1>3 DEF Next, vars, Issue, LogoutAuthenticated, LogoutRemaining,
            RevokeUser, Write, Abandon, RedisDown, RedisUp

\* What a step does to a call.
LEMMA CallSteps ==
    ASSUME TypeOK, PendingBlocks, [Next]_vars, NEW c \in Call
    PROVE  \/ pc'[c] = pc[c] /\ call'[c] = call[c]
           \/ /\ pc'[c] = "authenticated" /\ \E j \in Jti : Issued(j) /\ call'[c].jti = j
              /\ call'[c].kind = "block_token"
           \/ /\ pc'[c] = "write" /\ call'[c].kind = "revoke_user"
              /\ call'[c].user \in User /\ call'[c].at = now /\ call'[c].ttl = AccessTTL
              /\ now' = now
           \/ /\ pc[c] = "authenticated" /\ pc'[c] = "write" /\ now' = now
              /\ call'[c].kind = call[c].kind /\ call'[c].jti = call[c].jti
              /\ call'[c].user = call[c].user /\ call'[c].at = call[c].at
              /\ call'[c].ttl = Remaining(call[c].jti)
           \/ pc[c] = "write" /\ pc'[c] = "done" /\ call' = call /\ Write(c) /\ up
           \/ pc[c] # "idle" /\ pc'[c] = "lost" /\ call'[c] = call[c]
<1>1. ASSUME NEW d \in Call, NEW j \in Jti, LogoutAuthenticated(d, j)
      PROVE  \/ pc'[c] = pc[c] /\ call'[c] = call[c]
             \/ /\ pc'[c] = "authenticated" /\ Issued(j) /\ call'[c].jti = j
                /\ call'[c].kind = "block_token"
  BY <1>1 DEF LogoutAuthenticated, TypeOK, Accepts, Decodes
<1>2. ASSUME NEW d \in Call, NEW u \in User, RevokeUser(d, u)
      PROVE  \/ pc'[c] = pc[c] /\ call'[c] = call[c]
             \/ /\ pc'[c] = "write" /\ call'[c].kind = "revoke_user"
                /\ call'[c].user \in User /\ call'[c].at = now /\ call'[c].ttl = AccessTTL
                /\ now' = now
  BY <1>2 DEF RevokeUser, TypeOK
<1>3. ASSUME NEW d \in Call, LogoutRemaining(d)
      PROVE  \/ pc'[c] = pc[c] /\ call'[c] = call[c]
             \/ /\ pc[c] = "authenticated" /\ pc'[c] = "write" /\ now' = now
                /\ call'[c].kind = call[c].kind /\ call'[c].jti = call[c].jti
                /\ call'[c].user = call[c].user /\ call'[c].at = call[c].at
                /\ call'[c].ttl = Remaining(call[c].jti)
  <2>1. CASE c # d
    BY <1>3, <2>1 DEF LogoutRemaining, TypeOK
  <2>2. CASE c = d
    <3>1. /\ call[c] \in Arguments
          /\ call'[c] = [call[c] EXCEPT !.ttl = Remaining(call[c].jti)]
          /\ pc[c] = "authenticated" /\ pc'[c] = "write" /\ now' = now
      BY <1>3, <2>2 DEF LogoutRemaining, TypeOK
    <3>. QED BY <3>1 DEF Arguments
  <2>. QED BY <2>1, <2>2
<1>4. ASSUME NEW d \in Call, Write(d)
      PROVE  \/ pc'[c] = pc[c] /\ call'[c] = call[c]
             \/ pc[c] = "write" /\ pc'[c] = "done" /\ call' = call /\ Write(c) /\ up
             \/ pc[c] # "idle" /\ pc'[c] = "lost" /\ call'[c] = call[c]
  <2>1. CASE c # d
    BY <1>4, <2>1 DEF Write, TypeOK
  <2>2. CASE c = d
    <3>1. pc[c] = "write" /\ call' = call /\ pc'[c] = IF up THEN "done" ELSE "lost"
      BY <1>4, <2>2 DEF Write, TypeOK
    <3>. QED BY <1>4, <2>2, <3>1
  <2>. QED BY <2>1, <2>2
<1>5. ASSUME NEW d \in Call, Abandon(d)
      PROVE  \/ pc'[c] = pc[c] /\ call'[c] = call[c]
             \/ pc[c] # "idle" /\ pc'[c] = "lost" /\ call'[c] = call[c]
  BY <1>5 DEF Abandon, TypeOK
<1>6. CASE RedisUp
  BY <1>6 DEF RedisUp, TypeOK
<1>7. CASE UNCHANGED <<pc, call>>
  BY <1>7
<1>. QED BY <1>1, <1>2, <1>3, <1>4, <1>5, <1>6, <1>7
         DEF Next, vars, Issue, RedisDown, Tick

LEMMA PendingNext ==
    TypeOK /\ PendingBlocks /\ PendingRevocations /\ [Next]_vars =>
        PendingBlocks' /\ PendingRevocations'
<1>. SUFFICES ASSUME TypeOK, PendingBlocks, PendingRevocations, [Next]_vars
              PROVE  PendingBlocks' /\ PendingRevocations'
  OBVIOUS
<1>1. TypeOK'
  BY TypeNext
<1>2. now.sec \in Nat /\ now'.sec \in Nat /\ now.sec <= now'.sec
  BY ClockSteps
<1>3. ASSUME NEW j \in Jti, Issued(j)
      PROVE  Issued(j)' /\ ExpiresAt(j)' = ExpiresAt(j) /\ ExpiresAt(j) \in Nat
  BY <1>3, ClaimsStay, AccessTTLAssumption DEF ExpiresAt, TypeOK, Token, Instant
<1>4. ASSUME NEW c \in Call, call'[c].kind = "block_token", pc'[c] # "idle"
      PROVE  \E j \in Jti : /\ call'[c].jti = j
                            /\ Issued(j)'
                            /\ pc'[c] = "write" => ExpiresAt(j)' <= now'.sec + call'[c].ttl
  <2>1. CASE pc'[c] = "authenticated" /\ \E j \in Jti : Issued(j) /\ call'[c].jti = j
    BY <1>3, <2>1
  <2>2. ASSUME NEW j \in Jti, call[c].jti = j, call'[c].jti = j, Issued(j)
        PROVE  pc'[c] = "write" => ExpiresAt(j)' <= now'.sec + call'[c].ttl
    <3>1. /\ ExpiresAt(j)' = ExpiresAt(j) /\ ExpiresAt(j) \in Nat
          /\ call[c].ttl \in Nat /\ call'[c].kind = "block_token"
      BY <1>3, <1>4, <2>2 DEF TypeOK, Arguments
    <3>2. CASE pc'[c] = pc[c] /\ call'[c] = call[c]
      <4>1. pc'[c] = "write" => ExpiresAt(j) <= now.sec + call[c].ttl
        BY <1>4, <2>2, <3>2 DEF PendingBlocks
      <4>. QED BY <1>2, <3>1, <3>2, <4>1
    <3>3. CASE call'[c].ttl = Remaining(j) /\ now' = now
      BY <1>2, <3>1, <3>3 DEF Remaining
    <3>. QED BY <2>2, <3>1, <3>2, <3>3, CallSteps
  <2>3. CASE \E j \in Jti : call[c].jti = j /\ call'[c].jti = j /\ Issued(j)
    BY <1>3, <2>2, <2>3
  <2>. QED BY <1>4, <2>1, <2>3, CallSteps DEF PendingBlocks
<1>5. PendingBlocks'
  <2>1. \A c \in Call : pc'[c] = "authenticated" => call'[c].kind = "block_token"
    BY CallSteps DEF PendingBlocks
  <2>. QED BY <1>4, <2>1 DEF PendingBlocks, Issued, ExpiresAt
<1>6. ASSUME NEW c \in Call, call'[c].kind = "revoke_user", pc'[c] # "idle"
      PROVE  /\ call'[c].user \in User
             /\ call'[c].at.sec <= now'.sec
             /\ pc'[c] = "write" => call'[c].ttl = AccessTTL
  <2>1. call[c].at.sec \in Nat
    BY DEF TypeOK, Arguments, Instant
  <2>2. pc[c] = "authenticated" => call[c].kind = "block_token"
    BY DEF PendingBlocks
  <2>3. CASE call'[c].at = now /\ call'[c].ttl = AccessTTL /\ call'[c].user \in User
    BY <1>2, <2>3
  <2>4. CASE /\ call'[c] = call[c] /\ pc[c] # "idle"
             /\ pc'[c] = "write" => pc[c] = "write"
    BY <1>2, <1>6, <2>1, <2>4 DEF PendingRevocations
  <2>. QED BY <1>6, <2>2, <2>3, <2>4, CallSteps
<1>. QED BY <1>5, <1>6 DEF PendingRevocations

-----------------------------------------------------------------------------
(* Logged-out tokens                                                       *)

\* A key is only replaced by one that outlives its token, and only lost with
\* every call that wrote one.
LEMMA DoneBlocksNext ==
    TypeOK /\ PendingBlocks /\ DoneBlocks /\ [Next]_vars => DoneBlocks'
<1>. SUFFICES ASSUME TypeOK, PendingBlocks, DoneBlocks, [Next]_vars,
                     NEW c \in Call, pc'[c] = "done", call'[c].kind = "block_token"
              PROVE  \/ ExpiresAt(call[c].jti)' <= (jtiUntil[call[c].jti].sec)'
                     \/ ExpiresAt(call[c].jti)' <= now'.sec
  BY DEF DoneBlocks
<1>1. now.sec \in Nat /\ now'.sec \in Nat /\ now.sec <= now'.sec
  BY ClockSteps
<1>2. PICK j \in Jti : /\ call[c].jti = j /\ call'[c].jti = j
                       /\ Issued(j) /\ call[c].kind = "block_token"
  BY CallSteps DEF PendingBlocks
<1>3. ExpiresAt(j)' = ExpiresAt(j) /\ ExpiresAt(j) \in Nat
  BY <1>2, ClaimsStay, AccessTTLAssumption DEF ExpiresAt, TypeOK, Token, Instant
<1>4. \/ ExpiresAt(j) <= jtiUntil'[j].sec
      \/ ExpiresAt(j) <= now'.sec
  <2>1. ASSUME NEW d \in Call, Write(d), up, call[d].kind = "block_token", call[d].jti = j
        PROVE  ExpiresAt(j) <= jtiUntil'[j].sec \/ ExpiresAt(j) <= now'.sec
    <3>1. /\ ExpiresAt(j) <= now.sec + call[d].ttl /\ call[d].ttl \in Nat
          /\ now' = now
      BY <2>1 DEF Write, PendingBlocks, TypeOK, Arguments
    <3>2. CASE call[d].ttl > 0
      <4>1. jtiUntil'[j] = After(now, call[d].ttl)
        BY <2>1, <3>2 DEF Write, TypeOK
      <4>. QED BY <3>1, <4>1 DEF After
    <3>3. CASE call[d].ttl = 0
      BY <1>1, <1>3, <3>1, <3>3
    <3>. QED BY <3>1, <3>2, <3>3
  <2>2. CASE pc[c] = "done" /\ jtiUntil'[j] = jtiUntil[j]
    <3>1. ExpiresAt(j) <= jtiUntil[j].sec \/ ExpiresAt(j) <= now.sec
      BY <1>2, <2>2 DEF DoneBlocks
    <3>. QED BY <1>1, <1>3, <2>2, <3>1
  <2>3. CASE pc[c] # "done"
    BY <1>2, <2>1, <2>3, CallSteps
  <2>4. CASE pc[c] = "done"
    <3>1. ASSUME NEW d \in Call, Write(d)
          PROVE  \/ jtiUntil'[j] = jtiUntil[j]
                 \/ up /\ call[d].kind = "block_token" /\ call[d].jti = j
      BY <3>1 DEF Write, TypeOK
    <3>2. ASSUME RedisUp PROVE jtiUntil' = jtiUntil
      BY <2>4, <3>2 DEF RedisUp, TypeOK, redis
    <3>3. \/ \E d \in Call : Write(d)
          \/ RedisUp
          \/ jtiUntil' = jtiUntil
      BY DEF Next, vars, redis, Issue, LogoutAuthenticated, LogoutRemaining, RevokeUser,
             Abandon, RedisDown, Tick
    <3>4. \/ jtiUntil'[j] = jtiUntil[j]
          \/ \E d \in Call : Write(d) /\ up /\ call[d].kind = "block_token" /\ call[d].jti = j
      BY <3>1, <3>2, <3>3
    <3>. QED BY <2>1, <2>2, <2>4, <3>4
  <2>. QED BY <2>3, <2>4
<1>. QED BY <1>2, <1>3, <1>4

-----------------------------------------------------------------------------
(* Epochs                                                                  *)

\* A revocation counts from its write until Redis loses it.
LEMMA RevokedSteps ==
    ASSUME TypeOK, PendingBlocks, [Next]_vars, ~RedisUp, NEW c \in Call
    PROVE  /\ Revoked(c) => Revoked(c)' /\ call'[c] = call[c]
           /\ Revoked(c)' => \/ Revoked(c)
                             \/ Write(c) /\ up /\ call[c].kind = "revoke_user" /\ call'[c] = call[c]
<1>1. ASSUME pc[c] = "done" PROVE pc'[c] = "done" /\ call'[c] = call[c]
  BY <1>1 DEF Next, vars, Issue, LogoutAuthenticated, LogoutRemaining, RevokeUser,
              Write, Abandon, RedisDown, Tick, TypeOK
<1>. QED BY <1>1, CallSteps DEF Revoked

LEMMA EpochsNext ==
    TypeOK /\ PendingBlocks /\ PendingRevocations /\ Epochs /\ [Next]_vars => Epochs'
<1>. SUFFICES ASSUME TypeOK, PendingBlocks, PendingRevocations, Epochs, [Next]_vars
              PROVE  Epochs'
  OBVIOUS
<1>1. CASE RedisUp /\ ~UNCHANGED <<redis, pc>>
  <2>1. /\ \A u \in User : epoch'[u] = 0
        /\ \A c \in Call : pc'[c] # "done"
    BY <1>1 DEF RedisUp, TypeOK
  <2>. QED BY <2>1 DEF Epochs, Revoked
<1>2. ASSUME NEW d \in Call, Write(d), up, call[d].kind = "revoke_user"
      PROVE  Epochs'
  <2>1. PICK u \in User : call[d].user = u
    BY <1>2 DEF PendingRevocations, Write
  <2>2. /\ epoch' = [epoch EXCEPT ![u] = Ceil(call[d].at)]
        /\ epochUntil' = [epochUntil EXCEPT ![u] = After(now, AccessTTL)]
        /\ call' = call /\ now' = now
        /\ call[d].at.sec <= now.sec
        /\ Revoked(d)' /\ ~Revoked(d)
    <3>1. pc[d] = "write" /\ call[d].ttl = AccessTTL /\ call[d].at.sec <= now.sec
      BY <1>2 DEF Write, PendingRevocations
    <3>2. /\ epoch' = [epoch EXCEPT ![u] = Ceil(call[d].at)]
          /\ epochUntil' = [epochUntil EXCEPT ![u] = After(now, AccessTTL)]
          /\ call' = call /\ now' = now /\ pc'[d] = "done"
      BY <1>2, <2>1, <3>1, AccessTTLAssumption DEF Write, TypeOK
    <3>. QED BY <1>2, <3>1, <3>2 DEF Revoked
  <2>3. /\ \A c \in Call : Revoked(c) => Revoked(c)'
        /\ \A c \in Call : Revoked(c)' => c = d \/ Revoked(c)
    BY <1>2 DEF Write, TypeOK, Revoked
  <2>4. Written(u)'
    BY <2>1, <2>2 DEF Written, TypeOK
  <2>5. ASSUME NEW v \in User, v # u
        PROVE  epoch'[v] = epoch[v] /\ epochUntil'[v] = epochUntil[v] /\ (Written(v) => Written(v)')
    BY <2>2, <2>3, <2>5 DEF Written, TypeOK
  <2>6. ASSUME NEW c \in Call, Revoked(c)'
        PROVE  /\ (call[c].at.sec + AccessTTL <= epochUntil[call[c].user].sec)'
               /\ Written(call[c].user)'
    <3>1. PICK v \in User : call[c].user = v
      BY <2>1, <2>3, <2>6 DEF PendingRevocations, Revoked
    <3>2. CASE v = u
      <4>1. call[c].at.sec <= now.sec /\ call[c].at.sec \in Nat /\ now.sec \in Nat
        BY <2>2, <2>3, <2>6 DEF PendingRevocations, Revoked, TypeOK, Arguments, Instant
      <4>2. epochUntil'[u].sec = now.sec + AccessTTL
        BY <2>2 DEF After, TypeOK
      <4>. QED BY <2>2, <2>4, <3>1, <3>2, <4>1, <4>2, AccessTTLAssumption
    <3>3. CASE v # u
      BY <2>1, <2>2, <2>3, <2>5, <2>6, <3>1, <3>3 DEF Epochs
    <3>. QED BY <3>2, <3>3
  <2>7. \A v \in User : epoch'[v] # 0 => Written(v)'
    BY <2>4, <2>5 DEF Epochs
  <2>. QED BY <2>6, <2>7 DEF Epochs
<1>3. ASSUME /\ epoch' = epoch /\ epochUntil' = epochUntil
             /\ \A c \in Call : Revoked(c) => Revoked(c)' /\ call'[c] = call[c]
             /\ \A c \in Call : Revoked(c)' => Revoked(c)
      PROVE  Epochs'
  <2>1. \A u \in User : Written(u) => Written(u)'
    BY <1>3 DEF Written
  <2>2. \A c \in Call : Revoked(c) => call[c].user \in User
    BY DEF PendingRevocations, Revoked
  <2>. QED BY <1>3, <2>1, <2>2 DEF Epochs
<1>4. CASE ~RedisUp /\ ~(\E d \in Call : Write(d) /\ up /\ call[d].kind = "revoke_user")
  <2>1. epoch' = epoch /\ epochUntil' = epochUntil
    BY <1>4 DEF Next, vars, redis, Issue, LogoutAuthenticated, LogoutRemaining,
                RevokeUser, Write, Abandon, RedisDown, Tick
  <2>. QED BY <1>3, <1>4, <2>1, RevokedSteps
<1>5. CASE RedisUp /\ UNCHANGED <<redis, pc>>
  BY <1>3, <1>5 DEF RedisUp, redis, Revoked
<1>. QED BY <1>1, <1>2, <1>4, <1>5

LEMMA HeldInvariant == Spec => []Held
<1>1. Held /\ [Next]_vars => Held'
  BY TypeNext, PendingNext, DoneBlocksNext, EpochsNext DEF Held
<1>. QED BY <1>1, HeldInit, PTL DEF Spec

-----------------------------------------------------------------------------
(* Theorems                                                                *)

\* Every variable keeps its type, for any access lifetime and any calls.
THEOREM AccessTypeCorrect == Spec => []TypeOK
BY HeldInvariant, PTL DEF Held

\* A logged-out access token is refused until it expires, however late the
\* logout reaches Redis and however many logouts of one token overlap.
THEOREM LogoutHolds == Spec => []LoggedOutUntilExpiry
<1>1. Held => LoggedOutUntilExpiry
  <2>. SUFFICES ASSUME Held, up, NEW c \in Call, pc[c] = "done",
                       call[c].kind = "block_token", Accepts(call[c].jti)
                PROVE  FALSE
    BY DEF LoggedOutUntilExpiry
  <2>1. PICK j \in Jti : j = call[c].jti
    BY DEF Held, PendingBlocks
  <2>2. /\ now.sec \in Nat /\ jtiUntil[j].sec \in Nat /\ ExpiresAt(j) \in Nat
    BY AccessTTLAssumption DEF Held, TypeOK, Instant, ExpiresAt, Token
  <2>3. now.sec < ExpiresAt(j) /\ ~Before(now, jtiUntil[j])
    BY <2>1 DEF Accepts, Decodes, IsBlocked, JtiBlocked
  <2>4. ExpiresAt(j) <= jtiUntil[j].sec \/ ExpiresAt(j) <= now.sec
    BY <2>1 DEF Held, DoneBlocks
  <2>. QED BY <2>2, <2>3, <2>4 DEF Before
<1>. QED BY <1>1, HeldInvariant, PTL

\* A revocation refuses the tokens issued before it until they expire,
\* unless a revocation that had read an earlier clock wrote the epoch too.
THEOREM RevocationHolds == Spec => []RevokedUntilExpiry
<1>1. Held => RevokedUntilExpiry
  <2>. SUFFICES ASSUME Held, up, NEW c \in Call, NEW j \in Jti, Revoked(c),
                       token[j].user = call[c].user,
                       Before(token[j].issued, call[c].at), Accepts(j)
                PROVE  \E d \in Call : /\ Revoked(d)
                                       /\ call[d].user = call[c].user
                                       /\ Before(call[d].at, call[c].at)
    BY DEF RevokedUntilExpiry
  <2>. DEFINE u == call[c].user
  <2>1. u \in User
    BY DEF Held, PendingRevocations, Revoked
  <2>2. PICK d \in Call : Revoked(d) /\ call[d].user = u /\ epoch[u] = Ceil(call[d].at)
    BY DEF Held, Epochs, Written
  <2>3. /\ now \in Instant /\ epochUntil[u] \in Instant /\ token[j].issued \in Instant
        /\ call[c].at \in Instant /\ call[d].at \in Instant
    BY <2>1 DEF Held, TypeOK, Token, Arguments
  <2>4. call[c].at.sec + AccessTTL <= epochUntil[u].sec
    BY DEF Held, Epochs
  <2>5. /\ now.sec < token[j].issued.sec + AccessTTL
        /\ ~(Before(now, epochUntil[u]) /\ token[j].issued.sec < epoch[u])
    BY DEF Accepts, Decodes, ExpiresAt, IsBlocked, EpochBlocks, IssuedAt
  <2>6. Before(now, epochUntil[u])
    BY <2>3, <2>4, <2>5, AccessTTLAssumption DEF Before, Instant
  <2>7. Ceil(call[d].at) <= token[j].issued.sec
    BY <2>2, <2>3, <2>5, <2>6 DEF Ceil, Instant
  <2>8. Before(call[d].at, call[c].at)
    BY <2>3, <2>7, TicksAssumption DEF Ceil, Before, Instant
  <2>. QED BY <2>2, <2>8
<1>. QED BY <1>1, HeldInvariant, PTL

\* The epoch refuses only tokens issued less than a second after a
\* revocation of their user that Redis has not lost.
THEOREM RefusalsAreRevocations == Spec => []RefusedOnlyIfRevoked
<1>1. Held => RefusedOnlyIfRevoked
  <2>. SUFFICES ASSUME Held, NEW j \in Jti, Issued(j), EpochBlocks(j)
                PROVE  \E c \in Call : /\ Revoked(c)
                                       /\ call[c].user = token[j].user
                                       /\ Before(token[j].issued, After(call[c].at, 1))
    BY DEF RefusedOnlyIfRevoked
  <2>. DEFINE u == token[j].user
  <2>1. u \in User /\ token[j].issued \in Instant
    BY DEF Held, TypeOK, Token, Issued
  <2>2. token[j].issued.sec < epoch[u] /\ epoch[u] \in Nat
    BY <2>1 DEF EpochBlocks, IssuedAt, Held, TypeOK
  <2>3. epoch[u] # 0
    BY <2>1, <2>2 DEF Instant
  <2>4. PICK c \in Call : Revoked(c) /\ call[c].user = u /\ epoch[u] = Ceil(call[c].at)
    BY <2>1, <2>3 DEF Held, Epochs, Written
  <2>5. call[c].at \in Instant
    BY DEF Held, TypeOK, Arguments
  <2>6. Before(token[j].issued, After(call[c].at, 1))
    BY <2>1, <2>2, <2>4, <2>5 DEF Ceil, Before, After, Instant
  <2>. QED BY <2>4, <2>6
<1>. QED BY <1>1, HeldInvariant, PTL
=============================================================================
