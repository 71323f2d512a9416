-------------------------- MODULE AuditTrailProofs --------------------------
(***************************************************************************)
(* Theorems about AuditTrail, for any number of requests, emails and       *)
(* accounts and any size of page: what the log tells, whatever the         *)
(* requests that write it do to the accounts meanwhile.                    *)
(***************************************************************************)
EXTENDS AuditTrail, FiniteSetTheorems, SequenceTheorems, TLAPS

-----------------------------------------------------------------------------
(* The invariant.                                                          *)

\* A request that has begun and not ended.
Active(r) == pc[r] \notin {"idle", "done"}

\* The actor of a request is an account, of which everything it has been
\* since the request began is known; an email at hand is one of its.
Acts(r) ==
    Active(r) =>
        /\ frame[r].principal \in Ids \cup {None}
        /\ frame[r].actor \in Ids \cup {None}
        /\ \A u \in Ids : <<u, accounts[u]>> \in since[r]
        /\ frame[r].email # None => <<frame[r].actor, frame[r].email>> \in since[r]

\* So is the email that is about to be written, unless its lookup failed or
\* there was none.
Drafts(r) ==
    pc[r] = "insert" /\ frame[r].actor # None =>
        IF frame[r].draft.email = None
        THEN frame[r].draft.failed \/ <<frame[r].actor, None>> \in since[r]
        ELSE <<frame[r].actor, frame[r].draft.email>> \in since[r]

\* A request works through the events it has been given, no two alike.
Paced(r) ==
    /\ pc[r] \in {"act", "reread"} => frame[r].next = 1
    /\ pc[r] = "act" => frame[r].calls = <<>>
    /\ pc[r] = "reread" =>
          \E u \in Ids : frame[r].calls = <<[action |-> "user.update", target |-> u]>>
    /\ pc[r] \in {"record", "insert"} => frame[r].next \in DOMAIN frame[r].calls
    /\ pc[r] = "respond" => frame[r].next = Len(frame[r].calls) + 1
    /\ \A i, j \in DOMAIN frame[r].calls :
          frame[r].calls[i].action = frame[r].calls[j].action => i = j

\* The events that tell of a call.
Telling(r, call) ==
    {e \in log : e.by = r /\ e.action = call.action /\ e.target = call.target}

\* Those it has come to are told, once, unless an INSERT failed; the others
\* are not.
Tells(r) ==
    /\ pc[r] \in {"idle", "act", "reread"} => \A e \in log : e.by # r
    /\ Active(r) /\ ~frame[r].dropped =>
          \A i \in DOMAIN frame[r].calls :
              IF i < frame[r].next
              THEN \E x \in log : Telling(r, frame[r].calls[i]) = {x}
              ELSE Telling(r, frame[r].calls[i]) = {}

\* What a request is about to tell.
Deed(r) == frame[r].calls[frame[r].next]

\* The events that tell of an account's birth, and of its death.
Births == {"register", "user.create"}
Deaths == {"user.delete"}

\* Whether what it is about to tell is one of these.
ToTell(r, actions) == pc[r] \in {"record", "insert"} /\ Deed(r).action \in actions

\* The account whose birth it is about to tell.
MadeBy(r) == IF Deed(r).action = "register" THEN frame[r].actor ELSE Deed(r).target

\* An account that was, and is deleted.
Gone(u) == u \in Ids /\ accounts[u] = None

\* A birth or a death is all that its request has to tell.
Alone(r) ==
    \A i \in DOMAIN frame[r].calls :
        frame[r].calls[i].action \in Births \cup Deaths => Len(frame[r].calls) = 1

\* While it is still to be told it is told nowhere else.
Untold(r) ==
    /\ Alone(r)
    /\ ToTell(r, Births) =>
          /\ MadeBy(r) \in Ids
          /\ \A e \in Creations : Made(e) # MadeBy(r)
          /\ \A q \in Request : ToTell(q, Births) /\ MadeBy(q) = MadeBy(r) => q = r
    /\ ToTell(r, Deaths) =>
          /\ Gone(Deed(r).target)
          /\ \A e \in Deletions : e.target # Deed(r).target
          /\ \A q \in Request :
                ToTell(q, Deaths) /\ Deed(q).target = Deed(r).target => q = r

\* The log tells of each birth and death once.
Told ==
    /\ \A e \in Creations : Made(e) \in Ids
    /\ \A d, e \in Creations : Made(d) = Made(e) => d = e
    /\ \A e \in Deletions : Gone(e.target)
    /\ \A d, e \in Deletions : d.target = e.target => d = e

\* The times taken so far are bounded, and the log is finite.
Dated ==
    /\ IsFiniteSet(log)
    /\ \E n \in Nat : /\ \A e \in log : e.at <= n
                      /\ \A r \in Request : frame[r].draft.at <= n

\* What types rest on.
Base ==
    /\ TypeOK
    /\ Dated
    /\ \A r \in Request : Acts(r) /\ Paced(r)

\* The inductive invariant.
TrailInv ==
    /\ Base
    /\ Told
    /\ \A r \in Request : Drafts(r) /\ Tells(r) /\ Untold(r)

-----------------------------------------------------------------------------
(* The operators.                                                          *)

\* Lists of events of which no two are alike.
WellFormed(events) ==
    /\ events \in Seq(Call)
    /\ \A i, j \in DOMAIN events : events[i].action = events[j].action => i = j

\* The lists of events there are: none, one or two.
LEMMA NoEvents == WellFormed(<<>>) /\ Len(<<>>) = 0 /\ DOMAIN <<>> = {}
BY DEF WellFormed

LEMMA OneEvent ==
  ASSUME NEW c \in Call
  PROVE  WellFormed(<<c>>) /\ Len(<<c>>) = 1 /\ DOMAIN <<c>> = {1} /\ <<c>>[1] = c
<1>1. <<c>> \in Seq(Call) /\ Len(<<c>>) = 1 /\ <<c>>[1] = c /\ DOMAIN <<c>> = {1}
  OBVIOUS
<1> QED BY <1>1 DEF WellFormed

LEMMA TwoEvents ==
  ASSUME NEW c \in Call, NEW d \in Call, c.action # d.action
  PROVE  /\ WellFormed(<<c, d>>) /\ Len(<<c, d>>) = 2 /\ DOMAIN <<c, d>> = {1, 2}
         /\ <<c, d>>[1] = c /\ <<c, d>>[2] = d
<1>1. /\ <<c, d>> \in Seq(Call) /\ Len(<<c, d>>) = 2 /\ DOMAIN <<c, d>> = {1, 2}
      /\ <<c, d>>[1] = c /\ <<c, d>>[2] = d
  OBVIOUS
<1> QED BY <1>1 DEF WellFormed

\* An event that names no account.
LEMMA PlainIsCall ==
  ASSUME NEW a \in AuditAction
  PROVE  Plain(a) \in Call /\ Plain(a).action = a
BY DEF Plain, Call

\* Ids are users, and every email is somebody's or nobody's.
LEMMA IdsAreUsers ==
  ASSUME TypeOK
  PROVE  /\ Ids \subseteq User /\ Len(accounts) \in Nat /\ DOMAIN accounts = Ids
         /\ \A u \in Ids : accounts[u] \in Email \cup {None}
<1>1. accounts \in Seq(Email \cup {None}) /\ Len(accounts) <= MaxUsers
  BY DEF TypeOK
<1>2. Len(accounts) \in Nat /\ DOMAIN accounts = Ids /\ \A u \in Ids : accounts[u] \in Email \cup {None}
  BY <1>1, LenProperties, ElementOfSeq DEF Ids
<1> QED BY <1>1, <1>2, BoundsAssumption DEF Ids, User

\* What no step does to the accounts: forget one, or bring one back.
AccountsKept ==
    /\ accounts' \in Seq(Email \cup {None}) /\ Len(accounts') <= MaxUsers
    /\ since' \in [Request -> SUBSET (User \X (Email \cup {None}))]
    /\ \A u \in Ids : u \in Ids' /\ (accounts[u] = None => accounts'[u] = None)

\* What is known of the accounts while a request runs.
Known(r) ==
    /\ since[r] \subseteq since'[r]
    /\ \A u \in Ids' : <<u, accounts'[u]>> \in since'[r]

\* A step that leaves the accounts alone, or one that writes them.
LEMMA Staying ==
  ASSUME Base, AccountsStay
  PROVE  AccountsKept /\ \A r \in Request : Active(r) => Known(r)
BY DEF Base, TypeOK, AccountsStay, AccountsKept, Known, Acts, Ids

LEMMA Becoming ==
  ASSUME Base, NEW new \in Seq(Email \cup {None}), Len(new) <= MaxUsers,
         Len(accounts) <= Len(new), \A u \in Ids : accounts[u] = None => new[u] = None,
         Becomes(new)
  PROVE  AccountsKept /\ \A r \in Request : Active(r) => Known(r)
<1>1. /\ accounts' = new /\ DOMAIN new = 1 .. Len(new) /\ Len(new) \in Nat
      /\ since' = [r \in Request |-> IF pc[r] \in {"idle", "done"} THEN {} ELSE
                      since[r] \cup {<<u, new[u]>> : u \in DOMAIN new}]
      /\ Ids' = DOMAIN new
  BY LenProperties DEF Becomes, Ids
<1>2. \A u \in DOMAIN new : u \in User /\ new[u] \in Email \cup {None}
  BY <1>1, ElementOfSeq, BoundsAssumption DEF User
<1>3. Ids \subseteq Ids'
  BY <1>1, IdsAreUsers DEF Base, Ids
<1>4. ASSUME NEW r \in Request
      PROVE  /\ since'[r] \in SUBSET (User \X (Email \cup {None}))
             /\ Active(r) => Known(r)
  <2>1. since[r] \subseteq User \X (Email \cup {None})
    BY DEF Base, TypeOK
  <2> QED BY <1>1, <1>2, <2>1 DEF Active, Known
<1>5. since' \in [Request -> SUBSET (User \X (Email \cup {None}))]
  BY <1>1, <1>4
<1> QED BY <1>1, <1>3, <1>4, <1>5 DEF AccountsKept

\* What Then leaves.
LEMMA ThenIs ==
  ASSUME TypeOK, NEW r \in Request, NEW actor \in User \cup {None},
         NEW email \in Email \cup {None}, NEW events, WellFormed(events),
         Then(r, actor, email, events)
  PROVE  /\ frame' \in [Request -> Frame] /\ pc' \in [Request -> PC]
         /\ frame'[r].actor = actor /\ frame'[r].email = email /\ frame'[r].calls = events
         /\ frame'[r].principal = frame[r].principal /\ frame'[r].next = frame[r].next
         /\ frame'[r].draft = frame[r].draft /\ frame'[r].dropped = frame[r].dropped
         /\ \A q \in Request \ {r} : frame'[q] = frame[q] /\ pc'[q] = pc[q]
         /\ UNCHANGED <<log, reader>>
<1> DEFINE f == [frame[r] EXCEPT !.actor = actor, !.email = email, !.calls = events]
<1>1. frame' = [frame EXCEPT ![r] = f]
  BY DEF Then, TypeOK
<1>2. /\ f \in Frame /\ f.actor = actor /\ f.email = email /\ f.calls = events
      /\ f.principal = frame[r].principal /\ f.next = frame[r].next
      /\ f.draft = frame[r].draft /\ f.dropped = frame[r].dropped
  <2>1. frame[r] \in Frame /\ events \in Seq(Call)
    BY DEF TypeOK, WellFormed
  <2> QED BY <2>1 DEF Frame
<1> HIDE DEF f
<1>3. frame' \in [Request -> Frame] /\ frame'[r] = f
      /\ \A q \in Request \ {r} : frame'[q] = frame[q]
  BY <1>1, <1>2 DEF TypeOK
<1>4. pc' \in [Request -> PC] /\ \A q \in Request \ {r} : pc'[q] = pc[q]
  BY DEF Then, TypeOK, PC
<1> QED BY <1>2, <1>3, <1>4 DEF Then

-----------------------------------------------------------------------------
(* What a use case does: to the accounts, and to the request.              *)

\* The request has an actor, and events to record or none.
Ends(r) ==
    \E actor \in Ids' \cup {None}, email \in Email \cup {None} : \E events :
        /\ WellFormed(events) /\ Then(r, actor, email, events)
        /\ email # None => actor \in Ids' /\ email = accounts'[actor]

\* Or it reads its row again.
Rereads(r) ==
    \E u \in Ids :
        /\ frame' = [frame EXCEPT ![r].calls = <<[action |-> "user.update", target |-> u]>>]
        /\ pc' = [pc EXCEPT ![r] = "reread"]
        /\ UNCHANGED <<log, reader>>

\* The accounts go on, and one request has come to its end or to its reread.
Outcome(r) ==
    /\ AccountsKept /\ \A q \in Request : Active(q) => Known(q)
    /\ pc[r] \in {"act", "reread"}
    /\ Ends(r) \/ Rereads(r)

\* The ways a use case ends.
LEMMA EndsIn ==
  ASSUME Base, AccountsKept, NEW r \in Request, Active(r), NEW u \in Ids
  PROVE  /\ Nothing(r) => Ends(r)
         /\ \A a \in AuditAction : ByPrincipal(r, a, u) => Ends(r)
         /\ \A a \in AuditAction : Then(r, u, None, <<Plain(a)>>) => Ends(r)
         /\ \A a \in AuditAction : Then(r, frame[r].principal, None, <<Plain(a)>>) => Ends(r)
<1>1. /\ frame[r].actor \in Ids' \cup {None} /\ frame[r].principal \in Ids' \cup {None}
      /\ u \in Ids' /\ u \in User
  BY IdsAreUsers DEF Base, Acts, AccountsKept
<1>2. Nothing(r) => Ends(r)
  BY <1>1, NoEvents DEF Nothing, Ends
<1>3. ASSUME NEW a \in AuditAction
      PROVE  /\ WellFormed(<<Plain(a)>>)
             /\ WellFormed(<<[action |-> a, target |-> u]>>)
  <2>1. Plain(a) \in Call /\ [action |-> a, target |-> u] \in Call
    BY <1>1, PlainIsCall DEF Call
  <2> QED BY <2>1, OneEvent
<1> QED BY <1>1, <1>2, <1>3 DEF Ends, ByPrincipal

\* The use cases that leave the accounts alone.
LEMMA QuietOutcomes ==
  ASSUME Base, NEW r \in Request,
         \/ Login(r) \/ Refresh(r) \/ Logout(r) \/ LogoutAll(r) \/ Reread(r)
         \/ \E u \in Ids : AssignRole(r, u)
  PROVE  Outcome(r) /\ AccountsStay
<1>1. AccountsStay /\ pc[r] \in {"act", "reread"} /\ Active(r)
  BY DEF Login, Refresh, Logout, LogoutAll, Reread, AssignRole, Does, Active
<1>2. AccountsKept /\ \A q \in Request : Active(q) => Known(q)
  BY <1>1, Staying
<1>3. Ids' = Ids /\ Ids \subseteq User
  BY <1>1, IdsAreUsers DEF AccountsStay, Ids, Base
<1>4. \A u \in Ids : Exists(u) => accounts[u] \in Email
  BY IdsAreUsers DEF Base, Exists
<1>5. ASSUME Login(r) PROVE Ends(r)
  <2>1. CASE Then(r, None, None, <<Plain("login.failure")>>)
    <3>1. WellFormed(<<Plain("login.failure")>>)
      BY PlainIsCall, OneEvent DEF AuditAction
    <3> QED BY <2>1, <3>1 DEF Ends
  <2>2. ASSUME NEW u \in Ids, Exists(u), Then(r, u, accounts[u], <<Plain("login.success")>>)
        PROVE  Ends(r)
    <3>1. WellFormed(<<Plain("login.success")>>)
      BY PlainIsCall, OneEvent DEF AuditAction
    <3> QED BY <1>1, <1>3, <1>4, <2>2, <3>1 DEF Ends, AccountsStay
  <2> QED BY <1>5, <2>1, <2>2 DEF Login
<1>6. ASSUME Refresh(r) PROVE Ends(r)
  <2>1. CASE Nothing(r)
    <3>1. frame[r].actor \in Ids' \cup {None}
      BY <1>1, <1>3 DEF Base, Acts
    <3> QED BY <2>1, <3>1, NoEvents DEF Nothing, Ends
  <2>2. ASSUME NEW u \in Ids,
               NEW events \in {<<Plain("token.refreshed")>>,
                    <<Plain("token.ip_changed"), Plain("token.refreshed")>>,
                    <<Plain("token.reuse_detected")>>, <<Plain("token.binding_mismatch")>>},
               Then(r, u, None, events)
        PROVE  Ends(r)
    <3>1. /\ Plain("token.refreshed") \in Call /\ Plain("token.ip_changed") \in Call
          /\ Plain("token.reuse_detected") \in Call /\ Plain("token.binding_mismatch") \in Call
          /\ Plain("token.refreshed").action # Plain("token.ip_changed").action
      BY PlainIsCall DEF AuditAction
    <3>2. WellFormed(events)
      BY <3>1, OneEvent, TwoEvents
    <3> QED BY <1>3, <2>2, <3>2 DEF Ends
  <2> QED BY <1>6, <2>1, <2>2 DEF Refresh
<1>7. ASSUME Logout(r) PROVE Ends(r)
  <2>1. CASE Nothing(r)
    <3>1. frame[r].actor \in Ids' \cup {None}
      BY <1>1, <1>3 DEF Base, Acts
    <3> QED BY <2>1, <3>1, NoEvents DEF Nothing, Ends
  <2>2. ASSUME NEW u \in Ids, Then(r, u, None, <<Plain("logout")>>) PROVE Ends(r)
    BY <1>1, <1>2, <2>2, EndsIn DEF AuditAction
  <2> QED BY <1>7, <2>1, <2>2 DEF Logout
<1>8. ASSUME LogoutAll(r) PROVE Ends(r)
  <2>1. frame[r].principal \in Ids' \cup {None} /\ WellFormed(<<Plain("logout")>>)
    BY <1>1, <1>3, PlainIsCall, OneEvent DEF Base, Acts, AuditAction
  <2> QED BY <1>8, <2>1 DEF LogoutAll, Ends
<1>9. ASSUME Reread(r) PROVE Ends(r)
  <2>1. PICK u \in Ids : frame[r].calls = <<[action |-> "user.update", target |-> u]>>
    BY <1>9 DEF Base, Paced, Reread
  <2>2. frame[r].calls[1].target = u
    BY <2>1
  <2>3. Nothing(r) \/ ByPrincipal(r, "user.update", u)
    BY <1>9, <2>2 DEF Reread
  <2> QED BY <1>1, <1>2, <2>3, EndsIn DEF AuditAction
<1>10. ASSUME NEW u \in Ids, AssignRole(r, u) PROVE Ends(r)
  <2>1. Nothing(r) \/ ByPrincipal(r, "role.assign", u)
    BY <1>10 DEF AssignRole
  <2> QED BY <1>1, <1>2, <2>1, EndsIn DEF AuditAction
<1> QED BY <1>1, <1>2, <1>5, <1>6, <1>7, <1>8, <1>9, <1>10 DEF Outcome

\* Those that write them: a new account, a new email, a deletion.
LEMMA RegisterOutcome ==
  ASSUME Base, NEW r \in Request, NEW e \in Email, Register(r, e)
  PROVE  Outcome(r)
<1> DEFINE u == Len(accounts) + 1
<1>1. pc[r] = "act" /\ Active(r)
  BY DEF Register, Does, Active
<1>2. CASE Nothing(r) /\ AccountsStay
  <2>1. AccountsKept /\ \A q \in Request : Active(q) => Known(q)
    BY <1>2, Staying
  <2>2. frame[r].actor \in Ids' \cup {None}
    BY <1>1, <1>2 DEF Base, Acts, AccountsStay, Ids
  <2> QED BY <1>1, <1>2, <2>1, <2>2, NoEvents DEF Nothing, Ends, Outcome
<1>3. CASE u \in User /\ Becomes(Append(accounts, e)) /\ RecordRegistration(r, u, e)
  <2> DEFINE new == Append(accounts, e)
  <2>1. /\ accounts \in Seq(Email \cup {None}) /\ e \in Email \cup {None}
        /\ Len(accounts) \in Nat /\ u <= MaxUsers
    BY <1>3, IdsAreUsers DEF Base, TypeOK, User
  <2>2. /\ new \in Seq(Email \cup {None}) /\ Len(new) = u /\ new[u] = e
        /\ \A v \in Ids : new[v] = accounts[v]
    BY <2>1, AppendProperties DEF Ids
  <2> HIDE DEF new
  <2>3. Becomes(new) /\ Len(new) <= MaxUsers /\ Len(accounts) <= Len(new)
    BY <1>3, <2>1, <2>2 DEF new
  <2>4. AccountsKept /\ \A q \in Request : Active(q) => Known(q)
    BY <2>2, <2>3, Becoming
  <2>5. accounts' = new /\ u \in Ids' /\ e \in Email
    BY <2>1, <2>2, <2>3 DEF Becomes, Ids
  <2>6. Ends(r)
    <3>1. Plain("register") \in Call /\ [action |-> "user.create", target |-> u] \in Call
      BY <1>3, PlainIsCall DEF AuditAction, Call
    <3>2. WellFormed(<<Plain("register")>>) /\ WellFormed(<<[action |-> "user.create", target |-> u]>>)
      BY <3>1, OneEvent
    <3>3. CASE Then(r, u, e, <<Plain("register")>>)
      BY <2>2, <2>5, <3>2, <3>3 DEF Ends
    <3>4. CASE ByPrincipal(r, "user.create", u)
      <4>1. frame[r].principal \in Ids' \cup {None}
        BY <1>1, <2>4 DEF Base, Acts, AccountsKept
      <4> QED BY <3>2, <3>4, <4>1 DEF Ends, ByPrincipal
    <3> QED BY <1>3, <3>3, <3>4 DEF RecordRegistration
  <2> QED BY <1>1, <2>4, <2>6 DEF Outcome
<1> QED BY <1>2, <1>3 DEF Register

LEMMA UpdateOutcome ==
  ASSUME Base, NEW r \in Request, NEW u \in Ids, NEW e \in Email, UpdateUser(r, u, e)
  PROVE  Outcome(r)
<1>1. pc[r] = "act" /\ Active(r)
  BY DEF UpdateUser, Does, Active
<1>2. CASE Nothing(r) /\ AccountsStay
  <2>1. AccountsKept /\ \A q \in Request : Active(q) => Known(q)
    BY <1>2, Staying
  <2> QED BY <1>1, <1>2, <2>1, EndsIn DEF Outcome
<1>3. CASE /\ Exists(u) /\ Becomes([accounts EXCEPT ![u] = e])
           /\ frame' = [frame EXCEPT ![r].calls = <<[action |-> "user.update", target |-> u]>>]
           /\ pc' = [pc EXCEPT ![r] = "reread"]
           /\ UNCHANGED <<log, reader>>
  <2> DEFINE new == [accounts EXCEPT ![u] = e]
  <2>1. /\ accounts \in Seq(Email \cup {None}) /\ e \in Email \cup {None} /\ u \in 1 .. Len(accounts)
        /\ Len(accounts) <= MaxUsers
    BY DEF Base, TypeOK, Ids
  <2>2. /\ new \in Seq(Email \cup {None}) /\ Len(new) = Len(accounts)
        /\ \A v \in Ids : accounts[v] = None => new[v] = None
    BY <1>3, <2>1, ExceptSeq DEF Ids, Exists
  <2> HIDE DEF new
  <2>3. Becomes(new) /\ Len(new) <= MaxUsers /\ Len(accounts) <= Len(new)
    BY <1>3, <2>1, <2>2, LenProperties DEF new
  <2>4. AccountsKept /\ \A q \in Request : Active(q) => Known(q)
    BY <2>2, <2>3, Becoming
  <2> QED BY <1>1, <1>3, <2>4 DEF Rereads, Outcome
<1> QED BY <1>2, <1>3 DEF UpdateUser

LEMMA DeleteOutcome ==
  ASSUME Base, NEW r \in Request, NEW u \in Ids, DeleteUser(r, u)
  PROVE  Outcome(r)
<1>1. pc[r] = "act" /\ Active(r)
  BY DEF DeleteUser, Does, Active
<1>2. CASE Nothing(r) /\ AccountsStay
  <2>1. AccountsKept /\ \A q \in Request : Active(q) => Known(q)
    BY <1>2, Staying
  <2> QED BY <1>1, <1>2, <2>1, EndsIn DEF Outcome
<1>3. CASE Becomes([accounts EXCEPT ![u] = None]) /\ ByPrincipal(r, "user.delete", u)
  <2> DEFINE new == [accounts EXCEPT ![u] = None]
  <2>1. /\ accounts \in Seq(Email \cup {None}) /\ None \in Email \cup {None} /\ u \in 1 .. Len(accounts)
        /\ Len(accounts) <= MaxUsers
    BY DEF Base, TypeOK, Ids
  <2>2. /\ new \in Seq(Email \cup {None}) /\ Len(new) = Len(accounts)
        /\ \A v \in Ids : accounts[v] = None => new[v] = None
    BY <1>3, <2>1, ExceptSeq DEF Ids
  <2> HIDE DEF new
  <2>3. Becomes(new) /\ Len(new) <= MaxUsers /\ Len(accounts) <= Len(new)
    BY <1>3, <2>1, <2>2, LenProperties DEF new
  <2>4. AccountsKept /\ \A q \in Request : Active(q) => Known(q)
    BY <2>2, <2>3, Becoming
  <2>5. Ends(r)
    BY <1>1, <1>3, <2>4, EndsIn DEF AuditAction
  <2> QED BY <1>1, <2>4, <2>5 DEF Outcome
<1> QED BY <1>2, <1>3 DEF DeleteUser

LEMMA ActsHaveOutcomes ==
  ASSUME Base, NEW r \in Request, Act(r)
  PROVE  Outcome(r)
BY QuietOutcomes, RegisterOutcome, UpdateOutcome, DeleteOutcome DEF Act

-----------------------------------------------------------------------------
(* Types.                                                                  *)

\* A bounded set of naturals that is not empty has a greatest element.
LEMMA GreatestNatural ==
  ASSUME NEW n \in Nat, NEW S, S \subseteq Nat, S # {}, \A k \in S : k <= n
  PROVE  \E m \in S : \A k \in S : k <= m
<1> DEFINE Gap == {n - k : k \in S}
           R == OpToRel(<, Nat)
<1>1. Gap \subseteq Nat /\ Gap # {}
  <2>1. ASSUME NEW k \in S PROVE n - k \in Nat
    OBVIOUS
  <2> QED BY <2>1
<1>2. IsWellFoundedOn(R, Nat)
  BY NatLessThanWellFounded
<1>3. \A x, y \in Nat : x < y => <<x, y>> \in R
  BY DEF OpToRel
<1>4. PICK g \in Gap : \A y \in Gap : ~(<<y, g>> \in R)
  <2> HIDE DEF R, Gap
  <2> QED BY <1>1, <1>2, WFMin
<1> HIDE DEF R
<1>5. PICK m \in S : g = n - m
  BY <1>4
<1>6. ASSUME NEW k \in S PROVE k <= m
  <2>1. ~(n - k < n - m)
    BY <1>1, <1>3, <1>4, <1>5
  <2> QED BY <2>1
<1> QED BY <1>6

\* A new time is later than all that were taken.
LEMMA NowIsLater ==
  ASSUME Base
  PROVE  /\ Now \in Nat /\ Now > 0
         /\ \A e \in log : e.at < Now
         /\ \A r \in Request : frame[r].draft.at < Now
<1> DEFINE taken == {0} \cup {e.at : e \in log} \cup {frame[r].draft.at : r \in Request}
<1>1. taken \subseteq Nat
  <2>1. \A e \in log : e.at \in Nat
    BY DEF Base, TypeOK, Event
  <2>2. \A r \in Request : frame[r].draft.at \in Nat
    BY DEF Base, TypeOK, Frame
  <2> QED BY <2>1, <2>2
<1>2. PICK n \in Nat : \A x \in taken : x <= n
  <2>1. PICK n \in Nat : (\A e \in log : e.at <= n) /\ \A r \in Request : frame[r].draft.at <= n
    BY DEF Base, Dated
  <2> QED BY <2>1
<1>3. PICK m \in taken : \A x \in taken : x <= m
  <2>1. taken # {}
    OBVIOUS
  <2> HIDE DEF taken
  <2> QED BY <1>1, <1>2, <2>1, GreatestNatural
<1>4. /\ 0 \in taken /\ \A e \in log : e.at \in taken
      /\ \A r \in Request : frame[r].draft.at \in taken
  OBVIOUS
<1>5. Now = CHOOSE t \in {x + 1 : x \in taken} : \A x \in taken : x < t
  BY DEF Now
<1> HIDE DEF taken
<1>6. m + 1 \in {x + 1 : x \in taken} /\ \A x \in taken : x < m + 1
  BY <1>1, <1>3
<1>7. Now \in {x + 1 : x \in taken} /\ \A x \in taken : x < Now
  BY <1>5, <1>6
<1>8. Now \in Nat
  BY <1>1, <1>7
<1> QED BY <1>1, <1>4, <1>7, <1>8

\* Requests a step is not about.
LEMMA OthersKeepBase ==
  ASSUME Base, NEW q \in Request, pc'[q] = pc[q], frame'[q] = frame[q],
         AccountsKept, Active(q) => Known(q)
  PROVE  Acts(q)' /\ Paced(q)'
<1>1. Acts(q)'
  BY DEF Base, Acts, Active, AccountsKept, Known
<1>2. Paced(q)'
  BY DEF Base, Paced, AccountsKept
<1> QED BY <1>1, <1>2

\* The types of what a step leaves, once those of the parts are known.
LEMMA TypesFrom ==
  ASSUME Base, AccountsKept, pc' \in [Request -> PC], frame' \in [Request -> Frame],
         log' \subseteq Event, log \subseteq log', reader' = reader
  PROVE  TypeOK'
<1>1. reader \in Reader(IF reader.list = "users" THEN User ELSE log')
  BY DEF Base, TypeOK, Reader
<1> QED BY <1>1 DEF TypeOK, AccountsKept

\* What any use case does to the request it is of, and to no other.
LEMMA ActKeepsBase ==
  ASSUME Base, NEW r \in Request, Act(r)
  PROVE  /\ Base' /\ log' = log
         /\ \A q \in Request : Active(q) => since[q] \subseteq since'[q]
         /\ \A q \in Request \ {r} : frame'[q] = frame[q] /\ pc'[q] = pc[q]
         /\ pc[r] \in {"act", "reread"} /\ frame'[r].next = 1
         /\ pc'[r] \in {"reread", "record", "respond"}
<1>1. /\ AccountsKept /\ \A q \in Request : Active(q) => Known(q)
      /\ pc[r] \in {"act", "reread"} /\ Active(r) /\ (Ends(r) \/ Rereads(r))
  BY ActsHaveOutcomes DEF Outcome, Active
<1>2. /\ frame[r].next = 1 /\ frame[r] \in Frame /\ TypeOK /\ Acts(r)
      /\ \A u \in Ids : u \in Ids'
  BY <1>1 DEF Base, Paced, TypeOK, AccountsKept
<1>3. Ids' \subseteq User
  <2>1. Len(accounts') \in Nat /\ Len(accounts') <= MaxUsers
    BY <1>1, LenProperties DEF AccountsKept
  <2> QED BY <2>1, BoundsAssumption DEF Ids, User
<1>4. /\ pc' \in [Request -> PC] /\ frame' \in [Request -> Frame]
      /\ \A q \in Request \ {r} : frame'[q] = frame[q] /\ pc'[q] = pc[q]
      /\ frame'[r].draft = frame[r].draft
      /\ UNCHANGED <<log, reader>> /\ Acts(r)' /\ Paced(r)'
      /\ frame'[r].next = 1 /\ pc'[r] \in {"reread", "record", "respond"}
  <2>1. CASE Ends(r)
    <3>1. PICK actor \in Ids' \cup {None}, email \in Email \cup {None} :
            \E events : /\ WellFormed(events) /\ Then(r, actor, email, events)
                        /\ email # None => actor \in Ids' /\ email = accounts'[actor]
      BY <2>1 DEF Ends
    <3>2. PICK events : /\ WellFormed(events) /\ Then(r, actor, email, events)
                        /\ email # None => actor \in Ids' /\ email = accounts'[actor]
      BY <3>1
    <3>3. /\ frame' \in [Request -> Frame] /\ pc' \in [Request -> PC]
          /\ frame'[r].actor = actor /\ frame'[r].email = email /\ frame'[r].calls = events
          /\ frame'[r].principal = frame[r].principal /\ frame'[r].next = 1
          /\ frame'[r].draft = frame[r].draft /\ frame'[r].dropped = frame[r].dropped
          /\ Len(events) = 0 => pc'[r] = "respond"
          /\ Len(events) # 0 => pc'[r] = "record"
          /\ \A q \in Request \ {r} : frame'[q] = frame[q] /\ pc'[q] = pc[q]
          /\ UNCHANGED <<log, reader>>
      <4>1. actor \in User \cup {None}
        BY <1>3
      <4>2. TypeOK /\ WellFormed(events) /\ Then(r, actor, email, events)
        BY <1>2, <3>2
      <4>3. frame[r].next = 1
        BY <1>2
      <4>4. /\ frame' \in [Request -> Frame] /\ pc' \in [Request -> PC]
            /\ UNCHANGED <<log, reader>>
        BY <4>1, <4>2, ThenIs
      <4>5. /\ frame'[r].actor = actor /\ frame'[r].email = email
            /\ frame'[r].principal = frame[r].principal
        BY <4>1, <4>2, ThenIs
      <4>6. frame'[r].calls = events
        BY <4>1, <4>2, ThenIs
      <4>7. /\ frame'[r].draft = frame[r].draft /\ frame'[r].dropped = frame[r].dropped
            /\ frame'[r].next = frame[r].next
        BY <4>1, <4>2, ThenIs
      <4>8. events \in Seq(Call) /\ Len(events) \in Nat
        BY <4>2, LenProperties DEF WellFormed
      <4>9. /\ Len(events) = 0 => pc'[r] = "respond"
            /\ Len(events) # 0 => pc'[r] = "record"
        <5>1. pc'[r] = (IF events = <<>> THEN "respond" ELSE "record")
          BY <4>2 DEF Then, TypeOK
        <5>2. events = <<>> <=> Len(events) = 0
          BY <4>8, EmptySeq
        <5> QED BY <5>1, <5>2
      <4>10. \A q \in Request \ {r} : frame'[q] = frame[q] /\ pc'[q] = pc[q]
        BY <4>1, <4>2, ThenIs
      <4> QED BY <4>3, <4>4, <4>5, <4>6, <4>7, <4>8, <4>9, <4>10
    <3>4. Acts(r)'
      BY <1>1, <1>2, <3>2, <3>3 DEF Acts, Active, Known
    <3>5. Paced(r)'
      <4>1. Len(events) # 0 => 1 \in DOMAIN events
        <5>1. events \in Seq(Call)
          BY <3>2 DEF WellFormed
        <5> QED BY <5>1, LenProperties
      <4> QED BY <3>2, <3>3, <4>1 DEF Paced, WellFormed
    <3>6. pc'[r] \in {"record", "respond"}
      BY <3>2 DEF Then, TypeOK, Base
    <3> QED BY <3>3, <3>4, <3>5, <3>6
  <2>2. CASE Rereads(r)
    <3>1. PICK u \in Ids :
            /\ frame' = [frame EXCEPT ![r].calls = <<[action |-> "user.update", target |-> u]>>]
            /\ pc' = [pc EXCEPT ![r] = "reread"]
            /\ UNCHANGED <<log, reader>>
      BY <2>2 DEF Rereads
    <3> DEFINE c == [action |-> "user.update", target |-> u]
               f == [frame[r] EXCEPT !.calls = <<c>>]
    <3>2. c \in Call
      BY <1>2, <1>3 DEF Call, AuditAction
    <3> HIDE DEF c
    <3>3. WellFormed(<<c>>)
      BY <3>2, OneEvent
    <3>4. /\ f \in Frame /\ f.calls = <<c>> /\ f.next = 1 /\ f.draft = frame[r].draft
          /\ f.principal = frame[r].principal /\ f.actor = frame[r].actor
          /\ f.email = frame[r].email
      BY <1>2, <3>3 DEF Frame, WellFormed
    <3>5. frame' = [frame EXCEPT ![r] = f]
      BY <1>2, <3>1 DEF TypeOK, c
    <3> HIDE DEF f
    <3>6. /\ frame' \in [Request -> Frame] /\ frame'[r] = f /\ pc' \in [Request -> PC]
          /\ pc'[r] = "reread"
          /\ \A q \in Request \ {r} : frame'[q] = frame[q] /\ pc'[q] = pc[q]
      BY <1>2, <3>1, <3>4, <3>5 DEF TypeOK, PC
    <3>7. Acts(r)'
      BY <1>1, <1>2, <3>4, <3>6 DEF Acts, Active, Known
    <3>8. Paced(r)'
      <4>1. u \in Ids' /\ <<c>> = <<[action |-> "user.update", target |-> u]>>
        BY <1>2 DEF c
      <4> QED BY <3>3, <3>4, <3>6, <4>1 DEF Paced, WellFormed
    <3> QED BY <3>1, <3>4, <3>6, <3>7, <3>8
  <2> QED BY <1>1, <2>1, <2>2
<1>5. TypeOK'
  BY <1>1, <1>4, TypesFrom DEF Base, TypeOK
<1>6. Dated'
  BY <1>4 DEF Base, Dated
<1>7. ASSUME NEW q \in Request \ {r} PROVE Acts(q)' /\ Paced(q)'
  BY <1>1, <1>4, OthersKeepBase
<1> QED BY <1>1, <1>4, <1>5, <1>6, <1>7 DEF Base, Known

\* What Prepare leaves.
LEMMA PrepareIs ==
  ASSUME Base, NEW r \in Request, NEW email \in Email \cup {None}, NEW failed \in BOOLEAN,
         Prepare(r, email, failed)
  PROVE  /\ frame' \in [Request -> Frame] /\ pc' \in [Request -> PC]
         /\ pc'[r] = "insert"
         /\ frame'[r].draft.at = Now /\ frame'[r].draft.email = email
         /\ frame'[r].draft.failed = failed
         /\ frame'[r].principal = frame[r].principal /\ frame'[r].actor = frame[r].actor
         /\ frame'[r].email = frame[r].email /\ frame'[r].calls = frame[r].calls
         /\ frame'[r].next = frame[r].next /\ frame'[r].dropped = frame[r].dropped
         /\ \A q \in Request \ {r} : frame'[q] = frame[q] /\ pc'[q] = pc[q]
<1> DEFINE d == [at |-> Now, email |-> email, failed |-> failed]
           f == [frame[r] EXCEPT !.draft = d]
<1>1. Now \in Nat
  BY NowIsLater
<1>2. /\ d \in [at : Nat, email : Email \cup {None}, failed : BOOLEAN]
      /\ d.at = Now /\ d.email = email /\ d.failed = failed
  BY <1>1
<1>3. frame \in [Request -> Frame] /\ pc \in [Request -> PC] /\ frame' = [frame EXCEPT ![r] = f]
      /\ pc' = [pc EXCEPT ![r] = "insert"]
  BY DEF Prepare, Base, TypeOK
<1> HIDE DEF d
<1>4. /\ f \in Frame /\ f.draft = d /\ f.principal = frame[r].principal
      /\ f.actor = frame[r].actor /\ f.email = frame[r].email /\ f.calls = frame[r].calls
      /\ f.next = frame[r].next /\ f.dropped = frame[r].dropped
  BY <1>2, <1>3 DEF Frame
<1> HIDE DEF f
<1>5. /\ frame' \in [Request -> Frame] /\ frame'[r] = f
      /\ \A q \in Request \ {r} : frame'[q] = frame[q]
  BY <1>3, <1>4
<1>6. /\ pc' \in [Request -> PC] /\ pc'[r] = "insert"
      /\ \A q \in Request \ {r} : pc'[q] = pc[q]
  BY <1>3 DEF PC
<1> QED BY <1>2, <1>4, <1>5, <1>6

\* What Advance leaves.
LEMMA AdvanceIs ==
  ASSUME TypeOK, NEW r \in Request, NEW kept \in BOOLEAN, Advance(r, kept)
  PROVE  /\ frame' \in [Request -> Frame] /\ pc' \in [Request -> PC]
         /\ pc'[r] = IF frame[r].next = Len(frame[r].calls) THEN "respond" ELSE "record"
         /\ frame'[r].principal = frame[r].principal /\ frame'[r].actor = frame[r].actor
         /\ frame'[r].email = frame[r].email /\ frame'[r].calls = frame[r].calls
         /\ frame'[r].next = frame[r].next + 1
         /\ frame'[r].dropped = (frame[r].dropped \/ ~kept) /\ frame'[r].draft = NoDraft
         /\ \A q \in Request \ {r} : frame'[q] = frame[q] /\ pc'[q] = pc[q]
         /\ UNCHANGED <<accounts, since, reader>>
<1>7. PICK lost \in BOOLEAN : lost = (frame[r].dropped \/ ~kept)
  BY DEF TypeOK, Frame
<1> DEFINE f == [frame[r] EXCEPT !.next = @ + 1, !.draft = NoDraft, !.dropped = lost]
<1>1. frame \in [Request -> Frame] /\ pc \in [Request -> PC] /\ frame' = [frame EXCEPT ![r] = f]
      /\ pc' = [pc EXCEPT ![r] = IF frame[r].next = Len(frame[r].calls) THEN "respond" ELSE "record"]
      /\ UNCHANGED <<accounts, since, reader>>
  BY <1>7 DEF Advance, TypeOK
<1>2. NoDraft \in [at : Nat, email : Email \cup {None}, failed : BOOLEAN]
  BY DEF NoDraft
<1>8. /\ frame[r] \in Frame /\ frame[r].next + 1 \in Nat
  BY <1>1 DEF Frame
<1>3. /\ f \in Frame /\ f.principal = frame[r].principal
      /\ f.actor = frame[r].actor /\ f.email = frame[r].email /\ f.calls = frame[r].calls
      /\ f.next = frame[r].next + 1 /\ f.draft = NoDraft /\ f.dropped = lost
  <2>1. /\ f.op = frame[r].op /\ f.principal = frame[r].principal
        /\ f.actor = frame[r].actor /\ f.email = frame[r].email /\ f.calls = frame[r].calls
    BY <1>8 DEF Frame
  <2>2. f.next = frame[r].next + 1 /\ f.draft = NoDraft /\ f.dropped = lost
    BY <1>8 DEF Frame
  <2>3. f \in Frame
    BY <1>2, <1>7, <1>8 DEF Frame
  <2> QED BY <2>1, <2>2, <2>3
<1>4. f.dropped = (frame[r].dropped \/ ~kept)
  BY <1>3, <1>7
<1> HIDE DEF f
<1>5. /\ frame' \in [Request -> Frame] /\ frame'[r] = f
      /\ \A q \in Request \ {r} : frame'[q] = frame[q]
  BY <1>1, <1>3
<1>6. /\ pc' \in [Request -> PC]
      /\ pc'[r] = IF frame[r].next = Len(frame[r].calls) THEN "respond" ELSE "record"
      /\ \A q \in Request \ {r} : pc'[q] = pc[q]
  BY <1>1 DEF PC
<1> QED BY <1>1, <1>3, <1>4, <1>5, <1>6

\* The preparation of an event: the email is the one at hand, or looked up.
LEMMA Prepares ==
  ASSUME Base, NEW r \in Request, WithActorEmail(r) \/ LookupFails(r)
  PROVE  /\ pc[r] = "record"
         /\ \E email \in Email \cup {None}, failed \in BOOLEAN :
               /\ Prepare(r, email, failed)
               /\ frame[r].actor # None =>
                     IF email = None THEN failed \/ <<frame[r].actor, None>> \in since[r]
                     ELSE <<frame[r].actor, email>> \in since[r]
<1>1. pc[r] = "record" /\ Active(r)
  BY DEF WithActorEmail, LookupFails, Active
<1>2. /\ frame[r].actor \in Ids \cup {None} /\ frame[r].email \in Email \cup {None}
      /\ \A u \in Ids : <<u, accounts[u]>> \in since[r] /\ accounts[u] \in Email \cup {None}
      /\ frame[r].email # None => <<frame[r].actor, frame[r].email>> \in since[r]
  BY <1>1, IdsAreUsers DEF Base, Acts, TypeOK, Frame
<1>3. CASE WithActorEmail(r) /\ NeedsEmail(r)
  <2>1. Prepare(r, accounts[frame[r].actor], FALSE) /\ frame[r].actor \in Ids
    BY <1>2, <1>3 DEF WithActorEmail, NeedsEmail
  <2> QED BY <1>1, <1>2, <2>1
<1>4. CASE WithActorEmail(r) /\ ~NeedsEmail(r)
  <2>1. Prepare(r, frame[r].email, FALSE) /\ (frame[r].actor # None => frame[r].email # None)
    BY <1>4 DEF WithActorEmail, NeedsEmail
  <2> QED BY <1>1, <1>2, <2>1
<1>5. CASE LookupFails(r)
  BY <1>1, <1>5 DEF LookupFails
<1> QED BY <1>3, <1>4, <1>5

\* What the steps of the recording keep.
LEMMA PrepareKeepsBase ==
  ASSUME Base, NEW r \in Request, WithActorEmail(r) \/ LookupFails(r)
  PROVE  Base' /\ Drafts(r)'
<1>1. pc[r] = "record"
  BY Prepares
<1>2. PICK email \in Email \cup {None}, failed \in BOOLEAN :
        /\ Prepare(r, email, failed)
        /\ frame[r].actor # None =>
              IF email = None THEN failed \/ <<frame[r].actor, None>> \in since[r]
              ELSE <<frame[r].actor, email>> \in since[r]
  BY Prepares
<1>3. /\ frame' \in [Request -> Frame] /\ pc' \in [Request -> PC]
      /\ pc'[r] = "insert"
      /\ frame'[r].draft.at = Now /\ frame'[r].draft.email = email
      /\ frame'[r].draft.failed = failed
      /\ frame'[r].principal = frame[r].principal /\ frame'[r].actor = frame[r].actor
      /\ frame'[r].email = frame[r].email /\ frame'[r].calls = frame[r].calls
      /\ frame'[r].next = frame[r].next
      /\ \A q \in Request \ {r} : frame'[q] = frame[q] /\ pc'[q] = pc[q]
  BY <1>2, PrepareIs
<1>4. UNCHANGED <<accounts, log, since, reader>>
  BY <1>2 DEF Prepare
<1>5. AccountsKept /\ \A q \in Request : Active(q) => Known(q)
  BY <1>4, Staying DEF AccountsStay
<1>6. TypeOK'
  BY <1>3, <1>4, <1>5, TypesFrom DEF Base, TypeOK
<1>7. Dated'
  <2>1. Now \in Nat /\ (\A e \in log : e.at \in Nat /\ e.at <= Now)
    BY NowIsLater DEF Base, TypeOK, Event
  <2>2. ASSUME NEW q \in Request PROVE frame'[q].draft.at <= Now
    <3>1. frame[q].draft.at \in Nat
      BY DEF Base, TypeOK, Frame
    <3> QED BY <1>3, <2>1, <3>1, NowIsLater
  <2> QED BY <1>4, <2>1, <2>2 DEF Base, Dated
<1>8. Acts(r)'
  BY <1>1, <1>3, <1>4 DEF Base, Acts, Active, Ids
<1>9. Paced(r)'
  BY <1>1, <1>3, <1>4 DEF Base, Paced
<1>10. ASSUME NEW q \in Request \ {r} PROVE Acts(q)' /\ Paced(q)'
  BY <1>3, <1>5, OthersKeepBase
<1>11. Drafts(r)'
  BY <1>2, <1>3, <1>4 DEF Drafts
<1> QED BY <1>6, <1>7, <1>8, <1>9, <1>10, <1>11 DEF Base

\* A row is of the request it tells of.
LEMMA RowIsEvent ==
  ASSUME Base, NEW r \in Request, pc[r] = "insert"
  PROVE  /\ Deed(r) \in Call /\ Row(r) \in Event /\ Row(r).at = frame[r].draft.at
         /\ Row(r).by = r /\ Row(r).action = Deed(r).action /\ Row(r).target = Deed(r).target
         /\ Row(r).actor = frame[r].actor /\ Row(r).email = frame[r].draft.email
<1>1. /\ frame[r].next \in DOMAIN frame[r].calls /\ frame[r].calls \in Seq(Call)
      /\ frame[r].draft \in [at : Nat, email : Email \cup {None}, failed : BOOLEAN]
      /\ frame[r].actor \in User \cup {None}
  BY DEF Base, Paced, TypeOK, Frame
<1>2. Deed(r) \in Call
  BY <1>1, ElementOfSeq, LenProperties DEF Deed
<1>3. /\ Deed(r).action \in AuditAction /\ Deed(r).target \in User \cup {None}
  BY <1>2 DEF Call
<1>4. Row(r) = [at |-> frame[r].draft.at, action |-> Deed(r).action, actor |-> frame[r].actor,
                email |-> frame[r].draft.email, target |-> Deed(r).target, by |-> r]
  BY DEF Row, Deed
<1> QED BY <1>1, <1>2, <1>3, <1>4 DEF Event

LEMMA AdvanceKeepsBase ==
  ASSUME Base, NEW r \in Request, NEW kept \in BOOLEAN, Advance(r, kept), pc[r] = "insert",
         log' = IF kept THEN log \cup {Row(r)} ELSE log
  PROVE  Base'
<1>1. /\ frame' \in [Request -> Frame] /\ pc' \in [Request -> PC]
      /\ pc'[r] = IF frame[r].next = Len(frame[r].calls) THEN "respond" ELSE "record"
      /\ frame'[r].principal = frame[r].principal /\ frame'[r].actor = frame[r].actor
      /\ frame'[r].email = frame[r].email /\ frame'[r].calls = frame[r].calls
      /\ frame'[r].next = frame[r].next + 1 /\ frame'[r].draft = NoDraft
      /\ \A q \in Request \ {r} : frame'[q] = frame[q] /\ pc'[q] = pc[q]
      /\ UNCHANGED <<accounts, since, reader>>
  BY AdvanceIs DEF Base
<1>2. AccountsKept /\ \A q \in Request : Active(q) => Known(q)
  BY <1>1, Staying DEF AccountsStay
<1>3. Row(r) \in Event /\ Row(r).at = frame[r].draft.at
  BY RowIsEvent
<1>4. TypeOK'
  BY <1>1, <1>2, <1>3, TypesFrom DEF Base, TypeOK
<1>5. Dated'
  <2>1. IsFiniteSet(log')
    BY FS_AddElement, FS_Union DEF Base, Dated
  <2>2. PICK n \in Nat : (\A e \in log : e.at <= n) /\ \A q \in Request : frame[q].draft.at <= n
    BY DEF Base, Dated
  <2>3. \A e \in log' : e.at <= n
    BY <1>3, <2>2
  <2>4. ASSUME NEW q \in Request PROVE frame'[q].draft.at <= n
    BY <1>1, <2>2 DEF NoDraft
  <2> QED BY <2>1, <2>3, <2>4 DEF Dated
<1>6. Acts(r)'
  BY <1>1 DEF Base, Acts, Active, Ids
<1>7. Paced(r)'
  <2>1. /\ frame[r].calls \in Seq(Call) /\ frame[r].next \in DOMAIN frame[r].calls
        /\ frame[r].next \in Nat
    BY DEF Base, TypeOK, Frame, Paced
  <2>2. DOMAIN frame[r].calls = 1 .. Len(frame[r].calls) /\ Len(frame[r].calls) \in Nat
    BY <2>1, LenProperties
  <2>3. frame[r].next # Len(frame[r].calls) => frame[r].next + 1 \in DOMAIN frame[r].calls
    BY <2>1, <2>2
  <2> QED BY <1>1, <2>3 DEF Base, Paced
<1>8. ASSUME NEW q \in Request \ {r} PROVE Acts(q)' /\ Paced(q)'
  BY <1>1, <1>2, OthersKeepBase
<1> QED BY <1>4, <1>5, <1>6, <1>7, <1>8 DEF Base

\* The beginning and the end of a request.
LEMMA StartKeepsBase ==
  ASSUME Base, NEW r \in Request, NEW name \in Op, NEW u \in Ids \cup {None}, Start(r, name, u)
  PROVE  Base'
<1> DEFINE f == [NoFrame EXCEPT !.op = name, !.principal = u, !.actor = u]
<1>1. Ids \subseteq User /\ \A v \in Ids : accounts[v] \in Email \cup {None}
  BY IdsAreUsers DEF Base
<1>2. /\ f \in Frame /\ f.principal = u /\ f.actor = u /\ f.email = None
      /\ f.next = 1 /\ f.calls = <<>> /\ f.draft.at = 0
  <2>1. /\ NoFrame \in Frame /\ NoFrame.email = None /\ NoFrame.next = 1
        /\ NoFrame.calls = <<>> /\ NoFrame.draft.at = 0
    BY DEF Frame, NoFrame, NoDraft
  <2> QED BY <1>1, <2>1 DEF Frame
<1>3. /\ frame' = [frame EXCEPT ![r] = f] /\ pc' = [pc EXCEPT ![r] = "act"]
      /\ since' = [since EXCEPT ![r] = {<<v, accounts[v]>> : v \in Ids}]
      /\ UNCHANGED <<accounts, log, reader>>
      /\ frame \in [Request -> Frame] /\ pc \in [Request -> PC]
      /\ since \in [Request -> SUBSET (User \X (Email \cup {None}))]
  BY DEF Start, Base, TypeOK
<1> HIDE DEF f
<1>4. /\ frame' \in [Request -> Frame] /\ frame'[r] = f
      /\ pc' \in [Request -> PC] /\ pc'[r] = "act"
      /\ \A q \in Request \ {r} : frame'[q] = frame[q] /\ pc'[q] = pc[q] /\ since'[q] = since[q]
  BY <1>2, <1>3 DEF PC
<1>5. /\ since' \in [Request -> SUBSET (User \X (Email \cup {None}))]
      /\ \A v \in Ids : <<v, accounts[v]>> \in since'[r]
  <2>1. {<<v, accounts[v]>> : v \in Ids} \in SUBSET (User \X (Email \cup {None}))
    BY <1>1
  <2> QED BY <1>3, <2>1
<1>6. AccountsKept /\ Ids' = Ids
  BY <1>3, <1>5 DEF Base, TypeOK, AccountsKept, Ids
<1>7. TypeOK'
  BY <1>3, <1>4, <1>6, TypesFrom DEF Base, TypeOK
<1>8. Dated'
  BY <1>2, <1>3, <1>4 DEF Base, Dated
<1>9. Acts(r)' /\ Paced(r)'
  BY <1>2, <1>3, <1>4, <1>5, <1>6, NoEvents DEF Acts, Paced
<1>10. ASSUME NEW q \in Request \ {r} PROVE Acts(q)' /\ Paced(q)'
  BY <1>3, <1>4, <1>6 DEF Base, Acts, Active, Paced
<1> QED BY <1>7, <1>8, <1>9, <1>10 DEF Base

LEMMA EndKeepsBase ==
  ASSUME Base, NEW r \in Request, End(r, "done")
  PROVE  Base'
<1>1. /\ NoFrame \in Frame /\ NoFrame.next = 1 /\ NoFrame.calls = <<>> /\ NoFrame.draft.at = 0
  BY DEF Frame, NoFrame, NoDraft
<1>2. /\ frame' = [frame EXCEPT ![r] = NoFrame] /\ pc' = [pc EXCEPT ![r] = "done"]
      /\ since' = [since EXCEPT ![r] = {}]
      /\ UNCHANGED <<accounts, log, reader>>
      /\ frame \in [Request -> Frame] /\ pc \in [Request -> PC]
      /\ since \in [Request -> SUBSET (User \X (Email \cup {None}))]
  BY DEF End, Base, TypeOK
<1>3. /\ frame' \in [Request -> Frame] /\ frame'[r] = NoFrame
      /\ pc' \in [Request -> PC] /\ pc'[r] = "done"
      /\ \A q \in Request \ {r} : frame'[q] = frame[q] /\ pc'[q] = pc[q] /\ since'[q] = since[q]
  BY <1>1, <1>2 DEF PC
<1>4. since' \in [Request -> SUBSET (User \X (Email \cup {None}))]
  BY <1>2
<1>5. AccountsKept /\ Ids' = Ids
  BY <1>2, <1>4 DEF Base, TypeOK, AccountsKept, Ids
<1>6. TypeOK'
  BY <1>2, <1>3, <1>5, TypesFrom DEF Base, TypeOK
<1>7. Dated'
  BY <1>1, <1>2, <1>3 DEF Base, Dated
<1>8. Acts(r)' /\ Paced(r)'
  BY <1>1, <1>3, NoEvents DEF Acts, Active, Paced
<1>9. ASSUME NEW q \in Request \ {r} PROVE Acts(q)' /\ Paced(q)'
  <2>1. Acts(q)'
    BY <1>2, <1>3, <1>5 DEF Base, Acts, Active
  <2>2. Paced(q)'
    <3>1. Paced(q)
      BY DEF Base
    <3> QED BY <1>3, <1>5, <3>1 DEF Paced
  <2> QED BY <2>1, <2>2
<1> QED BY <1>6, <1>7, <1>8, <1>9 DEF Base

\* A page is asked for within bounds.
LEMMA PaginationIsBounded ==
  ASSUME NEW offset \in Int, NEW limit \in Int
  PROVE  Pagination(offset, limit) \in [offset : Nat, limit : 1 .. MaxLimit]
BY BoundsAssumption DEF Pagination

\* An answer is the last page or it is not.
LEMMA ReachedIsBoolean == \A n : ReachedBy(n) \in BOOLEAN
BY DEF ReachedBy

\* The listings read the rows and leave them alone.
LEMMA ListKeepsBase ==
  ASSUME Base, List
  PROVE  Base' /\ UNCHANGED writers
<1> DEFINE rows(list) == IF list = "users" THEN User ELSE log
<1>1. UNCHANGED writers
  BY DEF List, OpenListing, CountEvents, PageOfEvents, PageOfUsers, CountUsers, TurnPage
<1>2. /\ reader \in Reader(rows(reader.list)) /\ Cardinality(log) \in Nat
      /\ \A list \in {"users", "events"} : Rows(list) \subseteq rows(list)
  BY FS_CardinalityType, IdsAreUsers DEF Base, TypeOK, Dated, Rows
<1>3. reader' \in Reader(rows(reader'.list))
  <2>1. ASSUME NEW list \in {"users", "events"}, NEW offset \in {-1, 0},
               NEW limit \in 0 .. MaxLimit + 1, OpenListing(list, offset, limit)
        PROVE  reader' \in Reader(rows(reader'.list))
    <3> DEFINE p == Pagination(offset, limit)
    <3>1. p \in [offset : Nat, limit : 1 .. MaxLimit] /\ Pagination(0, 0) \in [offset : Nat, limit : 1 .. MaxLimit]
      BY PaginationIsBounded, BoundsAssumption
    <3> HIDE DEF p
    <3>2. reader' = [NoReader EXCEPT
                    !.pc = IF list = "users" THEN "page" ELSE "count",
                    !.list = list, !.page = p,
                    !.start = Rows(list), !.missing = Rows(list)]
      BY <2>1 DEF OpenListing, p
    <3>3. reader'.list = list
      BY <3>2 DEF NoReader
    <3>4. Rows(list) \subseteq rows(list)
      BY <1>2
    <3> HIDE DEF rows
    <3>5. reader' \in Reader(rows(list))
      BY <3>1, <3>2, <3>4 DEF NoReader, Reader
    <3> QED BY <3>3, <3>5
  <2>2. ASSUME CountEvents PROVE reader' \in Reader(rows(reader'.list))
    <3>1. reader'.list = reader.list /\ reader' \in Reader(rows(reader.list))
      BY <1>2, <2>2 DEF CountEvents, Reader
    <3> QED BY <3>1
  <2>3. ASSUME PageOfEvents \/ PageOfUsers PROVE reader' \in Reader(rows(reader'.list))
    <3> DEFINE seen == Shown
    <3>1. PICK full \in BOOLEAN, last \in BOOLEAN, stale \in BOOLEAN :
             /\ full = (Cardinality(seen) = reader.page.limit)
             /\ last = ReachedBy(reader.total)
             /\ stale = (reader.total # Cardinality(log))
      <4>1. /\ (Cardinality(seen) = reader.page.limit) \in BOOLEAN
            /\ (reader.total # Cardinality(log)) \in BOOLEAN
        OBVIOUS
      <4> QED BY <4>1, ReachedIsBoolean, Zenon
    <3> HIDE DEF rows, seen
    <3>2. CASE PageOfEvents
      <4>1. reader' = [reader EXCEPT !.pc = "answer", !.total = 0, !.missing = @ \ seen,
                                     !.full = full, !.last = last, !.stale = stale]
        BY <3>1, <3>2 DEF PageOfEvents, seen
      <4>2. reader'.list = reader.list
        BY <1>2, <4>1 DEF Reader
      <4>3. reader' \in Reader(rows(reader.list))
        BY <1>2, <4>1 DEF Reader
      <4> QED BY <4>2, <4>3
    <3>3. CASE PageOfUsers
      <4>1. reader' = [reader EXCEPT !.pc = "count", !.missing = @ \ seen, !.full = full]
        BY <3>1, <3>3 DEF PageOfUsers, seen
      <4>2. reader'.list = reader.list
        BY <1>2, <4>1 DEF Reader
      <4>3. reader' \in Reader(rows(reader.list))
        BY <1>2, <4>1 DEF Reader
      <4> QED BY <4>2, <4>3
    <3> QED BY <2>3, <3>2, <3>3
  <2>4. ASSUME CountUsers PROVE reader' \in Reader(rows(reader'.list))
    <3> DEFINE n == Cardinality(Rows("users"))
    <3>3. PICK l \in BOOLEAN : l = ReachedBy(n)
      BY ReachedIsBoolean, Zenon
    <3>1. reader' = [reader EXCEPT !.pc = "answer", !.last = l]
      BY <2>4, <3>3 DEF CountUsers
    <3> HIDE DEF rows
    <3>2. reader'.list = reader.list /\ reader' \in Reader(rows(reader.list))
      BY <1>2, <3>1 DEF Reader
    <3> QED BY <3>2
  <2>5. ASSUME TurnPage PROVE reader' \in Reader(rows(reader'.list))
    <3>1. CASE reader' = [reader EXCEPT
                !.pc = IF reader.list = "users" THEN "page" ELSE "count",
                !.page.offset = @ + reader.page.limit,
                !.full = FALSE, !.last = FALSE, !.stale = FALSE]
      <4> HIDE DEF rows
      <4>1. reader.page \in [offset : Nat, limit : 1 .. MaxLimit]
            /\ reader.page.offset + reader.page.limit \in Nat
        BY <1>2, BoundsAssumption DEF Reader
      <4> DEFINE p == [reader.page EXCEPT !.offset = @ + reader.page.limit]
      <4>2. p \in [offset : Nat, limit : 1 .. MaxLimit]
        BY <4>1
      <4>3. reader' = [reader EXCEPT
                !.pc = IF reader.list = "users" THEN "page" ELSE "count",
                !.page = p, !.full = FALSE, !.last = FALSE, !.stale = FALSE]
        BY <1>2, <3>1 DEF Reader
      <4> HIDE DEF p
      <4>4. reader'.list = reader.list /\ reader' \in Reader(rows(reader.list))
        BY <1>2, <4>2, <4>3 DEF Reader
      <4> QED BY <4>4
    <3>2. CASE reader' = [NoReader EXCEPT !.pc = "closed"]
      <4>1. Pagination(0, 0) \in [offset : Nat, limit : 1 .. MaxLimit]
        BY PaginationIsBounded
      <4>2. reader'.list = "users" /\ reader' \in Reader(rows("users"))
        BY <3>2, <4>1 DEF NoReader, Reader
      <4> QED BY <4>2
    <3> QED BY <2>5, <3>1, <3>2 DEF TurnPage
  <2> QED BY <2>1, <2>2, <2>3, <2>4, <2>5 DEF List
<1>4. TypeOK'
  BY <1>1, <1>3 DEF Base, TypeOK, writers
<1>5. Dated'
  BY <1>1 DEF Base, Dated, writers
<1>6. ASSUME NEW r \in Request PROVE Acts(r)' /\ Paced(r)'
  <2>1. Acts(r) /\ Paced(r)
    BY DEF Base
  <2> QED BY <1>1, <2>1 DEF Acts, Active, Paced, Ids, writers
<1> QED BY <1>1, <1>4, <1>5, <1>6 DEF Base

LEMMA InitBase ==
  ASSUME Init
  PROVE  Base
<1>1. PICK n \in 0 .. MaxUsers : accounts \in [1 .. n -> Email]
  BY DEF Init
<1>2. /\ accounts \in Seq(Email \cup {None}) /\ Len(accounts) <= MaxUsers
  <2>1. accounts \in Seq(Email) /\ Len(accounts) = n
    BY <1>1, BoundsAssumption
  <2>2. Seq(Email) \subseteq Seq(Email \cup {None})
    OBVIOUS
  <2> QED BY <1>1, <2>1, <2>2, BoundsAssumption
<1>3. NoFrame \in Frame /\ NoFrame.next = 1 /\ NoFrame.calls = <<>> /\ NoFrame.draft.at = 0
  BY DEF Frame, NoFrame, NoDraft
<1>4. \A r \in Request : frame[r] = NoFrame /\ pc[r] = "idle"
  BY DEF Init
<1>5. reader \in Reader(IF reader.list = "users" THEN User ELSE log)
  <2>1. Pagination(0, 0) \in [offset : Nat, limit : 1 .. MaxLimit]
    BY PaginationIsBounded
  <2>2. NoReader \in Reader(User) /\ NoReader.list = "users"
    BY <2>1 DEF NoReader, Reader
  <2> QED BY <2>2 DEF Init
<1>6. TypeOK
  <2>1. frame \in [Request -> Frame] /\ pc \in [Request -> PC]
        /\ since \in [Request -> SUBSET (User \X (Email \cup {None}))] /\ log = {}
    BY <1>3 DEF Init, PC
  <2> QED BY <1>2, <1>5, <2>1 DEF TypeOK
<1>7. Dated
  BY <1>3, <1>4, FS_EmptySet DEF Init, Dated
<1>8. ASSUME NEW r \in Request PROVE Acts(r) /\ Paced(r)
  BY <1>3, <1>4, NoEvents DEF Acts, Active, Paced
<1> QED BY <1>6, <1>7, <1>8 DEF Base

\* The steps of the requests, and what else may happen.
LEMMA NextKeepsBase ==
  ASSUME Base, [Next]_vars
  PROVE  Base'
<1>1. ASSUME NEW r \in Request, NEW name \in Op, NEW u \in Ids \cup {None}, Start(r, name, u)
      PROVE  Base'
  BY <1>1, StartKeepsBase
<1>2. ASSUME NEW r \in Request, Act(r) PROVE Base'
  BY <1>2, ActKeepsBase
<1>3. ASSUME NEW r \in Request, WithActorEmail(r) \/ LookupFails(r) PROVE Base'
  BY <1>3, PrepareKeepsBase
<1>4. ASSUME NEW r \in Request, Insert(r) \/ InsertFails(r) PROVE Base'
  <2>1. CASE Insert(r)
    BY <2>1, AdvanceKeepsBase DEF Insert
  <2>2. CASE InsertFails(r)
    BY <2>2, AdvanceKeepsBase DEF InsertFails
  <2> QED BY <1>4, <2>1, <2>2
<1>5. ASSUME NEW r \in Request, Respond(r) \/ Lose(r) PROVE Base'
  BY <1>5, EndKeepsBase DEF Respond, Lose
<1>6. ASSUME List PROVE Base'
  BY <1>6, ListKeepsBase
<1>7. ASSUME UNCHANGED vars PROVE Base'
  <2>1. TypeOK'
    BY <1>7 DEF vars, Base, TypeOK
  <2>2. Dated'
    BY <1>7 DEF vars, Base, Dated
  <2>3. ASSUME NEW r \in Request PROVE Acts(r)' /\ Paced(r)'
    <3>1. Acts(r) /\ Paced(r)
      BY DEF Base
    <3> QED BY <1>7, <3>1 DEF Acts, Active, Paced, Ids, vars
  <2> QED BY <2>1, <2>2, <2>3 DEF Base
<1> QED BY <1>1, <1>2, <1>3, <1>4, <1>5, <1>6, <1>7 DEF Next, Record

LEMMA BaseInvariant == Spec => []Base
<1>1. Base /\ [Next]_vars => Base'
  BY NextKeepsBase
<1> QED BY InitBase, <1>1, PTL DEF Spec

\* Nothing is ever of another type: no event of a request that names no
\* account, no page beyond the bounds the routers set, no list of accounts
\* that a deletion makes shorter.
THEOREM AuditTypeCorrect == Spec => []TypeOK
BY BaseInvariant, PTL DEF Base

-----------------------------------------------------------------------------
(* The emails that are written.                                            *)

LEMMA InitDrafts ==
  ASSUME Init, NEW r \in Request
  PROVE  Drafts(r)
BY DEF Init, Drafts

\* A draft stays what it is, as what is known of the accounts only grows.
LEMMA NextKeepsDrafts ==
  ASSUME Base, \A r \in Request : Drafts(r), [Next]_vars, NEW q \in Request
  PROVE  Drafts(q)'
<1>1. Drafts(q)
  OBVIOUS
<1>2. ASSUME pc'[q] = pc[q], frame'[q] = frame[q], Active(q) => since[q] \subseteq since'[q]
      PROVE  Drafts(q)'
  BY <1>1, <1>2 DEF Drafts, Active
<1>3. ASSUME NEW r \in Request, NEW name \in Op, NEW u \in Ids \cup {None}, Start(r, name, u)
      PROVE  Drafts(q)'
  <2>1. CASE q = r
    BY <1>3, <2>1 DEF Start, Drafts, Base, TypeOK
  <2>2. CASE q # r
    BY <1>2, <1>3, <2>2 DEF Start, Base, TypeOK
  <2> QED BY <2>1, <2>2
<1>4. ASSUME NEW r \in Request, Act(r) PROVE Drafts(q)'
  <2>1. CASE q = r
    BY <1>4, <2>1, ActKeepsBase DEF Drafts
  <2>2. CASE q # r
    BY <1>2, <1>4, <2>2, ActKeepsBase
  <2> QED BY <2>1, <2>2
<1>5. ASSUME NEW r \in Request, WithActorEmail(r) \/ LookupFails(r) PROVE Drafts(q)'
  <2>1. CASE q = r
    BY <1>5, <2>1, PrepareKeepsBase
  <2>2. CASE q # r
    BY <1>2, <1>5, <2>2 DEF WithActorEmail, LookupFails, Prepare, Base, TypeOK
  <2> QED BY <2>1, <2>2
<1>6. ASSUME NEW r \in Request, NEW kept \in BOOLEAN, Advance(r, kept) PROVE Drafts(q)'
  <2>1. CASE q = r
    BY <1>6, <2>1, AdvanceIs DEF Drafts, Base
  <2>2. CASE q # r
    BY <1>2, <1>6, <2>2, AdvanceIs DEF Base
  <2> QED BY <2>1, <2>2
<1>7. ASSUME NEW r \in Request, End(r, "done") PROVE Drafts(q)'
  <2>1. CASE q = r
    BY <1>7, <2>1 DEF End, Drafts, Base, TypeOK
  <2>2. CASE q # r
    BY <1>2, <1>7, <2>2 DEF End, Base, TypeOK
  <2> QED BY <2>1, <2>2
<1>8. ASSUME List PROVE Drafts(q)'
  BY <1>1, <1>8, ListKeepsBase DEF writers, Drafts
<1>9. ASSUME UNCHANGED vars PROVE Drafts(q)'
  BY <1>1, <1>9 DEF vars, Drafts
<1> QED BY <1>3, <1>4, <1>5, <1>6, <1>7, <1>8, <1>9
        DEF Next, Record, Insert, InsertFails, Respond, Lose

-----------------------------------------------------------------------------
(* The events that are told.                                               *)

\* What a step adds to the events that tell of a call.
LEMMA TellingWith ==
  ASSUME NEW r, NEW call, NEW row
  PROVE  /\ log' = log => Telling(r, call)' = Telling(r, call)
         /\ log' = log \cup {row} =>
               Telling(r, call)' =
                  IF row.by = r /\ row.action = call.action /\ row.target = call.target
                  THEN Telling(r, call) \cup {row} ELSE Telling(r, call)
BY DEF Telling

LEMMA InitTells ==
  ASSUME Init, NEW r \in Request
  PROVE  Tells(r)
BY DEF Init, Tells, Active

\* The one INSERT of an event makes it told.
LEMMA InsertKeepsTells ==
  ASSUME Base, NEW r \in Request, Tells(r), Insert(r)
  PROVE  Tells(r)'
<1>1. pc[r] = "insert" /\ log' = log \cup {Row(r)} /\ Advance(r, TRUE) /\ Active(r)
  BY DEF Insert, Active
<1>2. /\ pc'[r] = IF frame[r].next = Len(frame[r].calls) THEN "respond" ELSE "record"
      /\ frame'[r].calls = frame[r].calls /\ frame'[r].next = frame[r].next + 1
      /\ frame'[r].dropped = frame[r].dropped
  <2>1. frame[r].dropped \in BOOLEAN
    BY DEF Base, TypeOK, Frame
  <2> QED BY <1>1, <2>1, AdvanceIs DEF Base
<1> DEFINE calls == frame[r].calls
           k == frame[r].next
           row == Row(r)
<1>3. /\ k \in DOMAIN calls /\ k \in Nat /\ DOMAIN calls \subseteq Nat
      /\ \A i, j \in DOMAIN calls : calls[i].action = calls[j].action => i = j
      /\ row.by = r /\ row.action = calls[k].action /\ row.target = calls[k].target
  <2>1. calls \in Seq(Call) /\ k \in Nat
    BY DEF Base, TypeOK, Frame
  <2>2. Paced(r)
    BY DEF Base
  <2>3. /\ k \in DOMAIN calls
        /\ \A i, j \in DOMAIN calls : calls[i].action = calls[j].action => i = j
    BY <1>1, <2>2 DEF Paced
  <2>4. row.by = r /\ row.action = calls[k].action /\ row.target = calls[k].target
    BY <1>1, RowIsEvent DEF Deed
  <2> QED BY <2>1, <2>3, <2>4, LenProperties
<1> HIDE DEF row
<1>4. ASSUME ~frame[r].dropped, NEW i \in DOMAIN calls
      PROVE  LET told == {e \in log' : e.by = r /\ e.action = calls[i].action
                                               /\ e.target = calls[i].target}
             IN  IF i < k + 1 THEN \E x \in log' : told = {x} ELSE told = {}
  <2> DEFINE old == {e \in log : e.by = r /\ e.action = calls[i].action
                                          /\ e.target = calls[i].target}
             new == {e \in log' : e.by = r /\ e.action = calls[i].action
                                           /\ e.target = calls[i].target}
  <2>1. IF i < k THEN \E x \in log : old = {x} ELSE old = {}
    BY <1>1, <1>4 DEF Tells, Telling
  <2>2. log' = log \cup {row}
    BY <1>1 DEF row
  <2>3. CASE i = k
    <3>1. old = {}
      BY <1>3, <2>1, <2>3
    <3>2. new = old \cup {row} /\ row \in log'
      BY <1>3, <2>2, <2>3
    <3> HIDE DEF old, new
    <3>3. new = {row} /\ i < k + 1
      BY <1>3, <2>3, <3>1, <3>2
    <3> QED BY <3>2, <3>3 DEF new
  <2>4. CASE i # k
    <3>1. row.action # calls[i].action
      BY <1>3, <2>4
    <3>2. new = old
      BY <2>2, <3>1
    <3>3. i < k + 1 <=> i < k
      BY <1>3, <2>4
    <3> HIDE DEF old, new
    <3>4. IF i < k + 1 THEN \E x \in log' : new = {x} ELSE new = {}
      BY <2>1, <2>2, <3>2, <3>3
    <3> QED BY <3>4 DEF new
  <2> QED BY <2>3, <2>4
<1>5. ~frame[r].dropped => \A i \in DOMAIN calls :
          IF i < k + 1 THEN \E x \in log' : Telling(r, calls[i])' = {x}
          ELSE Telling(r, calls[i])' = {}
  BY <1>2, <1>4 DEF Telling
<1> QED BY <1>2, <1>5 DEF Tells

LEMMA NextKeepsTells ==
  ASSUME Base, \A r \in Request : Tells(r), [Next]_vars, NEW q \in Request
  PROVE  Tells(q)'
<1>1. Tells(q)
  OBVIOUS
<1>2. ASSUME log' = log, frame'[q].calls = frame[q].calls, frame'[q].next = frame[q].next,
             frame'[q].dropped = frame[q].dropped, Active(q)' => Active(q),
             pc'[q] \in {"idle", "act", "reread"} => pc[q] \in {"idle", "act", "reread"}
      PROVE  Tells(q)'
  BY <1>1, <1>2 DEF Tells, Telling
<1>3. ASSUME NEW r \in Request, NEW name \in Op, NEW u \in Ids \cup {None}, Start(r, name, u)
      PROVE  Tells(q)'
  <2>1. CASE q = r
    <3>1. pc[q] = "idle" /\ log' = log /\ frame'[q].calls = <<>>
      BY <1>3, <2>1 DEF Start, Base, TypeOK, NoFrame
    <3> QED BY <1>1, <3>1, NoEvents DEF Tells
  <2>2. CASE q # r
    BY <1>2, <1>3, <2>2 DEF Start, Base, TypeOK, Active
  <2> QED BY <2>1, <2>2
<1>4. ASSUME NEW r \in Request, Act(r) PROVE Tells(q)'
  <2>1. CASE q = r
    <3>1. /\ log' = log /\ \A e \in log : e.by # q
          /\ frame'[q].next = 1
      BY <1>1, <1>4, <2>1, ActKeepsBase DEF Tells
    <3>2. \A i \in DOMAIN frame'[q].calls : ~(i < 1)
      <4>1. frame'[q].calls \in Seq(Call)
        BY <1>4, ActKeepsBase DEF Base, TypeOK, Frame
      <4> QED BY <4>1, LenProperties
    <3> QED BY <3>1, <3>2 DEF Tells, Telling
  <2>2. CASE q # r
    BY <1>2, <1>4, <2>2, ActKeepsBase DEF Active
  <2> QED BY <2>1, <2>2
<1>5. ASSUME NEW r \in Request, WithActorEmail(r) \/ LookupFails(r) PROVE Tells(q)'
  <2>1. PICK email \in Email \cup {None}, failed \in BOOLEAN : Prepare(r, email, failed)
    BY <1>5, Prepares
  <2>2. CASE q = r
    <3>1. pc[q] = "record" /\ pc'[q] = "insert" /\ log' = log
      BY <1>5, <2>1, <2>2, Prepares, PrepareIs DEF Prepare
    <3> QED BY <1>2, <2>1, <2>2, <3>1, PrepareIs DEF Active
  <2>3. CASE q # r
    BY <1>2, <2>1, <2>3, PrepareIs DEF Prepare, Active
  <2> QED BY <2>2, <2>3
<1>6. ASSUME NEW r \in Request, Insert(r) PROVE Tells(q)'
  <2>1. CASE q = r
    BY <1>1, <1>6, <2>1, InsertKeepsTells
  <2>2. CASE q # r
    <3>1. /\ log' = log \cup {Row(r)} /\ Row(r).by # q
          /\ frame'[q] = frame[q] /\ pc'[q] = pc[q]
      <4>1. log' = log \cup {Row(r)} /\ Advance(r, TRUE) /\ pc[r] = "insert" /\ TypeOK
        BY <1>6 DEF Insert, Base
      <4>2. Row(r).by = r
        BY <4>1, RowIsEvent
      <4>3. frame'[q] = frame[q] /\ pc'[q] = pc[q]
        BY <2>2, <4>1, AdvanceIs
      <4> QED BY <2>2, <4>1, <4>2, <4>3
    <3>2. \A call : Telling(q, call)' = Telling(q, call)
      BY <3>1 DEF Telling
    <3> QED BY <1>1, <3>1, <3>2 DEF Tells, Telling, Active
  <2> QED BY <2>1, <2>2
<1>7. ASSUME NEW r \in Request, InsertFails(r) PROVE Tells(q)'
  <2>1. CASE q = r
    <3>1. frame'[q].dropped /\ pc'[q] \in {"record", "respond"}
      BY <1>7, <2>1, AdvanceIs DEF InsertFails, Base
    <3> QED BY <3>1 DEF Tells
  <2>2. CASE q # r
    <3>1. Advance(r, FALSE) /\ log' = log /\ TypeOK
      BY <1>7 DEF InsertFails, Base
    <3>2. frame'[q] = frame[q] /\ pc'[q] = pc[q]
      BY <2>2, <3>1, AdvanceIs
    <3> QED BY <1>2, <3>1, <3>2 DEF Active
  <2> QED BY <2>1, <2>2
<1>8. ASSUME NEW r \in Request, End(r, "done") PROVE Tells(q)'
  <2>1. CASE q = r
    BY <1>8, <2>1 DEF End, Tells, Active, Base, TypeOK
  <2>2. CASE q # r
    BY <1>2, <1>8, <2>2 DEF End, Base, TypeOK, Active
  <2> QED BY <2>1, <2>2
<1>9. ASSUME List PROVE Tells(q)'
  BY <1>2, <1>9, ListKeepsBase DEF writers, Active
<1>10. ASSUME UNCHANGED vars PROVE Tells(q)'
  BY <1>2, <1>10 DEF vars, Active
<1> QED BY <1>3, <1>4, <1>5, <1>6, <1>7, <1>8, <1>9, <1>10
        DEF Next, Record, Respond, Lose

-----------------------------------------------------------------------------
(* Births and deaths.                                                      *)

\* A request keeps what it is about to tell.
Same(q) ==
    /\ pc'[q] \in {"record", "insert"} => pc[q] \in {"record", "insert"}
    /\ frame'[q].calls = frame[q].calls /\ frame'[q].next = frame[q].next
    /\ frame'[q].actor = frame[q].actor

\* It has come to tell of neither a birth nor a death ...
Silent(q) == Alone(q)' /\ ~ToTell(q, Births \cup Deaths)'

\* ... or of the birth of an account that was not ...
Born(q) ==
    /\ Alone(q)' /\ ToTell(q, Births)' /\ ~ToTell(q, Deaths)'
    /\ MadeBy(q)' \notin Ids /\ MadeBy(q)' \in Ids'

\* ... or of the death of one that was.
Died(q) ==
    /\ Alone(q)' /\ ToTell(q, Deaths)' /\ ~ToTell(q, Births)'
    /\ Exists(Deed(q)'.target) /\ Gone(Deed(q).target)'

\* What is told of births and deaths, and what is yet to be.
Deeds == Told /\ \A r \in Request : Untold(r)

\* What is kept of a request, by the fields it is kept in.
LEMMA SameKeeps ==
  ASSUME Deeds, NEW q \in Request, Same(q)
  PROVE  /\ Alone(q)' /\ Deed(q)' = Deed(q) /\ MadeBy(q)' = MadeBy(q)
         /\ ToTell(q, Births)' => ToTell(q, Births)
         /\ ToTell(q, Deaths)' => ToTell(q, Deaths)
<1>1. Deed(q)' = Deed(q)
  BY DEF Same, Deed
<1>2. MadeBy(q)' = MadeBy(q)
  BY <1>1 DEF Same, MadeBy
<1>3. Alone(q)'
  BY DEF Deeds, Untold, Same, Alone
<1> QED BY <1>1, <1>2, <1>3 DEF Same, ToTell

\* What one request is to tell, while the log tells of no other deed.
LEMMA DeedsStay ==
  ASSUME Deeds, Creations' = Creations, Deletions' = Deletions, NEW r \in Request,
         \A u \in Ids : u \in Ids' /\ (accounts[u] = None => accounts'[u] = None),
         \A q \in Request \ {r} : Same(q),
         Same(r) \/ Silent(r) \/ Born(r) \/ Died(r)
  PROVE  Deeds'
<1>1. \A q \in Request : Untold(q) /\ Alone(q)
  BY DEF Deeds, Untold
<1>2. Told'
  BY DEF Deeds, Told, Gone
<1>3. ASSUME NEW q \in Request, Same(q)
      PROVE  /\ Alone(q)' /\ Deed(q)' = Deed(q) /\ MadeBy(q)' = MadeBy(q)
             /\ ToTell(q, Births)' => ToTell(q, Births)
             /\ ToTell(q, Deaths)' => ToTell(q, Deaths)
  BY <1>3, SameKeeps
<1>4. ASSUME NEW q \in Request PROVE Alone(q)'
  BY <1>3 DEF Silent, Born, Died
<1>5. ASSUME NEW q \in Request, ToTell(q, Births)'
      PROVE  /\ MadeBy(q)' \in Ids' /\ \A e \in Creations : Made(e) # MadeBy(q)'
             /\ \/ Same(q) /\ MadeBy(q)' = MadeBy(q) /\ ToTell(q, Births)
                \/ q = r /\ Born(r)
  <2>1. CASE Same(q)
    BY <1>1, <1>3, <1>5, <2>1 DEF Untold
  <2>2. CASE q = r /\ Born(r)
    BY <2>2 DEF Born, Deeds, Told
  <2>3. ~(Silent(q) \/ Died(q))
    BY <1>5 DEF Silent, Died, ToTell
  <2> QED BY <2>1, <2>2, <2>3
<1>6. ASSUME NEW q \in Request, ToTell(q, Births)', NEW p \in Request, ToTell(p, Births)',
             MadeBy(p)' = MadeBy(q)'
      PROVE  p = q
  <2>1. CASE Same(p) /\ Same(q)
    BY <1>1, <1>3, <1>6, <2>1 DEF Untold
  <2>2. CASE Same(p) /\ q = r /\ Born(r)
    BY <1>1, <1>3, <1>6, <2>2 DEF Untold, Born
  <2>3. CASE Same(q) /\ p = r /\ Born(r)
    BY <1>1, <1>3, <1>6, <2>3 DEF Untold, Born
  <2> QED BY <1>5, <1>6, <2>1, <2>2, <2>3
<1>7. ASSUME NEW q \in Request, ToTell(q, Deaths)'
      PROVE  /\ Gone(Deed(q).target)' /\ \A e \in Deletions : e.target # Deed(q)'.target
             /\ \/ Same(q) /\ Deed(q)' = Deed(q) /\ ToTell(q, Deaths)
                \/ q = r /\ Died(r)
  <2>1. CASE Same(q)
    BY <1>1, <1>3, <1>7, <2>1 DEF Untold, Gone
  <2>2. CASE q = r /\ Died(r)
    BY <2>2 DEF Died, Deeds, Told, Exists, Gone
  <2>3. ~(Silent(q) \/ Born(q))
    BY <1>7 DEF Silent, Born, ToTell
  <2> QED BY <2>1, <2>2, <2>3
<1>8. ASSUME NEW q \in Request, ToTell(q, Deaths)', NEW p \in Request, ToTell(p, Deaths)',
             Deed(p)'.target = Deed(q)'.target
      PROVE  p = q
  <2>1. CASE Same(p) /\ Same(q)
    BY <1>1, <1>3, <1>8, <2>1 DEF Untold
  <2>2. CASE Same(p) /\ q = r /\ Died(r)
    BY <1>1, <1>3, <1>8, <2>2 DEF Untold, Died, Exists, Gone
  <2>3. CASE Same(q) /\ p = r /\ Died(r)
    BY <1>1, <1>3, <1>8, <2>3 DEF Untold, Died, Exists, Gone
  <2> QED BY <1>7, <1>8, <2>1, <2>2, <2>3
<1>9. ASSUME NEW q \in Request PROVE Untold(q)'
  BY <1>4, <1>5, <1>6, <1>7, <1>8 DEF Untold
<1> QED BY <1>2, <1>9 DEF Deeds

\* Once a deed is told, or lost, its request has nothing more to tell of it.
LEMMA AdvanceIsSilent ==
  ASSUME Base, Deeds, NEW r \in Request, NEW kept \in BOOLEAN, Advance(r, kept),
         pc[r] = "insert"
  PROVE  /\ Silent(r) /\ \A q \in Request \ {r} : Same(q)
         /\ UNCHANGED accounts
<1>1. /\ pc'[r] = IF frame[r].next = Len(frame[r].calls) THEN "respond" ELSE "record"
      /\ frame'[r].calls = frame[r].calls /\ frame'[r].next = frame[r].next + 1
      /\ \A q \in Request \ {r} : frame'[q] = frame[q] /\ pc'[q] = pc[q]
      /\ UNCHANGED accounts
  BY AdvanceIs DEF Base
<1>2. Alone(r)'
  BY <1>1 DEF Deeds, Untold, Alone
<1>3. ASSUME ToTell(r, Births \cup Deaths)' PROVE FALSE
  <2>1. frame[r].calls \in Seq(Call) /\ frame[r].next \in Nat /\ frame[r].next \in DOMAIN frame[r].calls
    BY DEF Base, TypeOK, Frame, Paced
  <2>2. /\ DOMAIN frame[r].calls = 1 .. Len(frame[r].calls) /\ Len(frame[r].calls) \in Nat
    BY <2>1, LenProperties
  <2>3. frame[r].next # Len(frame[r].calls)
    BY <1>1, <1>3 DEF ToTell
  <2>4. frame[r].next + 1 \in DOMAIN frame[r].calls /\ Len(frame[r].calls) # 1
    <3> DEFINE k == frame[r].next
               n == Len(frame[r].calls)
    <3>1. k \in 1 .. n /\ n \in Nat /\ k \in Nat /\ k # n
      BY <2>1, <2>2, <2>3
    <3> HIDE DEF k, n
    <3>2. k + 1 \in 1 .. n /\ n # 1
      BY <3>1
    <3> QED BY <2>2, <3>2 DEF k, n
  <2>5. frame[r].calls[frame[r].next + 1].action \in Births \cup Deaths
    BY <1>1, <1>3 DEF ToTell, Deed
  <2>6. Alone(r)
    BY DEF Deeds, Untold
  <2> QED BY <2>4, <2>5, <2>6 DEF Alone
<1> QED BY <1>1, <1>2, <1>3 DEF Silent, Same

\* The events a step adds to births and deaths.
LEMMA InsertTells ==
  ASSUME Base, NEW r \in Request, Insert(r)
  PROVE  /\ Creations' = IF ToTell(r, Births) THEN Creations \cup {Row(r)} ELSE Creations
         /\ Deletions' = IF ToTell(r, Deaths) THEN Deletions \cup {Row(r)} ELSE Deletions
         /\ ToTell(r, Births) => Made(Row(r)) = MadeBy(r)
         /\ Row(r).target = Deed(r).target
<1>1. /\ log' = log \cup {Row(r)} /\ pc[r] = "insert"
      /\ Row(r).action = Deed(r).action /\ Row(r).target = Deed(r).target
      /\ Row(r).actor = frame[r].actor
  BY RowIsEvent DEF Insert
<1>2. /\ ToTell(r, Births) <=> Row(r).action \in {"register", "user.create"}
      /\ ToTell(r, Deaths) <=> Row(r).action = "user.delete"
  BY <1>1 DEF ToTell, Births, Deaths
<1>3. Made(Row(r)) = MadeBy(r)
  BY <1>1 DEF Made, MadeBy
<1> QED BY <1>1, <1>2, <1>3 DEF Creations, Deletions

\* A birth or a death that is told was told nowhere else.
LEMMA InsertKeepsDeeds ==
  ASSUME Base, Deeds, NEW r \in Request, Insert(r)
  PROVE  Deeds'
<1> DEFINE row == Row(r)
<1>1. /\ Silent(r) /\ (\A q \in Request \ {r} : Same(q)) /\ UNCHANGED accounts
  BY AdvanceIsSilent DEF Insert
<1>2. /\ Creations' = IF ToTell(r, Births) THEN Creations \cup {row} ELSE Creations
      /\ Deletions' = IF ToTell(r, Deaths) THEN Deletions \cup {row} ELSE Deletions
      /\ ToTell(r, Births) => Made(row) = MadeBy(r)
      /\ row.target = Deed(r).target
  BY InsertTells
<1> HIDE DEF row
<1>3. \A q \in Request : Untold(q)
  BY DEF Deeds
<1>4. Ids' = Ids
  BY <1>1 DEF Ids
<1>5. Told'
  <2>1. /\ \A e \in Creations' : Made(e) \in Ids
        /\ \A d, e \in Creations' : Made(d) = Made(e) => d = e
    BY <1>2, <1>3 DEF Deeds, Told, Untold
  <2>2. /\ \A e \in Deletions' : Gone(e.target)
        /\ \A d, e \in Deletions' : d.target = e.target => d = e
    BY <1>2, <1>3 DEF Deeds, Told, Untold
  <2> QED BY <1>1, <1>4, <2>1, <2>2 DEF Told, Gone
<1>6. Untold(r)'
  BY <1>1 DEF Silent, Untold, ToTell
<1>7. ASSUME NEW q \in Request \ {r} PROVE Untold(q)'
  <2>1. /\ Alone(q)' /\ Deed(q)' = Deed(q) /\ MadeBy(q)' = MadeBy(q)
        /\ ToTell(q, Births)' => ToTell(q, Births)
        /\ ToTell(q, Deaths)' => ToTell(q, Deaths)
    BY <1>1, SameKeeps
  <2>2. ASSUME ToTell(q, Births)'
        PROVE  /\ MadeBy(q)' \in Ids'
               /\ \A e \in Creations' : Made(e) # MadeBy(q)'
               /\ \A p \in Request : ToTell(p, Births)' /\ MadeBy(p)' = MadeBy(q)' => p = q
    <3>1. Untold(q) /\ Untold(r) /\ ToTell(q, Births)
      BY <1>3, <2>1, <2>2
    <3>2. \A e \in Creations' : Made(e) # MadeBy(q)
      BY <1>2, <3>1 DEF Untold
    <3>3. ASSUME NEW p \in Request, ToTell(p, Births)', MadeBy(p)' = MadeBy(q)' PROVE p = q
      <4>1. p # r
        BY <1>1, <3>3 DEF Silent, ToTell
      <4>2. ToTell(p, Births) /\ MadeBy(p) = MadeBy(q)
        BY <1>1, <2>1, <3>3, <4>1, SameKeeps
      <4> QED BY <3>1, <4>2 DEF Untold
    <3> QED BY <1>4, <2>1, <3>1, <3>2, <3>3 DEF Untold
  <2>3. ASSUME ToTell(q, Deaths)'
        PROVE  /\ Gone(Deed(q).target)'
               /\ \A e \in Deletions' : e.target # Deed(q)'.target
               /\ \A p \in Request :
                     ToTell(p, Deaths)' /\ Deed(p)'.target = Deed(q)'.target => p = q
    <3>1. Untold(q) /\ Untold(r) /\ ToTell(q, Deaths)
      BY <1>3, <2>1, <2>3
    <3>2. \A e \in Deletions' : e.target # Deed(q).target
      BY <1>2, <3>1 DEF Untold
    <3>3. ASSUME NEW p \in Request, ToTell(p, Deaths)', Deed(p)'.target = Deed(q)'.target
          PROVE  p = q
      <4>1. p # r
        BY <1>1, <3>3 DEF Silent, ToTell
      <4>2. ToTell(p, Deaths) /\ Deed(p).target = Deed(q).target
        BY <1>1, <2>1, <3>3, <4>1, SameKeeps
      <4> QED BY <3>1, <4>2 DEF Untold
    <3>4. Gone(Deed(q).target)
      BY <3>1 DEF Untold
    <3> QED BY <1>1, <1>4, <2>1, <3>2, <3>3, <3>4 DEF Gone
  <2> QED BY <2>1, <2>2, <2>3 DEF Untold
<1> QED BY <1>5, <1>6, <1>7 DEF Deeds

\* Events of which none tells of a birth or a death.
Quiet(events) == \A i \in DOMAIN events : events[i].action \notin Births \cup Deaths

\* The events of logins, refreshes, logouts, updates and role assignments.
LEMMA QuietEvents ==
  /\ Quiet(<<>>)
  /\ \A a \in AuditAction \ (Births \cup Deaths), u \in User \cup {None} :
        Quiet(<<[action |-> a, target |-> u]>>) /\ Quiet(<<Plain(a)>>)
  /\ Quiet(<<Plain("token.ip_changed"), Plain("token.refreshed")>>)
<1>1. Quiet(<<>>)
  BY NoEvents DEF Quiet
<1>2. ASSUME NEW a \in AuditAction \ (Births \cup Deaths), NEW u \in User \cup {None}
      PROVE  Quiet(<<[action |-> a, target |-> u]>>) /\ Quiet(<<Plain(a)>>)
  <2>1. [action |-> a, target |-> u] \in Call /\ Plain(a) \in Call /\ Plain(a).action = a
    BY PlainIsCall DEF Call
  <2> QED BY <1>2, <2>1, OneEvent DEF Quiet
<1>3. Quiet(<<Plain("token.ip_changed"), Plain("token.refreshed")>>)
  <2>1. /\ Plain("token.ip_changed") \in Call /\ Plain("token.refreshed") \in Call
        /\ Plain("token.ip_changed").action = "token.ip_changed"
        /\ Plain("token.refreshed").action = "token.refreshed"
    BY PlainIsCall DEF AuditAction
  <2> QED BY <2>1, TwoEvents DEF Quiet, Births, Deaths
<1> QED BY <1>1, <1>2, <1>3

\* A use case that ends with them is silent.
LEMMA QuietIsSilent ==
  ASSUME Base', NEW r \in Request, Quiet(frame'[r].calls)
  PROVE  Silent(r)
<1>1. pc'[r] \in {"record", "insert"} => frame'[r].next \in DOMAIN frame'[r].calls
  BY DEF Base, Paced
<1> QED BY <1>1 DEF Quiet, Silent, Alone, ToTell, Deed

\* The events a use case ends with.
LEMMA ThenCalls ==
  ASSUME TypeOK, NEW r \in Request, NEW actor, NEW email, NEW events,
         Then(r, actor, email, events)
  PROVE  frame'[r].calls = events /\ frame'[r].actor = actor
BY DEF Then, TypeOK, Frame

\* Only registrations and deletions have more to tell.
LEMMA ActDeeds ==
  ASSUME Base, NEW r \in Request, Act(r)
  PROVE  Silent(r) \/ Born(r) \/ Died(r)
<1>1. /\ Base' /\ TypeOK /\ frame'[r].next = 1 /\ Active(r) /\ pc[r] \in {"act", "reread"}
      /\ Ids \subseteq User
  BY ActKeepsBase, IdsAreUsers DEF Base, Active
<1>2. ASSUME NEW actor, NEW email, NEW events, Then(r, actor, email, events), Quiet(events)
      PROVE  Silent(r)
  BY <1>1, <1>2, ThenCalls, QuietIsSilent
<1>3. Nothing(r) => Silent(r)
  BY <1>2, QuietEvents DEF Nothing
<1>4. ASSUME NEW a \in AuditAction \ (Births \cup Deaths), NEW u \in Ids
      PROVE  /\ ByPrincipal(r, a, u) => Silent(r)
             /\ \A actor, email : Then(r, actor, email, <<Plain(a)>>) => Silent(r)
  BY <1>1, <1>2, <1>4, QuietEvents DEF ByPrincipal
<1>5. ASSUME NEW a \in AuditAction \ (Births \cup Deaths)
      PROVE  \A actor, email : Then(r, actor, email, <<Plain(a)>>) => Silent(r)
  BY <1>2, <1>5, QuietEvents
<1>6. /\ {"login.success", "login.failure", "token.refreshed", "token.reuse_detected",
           "token.binding_mismatch", "logout", "user.update", "role.assign"}
            \subseteq AuditAction \ (Births \cup Deaths)
  BY DEF AuditAction, Births, Deaths
<1>7. CASE Login(r)
  BY <1>5, <1>6, <1>7 DEF Login
<1>8. CASE Refresh(r)
  BY <1>2, <1>3, <1>5, <1>6, <1>8, QuietEvents DEF Refresh
<1>9. CASE Logout(r) \/ LogoutAll(r)
  BY <1>3, <1>5, <1>6, <1>9 DEF Logout, LogoutAll
<1>10. CASE Reread(r)
  <2>1. PICK u \in Ids : frame[r].calls = <<[action |-> "user.update", target |-> u]>>
    BY <1>10 DEF Base, Paced, Reread
  <2>2. frame[r].calls[1].target = u
    BY <2>1
  <2> QED BY <1>3, <1>4, <1>6, <1>10, <2>2 DEF Reread
<1>11. ASSUME NEW u \in Ids, AssignRole(r, u) PROVE Silent(r)
  BY <1>3, <1>4, <1>6, <1>11 DEF AssignRole
<1>12. ASSUME NEW u \in Ids, NEW e \in Email, UpdateUser(r, u, e) PROVE Silent(r)
  <2>1. CASE Nothing(r)
    BY <1>3, <2>1
  <2>2. CASE frame' = [frame EXCEPT ![r].calls = <<[action |-> "user.update", target |-> u]>>]
    <3>1. frame'[r].calls = <<[action |-> "user.update", target |-> u]>>
      BY <1>1, <2>2 DEF TypeOK, Frame
    <3> QED BY <1>1, <1>6, <3>1, QuietEvents, QuietIsSilent
  <2> QED BY <1>12, <2>1, <2>2 DEF UpdateUser
<1>13. ASSUME NEW c \in Call, c.action \in Births \cup Deaths, NEW actor, NEW email,
              Then(r, actor, email, <<c>>)
       PROVE  /\ Alone(r)' /\ Deed(r)' = c /\ frame'[r].actor = actor
              /\ ToTell(r, Births)' <=> c.action \in Births
              /\ ToTell(r, Deaths)' <=> c.action \in Deaths
  <2>1. /\ frame'[r].calls = <<c>> /\ frame'[r].actor = actor
        /\ Len(<<c>>) = 1 /\ <<c>>[1] = c /\ <<c>> # <<>>
    BY <1>1, <1>13, ThenCalls, OneEvent
  <2>2. pc'[r] = "record"
    BY <1>1, <1>13, <2>1 DEF Then, TypeOK
  <2>3. Deed(r)' = c
    BY <1>1, <2>1 DEF Deed
  <2>4. Alone(r)'
    BY <2>1 DEF Alone
  <2> QED BY <2>1, <2>2, <2>3, <2>4 DEF ToTell
<1>14. ASSUME NEW e \in Email, Register(r, e) PROVE Silent(r) \/ Born(r)
  <2> DEFINE u == Len(accounts) + 1
  <2>1. CASE Nothing(r)
    BY <1>3, <2>1
  <2>2. CASE u \in User /\ Becomes(Append(accounts, e)) /\ RecordRegistration(r, u, e)
    <3>1. u \notin Ids /\ u \in Ids'
      <4>1. accounts' = Append(accounts, e) /\ accounts \in Seq(Email \cup {None})
            /\ e \in Email \cup {None}
        BY <1>1, <2>2 DEF Becomes, TypeOK
      <4>2. Len(accounts') = u /\ Len(accounts) \in Nat
        BY <4>1, AppendProperties, LenProperties
      <4> QED BY <4>2 DEF Ids
    <3> HIDE DEF u
    <3>2. CASE Then(r, u, e, <<Plain("register")>>)
      <4>1. Plain("register") \in Call /\ Plain("register").action = "register"
        BY PlainIsCall DEF AuditAction
      <4>2. /\ Alone(r)' /\ Deed(r)' = Plain("register") /\ frame'[r].actor = u
            /\ ToTell(r, Births)' /\ ~ToTell(r, Deaths)'
        BY <1>13, <3>2, <4>1 DEF Births, Deaths
      <4>3. MadeBy(r)' = u
        BY <4>1, <4>2 DEF MadeBy
      <4> QED BY <3>1, <4>2, <4>3 DEF Born
    <3>3. CASE ByPrincipal(r, "user.create", u)
      <4> DEFINE c == [action |-> "user.create", target |-> u]
      <4>1. c \in Call /\ c.action = "user.create" /\ c.target = u
        BY <2>2 DEF Call, AuditAction, u
      <4>2. Then(r, frame[r].principal, None, <<c>>)
        BY <3>3 DEF ByPrincipal
      <4> HIDE DEF c
      <4>3. /\ Alone(r)' /\ Deed(r)' = c
            /\ ToTell(r, Births)' /\ ~ToTell(r, Deaths)'
        BY <1>13, <4>1, <4>2 DEF Births, Deaths
      <4>4. MadeBy(r)' = u
        BY <4>1, <4>3 DEF MadeBy
      <4> QED BY <3>1, <4>3, <4>4 DEF Born
    <3> QED BY <2>2, <3>2, <3>3 DEF RecordRegistration, u
  <2> QED BY <1>14, <2>1, <2>2 DEF Register
<1>15. ASSUME NEW u \in Ids, DeleteUser(r, u) PROVE Silent(r) \/ Died(r)
  <2>1. CASE Nothing(r)
    BY <1>3, <2>1
  <2>2. CASE /\ Exists(u) /\ Becomes([accounts EXCEPT ![u] = None])
             /\ ByPrincipal(r, "user.delete", u)
    <3> DEFINE c == [action |-> "user.delete", target |-> u]
    <3>1. c \in Call /\ c.action = "user.delete" /\ c.target = u
      BY <1>1 DEF Call, AuditAction
    <3>2. Then(r, frame[r].principal, None, <<c>>)
      BY <2>2 DEF ByPrincipal
    <3> HIDE DEF c
    <3>3. /\ Alone(r)' /\ Deed(r)' = c /\ ToTell(r, Deaths)' /\ ~ToTell(r, Births)'
      BY <1>13, <3>1, <3>2 DEF Births, Deaths
    <3>4. accounts'[u] = None /\ u \in Ids'
      <4>1. accounts \in Seq(Email \cup {None}) /\ u \in 1 .. Len(accounts)
            /\ accounts' = [accounts EXCEPT ![u] = None] /\ None \in Email \cup {None}
        BY <1>1, <2>2 DEF TypeOK, Ids, Becomes
      <4>2. Len(accounts') = Len(accounts) /\ accounts'[u] = None
        BY <4>1, ExceptSeq
      <4> QED BY <4>1, <4>2 DEF Ids
    <3>5. Gone(u)'
      BY <3>4 DEF Gone
    <3> QED BY <2>2, <3>1, <3>3, <3>4, <3>5 DEF Died, Gone
  <2> QED BY <1>15, <2>1, <2>2 DEF DeleteUser
<1> QED BY <1>7, <1>8, <1>9, <1>10, <1>11, <1>12, <1>14, <1>15 DEF Act

LEMMA InitDeeds ==
  ASSUME Init
  PROVE  Deeds
<1>1. \A r \in Request : frame[r].calls = <<>> /\ pc[r] = "idle"
  BY DEF Init, NoFrame
<1> QED BY <1>1, NoEvents DEF Init, Deeds, Told, Creations, Deletions, Untold, Alone, ToTell

LEMMA NextKeepsDeeds ==
  ASSUME Base, Deeds, [Next]_vars
  PROVE  Deeds'
<1>1. ASSUME NEW r \in Request, Silent(r), \A q \in Request \ {r} : Same(q), log' = log,
             accounts' = accounts
      PROVE  Deeds'
  BY <1>1, DeedsStay DEF Creations, Deletions, Ids
<1>2. ASSUME NEW r \in Request, NEW name \in Op, NEW u \in Ids \cup {None}, Start(r, name, u)
      PROVE  Deeds'
  <2>1. /\ frame'[r].calls = <<>> /\ pc'[r] = "act" /\ log' = log /\ accounts' = accounts
        /\ \A q \in Request \ {r} : frame'[q] = frame[q] /\ pc'[q] = pc[q]
    BY <1>2 DEF Start, Base, TypeOK, NoFrame
  <2>2. Silent(r)
    BY <2>1, NoEvents DEF Silent, Alone, ToTell
  <2> QED BY <1>1, <2>1, <2>2 DEF Same
<1>3. ASSUME NEW r \in Request, Act(r) PROVE Deeds'
  <2>1. /\ log' = log /\ \A q \in Request \ {r} : Same(q)
    BY <1>3, ActKeepsBase DEF Same
  <2>2. \A u \in Ids : u \in Ids' /\ (accounts[u] = None => accounts'[u] = None)
    BY <1>3, ActsHaveOutcomes DEF Outcome, AccountsKept
  <2>3. Silent(r) \/ Born(r) \/ Died(r)
    BY <1>3, ActDeeds
  <2> QED BY <2>1, <2>2, <2>3, DeedsStay DEF Creations, Deletions
<1>4. ASSUME NEW r \in Request, WithActorEmail(r) \/ LookupFails(r) PROVE Deeds'
  <2>1. PICK email \in Email \cup {None}, failed \in BOOLEAN : Prepare(r, email, failed)
    BY <1>4, Prepares
  <2>2. pc[r] = "record"
    BY <1>4, Prepares
  <2>3. \A q \in Request : Same(q)
    BY <2>1, <2>2, PrepareIs DEF Same
  <2>4. Creations' = Creations /\ Deletions' = Deletions /\ accounts' = accounts
    BY <2>1 DEF Prepare, Creations, Deletions
  <2> QED BY <2>3, <2>4, DeedsStay DEF Ids
<1>5. ASSUME NEW r \in Request, Insert(r) PROVE Deeds'
  BY <1>5, InsertKeepsDeeds
<1>6. ASSUME NEW r \in Request, InsertFails(r) PROVE Deeds'
  <2>1. Silent(r) /\ (\A q \in Request \ {r} : Same(q)) /\ UNCHANGED accounts /\ log' = log
    BY <1>6, AdvanceIsSilent DEF InsertFails
  <2> QED BY <1>1, <2>1
<1>7. ASSUME NEW r \in Request, End(r, "done") PROVE Deeds'
  <2>1. /\ frame'[r].calls = <<>> /\ pc'[r] = "done" /\ log' = log /\ accounts' = accounts
        /\ \A q \in Request \ {r} : frame'[q] = frame[q] /\ pc'[q] = pc[q]
    BY <1>7 DEF End, Base, TypeOK, NoFrame
  <2>2. Silent(r)
    BY <2>1, NoEvents DEF Silent, Alone, ToTell
  <2> QED BY <1>1, <2>1, <2>2 DEF Same
<1>8. ASSUME UNCHANGED writers PROVE Deeds'
  <2>1. Told'
    BY <1>8 DEF writers, Deeds, Told, Creations, Deletions, Gone, Ids
  <2>2. ASSUME NEW r \in Request PROVE Untold(r)'
    BY <1>8 DEF writers, Deeds, Untold, Alone, ToTell, MadeBy, Deed, Creations, Deletions, Gone, Ids
  <2> QED BY <2>1, <2>2 DEF Deeds
<1>9. List \/ UNCHANGED vars => UNCHANGED writers
  BY ListKeepsBase DEF vars, writers
<1> QED BY <1>2, <1>3, <1>4, <1>5, <1>6, <1>7, <1>8, <1>9 DEF Next, Record, Respond, Lose

-----------------------------------------------------------------------------
(* The theorems.                                                           *)

LEMMA TrailInvariant == Spec => []TrailInv
<1>1. Init => TrailInv
  BY InitBase, InitDrafts, InitTells, InitDeeds DEF TrailInv, Deeds
<1>2. TrailInv /\ [Next]_vars => TrailInv'
  BY NextKeepsBase, NextKeepsDrafts, NextKeepsTells, NextKeepsDeeds DEF TrailInv, Deeds
<1> QED BY <1>1, <1>2, PTL DEF Spec

\* Whatever requests create, delete and rename at once, and whichever of
\* their INSERTs fail, the log tells of an account's birth once and of its
\* death once, and of its death only when it is gone: DELETE counts its rows
\* and an id is never given again.
THEOREM DeedsAreTrue == Spec => []DeedsAreRecordedOnce
<1>1. TrailInv => DeedsAreRecordedOnce
  BY DEF TrailInv, Told, DeedsAreRecordedOnce, Gone, Exists
<1> QED BY <1>1, TrailInvariant, PTL

\* A request that answers has recorded every event it had to record, once,
\* unless an INSERT failed: a lookup that fails costs no event, and one
\* event none of the next.
THEOREM AnswersAreRecorded == Spec => AnsweredIsRecorded
<1> DEFINE Recorded == \A r \in Request : pc[r] = "respond" /\ ~frame[r].dropped =>
              \A call \in {frame[r].calls[i] : i \in DOMAIN frame[r].calls} :
                  Cardinality({e \in log : /\ e.by = r
                                           /\ e.action = call.action
                                           /\ e.target = call.target}) = 1
<1>1. TrailInv => Recorded
  <2> SUFFICES ASSUME TrailInv, NEW r \in Request, pc[r] = "respond", ~frame[r].dropped,
                      NEW i \in DOMAIN frame[r].calls
               PROVE  Cardinality(Telling(r, frame[r].calls[i])) = 1
    BY DEF Telling
  <2>1. frame[r].calls \in Seq(Call) /\ frame[r].next = Len(frame[r].calls) + 1
    BY DEF TrailInv, Base, TypeOK, Frame, Paced
  <2>2. i < frame[r].next
    BY <2>1, LenProperties
  <2>3. PICK x \in log : Telling(r, frame[r].calls[i]) = {x}
    BY <2>2 DEF TrailInv, Tells, Active
  <2> QED BY <2>3, FS_Singleton
<1>2. TrailInv /\ [Next]_vars => [Recorded]_vars
  BY <1>1
<1>3. Spec => [][Next]_vars
  BY DEF Spec
<1> QED BY <1>2, <1>3, TrailInvariant, PTL DEF AnsweredIsRecorded

\* The email beside an actor is one that account had while the request ran,
\* however it and the others are renamed between the action and the INSERT;
\* it is missing only if the lookup failed or the account was deleted.
THEOREM EmailsAreSnapshots == Spec => EmailSnapshot
<1> DEFINE Snapshot == \A e \in log' \ log : e.actor # None =>
              IF e.email = None
              THEN frame[e.by].draft.failed \/ <<e.actor, None>> \in since[e.by]
              ELSE <<e.actor, e.email>> \in since[e.by]
<1>1. TrailInv /\ [Next]_vars => [Snapshot]_vars
  <2> SUFFICES ASSUME TrailInv, Next, NEW e \in log' \ log, e.actor # None
               PROVE  IF e.email = None
                      THEN frame[e.by].draft.failed \/ <<e.actor, None>> \in since[e.by]
                      ELSE <<e.actor, e.email>> \in since[e.by]
    OBVIOUS
  <2>1. Base
    BY DEF TrailInv
  <2>2. PICK r \in Request : Insert(r)
    <3>1. ASSUME NEW r \in Request, Act(r) PROVE log' = log
      BY <2>1, <3>1, ActKeepsBase
    <3>2. List => log' = log
      BY <2>1, ListKeepsBase DEF writers
    <3> QED BY <3>1, <3>2 DEF Next, Start, Record, WithActorEmail, LookupFails, Prepare,
                              InsertFails, Respond, Lose, End
  <2>3. pc[r] = "insert" /\ e = Row(r)
    BY <2>2 DEF Insert
  <2>4. e.by = r /\ e.actor = frame[r].actor /\ e.email = frame[r].draft.email
    BY <2>1, <2>3, RowIsEvent
  <2>5. Drafts(r)
    BY DEF TrailInv
  <2> QED BY <2>3, <2>4, <2>5 DEF Drafts
<1> QED BY <1>1, TrailInvariant, PTL DEF Spec, EmailSnapshot

-----------------------------------------------------------------------------
(* The listings.  The invariant of a client's walk.                        *)

\* No two events, written or about to be, have one time.
Stamped ==
    /\ \A d, e \in log : d.at = e.at => d = e
    /\ \A r \in Request : pc[r] = "insert" => \A e \in log : e.at # frame[r].draft.at
    /\ \A r, q \in Request :
          pc[r] = "insert" /\ pc[q] = "insert" /\ frame[r].draft.at = frame[q].draft.at => r = q

\* A row the client has not seen, with all the earlier rows there were still
\* in front of it.
Ahead(m) ==
    /\ m \in reader.missing
    /\ Exists(m)
    /\ \A d \in reader.start : d < m => Exists(d)

Before(m) == {y \in reader.start : y < m}
After(m) == {y \in log : y.at > m.at}

\* Where the page the client has, or waits for, ends.
ReadTo == reader.page.offset + reader.page.limit

\* Of the users: it is where it was when the walk began, and the client has
\* not come to it.
UserWalk ==
    reader.list = "users" =>
        /\ reader.start \subseteq Ids /\ reader.missing \subseteq reader.start
        /\ \A y \in Ids, s \in reader.start : Exists(y) /\ y < s => y \in reader.start
        /\ \A m \in reader.start : Ahead(m) =>
              IF reader.pc = "page"
              THEN reader.page.offset <= Cardinality(Before(m))
              ELSE /\ ReadTo <= Cardinality(Before(m))
                   /\ reader.full
                   /\ reader.pc = "answer" => ~reader.last

\* Of the events: it only moves on.
EventWalk ==
    reader.list = "events" =>
        \A m \in reader.missing :
            IF reader.pc = "answer"
            THEN /\ ReadTo <= Cardinality(After(m))
                 /\ reader.full
                 /\ reader.last => reader.stale
            ELSE reader.page.offset <= Cardinality(After(m))

\* A strict order on a set, what it puts before an element, and the places
\* it gives.
Orders(R, S) ==
    /\ \A x \in S : <<x, x>> \notin R
    /\ \A x, y, z \in S : <<x, y>> \in R /\ <<y, z>> \in R => <<x, z>> \in R
    /\ \A x, y \in S : x # y => <<x, y>> \in R \/ <<y, x>> \in R

Prior(R, S, x) == {y \in S : <<y, x>> \in R}

Places(R, S) == [x \in S |-> Cardinality(Prior(R, S, x))]

\* The places in a finite set are 0, 1, ... up to its size.
LEMMA PlacesAreAll ==
  ASSUME NEW S, IsFiniteSet(S), NEW R, Orders(R, S)
  PROVE  /\ Cardinality(S) \in Nat
         /\ Places(R, S) \in [S -> 0 .. Cardinality(S) - 1]
         /\ \A x, y \in S : Places(R, S)[x] = Places(R, S)[y] => x = y
         /\ \A k \in 0 .. Cardinality(S) - 1 : \E x \in S : Places(R, S)[x] = k
<1> DEFINE n == Cardinality(S)
           place == Places(R, S)
<1>1. n \in Nat
  BY FS_CardinalityType
<1>2. ASSUME NEW x \in S PROVE IsFiniteSet(Prior(R, S, x)) /\ Cardinality(Prior(R, S, x)) \in 0 .. n - 1
  <2>1. Prior(R, S, x) \in SUBSET S /\ Prior(R, S, x) # S
    BY DEF Prior, Orders
  <2>2. IsFiniteSet(Prior(R, S, x)) /\ Cardinality(Prior(R, S, x)) <= n
        /\ Cardinality(Prior(R, S, x)) # n
    BY <2>1, FS_Subset
  <2>3. Cardinality(Prior(R, S, x)) \in Nat
    BY <2>2, FS_CardinalityType
  <2> HIDE DEF n
  <2> QED BY <1>1, <2>2, <2>3
<1>3. \A x \in S : place[x] = Cardinality(Prior(R, S, x))
  BY DEF Places
<1>4. place \in [S -> 0 .. n - 1]
  BY <1>2 DEF Places
<1> HIDE DEF place
<1>5. ASSUME NEW x \in S, NEW y \in S, <<x, y>> \in R PROVE place[x] # place[y]
  <2>1. Prior(R, S, x) \in SUBSET Prior(R, S, y) /\ Prior(R, S, x) # Prior(R, S, y)
    BY <1>5 DEF Prior, Orders
  <2>2. Cardinality(Prior(R, S, x)) # Cardinality(Prior(R, S, y))
    BY <1>2, <2>1, FS_Subset
  <2> QED BY <1>3, <2>2
<1>6. \A x, y \in S : place[x] = place[y] => x = y
  BY <1>5 DEF Orders
<1>7. IsFiniteSet(0 .. n - 1) /\ Cardinality(0 .. n - 1) = n
  <2> HIDE DEF n
  <2>1. 0 \in Int /\ n - 1 \in Int
    BY <1>1
  <2>2. IsFiniteSet(0 .. n - 1) /\ Cardinality(0 .. n - 1) = IF 0 > n - 1 THEN 0 ELSE (n - 1) - 0 + 1
    BY <2>1, FS_Interval
  <2> QED BY <1>1, <2>2
<1>8. place \in Injection(S, 0 .. n - 1)
  BY <1>4, <1>6 DEF Injection, IsInjective
<1>9. place \in Surjection(S, 0 .. n - 1)
  BY <1>7, <1>8, FS_Injection
<1>10. \A k \in 0 .. n - 1 : \E x \in S : place[x] = k
  BY <1>9 DEF Surjection
<1> QED BY <1>1, <1>4, <1>6, <1>10 DEF place

\* A page before the end of a listing is full.
LEMMA PageIsFull ==
  ASSUME NEW S, IsFiniteSet(S), NEW R, Orders(R, S),
         NEW o \in Nat, NEW l \in Nat, NEW m \in S, o + l <= Places(R, S)[m]
  PROVE  /\ Cardinality({x \in S : o <= Places(R, S)[x] /\ Places(R, S)[x] < o + l}) = l
         /\ o + l < Cardinality(S)
<1> DEFINE n == Cardinality(S)
           place == Places(R, S)
           page == {x \in S : o <= place[x] /\ place[x] < o + l}
           top == (o + l) - 1
           f == [x \in page |-> place[x]]
<1>1. /\ n \in Nat /\ place \in [S -> 0 .. n - 1]
      /\ \A x, y \in S : place[x] = place[y] => x = y
      /\ \A k \in 0 .. n - 1 : \E x \in S : place[x] = k
  BY PlacesAreAll
<1> HIDE DEF n, place
<1>2. place[m] \in 0 .. n - 1 /\ o + l <= place[m]
  BY <1>1 DEF place
<1>3. o + l < n
  BY <1>1, <1>2
<1>4. IsFiniteSet(page)
  BY FS_Subset
<1>5. ASSUME NEW x \in page PROVE place[x] \in o .. top
  <2>1. place[x] \in 0 .. n - 1 /\ o <= place[x] /\ place[x] < o + l
    BY <1>1
  <2> QED BY <1>1, <2>1
<1>6. ASSUME NEW k \in o .. top PROVE \E x \in page : place[x] = k
  <2>1. k \in 0 .. n - 1
    BY <1>1, <1>3
  <2>2. o <= k /\ k < o + l
    OBVIOUS
  <2>3. PICK x \in S : place[x] = k
    BY <1>1, <2>1
  <2> QED BY <2>2, <2>3
<1>7. \A x \in page : x \in S
  OBVIOUS
<1> HIDE DEF page, top
<1>8. f \in [page -> o .. top] /\ \A x \in page : f[x] = place[x]
  BY <1>5
<1>9. f \in Surjection(page, o .. top)
  BY <1>6, <1>8 DEF Surjection
<1>10. f \in Injection(page, o .. top)
  BY <1>1, <1>7, <1>8 DEF Injection, IsInjective
<1>11. Cardinality(o .. top) = Cardinality(page)
  BY <1>4, <1>9, <1>10, FS_Surjection
<1>12. Cardinality(o .. top) = l
  <2>1. o \in Int /\ top \in Int
    BY DEF top
  <2>2. Cardinality(o .. top) = IF o > top THEN 0 ELSE top - o + 1
    BY <2>1, FS_Interval
  <2> QED BY <2>2 DEF top
<1> QED BY <1>3, <1>11, <1>12 DEF page, place, n

\* The order of a listing, and a row's place in it.
Order(list) == {p \in Rows(list) \X Rows(list) : Precedes(list, p[1], p[2])}

Place(list, x) == Cardinality({y \in Rows(list) : Precedes(list, y, x)})

LEMMA ListingIsOrdered ==
  ASSUME Base, Stamped, NEW list \in {"users", "events"}
  PROVE  /\ IsFiniteSet(Rows(list)) /\ Orders(Order(list), Rows(list))
         /\ \A x \in Rows(list) : Places(Order(list), Rows(list))[x] = Place(list, x)
<1> DEFINE S == Rows(list)
           R == Order(list)
<1>1. ASSUME list = "users" PROVE IsFiniteSet(S) /\ Orders(R, S)
  <2>1. S \subseteq Ids /\ Ids \subseteq Nat
    BY <1>1 DEF Rows, Ids
  <2>2. IsFiniteSet(Ids)
    <3>1. Len(accounts) \in Int
      BY IdsAreUsers DEF Base
    <3> QED BY <3>1, FS_Interval DEF Ids
  <2>3. \A x, y \in S : <<x, y>> \in R <=> x < y
    BY <1>1 DEF Order, Precedes
  <2>4. Orders(R, S)
    <3> HIDE DEF R, S
    <3> QED BY <2>1, <2>3 DEF Orders
  <2>5. IsFiniteSet(S)
    BY <2>1, <2>2, FS_Subset
  <2> QED BY <2>4, <2>5
<1>2. ASSUME list = "events" PROVE IsFiniteSet(S) /\ Orders(R, S)
  <2>1. S = log /\ IsFiniteSet(S) /\ \A x \in S : x.at \in Nat
    BY <1>2 DEF Rows, Base, Dated, TypeOK, Event
  <2>2. \A x, y \in S : <<x, y>> \in R <=> x.at > y.at
    BY <1>2 DEF Order, Precedes
  <2>3. \A x, y \in S : x.at = y.at => x = y
    BY <2>1 DEF Stamped
  <2>4. Orders(R, S)
    <3> HIDE DEF R, S
    <3> QED BY <2>1, <2>2, <2>3 DEF Orders
  <2> QED BY <2>1, <2>4
<1>3. ASSUME NEW x \in S PROVE Prior(R, S, x) = {y \in S : Precedes(list, y, x)}
  BY <1>3 DEF Prior, Order
<1>4. \A x \in S : Places(R, S)[x] = Place(list, x)
  BY <1>3 DEF Places, Place
<1> QED BY <1>1, <1>2, <1>4

\* A row that a page leaves out is before it or behind it; one that is
\* behind it is behind a full page, and in the total.
LEMMA PageLeaves ==
  ASSUME Base, Stamped, NEW list \in {"users", "events"}, NEW o \in Nat, NEW l \in Nat,
         NEW m \in Rows(list)
  PROVE  /\ Place(list, m) \in Nat /\ Cardinality(Rows(list)) \in Nat
         /\ m \notin Page(list, o, l) /\ o <= Place(list, m) => o + l <= Place(list, m)
         /\ o + l <= Place(list, m) =>
               /\ Cardinality(Page(list, o, l)) = l
               /\ o + l < Cardinality(Rows(list))
<1> DEFINE S == Rows(list)
           R == Order(list)
<1>1. /\ IsFiniteSet(S) /\ Orders(R, S)
      /\ \A x \in S : Places(R, S)[x] = Place(list, x)
  BY ListingIsOrdered
<1>2. Page(list, o, l) = {x \in S : o <= Place(list, x) /\ Place(list, x) < o + l}
  BY DEF Page, Place
<1>3. Page(list, o, l) = {x \in S : o <= Places(R, S)[x] /\ Places(R, S)[x] < o + l}
  BY <1>1, <1>2
<1> HIDE DEF S, R
<1>4. m \in S /\ Cardinality(S) \in Nat
  BY <1>1, FS_CardinalityType DEF S
<1>5. Place(list, m) \in Nat
  <2>1. Places(R, S)[m] \in 0 .. Cardinality(S) - 1
    BY <1>1, <1>4, PlacesAreAll
  <2> QED BY <1>1, <1>4, <2>1
<1>6. m \notin Page(list, o, l) /\ o <= Place(list, m) => o + l <= Place(list, m)
  BY <1>2, <1>4, <1>5
<1>7. ASSUME o + l <= Place(list, m)
      PROVE  Cardinality(Page(list, o, l)) = l /\ o + l < Cardinality(S)
  <2>1. o + l <= Places(R, S)[m]
    BY <1>1, <1>4, <1>7
  <2> QED BY <1>1, <1>3, <1>4, <2>1, PageIsFull
<1> QED BY <1>4, <1>5, <1>6, <1>7 DEF S

\* What the requests do to the rows of the listings.
RowsKept ==
    /\ reader' = reader /\ log \subseteq log'
    /\ \A u \in Ids : u \in Ids' /\ (accounts[u] = None => accounts'[u] = None)

LEMMA RequestsKeepRows ==
  ASSUME Base, NEW r \in Request,
         \/ \E name \in Op, u \in Ids \cup {None} : Start(r, name, u)
         \/ Act(r) \/ Record(r) \/ Respond(r) \/ Lose(r)
  PROVE  RowsKept
<1>1. CASE \E name \in Op, u \in Ids \cup {None} : Start(r, name, u)
  BY <1>1 DEF Start, RowsKept, Ids
<1>2. CASE Act(r)
  <2>1. AccountsKept /\ (Ends(r) \/ Rereads(r))
    BY <1>2, ActsHaveOutcomes DEF Outcome
  <2>2. UNCHANGED <<log, reader>>
    BY <2>1 DEF Ends, Then, Rereads
  <2> QED BY <2>1, <2>2 DEF RowsKept, AccountsKept
<1>3. CASE Record(r)
  <2>1. UNCHANGED <<accounts, reader>> /\ log \subseteq log'
    BY <1>3 DEF Record, WithActorEmail, LookupFails, Insert, InsertFails, Prepare, Advance
  <2> QED BY <2>1 DEF RowsKept, Ids
<1>4. CASE Respond(r) \/ Lose(r)
  BY <1>4 DEF Respond, Lose, End, RowsKept, Ids
<1> QED BY <1>1, <1>2, <1>3, <1>4

\* Each event gets a time of its own.
LEMMA NextKeepsStamped ==
  ASSUME Base, Stamped, [Next]_vars
  PROVE  Stamped'
<1>1. ASSUME log' = log,
             \A q \in Request : pc'[q] = "insert" =>
                 pc[q] = "insert" /\ frame'[q].draft.at = frame[q].draft.at
      PROVE  Stamped'
  BY <1>1 DEF Stamped
<1>2. ASSUME NEW r \in Request, NEW name \in Op, NEW u \in Ids \cup {None}, Start(r, name, u)
      PROVE  Stamped'
  <2>1. log' = log /\ \A q \in Request : pc'[q] = "insert" =>
                          pc[q] = "insert" /\ frame'[q].draft.at = frame[q].draft.at
    BY <1>2 DEF Start, Base, TypeOK
  <2> QED BY <1>1, <2>1
<1>3. ASSUME NEW r \in Request, Act(r) PROVE Stamped'
  <2>1. /\ log' = log /\ pc'[r] # "insert"
        /\ \A q \in Request \ {r} : frame'[q] = frame[q] /\ pc'[q] = pc[q]
    BY <1>3, ActKeepsBase
  <2> QED BY <1>1, <2>1
<1>4. ASSUME NEW r \in Request, WithActorEmail(r) \/ LookupFails(r) PROVE Stamped'
  <2>1. PICK email \in Email \cup {None}, failed \in BOOLEAN : Prepare(r, email, failed)
    BY <1>4, Prepares
  <2>2. /\ frame'[r].draft.at = Now /\ log' = log
        /\ \A q \in Request \ {r} : frame'[q] = frame[q] /\ pc'[q] = pc[q]
    BY <2>1, PrepareIs DEF Prepare
  <2>3. /\ \A e \in log : e.at # Now
        /\ \A q \in Request : frame[q].draft.at # Now
    <3>1. Now \in Nat /\ \A e \in log : e.at \in Nat /\ e.at < Now
      BY NowIsLater DEF Base, TypeOK, Event
    <3>2. \A q \in Request : frame[q].draft.at \in Nat /\ frame[q].draft.at < Now
      BY NowIsLater DEF Base, TypeOK, Frame
    <3> HIDE DEF Now
    <3> QED BY <3>1, <3>2
  <2>4. \A d, e \in log' : d.at = e.at => d = e
    BY <2>2 DEF Stamped
  <2>5. ASSUME NEW q \in Request, pc'[q] = "insert", NEW e \in log'
        PROVE  e.at # frame'[q].draft.at
    BY <2>2, <2>3, <2>5 DEF Stamped
  <2>6. ASSUME NEW p \in Request, NEW q \in Request, pc'[p] = "insert", pc'[q] = "insert",
               frame'[p].draft.at = frame'[q].draft.at
        PROVE  p = q
    BY <2>2, <2>3, <2>6 DEF Stamped
  <2> QED BY <2>4, <2>5, <2>6 DEF Stamped
<1>5. ASSUME NEW r \in Request, Insert(r) PROVE Stamped'
  <2>1. pc[r] = "insert" /\ Advance(r, TRUE) /\ TypeOK /\ log' = log \cup {Row(r)}
    BY <1>5 DEF Insert, Base
  <2>2. Row(r).at = frame[r].draft.at
    BY <2>1, RowIsEvent
  <2>3. /\ pc'[r] # "insert"
        /\ \A q \in Request \ {r} : frame'[q] = frame[q] /\ pc'[q] = pc[q]
    BY <2>1, AdvanceIs
  <2>4. \A d, e \in log' : d.at = e.at => d = e
    BY <2>1, <2>2 DEF Stamped
  <2>5. ASSUME NEW q \in Request, pc'[q] = "insert", NEW e \in log'
        PROVE  e.at # frame'[q].draft.at
    BY <2>1, <2>2, <2>3, <2>5 DEF Stamped
  <2>6. ASSUME NEW p \in Request, NEW q \in Request, pc'[p] = "insert", pc'[q] = "insert",
               frame'[p].draft.at = frame'[q].draft.at
        PROVE  p = q
    BY <2>3, <2>6 DEF Stamped
  <2> QED BY <2>4, <2>5, <2>6 DEF Stamped
<1>6. ASSUME NEW r \in Request, InsertFails(r) PROVE Stamped'
  <2>1. Advance(r, FALSE) /\ TypeOK /\ log' = log
    BY <1>6 DEF InsertFails, Base
  <2>2. /\ pc'[r] # "insert"
        /\ \A q \in Request \ {r} : frame'[q] = frame[q] /\ pc'[q] = pc[q]
    BY <2>1, AdvanceIs
  <2> QED BY <1>1, <2>1, <2>2
<1>7. ASSUME NEW r \in Request, End(r, "done") PROVE Stamped'
  <2>1. log' = log /\ \A q \in Request : pc'[q] = "insert" =>
                          pc[q] = "insert" /\ frame'[q].draft.at = frame[q].draft.at
    BY <1>7 DEF End, Base, TypeOK
  <2> QED BY <1>1, <2>1
<1>8. ASSUME List \/ UNCHANGED vars PROVE Stamped'
  <2>1. UNCHANGED writers
    BY <1>8, ListKeepsBase DEF vars, writers
  <2> QED BY <1>1, <2>1 DEF writers
<1> QED BY <1>2, <1>3, <1>4, <1>5, <1>6, <1>7, <1>8
        DEF Next, Record, Respond, Lose

\* The rows that are left in front of an unseen user are those before it
\* when the walk began.
LEMMA UserPlace ==
  ASSUME Base, UserWalk, reader.list = "users", NEW m \in reader.start, Ahead(m)
  PROVE  m \in Rows("users") /\ Place("users", m) = Cardinality(Before(m))
<1>1. m \in Ids /\ Exists(m) /\ \A d \in reader.start : d < m => Exists(d)
  BY DEF UserWalk, Ahead
<1>2. {y \in Rows("users") : Precedes("users", y, m)} = Before(m)
  BY <1>1 DEF Rows, Precedes, Before, UserWalk
<1> QED BY <1>1, <1>2 DEF Rows, Place

\* Those in front of an event are the later ones.
LEMMA EventPlace ==
  ASSUME NEW m \in log
  PROVE  m \in Rows("events") /\ Place("events", m) = Cardinality(After(m))
BY DEF Rows, Place, Precedes, After

\* What the requests do leaves a walk what it is: nobody comes to stand in
\* front of a user, and events only before those that were there.
LEMMA RequestsKeepWalks ==
  ASSUME Base, Base', UserWalk, EventWalk, RowsKept
  PROVE  UserWalk' /\ EventWalk'
<1>1. /\ Len(accounts) \in Nat /\ Ids \subseteq Ids' /\ reader' = reader /\ log \subseteq log'
      /\ \A u \in Ids : Exists(u)' => Exists(u)
  BY IdsAreUsers DEF Base, RowsKept, Exists
<1>2. ASSUME reader.list = "users" PROVE UserWalk'
  <2>1. /\ reader.start \subseteq Ids /\ reader.missing \subseteq reader.start
        /\ \A y \in Ids, s \in reader.start : Exists(y) /\ y < s => y \in reader.start
    BY <1>2 DEF UserWalk
  <2>2. ASSUME NEW y \in Ids', NEW s \in reader.start, Exists(y)', y < s
        PROVE  y \in reader.start
    <3>1. y \in Ids
      BY <1>1, <2>1, <2>2 DEF Ids
    <3> QED BY <1>1, <2>1, <2>2, <3>1
  <2>3. ASSUME NEW m \in reader.start, Ahead(m)' PROVE Ahead(m)
    <3>1. \A d \in reader.start : Exists(d)' => Exists(d)
      BY <1>1, <2>1
    <3>2. m \in reader.missing /\ Exists(m)' /\ \A d \in reader.start : d < m => Exists(d)'
      BY <1>1, <2>3 DEF Ahead
    <3> QED BY <3>1, <3>2 DEF Ahead
  <2>4. ASSUME NEW m \in reader.start, Ahead(m)'
        PROVE  IF reader.pc = "page"
               THEN reader.page.offset <= Cardinality(Before(m))
               ELSE /\ ReadTo <= Cardinality(Before(m))
                    /\ reader.full
                    /\ reader.pc = "answer" => ~reader.last
    BY <1>2, <2>3, <2>4 DEF UserWalk
  <2>5. ReadTo' = ReadTo /\ \A m : Before(m)' = Before(m)
    BY <1>1 DEF ReadTo, Before
  <2> QED BY <1>1, <2>1, <2>2, <2>4, <2>5 DEF UserWalk
<1>3. ASSUME reader.list = "events" PROVE EventWalk'
  <2>1. reader.missing \subseteq log /\ reader.page \in [offset : Nat, limit : 1 .. MaxLimit]
    BY <1>3 DEF Base, TypeOK, Reader
  <2>2. ReadTo' = ReadTo /\ ReadTo \in Nat /\ reader.page.offset \in Nat
    BY <1>1, <2>1, BoundsAssumption DEF ReadTo
  <2>3. ASSUME NEW m \in reader.missing
        PROVE  Cardinality(After(m)) <= Cardinality(After(m)')
               /\ Cardinality(After(m)) \in Nat /\ Cardinality(After(m)') \in Nat
    <3>1. IsFiniteSet(log') /\ After(m) \subseteq After(m)' /\ After(m)' \subseteq log'
      BY <1>1 DEF Base, Dated, After
    <3> QED BY <3>1, FS_Subset, FS_CardinalityType
  <2>4. ASSUME NEW m \in reader.missing
        PROVE  IF reader.pc = "answer"
               THEN /\ ReadTo <= Cardinality(After(m)')
                    /\ reader.full
                    /\ reader.last => reader.stale
               ELSE reader.page.offset <= Cardinality(After(m)')
    <3>1. IF reader.pc = "answer"
          THEN /\ ReadTo <= Cardinality(After(m))
               /\ reader.full
               /\ reader.last => reader.stale
          ELSE reader.page.offset <= Cardinality(After(m))
      BY <1>3 DEF EventWalk
    <3> QED BY <2>2, <2>3, <3>1
  <2> QED BY <1>1, <2>2, <2>4 DEF EventWalk
<1> QED BY <1>1, <1>2, <1>3 DEF UserWalk, EventWalk

\* The page a statement reads, and its size.
LEMMA ShownIsPage ==
  ASSUME Base
  PROVE  /\ reader.page.offset \in Nat /\ reader.page.limit \in Nat
         /\ Shown = Page(reader.list, reader.page.offset, reader.page.limit)
<1>1. reader.page.offset \in Nat /\ reader.page.limit \in 1 .. MaxLimit
  BY DEF Base, TypeOK, Reader
<1> QED BY <1>1, BoundsAssumption DEF Shown

\* At the beginning nothing has been passed.
LEMMA OpenKeepsWalks ==
  ASSUME Base, Stamped, NEW list \in {"users", "events"}, NEW offset \in {-1, 0},
         NEW limit \in 0 .. MaxLimit + 1, OpenListing(list, offset, limit)
  PROVE  UserWalk' /\ EventWalk'
<1> DEFINE p == Pagination(offset, limit)
<1>1. p.offset = 0
  BY DEF Pagination
<1> HIDE DEF p
<1>2. /\ reader'.list = list /\ reader'.page = p
      /\ reader'.pc = IF list = "users" THEN "page" ELSE "count"
      /\ reader'.start = Rows(list) /\ reader'.missing = Rows(list)
      /\ UNCHANGED <<accounts, log>>
  BY DEF OpenListing, NoReader, writers, p
<1>3. CASE list = "users"
  <2>1. Rows(list) \subseteq Ids /\ \A y \in Ids : Exists(y) => y \in Rows(list)
    BY <1>3 DEF Rows
  <2>2. ASSUME NEW m PROVE 0 <= Cardinality(Before(m)')
    <3>1. IsFiniteSet(Before(m)')
      <4>1. Before(m)' \subseteq Rows(list) /\ IsFiniteSet(Rows(list))
        BY <1>2, ListingIsOrdered DEF Before
      <4> QED BY <4>1, FS_Subset
    <3>2. Cardinality(Before(m)') \in Nat
      BY <3>1, FS_CardinalityType
    <3> QED BY <3>2
  <2>3. Ids' = Ids /\ \A y : Exists(y)' = Exists(y)
    BY <1>2 DEF Ids, Exists
  <2> QED BY <1>1, <1>2, <1>3, <2>1, <2>2, <2>3 DEF UserWalk, EventWalk
<1>4. CASE list = "events"
  <2>1. ASSUME NEW m PROVE 0 <= Cardinality(After(m)')
    <3>1. After(m)' \subseteq log /\ IsFiniteSet(log)
      BY <1>2 DEF After, Base, Dated
    <3>2. Cardinality(After(m)') \in Nat
      BY <3>1, FS_Subset, FS_CardinalityType
    <3> QED BY <3>2
  <2> QED BY <1>1, <1>2, <1>4, <2>1 DEF UserWalk, EventWalk
<1> QED BY <1>3, <1>4

\* The steps of a walk leave the rows where they are.
LEMMA ReadingLeaves ==
  ASSUME UNCHANGED writers
  PROVE  /\ accounts' = accounts /\ log' = log /\ Ids' = Ids
         /\ \A y : Exists(y)' = Exists(y)
         /\ \A m : After(m)' = After(m)
         /\ \A list : Rows(list)' = Rows(list)
BY DEF writers, Ids, Exists, After, Rows

\* The count of the events changes nothing.
LEMMA CountEventsKeepsWalks ==
  ASSUME Base, EventWalk, CountEvents
  PROVE  UserWalk' /\ EventWalk'
<1>1. /\ reader'.list = "events" /\ reader'.page = reader.page /\ reader'.missing = reader.missing
      /\ reader'.pc = "page" /\ reader.pc = "count" /\ reader.list = "events"
  BY DEF CountEvents, Base, TypeOK, Reader
<1>2. \A m : After(m)' = After(m)
  BY ReadingLeaves DEF CountEvents
<1> QED BY <1>1, <1>2 DEF UserWalk, EventWalk

\* An event that the page leaves out is behind it, and the page is full; it
\* is the last only if the count was stale.
LEMMA PageOfEventsKeepsWalks ==
  ASSUME Base, Stamped, EventWalk, PageOfEvents
  PROVE  UserWalk' /\ EventWalk'
<1> DEFINE o == reader.page.offset
           l == reader.page.limit
<1>1. /\ o \in Nat /\ l \in Nat /\ reader.pc = "page" /\ reader.list = "events"
      /\ reader.total \in Nat /\ Shown = Page("events", o, l)
  BY ShownIsPage DEF PageOfEvents, Base, TypeOK, Reader
<1>2. /\ reader'.list = "events" /\ reader'.page = reader.page /\ reader'.pc = "answer"
      /\ reader'.missing = reader.missing \ Shown /\ reader.missing \subseteq log
      /\ reader'.full = (Cardinality(Shown) = l)
      /\ reader'.last = ReachedBy(reader.total)
      /\ reader'.stale = (reader.total # Cardinality(log))
  BY <1>1 DEF PageOfEvents, Base, TypeOK, Reader
<1>3. \A m : After(m)' = After(m)
  BY ReadingLeaves DEF PageOfEvents
<1>4. ASSUME NEW m \in reader'.missing
      PROVE  /\ o + l <= Cardinality(After(m)) /\ Cardinality(Page("events", o, l)) = l
             /\ o + l < Cardinality(log) /\ Cardinality(log) \in Nat
  <2>1. m \in reader.missing /\ m \in log /\ m \notin Page("events", o, l)
    BY <1>1, <1>2
  <2>2. o <= Cardinality(After(m))
    BY <1>1, <2>1 DEF EventWalk
  <2>3. m \in Rows("events") /\ Place("events", m) = Cardinality(After(m)) /\ Rows("events") = log
    BY <2>1, EventPlace DEF Rows
  <2> HIDE DEF o, l
  <2> QED BY <1>1, <2>1, <2>2, <2>3, PageLeaves
<1>5. ReadTo' = o + l /\ (ReachedBy(reader.total) <=> o + l >= reader.total)
  BY <1>2 DEF ReadTo, ReachedBy
<1> HIDE DEF o, l
<1>6. ASSUME NEW m \in reader'.missing
      PROVE  /\ ReadTo' <= Cardinality(After(m)') /\ reader'.full
             /\ reader'.last => reader'.stale
  <2>1. ReadTo' <= Cardinality(After(m)') /\ reader'.full
    BY <1>1, <1>2, <1>3, <1>4, <1>5
  <2>2. reader.total = Cardinality(log) => ~(o + l >= reader.total)
    BY <1>1, <1>4
  <2> QED BY <1>2, <1>5, <2>1, <2>2
<1> QED BY <1>2, <1>6 DEF UserWalk, EventWalk

\* A user the page leaves out is behind it, too.
LEMMA PageOfUsersKeepsWalks ==
  ASSUME Base, Stamped, UserWalk, PageOfUsers
  PROVE  UserWalk' /\ EventWalk'
<1> DEFINE o == reader.page.offset
           l == reader.page.limit
<1>1. /\ o \in Nat /\ l \in Nat /\ reader.pc = "page" /\ reader.list = "users"
      /\ Shown = Page("users", o, l)
  BY ShownIsPage DEF PageOfUsers
<1>2. /\ reader'.list = "users" /\ reader'.page = reader.page /\ reader'.pc = "count"
      /\ reader'.missing = reader.missing \ Shown /\ reader'.start = reader.start
      /\ reader'.full = (Cardinality(Shown) = l)
  BY <1>1 DEF PageOfUsers, Base, TypeOK, Reader
<1>3. Ids' = Ids /\ \A y : Exists(y)' = Exists(y)
  BY ReadingLeaves DEF PageOfUsers
<1>4. \A m : Before(m)' = Before(m)
  BY <1>2 DEF Before
<1>5. ASSUME NEW m \in reader.start, Ahead(m)'
      PROVE  o + l <= Cardinality(Before(m)) /\ Cardinality(Page("users", o, l)) = l
  <2>1. Ahead(m) /\ m \notin Page("users", o, l)
    BY <1>1, <1>2, <1>3, <1>5 DEF Ahead
  <2>2. o <= Cardinality(Before(m))
    BY <1>1, <2>1 DEF UserWalk
  <2>3. m \in Rows("users") /\ Place("users", m) = Cardinality(Before(m))
    BY <1>1, <2>1, UserPlace
  <2> HIDE DEF o, l
  <2> QED BY <1>1, <2>1, <2>2, <2>3, PageLeaves
<1>6. ReadTo' = o + l
  BY <1>2 DEF ReadTo
<1> HIDE DEF o, l
<1>7. ASSUME NEW m \in reader.start, Ahead(m)'
      PROVE  ReadTo' <= Cardinality(Before(m)') /\ reader'.full
  BY <1>1, <1>2, <1>4, <1>5, <1>6, <1>7
<1>8. /\ reader'.start \subseteq Ids' /\ reader'.missing \subseteq reader'.start
      /\ \A y \in Ids', s \in reader'.start : Exists(y)' /\ y < s => y \in reader'.start
  BY <1>1, <1>2, <1>3 DEF UserWalk
<1> QED BY <1>2, <1>7, <1>8 DEF UserWalk, EventWalk

\* So it is not the last page, the total being counted after it.
LEMMA CountUsersKeepsWalks ==
  ASSUME Base, Stamped, UserWalk, CountUsers
  PROVE  UserWalk' /\ EventWalk'
<1> DEFINE o == reader.page.offset
           l == reader.page.limit
<1>1. o \in Nat /\ l \in Nat /\ reader.pc = "count" /\ reader.list = "users"
  BY ShownIsPage DEF CountUsers
<1>2. /\ reader'.list = "users" /\ reader'.page = reader.page /\ reader'.pc = "answer"
      /\ reader'.missing = reader.missing /\ reader'.start = reader.start
      /\ reader'.full = reader.full /\ reader'.last = ReachedBy(Cardinality(Rows("users")))
  BY <1>1 DEF CountUsers, Base, TypeOK, Reader
<1>3. Ids' = Ids /\ \A y : Exists(y)' = Exists(y)
  BY ReadingLeaves DEF CountUsers
<1>4. \A m : Before(m)' = Before(m)
  BY <1>2 DEF Before
<1>5. ReadTo' = o + l /\ ReadTo = o + l
      /\ (ReachedBy(Cardinality(Rows("users"))) <=> o + l >= Cardinality(Rows("users")))
  BY <1>2 DEF ReadTo, ReachedBy
<1>6. ASSUME NEW m \in reader.start, Ahead(m)'
      PROVE  /\ ReadTo <= Cardinality(Before(m)) /\ reader.full
             /\ o + l < Cardinality(Rows("users")) /\ Cardinality(Rows("users")) \in Nat
  <2>1. Ahead(m)
    BY <1>2, <1>3, <1>6 DEF Ahead
  <2>2. ReadTo <= Cardinality(Before(m)) /\ reader.full
    BY <1>1, <2>1 DEF UserWalk
  <2>3. m \in Rows("users") /\ Place("users", m) = Cardinality(Before(m))
    BY <1>1, <2>1, UserPlace
  <2>4. o + l <= Place("users", m)
    BY <1>5, <2>2, <2>3
  <2> HIDE DEF o, l
  <2> QED BY <1>1, <2>2, <2>3, <2>4, PageLeaves
<1> HIDE DEF o, l
<1>7. ASSUME NEW m \in reader.start, Ahead(m)'
      PROVE  ReadTo' <= Cardinality(Before(m)') /\ reader'.full /\ ~reader'.last
  <2>1. ~(o + l >= Cardinality(Rows("users")))
    BY <1>1, <1>6, <1>7
  <2> QED BY <1>2, <1>4, <1>5, <1>6, <1>7, <2>1
<1>8. /\ reader'.start \subseteq Ids' /\ reader'.missing \subseteq reader'.start
      /\ \A y \in Ids', s \in reader'.start : Exists(y)' /\ y < s => y \in reader'.start
  BY <1>1, <1>2, <1>3 DEF UserWalk
<1> QED BY <1>2, <1>7, <1>8 DEF UserWalk, EventWalk

\* The next page begins where the last one ended.
LEMMA TurnKeepsWalks ==
  ASSUME Base, UserWalk, EventWalk, TurnPage
  PROVE  UserWalk' /\ EventWalk'
<1>1. Ids' = Ids /\ (\A y : Exists(y)' = Exists(y)) /\ \A m : After(m)' = After(m)
  BY ReadingLeaves DEF TurnPage
<1>2. reader.pc = "answer" /\ reader.list \in {"users", "events"}
  BY DEF TurnPage, Base, TypeOK, Reader
<1>3. CASE reader' = [NoReader EXCEPT !.pc = "closed"]
  <2>1. reader'.list = "users" /\ reader'.start = {} /\ reader'.missing = {}
    BY <1>3 DEF NoReader
  <2> QED BY <2>1 DEF UserWalk, EventWalk
<1>4. CASE reader' = [reader EXCEPT
                !.pc = IF reader.list = "users" THEN "page" ELSE "count",
                !.page.offset = @ + reader.page.limit,
                !.full = FALSE, !.last = FALSE, !.stale = FALSE]
  <2>1. /\ reader'.list = reader.list /\ reader'.page.offset = ReadTo
        /\ reader'.pc = IF reader.list = "users" THEN "page" ELSE "count"
        /\ reader'.start = reader.start /\ reader'.missing = reader.missing
    BY <1>4 DEF Base, TypeOK, Reader, ReadTo
  <2>2. \A m : Before(m)' = Before(m) /\ (Ahead(m)' <=> Ahead(m))
    BY <1>1, <2>1 DEF Before, Ahead
  <2>3. CASE reader.list = "users"
    BY <1>1, <1>2, <2>1, <2>2, <2>3 DEF UserWalk, EventWalk
  <2>4. CASE reader.list = "events"
    BY <1>1, <1>2, <2>1, <2>4 DEF UserWalk, EventWalk
  <2> QED BY <1>2, <2>3, <2>4
<1> QED BY <1>3, <1>4 DEF TurnPage

\* What a client's walk rests on.
Walks == Base /\ Stamped /\ UserWalk /\ EventWalk

\* The invariant of the walks holds.
LEMMA InitWalks ==
  ASSUME Init
  PROVE  Walks
<1>1. Base
  BY InitBase
<1>2. Stamped
  BY DEF Init, Stamped
<1>3. reader.list = "users" /\ reader.start = {} /\ reader.missing = {}
  BY DEF Init, NoReader
<1> QED BY <1>1, <1>2, <1>3 DEF Walks, UserWalk, EventWalk

LEMMA NextKeepsWalks ==
  ASSUME Walks, [Next]_vars
  PROVE  Walks'
<1>1. Base /\ Stamped /\ UserWalk /\ EventWalk
  BY DEF Walks
<1>2. Base' /\ Stamped'
  BY <1>1, NextKeepsBase, NextKeepsStamped
<1>3. ASSUME NEW r \in Request,
             \/ \E name \in Op, u \in Ids \cup {None} : Start(r, name, u)
             \/ Act(r) \/ Record(r) \/ Respond(r) \/ Lose(r)
      PROVE  UserWalk' /\ EventWalk'
  BY <1>1, <1>2, <1>3, RequestsKeepRows, RequestsKeepWalks
<1>4. ASSUME List PROVE UserWalk' /\ EventWalk'
  BY <1>1, <1>4, OpenKeepsWalks, CountEventsKeepsWalks, PageOfEventsKeepsWalks,
     PageOfUsersKeepsWalks, CountUsersKeepsWalks, TurnKeepsWalks DEF List
<1>5. ASSUME UNCHANGED vars PROVE UserWalk' /\ EventWalk'
  <2>1. RowsKept
    BY <1>5 DEF vars, RowsKept, Ids
  <2> QED BY <1>1, <1>2, <2>1, RequestsKeepWalks
<1>6. UserWalk' /\ EventWalk'
  BY <1>3, <1>4, <1>5 DEF Next
<1> QED BY <1>2, <1>6 DEF Walks

\* Where a walk ends, at a short page or where the total is reached, nothing
\* is left in front of the client but what came to be missing on the way.
LEMMA WalksEnd ==
  ASSUME Walks, TurnPage, reader'.pc = "closed",
         NEW m \in reader.missing \cap Rows(reader.list)
  PROVE  \/ reader.full /\ reader.stale
         \/ \E d \in reader.start \ Rows(reader.list) : Precedes(reader.list, d, m)
<1>1. /\ Base /\ UserWalk /\ EventWalk /\ reader.pc = "answer"
      /\ reader.list \in {"users", "events"} /\ (~reader.full \/ reader.last)
  BY DEF Walks, TurnPage, Base, TypeOK, Reader
<1>2. CASE reader.list = "events"
  BY <1>1, <1>2 DEF EventWalk
<1>3. CASE reader.list = "users"
  <2>1. ~Ahead(m) /\ m \in reader.start
    BY <1>1, <1>3 DEF UserWalk
  <2>2. Exists(m)
    BY <1>3 DEF Rows
  <2>3. PICK d \in reader.start : d < m /\ ~Exists(d)
    BY <2>1, <2>2 DEF Ahead
  <2> QED BY <1>3, <2>3 DEF Rows, Precedes
<1> QED BY <1>1, <1>2, <1>3

\* A walk through the users or the log that ends has left out no row that
\* was there from its beginning, but for a deletion of an earlier user or an
\* event written between a count and its page.
THEOREM WalksHold == Spec => WalksAreComplete
<1>1. Walks /\ [Next]_vars =>
        [reader.pc = "answer" /\ reader'.pc = "closed" =>
          \A m \in reader.missing \cap Rows(reader.list) :
              \/ reader.full /\ reader.stale
              \/ \E d \in reader.start \ Rows(reader.list) :
                     Precedes(reader.list, d, m)]_vars
  <2> SUFFICES ASSUME Walks, [Next]_vars, reader.pc = "answer", reader'.pc = "closed",
                      NEW m \in reader.missing \cap Rows(reader.list)
               PROVE  \/ reader.full /\ reader.stale
                      \/ \E d \in reader.start \ Rows(reader.list) : Precedes(reader.list, d, m)
    OBVIOUS
  <2>1. reader' # reader /\ Base
    BY DEF Walks
  <2>2. ASSUME NEW r \in Request,
               \/ \E name \in Op, u \in Ids \cup {None} : Start(r, name, u)
               \/ Act(r) \/ Record(r) \/ Respond(r) \/ Lose(r)
        PROVE  FALSE
    BY <2>1, <2>2, RequestsKeepRows DEF RowsKept
  <2>3. List
    BY <2>1, <2>2 DEF Next, vars
  <2>4. TurnPage
    BY <2>3 DEF List, OpenListing, CountEvents, PageOfEvents, PageOfUsers, CountUsers
  <2> QED BY <2>4, WalksEnd
<1>2. Spec => []Walks
  BY InitWalks, NextKeepsWalks, PTL DEF Spec
<1> QED BY <1>1, <1>2, PTL DEF Spec, WalksAreComplete
=============================================================================
