----------------------------- MODULE AuditTrail -----------------------------
(***************************************************************************)
(* The audit log: the requests that write it after their action            *)
(* (apps/audit/services.py, called by the services of apps/authz and       *)
(* apps/accounts) and the listings that page through it and through the    *)
(* users.                                                                  *)
(*                                                                         *)
(* An action commits first.  Each event is then recorded in two awaits of  *)
(* its own, the lookup of the actor's email and the INSERT, and whatever   *)
(* goes wrong in them is swallowed.  Other requests run in between: the    *)
(* actor may be renamed or deleted, an email may pass to another account.  *)
(*                                                                         *)
(* What AuthSystem and Accounts show of sessions, tokens and unique        *)
(* emails is not repeated: an action is one step here.                     *)
(***************************************************************************)
EXTENDS Integers, FiniteSets, Sequences

CONSTANTS
    Email,
    Request,    \* HTTP requests that write, each runs at most once
    MaxUsers,   \* bound on the ids the sequence of primary keys gives
    MaxLimit,   \* the largest page: 100 in _pagination
    None        \* Python's None, SQL's NULL

ASSUME NoneAssumption == None \notin Email /\ None \notin Request /\ None \notin Int
ASSUME BoundsAssumption == MaxUsers \in Nat /\ MaxLimit \in Nat \ {0}

VARIABLES
    accounts,   \* the email of each id given so far, None once it is deleted
    pc,         \* where each request is
    frame,      \* what its coroutines hold; gone when it ends
    log,        \* the committed rows of the log
    since,      \* history: who has had which email since the request began
    reader      \* one client paging through a listing

writers == <<accounts, pc, frame, log, since>>
vars == <<accounts, pc, frame, log, since, reader>>

-----------------------------------------------------------------------------
User == 1 .. MaxUsers

Ids == 1 .. Len(accounts)

Exists(u) == u \in Ids /\ accounts[u] # None

AuditAction == {"login.success", "login.failure", "logout", "register",
    "token.refreshed", "token.reuse_detected", "token.binding_mismatch",
    "token.ip_changed", "user.create", "user.update", "user.delete", "role.assign"}

Op == {"login", "register", "refresh", "logout", "logout_all",
       "create_user", "update_user", "delete_user", "assign_role"}

\* Everything but login, registration and refresh needs a principal: the id
\* in an access token, whose account may be gone.
NeedsPrincipal == Op \ {"login", "register", "refresh"}

Call == [action : AuditAction, target : User \cup {None}]

Event == [at : Nat, action : AuditAction, actor : User \cup {None},
          email : Email \cup {None}, target : User \cup {None}, by : Request]

NoDraft == [at |-> 0, email |-> None, failed |-> FALSE]

\* The use case and its principal, the actor of its AuditContext, the events
\* it is to record and the one it is at, and whether an INSERT has failed.
Frame == [op : Op \cup {None}, principal : User \cup {None},
          actor : User \cup {None}, email : Email \cup {None},
          calls : Seq(Call), next : Nat, dropped : BOOLEAN,
          draft : [at : Nat, email : Email \cup {None}, failed : BOOLEAN]]

NoFrame == [op |-> None, principal |-> None, actor |-> None, email |-> None,
            calls |-> <<>>, next |-> 1, dropped |-> FALSE, draft |-> NoDraft]

PC == {"idle", "act", "reread", "record", "insert", "respond", "done"}

-----------------------------------------------------------------------------
(* The listings: GET /users and GET /audit-logs, read with growing offset. *)

\* A row's place in its listing: users oldest id first, events newest first.
Rows(list) == IF list = "users" THEN {u \in Ids : Exists(u)} ELSE log

Precedes(list, a, b) == IF list = "users" THEN a < b ELSE a.at > b.at

Page(list, offset, limit) ==
    {x \in Rows(list) :
        LET place == Cardinality({y \in Rows(list) : Precedes(list, y, x)})
        IN  offset <= place /\ place < offset + limit}

\* Fault: an offset below zero is taken as it is.
PaginationSigned(offset, limit) ==
    [offset |-> offset,
     limit |-> IF limit < 1 THEN 1
               ELSE IF limit > MaxLimit THEN MaxLimit ELSE limit]

\* Fault: the answer names the limit that was asked for.
PaginationEchoed(offset, limit) ==
    [offset |-> IF offset < 0 THEN 0 ELSE offset,
     limit |-> IF limit < 1 THEN 1 ELSE limit]

\* max(offset, 0) and min(max(limit, 1), 100).  The answer repeats both.
Pagination(offset, limit) ==
    [offset |-> IF offset < 0 THEN 0 ELSE offset,
     limit |-> IF limit < 1 THEN 1
               ELSE IF limit > MaxLimit THEN MaxLimit ELSE limit]

NoReader == [pc |-> "idle", list |-> "users", page |-> Pagination(0, 0), total |-> 0,
             start |-> {}, missing |-> {}, full |-> FALSE, stale |-> FALSE, last |-> FALSE]

\* The client asks for its first page.
OpenListing(list, offset, limit) ==
    /\ reader.pc = "idle"
    /\ reader' = [NoReader EXCEPT
                    !.pc = IF list = "users" THEN "page" ELSE "count",
                    !.list = list, !.page = Pagination(offset, limit),
                    !.start = Rows(list), !.missing = Rows(list)]
    /\ UNCHANGED writers

\* The rows the page statement sends: at most MaxLimit, whatever the answer
\* says of them.
Shown ==
    Page(reader.list, reader.page.offset,
         IF reader.page.limit > MaxLimit THEN MaxLimit ELSE reader.page.limit)

ReachedBy(total) == reader.page.offset + reader.page.limit >= total

\* The log is counted before its page is read ...
CountEvents ==
    /\ reader.pc = "count" /\ reader.list = "events"
    /\ reader' = [reader EXCEPT !.pc = "page", !.total = Cardinality(log)]
    /\ UNCHANGED writers

PageOfEvents ==
    /\ reader.pc = "page" /\ reader.list = "events"
    /\ reader' = [reader EXCEPT
                    !.pc = "answer", !.total = 0,
                    !.missing = @ \ Shown,
                    !.full = Cardinality(Shown) = reader.page.limit,
                    !.last = ReachedBy(reader.total),
                    !.stale = reader.total # Cardinality(log)]
    /\ UNCHANGED writers

\* ... and the users after.
PageOfUsers ==
    /\ reader.pc = "page" /\ reader.list = "users"
    /\ reader' = [reader EXCEPT
                    !.pc = "count",
                    !.missing = @ \ Shown,
                    !.full = Cardinality(Shown) = reader.page.limit]
    /\ UNCHANGED writers

CountUsers ==
    /\ reader.pc = "count" /\ reader.list = "users"
    /\ reader' = [reader EXCEPT
                    !.pc = "answer", !.last = ReachedBy(Cardinality(Rows("users")))]
    /\ UNCHANGED writers

\* The client has the page.  It goes on from where the answer says the page
\* ended, or stops: at a short page, or where the total is reached.
TurnPage ==
    /\ reader.pc = "answer"
    /\ \/ /\ reader.full
          /\ reader' = [reader EXCEPT
                !.pc = IF reader.list = "users" THEN "page" ELSE "count",
                !.page.offset = @ + reader.page.limit,
                !.full = FALSE, !.last = FALSE, !.stale = FALSE]
       \/ /\ ~reader.full \/ reader.last
          /\ reader' = [NoReader EXCEPT !.pc = "closed"]
    /\ UNCHANGED writers

-----------------------------------------------------------------------------
Init ==
    /\ accounts \in UNION {[1 .. n -> Email] : n \in 0 .. MaxUsers}
    /\ \A u, v \in Ids : accounts[u] = accounts[v] => u = v
    /\ pc = [r \in Request |-> "idle"]
    /\ frame = [r \in Request |-> NoFrame]
    /\ log = {}
    /\ since = [r \in Request |-> {}]
    /\ reader = NoReader

\* The router builds the context from the principal, which has no email.
Start(r, name, principal) ==
    /\ pc[r] = "idle"
    /\ IF name \in NeedsPrincipal THEN principal \in Ids ELSE principal = None
    /\ pc' = [pc EXCEPT ![r] = "act"]
    /\ frame' = [frame EXCEPT ![r] = [NoFrame EXCEPT
                    !.op = name, !.principal = principal, !.actor = principal]]
    /\ since' = [since EXCEPT ![r] = {<<u, accounts[u]>> : u \in Ids}]
    /\ UNCHANGED <<accounts, log, reader>>

-----------------------------------------------------------------------------
(* The action itself, one operator per use case.                           *)

Does(r, name) == pc[r] = "act" /\ frame[r].op = name

\* What is left to do for an actor: record the events, or answer.
Then(r, actor, email, events) ==
    /\ frame' = [frame EXCEPT ![r].actor = actor, ![r].email = email,
                              ![r].calls = events]
    /\ pc' = [pc EXCEPT ![r] = IF events = <<>> THEN "respond" ELSE "record"]
    /\ UNCHANGED <<log, reader>>

\* Nothing happened: refused, not found or unknown.
Nothing(r) == Then(r, frame[r].actor, None, <<>>)

\* What the principal did to u.
ByPrincipal(r, action, u) ==
    Then(r, frame[r].principal, None, <<[action |-> action, target |-> u]>>)

Plain(action) == [action |-> action, target |-> None]

Becomes(new) ==
    /\ accounts' = new
    /\ since' = [r \in Request |-> IF pc[r] \in {"idle", "done"} THEN {} ELSE
                    since[r] \cup {<<u, new[u]>> : u \in DOMAIN new}]

AccountsStay == UNCHANGED <<accounts, since>>

\* A login that is not refused has the account's email at hand.
Login(r) ==
    /\ Does(r, "login")
    /\ \/ Then(r, None, None, <<Plain("login.failure")>>)
       \/ \E u \in Ids :
             Exists(u) /\ Then(r, u, accounts[u], <<Plain("login.success")>>)
    /\ AccountsStay

Taken(e) == e \in {accounts[u] : u \in Ids}

\* Fault: create_user lets register record its own event as well.
RecordRegistrationTwice(r, u, e) ==
    IF frame[r].op = "register"
    THEN Then(r, u, e, <<Plain("register")>>)
    ELSE Then(r, u, e, <<Plain("register"), [action |-> "user.create", target |-> u]>>)

\* register names the new account as the actor, create_user the principal.
RecordRegistration(r, u, e) ==
    IF frame[r].op = "register"
    THEN Then(r, u, e, <<Plain("register")>>)
    ELSE ByPrincipal(r, "user.create", u)

Register(r, e) ==
    LET u == Len(accounts) + 1 IN
    /\ Does(r, "register") \/ Does(r, "create_user")
    /\ IF Taken(e)
       THEN Nothing(r) /\ AccountsStay
       ELSE /\ u \in User
            /\ Becomes(Append(accounts, e))
            /\ RecordRegistration(r, u, e)

\* The outcomes of _rotate.  A token that is found has an owner, who is the
\* actor.
Refresh(r) ==
    /\ Does(r, "refresh")
    /\ \/ Nothing(r)
       \/ \E u \in Ids, events \in {<<Plain("token.refreshed")>>,
                <<Plain("token.ip_changed"), Plain("token.refreshed")>>,
                <<Plain("token.reuse_detected")>>, <<Plain("token.binding_mismatch")>>} :
              Exists(u) /\ Then(r, u, None, events)
    /\ AccountsStay

\* Fault: the context keeps the principal's email when the actor is replaced.
LogoutKeepingEmail(r) ==
    /\ Does(r, "logout")
    /\ \/ Nothing(r)
       \/ \E u \in Ids :
             Exists(u) /\ Then(r, u, accounts[frame[r].principal], <<Plain("logout")>>)
    /\ AccountsStay

\* The actor is the owner of the refresh token that was sent, who need not
\* be the principal.
Logout(r) ==
    /\ Does(r, "logout")
    /\ \/ Nothing(r)
       \/ \E u \in Ids : Exists(u) /\ Then(r, u, None, <<Plain("logout")>>)
    /\ AccountsStay

LogoutAll(r) ==
    /\ Does(r, "logout_all")
    /\ Then(r, frame[r].principal, None, <<Plain("logout")>>)
    /\ AccountsStay

\* The UPDATE, of the email (or of something else when e is the email it
\* has), unless no field is given, the account is gone or the email taken.
UpdateUser(r, u, e) ==
    /\ Does(r, "update_user")
    /\ \/ Nothing(r) /\ AccountsStay
       \/ /\ Exists(u)
          /\ e = accounts[u] \/ ~Taken(e)
          /\ Becomes([accounts EXCEPT ![u] = e])
          /\ frame' = [frame EXCEPT ![r].calls =
                          <<[action |-> "user.update", target |-> u]>>]
          /\ pc' = [pc EXCEPT ![r] = "reread"]
          /\ UNCHANGED <<log, reader>>

\* aupdate reads the row again: deleted meanwhile, it is "not found".
Reread(r) ==
    LET u == frame[r].calls[1].target IN
    /\ pc[r] = "reread"
    /\ IF Exists(u) THEN ByPrincipal(r, "user.update", u) ELSE Nothing(r)
    /\ AccountsStay

\* Fault: the number of deleted rows is not looked at.
DeleteUncounted(r, u) ==
    /\ Does(r, "delete_user")
    /\ Becomes([accounts EXCEPT ![u] = None])
    /\ ByPrincipal(r, "user.delete", u)

DeleteUser(r, u) ==
    /\ Does(r, "delete_user")
    /\ IF Exists(u)
       THEN /\ Becomes([accounts EXCEPT ![u] = None])
            /\ ByPrincipal(r, "user.delete", u)
       ELSE Nothing(r) /\ AccountsStay

AssignRole(r, u) ==
    /\ Does(r, "assign_role")
    /\ IF Exists(u) THEN ByPrincipal(r, "role.assign", u) ELSE Nothing(r)
    /\ AccountsStay

-----------------------------------------------------------------------------
(* AuditService.record, for each event in turn.                            *)

\* created_at, of which only the order matters.
Now ==
    LET taken == {0} \cup {e.at : e \in log} \cup {frame[r].draft.at : r \in Request}
    IN  CHOOSE t \in {x + 1 : x \in taken} : \A x \in taken : x < t

Prepare(r, email, failed) ==
    /\ pc' = [pc EXCEPT ![r] = "insert"]
    /\ frame' = [frame EXCEPT ![r].draft = [at |-> Now, email |-> email, failed |-> failed]]
    /\ UNCHANGED <<accounts, log, since, reader>>

\* The email is looked up when there is an actor and none is given.
NeedsEmail(r) == frame[r].actor # None /\ frame[r].email = None

WithActorEmail(r) ==
    /\ pc[r] = "record"
    /\ Prepare(r, IF NeedsEmail(r) THEN accounts[frame[r].actor] ELSE frame[r].email, FALSE)

\* On to the next event, or to the answer.
Advance(r, kept) ==
    LET f == frame[r] IN
    /\ frame' = [frame EXCEPT ![r] = [f EXCEPT
                    !.next = @ + 1, !.draft = NoDraft, !.dropped = @ \/ ~kept]]
    /\ pc' = [pc EXCEPT ![r] = IF f.next = Len(f.calls) THEN "respond" ELSE "record"]
    /\ UNCHANGED <<accounts, since, reader>>

\* Fault: a failed lookup ends the recording.
LookupFailsForGood(r) ==
    /\ pc[r] = "record"
    /\ NeedsEmail(r)
    /\ Advance(r, TRUE)
    /\ UNCHANGED log

\* A lookup that fails leaves the email out.
LookupFails(r) ==
    /\ pc[r] = "record"
    /\ NeedsEmail(r)
    /\ Prepare(r, None, TRUE)

\* created_at is taken when the statement is built, the row shows once it is
\* committed.
Row(r) ==
    LET f == frame[r] call == f.calls[f.next] IN
    [at |-> f.draft.at, action |-> call.action, actor |-> f.actor,
     email |-> f.draft.email, target |-> call.target, by |-> r]

Insert(r) ==
    /\ pc[r] = "insert"
    /\ log' = log \cup {Row(r)}
    /\ Advance(r, TRUE)

\* "Unable to record audit event": a warning, and the request goes on.
InsertFails(r) ==
    /\ pc[r] = "insert"
    /\ Advance(r, FALSE)
    /\ UNCHANGED log

End(r, how) ==
    /\ pc' = [pc EXCEPT ![r] = how]
    /\ frame' = [frame EXCEPT ![r] = NoFrame]
    /\ since' = [since EXCEPT ![r] = {}]
    /\ UNCHANGED <<accounts, log, reader>>

Respond(r) == pc[r] = "respond" /\ End(r, "done")

\* The worker is lost, between any two awaits.
Lose(r) == pc[r] \notin {"idle", "done"} /\ End(r, "done")

-----------------------------------------------------------------------------
Act(r) ==
    \/ Login(r)
    \/ \E e \in Email : Register(r, e)
    \/ Refresh(r)
    \/ Logout(r)
    \/ LogoutAll(r)
    \/ \E u \in Ids, e \in Email : UpdateUser(r, u, e)
    \/ \E u \in Ids : DeleteUser(r, u)
    \/ \E u \in Ids : AssignRole(r, u)
    \/ Reread(r)

Record(r) ==
    \/ WithActorEmail(r)
    \/ LookupFails(r)
    \/ Insert(r)
    \/ InsertFails(r)

List ==
    \/ \E list \in {"users", "events"}, offset \in {-1, 0}, limit \in 0 .. MaxLimit + 1 :
           OpenListing(list, offset, limit)
    \/ CountEvents
    \/ PageOfEvents
    \/ PageOfUsers
    \/ CountUsers
    \/ TurnPage

Next ==
    \/ \E r \in Request :
          \/ \E name \in Op, u \in Ids \cup {None} : Start(r, name, u)
          \/ Act(r)
          \/ Record(r)
          \/ Respond(r)
          \/ Lose(r)
    \/ List

Spec == Init /\ [][Next]_vars

-----------------------------------------------------------------------------
(* Properties                                                              *)

Reader(rows) ==
    [pc : {"idle", "count", "page", "answer", "closed"}, list : {"users", "events"},
     page : [offset : Nat, limit : 1 .. MaxLimit], total : Nat,
     start : SUBSET rows, missing : SUBSET rows,
     full : BOOLEAN, stale : BOOLEAN, last : BOOLEAN]

TypeOK ==
    /\ accounts \in Seq(Email \cup {None}) /\ Len(accounts) <= MaxUsers
    /\ pc \in [Request -> PC]
    /\ frame \in [Request -> Frame]
    /\ log \subseteq Event
    /\ since \in [Request -> SUBSET (User \X (Email \cup {None}))]
    /\ reader \in Reader(IF reader.list = "users" THEN User ELSE log)

\* The account an event says was made.
Made(e) == IF e.action = "register" THEN e.actor ELSE e.target

Creations == {e \in log : e.action \in {"register", "user.create"}}
Deletions == {e \in log : e.action = "user.delete"}

\* The log tells of an account's birth once and of its death once, and of
\* its death only when it is gone: of two deletions of one account one finds
\* nothing, and a creation by an administrator is no registration.
DeedsAreRecordedOnce ==
    /\ \A d, e \in Creations : Made(d) = Made(e) => d = e
    /\ \A d, e \in Deletions : d.target = e.target => d = e
    /\ \A e \in Deletions : ~Exists(e.target)

\* "Best-effort": a request that answered has recorded every event it was to
\* record, once, unless an INSERT failed.  A failed lookup costs the email
\* and not the event, and one failed event not the next.
AnsweredIsRecorded ==
    [][\A r \in Request : pc[r] = "respond" /\ ~frame[r].dropped =>
          \A call \in {frame[r].calls[i] : i \in DOMAIN frame[r].calls} :
              Cardinality({e \in log : /\ e.by = r
                                       /\ e.action = call.action
                                       /\ e.target = call.target}) = 1]_vars

\* The email beside an actor is one that account had while the request ran,
\* though it is read after the action, when emails may have moved.  It is
\* missing only if the lookup failed or the account was deleted meanwhile.
EmailSnapshot ==
    [][\A e \in log' \ log : e.actor # None =>
          IF e.email = None
          THEN frame[e.by].draft.failed \/ <<e.actor, None>> \in since[e.by]
          ELSE <<e.actor, e.email>> \in since[e.by]]_vars

\* A client that turns pages as the answers tell it sees every row that was
\* there when it began and still is, unless an earlier row was deleted, or
\* an event came between a page's count and the page it took for the last.
WalksAreComplete ==
    [][reader.pc = "answer" /\ reader'.pc = "closed" =>
          \A m \in reader.missing \cap Rows(reader.list) :
              \/ reader.full /\ reader.stale
              \/ \E d \in reader.start \ Rows(reader.list) :
                     Precedes(reader.list, d, m)]_vars
=============================================================================
