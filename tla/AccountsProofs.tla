--------------------------- MODULE AccountsProofs ---------------------------
(***************************************************************************)
(* The safety properties of Accounts, for any number of users, addresses   *)
(* and requests.  AccountsInv adds to the properties what a request that   *)
(* is under way knows: which rows and index entries it holds or waits for, *)
(* and what it read before others wrote.                                   *)
(***************************************************************************)
EXTENDS Accounts, TLAPS

-----------------------------------------------------------------------------
(* The invariant                                                           *)

\* A row, and the local variables of a request.
Row == [state : {"free", "present", "gone"}, email : Email \cup {NoEmail},
        password : Nat, staff : BOOLEAN]

\* Every local variable has its type, which TypeOK does not ask.
Local == [op : {"none", "register", "update", "bootstrap", "assign", "add", "page", "delete"},
          user : User \cup {None}, email : Email \cup {NoEmail},
          password : {"keep", "new"}, staff : {"keep", "on", "off"},
          role : {"none", "user", "admin"}, row : Row, stamp : Nat]

\* The types of the variables.
Types ==
    /\ users \in [User -> Row]
    /\ links \in [User -> SUBSET {"user", "admin"}]
    /\ added \subseteq User
    /\ changes \in Nat
    /\ pc \in [Request -> Places]
    /\ req \in [Request -> Local]

\* What a request is about, by where it stands.
Position(r) ==
    /\ pc[r] \in {"insert", "commit"} =>
          req[r].email \in Email /\ req[r].op \in {"register", "bootstrap", "add", "page"}
    /\ pc[r] = "insert" /\ req[r].op # "page" => req[r].user = None
    /\ pc[r] \in {"commit", "done"} => req[r].user \in User
    /\ pc[r] \in {"lock", "write"} =>
          req[r].user \in User /\ req[r].op \in {"update", "bootstrap", "page"}
    /\ pc[r] = "link" =>
          /\ req[r].user \in User /\ req[r].op \in {"bootstrap", "assign"}
          /\ req[r].op = "bootstrap" => req[r].staff = "keep"

\* What a request is asked for, by its program.
Orders(r) ==
    /\ req[r].op = "register" =>
          req[r].staff = "keep" /\ req[r].role = "user" /\ req[r].email.lower
    /\ req[r].op = "update" => req[r].staff = "keep" /\ req[r].email.lower
    /\ req[r].op = "bootstrap" =>
          /\ req[r].role = "admin" /\ req[r].email.lower /\ req[r].staff \in {"keep", "on"}
          /\ pc[r] \in {"insert", "commit"} => req[r].staff = "on"
    /\ req[r].op = "page" =>
          /\ req[r].user \in User /\ req[r].email \in Email /\ req[r].password = "new"
          /\ req[r].staff = IF req[r].row.staff THEN "on" ELSE "off"
    /\ req[r].stamp <= changes

Control(r) == Position(r) /\ Orders(r)

\* A deletion of u has committed.
Deleted(u) == \E d \in Request : Done(d, "delete", u)

\* The row of a request that writes is there; the one of an insert is not, nor is
\* its address, and a new key is unused.
Footing(r) ==
    /\ pc[r] = "write" => Present(req[r].user)
    /\ pc[r] = "commit" =>
          /\ ~Present(req[r].user)
          /\ req[r].op # "page" => users[req[r].user].state = "free"
          /\ \A u \in User : Present(u) => ~SameEntry(users[u].email, req[r].email)
    /\ req[r].op = "page" \/ pc[r] = "done" => users[req[r].user].state # "free"
    /\ req[r].op = "bootstrap" /\ pc[r] \in {"lock", "write", "link"} =>
          users[req[r].user].state # "free"
    /\ req[r].op = "page" => Present(req[r].user) \/ Deleted(req[r].user)

\* Two inserts that wait to be committed are of two keys and two addresses.
Apart(r, q) ==
    pc[r] = "commit" /\ pc[q] = "commit" /\ r # q =>
        req[r].user # req[q].user /\ ~SameEntry(req[r].email, req[q].email)

\* What a request still knows of the account it has read.
Standing(r) ==
    LET u == req[r].user IN
    /\ /\ req[r].op = "bootstrap" /\ req[r].staff = "keep"
       /\ pc[r] \in {"lock", "write", "link"} /\ Present(u)
       => users[u].staff \/ Revived(u) \/ Demoted(u)
    /\ req[r].op = "page" /\ pc[r] \in {"lock", "write"} /\ Present(u) /\ req[r].row.staff =>
          "admin" \in links[u] \/ u \in added \/ Revived(u)
    /\ req[r].op = "page" => req[r].email.lower \/ u \in added

\* A changed password that was written.
Kept(r) ==
    pc[r] = "done" /\ req[r].op \in {"update", "page"} /\ req[r].password = "new" =>
        ~Present(req[r].user) \/ users[req[r].user].password >= req[r].stamp

\* What is true of each request.
Requests ==
    \A r \in Request : Control(r) /\ Footing(r) /\ Standing(r) /\ Kept(r)
                       /\ \A q \in Request : Apart(r, q)

\* The flags come with the role, and a bootstrap that is done gave both.
Whole(u) ==
    \/ Revived(u)
    \/ /\ users[u].staff => "admin" \in links[u] \/ u \in added
       /\ \A b \in Request : Done(b, "bootstrap", u) =>
             "admin" \in links[u] /\ (users[u].staff \/ Demoted(u))

\* An email as it was typed is one of the add form that no update has repaired.
Findable(u) ==
    ~users[u].email.lower =>
        /\ u \in added
        /\ \A q \in Request : Done(q, "update", u) /\ req[q].email # NoEmail =>
              \E p \in Request : Done(p, "page", u) /\ req[p].email = users[u].email

\* What is true of each account.
Sound(u) ==
    Present(u) =>
        /\ \A v \in User : Present(v) /\ SameEntry(users[u].email, users[v].email) => u = v
        /\ links[u] # {} \/ u \in added \/ Revived(u)
        /\ Whole(u)
        /\ Findable(u)
        /\ users[u].email \in Email

\* The inductive invariant.
AccountsInv == Types /\ Requests /\ \A u \in User : Sound(u)

-----------------------------------------------------------------------------
(* One request moves.                                                      *)

\* A step of r leaves the other requests where they are, and r had not ended; no
\* account that was added is forgotten.
Moves(r) ==
    /\ r \in Request /\ pc[r] \notin Ended
    /\ \A q \in Request \ {r} : pc'[q] = pc[q] /\ req'[q] = req[q]
    /\ added \subseteq added'

\* Who is done stays done.
LEMMA EndsStay ==
  ASSUME NEW r, Moves(r), NEW q \in Request, pc[q] = "done"
  PROVE  pc'[q] = "done" /\ req'[q] = req[q]
BY DEF Moves, Ended

\* So does what it did.
LEMMA DoneStays ==
  ASSUME NEW r, Moves(r), NEW q \in Request, NEW op, NEW u
  PROVE  /\ Done(q, op, u) => Done(q, op, u)' /\ req'[q] = req[q]
         /\ q # r => (Done(q, op, u)' <=> Done(q, op, u)) /\ req'[q] = req[q]
BY EndsStay DEF Moves, Done

\* What a finished request leaves stays.
LEMMA HistoryStays ==
  ASSUME NEW r, Moves(r), NEW u
  PROVE  /\ Deleted(u) => Deleted(u)'
         /\ Demoted(u) => Demoted(u)'
         /\ Revived(u) => Revived(u)'
<1>1. \A q \in Request : pc[q] = "done" => pc'[q] = "done" /\ req'[q] = req[q]
  BY EndsStay
<1>2. Deleted(u) => Deleted(u)'
  BY <1>1 DEF Deleted, Done
<1>3. Demoted(u) => Demoted(u)'
  BY <1>1 DEF Demoted, Done
<1>4. Revived(u) => Revived(u)'
  BY <1>1 DEF Revived, Done
<1> QED BY <1>2, <1>3, <1>4

\* What was true of two other requests is, and of the moved one by symmetry.
LEMMA ApartStays ==
  ASSUME Requests, NEW r, Moves(r), \A q \in Request : Apart(r, q)'
  PROVE  \A p, q \in Request : Apart(p, q)'
<1> SUFFICES ASSUME NEW p \in Request, NEW q \in Request PROVE Apart(p, q)'
  OBVIOUS
<1>1. CASE p = r
  BY <1>1
<1>2. CASE q = r
  <2>1. Apart(r, p)'
    OBVIOUS
  <2> QED BY <1>2, <2>1 DEF Apart, SameEntry
<1>3. CASE p # r /\ q # r
  <2>1. Apart(p, q)
    BY DEF Requests
  <2> QED BY <1>3, <2>1 DEF Apart, Moves
<1> QED BY <1>1, <1>2, <1>3

-----------------------------------------------------------------------------
(* An account that the step does not write.                                *)

\* The flags and the role of u stay as they are, if the step does not end a bootstrap of u.
LEMMA WholeStays ==
  ASSUME NEW u \in User, Whole(u), NEW r, Moves(r), users'[u] = users[u], links'[u] = links[u],
         ~Done(r, "bootstrap", u)'
  PROVE  Whole(u)'
<1>1. Demoted(u) => Demoted(u)'
  BY HistoryStays
<1>2. CASE Revived(u)
  BY <1>2, HistoryStays DEF Whole
<1>3. CASE ~Revived(u)
  <2>1. users[u].staff => "admin" \in links[u] \/ u \in added'
    BY <1>3 DEF Whole, Moves
  <2>2. ASSUME NEW b \in Request, Done(b, "bootstrap", u)'
        PROVE  "admin" \in links[u] /\ (users[u].staff \/ Demoted(u)')
    <3>1. Done(b, "bootstrap", u)
      BY <2>2, DoneStays
    <3> QED BY <1>1, <1>3, <3>1 DEF Whole
  <2> QED BY <2>1, <2>2 DEF Whole
<1> QED BY <1>2, <1>3

\* The email of u stays as it is, if the step does not end an update of it.
LEMMA FindableStays ==
  ASSUME NEW u \in User, Findable(u), NEW r, Moves(r), users'[u].email = users[u].email,
         Done(r, "update", u)' => req'[r].email = NoEmail
  PROVE  Findable(u)'
<1> SUFFICES ASSUME ~users[u].email.lower
             PROVE  /\ u \in added'
                    /\ \A q \in Request : Done(q, "update", u)' /\ req'[q].email # NoEmail =>
                          \E p \in Request : Done(p, "page", u)'
                                             /\ req'[p].email = users[u].email
  BY DEF Findable
<1>1. u \in added'
  BY DEF Findable, Moves
<1>2. ASSUME NEW q \in Request, Done(q, "update", u)', req'[q].email # NoEmail
      PROVE  \E p \in Request : Done(p, "page", u)' /\ req'[p].email = users[u].email
  <2>1. Done(q, "update", u) /\ req[q].email # NoEmail
    BY <1>2, DoneStays
  <2>2. PICK p \in Request : Done(p, "page", u) /\ req[p].email = users[u].email
    BY <2>1 DEF Findable
  <2> QED BY <2>2, DoneStays
<1> QED BY <1>1, <1>2

\* What is true of an account stays when its rows do, no other takes its address, and
\* no bootstrap or update of it ends.
LEMMA SoundStays ==
  ASSUME NEW u \in User, Sound(u), NEW r, Moves(r), users'[u] = users[u], links'[u] = links[u],
         ~Done(r, "bootstrap", u)', ~Done(r, "update", u)',
         \A v \in User : Present(u) /\ Present(v)' /\ SameEntry(users[u].email, users'[v].email)
                           => u = v
  PROVE  Sound(u)'
<1>1. CASE ~Present(u)
  BY <1>1 DEF Sound, Present
<1>2. CASE Present(u)
  <2>1. Whole(u)'
    BY <1>2, WholeStays DEF Sound
  <2>2. Findable(u)'
    BY <1>2, FindableStays DEF Sound
  <2>3. users[u].email \in Email /\ (links[u] # {} \/ u \in added' \/ Revived(u)')
    BY <1>2, HistoryStays DEF Sound, Moves
  <2> QED BY <1>2, <2>1, <2>2, <2>3 DEF Sound, SameEntry
<1> QED BY <1>1, <1>2

-----------------------------------------------------------------------------
(* Steps that change no table.                                             *)

\* What is true of the other requests stays when no row changes.
LEMMA OthersStay ==
  ASSUME AccountsInv, NEW r, Moves(r), UNCHANGED tables, NEW q \in Request \ {r}
  PROVE  Control(q)' /\ Footing(q)' /\ Standing(q)' /\ Kept(q)'
<1>1. Control(q) /\ Footing(q) /\ Standing(q) /\ Kept(q)
  BY DEF AccountsInv, Requests
<1>2. pc'[q] = pc[q] /\ req'[q] = req[q]
  BY DEF Moves
<1>3. users' = users /\ links' = links /\ added' = added /\ changes' = changes
  BY DEF tables
<1>4. \A p \in Request : pc[p] = "done" => pc'[p] = "done" /\ req'[p] = req[p]
  BY EndsStay
<1>5. Control(q)'
  BY <1>1, <1>2, <1>3 DEF Control, Position, Orders
<1>6. Footing(q)'
  BY <1>1, <1>2, <1>3, <1>4 DEF Footing, Present, Deleted, Done
<1>7. Standing(q)'
  BY <1>1, <1>2, <1>3, <1>4 DEF Standing, Present, Revived, Demoted, Done
<1>8. Kept(q)'
  BY <1>1, <1>2, <1>3 DEF Kept, Present
<1> QED BY <1>5, <1>6, <1>7, <1>8

\* Such a step keeps the invariant if what r itself is at is in order.
LEMMA QuietStep ==
  ASSUME AccountsInv, NEW r, Moves(r), UNCHANGED tables, pc'[r] # "done",
         pc' \in [Request -> Places], req' \in [Request -> Local],
         Control(r)', Footing(r)', Standing(r)', \A q \in Request : Apart(r, q)'
  PROVE  AccountsInv'
<1>1. \A q \in Request \ {r} : Control(q)' /\ Footing(q)' /\ Standing(q)' /\ Kept(q)'
  BY OthersStay
<1>2. \A p, q \in Request : Apart(p, q)'
  BY ApartStays DEF AccountsInv
<1>3. Kept(r)'
  BY DEF Kept
<1>4. Requests'
  BY <1>1, <1>2, <1>3 DEF Requests
<1>5. users' = users /\ links' = links /\ added' = added /\ changes' = changes
  BY DEF tables
<1>6. ASSUME NEW u \in User PROVE Sound(u)'
  <2>1. Sound(u) /\ ~Done(r, "bootstrap", u)' /\ ~Done(r, "update", u)'
    BY DEF AccountsInv, Done
  <2>2. \A v \in User : Present(u) /\ Present(v)' /\ SameEntry(users[u].email, users'[v].email)
                          => u = v
    BY <1>5, <2>1 DEF Sound, Present
  <2> QED BY <1>5, <2>1, <2>2, SoundStays
<1>7. Types'
  BY <1>5 DEF AccountsInv, Types
<1> QED BY <1>4, <1>6, <1>7 DEF AccountsInv

-----------------------------------------------------------------------------
(* Starting a request.                                                     *)

\* The local variables of a request that has not started.
LEMMA NoReqIs ==
  /\ NoReq \in Local /\ NoRow \in Row /\ NoEmail.lower = TRUE
  /\ NoReq.op = "none" /\ NoReq.user = None /\ NoReq.email = NoEmail
  /\ NoReq.password = "keep" /\ NoReq.staff = "keep" /\ NoReq.stamp = 0
  /\ NoReq.role = "none" /\ NoReq.row = NoRow /\ NoRow.state = "free" /\ NoRow.staff = FALSE
  /\ NoEmail \notin Email
BY NoneAssumption DEF NoReq, NoRow, NoEmail, Local, Row, Email

\* normalize_email returns an email in lower case.
LEMMA Normal ==
  ASSUME NEW e \in Email
  PROVE  /\ normalize_email(e) \in Email /\ normalize_email(e).lower
         /\ normalize_email(e) # NoEmail
BY NoReqIs DEF normalize_email, Email

\* A request that starts and is not to commit yet keeps the invariant if its
\* local variables are in order.
LEMMA StartQuiet ==
  ASSUME AccountsInv, NEW r \in Request, NEW q \in Local,
         NEW next \in {"insert", "lock", "link"},
         Start(r, q, next), UNCHANGED tables,
         Control(r)', Footing(r)', Standing(r)'
  PROVE  AccountsInv'
<1>1. /\ pc \in [Request -> Places] /\ req \in [Request -> Local]
      /\ next \in Places /\ added' = added
  BY DEF AccountsInv, Types, Places, Ended, tables
<1>2. Moves(r) /\ pc' \in [Request -> Places] /\ req' \in [Request -> Local]
      /\ pc'[r] = next
  BY <1>1 DEF Start, Moves, Ended
<1>3. \A p \in Request : Apart(r, p)'
  BY <1>2 DEF Apart
<1> QED BY <1>2, <1>3, QuietStep

\* What Start does to pc and req.
LEMMA StartIs ==
  ASSUME AccountsInv, NEW r \in Request, NEW q, NEW next, Start(r, q, next)
  PROVE  pc'[r] = next /\ req'[r] = q /\ pc[r] = "idle"
         /\ \A p \in Request \ {r} : pc'[p] = pc[p] /\ req'[p] = req[p]
BY DEF Start, AccountsInv, Types

\* A registration that starts knows its email and its role only.
LEMMA RegisterKept ==
  ASSUME AccountsInv, NEW r \in Request, NEW e \in Email, Register(r, e)
  PROVE  AccountsInv'
<1> DEFINE q == [NoReq EXCEPT !.op = "register", !.email = normalize_email(e), !.role = "user"]
<1>1. /\ q \in Local /\ q.op = "register" /\ q.email = normalize_email(e) /\ q.role = "user"
      /\ q.user = None /\ q.staff = "keep" /\ q.stamp = 0
  BY NoReqIs, Normal DEF Local
<1>2. Start(r, q, "insert") /\ UNCHANGED tables
  BY DEF Register
<1>3. changes' \in Nat
  BY <1>2 DEF AccountsInv, Types, tables
<1> HIDE DEF q
<1>4. pc'[r] = "insert" /\ req'[r] = q
  BY <1>2, StartIs
<1>5. Control(r)'
  BY <1>1, <1>3, <1>4, Normal DEF Control, Position, Orders
<1>6. Footing(r)' /\ Standing(r)'
  BY <1>1, <1>4 DEF Footing, Standing
<1> QED BY <1>1, <1>2, <1>5, <1>6, StartQuiet

\* The add form starts with the email as it is.
LEMMA AddFormKept ==
  ASSUME AccountsInv, NEW r \in Request, NEW e \in Email, NEW staff \in BOOLEAN,
         AddForm(r, e, staff)
  PROVE  AccountsInv'
<1> DEFINE box == IF staff THEN "on" ELSE "off"
           q == [NoReq EXCEPT !.op = "add", !.email = e, !.staff = box]
<1>1. box \in {"on", "off"}
  OBVIOUS
<1>2. Start(r, q, "insert") /\ UNCHANGED tables
  BY DEF AddForm
<1> HIDE DEF box
<1>3. q \in Local /\ q.op = "add" /\ q.email = e /\ q.user = None /\ q.stamp = 0
  BY <1>1, NoReqIs DEF Local
<1>4. changes' \in Nat
  BY <1>2 DEF AccountsInv, Types, tables
<1> HIDE DEF q
<1>5. pc'[r] = "insert" /\ req'[r] = q
  BY <1>2, StartIs
<1>6. Control(r)'
  BY <1>3, <1>4, <1>5 DEF Control, Position, Orders
<1>7. Footing(r)' /\ Standing(r)'
  BY <1>3, <1>5 DEF Footing, Standing
<1> QED BY <1>2, <1>3, <1>6, <1>7, StartQuiet

\* An update that starts has normalized its email, if it has one.
LEMMA UpdateKept ==
  ASSUME AccountsInv, NEW r \in Request, NEW u \in User, NEW e \in Email \cup {NoEmail},
         NEW password \in {"keep", "new"}, Update(r, u, e, password)
  PROVE  AccountsInv'
<1> DEFINE email == IF e = NoEmail THEN e ELSE normalize_email(e)
           q == [NoReq EXCEPT !.op = "update", !.user = u, !.email = email,
                              !.password = password]
<1>1. email \in Email \cup {NoEmail} /\ email.lower
  BY NoReqIs, Normal
<1>2. Start(r, q, "lock") /\ UNCHANGED tables
  BY DEF Update
<1> HIDE DEF email
<1>3. /\ q \in Local /\ q.op = "update" /\ q.email = email
      /\ q.user = u /\ q.password = password /\ q.staff = "keep" /\ q.stamp = 0
  BY <1>1, NoReqIs DEF Local
<1>4. changes' \in Nat
  BY <1>2 DEF AccountsInv, Types, tables
<1> HIDE DEF q
<1>5. pc'[r] = "lock" /\ req'[r] = q
  BY <1>2, StartIs
<1>6. Control(r)'
  BY <1>1, <1>3, <1>4, <1>5 DEF Control, Position, Orders
<1>7. Footing(r)' /\ Standing(r)'
  BY <1>3, <1>5 DEF Footing, Standing
<1> QED BY <1>2, <1>3, <1>6, <1>7, StartQuiet

\* A bootstrap that starts has found an account, or none.
LEMMA BootstrapKept ==
  ASSUME AccountsInv, NEW r \in Request, NEW e \in Email, Bootstrap(r, e)
  PROVE  AccountsInv'
<1>1. UNCHANGED tables /\ changes' \in Nat /\ users' = users
  BY DEF Bootstrap, AccountsInv, Types, tables
<1> DEFINE q == [NoReq EXCEPT !.op = "bootstrap", !.role = "admin"]
<1>2. /\ q \in Local /\ q.op = "bootstrap" /\ q.role = "admin" /\ q.email = NoEmail
      /\ q.user = None /\ q.staff = "keep" /\ q.password = "keep" /\ q.stamp = 0
  BY NoReqIs DEF Local
<1>3. \/ Start(r, [q EXCEPT !.email = normalize_email(e), !.staff = "on"], "insert")
      \/ \E u \in User : Present(u) /\ users[u].staff /\ Start(r, [q EXCEPT !.user = u], "link")
      \/ \E u \in User : Present(u) /\
            Start(r, [q EXCEPT !.user = u, !.row = users[u],
                               !.staff = IF users[u].staff THEN "keep" ELSE "on"], "lock")
  BY DEF Bootstrap
<1> HIDE DEF q
<1>4. CASE Start(r, [q EXCEPT !.email = normalize_email(e), !.staff = "on"], "insert")
  <2> DEFINE p == [q EXCEPT !.email = normalize_email(e), !.staff = "on"]
  <2>1. /\ p \in Local /\ p.op = "bootstrap" /\ p.role = "admin" /\ p.email = normalize_email(e)
        /\ p.user = None /\ p.staff = "on" /\ p.stamp = 0
    BY <1>2, Normal DEF Local
  <2>2. Start(r, p, "insert")
    BY <1>4
  <2> HIDE DEF p
  <2>3. pc'[r] = "insert" /\ req'[r] = p
    BY <2>2, StartIs
  <2>4. Control(r)'
    BY <1>1, <2>1, <2>3, Normal DEF Control, Position, Orders
  <2>5. Footing(r)' /\ Standing(r)'
    BY <2>1, <2>3 DEF Footing, Standing
  <2> QED BY <1>1, <2>1, <2>2, <2>4, <2>5, StartQuiet
<1>5. ASSUME NEW u \in User, Present(u), NEW p \in Local, NEW next \in {"link", "lock"},
             p.op = "bootstrap", p.role = "admin", p.email = NoEmail, p.user = u, p.stamp = 0,
             p.staff = IF users[u].staff THEN "keep" ELSE "on", next = "link" => p.staff = "keep",
             Start(r, p, next)
      PROVE  AccountsInv'
  <2>1. pc'[r] = next /\ req'[r] = p
    BY <1>5, StartIs
  <2>2. Control(r)'
    BY <1>1, <1>5, <2>1, NoReqIs DEF Control, Position, Orders
  <2>3. Footing(r)' /\ Standing(r)'
    BY <1>1, <1>5, <2>1 DEF Footing, Standing, Present
  <2> QED BY <1>1, <1>5, <2>2, <2>3, StartQuiet
<1>6. CASE \E u \in User : Present(u) /\ users[u].staff /\ Start(r, [q EXCEPT !.user = u], "link")
  <2>1. PICK u \in User : Present(u) /\ users[u].staff /\ Start(r, [q EXCEPT !.user = u], "link")
    BY <1>6
  <2> DEFINE p == [q EXCEPT !.user = u]
  <2>2. /\ p \in Local /\ p.op = "bootstrap" /\ p.role = "admin" /\ p.email = NoEmail
        /\ p.user = u /\ p.staff = "keep" /\ p.stamp = 0
    BY <1>2 DEF Local
  <2>3. Start(r, p, "link")
    BY <2>1
  <2> HIDE DEF p
  <2> QED BY <1>5, <2>1, <2>2, <2>3
<1>7. CASE \E u \in User : Present(u) /\
              Start(r, [q EXCEPT !.user = u, !.row = users[u],
                                 !.staff = IF users[u].staff THEN "keep" ELSE "on"], "lock")
  <2>1. PICK u \in User : Present(u) /\
              Start(r, [q EXCEPT !.user = u, !.row = users[u],
                                 !.staff = IF users[u].staff THEN "keep" ELSE "on"], "lock")
    BY <1>7
  <2> DEFINE staff == IF users[u].staff THEN "keep" ELSE "on"
             p == [q EXCEPT !.user = u, !.row = users[u], !.staff = staff]
  <2>2. staff \in {"keep", "on"} /\ users[u] \in Row
    BY DEF AccountsInv, Types
  <2>3. Start(r, p, "lock")
    BY <2>1
  <2>4. /\ p \in Local /\ p.op = "bootstrap" /\ p.role = "admin" /\ p.email = NoEmail
        /\ p.user = u /\ p.staff = staff /\ p.stamp = 0
    <3> HIDE DEF staff
    <3> QED BY <1>2, <2>2 DEF Local
  <2> HIDE DEF p
  <2> QED BY <1>5, <2>1, <2>3, <2>4
<1> QED BY <1>3, <1>4, <1>6, <1>7

\* A password page that starts has read the account as it is.
LEMMA PasswordPageKept ==
  ASSUME AccountsInv, NEW r \in Request, NEW u \in User, PasswordPage(r, u)
  PROVE  AccountsInv'
<1> DEFINE staff == IF users[u].staff THEN "on" ELSE "off"
           q == [NoReq EXCEPT !.op = "page", !.user = u, !.email = users[u].email,
                              !.row = users[u], !.password = "new", !.staff = staff]
<1>1. Types /\ Sound(u)
  BY DEF AccountsInv
<1>2. Start(r, q, "lock") /\ UNCHANGED tables /\ Present(u)
  BY DEF PasswordPage
<1>3. staff \in {"on", "off"} /\ users[u].email \in Email
  BY <1>1, <1>2 DEF Sound
<1>4. /\ q \in Local /\ q.op = "page" /\ q.email = users[u].email /\ q.user = u
      /\ q.row = users[u] /\ q.password = "new" /\ q.staff = staff /\ q.stamp = 0
  <2> HIDE DEF staff
  <2> QED BY <1>1, <1>3, NoReqIs DEF Local, Types
<1> HIDE DEF q
<1>5. pc'[r] = "lock" /\ req'[r] = q /\ pc[r] = "idle"
      /\ \A p \in Request \ {r} : pc'[p] = pc[p] /\ req'[p] = req[p]
  BY <1>2, StartIs
<1>6. users' = users /\ links' = links /\ added' = added /\ changes' \in Nat
  BY <1>1, <1>2 DEF Types, tables
<1>7. Control(r)'
  BY <1>3, <1>4, <1>5, <1>6 DEF Control, Position, Orders
<1>8. Footing(r)'
  BY <1>2, <1>4, <1>5, <1>6 DEF Footing, Present
<1>9. Standing(r)'
  <2>1. \A p \in Request : pc[p] = "done" => pc'[p] = "done" /\ req'[p] = req[p]
    BY <1>5
  <2>2. users[u].staff => "admin" \in links[u] \/ u \in added \/ Revived(u)
    BY <1>1, <1>2 DEF Sound, Whole
  <2>3. users[u].email.lower \/ u \in added
    BY <1>1, <1>2 DEF Sound, Findable
  <2> QED BY <1>4, <1>5, <1>6, <2>1, <2>2, <2>3 DEF Standing, Revived, Done
<1> QED BY <1>2, <1>4, <1>7, <1>8, <1>9, StartQuiet

\* assign_role starts for an account that is there.
LEMMA AssignKept ==
  ASSUME AccountsInv, NEW r \in Request, NEW u \in User, NEW role \in {"user", "admin"},
         Present(u), Start(r, [NoReq EXCEPT !.op = "assign", !.user = u, !.role = role], "link"),
         UNCHANGED tables
  PROVE  AccountsInv'
<1> DEFINE q == [NoReq EXCEPT !.op = "assign", !.user = u, !.role = role]
<1>1. q \in Local /\ q.op = "assign" /\ q.user = u /\ q.stamp = 0
  BY NoReqIs DEF Local
<1>2. Start(r, q, "link") /\ changes' \in Nat
  BY DEF AccountsInv, Types, tables
<1> HIDE DEF q
<1>3. pc'[r] = "link" /\ req'[r] = q
  BY <1>2, StartIs
<1>4. Control(r)' /\ Footing(r)' /\ Standing(r)'
  BY <1>1, <1>2, <1>3 DEF Control, Position, Orders, Footing, Standing
<1> QED BY <1>1, <1>2, <1>4, StartQuiet

\* A request for an account that is not there ends at once.
LEMMA RefuseKept ==
  ASSUME AccountsInv, NEW r \in Request, NEW op, Refuse(r, op), UNCHANGED tables
  PROVE  AccountsInv'
<1>1. Types /\ Control(r) /\ Footing(r) /\ Standing(r)
  BY DEF AccountsInv, Requests
<1>2. users' = users /\ links' = links /\ added' = added /\ changes' = changes
  BY DEF tables
<1>3. /\ pc'[r] = "missing" /\ Moves(r) /\ req' = req
      /\ pc' \in [Request -> Places] /\ req' \in [Request -> Local]
  BY <1>1, <1>2 DEF Refuse, Types, Moves, Places, Ended
<1>4. \A p \in Request : pc[p] = "done" => pc'[p] = "done" /\ req'[p] = req[p]
  BY <1>3, EndsStay
<1>5. Control(r)'
  BY <1>1, <1>2, <1>3 DEF Control, Position, Orders
<1>6. Footing(r)'
  BY <1>1, <1>2, <1>3, <1>4 DEF Footing, Present, Deleted, Done
<1>7. Standing(r)' /\ \A p \in Request : Apart(r, p)'
  BY <1>1, <1>2, <1>3 DEF Standing, Apart
<1> QED BY <1>3, <1>5, <1>6, <1>7, QuietStep

-----------------------------------------------------------------------------
(* Going on without writing.                                               *)

\* A request gives up, or finds nothing: nothing is left of it.
LEMMA RaiseKept ==
  ASSUME AccountsInv, NEW r \in Request, pc[r] \notin Ended, NEW how \in {"taken", "missing", "failed"},
         Raise(r, how), UNCHANGED tables
  PROVE  AccountsInv'
<1>1. Types
  BY DEF AccountsInv
<1>2. added' = added /\ changes' \in Nat
  BY <1>1 DEF Types, tables
<1>3. /\ pc'[r] = how /\ req'[r] = NoReq /\ Moves(r)
      /\ pc' \in [Request -> Places] /\ req' \in [Request -> Local]
  BY <1>1, <1>2, NoReqIs DEF Raise, GoTo, Types, Moves, Places, Ended
<1>4. Control(r)'
  BY <1>2, <1>3, NoReqIs DEF Control, Position, Orders
<1>5. Footing(r)' /\ Standing(r)' /\ \A q \in Request : Apart(r, q)'
  BY <1>3, NoReqIs DEF Footing, Standing, Apart
<1> QED BY <1>3, <1>4, <1>5, QuietStep

\* An IntegrityError ends the request.
LEMMA ConflictEnds ==
  ASSUME AccountsInv, NEW r \in Request, pc[r] \notin Ended,
         Raise(r, OnConflict(r)), UNCHANGED tables
  PROVE  AccountsInv'
<1>1. OnConflict(r) \in {"taken", "missing", "failed"}
  BY DEF OnConflict
<1> QED BY <1>1, RaiseKept

\* An INSERT that went through holds a key and an address nobody has.
LEMMA InsertKept ==
  ASSUME AccountsInv, NEW r \in Request, NEW u \in User, InsertUser(r, u)
  PROVE  AccountsInv'
<1>1. Types /\ Control(r) /\ Footing(r) /\ Standing(r) /\ pc[r] = "insert" /\ ~Waits(r)
  BY DEF AccountsInv, Requests, InsertUser
<1>2. UNCHANGED tables
  BY DEF InsertUser
<1>3. CASE Taken(r) /\ Raise(r, OnConflict(r))
  BY <1>1, <1>2, <1>3, ConflictEnds DEF Ended
<1>4. CASE ~Taken(r) /\ KeyFor(r, u) /\ req' = [req EXCEPT ![r].user = u] /\ GoTo(r, "commit")
  <2>1. users' = users /\ links' = links /\ added' = added /\ changes' = changes
    BY <1>2 DEF tables
  <2>2. /\ pc'[r] = "commit" /\ Moves(r)
        /\ pc' \in [Request -> Places]
    BY <1>1, <1>4, <2>1 DEF GoTo, Types, Moves, Places, Ended
  <2>3. /\ req'[r].user = u /\ req'[r].op = req[r].op /\ req'[r].email = req[r].email
        /\ req'[r].password = req[r].password /\ req'[r].staff = req[r].staff
        /\ req'[r].role = req[r].role /\ req'[r].row = req[r].row /\ req'[r].stamp = req[r].stamp
        /\ req' \in [Request -> Local]
    BY <1>1, <1>4 DEF Types, Local
  <2>4. req[r].op = "page" => u = req[r].user
    BY <1>1, <1>4, NoneAssumption DEF KeyFor, Control, Orders
  <2>5. req[r].op # "page" => users[u].state = "free"
    BY <1>1, <1>4 DEF KeyFor, Control, Position
  <2>6. Control(r)'
    BY <1>1, <2>1, <2>2, <2>3, <2>4 DEF Control, Position, Orders
  <2>7. \A v \in User : Present(v) => v # req[r].user /\ ~SameEntry(users[v].email, req[r].email)
    BY <1>1, <1>4 DEF Taken
  <2>8. ~Present(u)
    BY <1>1, <2>4, <2>5, <2>7 DEF Present
  <2>9. \A p \in Request : pc[p] = "done" => pc'[p] = "done" /\ req'[p] = req[p]
    BY <2>2, EndsStay
  <2>10. Footing(r)'
    BY <1>1, <2>1, <2>2, <2>3, <2>4, <2>5, <2>7, <2>8, <2>9
       DEF Footing, Present, Deleted, Done, SameEntry
  <2>11. Standing(r)'
    BY <1>1, <2>1, <2>2, <2>3, <2>4 DEF Standing
  <2>12. ASSUME NEW q \in Request, q # r, pc[q] = "commit"
         PROVE  req[q].user # u /\ ~SameEntry(req[r].email, req[q].email)
    <3>1. ~WaitsFor(r, q)
      BY <1>1 DEF Waits
    <3>2. ~InDoubt(q, req[r].email) /\ ~Inserts(q, req[r].user)
      BY <1>1, <2>12, <3>1 DEF WaitsFor
    <3>3. ~SameEntry(req[q].email, req[r].email)
      BY <2>12, <3>2 DEF InDoubt
    <3>4. ~Inserts(q, u)
      BY <1>1, <1>4, <2>4, <3>2 DEF KeyFor, Control, Position
    <3> QED BY <2>12, <3>3, <3>4 DEF Inserts, SameEntry
  <2>13. \A q \in Request : Apart(r, q)'
    BY <2>2, <2>3, <2>12 DEF Apart, Moves, SameEntry
  <2> QED BY <1>2, <2>2, <2>3, <2>6, <2>10, <2>11, <2>13, QuietStep
<1> QED BY <1>3, <1>4 DEF InsertUser

\* The UPDATE has found its row, or has not.
LEMMA LockKept ==
  ASSUME AccountsInv, NEW r \in Request, LockRow(r)
  PROVE  AccountsInv'
<1> DEFINE u == req[r].user
<1>1. /\ Types /\ Control(r) /\ Footing(r) /\ Standing(r) /\ pc[r] = "lock"
      /\ UNCHANGED tables
  BY DEF AccountsInv, Requests, LockRow
<1>2. users' = users /\ links' = links /\ added' = added /\ changes' = changes
  BY <1>1 DEF tables
<1>3. req[r].op \in {"update", "bootstrap", "page"} /\ u \in User
  BY <1>1 DEF Control, Position
<1>4. CASE Raise(r, "missing") \/ Raise(r, "failed")
  BY <1>1, <1>4, RaiseKept DEF Ended
<1>5. ASSUME NEW next \in {"write", "insert"}, GoTo(r, next), req' = req,
             next = "write" => Present(u), next = "insert" => req[r].op = "page"
      PROVE  AccountsInv'
  <2>1. /\ pc'[r] = next /\ pc' \in [Request -> Places] /\ req' \in [Request -> Local]
        /\ Moves(r)
    BY <1>1, <1>2, <1>5 DEF GoTo, Types, Places, Moves, Ended
  <2>2. \A p \in Request : pc[p] = "done" => pc'[p] = "done" /\ req'[p] = req[p]
    BY <2>1, EndsStay
  <2>3. Control(r)'
    BY <1>1, <1>2, <1>3, <1>5, <2>1 DEF Control, Position, Orders
  <2>4. Footing(r)'
    BY <1>1, <1>2, <1>3, <1>5, <2>1, <2>2 DEF Footing, Present, Deleted, Done
  <2>5. Standing(r)'
    BY <1>1, <1>2, <1>3, <1>5, <2>1, <2>2 DEF Standing, Present, Revived, Demoted, Done
  <2>6. \A q \in Request : Apart(r, q)'
    BY <2>1 DEF Apart
  <2> QED BY <1>1, <2>1, <2>3, <2>4, <2>5, <2>6, QuietStep
<1> QED BY <1>3, <1>4, <1>5 DEF LockRow

\* A request that is cut short leaves nothing.
LEMMA FailKept == ASSUME AccountsInv, NEW r \in Request, Fail(r) PROVE AccountsInv'
BY RaiseKept DEF Fail

-----------------------------------------------------------------------------
(* Steps that change one account.                                          *)

\* A step of r that leaves every account but u as it is.
Touches(r, u) ==
    /\ r \in Request /\ u \in User /\ Moves(r) /\ req'[r].user = u
    /\ \A v \in User \ {u} : users'[v] = users[v] /\ links'[v] = links[v]
    /\ changes' >= changes

\* A request of another account goes on as before.
LEMMA OthersElsewhere ==
  ASSUME AccountsInv, NEW r, NEW u, Touches(r, u), Types', NEW q \in Request \ {r},
         req[q].user # u,
         pc[q] = "commit" => (Present(u)' => ~SameEntry(users'[u].email, req[q].email))
  PROVE  Footing(q)' /\ Standing(q)' /\ Kept(q)'
<1>1. Types /\ Control(q) /\ Footing(q) /\ Standing(q) /\ Kept(q)
  BY DEF AccountsInv, Requests
<1>2. pc'[q] = pc[q] /\ req'[q] = req[q] /\ added \subseteq added'
  BY DEF Touches, Moves
<1>3. \A p \in Request : pc[p] = "done" => pc'[p] = "done" /\ req'[p] = req[p]
  BY EndsStay DEF Touches
<1>4. req[q].user \in User =>
         users'[req[q].user] = users[req[q].user] /\ links'[req[q].user] = links[req[q].user]
  BY DEF Touches
<1>5. Footing(q)'
  <2>1. ASSUME pc[q] = "commit", NEW v \in User, Present(v)'
        PROVE  ~SameEntry(users'[v].email, req[q].email)
    BY <1>1, <2>1 DEF Footing, Present, Touches
  <2> QED BY <1>1, <1>2, <1>3, <1>4, <2>1
      DEF Footing, Present, Deleted, Done, Control, Position, Orders, SameEntry
<1>6. Standing(q)'
  BY <1>1, <1>2, <1>3, <1>4
     DEF Standing, Present, Revived, Demoted, Done, Control, Position, Orders
<1>7. Kept(q)'
  BY <1>1, <1>2, <1>4 DEF Kept, Present, Control, Position
<1> QED BY <1>5, <1>6, <1>7

\* Such a step keeps the invariant if r, u and the other requests of u are in order,
\* and the new address of u is neither another account's nor about to be.
LEMMA TouchStep ==
  ASSUME AccountsInv, NEW r, NEW u, Touches(r, u), Types',
         Control(r)', Footing(r)', Standing(r)', Kept(r)', pc'[r] # "commit", Sound(u)',
         Present(u)' => \A v \in User \ {u} :
            Present(v) => ~SameEntry(users[v].email, users'[u].email),
         \A q \in Request \ {r} : pc[q] = "commit" =>
            (Present(u)' => ~SameEntry(users'[u].email, req[q].email)),
         \A q \in Request \ {r} : req[q].user = u => Footing(q)' /\ Standing(q)' /\ Kept(q)'
  PROVE  AccountsInv'
<1>1. Types /\ Requests /\ \A v \in User : Sound(v)
  BY DEF AccountsInv
<1>2. ASSUME NEW q \in Request \ {r}
      PROVE  Control(q)' /\ Footing(q)' /\ Standing(q)' /\ Kept(q)'
  <2>1. Control(q)'
    <3>1. Control(q) /\ changes \in Nat /\ changes' \in Nat /\ changes' >= changes
      BY <1>1 DEF Requests, Types, Touches
    <3>2. req[q].stamp \in Nat
      BY <1>1 DEF Types, Local
    <3>3. pc'[q] = pc[q] /\ req'[q] = req[q]
      BY DEF Touches, Moves
    <3> QED BY <3>1, <3>2, <3>3 DEF Control, Position, Orders
  <2>2. CASE req[q].user # u
    BY <2>1, <2>2, OthersElsewhere
  <2>3. CASE req[q].user = u
    BY <2>1, <2>3
  <2> QED BY <2>2, <2>3
<1>3. \A q \in Request : Apart(r, q)'
  BY DEF Apart
<1>4. Requests'
  <2>1. \A p, q \in Request : Apart(p, q)'
    BY <1>1, <1>3, ApartStays DEF Touches
  <2> QED BY <1>2, <2>1 DEF Requests
<1>5. ASSUME NEW v \in User PROVE Sound(v)'
  <2>1. CASE v = u
    BY <2>1
  <2>2. CASE v # u
    <3>1. users'[v] = users[v] /\ links'[v] = links[v] /\ Moves(r)
      BY <2>2 DEF Touches
    <3>2. ~Done(r, "bootstrap", v)' /\ ~Done(r, "update", v)'
      BY <2>2 DEF Touches, Done
    <3>3. ASSUME NEW w \in User, Present(v), Present(w)', SameEntry(users[v].email, users'[w].email)
          PROVE  v = w
      <4>1. CASE w = u
        BY <2>2, <3>3, <4>1
      <4>2. CASE w # u
        BY <1>1, <3>3, <4>2 DEF Sound, Present, Touches
      <4> QED BY <4>1, <4>2
    <3> QED BY <1>1, <3>1, <3>2, <3>3, SoundStays
  <2> QED BY <2>1, <2>2
<1> QED BY <1>4, <1>5 DEF AccountsInv

-----------------------------------------------------------------------------
(* The steps that change a table.                                          *)

\* get_or_create of a role link: who is bootstrapped was of staff or was demoted.
LEMMA LinkKept ==
  ASSUME AccountsInv, NEW r \in Request, NEW u \in User, req[r].user = u, LinkRole(r)
  PROVE  AccountsInv'
<1>1. /\ Types /\ Control(r) /\ Standing(r) /\ pc[r] = "link"
      /\ UNCHANGED <<users, added, changes>>
  BY DEF AccountsInv, Requests, LinkRole
<1>2. CASE ~Present(u)
  BY <1>1, <1>2, RaiseKept DEF LinkRole, Ended, tables
<1>3. CASE Present(u)
  <2>1. /\ req[r].op \in {"bootstrap", "assign"}
        /\ req[r].op = "bootstrap" => req[r].staff = "keep" /\ req[r].role = "admin"
    BY <1>1 DEF Control, Position, Orders
  <2>2. /\ links' = [links EXCEPT ![u] = @ \cup Roles(r)] /\ GoTo(r, "done") /\ req' = req
    BY <1>3 DEF LinkRole
  <2>3. Roles(r) \subseteq {"user", "admin"} /\ (req[r].op = "bootstrap" => "admin" \in Roles(r))
    BY <1>1, <2>1 DEF Roles, Types, Local
  <2>4. /\ pc'[r] = "done" /\ pc' \in [Request -> Places]
        /\ Moves(r) /\ links'[u] = links[u] \cup Roles(r)
        /\ links' \in [User -> SUBSET {"user", "admin"}]
        /\ \A v \in User \ {u} : links'[v] = links[v]
    BY <1>1, <2>2, <2>3 DEF GoTo, Types, Moves, Places, Ended
  <2>5. Touches(r, u) /\ Types'
    BY <1>1, <2>2, <2>4 DEF Touches, Types
  <2>6. \A p \in Request : pc[p] = "done" => pc'[p] = "done" /\ req'[p] = req[p]
    BY <2>4, EndsStay
  <2>7. Control(r)' /\ Footing(r)' /\ Standing(r)' /\ Kept(r)'
    BY <1>1, <1>3, <2>1, <2>2, <2>4
       DEF Control, Position, Orders, Footing, Standing, Kept, Present
  <2>8. Sound(u) /\ (Revived(u) => Revived(u)') /\ (Demoted(u) => Demoted(u)')
    BY <2>4, HistoryStays DEF AccountsInv
  <2>9. Whole(u)'
    <3>1. CASE Revived(u)
      BY <2>8, <3>1 DEF Whole
    <3>2. CASE ~Revived(u)
      <4>1. users[u].staff => "admin" \in links'[u] \/ u \in added
        BY <1>3, <2>4, <2>8, <3>2 DEF Sound, Whole
      <4>2. ASSUME NEW b \in Request, Done(b, "bootstrap", u)'
            PROVE  "admin" \in links'[u] /\ (users[u].staff \/ Demoted(u)')
        <5>1. CASE b = r
          <6>1. req[r].op = "bootstrap"
            BY <2>2, <4>2, <5>1 DEF Done
          <6> QED BY <1>1, <1>3, <2>1, <2>3, <2>4, <2>8, <3>2, <6>1 DEF Standing
        <5>2. CASE b # r
          <6>1. Done(b, "bootstrap", u)
            BY <2>4, <4>2, <5>2, DoneStays
          <6> QED BY <1>3, <2>4, <2>8, <3>2, <6>1 DEF Sound, Whole
        <5> QED BY <5>1, <5>2
      <4> QED BY <1>1, <4>1, <4>2 DEF Whole
    <3> QED BY <3>1, <3>2
  <2>10. Findable(u)'
    <3>1. ~Done(r, "update", u)'
      BY <2>1, <2>2 DEF Done
    <3> QED BY <1>1, <1>3, <2>4, <2>8, <3>1, FindableStays DEF Sound
  <2>11. Sound(u)'
    BY <1>1, <1>3, <2>4, <2>8, <2>9, <2>10 DEF Sound, Present, SameEntry
  <2>12. \A v \in User \ {u} : Present(v) => ~SameEntry(users[v].email, users'[u].email)
    BY <1>1, <1>3 DEF AccountsInv, Sound, SameEntry
  <2>13. \A q \in Request \ {r} : pc[q] = "commit" => ~SameEntry(users'[u].email, req[q].email)
    BY <1>1, <1>3 DEF AccountsInv, Requests, Footing
  <2>14. ASSUME NEW q \in Request \ {r}, req[q].user = u
         PROVE  Footing(q)' /\ Standing(q)' /\ Kept(q)'
    <3>1. Footing(q) /\ Standing(q) /\ Kept(q)
      BY DEF AccountsInv, Requests
    <3>2. pc'[q] = pc[q] /\ req'[q] = req[q]
      BY <2>4 DEF Moves
    <3>3. Footing(q)' /\ Kept(q)'
      BY <1>1, <2>6, <3>1, <3>2 DEF Footing, Kept, Present, Deleted, Done
    <3>4. Standing(q)'
      BY <1>1, <2>4, <2>6, <2>14, <3>1, <3>2 DEF Standing, Present, Revived, Demoted, Done
    <3> QED BY <3>3, <3>4
  <2> QED BY <2>4, <2>5, <2>7, <2>11, <2>12, <2>13, <2>14, TouchStep
<1> QED BY <1>2, <1>3

\* A deletion takes the row when nobody holds it; what others have read stays read.
LEMMA DeleteKept ==
  ASSUME AccountsInv, NEW r \in Request, NEW u \in User, DeleteUser(r, u)
  PROVE  AccountsInv'
<1> DEFINE q == [NoReq EXCEPT !.op = "delete", !.user = u]
<1>1. /\ q \in Local /\ q.op = "delete" /\ q.user = u /\ q.stamp = 0
  BY NoReqIs DEF Local
<1>2. /\ Types /\ changes' = changes /\ added' = added /\ ~\E s \in Request : Holds(s, u)
  BY DEF AccountsInv, DeleteUser
<1>3. \/ Refuse(r, "delete") /\ UNCHANGED <<users, links>>
      \/ /\ Present(u) /\ Start(r, q, "done")
         /\ users' = [users EXCEPT ![u] = [NoRow EXCEPT !.state = "gone"]]
         /\ links' = [links EXCEPT ![u] = {}]
  BY DEF DeleteUser
<1> HIDE DEF q
<1>4. CASE Refuse(r, "delete") /\ UNCHANGED <<users, links>>
  BY <1>2, <1>4, RefuseKept DEF tables
<1>5. CASE /\ Present(u) /\ Start(r, q, "done")
           /\ users' = [users EXCEPT ![u] = [NoRow EXCEPT !.state = "gone"]]
           /\ links' = [links EXCEPT ![u] = {}]
  <2>1. /\ pc'[r] = "done" /\ req'[r] = q /\ pc[r] = "idle"
        /\ \A p \in Request \ {r} : pc'[p] = pc[p] /\ req'[p] = req[p]
    BY <1>5, StartIs
  <2>2. Moves(r)
    BY <1>2, <2>1 DEF Moves, Ended
  <2>3. users'[u].state = "gone" /\ users'[u] \in Row
    BY <1>2, <1>5, NoReqIs DEF Types, Row
  <2>4. Touches(r, u)
    BY <1>1, <1>2, <1>5, <2>1, <2>2 DEF Touches, Types
  <2>5. Types'
    <3>1. users' \in [User -> Row] /\ links' \in [User -> SUBSET {"user", "admin"}]
      BY <1>2, <1>5, NoReqIs DEF Types, Row
    <3>2. pc' \in [Request -> Places] /\ req' \in [Request -> Local]
      BY <1>1, <1>2, <1>5 DEF Types, Start, Places, Ended
    <3> QED BY <1>2, <3>1, <3>2 DEF Types
  <2>6. Control(r)' /\ Footing(r)' /\ Standing(r)' /\ Kept(r)'
    BY <1>1, <1>2, <2>1, <2>3 DEF Control, Position, Orders, Footing, Standing, Kept, Types
  <2>7. Sound(u)' /\ ~Present(u)'
    BY <2>3 DEF Sound, Present
  <2>8. Deleted(u)'
    BY <1>1, <2>1 DEF Deleted, Done
  <2>9. ASSUME NEW p \in Request \ {r}, req[p].user = u
        PROVE  Footing(p)' /\ Standing(p)' /\ Kept(p)'
    <3>1. Footing(p) /\ Kept(p) /\ Standing(p)
      BY DEF AccountsInv, Requests
    <3>2. pc'[p] = pc[p] /\ req'[p] = req[p]
      BY <2>1
    <3>3. pc[p] \notin {"write", "commit"}
      BY <1>2, <1>5, <2>9, <3>1 DEF Holds, Footing
    <3>4. Footing(p)'
      BY <2>3, <2>8, <2>9, <3>2, <3>3 DEF Footing
    <3>5. Standing(p)' /\ Kept(p)'
      BY <1>2, <2>7, <2>9, <3>1, <3>2 DEF Standing, Kept
    <3> QED BY <3>4, <3>5
  <2> QED BY <2>1, <2>4, <2>5, <2>6, <2>7, <2>9, TouchStep
<1> QED BY <1>3, <1>4, <1>5

\* What a step that ends with a stamp does to pc and req.
LEMMA Stamped ==
  ASSUME AccountsInv, NEW r \in Request, pc[r] \in {"write", "commit"}, GoTo(r, "done"),
         changes' = Changes(r), req' = [req EXCEPT ![r].stamp = changes'], added \subseteq added'
  PROVE  /\ changes \in Nat /\ changes' \in Nat /\ changes' >= changes
         /\ req[r].password = "new" => changes' = changes + 1
         /\ req[r].password = "keep" => changes' = changes
         /\ pc'[r] = "done" /\ pc' \in [Request -> Places]
         /\ req' \in [Request -> Local]
         /\ req'[r].op = req[r].op /\ req'[r].user = req[r].user /\ req'[r].email = req[r].email
         /\ req'[r].password = req[r].password /\ req'[r].staff = req[r].staff
         /\ req'[r].role = req[r].role /\ req'[r].row = req[r].row /\ req'[r].stamp = changes'
         /\ req[r].password \in {"keep", "new"}
         /\ Moves(r)
<1>1. Types
  BY DEF AccountsInv
<1>2. changes \in Nat /\ req[r].password \in {"keep", "new"}
  BY <1>1 DEF Types, Local
<1>3. /\ changes' \in Nat /\ changes' >= changes
      /\ req[r].password = "new" => changes' = changes + 1
      /\ req[r].password = "keep" => changes' = changes
  BY <1>2 DEF Changes
<1>4. /\ pc'[r] = "done" /\ pc' \in [Request -> Places]
      /\ \A q \in Request \ {r} : pc'[q] = pc[q]
  BY <1>1 DEF GoTo, Types, Places, Ended
<1>5. /\ req' \in [Request -> Local]
      /\ req'[r].op = req[r].op /\ req'[r].user = req[r].user /\ req'[r].email = req[r].email
      /\ req'[r].password = req[r].password /\ req'[r].staff = req[r].staff
      /\ req'[r].role = req[r].role /\ req'[r].row = req[r].row /\ req'[r].stamp = changes'
      /\ \A q \in Request \ {r} : req'[q] = req[q]
  BY SMTT(30), <1>1, <1>3 DEF Types, Local
<1>6. Moves(r)
  BY <1>4, <1>5 DEF Moves, Ended
<1> QED BY <1>2, <1>3, <1>4, <1>5, <1>6

\* COMMIT of a new account: its key and its address were held since the INSERT.  Only a
\* password page has met the account before, and that one was deleted.
LEMMA CommitKept ==
  ASSUME AccountsInv, NEW r \in Request, NEW u \in User, req[r].user = u, Commit(r)
  PROVE  AccountsInv'
<1>1. /\ Types /\ Control(r) /\ Footing(r) /\ Standing(r) /\ pc[r] = "commit"
  BY DEF AccountsInv, Requests, Commit
<1>2. /\ req[r].email \in Email /\ req[r].op \in {"register", "bootstrap", "add", "page"}
      /\ req[r].staff \in {"keep", "on", "off"} /\ req[r].role \in {"none", "user", "admin"}
  BY <1>1 DEF Control, Position, Types, Local
<1>3. /\ users' = [users EXCEPT ![u] = Inserted(r)] /\ links' = [links EXCEPT ![u] = Roles(r)]
      /\ added' = IF req[r].op = "add" THEN added \cup {u} ELSE added
      /\ changes' = Changes(r) /\ req' = [req EXCEPT ![r].stamp = changes'] /\ GoTo(r, "done")
  BY DEF Commit
<1>4. added \subseteq added' /\ added' \subseteq User /\ (req[r].op = "add" => u \in added')
  BY <1>1, <1>3 DEF Types
<1>5. /\ changes \in Nat /\ changes' \in Nat /\ changes' >= changes
      /\ req[r].password = "new" => changes' = changes + 1
      /\ pc'[r] = "done" /\ pc' \in [Request -> Places]
      /\ req' \in [Request -> Local]
      /\ req'[r].op = req[r].op /\ req'[r].user = u /\ req'[r].email = req[r].email
      /\ req'[r].password = req[r].password /\ req'[r].staff = req[r].staff
      /\ req'[r].role = req[r].role /\ req'[r].row = req[r].row /\ req'[r].stamp = changes'
      /\ Moves(r)
  BY <1>1, <1>3, <1>4, Stamped
<1> DEFINE new == Inserted(r)
<1>6. /\ new.state = "present" /\ new.email = req[r].email
      /\ new.staff = (req[r].staff = "on") /\ new.password \in Nat
      /\ req[r].password = "new" => new.password = changes + 1
      /\ new \in Row
  <2>1. Staff(r, FALSE) = (req[r].staff = "on")
    BY <1>2 DEF Staff
  <2> DEFINE p == IF req[r].password = "new" THEN changes + 1 ELSE 0
  <2>2. p \in Nat /\ (req[r].password = "new" => p = changes + 1)
    BY <1>5
  <2>3. new = Account(req[r].email, p, req[r].staff = "on")
    BY <2>1 DEF Inserted
  <2> HIDE DEF new, p
  <2> QED BY <1>2, <2>2, <2>3 DEF Account, Row
<1> HIDE DEF new
<1>7. /\ users'[u] = new /\ users' \in [User -> Row]
      /\ links'[u] = Roles(r) /\ links' \in [User -> SUBSET {"user", "admin"}]
      /\ \A v \in User \ {u} : users'[v] = users[v] /\ links'[v] = links[v]
  BY <1>1, <1>2, <1>3, <1>6 DEF Types, Roles, new
<1>8. Touches(r, u) /\ Types'
  BY <1>4, <1>5, <1>7 DEF Touches, Types
<1>9. \A p \in Request : pc[p] = "done" => pc'[p] = "done" /\ req'[p] = req[p]
  BY <1>5, EndsStay
<1>10. /\ ~Present(u) /\ Present(u)'
       /\ req[r].op # "page" => users[u].state = "free"
       /\ \A v \in User : Present(v) => ~SameEntry(users[v].email, req[r].email)
       /\ req[r].op = "page" => Deleted(u)
  BY <1>1, <1>6, <1>7 DEF Footing, Present
<1>11. req[r].op = "page" => Revived(u)'
  BY <1>5, <1>9, <1>10 DEF Deleted, Revived, Done
<1>12. ASSUME NEW q \in Request, req[q].user = u, pc[q] = "done" PROVE req[r].op = "page"
  BY <1>10, <1>12 DEF AccountsInv, Requests, Footing
<1>13. Control(r)' /\ Footing(r)' /\ Standing(r)' /\ Kept(r)'
  <2>1. Control(r)'
    BY <1>1, <1>5 DEF Control, Position, Orders
  <2>2. Footing(r)'
    BY <1>5, <1>6, <1>7 DEF Footing, Present
  <2>3. Standing(r)'
    BY <1>1, <1>4, <1>5 DEF Standing
  <2>4. Kept(r)'
    BY <1>5, <1>6, <1>7 DEF Kept
  <2> QED BY <2>1, <2>2, <2>3, <2>4
<1>14. \A v \in User \ {u} : Present(v) => ~SameEntry(users[v].email, users'[u].email)
  BY <1>6, <1>7, <1>10
<1>15. \A q \in Request \ {r} : pc[q] = "commit" =>
          req[q].user # u /\ ~SameEntry(users'[u].email, req[q].email)
  BY <1>1, <1>6, <1>7 DEF AccountsInv, Requests, Apart
<1>16. Sound(u)'
  <2>1. \A v \in User : Present(v)' /\ SameEntry(users'[u].email, users'[v].email) => u = v
    BY <1>7, <1>14 DEF Present, SameEntry
  <2>2. /\ req[r].op = "register" => links'[u] = {"user"} /\ ~users'[u].staff
        /\ req[r].op = "bootstrap" => links'[u] = {"admin"} /\ users'[u].staff
    BY <1>1, <1>6, <1>7 DEF Control, Position, Orders, Roles
  <2>3. links'[u] # {} \/ u \in added' \/ Revived(u)'
    BY <1>2, <1>4, <1>11, <2>2
  <2>4. Whole(u)'
    <3>1. CASE req[r].op = "page"
      BY <1>11, <3>1 DEF Whole
    <3>2. CASE req[r].op # "page"
      <4>1. users'[u].staff => "admin" \in links'[u] \/ u \in added'
        BY <1>2, <1>4, <2>2, <3>2
      <4>2. ASSUME NEW b \in Request, Done(b, "bootstrap", u)'
            PROVE  "admin" \in links'[u] /\ users'[u].staff
        <5>1. b = r
          BY <1>5, <1>12, <3>2, <4>2, DoneStays DEF Done
        <5> QED BY <1>5, <2>2, <4>2, <5>1 DEF Done
      <4> QED BY <4>1, <4>2 DEF Whole
    <3> QED BY <3>1, <3>2
  <2>5. Findable(u)'
    <3>1. CASE req[r].op = "page"
      <4>1. Done(r, "page", u)' /\ req'[r].email = users'[u].email
        BY <1>5, <1>6, <1>7, <3>1 DEF Done
      <4>2. users'[u].email.lower \/ u \in added'
        BY <1>1, <1>4, <1>6, <1>7, <3>1 DEF Standing
      <4> QED BY <1>1, <4>1, <4>2 DEF Findable, Moves
    <3>2. CASE req[r].op # "page"
      <4>1. ~\E q \in Request : Done(q, "update", u)'
        BY <1>2, <1>5, <1>12, <3>2, DoneStays DEF Done
      <4>2. users'[u].email.lower \/ u \in added'
        BY <1>1, <1>2, <1>4, <1>6, <1>7, <3>2 DEF Control, Orders
      <4> QED BY <4>1, <4>2 DEF Findable
    <3> QED BY <3>1, <3>2
  <2>6. users'[u].email \in Email
    BY <1>2, <1>6, <1>7
  <2> QED BY <2>1, <2>3, <2>4, <2>5, <2>6 DEF Sound
<1>17. ASSUME NEW q \in Request \ {r}, req[q].user = u
       PROVE  Footing(q)' /\ Standing(q)' /\ Kept(q)'
  <2>1. Footing(q) /\ Standing(q) /\ Kept(q) /\ Control(q)
    BY DEF AccountsInv, Requests
  <2>2. pc'[q] = pc[q] /\ req'[q] = req[q]
    BY <1>5 DEF Moves
  <2>3. pc[q] # "commit"
    BY <1>15, <1>17
  <2>4. Footing(q)'
    BY <1>6, <1>7, <1>10, <1>17, <2>2, <2>3 DEF Footing
  <2>5. users[u].state # "free" => Revived(u)'
    BY <1>10, <1>11
  <2>6. Standing(q)'
    <3>1. /\ req[q].op = "page" => users[u].state # "free"
          /\ req[q].op = "bootstrap" /\ pc[q] \in {"lock", "write", "link"}
             => users[u].state # "free"
      BY <1>17, <2>1 DEF Footing
    <3>2. req[q].op = "page" => req[q].email.lower \/ u \in added'
      BY <1>4, <1>17, <2>1 DEF Standing
    <3> QED BY <1>17, <2>2, <2>5, <3>1, <3>2 DEF Standing
  <2>7. Kept(q)'
    <3> SUFFICES ASSUME pc[q] = "done" PROVE users'[u].password >= req[q].stamp
      BY <1>17, <2>2 DEF Kept
    <3>1. req[r].op = "page"
      BY <1>12, <1>17
    <3>2. users'[u].password = changes + 1
      BY <1>1, <1>6, <1>7, <3>1 DEF Control, Orders
    <3>3. req[q].stamp \in Nat /\ req[q].stamp <= changes
      BY <1>1, <2>1 DEF Types, Local, Control, Orders
    <3> QED BY <1>5, <3>2, <3>3
  <2> QED BY <2>4, <2>6, <2>7
<1> QED BY <1>5, <1>8, <1>13, <1>14, <1>15, <1>16, <1>17, TouchStep

\* COMMIT of a change: its row was held since the UPDATE, and a new address is neither
\* another account's nor held for one.
LEMMA WriteKept ==
  ASSUME AccountsInv, NEW r \in Request, NEW u \in User, req[r].user = u, Write(r)
  PROVE  AccountsInv'
<1>1. /\ Types /\ Control(r) /\ Footing(r) /\ Standing(r) /\ Sound(u)
      /\ pc[r] = "write" /\ ~Waits(r) /\ Present(u)
  BY DEF AccountsInv, Requests, Write, Footing
<1>2. CASE Taken(r) /\ Raise(r, OnConflict(r)) /\ UNCHANGED tables
  BY <1>1, <1>2, ConflictEnds DEF Ended
<1>3. CASE /\ ~Taken(r)
           /\ users' = [users EXCEPT ![u] = NewRow(r)]
           /\ links' = [links EXCEPT ![u] = @ \cup Roles(r)]
           /\ changes' = Changes(r)
           /\ req' = [req EXCEPT ![r].stamp = changes']
           /\ GoTo(r, "done")
           /\ UNCHANGED added
  <2>1. /\ req[r].op \in {"update", "bootstrap", "page"}
        /\ req[r].op = "update" => req[r].staff = "keep" /\ req[r].email.lower
        /\ req[r].op = "bootstrap" => /\ req[r].role = "admin" /\ req[r].staff \in {"keep", "on"}
                                      /\ req[r].email.lower
        /\ req[r].op = "page" => /\ req[r].email \in Email
                                 /\ req[r].staff = IF req[r].row.staff THEN "on" ELSE "off"
    BY <1>1 DEF Control, Position, Orders
  <2>2. /\ users[u] \in Row /\ req[r].email \in Email \cup {NoEmail}
        /\ req[r].row.staff \in BOOLEAN /\ req[r].role \in {"none", "user", "admin"}
    BY <1>1 DEF Types, Local, Row
  <2>3. /\ users[u].email \in Email /\ users[u].staff \in BOOLEAN /\ users[u].password \in Nat
    BY <1>1, <2>2 DEF Sound, Row
  <2>4. NewEmail(r) = IF req[r].email = NoEmail THEN users[u].email ELSE req[r].email
    BY DEF NewEmail
  <2>5. NewEmail(r) \in Email
    BY <2>2, <2>3, <2>4
  <2>6. /\ changes \in Nat /\ changes' \in Nat /\ changes' >= changes
        /\ req[r].password = "new" => changes' = changes + 1
        /\ req[r].password = "keep" => changes' = changes
        /\ pc'[r] = "done" /\ pc' \in [Request -> Places]
        /\ req' \in [Request -> Local]
        /\ req'[r].op = req[r].op /\ req'[r].user = u /\ req'[r].email = req[r].email
        /\ req'[r].password = req[r].password /\ req'[r].staff = req[r].staff
        /\ req'[r].role = req[r].role /\ req'[r].row = req[r].row /\ req'[r].stamp = changes'
        /\ req[r].password \in {"keep", "new"}
        /\ Moves(r)
    BY <1>1, <1>3, Stamped
  <2> DEFINE new == NewRow(r)
  <2>7. /\ new.state = "present" /\ new.email = NewEmail(r)
        /\ new.staff = IF req[r].staff = "keep" THEN users[u].staff ELSE req[r].staff = "on"
        /\ req[r].password = "keep" => new.password = users[u].password
        /\ req[r].password = "new" => new.password = changes'
        /\ new \in Row
    <3> DEFINE p == IF req[r].password = "new" THEN changes + 1 ELSE users[u].password
               s == IF req[r].staff = "keep" THEN users[u].staff ELSE req[r].staff = "on"
    <3>1. p \in Nat /\ s \in BOOLEAN
      BY <2>3, <2>6
    <3>2. new = Account(NewEmail(r), p, s)
      BY DEF NewRow, Staff
    <3>3. /\ req[r].password = "keep" => p = users[u].password
          /\ req[r].password = "new" => p = changes'
      BY <2>6
    <3>4. s = IF req[r].staff = "keep" THEN users[u].staff ELSE req[r].staff = "on"
      OBVIOUS
    <3> HIDE DEF new, p, s
    <3>5. new.state = "present" /\ new.email = NewEmail(r) /\ new.password = p /\ new.staff = s
      BY <3>2 DEF Account
    <3>6. new \in Row
      BY <2>5, <3>1, <3>2 DEF Account, Row
    <3> QED BY <3>3, <3>4, <3>5, <3>6
  <2>8. users' = [users EXCEPT ![u] = new]
    BY <1>3
  <2> HIDE DEF new
  <2>9. Roles(r) \subseteq {"user", "admin"} /\ (req[r].role = "admin" => "admin" \in Roles(r))
    BY <2>2 DEF Roles
  <2>10. /\ users'[u] = new /\ users' \in [User -> Row] /\ added' = added
         /\ links' \in [User -> SUBSET {"user", "admin"}]
         /\ links'[u] = links[u] \cup Roles(r)
         /\ \A v \in User \ {u} : users'[v] = users[v] /\ links'[v] = links[v]
    BY <1>1, <1>3, <2>7, <2>8, <2>9 DEF Types
  <2>11. Touches(r, u) /\ Types'
    BY <1>1, <2>6, <2>10 DEF Touches, Types
  <2>12. \A p \in Request : pc[p] = "done" => pc'[p] = "done" /\ req'[p] = req[p]
    BY <2>6, EndsStay
  <2>13. /\ Revived(u) => Revived(u)'
         /\ Demoted(u) => Demoted(u)'
    BY <2>6, HistoryStays
  <2>14. Present(u)' /\ (req[r].op = "page" /\ ~req[r].row.staff => Demoted(u)')
    BY <2>6, <2>7, <2>10 DEF Present, Demoted, Done
  \* Who was of staff is, but for a page.
  <2>15. /\ users[u].staff => users'[u].staff \/ Demoted(u)'
         /\ req[r].op = "bootstrap" => users'[u].staff \/ Revived(u) \/ Demoted(u)
         /\ users'[u].staff =>
               users[u].staff \/ "admin" \in links'[u] \/ u \in added \/ Revived(u)
    <3>1. CASE req[r].op = "update"
      BY <2>1, <2>7, <2>10, <3>1
    <3>2. CASE req[r].op = "bootstrap"
      BY <1>1, <2>1, <2>7, <2>9, <2>10, <3>2 DEF Standing
    <3>3. CASE req[r].op = "page"
      BY <1>1, <2>1, <2>7, <2>10, <2>14, <3>3 DEF Standing
    <3> QED BY <2>1, <3>1, <3>2, <3>3
  <2>16. Control(r)' /\ Footing(r)' /\ Standing(r)' /\ Kept(r)'
    <3>1. Control(r)'
      BY <1>1, <2>6 DEF Control, Position, Orders
    <3>2. Footing(r)'
      BY <2>6, <2>7, <2>10 DEF Footing, Present
    <3>3. Standing(r)'
      BY <1>1, <2>6, <2>10 DEF Standing
    <3>4. Kept(r)'
      BY <2>6, <2>7, <2>10 DEF Kept
    <3> QED BY <3>1, <3>2, <3>3, <3>4
  <2>17. \A v \in User \ {u} : Present(v) => ~SameEntry(users[v].email, users'[u].email)
    <3> SUFFICES ASSUME NEW v \in User \ {u}, Present(v)
                 PROVE  ~SameEntry(users[v].email, NewEmail(r))
      BY <2>7, <2>10
    <3>1. CASE Renames(r)
      <4>1. ~SameEntry(users[v].email, req[r].email)
        BY <1>1, <1>3, <3>1 DEF Taken
      <4>2. NewEmail(r) = req[r].email
        BY <2>4, <3>1 DEF Renames, SameEntry
      <4> QED BY <4>1, <4>2
    <3>2. CASE ~Renames(r)
      <4>1. ~SameEntry(users[u].email, users[v].email)
        BY <1>1 DEF Sound
      <4> QED BY <3>2, <4>1 DEF Renames, SameEntry
    <3> QED BY <3>1, <3>2
  <2>18. \A q \in Request \ {r} : pc[q] = "commit" => ~SameEntry(users'[u].email, req[q].email)
    <3> SUFFICES ASSUME NEW q \in Request \ {r}, pc[q] = "commit"
                 PROVE  ~SameEntry(NewEmail(r), req[q].email)
      BY <2>7, <2>10
    <3>1. CASE Renames(r)
      BY <1>1, <3>1 DEF Waits, WaitsFor, InDoubt, SameEntry
    <3>2. CASE ~Renames(r)
      <4>1. ~SameEntry(users[u].email, req[q].email)
        BY <1>1 DEF AccountsInv, Requests, Footing
      <4> QED BY <3>2, <4>1 DEF Renames, SameEntry
    <3> QED BY <3>1, <3>2
  <2>19. Whole(u)'
    <3>1. CASE Revived(u)
      BY <2>13, <3>1 DEF Whole
    <3>2. CASE ~Revived(u)
      <4>1. Whole(u)
        BY <1>1 DEF Sound
      <4>2. users'[u].staff => "admin" \in links'[u] \/ u \in added'
        BY <2>10, <2>15, <3>2, <4>1 DEF Whole
      <4>3. ASSUME NEW b \in Request, Done(b, "bootstrap", u)'
            PROVE  "admin" \in links'[u] /\ (users'[u].staff \/ Demoted(u)')
        <5>1. CASE b = r
          <6>1. req[r].op = "bootstrap"
            BY <2>6, <4>3, <5>1 DEF Done
          <6> QED BY <2>1, <2>9, <2>10, <2>13, <2>15, <3>2, <6>1
        <5>2. CASE b # r
          <6>1. Done(b, "bootstrap", u)
            BY <2>6, <4>3, <5>2, DoneStays
          <6>2. "admin" \in links[u] /\ (users[u].staff \/ Demoted(u))
            BY <3>2, <4>1, <6>1 DEF Whole
          <6> QED BY <2>10, <2>13, <2>15, <6>2
        <5> QED BY <5>1, <5>2
      <4> QED BY <4>2, <4>3 DEF Whole
    <3> QED BY <3>1, <3>2
  <2>20. Findable(u)'
    <3>1. CASE req[r].email = NoEmail
      <4>1. users'[u].email = users[u].email /\ req'[r].email = NoEmail
        BY <2>4, <2>6, <2>7, <2>10, <3>1
      <4> QED BY <1>1, <2>6, <4>1, FindableStays DEF Sound
    <3>2. CASE req[r].email # NoEmail /\ req[r].op # "page"
      BY <2>1, <2>4, <2>7, <2>10, <3>2 DEF Findable
    <3>3. CASE req[r].op = "page"
      <4>1. Done(r, "page", u)' /\ req'[r].email = users'[u].email
        BY <2>1, <2>4, <2>6, <2>7, <2>10, <3>3, NoReqIs DEF Done
      <4>2. users'[u].email.lower \/ u \in added'
        BY <1>1, <2>6, <2>10, <3>3, <4>1 DEF Standing
      <4> QED BY <1>1, <4>1, <4>2 DEF Findable
    <3> QED BY <3>1, <3>2, <3>3
  <2>21. Sound(u)'
    <3>1. \A v \in User : Present(v)' /\ SameEntry(users'[u].email, users'[v].email) => u = v
      BY <2>10, <2>17 DEF Present, SameEntry
    <3>2. links'[u] # {} \/ u \in added' \/ Revived(u)'
      BY <1>1, <2>10, <2>13 DEF Sound
    <3>3. users'[u].email \in Email
      BY <2>5, <2>7, <2>10
    <3> QED BY <2>19, <2>20, <3>1, <3>2, <3>3 DEF Sound
  <2>22. ASSUME NEW q \in Request \ {r}, req[q].user = u
         PROVE  Footing(q)' /\ Standing(q)' /\ Kept(q)'
    <3>1. Footing(q) /\ Standing(q) /\ Kept(q) /\ Control(q)
      BY DEF AccountsInv, Requests
    <3>2. pc'[q] = pc[q] /\ req'[q] = req[q]
      BY <2>6 DEF Moves
    <3>3. pc[q] # "commit"
      BY <1>1, <2>22, <3>1 DEF Footing
    <3>4. Footing(q)'
      BY <2>7, <2>10, <2>14, <2>22, <3>2, <3>3 DEF Footing, Present
    <3>5. req[q].op = "bootstrap" /\ req[q].staff = "keep" /\ pc[q] \in {"lock", "write", "link"}
          => users'[u].staff \/ Revived(u)' \/ Demoted(u)'
      BY <1>1, <2>13, <2>15, <2>22, <3>1 DEF Standing
    <3>6. req[q].op = "page" /\ pc[q] \in {"lock", "write"} /\ req[q].row.staff
          => "admin" \in links'[u] \/ u \in added' \/ Revived(u)'
      BY <1>1, <2>10, <2>13, <2>22, <3>1 DEF Standing
    <3>7. req[q].op = "page" => req[q].email.lower \/ u \in added'
      BY <2>10, <2>22, <3>1 DEF Standing
    <3>8. Standing(q)'
      BY <2>22, <3>2, <3>5, <3>6, <3>7 DEF Standing
    <3>9. Kept(q)'
      <4> SUFFICES ASSUME pc[q] = "done", req[q].op \in {"update", "page"}, req[q].password = "new"
                   PROVE  users'[u].password >= req[q].stamp
        BY <2>22, <3>2 DEF Kept
      <4>1. users[u].password >= req[q].stamp
        BY <1>1, <2>22, <3>1 DEF Kept
      <4>2. req[q].stamp \in Nat /\ req[q].stamp <= changes
        BY <1>1, <3>1 DEF Types, Local, Control, Orders
      <4> QED BY <2>6, <2>7, <2>10, <4>1, <4>2
    <3> QED BY <3>4, <3>8, <3>9
  <2> QED BY <2>6, <2>11, <2>16, <2>17, <2>18, <2>21, <2>22, TouchStep
<1> QED BY <1>2, <1>3 DEF Write

-----------------------------------------------------------------------------
(* The invariant                                                           *)

\* The accounts there are at first are sound.
LEMMA InitKept == Init => AccountsInv
<1> SUFFICES ASSUME Init PROVE AccountsInv
  OBVIOUS
<1>1. /\ changes = 0
      /\ \A r \in Request : /\ pc[r] = "idle" /\ req[r] = NoReq
                            /\ req[r].op = "none" /\ req[r].stamp = 0
  BY NoReqIs DEF Init
<1>2. ASSUME NEW e \in Email, NEW b \in BOOLEAN
      PROVE  Account(e, 0, b) \in Row /\ Account(e, 0, b).email = e
  BY DEF Account, Row
<1>3. ASSUME NEW u \in User
      PROVE  users[u] \in Row /\ (Present(u) => users[u].email \in Email)
  <2>1. users[u] = NoRow \/ \E e \in Email, b \in BOOLEAN : users[u] = Account(e, 0, b)
    <3>1. users[u] \in {NoRow} \cup {Account(e, 0, b) : e \in Email, b \in BOOLEAN}
      BY DEF Init
    <3> QED BY SMTT(30), <3>1
  <2>2. CASE users[u] = NoRow
    BY <2>2, NoReqIs DEF Present
  <2>3. CASE \E e \in Email, b \in BOOLEAN : users[u] = Account(e, 0, b)
    BY <1>2, <2>3
  <2> QED BY <2>1, <2>2, <2>3
<1>4. Types
  <2>1. users = [u \in User |-> users[u]]
    BY DEF Init
  <2>2. users \in [User -> Row]
    BY <1>3, <2>1
  <2>3. pc \in [Request -> Places] /\ req \in [Request -> Local]
    BY NoReqIs DEF Init, Places, Ended
  <2> QED BY <1>1, <2>2, <2>3 DEF Types, Init
<1>5. Requests
  BY <1>1 DEF Requests, Control, Position, Orders, Footing, Standing, Kept, Apart
<1>6. ASSUME NEW u \in User PROVE Sound(u)
  <2> SUFFICES ASSUME Present(u) PROVE Sound(u)
    BY DEF Sound
  <2>1. \A v \in User : Present(v) /\ SameEntry(users[u].email, users[v].email) => u = v
    BY DEF Init
  <2>2. /\ u \notin added => /\ users[u].email.lower /\ links[u] # {}
                             /\ users[u].staff => "admin" \in links[u]
    BY DEF Init
  <2>3. \A b \in Request : \A op : ~Done(b, op, u)
    BY <1>1 DEF Done
  <2>4. Whole(u) /\ Findable(u)
    BY <2>2, <2>3 DEF Whole, Findable
  <2> QED BY <1>3, <2>1, <2>2, <2>4 DEF Sound
<1> QED BY <1>4, <1>5, <1>6 DEF AccountsInv

\* A step of a request that has started keeps the invariant.
LEMMA StepKept ==
  ASSUME AccountsInv, NEW r \in Request, Step(r)
  PROVE  AccountsInv'
<1>1. Position(r)
  BY DEF AccountsInv, Requests, Control
<1>2. CASE \E u \in User : InsertUser(r, u)
  BY <1>2, InsertKept
<1>3. CASE Commit(r)
  <2>1. req[r].user \in User
    BY <1>1, <1>3 DEF Position, Commit
  <2> QED BY <1>3, <2>1, CommitKept
<1>4. CASE LockRow(r)
  BY <1>4, LockKept
<1>5. CASE Write(r)
  <2>1. req[r].user \in User
    BY <1>1, <1>5 DEF Position, Write
  <2> QED BY <1>5, <2>1, WriteKept
<1>6. CASE LinkRole(r)
  <2>1. req[r].user \in User
    BY <1>1, <1>6 DEF Position, LinkRole
  <2> QED BY <1>6, <2>1, LinkKept
<1> QED BY <1>2, <1>3, <1>4, <1>5, <1>6 DEF Step

\* So does a step that changes nothing.
LEMMA StutterKept == AccountsInv /\ UNCHANGED vars => AccountsInv'
<1> SUFFICES ASSUME AccountsInv, UNCHANGED vars PROVE AccountsInv'
  OBVIOUS
<1> USE DEF vars, tables
<1>1. Types' /\ Requests'
  BY DEF AccountsInv, Types, Requests, Control, Position, Orders, Footing, Standing, Kept, Apart,
         Present, Revived, Deleted, Demoted, Done
<1>2. \A u \in User : Sound(u)'
  BY DEF AccountsInv, Sound, Whole, Findable, Present, Revived, Demoted, Done
<1> QED BY <1>1, <1>2 DEF AccountsInv

\* So does every step.
LEMMA NextKept == AccountsInv /\ [Next]_vars => AccountsInv'
<1> SUFFICES ASSUME AccountsInv, Next PROVE AccountsInv'
  BY StutterKept
<1> PICK r \in Request :
        \/ \E e \in Email :
              \/ Register(r, e)
              \/ Bootstrap(r, e)
              \/ \E staff \in BOOLEAN : AddForm(r, e, staff)
        \/ \E u \in User :
              \/ \E e \in Email \cup {NoEmail}, password \in {"keep", "new"} :
                    Update(r, u, e, password)
              \/ \E role \in {"user", "admin"} : Assign(r, u, role)
              \/ PasswordPage(r, u)
              \/ DeleteUser(r, u)
        \/ Step(r)
        \/ Fail(r)
  BY DEF Next
<1>1. CASE \E e \in Email : Register(r, e)
  BY <1>1, RegisterKept
<1>2. CASE \E e \in Email : Bootstrap(r, e)
  BY <1>2, BootstrapKept
<1>3. CASE \E e \in Email, staff \in BOOLEAN : AddForm(r, e, staff)
  BY <1>3, AddFormKept
<1>4. CASE \E u \in User, e \in Email \cup {NoEmail}, password \in {"keep", "new"} :
              Update(r, u, e, password)
  BY <1>4, UpdateKept
<1>5. CASE \E u \in User, role \in {"user", "admin"} : Assign(r, u, role)
  BY <1>5, AssignKept, RefuseKept DEF Assign
<1>6. CASE \E u \in User : PasswordPage(r, u)
  BY <1>6, PasswordPageKept
<1>7. CASE \E u \in User : DeleteUser(r, u)
  BY <1>7, DeleteKept
<1>8. CASE Step(r) \/ Fail(r)
  BY <1>8, StepKept, FailKept
<1> QED BY <1>1, <1>2, <1>3, <1>4, <1>5, <1>6, <1>7, <1>8

\* In every reachable state each request and each account is as AccountsInv says.
THEOREM AccountsAreSound == Spec => []AccountsInv
BY InitKept, NextKept, PTL DEF Spec

\* The variables keep their types, and a request that works on a row has one.
THEOREM AccountsTypeCorrect == Spec => []TypeOK
<1>1. AccountsInv => TypeOK
  BY DEF AccountsInv, Types, Requests, Control, Position, TypeOK, Row
<1> QED BY <1>1, AccountsAreSound, PTL

\* However registrations, bootstraps, updates, pages of the Django admin and deletions
\* overlap, the waits on the Lower(email) index keep two accounts from having one address.
THEOREM OneAccountHolds == Spec => []OneAccountPerAddress
<1>1. AccountsInv => OneAccountPerAddress
  BY DEF AccountsInv, Sound, SameEntry, OneAccountPerAddress
<1> QED BY <1>1, AccountsAreSound, PTL

\* An account and its first role are committed together: without a role are only the
\* accounts of the add form and those that a password page brought back.
THEOREM EveryAccountHasARole == Spec => []NoAccountWithoutRole
<1>1. AccountsInv => NoAccountWithoutRole
  BY DEF AccountsInv, Sound, NoAccountWithoutRole
<1> QED BY <1>1, AccountsAreSound, PTL

\* The flags come with the admin role but for the add form's, and what a bootstrap gave
\* stays: assignments and updates that overlap it take neither back, a password page
\* that had read the account before takes the flags.
THEOREM AdministratorsStayWhole == Spec => []AdministratorsAreWhole
<1>1. AccountsInv => AdministratorsAreWhole
  BY DEF AccountsInv, Sound, Whole, AdministratorsAreWhole
<1> QED BY <1>1, AccountsAreSound, PTL

\* The API's programs write emails in lower case only: login misses an account of the
\* add form at most, and no longer once an update has given it an email, unless a
\* password page puts the typed one back.
THEOREM LoginFinds == Spec => []LoginFindsAccounts
<1>1. AccountsInv => LoginFindsAccounts
  BY DEF AccountsInv, Sound, Findable, LoginFindsAccounts
<1> QED BY <1>1, AccountsAreSound, PTL

\* A changed password stays until the next change: update and bootstrap write the columns
\* they were asked to, and a page that writes every field brings a new password.
THEOREM PasswordsHold == Spec => []PasswordChangesHold
<1>1. AccountsInv => PasswordChangesHold
  BY DEF AccountsInv, Requests, Kept, Done, PasswordChangesHold
<1> QED BY <1>1, AccountsAreSound, PTL
=============================================================================
