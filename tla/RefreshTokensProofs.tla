------------------------ MODULE RefreshTokensProofs ------------------------
(***************************************************************************)
(* Proofs about RefreshTokens, for any number of tokens, families, users,  *)
(* devices and requests, any lifetime and either setting of                *)
(* REFRESH_BIND_DEVICE: types, ownership, lineage, expiry and binding,     *)
(* what a revoking UPDATE achieves among other requests, that the table    *)
(* implements the sessions of TokenFamily, and that row locks are taken in *)
(* an order that only logout-alls can break.                               *)
(***************************************************************************)
EXTENDS RefreshTokensInv, WellFoundedInduction, TLAPS

-----------------------------------------------------------------------------
(* Type correctness                                                        *)

\* Stamping revoked_at leaves a row a row, and its other columns alone.
LEMMA Stamp ==
    ASSUME NEW x \in Row, NEW a \in Time
    PROVE  LET y == [x EXCEPT !.revoked = a]
           IN  /\ y \in Row
               /\ y.user = x.user /\ y.family = x.family /\ y.parent = x.parent
               /\ y.device = x.device /\ y.expires = x.expires
               /\ y.revoked = a
BY DEF Row

\* Reading the clock into a request leaves a request.
LEMMA Stamped ==
    ASSUME NEW x \in Req, NEW a \in Time
    PROVE  LET y == [x EXCEPT !.at = a]
           IN  /\ y \in Req
               /\ y.op = x.op /\ y.token = x.token /\ y.user = x.user
               /\ y.device = x.device /\ y.at = a
BY DEF Req

LEMMA TypeInit == Init => TypeOK
BY NoneAssumption DEF Init, TypeOK, Time, Row, Vacant, Req, NoReq, Op, PC, Outcomes,
       Exists

LEMMA TypeNext == TypeOK /\ Control /\ Statement /\ [Next]_vars => TypeOK'
<1>. USE NoneAssumption, LifetimeAssumption
     DEF TypeOK, Time, Row, Req, Op, PC, Outcomes, Exists
<1>. SUFFICES ASSUME TypeOK, Control, Statement, [Next]_vars PROVE TypeOK'
  OBVIOUS
<1>1. ASSUME NEW u \in User, NEW f \in Family, NEW d \in Device \cup {None},
             NEW t \in Token, Login(u, f, d, t)
      PROVE  TypeOK'
  BY <1>1 DEF Login, RootRow, statement, Vacant
<1>2. ASSUME NEW r \in Request, Begin(r) PROVE TypeOK'
  <2>1. ASSUME NEW t \in Token \cup {None}, NEW d \in Device \cup {None},
               RefreshStart(r, t, d)
        PROVE  TypeOK'
    BY <2>1 DEF RefreshStart, Start, db
  <2>2. ASSUME NEW t \in Token \cup {None}, LogoutStart(r, t) PROVE TypeOK'
    BY <2>2 DEF LogoutStart, Start, db
  <2>3. ASSUME NEW u \in User, LogoutAllStart(r, u) PROVE TypeOK'
    BY <2>3 DEF LogoutAllStart, Start, db
  <2>. QED BY <1>2, <2>1, <2>2, <2>3 DEF Begin
<1>3. ASSUME NEW r \in Request, SelectForUpdate(r) PROVE TypeOK'
  BY <1>3 DEF SelectForUpdate, Verdict, AfterVerdict
<1>4. ASSUME NEW r \in Request, NEW c \in Token, Rotate(r, c) PROVE TypeOK'
  <2>. DEFINE t == req[r].token
  <2>1. t \in Token /\ Exists(t)
    BY <1>4 DEF Control, Rotate
  <2>2. ChildRow(r, t) \in Row /\ Consumed(r, t) \in Row
    <3>1. Consumed(r, t) \in Row
      BY <2>1, Stamp DEF Consumed
    <3>2. ChildRow(r, t) \in Row
      BY <2>1 DEF ChildRow
    <3>. QED BY <3>1, <3>2
  <2>3. ChildRow(r, t).family # None /\ Consumed(r, t).family # None
    BY <2>1, Stamp DEF ChildRow, Consumed
  <2>. QED BY <1>4, <2>1, <2>2, <2>3 DEF Rotate, Released, statement
<1>5. ASSUME NEW r \in Request, Lookup(r) PROVE TypeOK'
  <2>1. req' = [req EXCEPT ![r] = [req[r] EXCEPT !.at = clock]]
    BY <1>5 DEF Lookup
  <2>2. req' \in [Request -> Req]
    BY <2>1, Stamped
  <2>. QED BY <1>5, <2>2 DEF Lookup, db, statement
<1>6. ASSUME NEW r \in Request, Snapshot(r) PROVE TypeOK'
  BY <1>6 DEF Snapshot, Found, Scan, db
<1>7. ASSUME NEW r \in Request, SweepRow(r) PROVE TypeOK'
  BY <1>7 DEF SweepRow, Scan
<1>8. ASSUME NEW r \in Request, SweepCommit(r) PROVE TypeOK'
  <2>1. \A t \in Token : Consumed(r, t) \in Row
    BY Stamp DEF Consumed
  <2>2. \A t \in Token : Consumed(r, t).family = row[t].family
    BY Stamp DEF Consumed
  <2>3. \A t \in hit[r] : Exists(t)
    BY DEF Statement
  <2>. QED BY <1>8, <2>1, <2>2, <2>3 DEF SweepCommit, Released, statement
<1>9. ASSUME NEW r \in Request, Respond(r) PROVE TypeOK'
  <2>1. issued[r] # None => issued[r] \in Token /\ Exists(issued[r])
    BY DEF Control
  <2>. QED BY <1>9, <2>1 DEF Respond, db, statement
<1>10. ASSUME NEW r \in Request, Fail(r) PROVE TypeOK'
  BY <1>10 DEF Fail, Released
<1>11. CASE Tick
  BY <1>11 DEF Tick, db, statement
<1>12. CASE Finished \/ UNCHANGED vars
  BY <1>12 DEF Finished, vars
<1>. QED BY <1>1, <1>2, <1>3, <1>4, <1>5, <1>6, <1>7, <1>8, <1>9, <1>10, <1>11,
            <1>12 DEF Next, Step

-----------------------------------------------------------------------------
(* The rows, and where each request is                                     *)

Base == TypeOK /\ Control /\ Statement

\* Only three kinds of step write rows.
LEMMA RowSteps ==
    ASSUME [Next]_vars
    PROVE  \/ row' = row
           \/ \E u \in User, f \in Family, d \in Device \cup {None}, t \in Token :
                  Login(u, f, d, t)
           \/ \E r \in Request, c \in Token : Rotate(r, c)
           \/ \E r \in Request : SweepCommit(r)
BY DEF Next, Begin, Step, RefreshStart, LogoutStart, LogoutAllStart, Start,
       SelectForUpdate, Lookup, Snapshot, SweepRow, Respond, Fail, Tick, Finished,
       vars, db

\* What a rotation writes.
LEMMA RotateRows ==
    ASSUME TypeOK, Control, NEW r \in Request, NEW c \in Token, Rotate(r, c)
    PROVE  LET t == req[r].token
           IN  /\ t \in Token /\ t # c /\ Exists(t) /\ row[c] = Vacant
               /\ row' = [row EXCEPT ![t] = Consumed(r, t), ![c] = ChildRow(r, t)]
               /\ row'[t] = Consumed(r, t)
               /\ row'[c] = ChildRow(r, t)
               /\ \A s \in Token \ {t, c} : row'[s] = row[s]
BY NoneAssumption DEF TypeOK, Control, Rotate, Exists, Req

\* Rows are never deleted by a request, and keep every column but revoked_at.
LEMMA RowsStay ==
    ASSUME Base, [Next]_vars, NEW t \in Token, Exists(t)
    PROVE  /\ row'[t].user = row[t].user
           /\ row'[t].family = row[t].family
           /\ row'[t].parent = row[t].parent
           /\ row'[t].device = row[t].device
           /\ row'[t].expires = row[t].expires
           /\ Exists(t)'
<1>. DEFINE Kept(s) ==
        /\ row'[s].user = row[s].user
        /\ row'[s].family = row[s].family
        /\ row'[s].parent = row[s].parent
        /\ row'[s].device = row[s].device
        /\ row'[s].expires = row[s].expires
<1>0. \A r \in Request, s \in Token :
          /\ Consumed(r, s).user = row[s].user
          /\ Consumed(r, s).family = row[s].family
          /\ Consumed(r, s).parent = row[s].parent
          /\ Consumed(r, s).device = row[s].device
          /\ Consumed(r, s).expires = row[s].expires
  BY Stamp DEF Consumed, Base, TypeOK, Req
<1>1. CASE row' = row
  BY <1>1 DEF Exists
<1>2. ASSUME NEW u \in User, NEW f \in Family, NEW d \in Device \cup {None},
             NEW n \in Token, Login(u, f, d, n)
      PROVE  Kept(t)
  BY <1>2 DEF Login, Base, TypeOK
<1>3. ASSUME NEW r \in Request, NEW c \in Token, Rotate(r, c)
      PROVE  Kept(t)
  BY <1>3, <1>0, RotateRows DEF Base, Vacant, Exists
<1>4. ASSUME NEW r \in Request, SweepCommit(r)
      PROVE  Kept(t)
  BY <1>4, <1>0 DEF SweepCommit
<1>. QED BY <1>1, <1>2, <1>3, <1>4, RowSteps DEF Exists

LEMMA ControlNext == Base /\ [Next]_vars => Control'
<1>. SUFFICES ASSUME Base, [Next]_vars PROVE Control'
  OBVIOUS
<1>. USE DEF Base, TypeOK, Control
<1>0. \A t \in Token : Exists(t) => Exists(t)'
  BY RowsStay
<1>1. ASSUME NEW u \in User, NEW f \in Family, NEW d \in Device \cup {None},
             NEW t \in Token, Login(u, f, d, t)
      PROVE  Control'
  BY <1>0, <1>1 DEF Login, Req
<1>2. ASSUME NEW r \in Request, Begin(r) PROVE Control'
  <2>1. ASSUME NEW t \in Token \cup {None}, NEW d \in Device \cup {None},
               RefreshStart(r, t, d)
        PROVE  Control'
    BY <1>0, <2>1 DEF RefreshStart, Start, db, Req
  <2>2. ASSUME NEW t \in Token \cup {None}, LogoutStart(r, t) PROVE Control'
    BY <1>0, <2>2 DEF LogoutStart, Start, db, Req
  <2>3. ASSUME NEW u \in User, LogoutAllStart(r, u) PROVE Control'
    BY <1>0, <2>3 DEF LogoutAllStart, Start, db, Req
  <2>. QED BY <1>2, <2>1, <2>2, <2>3 DEF Begin
<1>3. ASSUME NEW r \in Request, SelectForUpdate(r) PROVE Control'
  <2>1. /\ Verdict(r, req[r].token) = "missing" <=> req[r].token = None
        /\ Verdict(r, req[r].token) \in
              {"missing", "reused", "expired", "binding_mismatch", "rotated"}
    BY DEF Verdict
  <2>. QED BY <1>0, <1>3, <2>1 DEF SelectForUpdate, AfterVerdict, Req
<1>4. ASSUME NEW r \in Request, NEW c \in Token, Rotate(r, c) PROVE Control'
  <2>1. Exists(c)'
    <3>. DEFINE t == req[r].token
    <3>1. row'[c] = ChildRow(r, t) /\ Exists(t)
      BY <1>4, RotateRows
    <3>2. ChildRow(r, t).family = row[t].family
      BY DEF ChildRow
    <3>. QED BY <3>1, <3>2 DEF Exists
  <2>. QED BY <1>0, <1>4, <2>1 DEF Rotate, statement, Req
<1>5. ASSUME NEW r \in Request, Lookup(r) PROVE Control'
  <2>1. \A q \in Request : req'[q].token = req[q].token /\ req'[q].op = req[q].op
    BY <1>5, Stamped DEF Lookup
  <2>. QED BY <1>0, <1>5, <2>1 DEF Lookup, db, statement, Req
<1>6. ASSUME NEW r \in Request, Snapshot(r) PROVE Control'
  BY <1>0, <1>6 DEF Snapshot, db, Req
<1>7. ASSUME NEW r \in Request, SweepRow(r) PROVE Control'
  BY <1>0, <1>7 DEF SweepRow, Req
<1>8. ASSUME NEW r \in Request, SweepCommit(r) PROVE Control'
  BY <1>0, <1>8 DEF SweepCommit, statement, Req
<1>9. ASSUME NEW r \in Request, Respond(r) PROVE Control'
  BY <1>0, <1>9 DEF Respond, db, statement, Req
<1>10. ASSUME NEW r \in Request, Fail(r) PROVE Control'
  BY <1>0, <1>10 DEF Fail, Req
<1>11. CASE Tick
  BY <1>0, <1>11 DEF Tick, db, statement, Req
<1>12. CASE Finished \/ UNCHANGED vars
  BY <1>12 DEF Finished, vars, Exists
<1>. QED BY <1>1, <1>2, <1>3, <1>4, <1>5, <1>6, <1>7, <1>8, <1>9, <1>10, <1>11,
            <1>12 DEF Next, Step

LEMMA StatementNext == Base /\ [Next]_vars => Statement'
<1>. SUFFICES ASSUME Base, [Next]_vars PROVE Statement'
  OBVIOUS
<1>. USE DEF Base, TypeOK, Statement
<1>0. \A t \in Token : Exists(t) => Exists(t)'
  BY RowsStay
<1>1. CASE UNCHANGED <<pc, statement>>
  BY <1>0, <1>1 DEF statement, Scan
<1>2. ASSUME NEW r \in Request, Begin(r) PROVE Statement'
  BY <1>0, <1>2 DEF Begin, RefreshStart, LogoutStart, LogoutAllStart, Start, db, Scan
<1>3. ASSUME NEW r \in Request, SelectForUpdate(r) PROVE Statement'
  BY <1>0, <1>3 DEF SelectForUpdate, AfterVerdict, Scan
<1>4. ASSUME NEW r \in Request, NEW c \in Token, Rotate(r, c) PROVE Statement'
  BY <1>0, <1>4 DEF Rotate, statement, Scan
<1>5. ASSUME NEW r \in Request, Lookup(r) PROVE Statement'
  BY <1>0, <1>5 DEF Lookup, db, statement, Scan
<1>6. ASSUME NEW r \in Request, Snapshot(r) PROVE Statement'
  <2>1. \A t \in Found(r) : Exists(t)'
    BY <1>0 DEF Found, Live
  <2>. QED BY <1>0, <1>6, <2>1 DEF Snapshot, db, Scan
<1>7. ASSUME NEW r \in Request, SweepRow(r) PROVE Statement'
  <2>1. want[r] \in todo[r]
    BY <1>7 DEF SweepRow, Scan
  <2>2. want'[r] \in Scan(todo'[r])
    BY <1>7 DEF SweepRow
  <2>. QED BY <1>0, <1>7, <2>1, <2>2 DEF SweepRow, Scan
<1>8. ASSUME NEW r \in Request, SweepCommit(r) PROVE Statement'
  BY <1>0, <1>8 DEF SweepCommit, statement, Scan
<1>9. ASSUME NEW r \in Request, Respond(r) PROVE Statement'
  BY <1>0, <1>9 DEF Respond, db, statement, Scan
<1>10. ASSUME NEW r \in Request, Fail(r) PROVE Statement'
  BY <1>0, <1>10 DEF Fail, Scan
<1>. QED BY <1>1, <1>2, <1>3, <1>4, <1>5, <1>6, <1>7, <1>8, <1>9, <1>10
         DEF Next, Step, Login, Tick, Finished, vars, statement

LEMMA BaseInit == Init => Base
<1>1. Init => Control
  BY DEF Init, Control, NoReq
<1>2. Init => Statement
  BY DEF Init, Statement
<1>. QED BY <1>1, <1>2, TypeInit DEF Base

LEMMA BaseNext == Base /\ [Next]_vars => Base'
BY TypeNext, ControlNext, StatementNext DEF Base

LEMMA BaseInvariant == Spec => []Base
BY BaseInit, BaseNext, PTL DEF Spec

\* Every variable of the model keeps its type: no write of the services or
\* of the repository leaves a row half filled.
THEOREM TypeCorrect == Spec => []TypeOK
BY BaseInvariant, PTL DEF Base
-----------------------------------------------------------------------------
(* Row locks                                                               *)

LEMMA OwnershipNext == Base /\ Ownership /\ [Next]_vars => Ownership'
<1>. SUFFICES ASSUME Base, Ownership, [Next]_vars PROVE Ownership'
  OBVIOUS
<1>. USE NoneAssumption DEF Ownership
<1>a. /\ row \in [Token -> Row]
      /\ lock \in [Token -> Request \cup {None}]
      /\ pc \in [Request -> PC]
      /\ req \in [Request -> Req]
      /\ outcome \in [Request -> Outcomes]
      /\ want \in [Request -> Token \cup {None}]
      /\ hit \in [Request -> SUBSET Token]
      /\ \A r \in Request : req[r].token \in Token \cup {None}
  BY DEF Base, TypeOK, Req
<1>b. \A r \in Request :
          /\ pc[r] = "rotate" => req[r].token \in Token
          /\ pc[r] \notin {"sweep", "respond", "done"} => hit[r] = {}
  BY <1>a DEF Base, Control, Statement
<1>1. ASSUME NEW u \in User, NEW f \in Family, NEW d \in Device \cup {None},
             NEW t \in Token, Login(u, f, d, t)
      PROVE  Ownership'
  BY <1>1, <1>a, <1>b DEF Login, statement, Live, Exists
<1>2. ASSUME NEW r \in Request, Begin(r) PROVE Ownership'
  BY <1>2, <1>a, <1>b DEF Begin, RefreshStart, LogoutStart, LogoutAllStart, Start, db,
     Live, Exists
<1>3. ASSUME NEW r \in Request, SelectForUpdate(r) PROVE Ownership'
  <2>. DEFINE t == req[r].token
             v == Verdict(r, t)
  <2>1. v = "rotated" => t \in Token /\ Live(t)
    BY <1>a DEF Verdict, Live, Base, Control
  <2>2. v \in {"missing", "expired"} \/ (t \in Token /\ lock[t] \in {None, r})
    BY <1>3, <1>a DEF SelectForUpdate, Verdict, Free
  <2>3. ASSUME NEW q \in Request, q # r, NEW s \in Token, lock[s] = q
        PROVE  lock'[s] = q
    BY <1>3, <1>a, <2>2, <2>3 DEF SelectForUpdate
  <2>4. /\ pc'[r] = "rotate" => v = "rotated"
        /\ pc'[r] # "sweep"
        /\ v = "rotated" => lock'[t] = r
    BY <1>3, <1>a, <2>1 DEF SelectForUpdate, AfterVerdict, Verdict
  <2>5. /\ UNCHANGED <<row, req, hit>>
        /\ \A q \in Request \ {r} : pc'[q] = pc[q]
    BY <1>3, <1>a DEF SelectForUpdate
  <2>6. \A q \in Request : pc'[q] = "rotate" =>
            lock'[req[q].token] = q /\ Live(req[q].token)
    <3>1. ASSUME NEW q \in Request, q = r, pc'[q] = "rotate"
          PROVE  lock'[req[q].token] = q /\ Live(req[q].token)
      BY <3>1, <2>1, <2>4 DEF Live, Exists
    <3>2. ASSUME NEW q \in Request, q # r, pc'[q] = "rotate"
          PROVE  lock'[req[q].token] = q /\ Live(req[q].token)
      <4>1. pc[q] = "rotate"
        BY <3>2, <2>5
      <4>2. req[q].token \in Token /\ lock[req[q].token] = q /\ Live(req[q].token)
        BY <4>1, <1>b
      <4>. QED BY <3>2, <4>2, <2>3 DEF Live, Exists
    <3>. QED BY <3>1, <3>2
  <2>7. \A q \in Request : pc'[q] = "sweep" =>
            \A s \in hit[q] : lock'[s] = q /\ Live(s)
    BY <1>a, <2>3, <2>4, <2>5 DEF Live, Exists
  <2>. QED BY <2>5, <2>6, <2>7 DEF Live, Exists
<1>4. ASSUME NEW r \in Request, NEW c \in Token, Rotate(r, c) PROVE Ownership'
  <2>1. /\ ~Exists(c)
        /\ \A s \in Token \ {req[r].token, c} : row'[s] = row[s]
        /\ pc[r] = "rotate" /\ pc' = [pc EXCEPT ![r] = "respond"]
        /\ lock' = Released(r)
        /\ UNCHANGED <<req, hit>>
    BY <1>4, RotateRows DEF Rotate, Base, statement
  <2>2. ASSUME NEW q \in Request \ {r}, NEW s \in Token, lock[s] = q, Live(s)
        PROVE  lock'[s] = q /\ Live(s)'
    BY <2>1, <2>2, <1>a, <1>b DEF Released, Live, Exists
  <2>3. \A q \in Request : pc'[q] \in {"rotate", "sweep"} => q # r /\ pc'[q] = pc[q]
    BY <2>1, <1>a
  <2>4. \A q \in Request : pc'[q] = "rotate" =>
            lock'[req[q].token] = q /\ Live(req[q].token)'
    BY <2>1, <2>2, <2>3, <1>b DEF Live, Exists
  <2>5. \A q \in Request : pc'[q] = "sweep" =>
            \A s \in hit[q] : lock'[s] = q /\ Live(s)'
    BY <2>2, <2>3, <1>a
  <2>. QED BY <2>1, <2>4, <2>5 DEF Live, Exists
<1>5. ASSUME NEW r \in Request, Lookup(r) PROVE Ownership'
  <2>1. \A q \in Request : req'[q].token = req[q].token
    BY <1>5, Stamped DEF Lookup, Base, TypeOK
  <2>. QED BY <1>5, <1>a, <1>b, <2>1 DEF Lookup, db, statement, Live, Exists
<1>6. ASSUME NEW r \in Request, Snapshot(r) PROVE Ownership'
  BY <1>6, <1>a, <1>b DEF Snapshot, db, Live, Exists
<1>7. ASSUME NEW r \in Request, SweepRow(r) PROVE Ownership'
  BY <1>7, <1>a, <1>b DEF SweepRow, Recheck, Free, Live, Exists
<1>8. ASSUME NEW r \in Request, SweepCommit(r) PROVE Ownership'
  <2>1. /\ \A s \in Token \ hit[r] : row'[s] = row[s]
        /\ pc[r] = "sweep" /\ pc' = [pc EXCEPT ![r] = "respond"]
        /\ lock' = Released(r)
        /\ UNCHANGED <<req, hit>>
    BY <1>8 DEF SweepCommit, statement
  <2>2. ASSUME NEW q \in Request \ {r}, NEW s \in Token, lock[s] = q, Live(s)
        PROVE  lock'[s] = q /\ Live(s)'
    BY <2>1, <2>2, <1>a DEF Released, Live, Exists
  <2>3. \A q \in Request : pc'[q] \in {"rotate", "sweep"} => q # r /\ pc'[q] = pc[q]
    BY <2>1, <1>a
  <2>4. \A q \in Request : pc'[q] = "rotate" =>
            lock'[req[q].token] = q /\ Live(req[q].token)'
    BY <2>1, <2>2, <2>3, <1>b DEF Live, Exists
  <2>5. \A q \in Request : pc'[q] = "sweep" =>
            \A s \in hit[q] : lock'[s] = q /\ Live(s)'
    BY <2>2, <2>3, <1>a
  <2>. QED BY <2>1, <2>4, <2>5 DEF Live, Exists
<1>9. ASSUME NEW r \in Request, Respond(r) PROVE Ownership'
  BY <1>9, <1>a, <1>b DEF Respond, db, statement, Live, Exists
<1>10. ASSUME NEW r \in Request, Fail(r) PROVE Ownership'
  <2>1. /\ \A q \in Request : pc'[q] \in {"rotate", "sweep"} =>
              q # r /\ pc'[q] = pc[q] /\ hit'[q] = hit[q]
        /\ UNCHANGED <<row, req>>
    BY <1>10, <1>a DEF Fail
  <2>2. \A q \in Request \ {r}, s \in Token : lock[s] = q => lock'[s] = q
    BY <1>10, <1>a DEF Fail, Released
  <2>. QED BY <2>1, <2>2, <1>a, <1>b DEF Live, Exists
<1>11. CASE UNCHANGED <<db, pc, req, statement>>
  BY <1>11, <1>a DEF db, statement, Live, Exists
<1>. QED BY <1>1, <1>2, <1>3, <1>4, <1>5, <1>6, <1>7, <1>8, <1>9, <1>10, <1>11
         DEF Next, Step, Tick, Finished, vars, db, statement

-----------------------------------------------------------------------------
(* Single use                                                              *)

\* What a sweep writes.
LEMMA SweepRows ==
    ASSUME Base, Ownership, NEW r \in Request, SweepCommit(r), NEW t \in Token
    PROVE  /\ t \in hit[r] => /\ row[t].revoked = None
                             /\ row'[t].revoked = req[r].at
                             /\ row'[t].revoked # None
                             /\ row'[t] = Consumed(r, t)
                             /\ ~Live(t)'
           /\ t \notin hit[r] => row'[t] = row[t]
<1>1. CASE t \in hit[r]
  <2>1. row'[t] = Consumed(r, t) /\ row[t].revoked = None
    BY <1>1 DEF SweepCommit, Ownership, Live
  <2>2. row[t] \in Row /\ req[r].at \in Time
    BY DEF Base, TypeOK, Req
  <2>3. row'[t].revoked = req[r].at
    BY <2>1, <2>2, Stamp DEF Consumed
  <2>4. req[r].at # None
    BY <2>2, NoneAssumption DEF Time
  <2>. QED BY <1>1, <2>1, <2>3, <2>4 DEF Live
<1>2. CASE t \notin hit[r]
  BY <1>2 DEF SweepCommit
<1>. QED BY <1>1, <1>2

\* What a rotation writes, by column.
LEMMA RotateColumns ==
    ASSUME Base, Ownership, NEW r \in Request, NEW c \in Token, Rotate(r, c)
    PROVE  \E t \in Token :
               /\ t = req[r].token
               /\ t # c /\ Live(t) /\ row[c] = Vacant /\ ~Exists(c)
               /\ row'[t].revoked = req[r].at /\ ~Live(t)'
               /\ row'[t] = Consumed(r, t)
               /\ row'[c] = ChildRow(r, t)
               /\ row'[c].family = row[t].family
               /\ row'[c].parent = t
               /\ row'[c].revoked = None
               /\ row'[c].expires = req[r].at + Lifetime
               /\ \A s \in Token \ {t, c} : row'[s] = row[s]
<1>1. PICK t \in Token :
          /\ t = req[r].token
          /\ t # c /\ row[c] = Vacant
          /\ row'[t] = Consumed(r, t)
          /\ row'[c] = ChildRow(r, t)
          /\ \A s \in Token \ {t, c} : row'[s] = row[s]
  BY RotateRows DEF Base
<1>2. Live(t) /\ ~Exists(c)
  BY <1>1 DEF Rotate, Ownership
<1>3. row[t] \in Row /\ req[r].at \in Time /\ req[r].at # None
  BY <1>1, NoneAssumption DEF Base, TypeOK, Req, Time
<1>4. row'[t].revoked = req[r].at
  BY <1>1, <1>3, Stamp DEF Consumed
<1>5. ~Live(t)'
  BY <1>3, <1>4 DEF Live
<1>6. /\ row'[c].family = row[t].family
      /\ row'[c].parent = t
      /\ row'[c].revoked = None
      /\ row'[c].expires = req[r].at + Lifetime
  BY <1>1 DEF ChildRow
<1>. QED BY <1>1, <1>2, <1>4, <1>5, <1>6

Locked == Base /\ Ownership

LEMMA LockedInvariant == Spec => []Locked
<1>1. Init => Ownership
  BY DEF Init, Ownership
<1>. QED BY <1>1, BaseInit, BaseNext, OwnershipNext, PTL DEF Locked, Spec

\* No step makes an existing dead row live.
LEMMA DeadStaysDead ==
    ASSUME Locked, [Next]_vars, NEW t \in Token, Exists(t), ~Live(t)
    PROVE  row'[t] = row[t]
<1>1. CASE row' = row
  BY <1>1
<1>2. ASSUME NEW u \in User, NEW f \in Family, NEW d \in Device \cup {None},
             NEW n \in Token, Login(u, f, d, n)
      PROVE  row'[t] = row[t]
  BY <1>2 DEF Login, Locked, Base, TypeOK
<1>3. ASSUME NEW r \in Request, NEW c \in Token, Rotate(r, c)
      PROVE  row'[t] = row[t]
  BY <1>3, RotateColumns DEF Locked
<1>4. ASSUME NEW r \in Request, SweepCommit(r)
      PROVE  row'[t] = row[t]
  BY <1>4, SweepRows DEF Locked, Live
<1>. QED BY <1>1, <1>2, <1>3, <1>4, RowSteps

LEMMA RevocationStep ==
    ASSUME Locked, [Next]_vars, NEW t \in Token, Exists(t)
    PROVE  \/ row'[t] = row[t]
           \/ /\ row[t].revoked = None
              /\ row'[t].revoked # None
              /\ row'[t] = [row[t] EXCEPT !.revoked = row'[t].revoked]
<1>. DEFINE Stamping(a) == row[t].revoked = None /\ a # None
                           /\ row'[t].revoked = a
                           /\ row'[t] = [row[t] EXCEPT !.revoked = a]
<1>0. \A r \in Request : req[r].at # None
  BY NoneAssumption DEF Locked, Base, TypeOK, Req, Time
<1>1. CASE row' = row
  BY <1>1
<1>2. ASSUME NEW u \in User, NEW f \in Family, NEW d \in Device \cup {None},
             NEW n \in Token, Login(u, f, d, n)
      PROVE  row'[t] = row[t]
  BY <1>2 DEF Login, Locked, Base, TypeOK
<1>3. ASSUME NEW r \in Request, NEW c \in Token, Rotate(r, c)
      PROVE  row'[t] = row[t] \/ Stamping(req[r].at)
  <2>1. PICK n \in Token :
            /\ n # c /\ Live(n) /\ ~Exists(c)
            /\ row'[n].revoked = req[r].at
            /\ row'[n] = Consumed(r, n)
            /\ \A s \in Token \ {n, c} : row'[s] = row[s]
    BY <1>3, RotateColumns DEF Locked
  <2>2. CASE t = n
    BY <2>1, <2>2, <1>0 DEF Consumed, Live
  <2>3. CASE t # n
    BY <2>1, <2>3
  <2>. QED BY <2>2, <2>3
<1>4. ASSUME NEW r \in Request, SweepCommit(r)
      PROVE  row'[t] = row[t] \/ Stamping(req[r].at)
  BY <1>4, <1>0, SweepRows DEF Locked, Consumed
<1>. QED BY <1>1, <1>2, <1>3, <1>4, RowSteps

\* revoked_at is written once: neither a later sweep, nor a logout, nor a
\* rotation that was already under way changes a row that is revoked.
THEOREM RevocationFinal == Spec => RevocationIsFinal
<1>1. Locked /\ [Next]_vars =>
        [\A t \in Token : Exists(t) =>
          \/ row'[t] = row[t]
          \/ /\ row[t].revoked = None
             /\ row'[t].revoked # None
             /\ row'[t] = [row[t] EXCEPT !.revoked = row'[t].revoked]]_vars
  BY RevocationStep
<1>. QED BY <1>1, LockedInvariant, PTL DEF Spec, RevocationIsFinal

Lineage == AtMostOneLive /\ SingleUse

LEMMA LineageNext == Locked /\ Lineage /\ [Next]_vars => Lineage'
<1>. SUFFICES ASSUME Locked, Lineage, [Next]_vars PROVE Lineage'
  OBVIOUS
<1>. USE NoneAssumption DEF Lineage, AtMostOneLive, SingleUse, Live, Exists
<1>0. /\ row \in [Token -> Row]
      /\ \A t \in Token : row[t].family # None \/ row[t] = Vacant
  BY DEF Locked, Base, TypeOK
<1>1. CASE row' = row
  BY <1>1
<1>2. ASSUME NEW u \in User, NEW f \in Family, NEW d \in Device \cup {None},
             NEW n \in Token, Login(u, f, d, n)
      PROVE  Lineage'
  <2>1. \A s \in Token : row[s].parent # n
    BY <1>2, <1>0 DEF Login, Vacant
  <2>2. /\ row'[n].family = f /\ row'[n].parent = None /\ row'[n].revoked = None
        /\ \A s \in Token \ {n} : row'[s] = row[s] /\ row[s].family # f
    BY <1>0, <1>2 DEF Login, RootRow, InFamily
  <2>3. AtMostOneLive'
    BY <2>2
  <2>4. SingleUse'
    BY <2>1, <2>2
  <2>. QED BY <2>3, <2>4
<1>3. ASSUME NEW r \in Request, NEW c \in Token, Rotate(r, c)
      PROVE  Lineage'
  <2>1. PICK t \in Token :
            /\ t # c /\ row[t].family # None /\ row[t].revoked = None
            /\ row[c] = Vacant
            /\ row'[t].revoked # None
            /\ row'[t].family = row[t].family /\ row'[t].parent = row[t].parent
            /\ row'[c].family = row[t].family
            /\ row'[c].parent = t
            /\ \A s \in Token \ {t, c} : row'[s] = row[s]
    BY <1>3, RotateColumns, RowsStay DEF Locked
  <2>2. \A s \in Token : row[s].parent \notin {t, c}
    BY <1>0, <2>1 DEF Vacant
  <2>3. AtMostOneLive'
    BY <2>1
  <2>4. SingleUse'
    BY <2>1, <2>2
  <2>. QED BY <2>3, <2>4
<1>4. ASSUME NEW r \in Request, SweepCommit(r)
      PROVE  Lineage'
  <2>1. \A s \in Token : Exists(s) => /\ row'[s].family = row[s].family
                                      /\ row'[s].parent = row[s].parent
    BY RowsStay DEF Locked
  <2>2. \A s \in Token : row'[s].revoked = None => row'[s] = row[s]
    BY <1>4, SweepRows, <1>0 DEF Locked
  <2>3. \A s \in Token : row[s].revoked # None => row'[s] = row[s]
    BY <1>4, SweepRows DEF Locked
  <2>4. \A s \in Token : row[s].family = None => row'[s] = row[s]
    BY <1>4 DEF SweepCommit, Locked, Base, Statement
  <2>5. \A s \in Token : row'[s].parent = row[s].parent
    BY <2>1, <2>4
  <2>6. AtMostOneLive'
    BY <2>2
  <2>7. SingleUse'
    BY <2>3, <2>5
  <2>. QED BY <2>6, <2>7
<1>. QED BY <1>1, <1>2, <1>3, <1>4, RowSteps

LEMMA LineageInvariant == Spec => []Lineage
<1>1. Init => Lineage
  BY NoneAssumption
     DEF Init, Lineage, AtMostOneLive, SingleUse, Live, Exists, Vacant
<1>. QED BY <1>1, LineageNext, LockedInvariant, PTL DEF Spec

\* However many requests refresh, log out or sweep at once, a session never
\* has two usable refresh tokens.
THEOREM OneLiveTokenPerSession == Spec => []AtMostOneLive
BY LineageInvariant, PTL DEF Lineage

\* A refresh token is exchanged at most once, and never stays usable after.
THEOREM TokensAreSingleUse == Spec => []SingleUse
BY LineageInvariant, PTL DEF Lineage

-----------------------------------------------------------------------------
(* Expiry                                                                  *)

\* The clock never runs back, and only a start or a lookup reads it.
LEMMA ClockSteps ==
    ASSUME Base, [Next]_vars
    PROVE  /\ clock <= clock'
           /\ \A r \in Request :
                 /\ req'[r].at \in {req[r].at, clock, 0}
                 /\ pc'[r] \in {"lock", "rotate"} =>
                       \/ pc[r] = "idle" /\ pc'[r] = "lock" /\ req'[r].at = clock
                       \/ pc[r] = "lock" /\ req'[r] = req[r]
                       \/ pc[r] = pc'[r] /\ req'[r] = req[r]
<1>. USE DEF Base, TypeOK, Time
<1>1. ASSUME NEW r \in Request, Begin(r)
      PROVE  /\ clock' = clock
             /\ \A q \in Request \ {r} : pc'[q] = pc[q] /\ req'[q] = req[q]
             /\ pc[r] = "idle" /\ pc'[r] \in {"lock", "lookup", "snapshot"}
             /\ req'[r].at \in {clock, 0}
             /\ pc'[r] = "lock" => req'[r].at = clock
  BY <1>1 DEF Begin, RefreshStart, LogoutStart, LogoutAllStart, Start
<1>2. ASSUME NEW r \in Request, Lookup(r)
      PROVE  /\ clock' = clock
             /\ \A q \in Request \ {r} : pc'[q] = pc[q] /\ req'[q] = req[q]
             /\ pc'[r] \in {"respond", "snapshot"}
             /\ req'[r].at = clock
  BY <1>2, Stamped DEF Lookup
<1>3. ASSUME NEW r \in Request, Step(r) \/ Fail(r), ~Lookup(r)
      PROVE  /\ clock' = clock /\ req' = req
             /\ \A q \in Request \ {r} : pc'[q] = pc[q]
             /\ pc'[r] \in {"lock", "rotate"} => pc[r] = "lock"
  BY <1>3 DEF Step, SelectForUpdate, AfterVerdict, Rotate, Snapshot, SweepRow,
              SweepCommit, Respond, Fail
<1>4. CASE Tick
  BY <1>4 DEF Tick
<1>5. CASE UNCHANGED <<clock, pc, req>>
  BY <1>5
<1>. QED BY <1>1, <1>2, <1>3, <1>4, <1>5 DEF Next, Login, Finished, vars

Expiring == Clocks /\ SlidingExpiry

LEMMA ExpiringNext == Locked /\ Lineage /\ Expiring /\ [Next]_vars => Expiring'
<1>. SUFFICES ASSUME Locked, Lineage, Expiring, [Next]_vars PROVE Expiring'
  OBVIOUS
<1>. USE NoneAssumption, LifetimeAssumption
<1>0. /\ row \in [Token -> Row]
      /\ clock \in Nat /\ clock' \in Nat /\ clock <= clock'
      /\ \A t \in Token : row[t].expires \in Nat
      /\ \A r \in Request : req[r].at \in Nat /\ req'[r].at \in Nat
  BY ClockSteps, BaseNext DEF Locked, Base, TypeOK, Row, Req, Time
<1>1. \A t \in Token : Exists(t) => row'[t].expires = row[t].expires
  BY RowsStay DEF Locked
<1>2. ASSUME NEW t \in Token PROVE row'[t].expires <= clock' + Lifetime
  <2>1. CASE row' = row
    BY <2>1, <1>0 DEF Expiring, Clocks
  <2>2. ASSUME NEW u \in User, NEW f \in Family, NEW d \in Device \cup {None},
               NEW n \in Token, Login(u, f, d, n)
        PROVE  row'[t].expires <= clock' + Lifetime
    BY <2>2, <1>0 DEF Login, RootRow, Expiring, Clocks
  <2>3. ASSUME NEW r \in Request, NEW c \in Token, Rotate(r, c)
        PROVE  row'[t].expires <= clock' + Lifetime
    <3>1. PICK n \in Token :
              /\ Exists(n)
              /\ row'[c].expires = req[r].at + Lifetime
              /\ \A s \in Token \ {n, c} : row'[s] = row[s]
      BY <2>3, RotateColumns DEF Locked, Live
    <3>2. row'[n].expires = row[n].expires
      BY <3>1, <1>1
    <3>3. req[r].at <= clock
      BY DEF Expiring, Clocks
    <3>. QED BY <3>1, <3>2, <3>3, <1>0 DEF Expiring, Clocks
  <2>4. ASSUME NEW r \in Request, SweepCommit(r)
        PROVE  row'[t].expires <= clock' + Lifetime
    <3>1. row'[t].expires = row[t].expires
      BY <2>4, <1>1, SweepRows DEF Locked, Ownership, Live, SweepCommit
    <3>. QED BY <3>1, <1>0 DEF Expiring, Clocks
  <2>. QED BY <2>1, <2>2, <2>3, <2>4, RowSteps
<1>3. ASSUME NEW r \in Request PROVE req'[r].at <= clock'
  BY <1>0, ClockSteps DEF Expiring, Clocks, Locked
<1>4. ASSUME NEW r \in Request, pc'[r] \in {"lock", "rotate"}, req'[r].token # None
      PROVE  row'[req'[r].token].expires <= req'[r].at + Lifetime
  <2>1. CASE pc[r] = "idle" /\ pc'[r] = "lock" /\ req'[r].at = clock
    <3>1. row'[req'[r].token].expires <= clock' + Lifetime
      BY <1>2, <1>4, BaseNext DEF Locked, Base, TypeOK, Req
    <3>2. clock' = clock
      BY <2>1 DEF Next, Login, Begin, RefreshStart, LogoutStart, LogoutAllStart, Start,
         Step, SelectForUpdate, AfterVerdict, Rotate, Lookup, Snapshot, SweepRow,
         SweepCommit, Respond, Fail, Tick, Finished, vars
    <3>. QED BY <2>1, <3>1, <3>2
  <2>2. CASE pc[r] \in {"lock", "rotate"} /\ req'[r] = req[r]
    <3>1. req[r].token \in Token /\ Exists(req[r].token)
      BY <1>4, <2>2 DEF Locked, Base, TypeOK, Control, Req
    <3>. QED BY <1>1, <1>4, <2>2, <3>1 DEF Expiring, Clocks
  <2>. QED BY <1>4, <2>1, <2>2, ClockSteps DEF Locked
<1>5. ASSUME NEW r \in Request, pc'[r] = "rotate"
      PROVE  req'[r].at < row'[req'[r].token].expires
  <2>1. req'[r] = req[r] /\ pc[r] \in {"lock", "rotate"}
    BY <1>5, ClockSteps DEF Locked
  <2>2. CASE pc[r] = "rotate"
    <3>1. req[r].token \in Token /\ Exists(req[r].token)
      BY <2>2 DEF Locked, Base, TypeOK, Control, Req
    <3>. QED BY <1>1, <2>1, <2>2, <3>1 DEF Expiring, Clocks
  <2>3. CASE pc[r] = "lock"
    <3>1. SelectForUpdate(r) /\ row' = row
      BY ZenonT(60), <1>5, <2>1, <2>3 DEF Next, Login, Begin, RefreshStart, LogoutStart,
         LogoutAllStart, Start, Step, SelectForUpdate, AfterVerdict, Rotate, Lookup,
         Snapshot, SweepRow, SweepCommit, Respond, Fail, Tick, Finished, vars,
         Locked, Base, TypeOK
    <3>2. Verdict(r, req[r].token) = "rotated"
      BY <1>5, <3>1 DEF SelectForUpdate, AfterVerdict, Verdict, Locked, Base, TypeOK
    <3>3. req[r].token \in Token /\ ~(row[req[r].token].expires <= req[r].at)
      BY <3>2 DEF Verdict, Locked, Base, TypeOK, Req
    <3>. QED BY <2>1, <3>1, <3>3, <1>0
  <2>. QED BY <2>1, <2>2, <2>3
<1>6. Clocks'
  BY <1>2, <1>3, <1>4, <1>5 DEF Clocks
<1>7. SlidingExpiry'
  <2>. USE DEF Expiring, SlidingExpiry
  <2>. USE <1>2
  <2>1. CASE row' = row
    BY <2>1
  <2>2. ASSUME NEW u \in User, NEW f \in Family, NEW d \in Device \cup {None},
               NEW n \in Token, Login(u, f, d, n)
        PROVE  SlidingExpiry'
    <3>1. \A s \in Token : row[s].parent # n
      BY <2>2 DEF Login, Lineage, SingleUse, Exists, Locked, Base, TypeOK, Vacant
    <3>2. /\ row'[n].parent = None
          /\ \A s \in Token \ {n} : row'[s] = row[s]
      BY <2>2, <1>0 DEF Login, RootRow
    <3>. QED BY <3>1, <3>2
  <2>3. ASSUME NEW r \in Request, NEW c \in Token, Rotate(r, c)
        PROVE  SlidingExpiry'
    <3>1. PICK t \in Token :
              /\ t = req[r].token /\ t # c /\ Live(t) /\ row[c] = Vacant
              /\ row'[t].revoked = req[r].at
              /\ row'[c].parent = t
              /\ row'[c].expires = req[r].at + Lifetime
              /\ \A s \in Token \ {t, c} : row'[s] = row[s]
      BY <2>3, RotateColumns DEF Locked
    <3>2. row'[t].expires = row[t].expires /\ row'[t].parent = row[t].parent
      BY <3>1, RowsStay DEF Locked, Live
    <3>3. \A s \in Token : row[s].parent \notin {t, c}
      BY <3>1 DEF Lineage, SingleUse, Live, Vacant
    <3>4. pc[r] = "rotate"
      BY <2>3 DEF Rotate
    <3>5. req[r].at < row[t].expires /\ row[t].expires <= req[r].at + Lifetime
      BY <3>1, <3>4 DEF Clocks
    <3>6. \A p \in Token, k \in Token : row'[k].parent = p =>
              /\ row'[p].revoked < row'[p].expires
              /\ row'[p].expires <= row'[k].expires
              /\ row'[k].expires = row'[p].revoked + Lifetime
      <4>. TAKE p \in Token, k \in Token
      <4>. HAVE row'[k].parent = p
      <4>1. CASE k = c
        BY <3>1, <3>2, <3>5, <4>1
      <4>2. CASE k # c
        <5>1. row[k].parent = p /\ p \notin {t, c} /\ row'[k].expires = row[k].expires
          BY <3>1, <3>2, <3>3, <4>2
        <5>. QED BY <3>1, <5>1
      <4>. QED BY <4>1, <4>2
    <3>. QED BY <3>6
  <2>4. ASSUME NEW r \in Request, SweepCommit(r)
        PROVE  SlidingExpiry'
    <3>1. \A s \in Token : row'[s].parent = row[s].parent /\ row'[s].expires = row[s].expires
      <4>. TAKE s \in Token
      <4>1. CASE Exists(s)
        BY <4>1, RowsStay DEF Locked
      <4>2. CASE ~Exists(s)
        BY <2>4, <4>2, SweepRows DEF Locked, Ownership, Live, SweepCommit
      <4>. QED BY <4>1, <4>2
    <3>2. \A s, k \in Token : row[k].parent = s => row'[s] = row[s]
      BY <2>4, SweepRows DEF Locked, Lineage, SingleUse
    <3>. QED BY <3>1, <3>2
  <2>. QED BY <2>1, <2>2, <2>3, <2>4, RowSteps
<1>. QED BY <1>6, <1>7 DEF Expiring

\* A token is never exchanged after its expiry by the clock its request read,
\* even if it waited for the row lock past it; its replacement lives for exactly one
\* lifetime from that reading, which never shortens the session, and no token ever
\* expires later than a lifetime from now.
THEOREM ExpirySlides == Spec => []SlidingExpiry
<1>1. Init => Expiring
  <2>1. Init => Clocks
    BY LifetimeAssumption, NoneAssumption
       DEF Init, Clocks, Vacant, NoReq
  <2>2. Init => SlidingExpiry
    BY LifetimeAssumption, NoneAssumption DEF Init, SlidingExpiry, Vacant
  <2>. QED BY <2>1, <2>2 DEF Expiring
<1>. QED BY <1>1, ExpiringNext, LockedInvariant, LineageInvariant, PTL DEF Spec, Expiring
-----------------------------------------------------------------------------
(* Device binding                                                          *)

\* A replacement carries its parent's device, or the request's if its
\* parent has none.
LEMMA ChildDevice ==
    ASSUME Locked, NEW r \in Request, NEW c \in Token, Rotate(r, c)
    PROVE  \E t \in Token :
               /\ t = req[r].token
               /\ t # c /\ Live(t) /\ ~Live(t)' /\ row[c] = Vacant
               /\ row'[c].family = row[t].family
               /\ row'[t].device = row[t].device
               /\ row'[t].family = row[t].family
               /\ row'[c].device = IF row[t].device # None
                                   THEN row[t].device ELSE req[r].device
               /\ \A s \in Token \ {t, c} : row'[s] = row[s]
<1>1. PICK t \in Token :
          /\ t = req[r].token
          /\ t # c /\ Live(t) /\ ~Live(t)' /\ row[c] = Vacant
          /\ row'[c] = ChildRow(r, t)
          /\ row'[c].family = row[t].family
          /\ \A s \in Token \ {t, c} : row'[s] = row[s]
  BY RotateColumns DEF Locked
<1>2. row'[t].device = row[t].device /\ row'[t].family = row[t].family
  BY <1>1, RowsStay DEF Locked, Live, Next, Step
<1>3. row'[c].device = IF row[t].device # None THEN row[t].device ELSE req[r].device
  BY <1>1 DEF ChildRow
<1>. QED BY <1>1, <1>2, <1>3

\* A request's device, and what it was issued, once it has been issued one.
LEMMA IssuedSteps ==
    ASSUME Base, [Next]_vars, NEW r \in Request, issued'[r] # None
    PROVE  \/ /\ issued[r] # None /\ issued'[r] = issued[r]
              /\ req'[r].device = req[r].device
           \/ \E c \in Token : /\ Rotate(r, c) /\ issued'[r] = c
                               /\ req'[r].device = req[r].device
<1>. USE DEF Base, TypeOK
<1>1. CASE issued' = issued /\ req' = req
  BY <1>1
<1>2. ASSUME NEW q \in Request, Begin(q)
      PROVE  issued'[r] # None => issued[r] = issued'[r] /\ req'[r].device = req[r].device
  <2>1. pc[q] = "idle" /\ issued' = issued /\ (q # r => req'[r] = req[r])
    BY <1>2 DEF Begin, RefreshStart, LogoutStart, LogoutAllStart, Start
  <2>2. pc[r] = "idle" => issued[r] = None
    BY DEF Control
  <2>. QED BY <2>1, <2>2
<1>3. ASSUME NEW q \in Request, Lookup(q)
      PROVE  issued' = issued /\ req'[r].device = req[r].device
  BY <1>3, Stamped DEF Lookup
<1>4. ASSUME NEW q \in Request, NEW c \in Token, Rotate(q, c), q = r
      PROVE  issued'[r] = c /\ req' = req
  BY <1>4 DEF Rotate
<1>5. ASSUME NEW q \in Request, NEW c \in Token, Rotate(q, c), q # r
      PROVE  issued'[r] = issued[r] /\ req' = req
  BY <1>5 DEF Rotate
<1>6. ASSUME NEW q \in Request, Step(q) \/ Fail(q), ~Lookup(q), \A c \in Token : ~Rotate(q, c)
      PROVE  issued' = issued /\ req' = req
  BY <1>6 DEF Step, SelectForUpdate, Snapshot, SweepRow, SweepCommit, Respond, Fail
<1>. QED BY <1>1, <1>2, <1>3, <1>4, <1>5, <1>6 DEF Next, Login, Tick, Finished, vars, Step

Bound == LeafBinding /\ OneDevicePerFamily

LEMMA BoundNext == Locked /\ Lineage /\ Bound /\ [Next]_vars => Bound'
<1>. SUFFICES ASSUME Locked, Lineage, Bound, [Next]_vars PROVE Bound'
  OBVIOUS
<1>. USE NoneAssumption
<1>0. /\ row \in [Token -> Row]
      /\ \A t \in Token : row[t].family # None \/ row[t] = Vacant
      /\ \A t \in Token : row[t].device \in Device \cup {None}
      /\ Vacant.family = None /\ Vacant.device = None
  BY DEF Locked, Base, TypeOK, Exists, Row, Vacant
<1>1. \A s, t \in Token :
          /\ Live(t) /\ row[s].family = row[t].family /\ row[s].device # None
                => row[t].device = row[s].device
          /\ row[s].family = row[t].family => \/ None \in {row[s].device, row[t].device}
                                             \/ row[s].device = row[t].device
  BY DEF Bound, LeafBinding, OneDevicePerFamily
<1>2. \A s, t \in Token :
          /\ Live(t)' /\ row'[s].family = row'[t].family /\ row'[s].device # None
                => row'[t].device = row'[s].device
          /\ row'[s].family = row'[t].family =>
                \/ None \in {row'[s].device, row'[t].device}
                \/ row'[s].device = row'[t].device
  <2>1. CASE row' = row
    BY <1>1, <2>1 DEF Live, Exists
  <2>2. ASSUME NEW u \in User, NEW f \in Family, NEW d \in Device \cup {None},
               NEW n \in Token, Login(u, f, d, n), NEW s \in Token, NEW t \in Token
        PROVE  /\ Live(t)' /\ row'[s].family = row'[t].family /\ row'[s].device # None
                     => row'[t].device = row'[s].device
               /\ row'[s].family = row'[t].family =>
                     \/ None \in {row'[s].device, row'[t].device}
                     \/ row'[s].device = row'[t].device
    <3>1. /\ row'[n].family = f /\ \A x \in Token : row[x].family # f
          /\ \A x \in Token \ {n} : row'[x] = row[x]
      BY <1>0, <2>2 DEF Login, RootRow, InFamily
    <3>. QED BY <1>1, <2>2, <3>1 DEF Live, Exists
  <2>3. ASSUME NEW r \in Request, NEW c \in Token, Rotate(r, c),
               NEW s \in Token, NEW t \in Token
        PROVE  /\ Live(t)' /\ row'[s].family = row'[t].family /\ row'[s].device # None
                     => row'[t].device = row'[s].device
               /\ row'[s].family = row'[t].family =>
                     \/ None \in {row'[s].device, row'[t].device}
                     \/ row'[s].device = row'[t].device
    <3>1. PICK n \in Token :
              /\ n # c /\ Live(n) /\ ~Live(n)' /\ row[c] = Vacant
              /\ row'[c].family = row[n].family
              /\ row'[n].device = row[n].device
              /\ row'[n].family = row[n].family
              /\ row'[c].device = IF row[n].device # None
                                  THEN row[n].device ELSE req[r].device
              /\ \A x \in Token \ {n, c} : row'[x] = row[x]
      BY <2>3, ChildDevice
    <3>2. \A x \in Token : row[x].family = row[n].family =>
              row[x].device \in {None, row[n].device}
      BY <1>1, <3>1
    <3>3. \A x \in Token \ {c} : row'[x].family = row[x].family
                                  /\ row'[x].device = row[x].device
      BY <3>1
    <3>4. \A x \in Token \ {c} : row'[x].family = row'[c].family =>
              row'[x].device = None \/ row'[x].device = row'[c].device
      BY <3>1, <3>2, <3>3
    <3>5. \A x \in Token \ {c} : Live(x)' => Live(x) /\ row[x].family # row[n].family
      BY <3>1 DEF Live, Exists, Lineage, AtMostOneLive
    <3>. QED BY <1>1, <3>1, <3>3, <3>4, <3>5
  <2>4. ASSUME NEW r \in Request, SweepCommit(r), NEW s \in Token, NEW t \in Token
        PROVE  /\ Live(t)' /\ row'[s].family = row'[t].family /\ row'[s].device # None
                     => row'[t].device = row'[s].device
               /\ row'[s].family = row'[t].family =>
                     \/ None \in {row'[s].device, row'[t].device}
                     \/ row'[s].device = row'[t].device
    <3>1. \A x \in Token : /\ row'[x].family = row[x].family
                           /\ row'[x].device = row[x].device
                           /\ Live(x)' => Live(x)
      <4>. TAKE x \in Token
      <4>1. CASE x \in hit[r]
        <5>1. Exists(x) /\ ~Live(x)'
          BY <2>4, <4>1, SweepRows DEF Locked, Ownership, Live, SweepCommit
        <5>. QED BY <5>1, RowsStay DEF Locked
      <4>2. CASE x \notin hit[r]
        BY <2>4, <4>2 DEF SweepCommit, Live, Exists
      <4>. QED BY <4>1, <4>2
    <3>. QED BY <1>1, <3>1
  <2>. QED BY <2>1, <2>2, <2>3, <2>4, RowSteps
<1>3. ASSUME NEW r \in Request, pc'[r] = "rotate", BindDevice
      PROVE  row'[req'[r].token].device \in {None, req'[r].device}
  <2>1. req'[r] = req[r] /\ pc[r] \in {"lock", "rotate"}
    BY <1>3, ClockSteps DEF Locked
  <2>3. CASE pc[r] = "rotate"
    <3>1. req[r].token \in Token /\ Exists(req[r].token)
      BY <2>3 DEF Locked, Base, TypeOK, Control, Req
    <3>2. row'[req[r].token].device = row[req[r].token].device
      BY <3>1, RowsStay DEF Locked
    <3>. QED BY <1>3, <2>1, <2>3, <3>2 DEF Bound, LeafBinding
  <2>4. CASE pc[r] = "lock"
    <3>1. SelectForUpdate(r) /\ row' = row
      BY ZenonT(60), <1>3, <2>1, <2>4 DEF Next, Login, Begin, RefreshStart, LogoutStart,
         LogoutAllStart, Start, Step, SelectForUpdate, AfterVerdict, Rotate, Lookup,
         Snapshot, SweepRow, SweepCommit, Respond, Fail, Tick, Finished, vars,
         Locked, Base, TypeOK
    <3>2. Verdict(r, req[r].token) = "rotated"
      BY <1>3, <3>1 DEF SelectForUpdate, AfterVerdict, Verdict, Locked, Base, TypeOK
    <3>3. ~Mismatch(r, req[r].token)
      BY <3>2 DEF Verdict
    <3>. QED BY <1>3, <2>1, <3>1, <3>3 DEF Mismatch
  <2>. QED BY <2>1, <2>3, <2>4
<1>4. ASSUME NEW r \in Request, issued'[r] # None, BindDevice
      PROVE  row'[issued'[r]].device = req'[r].device
  <2>1. CASE /\ issued[r] # None /\ issued'[r] = issued[r]
             /\ req'[r].device = req[r].device
    <3>1. issued[r] \in Token /\ Exists(issued[r])
      BY <2>1 DEF Locked, Base, TypeOK, Control
    <3>2. row'[issued[r]].device = row[issued[r]].device
      BY <3>1, RowsStay DEF Locked
    <3>. QED BY <1>4, <2>1, <3>2 DEF Bound, OneDevicePerFamily
  <2>2. ASSUME NEW c \in Token, Rotate(r, c), issued'[r] = c,
               req'[r].device = req[r].device
        PROVE  row'[issued'[r]].device = req'[r].device
    <3>1. PICK t \in Token :
              /\ t = req[r].token
              /\ row'[c].device = IF row[t].device # None
                                  THEN row[t].device ELSE req[r].device
      BY <2>2, ChildDevice
    <3>2. row[t].device \in {None, req[r].device}
      BY <1>4, <2>2, <3>1 DEF Rotate, Bound, LeafBinding
    <3>. QED BY <2>2, <3>1, <3>2
  <2>. QED BY <1>4, <2>1, <2>2, IssuedSteps DEF Locked
<1>. QED BY <1>2, <1>3, <1>4 DEF Bound, LeafBinding, OneDevicePerFamily

\* Through any chain of rotations a session is bound to one device at most, its live
\* token keeps a binding once there is one, and with REFRESH_BIND_DEVICE a replacement
\* is issued to that device only.
THEOREM SessionsAreBound == Spec => []OneDevicePerFamily
<1>1. Init => Bound
  BY NoneAssumption DEF Init, Bound, LeafBinding, OneDevicePerFamily, Live, Exists, Vacant
<1>. QED BY <1>1, BoundNext, LockedInvariant, LineageInvariant, PTL DEF Spec, Bound

-----------------------------------------------------------------------------
(* Sweeps                                                                  *)

\* The two halves of the invariant, for one request.
Covers(r) ==
    pc[r] = "sweep" =>
        \A t \in Token : Live(t) /\ row[t].family \in EndedFamilies(r) =>
            \/ t \in todo[r] \cup hit[r]
            \/ \E s \in snap[r], c \in Token :
                   row[s].family = row[t].family /\ row[c].parent = s

Swept(r) ==
    pc[r] \in {"respond", "done"} =>
        \A t \in Token : Live(t) /\ row[t].family \in EndedFamilies(r) =>
            \E s \in snap[r] \ hit[r], c \in Token :
                row[s].family = row[t].family /\ row[c].parent = s

\* A token that is live after a step was live before, is the root of a new
\* session, or replaces a token that was live.
LEMMA LiveSteps ==
    ASSUME Locked, [Next]_vars, NEW t \in Token, Live(t)'
    PROVE  \/ Live(t) /\ row'[t].family = row[t].family
           \/ \A s \in Token : row[s].family # row'[t].family
           \/ \E n \in Token : /\ Live(n) /\ row'[t].parent = n
                               /\ row'[t].family = row[n].family
<1>1. CASE row' = row
  BY <1>1 DEF Live, Exists
<1>2. ASSUME NEW u \in User, NEW f \in Family, NEW d \in Device \cup {None},
             NEW n \in Token, Login(u, f, d, n)
      PROVE  \/ Live(t) /\ row'[t].family = row[t].family
             \/ \A s \in Token : row[s].family # row'[t].family
  <2>1. \A s \in Token : row[s].family # f
    BY <1>2 DEF Login, InFamily
  <2>2. row'[t] = row[t] \/ row'[t].family = f
    BY <1>2 DEF Login, RootRow, Locked, Base, TypeOK
  <2>. QED BY <2>1, <2>2 DEF Live, Exists
<1>3. ASSUME NEW r \in Request, NEW c \in Token, Rotate(r, c)
      PROVE  \/ Live(t) /\ row'[t].family = row[t].family
             \/ \E n \in Token : /\ Live(n) /\ row'[t].parent = n
                                 /\ row'[t].family = row[n].family
  <2>1. PICK n \in Token :
            /\ n # c /\ Live(n) /\ ~Live(n)'
            /\ row'[c].family = row[n].family /\ row'[c].parent = n
            /\ \A s \in Token \ {n, c} : row'[s] = row[s]
    BY <1>3, RotateColumns DEF Locked
  <2>2. CASE t = c
    BY <2>1, <2>2
  <2>3. CASE t # c
    BY <2>1, <2>3 DEF Live, Exists
  <2>. QED BY <2>2, <2>3
<1>4. ASSUME NEW r \in Request, SweepCommit(r)
      PROVE  Live(t) /\ row'[t].family = row[t].family
  BY <1>4, SweepRows DEF Locked, Live, Exists
<1>. QED BY <1>1, <1>2, <1>3, <1>4, RowSteps

\* The sessions a request ends are known by rows that never go away.
LEMMA EndedStay ==
    ASSUME Base, [Next]_vars, NEW r \in Request,
           snap'[r] = snap[r], outcome'[r] = outcome[r], req'[r].token = req[r].token
    PROVE  /\ EndedFamilies(r)' = EndedFamilies(r)
           /\ \A f \in EndedFamilies(r) : \E s \in Token : row[s].family = f
<1>1. /\ snap[r] \subseteq Token /\ \A s \in snap[r] : Exists(s)
      /\ outcome[r] \in {"reused", "binding_mismatch"} =>
            req[r].token \in Token /\ Exists(req[r].token)
  BY DEF Base, TypeOK, Statement, Control, Req
<1>2. \A s \in Token : Exists(s) => row'[s].family = row[s].family
  BY RowsStay
<1>. QED BY <1>1, <1>2 DEF EndedFamilies

\* A rotated row and its replacement stay what they are.
LEMMA ReplacedStay ==
    ASSUME Base, [Next]_vars, NEW s \in Token, NEW c \in Token, Exists(s), row[c].parent = s
    PROVE  row'[s].family = row[s].family /\ row'[c].parent = s
<1>1. Exists(c)
  BY NoneAssumption DEF Base, TypeOK, Vacant
<1>. QED BY <1>1, RowsStay

\* A step that leaves a request where it is keeps its sweep's guarantee,
\* whatever the step does to the table.
LEMMA Undisturbed ==
    ASSUME Locked, [Next]_vars, NEW r \in Request, Covers(r), Swept(r),
           pc'[r] = pc[r], snap'[r] = snap[r], todo'[r] = todo[r], hit'[r] = hit[r],
           outcome'[r] = outcome[r], req'[r].token = req[r].token
    PROVE  Covers(r)' /\ Swept(r)'
<1>1. /\ snap[r] \subseteq Token
      /\ todo[r] \subseteq snap[r] /\ hit[r] \subseteq snap[r]
      /\ \A s \in snap[r] : Exists(s)
  BY DEF Locked, Base, TypeOK, Statement
<1>2. /\ EndedFamilies(r)' = EndedFamilies(r)
      /\ \A f \in EndedFamilies(r) : \E s \in Token : row[s].family = f
  BY EndedStay DEF Locked
<1>3. \A s \in snap[r], c \in Token : row[c].parent = s =>
          row'[s].family = row[s].family /\ row'[c].parent = s
  BY <1>1, ReplacedStay DEF Locked
<1>4. ASSUME NEW t \in Token, Live(t)', row'[t].family \in EndedFamilies(r)
      PROVE  \/ Live(t) /\ row'[t].family = row[t].family
             \/ \E n \in Token : /\ Live(n) /\ row'[t].parent = n
                                 /\ row'[t].family = row[n].family
  BY <1>2, <1>4, LiveSteps
<1>5. Covers(r)'
  <2>. SUFFICES ASSUME pc[r] = "sweep", NEW t \in Token, Live(t)',
                       row'[t].family \in EndedFamilies(r)
                PROVE  \/ t \in todo[r] \cup hit[r]
                       \/ \E s \in snap[r], c \in Token :
                              row'[s].family = row'[t].family /\ row'[c].parent = s
    BY <1>2 DEF Covers
  <2>1. CASE Live(t) /\ row'[t].family = row[t].family
    BY <1>3, <2>1 DEF Covers
  <2>2. ASSUME NEW n \in Token, Live(n), row'[t].parent = n,
               row'[t].family = row[n].family
        PROVE  \E s \in snap[r], c \in Token :
                   row'[s].family = row'[t].family /\ row'[c].parent = s
    <3>1. CASE n \in todo[r] \cup hit[r]
      <4>1. row'[n].family = row[n].family
        BY <2>2, RowsStay DEF Locked, Live
      <4>. QED BY <1>1, <2>2, <3>1, <4>1
    <3>2. CASE \E s \in snap[r], c \in Token :
                   row[s].family = row[n].family /\ row[c].parent = s
      BY <1>3, <2>2, <3>2
    <3>. QED BY <2>2, <3>1, <3>2 DEF Covers
  <2>. QED BY <1>4, <2>1, <2>2
<1>6. Swept(r)'
  <2>. SUFFICES ASSUME pc[r] \in {"respond", "done"}, NEW t \in Token, Live(t)',
                       row'[t].family \in EndedFamilies(r)
                PROVE  \E s \in snap[r] \ hit[r], c \in Token :
                           row'[s].family = row'[t].family /\ row'[c].parent = s
    BY <1>2 DEF Swept
  <2>1. PICK n \in Token : Live(n) /\ row'[t].family = row[n].family
    BY <1>4
  <2>2. PICK s \in snap[r] \ hit[r], c \in Token :
            row[s].family = row[n].family /\ row[c].parent = s
    BY <2>1 DEF Swept
  <2>. QED BY <1>3, <2>1, <2>2
<1>. QED BY <1>5, <1>6

\* When the statement begins, every live token of the sessions it is to end
\* is among the rows it found: a session has one live token.
LEMMA SnapshotCovers ==
    ASSUME Locked, Lineage, [Next]_vars, NEW r \in Request, Snapshot(r)
    PROVE  Covers(r)' /\ Swept(r)'
<1>1. /\ pc'[r] = "sweep" /\ row' = row
      /\ snap'[r] = Found(r) /\ todo'[r] = Found(r)
      /\ req' = req /\ outcome' = outcome
      /\ pc[r] = "snapshot"
  BY DEF Snapshot, db, Locked, Base, TypeOK
<1>2. ASSUME NEW t \in Token, Live(t), row[t].family \in EndedFamilies(r)'
      PROVE  t \in Found(r)
  <2>1. CASE \E s \in Found(r) : row[s].family = row[t].family
    BY <1>2, <2>1 DEF Found, Lineage, AtMostOneLive
  <2>2. CASE /\ outcome[r] \in {"reused", "binding_mismatch"}
             /\ row[t].family = row[req[r].token].family
    <3>1. req[r].op = "refresh"
      BY <1>1, <2>2 DEF Locked, Base, Control
    <3>. QED BY <1>2, <2>2, <3>1 DEF Found, Matches
  <2>. QED BY <1>1, <1>2, <2>1, <2>2 DEF EndedFamilies
<1>. QED BY <1>1, <1>2 DEF Covers, Swept, Live, Exists

\* A row that is locked is kept for the commit if it is live, and may be
\* forgotten if it is not.
LEMMA SweepRowCovers ==
    ASSUME Locked, [Next]_vars, NEW r \in Request, SweepRow(r), Covers(r)
    PROVE  Covers(r)' /\ Swept(r)'
<1>1. /\ pc[r] = "sweep" /\ pc' = pc /\ row' = row /\ snap' = snap
      /\ req' = req /\ outcome' = outcome
      /\ todo'[r] = todo[r] \ {want[r]}
      /\ hit'[r] = IF Live(want[r]) THEN hit[r] \cup {want[r]} ELSE hit[r]
  BY DEF SweepRow, Recheck, Locked, Base, TypeOK
<1>2. EndedFamilies(r)' = EndedFamilies(r)
  BY <1>1 DEF EndedFamilies
<1>. QED BY <1>1, <1>2 DEF Covers, Swept, Live, Exists

\* At the commit every row the statement found has been tested, and those
\* it did not stamp were replaced before it locked them.
LEMMA CommitSweeps ==
    ASSUME Locked, Lineage, [Next]_vars, NEW r \in Request, SweepCommit(r), Covers(r)
    PROVE  Covers(r)' /\ Swept(r)'
<1>1. /\ pc[r] = "sweep" /\ pc'[r] = "respond" /\ want[r] = None
      /\ snap' = snap /\ hit' = hit /\ req' = req /\ outcome' = outcome
  BY DEF SweepCommit, statement, Locked, Base, TypeOK
<1>2. todo[r] = {}
  BY <1>1, NoneAssumption DEF Locked, Base, TypeOK, Statement, Scan
<1>3. /\ snap[r] \subseteq Token /\ \A s \in snap[r] : Exists(s)
      /\ EndedFamilies(r)' = EndedFamilies(r)
  BY <1>1, EndedStay DEF Locked, Base, TypeOK, Statement
<1>4. ASSUME NEW t \in Token, Live(t)', row'[t].family \in EndedFamilies(r)
      PROVE  \E s \in snap[r] \ hit[r], c \in Token :
                 row'[s].family = row'[t].family /\ row'[c].parent = s
  <2>1. t \notin hit[r] /\ row'[t] = row[t] /\ Live(t)
    BY <1>4, SweepRows DEF Locked, Live, Exists
  <2>2. PICK s \in snap[r], c \in Token :
            row[s].family = row[t].family /\ row[c].parent = s
    BY <1>1, <1>2, <1>4, <2>1 DEF Covers
  <2>3. s \notin hit[r]
    BY <1>1, <1>3, <2>2 DEF Locked, Ownership, Live, Lineage, SingleUse
  <2>4. row'[s].family = row[s].family /\ row'[c].parent = s
    BY <1>3, <2>2, ReplacedStay DEF Locked
  <2>. QED BY <2>1, <2>2, <2>3, <2>4
<1>. QED BY <1>1, <1>3, <1>4 DEF Covers, Swept
\* The remaining steps of a request end no session, or only deliver the
\* answer.
LEMMA QuietSteps ==
    ASSUME Locked, [Next]_vars, NEW r \in Request, Covers(r), Swept(r),
           \/ Begin(r) \/ SelectForUpdate(r) \/ (\E c \in Token : Rotate(r, c))
           \/ Lookup(r) \/ Respond(r) \/ Fail(r)
    PROVE  Covers(r)' /\ Swept(r)'
<1>. USE DEF Locked, Base, TypeOK
<1>1. CASE Begin(r)
  <2>1. pc'[r] \notin {"sweep", "respond", "done"}
    BY <1>1 DEF Begin, RefreshStart, LogoutStart, LogoutAllStart, Start
  <2>. QED BY <2>1 DEF Covers, Swept
<1>2. CASE SelectForUpdate(r)
  <2>1. /\ pc'[r] # "sweep" /\ snap'[r] = snap[r] /\ pc[r] = "lock"
        /\ pc'[r] \in {"respond", "done"} => outcome'[r] \in {"missing", "expired"}
    BY <1>2 DEF SelectForUpdate, AfterVerdict, Verdict
  <2>2. snap[r] = {}
    BY <2>1 DEF Statement
  <2>3. pc'[r] \in {"respond", "done"} => EndedFamilies(r)' = {}
    BY <2>1, <2>2 DEF EndedFamilies
  <2>. QED BY <2>1, <2>3 DEF Covers, Swept
<1>3. CASE \E c \in Token : Rotate(r, c)
  <2>1. /\ pc[r] = "rotate" /\ pc'[r] = "respond"
        /\ snap'[r] = snap[r] /\ outcome'[r] = outcome[r]
    BY <1>3 DEF Rotate, statement
  <2>2. snap[r] = {} /\ outcome[r] \notin {"reused", "binding_mismatch"}
    BY <2>1 DEF Statement, Control
  <2>3. EndedFamilies(r)' = {}
    BY <2>1, <2>2 DEF EndedFamilies
  <2>. QED BY <2>1, <2>3 DEF Covers, Swept
<1>4. CASE Lookup(r)
  <2>1. /\ pc[r] = "lookup" /\ pc'[r] # "sweep"
        /\ snap'[r] = snap[r] /\ outcome'[r] = outcome[r]
    BY <1>4 DEF Lookup, statement
  <2>2. snap[r] = {} /\ outcome[r] = "none"
    BY <2>1 DEF Statement, Control
  <2>3. EndedFamilies(r)' = {}
    BY <2>1, <2>2 DEF EndedFamilies
  <2>. QED BY <2>1, <2>3 DEF Covers, Swept
<1>5. CASE Respond(r)
  <2>1. /\ pc[r] = "respond" /\ pc'[r] = "done" /\ row' = row
        /\ snap' = snap /\ hit' = hit /\ req' = req /\ outcome' = outcome
    BY <1>5 DEF Respond, db, statement
  <2>2. EndedFamilies(r)' = EndedFamilies(r)
    BY <2>1 DEF EndedFamilies
  <2>. QED BY <2>1, <2>2 DEF Covers, Swept, Live, Exists
<1>6. CASE Fail(r)
  <2>1. pc'[r] = "done" /\ snap'[r] = {} /\ outcome'[r] = "failed"
    BY <1>6 DEF Fail
  <2>2. EndedFamilies(r)' = {}
    BY <2>1 DEF EndedFamilies
  <2>. QED BY <2>1, <2>2 DEF Covers, Swept
<1>. QED BY <1>1, <1>2, <1>3, <1>4, <1>5, <1>6

Sweeping == \A r \in Request : Covers(r) /\ Swept(r)

\* A step belongs to one request, and leaves every other where it is.
LEMMA OneMoves ==
    ASSUME Locked, [Next]_vars, NEW r \in Request
    PROVE  \/ Begin(r) \/ Step(r) \/ Fail(r)
           \/ /\ pc'[r] = pc[r] /\ snap'[r] = snap[r] /\ todo'[r] = todo[r]
              /\ hit'[r] = hit[r] /\ outcome'[r] = outcome[r]
              /\ req'[r].token = req[r].token
<1>. USE DEF Locked, Base, TypeOK
<1>1. ASSUME NEW q \in Request, q # r, Begin(q) \/ Fail(q)
      PROVE  /\ pc'[r] = pc[r] /\ snap'[r] = snap[r] /\ todo'[r] = todo[r]
             /\ hit'[r] = hit[r] /\ outcome'[r] = outcome[r]
             /\ req'[r].token = req[r].token
  BY <1>1 DEF Begin, RefreshStart, LogoutStart, LogoutAllStart, Start, Fail
<1>2. ASSUME NEW q \in Request, q # r, Step(q)
      PROVE  /\ pc'[r] = pc[r] /\ snap'[r] = snap[r] /\ todo'[r] = todo[r]
             /\ hit'[r] = hit[r] /\ outcome'[r] = outcome[r]
             /\ req'[r].token = req[r].token
  BY <1>2 DEF Step, SelectForUpdate, Rotate, Lookup, Snapshot, SweepRow, SweepCommit,
              Respond, statement
<1>. QED BY <1>1, <1>2 DEF Next, Login, Tick, Finished, vars, statement

LEMMA SweepingNext == Locked /\ Lineage /\ Sweeping /\ [Next]_vars => Sweeping'
<1>. SUFFICES ASSUME Locked, Lineage, Sweeping, [Next]_vars, NEW r \in Request
              PROVE  Covers(r)' /\ Swept(r)'
  BY DEF Sweeping
<1>1. Covers(r) /\ Swept(r)
  BY DEF Sweeping
<1>2. CASE Begin(r) \/ Step(r) \/ Fail(r)
  BY <1>1, <1>2, QuietSteps, SnapshotCovers, SweepRowCovers, CommitSweeps DEF Step
<1>3. CASE /\ pc'[r] = pc[r] /\ snap'[r] = snap[r] /\ todo'[r] = todo[r]
           /\ hit'[r] = hit[r] /\ outcome'[r] = outcome[r]
           /\ req'[r].token = req[r].token
  BY <1>1, <1>3, Undisturbed
<1>. QED BY <1>2, <1>3, OneMoves

\* When reuse, a mismatch, a logout or a logout-all has committed, a token of
\* the sessions it covers is live only if the row the UPDATE had found was
\* rotated before the UPDATE could lock it.
THEOREM SweepsMissOnlyRotations == Spec => []SweepSurvivorsWereRotated
<1>1. Init => Sweeping
  BY DEF Init, Sweeping, Covers, Swept
<1>2. Sweeping => SweepSurvivorsWereRotated
  BY DEF Sweeping, Swept, SweepSurvivorsWereRotated
<1>. QED BY <1>1, <1>2, SweepingNext, LockedInvariant, LineageInvariant, PTL DEF Spec

-----------------------------------------------------------------------------
(* Refinement                                                              *)

knownBar == [f \in Family |-> InFamily(f)]
liveBar == [f \in Family |-> {t \in InFamily(f) : Live(t)}]

\* A function that differs from another at one point is an update of it.
LEMMA Updated ==
    ASSUME NEW S, NEW g, NEW h, NEW k \in S, NEW v,
           g = [x \in S |-> g[x]], h = [x \in S |-> h[x]],
           \A x \in S : h[x] = IF x = k THEN v ELSE g[x]
    PROVE  h = [g EXCEPT ![k] = v]
OBVIOUS

LEMMA SessionsInit == Init => Sessions!Init
BY NoneAssumption DEF Init, Sessions!Init, InFamily, Vacant

\* Every step of the table opens, exchanges or ends sessions, or changes
\* nothing a session shows.
LEMMA SessionsNext ==
    Locked /\ Lineage /\ [Next]_vars =>
        Sessions!Next \/ (knownBar' = knownBar /\ liveBar' = liveBar)
<1>. SUFFICES ASSUME Locked, Lineage, [Next]_vars
              PROVE  Sessions!Next \/ (knownBar' = knownBar /\ liveBar' = liveBar)
  OBVIOUS
<1>. USE NoneAssumption
<1>0. /\ row \in [Token -> Row]
      /\ \A t \in Token : Exists(t) => row[t].family \in Family
      /\ \A s, t \in Token : Live(s) /\ Live(t) /\ row[s].family = row[t].family => s = t
  BY DEF Locked, Base, TypeOK, Row, Exists, Lineage, AtMostOneLive
<1>1. CASE row' = row
  BY <1>1 DEF knownBar, liveBar, InFamily, Live, Exists
<1>2. ASSUME NEW u \in User, NEW f \in Family, NEW d \in Device \cup {None},
             NEW t \in Token, Login(u, f, d, t)
      PROVE  Sessions!Open(f, t)
  <2>1. /\ InFamily(f) = {} /\ ~Exists(t)
        /\ row'[t].family = f /\ row'[t].revoked = None
        /\ \A s \in Token \ {t} : row'[s] = row[s]
    BY <1>0, <1>2 DEF Login, RootRow
  <2>2. InFamily(f)' = {t} /\ {s \in InFamily(f)' : Live(s)'} = {t}
    BY <2>1 DEF InFamily, Live, Exists
  <2>3. \A g \in Family \ {f} : /\ InFamily(g)' = InFamily(g)
                               /\ {s \in InFamily(g)' : Live(s)'} = {s \in InFamily(g) : Live(s)}
    BY <2>1 DEF InFamily, Live, Exists
  <2>4. \A g \in Family : t \notin InFamily(g)
    BY <2>1 DEF InFamily, Exists
  <2>. QED BY <2>1, <2>2, <2>3, <2>4
           DEF Sessions!Open, Sessions!Unused, knownBar, liveBar
<1>3. ASSUME NEW r \in Request, NEW c \in Token, Rotate(r, c)
      PROVE  Sessions!Next
  <2>1. PICK t \in Token :
            /\ t # c /\ Live(t) /\ ~Live(t)' /\ ~Exists(c)
            /\ row'[t].family = row[t].family
            /\ row'[c].family = row[t].family /\ row'[c].revoked = None
            /\ \A s \in Token \ {t, c} : row'[s] = row[s]
    BY <1>3, RotateColumns, RowsStay DEF Locked, Live
  <2>2. PICK f \in Family : f = row[t].family
    BY <1>0, <2>1 DEF Live
  <2>3. {s \in InFamily(f) : Live(s)} = {t}
    BY <1>0, <2>1, <2>2 DEF InFamily, Live, Exists
  <2>4. /\ InFamily(f)' = InFamily(f) \cup {c}
        /\ {s \in InFamily(f)' : Live(s)'} = {c}
    BY <1>0, <2>1, <2>2 DEF InFamily, Live, Exists
  <2>5. \A g \in Family \ {f} : /\ InFamily(g)' = InFamily(g)
                               /\ {s \in InFamily(g)' : Live(s)'} = {s \in InFamily(g) : Live(s)}
    BY <2>1, <2>2 DEF InFamily, Live, Exists
  <2>6. \A g \in Family : c \notin InFamily(g)
    BY <2>1 DEF InFamily, Exists
  <2>7. Sessions!Exchange(f, t, c)
    <3>1. knownBar' = [knownBar EXCEPT ![f] = @ \cup {c}]
      <4>1. \A g \in Family : InFamily(g)' = IF g = f THEN InFamily(f) \cup {c}
                                                   ELSE InFamily(g)
        BY <2>4, <2>5
      <4>2. /\ knownBar = [g \in Family |-> knownBar[g]]
            /\ knownBar' = [g \in Family |-> knownBar'[g]]
        BY DEF knownBar
      <4>3. \A g \in Family : knownBar'[g] = IF g = f THEN knownBar[f] \cup {c}
                                                     ELSE knownBar[g]
        BY <2>2, <4>1 DEF knownBar
      <4>. QED BY <2>2, <4>2, <4>3, Updated
    <3>2. liveBar' = [liveBar EXCEPT ![f] = {c}]
      <4>1. \A g \in Family : {s \in InFamily(g)' : Live(s)'} =
                IF g = f THEN {c} ELSE {s \in InFamily(g) : Live(s)}
        BY <2>4, <2>5
      <4>2. /\ liveBar = [g \in Family |-> liveBar[g]]
            /\ liveBar' = [g \in Family |-> liveBar'[g]]
        BY DEF liveBar
      <4>3. \A g \in Family : liveBar'[g] = IF g = f THEN {c} ELSE liveBar[g]
        BY <4>1 DEF liveBar
      <4>. QED BY <2>2, <4>2, <4>3, Updated
    <3>3. liveBar[f] = {t} /\ Sessions!Unused(c)
      BY <2>2, <2>3, <2>6 DEF Sessions!Unused, knownBar, liveBar
    <3>. QED BY <3>1, <3>2, <3>3 DEF Sessions!Exchange, knownBar, liveBar
  <2>. QED BY <2>2, <2>7 DEF Sessions!Next
<1>4. ASSUME NEW r \in Request, SweepCommit(r)
      PROVE  Sessions!Next
  <2>. DEFINE F == {row[t].family : t \in hit[r]}
  <2>1. /\ hit[r] \subseteq Token
        /\ \A t \in hit[r] : Live(t)
    BY <1>4 DEF SweepCommit, Locked, Base, TypeOK, Ownership
  <2>2. /\ \A t \in hit[r] : ~Live(t)'
        /\ \A t \in Token \ hit[r] : row'[t] = row[t]
        /\ \A t \in Token : row'[t].family = row[t].family
    BY <1>4, <2>1, SweepRows, RowsStay DEF Locked, Live
  <2>3. F \in SUBSET Family
    BY <1>0, <2>1 DEF Live
  <2>4. \A f \in Family : InFamily(f)' = InFamily(f)
    BY <2>2 DEF InFamily
  <2>5. \A f \in Family : {t \in InFamily(f)' : Live(t)'} =
            IF f \in F THEN {} ELSE {t \in InFamily(f) : Live(t)}
    <3>. TAKE f \in Family
    <3>1. CASE f \in F
      <4>1. PICK s \in hit[r] : row[s].family = f
        BY <3>1
      <4>2. ASSUME NEW t \in Token, row'[t].family = f, Live(t)' PROVE FALSE
        <5>1. t \notin hit[r] /\ Live(t) /\ row[t].family = f
          BY <2>2, <4>2 DEF Live, Exists
        <5>. QED BY <1>0, <2>1, <4>1, <5>1
      <4>. QED BY <3>1, <4>2 DEF InFamily
    <3>2. CASE f \notin F
      <4>1. \A t \in Token : row[t].family = f => row'[t] = row[t]
        BY <2>2, <3>2
      <4>. QED BY <2>2, <3>2, <4>1 DEF InFamily, Live, Exists
    <3>. QED BY <3>1, <3>2
  <2>6. Sessions!End(F)
    BY <2>4, <2>5 DEF Sessions!End, knownBar, liveBar
  <2>. QED BY <2>3, <2>6 DEF Sessions!Next
<1>. QED BY <1>1, <1>2, <1>3, <1>4, RowSteps DEF Sessions!Next

\* The table, with its transactions, locks and overlapping requests,
\* implements single-use sessions that stay ended once ended.
THEOREM TableImplementsSessions == Spec => ImplementsTokenFamily
<1>1. Locked /\ Lineage /\ [Next]_vars => [Sessions!Next]_(Sessions!vars)
  BY SessionsNext DEF knownBar, liveBar, Sessions!vars
<1>. QED BY <1>1, SessionsInit, LockedInvariant, LineageInvariant, PTL
         DEF Spec, Sessions!Spec, ImplementsTokenFamily

-----------------------------------------------------------------------------
(* Waits                                                                   *)

\* A request holds the row it presented, or rows its sweep has tested.
Holds(r) ==
    \A t \in Token : lock[t] = r =>
        /\ pc[r] \in {"rotate", "snapshot", "sweep"}
        /\ pc[r] = "snapshot" => req[r].op = "refresh" /\ t = req[r].token
        /\ pc[r] = "sweep" =>
              \/ req[r].op = "refresh" /\ t = req[r].token
              \/ t \in snap[r] \ todo[r]

\* It waits in a statement, and a statement is somebody's.
Asks(r) ==
    /\ want[r] # None => pc[r] \in {"lock", "sweep"}
    /\ pc[r] \in {"snapshot", "sweep"} => req[r].op # "none"

\* A sweep finds one row of a session: a logout its own, a refresh its
\* session's.
Finds(r) ==
    pc[r] = "sweep" =>
        /\ \A s, t \in snap[r] : row[s].family = row[t].family => s = t
        /\ req[r].op = "logout" => snap[r] \subseteq {req[r].token}
        /\ req[r].op = "refresh" =>
              \A s \in snap[r] : row[s].family = row[req[r].token].family

\* A refresh that sweeps was presented a token that was used, or one that is
\* live, which it holds and which is all it can find.
Presents(r) ==
    /\ pc[r] \in {"snapshot", "sweep"} /\ req[r].op = "refresh" =>
          outcome[r] \in {"reused", "binding_mismatch"}
    /\ outcome[r] = "reused" => ~Live(req[r].token)
    /\ pc[r] \in {"snapshot", "sweep"} /\ outcome[r] = "binding_mismatch" =>
          /\ req[r].op = "refresh"
          /\ lock[req[r].token] = r
          /\ Live(req[r].token)
          /\ pc[r] = "sweep" => snap[r] \subseteq {req[r].token}

\* All of it, of one request.
Orderly(r) == Holds(r) /\ Asks(r) /\ Finds(r) /\ Presents(r)

Waiting == \A r \in Request : Orderly(r)

\* A step of other requests leaves a request where it is, with its locks,
\* and the live rows it holds stay live.
LEMMA OthersMove ==
    ASSUME Locked, [Next]_vars, NEW r \in Request
    PROVE  \/ Begin(r) \/ Step(r) \/ Fail(r)
           \/ /\ pc'[r] = pc[r] /\ snap'[r] = snap[r] /\ todo'[r] = todo[r]
              /\ outcome'[r] = outcome[r] /\ req'[r] = req[r] /\ want'[r] = want[r]
              /\ \A t \in Token : lock'[t] = r <=> lock[t] = r
<1>. USE NoneAssumption DEF Locked, Base, TypeOK
<1>. DEFINE Still == /\ pc'[r] = pc[r] /\ snap'[r] = snap[r] /\ todo'[r] = todo[r]
                     /\ outcome'[r] = outcome[r] /\ req'[r] = req[r] /\ want'[r] = want[r]
                     /\ \A t \in Token : lock'[t] = r <=> lock[t] = r
<1>1. ASSUME NEW q \in Request, q # r, Begin(q) \/ Fail(q) PROVE Still
  BY <1>1 DEF Begin, RefreshStart, LogoutStart, LogoutAllStart, Start, Fail, db, Released
<1>2. ASSUME NEW q \in Request, q # r, SelectForUpdate(q) PROVE Still
  BY <1>2 DEF SelectForUpdate, Free
<1>3. ASSUME NEW q \in Request, q # r, NEW c \in Token, Rotate(q, c) PROVE Still
  BY <1>3 DEF Rotate, Released, statement
<1>4. ASSUME NEW q \in Request, q # r, Lookup(q) \/ Snapshot(q) \/ Respond(q) PROVE Still
  BY <1>4 DEF Lookup, Snapshot, Respond, statement, db
<1>5. ASSUME NEW q \in Request, q # r, SweepRow(q) PROVE Still
  BY <1>5 DEF SweepRow, Free
<1>6. ASSUME NEW q \in Request, q # r, SweepCommit(q) PROVE Still
  BY <1>6 DEF SweepCommit, Released, statement
<1>7. CASE \/ \E u \in User, f \in Family, d \in Device \cup {None}, t \in Token :
                  Login(u, f, d, t)
           \/ Tick \/ Finished \/ UNCHANGED vars
  BY <1>7 DEF Login, Tick, Finished, vars, statement, db
<1>. QED BY <1>1, <1>2, <1>3, <1>4, <1>5, <1>6, <1>7 DEF Next, Step

\* Only the holder of a row takes its life.
LEMMA HeldStaysLive ==
    ASSUME Locked, [Next]_vars, NEW r \in Request, NEW t \in Token,
           lock[t] = r, Live(t)
    PROVE  \/ Live(t)'
           \/ (\E c \in Token : Rotate(r, c)) \/ SweepCommit(r)
<1>1. CASE row' = row
  BY <1>1 DEF Live, Exists
<1>2. ASSUME NEW u \in User, NEW f \in Family, NEW d \in Device \cup {None},
             NEW n \in Token, Login(u, f, d, n)
      PROVE  Live(t)'
  <2>1. n # t /\ row'[t] = row[t]
    BY <1>2 DEF Login, Live, Locked, Base, TypeOK
  <2>. QED BY <2>1 DEF Live, Exists
<1>3. ASSUME NEW q \in Request, NEW c \in Token, Rotate(q, c), q # r PROVE Live(t)'
  <2>1. PICK n \in Token :
            n = req[q].token /\ ~Exists(c) /\ \A s \in Token \ {n, c} : row'[s] = row[s]
    BY <1>3, RotateColumns DEF Locked
  <2>2. n # t
    BY <1>3, <2>1 DEF Rotate, Locked, Ownership
  <2>. QED BY <2>1, <2>2 DEF Live, Exists
<1>4. ASSUME NEW q \in Request, SweepCommit(q), q # r PROVE Live(t)'
  <2>1. t \notin hit[q]
    BY <1>4 DEF SweepCommit, Locked, Ownership
  <2>. QED BY <1>4, <2>1, SweepRows DEF Locked, Live, Exists
<1>. QED BY <1>1, <1>2, <1>3, <1>4, RowSteps

\* A step of others keeps a request orderly.
LEMMA OrderlyStays ==
    ASSUME Locked, [Next]_vars, NEW r \in Request, Orderly(r),
           ~(Begin(r) \/ Step(r) \/ Fail(r))
    PROVE  Orderly(r)'
<1>1. /\ pc'[r] = pc[r] /\ snap'[r] = snap[r] /\ todo'[r] = todo[r]
      /\ outcome'[r] = outcome[r] /\ req'[r] = req[r] /\ want'[r] = want[r]
      /\ \A t \in Token : lock'[t] = r <=> lock[t] = r
  BY OthersMove
<1>2. Holds(r)' /\ Asks(r)'
  BY <1>1 DEF Orderly, Holds, Asks
<1>3. \A s \in Token : Exists(s) => row'[s].family = row[s].family
  BY RowsStay DEF Locked
<1>4. /\ snap[r] \subseteq Token /\ \A s \in snap[r] : Exists(s)
      /\ req[r].token \in Token \cup {None}
      /\ req[r].token # None => Exists(req[r].token)
      /\ outcome[r] \in {"reused", "binding_mismatch"} => req[r].token # None
  BY DEF Locked, Base, TypeOK, Statement, Control, Req
<1>5. Finds(r)'
  <2>1. pc[r] = "sweep" /\ req[r].op = "refresh" => req[r].token \in Token /\ Exists(req[r].token)
    BY <1>4 DEF Orderly, Presents
  <2>. QED BY <1>1, <1>3, <1>4, <2>1 DEF Orderly, Finds
<1>6. Presents(r)'
  <2>1. outcome[r] = "reused" => ~Live(req[r].token)'
    <3>1. ASSUME outcome[r] = "reused" PROVE row'[req[r].token] = row[req[r].token]
      BY <1>4, <3>1, DeadStaysDead DEF Orderly, Presents
    <3>. QED BY <1>1, <3>1 DEF Orderly, Presents, Live, Exists
  <2>2. ASSUME pc[r] \in {"snapshot", "sweep"}, outcome[r] = "binding_mismatch"
        PROVE  Live(req[r].token)'
    <3>1. PICK t \in Token : t = req[r].token /\ lock[t] = r /\ Live(t)
      BY <1>4, <2>2 DEF Orderly, Presents
    <3>2. Live(t)'
      BY <3>1, HeldStaysLive DEF Step
    <3>3. req'[r].token = t
      BY <1>1, <3>1
    <3>. QED BY <3>2, <3>3 DEF Live, Exists
  <2>. QED BY <1>1, <1>4, <2>1, <2>2 DEF Orderly, Presents, Live, Exists
<1>. QED BY <1>2, <1>5, <1>6 DEF Orderly

\* A request that starts holds nothing yet; one that ends holds nothing any
\* more.
LEMMA EndsAreOrderly ==
    ASSUME Locked, [Next]_vars, NEW r \in Request, Orderly(r),
           \/ Begin(r) \/ Lookup(r) \/ Respond(r) \/ Fail(r)
           \/ (\E c \in Token : Rotate(r, c)) \/ SweepCommit(r)
    PROVE  Orderly(r)'
<1>. USE NoneAssumption DEF Locked, Base, TypeOK
<1>1. ASSUME Begin(r) PROVE Orderly(r)'
  <2>1. /\ pc[r] = "idle" /\ pc'[r] \in {"lock", "lookup", "snapshot"} /\ lock' = lock
        /\ outcome' = outcome
        /\ pc'[r] = "snapshot" => req'[r].op = "logout_all"
        /\ want'[r] # None => pc'[r] = "lock"
    BY <1>1 DEF Begin, RefreshStart, LogoutStart, LogoutAllStart, Start, db
  <2>2. outcome[r] = "none" /\ \A t \in Token : lock[t] # r
    BY <2>1 DEF Control, Orderly, Holds
  <2>. QED BY <2>1, <2>2 DEF Orderly, Holds, Asks, Finds, Presents
<1>2. ASSUME Lookup(r) PROVE Orderly(r)'
  <2>1. /\ pc[r] = "lookup" /\ pc'[r] \in {"respond", "snapshot"} /\ lock' = lock
        /\ outcome' = outcome /\ want' = want /\ req'[r].op = req[r].op
    BY <1>2 DEF Lookup, db, statement, Req
  <2>2. /\ outcome[r] = "none" /\ req[r].op = "logout" /\ want[r] = None
        /\ \A t \in Token : lock[t] # r
    BY <2>1 DEF Control, Orderly, Holds, Asks
  <2>. QED BY <2>1, <2>2 DEF Orderly, Holds, Asks, Finds, Presents
<1>3. ASSUME Respond(r) PROVE Orderly(r)'
  <2>1. /\ pc[r] = "respond" /\ pc'[r] = "done" /\ UNCHANGED <<lock, row, req, outcome, want>>
    BY <1>3 DEF Respond, db, statement
  <2>. QED BY <2>1 DEF Orderly, Holds, Asks, Finds, Presents, Live, Exists
<1>4. ASSUME Fail(r) PROVE Orderly(r)'
  <2>1. /\ pc'[r] = "done" /\ outcome'[r] = "failed" /\ want'[r] = None
        /\ \A t \in Token : lock'[t] # r
    BY <1>4 DEF Fail, Released
  <2>. QED BY <2>1 DEF Orderly, Holds, Asks, Finds, Presents
<1>5. ASSUME NEW c \in Token, Rotate(r, c) PROVE Orderly(r)'
  <2>1. /\ pc[r] = "rotate" /\ pc'[r] = "respond" /\ UNCHANGED <<outcome, want>>
        /\ \A t \in Token : lock'[t] # r
    BY <1>5 DEF Rotate, Released, statement
  <2>2. outcome[r] # "reused" /\ want[r] = None
    BY <2>1 DEF Control, Orderly, Asks
  <2>. QED BY <2>1, <2>2 DEF Orderly, Holds, Asks, Finds, Presents
<1>6. ASSUME SweepCommit(r) PROVE Orderly(r)'
  <2>1. /\ pc'[r] = "respond" /\ UNCHANGED <<outcome, want, req>> /\ want[r] = None
        /\ \A t \in Token : lock'[t] # r
    BY <1>6 DEF SweepCommit, Released, statement
  <2>2. ASSUME outcome[r] = "reused" PROVE ~Live(req[r].token)'
    <3>1. PICK t \in Token : t = req[r].token /\ Exists(t) /\ ~Live(t)
      BY <2>2 DEF Control, Orderly, Presents, Req
    <3>2. row'[t] = row[t]
      BY <3>1, DeadStaysDead
    <3>. QED BY <2>1, <3>1, <3>2 DEF Live, Exists
  <2>. QED BY <2>1, <2>2 DEF Orderly, Holds, Asks, Finds, Presents, Live, Exists
<1>. QED BY <1>1, <1>2, <1>3, <1>4, <1>5, <1>6

\* SELECT ... FOR UPDATE keeps the row unless the answer needs no write.
LEMMA SelectIsOrderly ==
    ASSUME Locked, NEW r \in Request, Orderly(r), SelectForUpdate(r)
    PROVE  Orderly(r)'
<1>. USE NoneAssumption DEF Locked, Base, TypeOK
<1>. DEFINE v == Verdict(r, req[r].token)
<1>1. /\ pc[r] = "lock" /\ pc'[r] = AfterVerdict(v) /\ outcome'[r] = v /\ want'[r] = None
      /\ UNCHANGED <<row, req>>
      /\ lock' = IF v \in {"missing", "expired"} THEN lock ELSE [lock EXCEPT ![req[r].token] = r]
  BY DEF SelectForUpdate
<1>2. /\ req[r].op = "refresh" /\ \A t \in Token : lock[t] # r
      /\ req[r].token \in Token \cup {None} /\ (req[r].token # None => Exists(req[r].token))
  BY <1>1 DEF Control, Orderly, Holds, Req
<1>3. /\ v \in {"missing", "reused", "expired", "binding_mismatch", "rotated"}
      /\ v # "missing" => req[r].token \in Token
      /\ v = "reused" => ~Live(req[r].token)
      /\ v = "binding_mismatch" => Live(req[r].token)
  BY <1>2 DEF Verdict, Live
<1>4. /\ pc'[r] = "snapshot" <=> v \in {"reused", "binding_mismatch"}
      /\ pc'[r] = "rotate" <=> v = "rotated"
      /\ pc'[r] \in {"snapshot", "rotate", "respond"}
  BY <1>1, <1>3 DEF AfterVerdict
<1>. HIDE DEF v
<1>5. Holds(r)'
  BY <1>1, <1>2, <1>3, <1>4 DEF Holds
<1>6. Asks(r)' /\ Finds(r)'
  BY <1>1, <1>2, <1>4 DEF Asks, Finds
<1>7. Presents(r)'
  <2>1. v = "binding_mismatch" => lock'[req[r].token] = r
    BY <1>1, <1>3
  <2>. QED BY <1>1, <1>2, <1>3, <1>4, <2>1 DEF Presents, Live, Exists
<1>. QED BY <1>5, <1>6, <1>7 DEF Orderly

\* A session has one live row, so the UPDATE finds no more of it.
LEMMA SnapshotIsOrderly ==
    ASSUME Locked, Lineage, NEW r \in Request, Orderly(r), Snapshot(r)
    PROVE  Orderly(r)'
<1>. USE DEF Locked, Base, TypeOK
<1>1. /\ pc[r] = "snapshot" /\ pc'[r] = "sweep" /\ UNCHANGED <<row, lock, req, outcome>>
      /\ snap'[r] = Found(r)
  BY DEF Snapshot, db
<1>2. /\ \A s, t \in Found(r) : row[s].family = row[t].family => s = t
      /\ req[r].op = "logout" => Found(r) \subseteq {req[r].token}
      /\ req[r].op = "refresh" =>
            \A s \in Found(r) : row[s].family = row[req[r].token].family
  BY DEF Found, Matches, Lineage, AtMostOneLive
<1>3. ASSUME outcome[r] = "binding_mismatch" PROVE Found(r) \subseteq {req[r].token}
  <2>1. PICK t \in Token : t = req[r].token /\ Live(t) /\ req[r].op = "refresh"
    BY <1>1, <1>3 DEF Orderly, Presents, Control, Req
  <2>2. \A s \in Found(r) : Live(s) /\ row[s].family = row[t].family /\ s \in Token
    BY <2>1 DEF Found, Matches
  <2>. QED BY <2>1, <2>2 DEF Lineage, AtMostOneLive
<1>4. Holds(r)' /\ Asks(r)'
  BY <1>1 DEF Orderly, Holds, Asks
<1>5. Finds(r)'
  BY <1>1, <1>2 DEF Finds
<1>6. Presents(r)'
  BY <1>1, <1>3 DEF Orderly, Presents, Live, Exists
<1>. QED BY <1>4, <1>5, <1>6 DEF Orderly

\* A row that is locked is one the statement found.
LEMMA SweepRowIsOrderly ==
    ASSUME Locked, NEW r \in Request, Orderly(r), SweepRow(r)
    PROVE  Orderly(r)'
<1>. USE DEF Locked, Base, TypeOK
<1>1. PICK w \in Token :
          /\ w = want[r] /\ pc[r] = "sweep" /\ UNCHANGED <<row, pc, req, outcome, snap>>
          /\ lock' = [lock EXCEPT ![w] = r] /\ todo'[r] = todo[r] \ {w}
  BY DEF SweepRow
<1>2. w \in snap[r]
  BY <1>1, NoneAssumption DEF Statement, Scan
<1>3. Holds(r)'
  BY <1>1, <1>2 DEF Orderly, Holds
<1>4. Asks(r)' /\ Finds(r)'
  BY <1>1 DEF Orderly, Asks, Finds
<1>5. Presents(r)'
  BY <1>1 DEF Orderly, Presents, Live, Exists
<1>. QED BY <1>3, <1>4, <1>5 DEF Orderly

\* Every step keeps the order in which a request takes its locks.
LEMMA WaitingNext == Locked /\ Lineage /\ Waiting /\ [Next]_vars => Waiting'
<1>. SUFFICES ASSUME Locked, Lineage, Waiting, [Next]_vars, NEW r \in Request
              PROVE  Orderly(r)'
  BY DEF Waiting
<1>1. Orderly(r)
  BY DEF Waiting
<1>2. CASE Begin(r) \/ Step(r) \/ Fail(r)
  BY <1>1, <1>2, EndsAreOrderly, SelectIsOrderly, SnapshotIsOrderly, SweepRowIsOrderly DEF Step
<1>3. CASE ~(Begin(r) \/ Step(r) \/ Fail(r))
  BY <1>1, <1>3, OrderlyStays
<1>. QED BY <1>2, <1>3

\* So requests are always in that order.
LEMMA WaitingInvariant == Spec => []Waiting
<1>1. Init => Waiting
  BY NoneAssumption DEF Init, Waiting, Orderly, Holds, Asks, Finds, Presents
<1>. QED BY <1>1, WaitingNext, LockedInvariant, LineageInvariant, PTL DEF Spec

\* The live row of a session is its newest, and newer than what a refresh
\* that sweeps for reuse was presented.
Ranked(rank) ==
    /\ \A s, t \in Token :
          Live(t) /\ Exists(s) /\ row[s].family = row[t].family /\ s # t => rank[s] < rank[t]
    /\ \A r \in Request :
          pc[r] = "sweep" /\ req[r].op = "refresh" /\ outcome[r] = "reused" =>
              \A w \in snap[r] : rank[req[r].token] < rank[w]

\* The rows can be ranked so, by finitely many ranks.
Ages == \E n \in Nat : \E rank \in [Token -> 0 .. n] : Ranked(rank)

\* A step that creates no row and begins no sweep keeps a ranking.
LEMMA RankedStays ==
    ASSUME Locked, Waiting, [Next]_vars, NEW n \in Nat, NEW rank \in [Token -> 0 .. n], Ranked(rank),
           \A t \in Token : Live(t)' => Live(t),
           \A t \in Token : Exists(t)' => Exists(t)
    PROVE  Ranked(rank)'
<1>. USE DEF Locked, Base, TypeOK
<1>1. \A t \in Token : Exists(t) => row'[t].family = row[t].family
  BY RowsStay
<1>2. ASSUME NEW s \in Token, NEW t \in Token, Live(t)', Exists(s)',
             row'[s].family = row'[t].family, s # t
      PROVE  rank[s] < rank[t]
  BY <1>1, <1>2 DEF Ranked, Live
<1>3. ASSUME NEW r \in Request, pc'[r] = "sweep", req'[r].op = "refresh",
             outcome'[r] = "reused", NEW w \in snap'[r]
      PROVE  rank[req'[r].token] < rank[w]
  <2>1. CASE /\ pc'[r] = pc[r] /\ snap'[r] = snap[r]
             /\ outcome'[r] = outcome[r] /\ req'[r] = req[r]
    BY <1>3, <2>1 DEF Ranked
  <2>2. CASE Begin(r) \/ Step(r) \/ Fail(r)
    <3>1. CASE SweepRow(r)
      <4>1. /\ pc'[r] = pc[r] /\ snap'[r] = snap[r]
            /\ outcome'[r] = outcome[r] /\ req'[r] = req[r]
        BY <3>1 DEF SweepRow
      <4>. QED BY <2>1, <4>1
    <3>2. CASE Snapshot(r)
      <4>1. /\ pc[r] = "snapshot" /\ snap'[r] = Found(r) /\ UNCHANGED <<outcome, req>>
        BY <3>2 DEF Snapshot
      <4>2. PICK t \in Token : t = req[r].token /\ Exists(t) /\ ~Live(t)
        BY <1>3, <4>1 DEF Control, Req, Waiting, Orderly, Presents
      <4>3. w \in Token /\ Live(w) /\ row[w].family = row[t].family
        BY <1>3, <4>1, <4>2 DEF Found, Matches
      <4>. QED BY <4>1, <4>2, <4>3 DEF Ranked
    <3>3. CASE ~(SweepRow(r) \/ Snapshot(r))
      <4>1. pc'[r] # "sweep"
        <5>1. CASE Begin(r) \/ Fail(r)
          BY <5>1 DEF Begin, RefreshStart, LogoutStart, LogoutAllStart, Start, Fail
        <5>2. CASE SelectForUpdate(r)
          BY <5>2 DEF SelectForUpdate, AfterVerdict
        <5>3. CASE (\E c \in Token : Rotate(r, c)) \/ Lookup(r) \/ SweepCommit(r) \/ Respond(r)
          BY <5>3 DEF Rotate, Lookup, SweepCommit, Respond
        <5>. QED BY <2>2, <3>3, <5>1, <5>2, <5>3 DEF Step
      <4>. QED BY <1>3, <4>1
    <3>. QED BY <3>1, <3>2, <3>3
  <2>. QED BY <2>1, <2>2, OthersMove
<1>. QED BY <1>2, <1>3 DEF Ranked

\* A new row gets a rank of its own, above all others.
LEMMA RankedGrows ==
    ASSUME Locked, Waiting, [Next]_vars, NEW n \in Nat, NEW rank \in [Token -> 0 .. n], Ranked(rank),
           NEW c \in Token, ~Exists(c), Live(c)',
           \A t \in Token \ {c} : Live(t)' => Live(t) /\ row'[t].family # row'[c].family,
           \A t \in Token \ {c} : Exists(t)' => Exists(t),
           UNCHANGED <<req, snap, outcome>>, \A r \in Request : pc'[r] = "sweep" => pc[r] = "sweep"
    PROVE  Ages'
<1>. USE DEF Locked, Base, TypeOK
<1>. DEFINE m == n + 1
           higher == [rank EXCEPT ![c] = m]
<1>1. /\ m \in Nat /\ higher \in [Token -> 0 .. m] /\ higher[c] = m
      /\ \A t \in Token \ {c} : higher[t] = rank[t]
      /\ \A t \in Token : rank[t] \in Nat /\ rank[t] < m
  OBVIOUS
<1>. HIDE DEF higher, m
<1>2. \A t \in Token : Exists(t) => row'[t].family = row[t].family
  BY RowsStay
<1>3. ASSUME NEW s \in Token, NEW t \in Token, Live(t)', Exists(s)',
             row'[s].family = row'[t].family, s # t
      PROVE  higher[s] < higher[t]
  <2>1. CASE t = c
    BY <1>1, <1>3, <2>1
  <2>2. CASE s = c
    BY <1>3, <2>2
  <2>3. CASE t # c /\ s # c
    <3>1. Live(t) /\ Exists(s) /\ row[s].family = row[t].family
      BY <1>2, <1>3, <2>3 DEF Live
    <3>. QED BY <1>1, <1>3, <2>3, <3>1 DEF Ranked
  <2>. QED BY <2>1, <2>2, <2>3
<1>4. ASSUME NEW r \in Request, pc'[r] = "sweep", req'[r].op = "refresh",
             outcome'[r] = "reused", NEW w \in snap'[r]
      PROVE  higher[req'[r].token] < higher[w]
  <2>1. pc[r] = "sweep" /\ req'[r] = req[r] /\ outcome[r] = "reused" /\ w \in snap[r]
    BY <1>4
  <2>2. rank[req[r].token] < rank[w]
    BY <1>4, <2>1 DEF Ranked
  <2>3. w \in Token /\ w # c
    BY <2>1 DEF Statement
  <2>4. req[r].token \in Token /\ req[r].token # c
    BY <2>1 DEF Control, Req
  <2>. QED BY <1>1, <2>1, <2>2, <2>3, <2>4
<1>5. Ranked(higher)'
  BY <1>3, <1>4 DEF Ranked
<1>. QED BY <1>1, <1>5 DEF Ages

\* Every step keeps the ages of sessions and of their tokens.
LEMMA AgesNext == Locked /\ Lineage /\ Waiting /\ Ages /\ [Next]_vars => Ages'
<1>. SUFFICES ASSUME Locked, Lineage, Waiting, Ages, [Next]_vars PROVE Ages'
  OBVIOUS
<1>. USE DEF Locked, Base, TypeOK
<1>1. PICK n \in Nat : \E rank \in [Token -> 0 .. n] : Ranked(rank)
  BY DEF Ages
<1>2. PICK rank \in [Token -> 0 .. n] : Ranked(rank)
  BY <1>1
<1>3. CASE row' = row \/ \E r \in Request : SweepCommit(r)
  <2>1. \A t \in Token : (Live(t)' => Live(t)) /\ (Exists(t)' => Exists(t))
    <3>1. CASE row' = row
      BY <3>1 DEF Live, Exists
    <3>2. ASSUME NEW r \in Request, SweepCommit(r), NEW t \in Token
          PROVE  (Live(t)' => Live(t)) /\ (Exists(t)' => Exists(t))
      <4>1. CASE t \in hit[r]
        BY <3>2, <4>1, SweepRows DEF SweepCommit, Ownership, Live
      <4>2. CASE t \notin hit[r]
        BY <3>2, <4>2, SweepRows DEF Live, Exists
      <4>. QED BY <4>1, <4>2
    <3>. QED BY <1>3, <3>1, <3>2
  <2>2. Ranked(rank)'
    BY <1>2, <2>1, RankedStays
  <2>. QED BY <2>2 DEF Ages
<1>4. ASSUME NEW u \in User, NEW f \in Family, NEW d \in Device \cup {None},
             NEW c \in Token, Login(u, f, d, c)
      PROVE  Ages'
  <2>1. /\ ~Exists(c) /\ row'[c] = RootRow(u, f, d) /\ UNCHANGED <<pc, req, snap, outcome>>
        /\ \A t \in Token \ {c} : row'[t] = row[t] /\ row[t].family # f
    BY <1>4 DEF Login, InFamily, statement
  <2>2. row'[c].family = f /\ row'[c].revoked = None /\ f # None
    BY <2>1, NoneAssumption DEF RootRow
  <2>3. /\ Live(c)'
        /\ \A t \in Token \ {c} : Live(t)' => Live(t) /\ row'[t].family # row'[c].family
        /\ \A t \in Token \ {c} : Exists(t)' => Exists(t)
    BY <2>1, <2>2 DEF Live, Exists
  <2>. QED BY <1>2, <2>1, <2>3, RankedGrows
<1>5. ASSUME NEW r \in Request, NEW c \in Token, Rotate(r, c) PROVE Ages'
  <2>1. PICK t \in Token :
            /\ Live(t) /\ ~Exists(c) /\ ~Live(t)' /\ t # c
            /\ row'[c].family = row[t].family /\ row'[c].revoked = None
            /\ row'[t] = Consumed(r, t)
            /\ \A s \in Token \ {t, c} : row'[s] = row[s]
    BY <1>5, RotateColumns
  <2>2. UNCHANGED <<req, snap, outcome>> /\ \A q \in Request : pc'[q] = "sweep" => pc[q] = "sweep"
    BY <1>5 DEF Rotate, statement
  <2>3. Live(c)'
    BY <2>1 DEF Live, Exists
  <2>4. \A s \in Token \ {c} : Live(s)' => Live(s) /\ row'[s].family # row'[c].family
    BY <2>1 DEF Live, Exists, Lineage, AtMostOneLive
  <2>5. \A s \in Token \ {c} : Exists(s)' => Exists(s)
    BY <2>1 DEF Live, Exists
  <2>. QED BY <1>2, <2>1, <2>2, <2>3, <2>4, <2>5, RankedGrows
<1>. QED BY <1>3, <1>4, <1>5, RowSteps

\* So a session is always older than what it issues.
LEMMA AgesInvariant == Spec => []Ages
<1>1. Init => Ages
  <2>. SUFFICES ASSUME Init PROVE Ages
    OBVIOUS
  <2>1. 0 \in Nat /\ [t \in Token |-> 0] \in [Token -> 0 .. 0]
    OBVIOUS
  <2>2. Ranked([t \in Token |-> 0])
    BY DEF Init, Ranked, Live, Exists, Vacant
  <2>. QED BY <2>1, <2>2 DEF Ages
<1>. QED BY <1>1, AgesNext, WaitingInvariant, LockedInvariant, LineageInvariant, PTL DEF Spec

\* Of some ranks that are bounded, one is the highest.
LEMMA HighestRank ==
    ASSUME NEW n \in Nat, NEW S, S \subseteq 0 .. n, S # {}
    PROVE  \E m \in S : \A k \in S : k <= m
<1>. DEFINE Gap == {n - k : k \in S}
            R == OpToRel(<, Nat)
<1>1. Gap \subseteq Nat /\ Gap # {}
  <2>1. ASSUME NEW k \in S PROVE n - k \in Nat
    OBVIOUS
  <2>. QED BY <2>1
<1>2. IsWellFoundedOn(R, Nat)
  BY NatLessThanWellFounded
<1>3. \A x, y \in Nat : x < y => <<x, y>> \in R
  BY DEF OpToRel
<1>4. PICK g \in Gap : \A y \in Gap : ~(<<y, g>> \in R)
  <2>. HIDE DEF R, Gap
  <2>. QED BY <1>1, <1>2, WFMin
<1>. HIDE DEF R
<1>5. PICK m \in S : g = n - m
  BY <1>4
<1>6. ASSUME NEW k \in S PROVE k <= m
  <2>1. ~(n - k < n - m)
    BY <1>1, <1>3, <1>4, <1>5
  <2>. QED BY <2>1
<1>. QED BY <1>6

\* What a request that is waited for, and waits itself, holds and wants.
LEMMA LinkOfWaits ==
    ASSUME Locked, Waiting, NEW rank, Ranked(rank),
           NEW r \in Request, NEW q \in Request, NEW p \in Request,
           WaitsFor(r, q), WaitsFor(q, p)
    PROVE  /\ want[r] \in Token /\ want[q] \in Token
           /\ \/ /\ req[q].op = "refresh"
                 /\ row[want[r]].family = row[want[q]].family
                 /\ rank[want[r]] < rank[want[q]]
              \/ /\ req[q].op = "logout_all"
                 /\ row[want[r]].family # row[want[q]].family
<1>. USE DEF Locked, Base, TypeOK
<1>1. /\ want[r] \in Token /\ want[q] \in Token
      /\ lock[want[r]] = q /\ lock[want[q]] = p /\ p # q
  BY DEF WaitsFor
<1>2. Orderly(q)
  BY DEF Waiting
<1>3. pc[q] = "sweep"
  BY <1>1, <1>2, NoneAssumption DEF Orderly, Holds, Asks
<1>4. want[q] \in todo[q] /\ todo[q] \subseteq snap[q]
  BY <1>1, <1>3, NoneAssumption DEF Statement, Scan
<1>5. \/ req[q].op = "refresh" /\ want[r] = req[q].token
      \/ want[r] \in snap[q] \ todo[q]
  BY <1>1, <1>2, <1>3 DEF Orderly, Holds
<1>6. \A s, t \in snap[q] : row[s].family = row[t].family => s = t
  BY <1>2, <1>3 DEF Orderly, Finds
<1>7. CASE req[q].op = "refresh"
  <2>1. /\ outcome[q] \in {"reused", "binding_mismatch"}
        /\ \A s \in snap[q] : row[s].family = row[req[q].token].family
    BY <1>2, <1>3, <1>7 DEF Orderly, Presents, Finds
  <2>2. outcome[q] = "reused"
    <3>1. ASSUME outcome[q] = "binding_mismatch" PROVE FALSE
      <4>1. want[q] = req[q].token /\ lock[req[q].token] = q
        BY <1>2, <1>3, <1>4, <3>1 DEF Orderly, Presents
      <4>. QED BY <1>1, <4>1
    <3>. QED BY <2>1, <3>1
  <2>3. want[r] = req[q].token
    <3>1. ASSUME want[r] \in snap[q] \ todo[q] PROVE FALSE
      BY <1>4, <1>6, <2>1, <3>1
    <3>. QED BY <1>5, <3>1
  <2>. QED BY <1>1, <1>3, <1>4, <1>7, <2>1, <2>2, <2>3 DEF Ranked
<1>8. CASE req[q].op = "logout_all"
  BY <1>1, <1>4, <1>5, <1>6, <1>8
<1>9. CASE req[q].op = "logout"
  BY <1>2, <1>3, <1>4, <1>5, <1>9 DEF Orderly, Finds
<1>10. req[q].op \in {"refresh", "logout_all", "logout"}
  BY <1>2, <1>3 DEF Orderly, Asks, Req, Op
<1>. QED BY <1>1, <1>7, <1>8, <1>9, <1>10

\* In a cycle of waits with one logout-all at most, the request that wants
\* the newest row, of the session whose row the logout-all wants if there is
\* one, waits for nobody: whoever holds that row wants a newer one of the
\* session.
LEMMA WaitsEnd ==
    ASSUME Locked, Waiting, Ages, NEW C \in SUBSET Request, Deadlocked(C)
    PROVE  \E r, q \in C : r # q /\ req[r].op = "logout_all" /\ req[q].op = "logout_all"
<1>. SUFFICES ASSUME \A r, q \in C : req[r].op = "logout_all" /\ req[q].op = "logout_all" => r = q
              PROVE  FALSE
  OBVIOUS
<1>1. PICK n \in Nat : \E rank \in [Token -> 0 .. n] : Ranked(rank)
  BY DEF Ages
<1>2. PICK rank \in [Token -> 0 .. n] : Ranked(rank)
  BY <1>1
<1>3. /\ \A r \in C : \E q \in C : WaitsFor(r, q)
      /\ \A r \in C : want[r] \in Token
  BY DEF Deadlocked, WaitsFor, Locked, Base, TypeOK
<1>4. ASSUME NEW r \in C, NEW q \in C, WaitsFor(r, q)
      PROVE  \/ /\ req[q].op = "refresh"
                /\ row[want[r]].family = row[want[q]].family
                /\ rank[want[r]] < rank[want[q]]
             \/ /\ req[q].op = "logout_all"
                /\ row[want[r]].family # row[want[q]].family
  <2>1. PICK p \in C : WaitsFor(q, p)
    BY <1>3
  <2>. QED BY <1>2, <1>4, <2>1, LinkOfWaits
<1>. DEFINE Near == {r \in C : \A p \in C : req[p].op = "logout_all" =>
                                  row[want[r]].family = row[want[p]].family}
            Ranks == {rank[want[r]] : r \in Near}
<1>5. Near # {}
  <2>1. CASE \E p \in C : req[p].op = "logout_all"
    <3>1. PICK p \in C : req[p].op = "logout_all"
      BY <2>1
    <3>2. p \in Near
      BY <3>1
    <3>. QED BY <3>2
  <2>2. CASE ~ \E p \in C : req[p].op = "logout_all"
    <3>1. PICK r \in C : TRUE
      BY DEF Deadlocked
    <3>2. r \in Near
      BY <2>2
    <3>. QED BY <3>2
  <2>. QED BY <2>1, <2>2
<1>6. Ranks \subseteq 0 .. n /\ Ranks # {}
  BY <1>3, <1>5
<1>7. PICK r \in Near : \A s \in Near : rank[want[s]] <= rank[want[r]]
  <2>1. PICK m \in Ranks : \A k \in Ranks : k <= m
    <3>. HIDE DEF Ranks
    <3>. QED BY <1>6, HighestRank
  <2>. QED BY <2>1
<1>8. PICK q \in C : WaitsFor(r, q)
  BY <1>3
<1>9. ~(req[q].op = "logout_all" /\ row[want[r]].family # row[want[q]].family)
  BY <1>7
<1>10. row[want[r]].family = row[want[q]].family /\ rank[want[r]] < rank[want[q]]
  BY <1>4, <1>8, <1>9
<1>11. q \in Near
  BY <1>7, <1>10
<1>12. /\ rank[want[q]] <= rank[want[r]]
       /\ rank[want[q]] \in Nat /\ rank[want[r]] \in Nat
  BY <1>3, <1>7, <1>11
<1>. QED BY <1>10, <1>12

\* Refreshes and logouts take their row locks in an order, oldest row of the
\* session first, and one logout-all does not break it: only two that overlap
\* can close a cycle of waits.
THEOREM OnlyLogoutAllsDeadlock == Spec => []DeadlockNeedsTwoLogoutAlls
<1>1. Locked /\ Waiting /\ Ages => DeadlockNeedsTwoLogoutAlls
  <2>. SUFFICES ASSUME Locked, Waiting, Ages, NEW C \in SUBSET Request, Deadlocked(C)
                PROVE  \E r, q \in C : r # q /\ {req[r].op, req[q].op} = {"logout_all"}
    BY DEF DeadlockNeedsTwoLogoutAlls
  <2>. QED BY WaitsEnd
<1>. QED BY <1>1, LockedInvariant, WaitingInvariant, AgesInvariant, PTL
=============================================================================
