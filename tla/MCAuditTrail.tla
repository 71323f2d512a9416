---------------------------- MODULE MCAuditTrail ----------------------------
(* AuditTrail and, apart from it, AuditContext: what an event says of its  *)
(* request depends on that request alone, so the request of AuditContext   *)
(* runs where nothing else does, before the first account.                 *)
EXTENDS AuditTrail, AuditContext, TLC

Quiet == accounts = <<>> /\ reader = NoReader /\ \A r \in Request : pc[r] = "idle"

\* A client pages while accounts come and go and events are written; the use
\* cases that do neither otherwise than these have ended before.
Paged ==
    reader = NoReader \/
    \A r \in Request : frame[r].op \in {None, "register", "delete_user", "logout_all"}

MCInit == Init /\ ContextInit

MCNext ==
    \/ event = NoEvent /\ Next /\ Paged' /\ UNCHANGED event
    \/ Quiet /\ ContextNext /\ UNCHANGED vars

MCSpec == MCInit /\ [][MCNext]_<<vars, event>>

Symmetry == Permutations(Email) \cup Permutations(Request) \cup Permutations(Address \ Trusted)
=============================================================================
