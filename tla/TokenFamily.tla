---------------------------- MODULE TokenFamily ----------------------------
(***************************************************************************)
(* What refresh-token rotation promises (docs/adr/0002): a session is a    *)
(* family of single-use tokens.  It opens with one token, a token is       *)
(* exchanged for a new one, and once ended it stays ended.  Transactions,  *)
(* row locks and the requests that run them are not visible here.          *)
(***************************************************************************)
CONSTANTS Token, Family

VARIABLES
    known,    \* the tokens ever issued in each family
    live      \* the tokens of each family that can still be exchanged

vars == <<known, live>>

Init ==
    /\ known = [f \in Family |-> {}]
    /\ live = [f \in Family |-> {}]

Unused(t) == \A f \in Family : t \notin known[f]

Open(f, t) ==
    /\ known[f] = {}
    /\ Unused(t)
    /\ known' = [known EXCEPT ![f] = {t}]
    /\ live' = [live EXCEPT ![f] = {t}]

Exchange(f, t, c) ==
    /\ live[f] = {t}
    /\ Unused(c)
    /\ known' = [known EXCEPT ![f] = @ \cup {c}]
    /\ live' = [live EXCEPT ![f] = {c}]

End(F) ==
    /\ live' = [f \in Family |-> IF f \in F THEN {} ELSE live[f]]
    /\ UNCHANGED known

Next ==
    \/ \E f \in Family, t \in Token : Open(f, t)
    \/ \E f \in Family, t, c \in Token : Exchange(f, t, c)
    \/ \E F \in SUBSET Family : End(F)

Spec == Init /\ [][Next]_vars
=============================================================================
