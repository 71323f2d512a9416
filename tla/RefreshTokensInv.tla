------------------------- MODULE RefreshTokensInv -------------------------
(***************************************************************************)
(* The facts that make the properties of RefreshTokens inductive.          *)
(***************************************************************************)
EXTENDS RefreshTokens

\* What a request's position says of its inputs and of its statement.
Control ==
    \A r \in Request :
        /\ req[r].token # None => Exists(req[r].token)
        /\ pc[r] \in {"lock", "rotate"} => req[r].op = "refresh"
        /\ pc[r] = "lookup" => req[r].op = "logout"
        /\ pc[r] \in {"idle", "lookup", "lock"} => outcome[r] = "none"
        /\ pc[r] = "rotate" => req[r].token # None
        /\ pc[r] = "snapshot" =>
              IF req[r].op = "refresh"
              THEN outcome[r] \in {"reused", "binding_mismatch"}
              ELSE outcome[r] = "none"
        /\ outcome[r] \in {"reused", "binding_mismatch"} => req[r].token # None
        /\ outcome[r] \in {"reused", "binding_mismatch"} =>
              pc[r] \in {"snapshot", "sweep", "respond", "done"}
        /\ pc[r] \notin {"respond", "done"} => issued[r] = None
        /\ issued[r] # None => Exists(issued[r])

\* A sweep works through the rows it found, and holds those it will write.
Statement ==
    \A r \in Request :
        /\ \A t \in snap[r] : Exists(t)
        /\ todo[r] \subseteq snap[r]
        /\ hit[r] \subseteq snap[r]
        /\ pc[r] \notin {"sweep", "respond", "done"} => snap[r] = {}
        /\ pc[r] = "sweep" => want[r] \in Scan(todo[r])

\* A row that is about to be written is locked by its writer and live.
Ownership ==
    \A r \in Request :
        /\ pc[r] = "rotate" =>
              lock[req[r].token] = r /\ Live(req[r].token)
        /\ pc[r] = "sweep" => \A t \in hit[r] : lock[t] = r /\ Live(t)

\* A live token that a running sweep covers is still to be tested, will be
\* revoked, or belongs to a session whose row was rotated under the sweep.
Coverage ==
    \A r \in Request : pc[r] = "sweep" =>
        \A t \in Token : Live(t) /\ row[t].family \in EndedFamilies(r) =>
            \/ t \in todo[r] \cup hit[r]
            \/ \E s \in snap[r], c \in Token :
                   row[s].family = row[t].family /\ row[c].parent = s

\* The live token carries its family's binding, and a rotation under way
\* was presented by the bound device.
LeafBinding ==
    /\ \A s, t \in Token :
          Live(t) /\ row[s].family = row[t].family /\ row[s].device # None
              => row[t].device = row[s].device
    /\ \A r \in Request :
          pc[r] = "rotate" /\ BindDevice =>
              row[req[r].token].device \in {None, req[r].device}

\* No request's "now" is ahead of the clock or older than the token it
\* presents.
Clocks ==
    /\ \A t \in Token : row[t].expires <= clock + Lifetime
    /\ \A r \in Request :
          /\ req[r].at <= clock
          /\ pc[r] \in {"lock", "rotate"} /\ req[r].token # None =>
                row[req[r].token].expires <= req[r].at + Lifetime
          /\ pc[r] = "rotate" => req[r].at < row[req[r].token].expires
=============================================================================
