----------------------------- MODULE Deployment -----------------------------
(***************************************************************************)
(* The web container and its database: Startup's server, and in it the     *)
(* requests it serves and the commands an operator runs with               *)
(* "docker compose exec web", on the rows of RbacCatalog.  A server that   *)
(* exits takes its requests and commands with it, a lost worker its        *)
(* requests, a lost database every command and transaction.                *)
(***************************************************************************)
EXTENDS Startup, RbacCatalog

vars == <<up, pc, waited, rest, late, applied, roles, codes, links,
          userLinks, migrate, held, torn, granted>>

Init ==
    /\ up \in BOOLEAN
    /\ InitServer
    /\ InitCatalog

\* The server goes on, and what it takes with it when it does not.
Server ==
    /\ ServerStep
    /\ IF pc' = "exited" THEN MigrateLost ELSE UNCHANGED migrate
    /\ IF pc = "serving" /\ pc' # "serving" THEN RequestsLost ELSE UNCHANGED held
    /\ RowsStay

\* PostgreSQL goes down or comes back.
Database ==
    /\ FlipDatabase
    /\ MigrateLost
    /\ UNCHANGED held
    /\ RowsStay

Connected == up /\ UNCHANGED <<up, pc, waited, rest, late>>

\* A registration, a role assignment or a grant, served.
Serve == pc = "serving" /\ Connected /\ RequestStep

Grant ==
    /\ pc = "serving"
    /\ Connected
    /\ \E k \in DOMAIN roles, code \in Catalog : GrantPermission(k, code)

\* The operator runs migrate, whether the server is serving or waiting.
Operator ==
    /\ Running
    /\ Connected
    /\ \E target \in {1} \cup Migration : Migrate(target)

Command == Connected /\ MigrateStep

Next == Server \/ Database \/ Serve \/ Grant \/ Operator \/ Command

Spec == Init /\ [][Next]_vars

\* Docker restarts what exited ("restart: always"), the process goes on and
\* so do the clock and a command that runs.  Nothing makes a worker crash, and
\* the database owes nothing.
FairSpec ==
    /\ Spec
    /\ WF_vars(Server /\ StartContainer)
    /\ WF_vars(Server /\ Connect)
    /\ WF_vars(Server /\ GiveUpOrSleep)
    /\ WF_vars(Server /\ Wake)
    /\ WF_vars(Server /\ Lifespan)
    /\ WF_vars(Server /\ Tick)
    /\ WF_vars(Command)

-----------------------------------------------------------------------------
(* Properties: those of Startup and RbacCatalog, whatever each loses to the  *)
(* other.                                                                    *)

TypeOK == ServerTypeOK /\ CatalogTypeOK
=============================================================================
