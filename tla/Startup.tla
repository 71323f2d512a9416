------------------------------ MODULE Startup ------------------------------
(***************************************************************************)
(* How the web container comes up: wait_for_db, then gunicorn, whose       *)
(* worker serves once the lifespan handler of config/asgi.py has opened a  *)
(* connection.  Both look at the database once per attempt; it may go and  *)
(* come back between any two steps.                                        *)
(*                                                                         *)
(* Time is counted from the start of the wait and stops counting once it   *)
(* is past the timeout: the code asks no more than that of it.             *)
(***************************************************************************)
EXTENDS Naturals

CONSTANTS
    Timeout,    \* --timeout, in clock ticks
    Interval    \* --interval, between attempts

ASSUME OptionsAssumption == Timeout \in Nat /\ Interval \in Nat \ {0}

VARIABLES
    up,         \* PostgreSQL accepts connections
    pc,         \* where the container's process is
    waited,     \* time since the wait began
    rest,       \* what is left of sleep(interval)
    late        \* history: attempts of this wait begun at the deadline or later

Running == pc # "exited"

-----------------------------------------------------------------------------
InitServer ==
    /\ pc = "exited"
    /\ waited = 0
    /\ rest = 0
    /\ late = 0

\* An attempt begins.
AttemptAt(now, before) ==
    /\ pc' = "connect"
    /\ late' = IF now >= Timeout THEN before + 1 ELSE before

\* The container is started, or started again: "restart: always".
StartContainer ==
    /\ pc = "exited"
    /\ waited' = 0
    /\ rest' = 0
    /\ AttemptAt(0, 0)
    /\ UNCHANGED up

\* ensure_connection succeeds or raises OperationalError, however long it
\* takes.
Connect ==
    /\ pc = "connect"
    /\ pc' = IF up THEN "boot" ELSE "failed"
    /\ UNCHANGED <<up, waited, rest, late>>

\* Fault: the deadline itself is not late yet.
OverdueLater == waited > Timeout

Overdue == waited >= Timeout

\* The clock is read after the attempt: give up, or sleep.
GiveUpOrSleep ==
    /\ pc = "failed"
    /\ IF Overdue
       THEN pc' = "exited" /\ UNCHANGED rest
       ELSE pc' = "asleep" /\ rest' = Interval
    /\ UNCHANGED <<up, waited, late>>

Wake ==
    /\ pc = "asleep"
    /\ rest = 0
    /\ AttemptAt(waited, late)
    /\ UNCHANGED <<up, waited, rest>>

\* Fault: "lifespan.startup.failed" is not sent, and the server waits for it.
BootUnanswered == IF up THEN "serving" ELSE "unanswered"

\* lifespan.startup.  A worker that fails to boot makes gunicorn exit.
Boot == IF up THEN "serving" ELSE "exited"

Lifespan ==
    /\ pc = "boot"
    /\ pc' = Boot
    /\ UNCHANGED <<up, waited, rest, late>>

\* The worker is lost and gunicorn starts another.
LoseWorker ==
    /\ pc = "serving"
    /\ pc' = "boot"
    /\ UNCHANGED <<up, waited, rest, late>>

\* gunicorn exits, or its host or the Docker daemon is lost; lifespan.shutdown has
\* nothing to undo.  (It may happen before the container serves, too; a wait that
\* gives up comes to the same.  After a docker stop nothing is restarted.)
Stop ==
    /\ pc = "serving"
    /\ pc' = "exited"
    /\ UNCHANGED <<up, waited, rest, late>>

Tick ==
    /\ pc \in {"connect", "failed", "asleep"}
    /\ waited' = IF waited > Timeout THEN waited ELSE waited + 1
    /\ rest' = IF rest = 0 THEN 0 ELSE rest - 1
    /\ UNCHANGED <<up, pc, late>>

ServerStep ==
    \/ StartContainer
    \/ Connect
    \/ GiveUpOrSleep
    \/ Wake
    \/ Lifespan
    \/ LoseWorker
    \/ Stop
    \/ Tick

FlipDatabase ==
    /\ up' = ~up
    /\ UNCHANGED <<pc, waited, rest, late>>

-----------------------------------------------------------------------------
(* Properties                                                              *)

ServerTypeOK ==
    /\ up \in BOOLEAN
    /\ pc \in {"exited", "connect", "failed", "asleep", "boot", "serving"}
    /\ waited \in 0 .. Timeout + 1
    /\ rest \in 0 .. Interval
    /\ late \in Nat

\* The deadline is tested only after a failed attempt and the sleep may pass
\* it, so the wait makes one attempt at the deadline or later; never two.
OneLateAttempt == late <= 1

\* Once the database stays up the server serves, again and again whatever is
\* lost: no wait, boot or exit is for good.
ServesAgain == <>[]up => []<>(pc = "serving")
=============================================================================
