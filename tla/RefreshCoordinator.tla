------------------------- MODULE RefreshCoordinator -------------------------
(***************************************************************************)
(* The one refresh at a time of the daemon (RefreshCoordinator in          *)
(* local_api.py): the desktop starts a refresh of the current state        *)
(* without waiting, the daemon's loop waits behind it for a full one.      *)
(***************************************************************************)

VARIABLES
    running,    \* _running, with the kind of refresh
    scheduled,  \* the thread of the daemon's loop in run_blocking
    succeeded   \* _last_succeeded

refreshVars == <<running, scheduled, succeeded>>

RefreshOutcomes == {"unknown", "ok", "error"}

RefreshInit ==
    /\ running = "no"
    /\ scheduled = "away"
    /\ succeeded = "unknown"

\* start() while a refresh runs answers so and changes nothing.
Start ==
    /\ running = "no"
    /\ running' = "current"
    /\ UNCHANGED <<scheduled, succeeded>>

RunFull ==
    /\ running = "no"
    /\ running' = "full"
    /\ scheduled' = "refreshing"
    /\ UNCHANGED succeeded

Wait ==
    /\ running # "no"
    /\ scheduled' = "waiting"
    /\ UNCHANGED <<running, succeeded>>

RunBlocking == scheduled = "away" /\ (RunFull \/ Wait)

\* Mutant: nobody is told.
NotNotified == scheduled

\* notify_all: a thread that waits must take the condition's lock again, and
\* others may be faster.
Notified == IF scheduled = "waiting" THEN "woken" ELSE scheduled

EndRefresh ==
    /\ running # "no"
    /\ running' = "no"
    /\ scheduled' = IF running = "full" THEN "away" ELSE Notified
    /\ succeeded' \in {"ok", "error"}

Resume == scheduled = "woken" /\ RunFull
WaitAgain == scheduled = "woken" /\ Wait

RefreshNext == Start \/ RunBlocking \/ EndRefresh \/ Resume \/ WaitAgain

\* A refresh ends (collectors have deadlines), and a thread that is woken again
\* and again does not always find that the desktop was faster.
RefreshFairness ==
    /\ WF_refreshVars(EndRefresh)
    /\ WF_refreshVars(WaitAgain)
    /\ SF_refreshVars(Resume)

RefreshTypeOK ==
    /\ running \in {"no", "current", "full"}
    /\ scheduled \in {"away", "waiting", "woken", "refreshing"}
    /\ succeeded \in RefreshOutcomes

\* The daemon's full refresh is not put off forever by those of the desktop.
ScheduledRefreshRuns == scheduled = "waiting" ~> scheduled = "refreshing"
=============================================================================
