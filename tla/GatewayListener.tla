-------------------------- MODULE GatewayListener --------------------------
(***************************************************************************)
(* The deadlines of the gateway's listener (_BoundedThreads in             *)
(* gateway/server.py): one watchdog sleeps on a condition until the        *)
(* earliest deadline or until it is told of a change.                      *)
(***************************************************************************)
EXTENDS BoundedThreads

CONSTANT Never  \* no time to wake up at

VARIABLES
    watchdog,  \* what it does, with the connection it is about to cut or the
               \* time it sleeps to
    expired    \* _expired_deadlines

watchVars == <<watchdog, expired>>

WatchInit == watchdog = [at |-> "awake"] /\ expired = {}

\* Mutant: nobody is told.
Untold == watchdog

Told == IF watchdog.at = "asleep" THEN [at |-> "awake"] ELSE watchdog

GatewayRegister(r) == Register(r) /\ watchdog' = Told /\ UNCHANGED expired

\* The slot is free before the deadline is forgotten.
FreeSlot(r) ==
    /\ Moves(r, "ended", "freed") /\ slots' = slots + 1
    /\ UNCHANGED <<socket, deadline, closing, stage, todo, now, watchVars>>

ForgetDeadline(r) ==
    /\ Moves(r, "freed", "gone")
    /\ deadline' = WithoutDeadline(r)
    /\ expired' = expired \ {r}
    /\ watchdog' = Told
    /\ UNCHANGED <<socket, slots, closing, stage, todo, now>>

Pending == DOMAIN deadline \ expired

Earliest(r) == r \in Pending /\ \A q \in Pending : deadline[r] <= deadline[q]

\* Under the condition's lock.
Look ==
    /\ watchdog.at = "awake"
    /\ \/ /\ closing
          /\ watchdog' = [at |-> "ended"] /\ UNCHANGED expired
       \/ /\ ~closing /\ Pending = {}
          /\ watchdog' = [at |-> "asleep", until |-> Never] /\ UNCHANGED expired
       \/ /\ ~closing
          /\ \E r \in Pending :
                /\ Earliest(r)
                /\ IF deadline[r] <= now
                   THEN watchdog' = [at |-> "cutting", connection |-> r] /\ expired' = expired \cup {r}
                   ELSE watchdog' = [at |-> "asleep", until |-> deadline[r]] /\ UNCHANGED expired
    /\ UNCHANGED threadVars

WakeUp ==
    /\ watchdog.at = "asleep" /\ watchdog.until # Never /\ watchdog.until <= now
    /\ watchdog' = [at |-> "awake"]
    /\ UNCHANGED <<threadVars, expired>>

CutExpired ==
    /\ watchdog.at = "cutting"
    /\ Cuts(watchdog.connection)
    /\ watchdog' = [at |-> "awake"]
    /\ UNCHANGED <<conn, slots, deadline, closing, stage, todo, now, expired>>

GatewayBeginAbort ==
    /\ BeginAbort([r \in {} |-> 0])
    /\ expired' = {}
    /\ watchdog' = Told

GatewayAbortOne(r) == AbortOne(r) /\ UNCHANGED watchVars

\* The watchdog is joined before the socket of the listener is closed.
GatewayEndAbort == watchdog.at = "ended" /\ EndAbort(deadline) /\ UNCHANGED watchVars

GatewayListenerNext ==
    \/ \E r \in Clients :
          \/ (Accept(r) \/ AcceptFails(r) \/ Reject(r) \/ LeaveRejected(r) \/ Finish(r)) /\ UNCHANGED watchVars
          \/ GatewayRegister(r) \/ FreeSlot(r) \/ ForgetDeadline(r)
          \/ GatewayAbortOne(r)
    \/ (StopAccepting \/ Tick) /\ UNCHANGED watchVars
    \/ Look \/ WakeUp \/ CutExpired
    \/ GatewayBeginAbort \/ GatewayEndAbort

\* The watchdog runs, and so does the end of the listener once it has begun.
GatewayListenerFairness ==
    /\ WF_<<threadVars, watchVars>>(Look \/ WakeUp \/ CutExpired)
    /\ WF_<<threadVars, watchVars>>(\E r \in Clients : GatewayAbortOne(r))
    /\ WF_<<threadVars, watchVars>>(GatewayEndAbort)

GatewayListenerSpec ==
    ThreadsInit /\ WatchInit /\ [][GatewayListenerNext]_<<threadVars, watchVars>> /\ GatewayListenerFairness

WatchTypeOK ==
    /\ watchdog.at \in {"awake", "asleep", "cutting", "ended"}
    /\ expired \subseteq Clients
=============================================================================
