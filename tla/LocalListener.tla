---------------------------- MODULE LocalListener ----------------------------
(***************************************************************************)
(* The deadlines of the Local API's listeners (_BoundedThreads in          *)
(* local_api.py): a timer for each request, which is cancelled and joined  *)
(* when the request or the listener ends.                                  *)
(***************************************************************************)
EXTENDS BoundedThreads

VARIABLE timer  \* none yet, waiting, firing (past its last look whether it
                \* was cancelled), or spent

LocalInit == timer = [r \in Clients |-> "none"]

LocalRegister(r) == Register(r) /\ timer' = [timer EXCEPT ![r] = "waiting"]

Fire(r) ==
    /\ timer[r] = "waiting" /\ Overdue(r)
    /\ timer' = [timer EXCEPT ![r] = "firing"]
    /\ UNCHANGED threadVars

Expire(r) ==
    /\ timer[r] = "firing"
    /\ timer' = [timer EXCEPT ![r] = "spent"]
    /\ Cuts(r)
    /\ UNCHANGED <<conn, slots, deadline, closing, stage, todo, now>>

Cancelled(r) == IF timer[r] = "waiting" THEN [timer EXCEPT ![r] = "spent"] ELSE timer

CancelTimer(r) ==
    /\ conn[r] = "ended"
    /\ timer[r] = "waiting" /\ timer' = Cancelled(r)
    /\ UNCHANGED threadVars

\* Once the timer is joined.
ForgetTimer(r) ==
    /\ timer[r] = "spent"
    /\ Moves(r, "ended", "forgotten")
    /\ deadline' = WithoutDeadline(r)
    /\ UNCHANGED <<socket, slots, closing, stage, todo, now, timer>>

LeaveSlot(r) ==
    /\ Moves(r, "forgotten", "gone") /\ slots' = slots + 1
    /\ UNCHANGED <<socket, deadline, closing, stage, todo, now, timer>>

LocalAbortOne(r) == AbortOne(r) /\ timer' = Cancelled(r)

\* All timers are joined before the socket of the listener is closed.
LocalEndAbort ==
    /\ \A r \in Clients : timer[r] \in {"none", "spent"}
    /\ EndAbort([r \in {} |-> 0])
    /\ UNCHANGED timer

LocalListenerNext ==
    \/ \E r \in Clients :
          \/ (Accept(r) \/ AcceptFails(r) \/ Reject(r) \/ LeaveRejected(r) \/ Finish(r)) /\ UNCHANGED timer
          \/ LocalRegister(r) \/ Fire(r) \/ Expire(r)
          \/ CancelTimer(r) \/ ForgetTimer(r) \/ LeaveSlot(r)
          \/ LocalAbortOne(r)
    \/ (StopAccepting \/ Tick \/ BeginAbort(deadline)) /\ UNCHANGED timer
    \/ LocalEndAbort

\* Timers fire, and the end of the listener runs once it has begun.
LocalListenerFairness ==
    /\ \A r \in Clients : WF_<<threadVars, timer>>(Fire(r) \/ Expire(r))
    /\ WF_<<threadVars, timer>>(\E r \in Clients : LocalAbortOne(r))
    /\ WF_<<threadVars, timer>>(LocalEndAbort)

LocalListenerSpec ==
    ThreadsInit /\ LocalInit /\ [][LocalListenerNext]_<<threadVars, timer>> /\ LocalListenerFairness

TimersTypeOK == \A r \in Clients : timer[r] \in {"none", "waiting", "firing", "spent"}
=============================================================================
