--------------------------- MODULE BoundedThreads ---------------------------
(***************************************************************************)
(* What the listeners of the gateway and of the Local API have in common   *)
(* (_BoundedThreads in gateway/server.py and in local_api.py): a slot for  *)
(* each connection that has a thread, its deadline, and the end of the     *)
(* listener.  How a deadline takes effect differs.                         *)
(***************************************************************************)
EXTENDS Naturals, FiniteSets

CONSTANTS
    Clients,      \* connections
    MaxThreads,
    Deadline,     \* the time a request has
    MaxNow        \* the clock

ASSUME ThreadsAssumption ==
    /\ IsFiniteSet(Clients)
    /\ MaxThreads \in Nat \ {0} /\ Deadline \in Nat \ {0} /\ MaxNow \in Nat

VARIABLES
    conn,      \* where each connection stands
    socket,
    slots,     \* free thread slots
    deadline,  \* the connections that are registered, with their deadlines
    closing,   \* _closing
    stage,     \* of the listener's own end
    todo,      \* connections its end still has to cut
    now

threadVars == <<conn, socket, slots, deadline, closing, stage, todo, now>>

ThreadsInit ==
    /\ conn = [r \in Clients |-> "away"]
    /\ socket = [r \in Clients |-> "open"]
    /\ slots = MaxThreads
    /\ deadline = [r \in {} |-> 0]
    /\ closing = FALSE
    /\ stage = "accepting"
    /\ todo = {}
    /\ now = 0

Moves(r, from, to) == conn[r] = from /\ conn' = [conn EXCEPT ![r] = to]

Closes(r) == socket' = [socket EXCEPT ![r] = "closed"]

\* shutdown() of a socket that is closed already raises, which is swallowed.
Cuts(r) == socket' = IF socket[r] = "open" THEN [socket EXCEPT ![r] = "cut"] ELSE socket

WithoutDeadline(r) == [q \in DOMAIN deadline \ {r} |-> deadline[q]]

Accept(r) ==
    /\ stage = "accepting"
    /\ \/ slots > 0 /\ Moves(r, "away", "admitted") /\ slots' = slots - 1 /\ UNCHANGED socket
       \/ slots = 0 /\ Moves(r, "away", "refused") /\ Closes(r) /\ UNCHANGED slots
    /\ UNCHANGED <<deadline, closing, stage, todo, now>>

\* The slot is given back.
AcceptFails(r) ==
    /\ stage = "accepting" /\ slots > 0
    /\ Moves(r, "away", "gone") /\ Closes(r)
    /\ UNCHANGED <<slots, deadline, closing, stage, todo, now>>

\* Mutant: the thread does not look whether the listener ends.
RegisterAnyway(r) ==
    /\ Moves(r, "admitted", "served")
    /\ deadline' = [q \in DOMAIN deadline \cup {r} |-> IF q = r THEN now + Deadline ELSE deadline[q]]
    /\ UNCHANGED <<socket, slots, closing, stage, todo, now>>

\* The thread begins, before or after the end of the listener.
Register(r) ==
    /\ ~closing
    /\ Moves(r, "admitted", "served")
    /\ deadline' = [q \in DOMAIN deadline \cup {r} |-> IF q = r THEN now + Deadline ELSE deadline[q]]
    /\ UNCHANGED <<socket, slots, closing, stage, todo, now>>

Reject(r) ==
    /\ closing
    /\ Moves(r, "admitted", "rejected") /\ Closes(r)
    /\ UNCHANGED <<slots, deadline, closing, stage, todo, now>>

LeaveRejected(r) ==
    /\ Moves(r, "rejected", "gone") /\ slots' = slots + 1
    /\ UNCHANGED <<socket, deadline, closing, stage, todo, now>>

\* The handler returns or fails.
Finish(r) ==
    /\ Moves(r, "served", "ended") /\ Closes(r)
    /\ UNCHANGED <<slots, deadline, closing, stage, todo, now>>

Tick == now < MaxNow /\ now' = now + 1 /\ UNCHANGED <<conn, socket, slots, deadline, closing, stage, todo>>

\* shutdown() waits until no connection is being accepted.
StopAccepting ==
    /\ stage = "accepting"
    /\ stage' = "stopped"
    /\ UNCHANGED <<conn, socket, slots, deadline, closing, todo, now>>

BeginAbort(left) ==
    /\ stage = "stopped"
    /\ closing' = TRUE
    /\ stage' = "aborting"
    /\ todo' = DOMAIN deadline
    /\ deadline' = left
    /\ UNCHANGED <<conn, socket, slots, now>>

AbortOne(r) ==
    /\ r \in todo
    /\ todo' = todo \ {r}
    /\ Cuts(r)
    /\ UNCHANGED <<conn, slots, deadline, closing, stage, now>>

EndAbort(left) ==
    /\ stage = "aborting" /\ todo = {}
    /\ stage' = "closed"
    /\ deadline' = left
    /\ UNCHANGED <<conn, socket, slots, closing, todo, now>>

Overdue(r) == r \in DOMAIN deadline /\ deadline[r] <= now

(***************************************************************************)
(* Properties.                                                             *)
(***************************************************************************)
ThreadsTypeOK ==
    /\ \A r \in Clients : conn[r] \in {"away", "admitted", "refused", "rejected", "served", "ended", "forgotten",
                               "freed", "gone"}
    /\ \A r \in Clients : socket[r] \in {"open", "cut", "closed"}
    /\ slots \in 0..MaxThreads
    /\ DOMAIN deadline \subseteq Clients
    /\ stage \in {"accepting", "stopped", "aborting", "closed"}
    /\ todo \subseteq Clients
    /\ now \in 0..MaxNow

Standing ==
    [r \in Clients |->
        CASE conn[r] = "away" -> "outside"
          [] conn[r] \in {"admitted", "refused", "served"} -> conn[r]
          [] conn[r] \in {"rejected", "ended", "forgotten"} -> "leaving"
          [] OTHER -> "over"]

Contract ==
    INSTANCE ListenerContract WITH
        Connections <- Clients, place <- Standing, closed <- stage = "closed",
        due <- {r \in Clients : conn[r] = "served" /\ socket[r] = "open" /\ (closing \/ Overdue(r))}

\* Connections are admitted, served, cut and turned away as the contract of the
\* listeners says, and what is to be cut is cut, and the end of the listener
\* comes to its end, whichever threads are slow.
ListenerKeepsContract == Contract!Spec

\* The safety of the same: no step does what the contract does not allow.
ListenerStepsAllowed == Contract!Init /\ [][Contract!Next]_(Contract!contractVars)
=============================================================================
