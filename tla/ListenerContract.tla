-------------------------- MODULE ListenerContract --------------------------
(***************************************************************************)
(* What both HTTP listeners promise of their connections: at most          *)
(* MaxThreads at a time, none refused while there is room, none cut before *)
(* its deadline or the end of the listener, all cut then, and none served  *)
(* once the listener is closed.                                            *)
(***************************************************************************)
EXTENDS Naturals, FiniteSets

CONSTANTS Connections, MaxThreads

VARIABLES
    place,    \* where each connection stands
    socket,   \* open, cut by the listener, or closed
    due,      \* the open ones that are to be cut
    closing, closed

contractVars == <<place, socket, due, closing, closed>>

Holding == {r \in Connections : place[r] \in {"admitted", "served", "leaving"}}

Cuttable == {r \in Connections : place[r] = "served" /\ socket[r] = "open"}

Init ==
    /\ place = [r \in Connections |-> "outside"]
    /\ socket = [r \in Connections |-> "open"]
    /\ due = {} /\ closing = FALSE /\ closed = FALSE

Moves(r, from, to) == place[r] = from /\ place' = [place EXCEPT ![r] = to]

ClosesSocket(r) == socket' = [socket EXCEPT ![r] = "closed"] /\ due' = due \ {r}

Admit(r) ==
    /\ Moves(r, "outside", "admitted")
    /\ Cardinality(Holding) < MaxThreads
    /\ UNCHANGED <<socket, due, closing, closed>>

Refuse(r) ==
    /\ Moves(r, "outside", "refused")
    /\ Cardinality(Holding) = MaxThreads
    /\ ClosesSocket(r)
    /\ UNCHANGED <<closing, closed>>

\* No thread could be started for it.
Drop(r) == Moves(r, "outside", "over") /\ ClosesSocket(r) /\ UNCHANGED <<closing, closed>>

Serve(r) == Moves(r, "admitted", "served") /\ ~closing /\ UNCHANGED <<socket, due, closing, closed>>

TurnAway(r) == Moves(r, "admitted", "leaving") /\ closing /\ ClosesSocket(r) /\ UNCHANGED <<closing, closed>>

Finish(r) == Moves(r, "served", "leaving") /\ ClosesSocket(r) /\ UNCHANGED <<closing, closed>>

Leave(r) == Moves(r, "leaving", "over") /\ UNCHANGED <<socket, due, closing, closed>>

Lapse == \E S \in SUBSET Cuttable : due' = due \cup S /\ UNCHANGED <<place, socket, closing, closed>>

Cut(r) ==
    /\ r \in due
    /\ socket' = [socket EXCEPT ![r] = "cut"]
    /\ due' = due \ {r}
    /\ UNCHANGED <<place, closing, closed>>

BeginClosing == closing' = TRUE /\ due' = Cuttable /\ UNCHANGED <<place, socket, closed>>

Close == closing /\ Cuttable = {} /\ closed' = TRUE /\ UNCHANGED <<place, socket, due, closing>>

Next ==
    \/ \E r \in Connections :
          \/ Admit(r) \/ Refuse(r) \/ Drop(r) \/ Serve(r) \/ TurnAway(r) \/ Finish(r) \/ Leave(r)
          \/ Cut(r)
    \/ Lapse \/ BeginClosing \/ Close

Spec ==
    /\ Init /\ [][Next]_contractVars
    /\ \A r \in Connections : WF_contractVars(Cut(r))
    /\ WF_contractVars(Close)
=============================================================================
