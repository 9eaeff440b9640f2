------------------------------ MODULE MCService ------------------------------
(***************************************************************************)
(* The run of the background service, in parts that a behaviour never      *)
(* leaves: the collector's refreshes of the history, its refreshes of the  *)
(* current facts, one of each side by side, and the name of the Local      *)
(* API's socket.                                                           *)
(***************************************************************************)
EXTENDS Service, MCRecords, TLC

TheIdentity == [family |-> CHOOSE f \in Families : TRUE, value |-> CHOOSE v \in InstanceValues : TRUE]

VARIABLE part

PartInit ==
    /\ ServiceInit
    /\ part \in {"collector", "current", "overlaps", "beside", "socket"}

(* Two reads show what one refresh does after another one, with every card *)
(* and a write that is refused.  What two overlapping ones leave to a      *)
(* third shows without cards.                                              *)
TwoReads ==
    /\ tick' < MaxTick
    /\ \A w \in Refreshers :
          tick = MaxTick - 1 /\ refresher'[w].at = "asking" => refresher[w].at = "asking"

WithoutCards == refusals' = 0 /\ \A w \in Refreshers : refresher'[w].card = None

OneOfEach ==
    /\ version' = 0 /\ clock' <= 1
    /\ \E w \in Refreshers : \A other \in Refreshers \ {w} : refresher'[other] = AtRest

PartNext ==
    /\ \/ part = "collector" /\ CollectorNext /\ clock' < MaxTime /\ UNCHANGED <<refreshVars, socketVars>>
       \/ /\ part \in {"current", "overlaps"} /\ RefreshStep
          /\ IF part = "current" THEN TwoReads ELSE WithoutCards
          /\ UNCHANGED <<collectorVars, socketVars>>
       \/ /\ part = "beside"
          /\ \/ RefreshStep /\ TwoReads /\ WithoutCards /\ UNCHANGED collectorVars
             \/ CollectorNext /\ UNCHANGED refreshVars
          /\ OneOfEach
          /\ UNCHANGED socketVars
       \/ part = "socket" /\ SocketNext /\ UNCHANGED <<vars, collectorVars, refreshVars>>
    /\ UNCHANGED part

PartSpec == PartInit /\ [][PartNext]_<<serviceVars, part>>

Interchangeable == Permutations(Workers \ Daemons) \cup Permutations(Refreshers)
=============================================================================
