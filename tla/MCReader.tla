------------------------------ MODULE MCReader ------------------------------
(***************************************************************************)
(* The run of the daemon, in parts that a behaviour never leaves: a        *)
(* consumer of the change feed, the refreshes of the Local API, the        *)
(* installation of the executable, the connections of the gateway's and of *)
(* the Local API's listeners, and a call of a child process.               *)
(***************************************************************************)
EXTENDS Daemon, MCRecords

VARIABLE part

PartInit ==
    /\ DaemonInit
    /\ part \in {"feed", "refresh", "install", "listener", "call"}
    /\ part # "listener" => listener = "local"

PartNext ==
    /\ \/ /\ part = "feed" /\ ReaderNext
          /\ UNCHANGED <<refreshVars, installVars, listenerVars, callVars>>
       \/ /\ part = "refresh" /\ RefreshNext
          /\ UNCHANGED <<allVars, installVars, listenerVars, callVars>>
       \/ /\ part = "install" /\ InstallNext
          /\ UNCHANGED <<allVars, refreshVars, listenerVars, callVars>>
       \/ /\ part = "listener" /\ ListenerNext
          /\ UNCHANGED <<allVars, refreshVars, installVars, callVars>>
       \/ /\ part = "call" /\ CallNext
          /\ UNCHANGED <<allVars, refreshVars, installVars, listenerVars>>
    /\ UNCHANGED part

PartSpec ==
    /\ PartInit /\ [][PartNext]_<<daemonVars, part>>
    /\ ReaderFairness /\ RefreshFairness
    /\ GatewayListenerFairness /\ LocalListenerFairness /\ CallFairness
=============================================================================
