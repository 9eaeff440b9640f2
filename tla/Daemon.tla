-------------------------------- MODULE Daemon --------------------------------
(***************************************************************************)
(* What the daemon and its clients do beside the collecting: a consumer    *)
(* follows the change feed while others write, the refreshes of the Local  *)
(* API take turns, the executable is installed and removed, the threads of *)
(* a listener, the gateway's or the Local API's, serve their connections,  *)
(* and a child process is called.                                          *)
(***************************************************************************)
EXTENDS LedgerReader, RefreshCoordinator, ManagedCollector, GatewayListener, LocalListener,
    BoundedProcess

VARIABLE listener  \* whose threads they are

listenerVars == <<threadVars, watchVars, timer, listener>>
daemonVars   == <<allVars, refreshVars, installVars, listenerVars, callVars>>

\* The Local API's listener has no watchdog.
ListenerInit ==
    /\ ThreadsInit /\ LocalInit
    /\ \/ listener = "gateway" /\ WatchInit
       \/ listener = "local" /\ watchdog = [at |-> "ended"] /\ expired = {}

ListenerNext ==
    /\ \/ listener = "gateway" /\ GatewayListenerNext /\ UNCHANGED timer
       \/ listener = "local" /\ LocalListenerNext /\ UNCHANGED watchVars
    /\ UNCHANGED listener

DaemonInit == Init /\ ReaderInit /\ RefreshInit /\ InstallInit /\ ListenerInit /\ CallInit

DaemonNext ==
    \/ ReaderNext /\ UNCHANGED <<refreshVars, installVars, listenerVars, callVars>>
    \/ RefreshNext /\ UNCHANGED <<allVars, installVars, listenerVars, callVars>>
    \/ InstallNext /\ UNCHANGED <<allVars, refreshVars, listenerVars, callVars>>
    \/ ListenerNext /\ UNCHANGED <<allVars, refreshVars, installVars, callVars>>
    \/ CallNext /\ UNCHANGED <<allVars, refreshVars, installVars, listenerVars>>

DaemonSpec == DaemonInit /\ [][DaemonNext]_daemonVars

DaemonTypeOK ==
    /\ ReaderTypeOK /\ RefreshTypeOK /\ InstallTypeOK
    /\ ThreadsTypeOK /\ WatchTypeOK /\ TimersTypeOK /\ CallTypeOK
=============================================================================
