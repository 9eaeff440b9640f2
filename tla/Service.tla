------------------------------- MODULE Service -------------------------------
(***************************************************************************)
(* The background service: its refreshes of the history and of the current *)
(* facts work on one ledger, beside those of the command line and of the   *)
(* menu bar app and beside everybody else who writes, and the Local API is *)
(* served under the name of a socket.                                      *)
(***************************************************************************)
EXTENDS Collector, CurrentCollector, SocketPath

serviceVars == <<vars, collectorVars, refreshVars, socketVars>>

(* A balance or a quota is no usage and no bill (its source_id).           *)
ASSUME ServiceAssumption == Source \notin {Official, OpenUsage, Billing}

ServiceInit == Init /\ CollectorInit /\ CurrentCollectorInit /\ SocketInit

(* Whoever else writes, the catalog monitor and the collectors of other    *)
(* providers, leaves alone what the refreshes own: the history, and the    *)
(* health of the official importers.                                       *)
HistoryRows == <<dailyVars, [provider \in Providers |-> sourceStatus[<<provider, Official>>]]>>

Bystanders == Others /\ UNCHANGED HistoryRows

ServiceNext ==
    \/ CollectorNext /\ UNCHANGED <<refreshVars, socketVars>>
    \/ RefreshStep /\ UNCHANGED <<collectorVars, socketVars>>
    \/ Bystanders /\ UNCHANGED <<collectorVars, socketVars>>
    \/ SocketNext /\ UNCHANGED <<vars, collectorVars, refreshVars>>

ServiceSpec == ServiceInit /\ [][ServiceNext]_serviceVars

ServiceTypeOK == CollectorTypeOK /\ CurrentCollectorTypeOK /\ SocketTypeOK
=============================================================================
