------------------------------- MODULE Gateway -------------------------------
(***************************************************************************)
(* The gateway and what is configured for it: the response cache, the      *)
(* calls of the runtime, the telemetry, the circuit of a provider, the     *)
(* commands on accounts and pools, and the mutations of the provider       *)
(* connections.  Each part has a state and a lock or a process of its own: *)
(* a step of one leaves the others alone.                                  *)
(***************************************************************************)
EXTENDS ResponseCache, GatewayStream, Telemetry, AccountCommands, ProviderConnections,
    CircuitBreaker

gatewayVars == <<cacheVars, streamVars, telemetryVars, accountVars, connectionVars, breakerVars>>

GatewayInit ==
    /\ CacheInit /\ StreamInit /\ TelemetryInit
    /\ AccountInit /\ ConnectionInit /\ BreakerInit

GatewayNext ==
    \/ /\ CacheNext
       /\ UNCHANGED <<streamVars, telemetryVars, accountVars, connectionVars, breakerVars>>
    \/ /\ StreamNext
       /\ UNCHANGED <<cacheVars, telemetryVars, accountVars, connectionVars, breakerVars>>
    \/ /\ TelemetryNext
       /\ UNCHANGED <<cacheVars, streamVars, accountVars, connectionVars, breakerVars>>
    \/ /\ AccountNext
       /\ UNCHANGED <<cacheVars, streamVars, telemetryVars, connectionVars, breakerVars>>
    \/ /\ ConnectionNext
       /\ UNCHANGED <<cacheVars, streamVars, telemetryVars, accountVars, breakerVars>>
    \/ /\ BreakerNext
       /\ UNCHANGED <<cacheVars, streamVars, telemetryVars, accountVars, connectionVars>>

GatewaySpec == GatewayInit /\ [][GatewayNext]_gatewayVars

GatewayTypeOK ==
    /\ CacheTypeOK /\ StreamTypeOK /\ TelemetryTypeOK
    /\ AccountTypeOK /\ ConnectionTypeOK /\ BreakerTypeOK
=============================================================================
