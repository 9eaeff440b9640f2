------------------------------ MODULE MCGateway ------------------------------
(***************************************************************************)
(* The run of the gateway, in six parts that a behaviour never leaves:     *)
(* the cache with three requests of one conversation, of which the second  *)
(* and third continue the first and share their prefixes; the calls of the *)
(* runtime; the telemetry; the circuit of a provider; the commands on      *)
(* accounts; and the mutations of provider connections, which have the     *)
(* same two places to keep equal.                                          *)
(***************************************************************************)
EXTENDS Gateway, MCCalls

CONSTANTS small, large, FirstRequest, FirstHandle

Conversation == 1 :> <<"a">> @@ 2 :> <<"a", "b">> @@ 3 :> <<"a", "b">>

Sizes == small :> 1 @@ large :> 2

VARIABLE part

PartInit ==
    /\ GatewayInit
    /\ part \in {"cache", "calls", "telemetry", "breaker", "accounts", "connections"}
    /\ part # "calls" => cacheOpen

\* A second call begins only once the answer of the first is stored: calls
\* meet nowhere but in the cache.
OneAfterAnother ==
    \A c \in Callers : call[c].at = "idle" /\ call'[c].at # "idle" =>
        entry # NoCaller \/ \A other \in Callers : call[other].at = "idle"

\* Requests and handles are interchangeable: one of each comes first.
FirstComesFirst ==
    \A r \in Requests : request'[r].at = "finished" =>
        /\ r = FirstRequest => request'[r].handle = FirstHandle
        /\ r # FirstRequest => request[FirstRequest].at # "running"

PartNext ==
    /\ \/ /\ part = "cache" /\ CacheNext
          /\ UNCHANGED <<streamVars, telemetryVars, accountVars, connectionVars, breakerVars>>
       \/ /\ part = "calls" /\ StreamNext /\ OneAfterAnother
          /\ UNCHANGED <<cacheVars, telemetryVars, accountVars, connectionVars, breakerVars>>
       \/ /\ part = "telemetry" /\ TelemetryNext /\ FirstComesFirst
          /\ UNCHANGED <<cacheVars, streamVars, accountVars, connectionVars, breakerVars>>
       \/ /\ part = "accounts" /\ AccountNext
          /\ UNCHANGED <<cacheVars, streamVars, telemetryVars, connectionVars, breakerVars>>
       \/ /\ part = "connections" /\ ConnectionNext
          /\ UNCHANGED <<cacheVars, streamVars, telemetryVars, accountVars, breakerVars>>
       \/ /\ part = "breaker" /\ BreakerNext
          /\ UNCHANGED <<cacheVars, streamVars, telemetryVars, accountVars, connectionVars>>
    /\ UNCHANGED part

PartSpec == PartInit /\ [][PartNext]_<<gatewayVars, part>>
=============================================================================
