------------------------------- MODULE MCCalls -------------------------------
(* What a chunk of an upstream holds in the runs of the gateway's calls.   *)
EXTENDS GatewayStream

Pieces == {<<>>, <<"text">>, <<"tool">>, <<"text", "text">>, <<"text", "tool">>}
=============================================================================
