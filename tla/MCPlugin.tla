------------------------------ MODULE MCPlugin ------------------------------
(***************************************************************************)
(* One run in two parts, which a behaviour never leaves: services that     *)
(* start, die and reuse process identifiers with one key per route; and    *)
(* one service and instant with two keys for outcomes that disagree.        *)
(***************************************************************************)
EXTENDS PluginStore

CONSTANTS FirstPid, FirstOutcomeKey, FirstOutcome

VARIABLE part

PartInit == PluginInit /\ part \in {"restarts", "outcomes"}

Restricted ==
    IF part = "restarts"
    THEN \A c \in Calls : call'[c].key \in OutcomeKeys =>
            /\ call'[c].key = FirstOutcomeKey
            /\ call'[c].payload.outcome = FirstOutcome
    ELSE serving \subseteq serving' /\ alive' \subseteq {FirstPid} /\ now' = 0

PartNext == PluginNext /\ Restricted /\ UNCHANGED part

PartSpec == PartInit /\ [][PartNext]_<<pluginVars, part>> /\ PluginFairness
=============================================================================
