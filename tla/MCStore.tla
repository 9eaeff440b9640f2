------------------------------ MODULE MCStore ------------------------------
EXTENDS MCLedger

(* The run of the store explores its groups of tables one at a time, each  *)
(* with retention: no operation writes two groups.                         *)
VARIABLE part

PartInit == Init /\ part \in {"usage", "costs", "current", "status"}

(* Two attempts show what the usage alone shows, and how they fail does    *)
(* not matter to it.                                                       *)
TwoAttempts ==
    \A key \in StatusKeys :
        sourceStatus'[key] # None =>
            /\ sourceStatus'[key].payload.lastAttempt < MaxTime
            /\ sourceStatus'[key].payload.state \notin Faults

StatusOnlyOf(sources) ==
    \A key \in StatusKeys :
        key[2] \notin sources => sourceStatus'[key] = sourceStatus[key]

PartNext ==
    /\ \/ /\ part = "usage"
          /\ \/ CanWrite /\ UsageImports /\ TwoAttempts /\ UNCHANGED <<costVars, currentVars>>
             \/ /\ StatusNext /\ StatusOnlyOf(UsageSources) /\ TwoAttempts
                /\ UNCHANGED <<dailyVars, currentVars>>
       \/ /\ part = "costs" /\ CanWrite
          /\ CostImports /\ UNCHANGED <<usageVars, currentVars>>
       \/ part = "current" /\ CurrentNext /\ UNCHANGED <<sourceStatus, dailyVars>>
       \/ /\ part = "status"
          /\ StatusNext /\ StatusOnlyOf({CardSource, CatalogSource})
          /\ UNCHANGED <<dailyVars, currentVars>>
       \/ Retention
    /\ UNCHANGED part

PartSpec == PartInit /\ [][PartNext]_<<vars, part>>

=============================================================================
