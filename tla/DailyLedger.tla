---------------------------- MODULE DailyLedger -----------------------------
(***************************************************************************)
(* The daily facts of the ledger: usage and costs by day, their coverage   *)
(* markers ("this day was observed, what is missing is zero"), the token   *)
(* convention sidecar, and the fenced imports that replace whole days.     *)
(***************************************************************************)
EXTENDS SourceHealth

CONSTANTS
    Models,      \* model_id
    CostKinds,   \* (cost_kind, currency)
    Values,      \* what two rows of the same key may differ in
    Contracts,   \* contract revisions an official importer may declare
    MaxDay       \* bound on days

VARIABLES
    usage,         \* daily_model_usage       [UsageKeys -> row or None]
    convention,    \* daily_token_conventions [UsageKeys -> bound payload or None]
    coverage,      \* daily_coverage          [DayKeys -> row or None]
    cost,          \* daily_costs             [CostKeys -> row or None]
    costCoverage,  \* daily_cost_coverage     [DayKeys -> row or None]
    contract       \* ledger_meta source_contract:* [StatusKeys -> revision or None]

usageVars == <<usage, convention, coverage, contract>>
costVars  == <<cost, costCoverage>>
dailyVars == <<usageVars, costVars>>

ASSUME DayAssumption == MaxDay \in Nat

Days      == 1..MaxDay
DayKeys   == Providers \X Days
UsageKeys == Providers \X Days \X Models
CostKeys  == Providers \X Days \X CostKinds

UsageId(key)        == RecordId("daily_usage", key)
CoverageId(key)     == RecordId("daily_coverage", key)
CostId(key)         == RecordId("daily_cost", key)
CostCoverageId(key) == RecordId("daily_cost_coverage", key)

DayOf(key) == <<key[1], key[2]>>

(* _daily_payload and _cost_payload leave out the importer's own clock     *)
(* (imported_at of a row); usage names its source, so the same numbers     *)
(* from another source are another payload.  A marker keeps the attempt    *)
(* time of the import that set it.                                         *)
UsagePayloads == [source : UsageSources, value : Values]

(* A marker says no more of a day than its key. *)
Covered == [covered : {TRUE}]

UsageRows    == [payload : UsagePayloads, revision : Nat \ {0}]
CoverageRows == [payload : [source : UsageSources], importedAt : Times]
CostRows     == [payload : Values, revision : Nat \ {0}]
CostCoverageRows == [payload : Covered, importedAt : Times]

DailyTypeOK ==
    /\ usage \in [UsageKeys -> UsageRows \cup {None}]
    /\ convention \in [UsageKeys -> UsagePayloads \cup {None}]
    /\ coverage \in [DayKeys -> CoverageRows \cup {None}]
    /\ cost \in [CostKeys -> CostRows \cup {None}]
    /\ costCoverage \in [DayKeys -> CostCoverageRows \cup {None}]
    /\ contract \in [StatusKeys -> Contracts \cup {None}]

DailyInit ==
    /\ usage = [key \in UsageKeys |-> None]
    /\ convention = [key \in UsageKeys |-> None]
    /\ coverage = [key \in DayKeys |-> None]
    /\ cost = [key \in CostKeys |-> None]
    /\ costCoverage = [key \in DayKeys |-> None]
    /\ contract = [key \in StatusKeys |-> None]

-----------------------------------------------------------------------------
(* _replace_daily_usage_locked over the days since..until of one provider. *)
(* rows : [UsageKeys in range -> Values \cup {None}] is the whole new      *)
(* content of the range.                                                   *)

InRange(keys, provider, range) ==
    {key \in keys : key[1] = provider /\ key[2] \in range}

(* Mutant: rows missing from the import survive it. *)
NoDeletedUsage(rows) == {}

DeletedUsage(rows) == {key \in DOMAIN rows : usage[key] # None /\ rows[key] = None}

UsagePayload(source, value) == [source |-> source, value |-> value]

(* A row is skipped only when its payload and its convention both match.   *)
WrittenUsage(rows, source) ==
    {key \in DOMAIN rows :
        /\ rows[key] # None
        /\ ~ /\ usage[key] # None
             /\ usage[key].payload = UsagePayload(source, rows[key])
             /\ convention[key] = UsagePayload(source, rows[key])}

(* Days whose marker is new or changes hands. *)
MarkedDays(keys, source) ==
    {key \in keys : coverage[key] = None \/ coverage[key].payload.source # source}

UsageChanges(rows, keys, source) ==
    {Change(UsageId(key), NextRevision(UsageId(key)), "delete", None) :
        key \in DeletedUsage(rows)}
    \cup
    {Change(UsageId(key), NextRevision(UsageId(key)),
            IF usage[key] = None THEN "insert" ELSE "update",
            UsagePayload(source, rows[key])) :
        key \in WrittenUsage(rows, source)}
    \cup
    {Change(CoverageId(key), NextRevision(CoverageId(key)),
            IF coverage[key] = None THEN "insert" ELSE "update",
            [source |-> source]) :
        key \in MarkedDays(keys, source)}

(* Mutant: the revision counts from the row, not from the log. *)
UsageAfterByRow(rows, source) ==
    [key \in UsageKeys |->
        IF key \in DeletedUsage(rows) THEN None
        ELSE IF key \in WrittenUsage(rows, source)
             THEN [payload  |-> UsagePayload(source, rows[key]),
                   revision |-> IF usage[key] = None THEN 1
                                ELSE usage[key].revision + 1]
        ELSE usage[key]]

UsageAfter(rows, source) ==
    [key \in UsageKeys |->
        IF key \in DeletedUsage(rows) THEN None
        ELSE IF key \in WrittenUsage(rows, source)
             THEN [payload  |-> UsagePayload(source, rows[key]),
                   revision |-> NextRevision(UsageId(key))]
        ELSE usage[key]]

(* Mutant: the sidecar binds the numbers without their source. *)
ConventionUnbound(rows, source) ==
    [key \in UsageKeys |->
        IF key \in DeletedUsage(rows) THEN None
        ELSE IF key \in WrittenUsage(rows, source) THEN rows[key]
        ELSE convention[key]]

ConventionAfter(rows, source) ==
    [key \in UsageKeys |->
        IF key \in DeletedUsage(rows) THEN None
        ELSE IF key \in WrittenUsage(rows, source) THEN UsagePayload(source, rows[key])
        ELSE convention[key]]

CoverageAfter(keys, source, t) ==
    [key \in DayKeys |->
        IF key \in keys
        THEN [payload |-> [source |-> source], importedAt |-> t]
        ELSE coverage[key]]

(* Day by day: deletes, then writes, then the day's marker; the status of  *)
(* the source comes last.                                                  *)
ImportPosition(c) ==
    IF c.record[1] = "source_status" THEN 3 * (MaxDay + 1)
    ELSE 3 * c.record[2][2] +
           (IF c.record[1] \in {"daily_coverage", "daily_cost_coverage"} THEN 2
            ELSE IF c.operation = "delete" THEN 0 ELSE 1)

InImportOrder(changes) == [c \in changes |-> ImportPosition(c)]

(* commit_usage_import_success: refused (returns False) behind a newer     *)
(* attempt of the same source, otherwise one transaction for the days, the *)
(* status and the contract revision.                                       *)
CommitUsageImport(provider, source, range, rows, t, revision) ==
    LET status  == <<provider, source>>
        keys    == InRange(DayKeys, provider, range)
        facts   == AfterSuccess(status, t, None)
        changes == UsageChanges(rows, keys, source) \cup StatusChanges(status, facts)
    IN  IF HasNewerAttempt(status, t)
        THEN NothingPublished /\ UNCHANGED <<usageVars, sourceStatus>>
        ELSE /\ Commit(changes, InImportOrder(changes))
             /\ usage' = Committed(UsageAfter(rows, source), usage)
             /\ convention' = Committed(ConventionAfter(rows, source), convention)
             /\ coverage' = Committed(CoverageAfter(keys, source, t), coverage)
             /\ sourceStatus' = Committed(WithStatus(status, facts), sourceStatus)
             /\ contract' =
                   Committed(IF revision = None THEN contract
                             ELSE [contract EXCEPT ![status] = revision],
                             contract)

-----------------------------------------------------------------------------
(* The same for costs: no source in the payload, no sidecar, and a marker  *)
(* is published once.                                                      *)

DeletedCosts(rows) == {key \in DOMAIN rows : cost[key] # None /\ rows[key] = None}

WrittenCosts(rows) ==
    {key \in DOMAIN rows :
        /\ rows[key] # None
        /\ ~(cost[key] # None /\ cost[key].payload = rows[key])}

(* Mutant: a marker is published only for a day with costs. *)
CostChangesOfCostlyDays(rows, keys) ==
    {Change(CostId(key), NextRevision(CostId(key)), "delete", None) :
        key \in DeletedCosts(rows)}
    \cup
    {Change(CostId(key), NextRevision(CostId(key)),
            IF cost[key] = None THEN "insert" ELSE "update", rows[key]) :
        key \in WrittenCosts(rows)}
    \cup
    {Change(CostCoverageId(key), NextRevision(CostCoverageId(key)), "insert",
            [covered |-> TRUE]) :
        key \in {DayOf(k) : k \in WrittenCosts(rows)}
                   \cap {k \in keys : costCoverage[k] = None}}

CostChanges(rows, keys) ==
    {Change(CostId(key), NextRevision(CostId(key)), "delete", None) :
        key \in DeletedCosts(rows)}
    \cup
    {Change(CostId(key), NextRevision(CostId(key)),
            IF cost[key] = None THEN "insert" ELSE "update", rows[key]) :
        key \in WrittenCosts(rows)}
    \cup
    {Change(CostCoverageId(key), NextRevision(CostCoverageId(key)), "insert",
            [covered |-> TRUE]) :
        key \in {k \in keys : costCoverage[k] = None}}

CostAfter(rows) ==
    [key \in CostKeys |->
        IF key \in DeletedCosts(rows) THEN None
        ELSE IF key \in WrittenCosts(rows)
             THEN [payload |-> rows[key], revision |-> NextRevision(CostId(key))]
        ELSE cost[key]]

(* Mutant: UPDATE in place of INSERT ... ON CONFLICT. *)
CostCoverageUpdated(keys, t) ==
    [key \in DayKeys |->
        IF key \in keys /\ costCoverage[key] # None
        THEN [payload |-> [covered |-> TRUE], importedAt |-> t]
        ELSE costCoverage[key]]

CostCoverageAfter(keys, t) ==
    [key \in DayKeys |->
        IF key \in keys THEN [payload |-> [covered |-> TRUE], importedAt |-> t]
        ELSE costCoverage[key]]

CommitCostImport(provider, source, range, rows, t) ==
    LET status  == <<provider, source>>
        keys    == InRange(DayKeys, provider, range)
        facts   == AfterSuccess(status, t, None)
        changes == CostChanges(rows, keys) \cup StatusChanges(status, facts)
    IN  IF HasNewerAttempt(status, t)
        THEN NothingPublished /\ UNCHANGED <<costVars, sourceStatus>>
        ELSE /\ Commit(changes, InImportOrder(changes))
             /\ cost' = Committed(CostAfter(rows), cost)
             /\ costCoverage' = Committed(CostCoverageAfter(keys, t), costCoverage)
             /\ sourceStatus' = Committed(WithStatus(status, facts), sourceStatus)

-----------------------------------------------------------------------------
Ranges == {since..until : since \in Days, until \in Days} \ {{}}

UsageImports ==
    \E provider \in Providers, source \in UsageSources, range \in Ranges,
       t \in Times, revision \in Contracts \cup {None} :
       \E rows \in [InRange(UsageKeys, provider, range) -> Values \cup {None}] :
          CommitUsageImport(provider, source, range, rows, t, revision)

CostImports ==
    \E provider \in Providers, source \in CostSources, range \in Ranges,
       t \in Times :
       \E rows \in [InRange(CostKeys, provider, range) -> Values \cup {None}] :
          CommitCostImport(provider, source, range, rows, t)

DailyNext ==
    /\ CanWrite
    /\ \/ UsageImports /\ UNCHANGED costVars
       \/ CostImports /\ UNCHANGED usageVars

=============================================================================
