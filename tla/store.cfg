SPECIFICATION PartSpec
CONSTANTS
    None = None
    Place <- SortOrder
    MaxChanges = 5
    Providers = {p1}
    UsageSources = {official, openusage}
    CostSources = {billing}
    CurrentSources = {direct}
    CardSource = direct
    CatalogSource = detect
    Faults = {failed}
    MaxTime = 3
    Freshness = 1
    Models = {m1}
    CostKinds = {usd, eur}
    Values = {v1, v2}
    Contracts = {}
    MaxDay = 2
    Families = {f1, f2}
    InstanceValues = {i1}
    Balances = {b1}
    Quotas = {q1}
    CurrentValues = {w1, w2}
    MaxObservation = 3
    Heartbeat = 2
    MaxSnapshots = 3
SYMMETRY Symmetric
INVARIANTS
    TypeOK
    RowsUnderCoverage
    CoverageBacked
    LogReplaysTables
    RowsCarryLatestRevision
    CostsUnderCoverage
    HistoryKeepsUp
    DeadlineBacked
PROPERTIES
    NoOlderImport
    NothingMovesBack
CHECK_DEADLOCK FALSE
