SPECIFICATION PartSpec
CONSTANTS
    None = None
    Place <- SortOrder
    MaxChanges = 60
    Providers = {p1}
    UsageSources = {official, openusage}
    CostSources = {billing}
    CurrentSources = {direct}
    CardSource = card
    CatalogSource = None
    Faults = {failed}
    MaxTime = 3
    Freshness = 1
    Models = {m1}
    CostKinds = {}
    Values = {v1}
    Contracts = {1, 2}
    MaxDay = 2
    Families = {f1}
    InstanceValues = {i1}
    Balances = {b1}
    Quotas = {b1, q1}
    CurrentValues = {a1}
    MaxObservation = 3
    Heartbeat = 1
    MaxSnapshots = 6
    Workers = {w1, w2}
    Daemons = {}
    Official = official
    OpenUsage = openusage
    Billing = billing
    Importers = {p1}
    Eager = {p1}
    Failed = failed
    Incremental = 2
    MaxVersion = 2
    Refreshers = {daemon, fresh}
    Provider = p1
    Source = direct
    Faulty = failed
    Record = b1
    CardRecord = q1
    Identity <- TheIdentity
    Amount = a1
    MaxTick = 3
    MaxRefusals = 1
    Servers = {s1, s2}
    Inodes = {1, 2, 3}
    NoNode = NoNode
    Replacing = TRUE
    MaxDeaths = 1
INVARIANT FailedReadsShowStale
CHECK_DEADLOCK FALSE
