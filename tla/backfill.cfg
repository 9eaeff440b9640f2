SPECIFICATION CollectorSpec
CONSTANTS
    None = None
    Place <- SortOrder
    MaxChanges = 60
    Providers = {p1}
    UsageSources = {official, openusage}
    CostSources = {billing}
    CurrentSources = {}
    CardSource = None
    CatalogSource = None
    Faults = {failed}
    MaxTime = 2
    Freshness = 1
    Models = {m1}
    CostKinds = {}
    Values = {v1}
    Contracts = {1, 2}
    MaxDay = 2
    Families = {}
    InstanceValues = {}
    Balances = {}
    Quotas = {}
    CurrentValues = {}
    MaxObservation = 0
    Heartbeat = 1
    MaxSnapshots = 0
    Workers = {daemon, cli}
    Daemons = {daemon}
    Official = official
    OpenUsage = openusage
    Billing = billing
    Importers = {p1}
    Eager = {}
    Failed = failed
    Incremental = 2
    MaxVersion = 2
INVARIANT FreshBackfills
CHECK_DEADLOCK FALSE
