SPECIFICATION Spec
CONSTANTS
    None = None
    Place <- SortOrder
    MaxChanges = 5
    Providers = {p1}
    UsageSources = {}
    CostSources = {}
    CurrentSources = {}
    CardSource = card
    CatalogSource = None
    Faults = {failed}
    MaxTime = 3
    Freshness = 1
    Models = {}
    CostKinds = {}
    Values = {}
    Contracts = {}
    MaxDay = 1
    Families = {}
    InstanceValues = {}
    Balances = {}
    Quotas = {}
    CurrentValues = {}
    MaxObservation = 0
    Heartbeat = 1
    MaxSnapshots = 0
SYMMETRY Symmetric
INVARIANTS
    WritesAreAccepted
CHECK_DEADLOCK FALSE
