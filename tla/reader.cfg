SPECIFICATION PartSpec
CONSTANTS
    None = None
    Place <- SortOrder
    MaxChanges = 4
    Providers = {p1}
    UsageSources = {official}
    CostSources = {}
    CurrentSources = {}
    CardSource = None
    CatalogSource = None
    Faults = {failed}
    MaxTime = 1
    Freshness = 1
    Models = {m1}
    CostKinds = {}
    Values = {v1}
    Contracts = {1}
    MaxDay = 1
    Families = {f1}
    InstanceValues = {i1}
    Balances = {}
    Quotas = {}
    CurrentValues = {}
    MaxObservation = 0
    Heartbeat = 1
    MaxSnapshots = 0
    Limits = {1, 2}
    MaxCrashes = 1
    Versions = {old, new}
    Nowhere = Nowhere
    Clients = {c1, c2, c3}
    MaxThreads = 2
    Deadline = 1
    MaxNow = 2
    Never = Never
    Leader = p0
    Helpers = {h1}
    Streams = {out}
    Stdin = in
    Limit = 1
    MaxOutput = 2
INVARIANTS
    DaemonTypeOK
    NothingSkipped
    ExecutableSurvives
    CallIsBounded
PROPERTIES
    EveryChangeIsRead
    ScheduledRefreshRuns
    CallEnds
    ListenerKeepsContract
CHECK_DEADLOCK FALSE
