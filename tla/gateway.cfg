SPECIFICATION PartSpec
CONSTANTS
    None = None
    Keys = {1, 2, 3}
    small = small
    large = large
    Responses = {small, large}
    Weight <- Sizes
    Chain <- Conversation
    Cap = 6
    Ttl = 2
    HotEntries = 2
    HotBytes = 2
    MaxPending = 1
    MaxTime = 2
    Callers = {c1, c2}
    NoCaller = NoCaller
    MaxSequence = 4
    Chunks <- Pieces
    HasSelector = TRUE
    Nobody = Nobody
    Requests = {r1, r2}
    Queries = {q1}
    Clears = {x1}
    Handles = {h1, h2}
    FirstRequest = r1
    FirstHandle = h1
    Window = 1
    MaxWindow = 2
    RetainedFor = 2
    MaxClock = 3
    Accounts = {a1, a2}
    Aliases = {n1}
    Secrets = {s1, s2}
    Pools = {p1}
    Absent = Absent
    MaxRevision = 2
    Writers = {w1}
    Connections = {plan, plain}
    StepPlans = {plan}
    Configs = {g1}
    Credentials = {k1, k2}
    Nothing = Nothing
    Threshold = 2
    Reset = 2
    LastTick = 5
    Unset = Unset
INVARIANTS
    GatewayTypeOK
    MemoryMatchesTable
    OneAnswer
    KeptAsTaken
    CredentialsAgree
    PoolsReferenceAccounts
    ConnectionsAsPromised
PROPERTIES
    EvictsLeastRecent
    ServesWhatIsStored
    RateCountsAll
    ProbesAreSpaced
CHECK_DEADLOCK FALSE
