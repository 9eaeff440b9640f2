SPECIFICATION PartSpec
CONSTANTS
    None = None
    Calls = {c1, c2}
    AdviceKeys = {k1}
    OutcomeKeys = {k2, k3}
    Bodies = {b1}
    Outcomes = {succeeded, failed}
    MaxDecisions = 1
    Capacity = 3
    Retention = 1
    MaxTime = 1
    Pids = {p1, p2}
    FirstPid = p1
    FirstOutcomeKey = k2
    FirstOutcome = succeeded
INVARIANTS
    PluginTypeOK
    NeverTakenOver
    OneTerminalOutcome
    DecisionOutlivesAnswer
PROPERTIES
    PromisesKept
    EveryCallAnswered
