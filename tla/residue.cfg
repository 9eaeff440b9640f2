SPECIFICATION PluginSpec
CONSTANTS
    None = None
    Calls = {c1, c2}
    AdviceKeys = {k1}
    OutcomeKeys = {k2}
    Bodies = {b1}
    Outcomes = {succeeded}
    MaxDecisions = 1
    Capacity = 2
    Retention = 1
    MaxTime = 1
    Pids = {p1, p2}
PROPERTY RestartResolvesResidue
