SPECIFICATION ConnectionSpec
CONSTANTS
    Writers = {w1, w2}
    Connections = {plan, plain}
    StepPlans = {plan}
    Configs = {g1}
    Credentials = {k1}
    Nothing = Nothing
PROPERTY
    EditsPreserveOthers
CHECK_DEADLOCK FALSE
