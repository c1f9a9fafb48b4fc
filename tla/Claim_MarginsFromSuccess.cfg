CONSTANTS
    full = full
    null = null
    k1 = k1
    Plans <- AllPlans
    Modes = {full, null}
    Null = null
    Keys = {k1}
    NCases = 2
    NSamples = 2
    RuleThreshold = 2
    MinObs = 1
    MaxObs = 1
    MaxRepairs = 2
    MaxLaunches = 2
SPECIFICATION Spec
CHECK_DEADLOCK FALSE
INVARIANTS MarginsFromSuccess
