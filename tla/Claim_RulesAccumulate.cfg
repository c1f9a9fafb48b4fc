CONSTANTS
    full = full
    null = null
    k1 = k1
    Plans <- MultiRun
    Modes = {full, null}
    Null = null
    Keys = {k1}
    NCases = 2
    NSamples = 2
    RuleThreshold = 2
    MinObs = 1
    MaxObs = 1
    MaxRepairs = 2
    MaxLaunches = 2
SPECIFICATION Spec
PROPERTIES RulesAccumulate
CHECK_DEADLOCK FALSE
