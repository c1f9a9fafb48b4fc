CONSTANTS
    Plants <- Miswritten
    RuleBooks <- AllRules
    Bubble <- Water
    MaxSteps = 2
    MaxRepairs = 1
    None = None
SPECIFICATION Spec
INVARIANT InvalidNeverSolved
CHECK_DEADLOCK FALSE
