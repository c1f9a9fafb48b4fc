CONSTANTS
    Plants <- AllPlants
    RuleBooks <- AllRules
    Bubble <- Water
    MaxSteps = 2
    MaxRepairs = 1
    None = None
SPECIFICATION Spec
INVARIANT DescribedKept
CHECK_DEADLOCK FALSE
