CONSTANTS
    Plants <- AllPlants
    RuleBooks <- AllRules
    Bubble <- Water
    MaxSteps = 2
    MaxRepairs = 1
    None = None
SPECIFICATION Spec
INVARIANT SeededSurvive
CHECK_DEADLOCK FALSE
