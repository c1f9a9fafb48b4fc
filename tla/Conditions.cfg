CONSTANTS
    Plants <- AllPlants
    RuleBooks <- AllRules
    Bubble <- Water
    MaxSteps = 2
    MaxRepairs = 1
    None = None
SPECIFICATION Spec
INVARIANT TypeOK
INVARIANT ProvenanceTruthful
INVARIANT PassSettles
CHECK_DEADLOCK FALSE
