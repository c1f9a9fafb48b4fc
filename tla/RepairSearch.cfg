CONSTANTS
    cooler = cooler
    pump = pump
    T = T
    P = P
    Units = {cooler, pump}
    Params = {T, P}
    Values = {1, 2}
    Targets <- ThreeTargets
    Rounded <- TwoRoundsDown
    Offers <- OneOrNone
    ErrorSets <- NoneOneOrAll
    FailedSets <- NoneOrPumpFailed
    Faulty <- ColdCooler
    Coupled <- CoolerPump
    Settles <- PressureResetsCooler
    Tunings <- TunedToTwo
    Starts <- AllOne
    UseLlm = TRUE
    MaxHistory = 1
    Width = 1
    Depth = 2
    MaxRepairs = 3
SPECIFICATION Spec
INVARIANTS TypeOK RetriedOnlyWhenForgotten OneAttemptPerRepair AlwaysExploring
PROPERTIES SilentOnlyWhenExhausted
CHECK_DEADLOCK FALSE
