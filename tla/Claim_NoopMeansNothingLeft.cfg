CONSTANTS
    cooler = cooler
    pump = pump
    T = T
    P = P
    Units = {cooler, pump}
    Params = {T, P}
    Values = {1, 2}
    Targets <- ThreeTargets
    Rounded <- AllRound
    Offers <- All
    ErrorSets <- PumpErrors
    FailedSets <- NoneFailed
    Faulty <- ColdCooler
    Coupled <- CoolerPump
    Settles <- PressureResetsCooler
    Tunings <- TunedToTwo
    Starts <- AllOne
    UseLlm = FALSE
    MaxHistory = 2
    Width = 3
    Depth = 2
    MaxRepairs = 2
SPECIFICATION Spec
PROPERTIES NoopMeansNothingLeft
CHECK_DEADLOCK FALSE
