CONSTANTS
    p1 = p1
    p2 = p2
    NRTL = NRTL
    PR = PR
    NoPkg = NoPkg
    None = None
    MaxIters = {0, 1, 5}
    BeamMaxIter = 3
    Packages = {NRTL, PR}
    ActivityPackages = {NRTL}
    Params = {p1, p2}
    SentParams <- SomeHidden
    Defects = {"vessel"}
    VariantBModes = {FALSE}
    RecursionLimit = 14
SPECIFICATION RunSpec
INVARIANTS SolveBudget StallAfterEveryPackage OwnTermination
PROPERTIES NoPackageRevisited ImplementsContract
