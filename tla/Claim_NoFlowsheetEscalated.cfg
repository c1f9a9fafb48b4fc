CONSTANTS
    p1 = p1
    p2 = p2
    p3 = p3
    NRTL = NRTL
    PR = PR
    NoPkg = NoPkg
    None = None
    MaxIters = {3}
    BeamMaxIter = 2
    Packages = {NRTL, PR}
    ActivityPackages = {NRTL}
    Params = {p1, p2}
    SentParams <- AllSent
    Defects = {"vessel", "cycle"}
    VariantBModes = {FALSE}
SPECIFICATION FairSpec
INVARIANTS NoFlowsheetEscalated
