CONSTANTS
    p1 = p1
    p2 = p2
    p3 = p3
    NRTL = NRTL
    PR = PR
    NoPkg = NoPkg
    None = None
    MaxIters = {1, 3}
    BeamMaxIter = 2
    Packages = {NRTL}
    ActivityPackages = {NRTL}
    Params = {p1, p2}
    SentParams <- AllSent
    Defects = {"vessel", "cycle", "other"}
    VariantBModes = {FALSE, TRUE}
SPECIFICATION FairSpec
INVARIANTS TypeOK ResultCoherent FlowsheetOfGraph
PROPERTIES Termination
