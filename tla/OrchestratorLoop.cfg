CONSTANTS
    None = None
    MaxIters = {0, 1, 4}
    BeamMaxIter = 3
SPECIFICATION Spec
INVARIANTS TypeOK VerdictCoherent ScoredBlind
PROPERTY ImplementsContract
