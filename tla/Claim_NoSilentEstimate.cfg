CONSTANTS
    Flowsheets <- Sheets
    MaxRuns = 2
    None = None
SPECIFICATION FairSpec
INVARIANT NoSilentEstimate
CHECK_DEADLOCK FALSE
