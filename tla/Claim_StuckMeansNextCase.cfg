CONSTANTS
    Flowsheets <- Sheets
    MaxRuns = 2
    None = None
SPECIFICATION FairSpec
PROPERTY StuckMeansNextCase
CHECK_DEADLOCK FALSE
