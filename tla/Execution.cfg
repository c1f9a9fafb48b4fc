CONSTANTS
    Flowsheets <- Sheets
    MaxRuns = 2
    None = None
SPECIFICATION FairSpec
INVARIANT TypeOK
INVARIANT OwnAnswer
INVARIANT SolvedOnlyComplete
INVARIANT AtMostTwoTimeouts
PROPERTY Answered
CHECK_DEADLOCK FALSE
