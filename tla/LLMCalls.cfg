CONSTANTS
    Models <- ModelNames
    Sessions <- SessionModels
    MaxCalls = 2
    None = None
SPECIFICATION FairCallSpec
INVARIANT CallTypeOK
INVARIANT OwnReply
INVARIANT RetriesWithinBudget
PROPERTY BoundedCall
CHECK_DEADLOCK FALSE
