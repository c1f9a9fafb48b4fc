CONSTANTS
    Models <- ModelNames
    Sessions <- SessionModels
    MaxCalls = 1
    None = None
SPECIFICATION CallSpec
INVARIANT EmptyOnlyWhenExhausted
CHECK_DEADLOCK FALSE
