CONSTANTS
    Sheets <- AllSheets
    Drivers = {"v2", "graph"}
    MaxTries = 3
    MaxRepairs = 1
    None = None
SPECIFICATION Spec
CHECK_DEADLOCK FALSE
INVARIANT NormaliseIsNoop
