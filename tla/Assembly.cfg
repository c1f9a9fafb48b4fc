CONSTANTS
    Sheets <- AllSheets
    Drivers = {"v2", "graph"}
    MaxTries = 3
    MaxRepairs = 1
    None = None
SPECIFICATION Spec
INVARIANT TypeOK
INVARIANT RecycleKept
INVARIANT FlowsheetSound
INVARIANT NamesApart
PROPERTY NormaliseSettles
CHECK_DEADLOCK FALSE
