SPECIFICATION Spec
CONSTANTS
    Lines = {blank, a}
    Blank = blank
    NULL = NULL
    Capacity = 2
    Heights = {2, 3}
    MaxOffset = 3
INVARIANTS
    NothingStale
    WithinHistory
    ReportCurrent
PROPERTY LockHolds
