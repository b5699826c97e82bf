SPECIFICATION Spec
CONSTANTS
    NULL = NULL
    Font <- MCFont
    Box <- MCBox
    SCROLLBAR_WIDTH = 2
    MinSize <- MCMinSize
    MaxSize <- MCMaxSize
    NarrowColumns = 3
    WideColumns = 4
    PageRows = 3
    Capacity = 4
    MaxOffset = 5
INVARIANTS
    SizesAgree
    CellsInside
    LimitsKept
PROPERTIES
    AskedIsGiven
    PagingSkipsNothing
