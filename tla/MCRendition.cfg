SPECIFICATION Spec
CONSTANTS
    TE_COLOR_MODE = 16
    ParamValues <- MCParamValues
    MaxParams = 4
    Requests <- MCRequests
    Letter = x
    Line = line
    NULL = NULL
INVARIANTS
    ColoursInPalette
    LastWins
PROPERTIES
    SaveRestores
