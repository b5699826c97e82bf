SPECIFICATION Spec
CONSTANTS
    Sizes <- MCSizes
    TabWidth = 2
    ParamValues <- MCParamValues
    MaxChunk = 5
    IntMax = 7
CONSTRAINT Bound
INVARIANTS
    TypeOK
    BufferCallsInBounds
    ReportRoundTrips
    ChunksCompose
PROPERTIES
    OriginConfines
    ScrollsStayInside
