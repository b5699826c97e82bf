SPECIFICATION Spec
CONSTANTS
    CodePoints <- MCCodePoints
    NULL = NULL
    IntMax = 127
    Chunks <- MCChunks
    MaxHeld = 3
INVARIANTS
    OscOwned
    SequenceParams
PROPERTIES
    TerminatorRecovers
    InputConsumed
