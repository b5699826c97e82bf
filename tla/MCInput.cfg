SPECIFICATION InputSpec
\* The user and the child have done what the bounds let them do.
CHECK_DEADLOCK FALSE
CONSTANTS
    Keys <- MCKeys
    Chars <- MCChars
    Unencodable <- MCUnencodable
    MaxStray = 1
    Pastes <- MCPastes
    Commands <- MCCommands
    Modifiers <- MCModifiers
    Capacity = 3
    MaxCommands = 3
    MaxEvents = 2
    MaxSteps = 4
CONSTRAINT
    Bound
INVARIANTS
    ArrivesInOrder
    KeysFollowModes
    PasteApart
PROPERTIES
    NeverHangs
