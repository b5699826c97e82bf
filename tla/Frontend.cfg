SPECIFICATION Spec
\* A terminal was not opened, or the window closed and the child ended.
CHECK_DEADLOCK FALSE
CONSTANTS
    NULL = NULL
    Output = {"a", "L2", "L3", "bad"}
    _BUFSIZE = 4
    Delay = 2
    MaxWritten = 3
INVARIANTS
    TextInOrder
    RestoredOnce
    HeldWhileOpen
    EofMeansAll
PROPERTIES
    ExitSeen
    UpdateDrawn
