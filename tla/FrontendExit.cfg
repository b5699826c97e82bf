SPECIFICATION Spec
CHECK_DEADLOCK FALSE
CONSTANTS
    NULL = NULL
    Output = {"a", "L2"}
    _BUFSIZE = 4
    Delay = 1
    MaxWritten = 2
INVARIANT ToldOnlyAtExit
