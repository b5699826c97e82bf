\* 1000 leaves 296 of 2^32 over: 3 leaves 1 of 16 and 6 leaves 4.
SPECIFICATION Spec
CONSTANTS
    Lines = {l1, l2}
    Blank = blank
    NULL = NULL
    Capacities = {0, 3, 6}
    Modulus = 16
INVARIANTS
    Window
PROPERTY IsStack
