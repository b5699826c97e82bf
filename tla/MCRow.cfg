SPECIFICATION Spec
CONSTANTS
    plain = plain
    red = red
    inverse = inverse
    Width = 3
    Styles <- MCStyles
    Cleared <- MCCleared
    Glyphs = {a}
    Space = space
    MaxUsed = 4
INVARIANTS
    EditsMove
PROPERTIES
    StaysCovered
    RedrawRestores
