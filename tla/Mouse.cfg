SPECIFICATION MouseSpec
CONSTANTS
    NoReport = NoReport
    Outside = Outside
    Cells = {c1, c2}
    Buttons = {"LEFT", "MIDDLE", "RIGHT"}
    Modifiers = {{}, {"shift"}, {"shift", "ctrl"}}
INVARIANT
    ButtonsKnown
