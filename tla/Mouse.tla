-------------------------------- MODULE Mouse --------------------------------
(***************************************************************************)
(* The mouse: what BasicTerm::handle makes of FLTK's events, and what      *)
(* te_handle_mouse reports to the program that has asked for it.           *)
(*                                                                         *)
(* A report is named by its button code, without the modifiers: "M0" is    *)
(* ESC [ M 32 x y.  Where the mouse is matters for motion only, so a cell  *)
(* is a value.  Definitions marked as mutants are deliberate mistakes.     *)
(***************************************************************************)

CONSTANTS
    Buttons,    \* the mouse buttons the user has, of the named ones
    Modifiers,  \* the sets of modifier keys the user may hold
    Cells,      \* of the terminal
    Outside,    \* any other place
    NoReport

ASSUME ButtonsAssumption == Buttons \subseteq {"LEFT", "MIDDLE", "RIGHT"}
ASSUME CellsAssumption == Cells # {} /\ Outside \notin Cells

Reports == {"M0", "M1", "M2", "M64", "M65", "M3", "M33", "M34", "M35"}
ASSUME ReportsAssumption == NoReport \notin Reports

Tracking == {"button", "buttonmotion", "motion"}

VARIABLES
    mouse_mode,  \* of Tracking, or "none"
    cell,        \* where the last event was: mouse_x, mouse_y
    buttons,     \* what it left pressed: mouse_buttons
    report,      \* what the last step sent to the child, or NoReport
    held,        \* buttons the user holds down
    pointer,     \* where the mouse is
    told,        \* buttons that are down by the reports sent
    unsure       \* why told may be wrong, which no code keeps

mouseVars == <<mouse_mode, cell, buttons, report, held, pointer, told, unsure>>

(* The pointer may be anywhere; te_new knows no cell it was at (-1, -1).   *)
MouseInit ==
    /\ mouse_mode = "none" /\ cell = Outside /\ buttons = {}
    /\ report = NoReport /\ held = {} /\ pointer \in Cells \union {Outside}
    /\ told = {} /\ unsure = {}

-----------------------------------------------------------------------------
(* The child.                                                              *)

Unmoved == UNCHANGED <<cell, buttons, held, pointer, told, unsure>>

ac_set_mode == mouse_mode' \in Tracking /\ report' = NoReport /\ Unmoved

(* Resetting any of the tracking modes; a reset of the terminal is none.   *)
ac_clear_mode == mouse_mode' = "none" /\ report' = NoReport /\ Unmoved

-----------------------------------------------------------------------------
(* The terminal.                                                           *)

Wheel == {"WHEEL_UP", "WHEEL_DOWN"}

ReleaseCode == "M3"

(* What is reported when buttons change: a press before a release.         *)
ButtonReport(pressed, released) ==
    IF "LEFT" \in pressed THEN "M0"
    ELSE IF "MIDDLE" \in pressed THEN "M1"
    ELSE IF "RIGHT" \in pressed THEN "M2"
    ELSE IF "WHEEL_UP" \in pressed THEN "M64"
    ELSE IF "WHEEL_DOWN" \in pressed THEN "M65"
    ELSE IF released # {} THEN ReleaseCode
    ELSE NoReport

(* The code of a motion with the left button is that of its press.         *)
MotionReport(down) ==
    IF "LEFT" \in down THEN "M0"
    ELSE IF "MIDDLE" \in down THEN "M33"
    ELSE IF "RIGHT" \in down THEN "M34"
    ELSE "M35"

(* With tracking off or Shift alone held an event is for a selection.      *)
Selects(modifiers) == mouse_mode = "none" \/ modifiers = {"shift"}

(* Mutant of Stored: the wheel stays pressed.                              *)
Stored_KeepWheel(down) == down

Stored(down) == down \ Wheel

Report(at, down, modifiers) ==
    LET pressed == down \ buttons
        released == buttons \ down
        kept == Stored(down)
    IN  IF Selects(modifiers) THEN NoReport
        ELSE IF pressed \union released # {} THEN ButtonReport(pressed, released)
        ELSE IF /\ at # cell
                /\ \/ mouse_mode = "motion"
                   \/ mouse_mode = "buttonmotion" /\ kept # {}
          THEN MotionReport(kept)
        ELSE NoReport

(* What a program that follows the reports takes to be down, and when it   *)
(* may be wrong: a change was taken for a selection; the end of a          *)
(* multi-click was reported as a release; or one report stood for the      *)
(* change of several buttons.  At rest all is forgotten.                   *)
Told(code) ==
    CASE code = "M0" -> told \union {"LEFT"}
      [] code = "M1" -> told \union {"MIDDLE"}
      [] code = "M2" -> told \union {"RIGHT"}
      [] code = ReleaseCode -> {}
      [] OTHER -> told
Doubts(down, modifiers, code) ==
    LET now == down \intersect Buttons
        before == buttons \intersect Buttons
        changed == (now \ before) \union (before \ now)
    IN  {why \in {"selection", "multiclick", "several"} :
           CASE why = "selection"  -> Selects(modifiers) /\ changed # {}
             [] why = "multiclick" -> code = ReleaseCode /\ "DOUBLE" \in buttons
             [] why = "several"    -> /\ code # NoReport
                                      /\ \/ \E b, c \in changed : b # c
                                         \/ /\ code = ReleaseCode
                                            /\ changed # {} /\ now # {}}

te_handle_mouse(at, down, modifiers) ==
    LET code == Report(at, down, modifiers)
    IN  /\ cell' = at /\ buttons' = Stored(down) /\ report' = code
        /\ told' = Told(code)
        /\ unsure' = IF told' = {} /\ held' = {} THEN {}
                     ELSE unsure \union Doubts(down, modifiers, code)

-----------------------------------------------------------------------------
(* The user.                                                               *)

(* BasicTerm::handle drops what happens outside the terminal's area; the   *)
(* clicks and the wheel come as buttons.                                   *)
handle(at, more) ==
    /\ UNCHANGED mouse_mode
    /\ IF at = Outside
       THEN report' = NoReport /\ UNCHANGED <<cell, buttons, told, unsure>>
       ELSE \E modifiers \in Modifiers :
               te_handle_mouse(at, held' \union more, modifiers)

(* FLTK sends all events to the widget where the first button went down,   *)
(* so that one pressed outside is the terminal's if another is held.       *)
push ==
    /\ pointer # Outside \/ held # {}
    /\ \E b \in Buttons \ held : held' = held \union {b}
    /\ \E clicks \in {{}, {"DOUBLE"}, {"DOUBLE", "TRIPLE"}} : handle(pointer, clicks)
    /\ UNCHANGED pointer

release ==
    /\ \E b \in held : held' = held \ {b}
    /\ handle(pointer, {}) /\ UNCHANGED pointer

move ==
    /\ pointer' \in (Cells \union {Outside}) \ {pointer} /\ UNCHANGED held
    /\ handle(pointer', {})

wheel ==
    /\ pointer # Outside /\ UNCHANGED <<held, pointer>>
    /\ \E w \in Wheel : handle(pointer, {w})

MouseNext == ac_set_mode \/ ac_clear_mode \/ push \/ release \/ move \/ wheel

MouseSpec == MouseInit /\ [][MouseNext]_mouseVars

-----------------------------------------------------------------------------
(* Properties.                                                             *)

MouseTypeOK ==
    /\ mouse_mode \in Tracking \union {"none"}
    /\ {cell, pointer} \subseteq Cells \union {Outside}
    /\ buttons \subseteq Buttons \union {"DOUBLE", "TRIPLE"}
    /\ report \in Reports \union {NoReport}
    /\ held \subseteq Buttons /\ told \subseteq Buttons
    /\ unsure \subseteq {"selection", "multiclick", "several"}

(* The program's idea of the buttons is right whenever the mouse is over   *)
(* the terminal, also when they changed outside of it and whatever the     *)
(* wheel did, except while one of three things is told wrong or not at all *)
(* (Doubts).  And when no button is down it is told so, except for changes *)
(* that were taken for a selection: no button is stuck.                    *)
ButtonsKnown ==
    pointer # Outside => /\ told = held \/ unsure # {}
                         /\ held = {} => told = {} \/ "selection" \in unsure
=============================================================================
