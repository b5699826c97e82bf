------------------------------ MODULE Terminal ------------------------------
(***************************************************************************)
(* The control state of the terminal backend (struct TE_Backend_) and the  *)
(* handlers of actions.c and libte.c that change it: cursor, scroll        *)
(* margins, mode flags, the DECSC slot, tab stops, the selected buffer,    *)
(* the swapped palette and the size.                                       *)
(*                                                                         *)
(* What a handler asks of the row buffer is recorded, not performed:       *)
(* touched holds the rows it fetched with buffer_get_row, scrolled the     *)
(* regions it passed to be_scroll_region.  Cell contents, rendition        *)
(* (SGR, charsets) and the viewport belong to other modules.               *)
(*                                                                         *)
(* A definition marked as a mutant is a deliberate mistake: swapped for    *)
(* the one it names, it makes TLC find a property violated.                *)
(***************************************************************************)
EXTENDS Integers, Sequences

CONSTANTS
    Sizes,        \* the sizes the frontend may give the terminal
    TabWidth,     \* columns of the default tabulation, 8 in ac_tab
    ParamValues,  \* the values a CSI parameter may have
    MaxChunk,     \* bound on the characters one be_input call receives
    IntMax        \* INT_MAX: a sum past it wraps

(* Flxi_BasicTerm.cxx:124 asks for "at least 2 lines (for scroll margins)". *)
ASSUME SizesAssumption ==
    Sizes \subseteq [w : Nat \ {0}, h : Nat \ {0, 1}]
ASSUME BoundsAssumption ==
    TabWidth \in Nat \ {0} /\ MaxChunk \in Nat /\ IntMax \in Nat \ {0}
ASSUME ParamAssumption == ParamValues \subseteq Int

VARIABLES
    size,      \* [w, h]
    cursor,    \* [x, y]
    margins,   \* [top, bot], both inclusive
    modes,     \* the mode flags that are set
    stored,    \* the DECSC slot: [x, y, autowrap]
    tabs,      \* columns with a tab stop
    screen,    \* which buffer is selected: "norm" or "alt"
    reversed,  \* the default colours are swapped in the palette
    touched,   \* rows the last handler fetched
    scrolled   \* the last handler's scrolls: <<start, end, lines>>, lines
               \* negative for a scroll down

vars == <<size, cursor, margins, modes, stored, tabs, screen, reversed,
          touched, scrolled>>
setup == <<size, margins, modes, stored, tabs, screen, reversed>>

(* The flags handlers test or copy.  The others (MODE_CURSORAPP,           *)
(* MODE_KEYAPP, ...) only select what keys and pastes send.                *)
Modes == {"autowrap", "newline", "origin", "screen"}

(* The parameters of a control sequence; only CUP and DECSTBM look at a    *)
(* second one.                                                             *)
Params == {<<>>} \union {<<p>> : p \in ParamValues}
ParamPairs == Params \union (ParamValues \X ParamValues)

-----------------------------------------------------------------------------
(* Arithmetic and parameters.                                              *)

int_min(a, b) == IF a < b THEN a ELSE b
int_max(a, b) == IF a > b THEN a ELSE b

int_clamp(x, lo, hi) ==
    LET y == IF x < lo THEN lo ELSE x IN IF y > hi THEN hi ELSE y

(* int addition, as the builds at hand do it: overflow wraps.              *)
Plus(a, b) == ((a + b + IntMax + 1) % (2 * (IntMax + 1))) - (IntMax + 1)

parser_get_param(ps, i, default) ==
    IF Len(ps) > i THEN ps[i + 1] ELSE default

(* The repeat count of the handlers whose default is 1.                    *)
Count(ps) == int_max(1, parser_get_param(ps, 0, 1))

-----------------------------------------------------------------------------
(* Building blocks.                                                        *)

Rows == 0 .. size.h - 1
PageMargins(s) == [top |-> 0, bot |-> s.h - 1]
InMargins(y) == margins.top <= y /\ y <= margins.bot

(* Where be_move_cursor leaves the cursor on a terminal of size s.         *)
At(x, y, s) == [x |-> int_clamp(x, 0, s.w - 1), y |-> int_clamp(y, 0, s.h - 1)]
be_move_cursor(x, y) == cursor' = At(x, y, size)

NoCalls == touched' = {} /\ scrolled' = {}
Touch(rows) == touched' = rows /\ scrolled' = {}
be_scroll_region(from, to, num) ==
    /\ touched' = {}
    /\ scrolled' = IF num = 0 THEN {} ELSE {<<from, to, num>>}

(* A line number as CUP and VPA read it: relative to the top margin and    *)
(* confined to the region in origin mode, clamped to the page otherwise.   *)
LineOf(n) ==
    IF "origin" \in modes
    THEN int_clamp(Plus(n, margins.top), margins.top + 1, margins.bot + 1) - 1
    ELSE int_clamp(n, 1, size.h) - 1
ColumnOf(n) == int_clamp(n, 1, size.w) - 1

(* Mutant of Lowest: origin mode forgotten.                                *)
LowestOnPage == size.h - 1

(* The lines CUU and CUD may reach.                                        *)
Highest == IF "origin" \in modes THEN margins.top ELSE 0
Lowest  == IF "origin" \in modes THEN margins.bot ELSE size.h - 1

(* Where CSI row;col H puts the cursor.                                    *)
PositionOf(ps) ==
    At(ColumnOf(parser_get_param(ps, 1, 1)),
       LineOf(int_max(parser_get_param(ps, 0, 1), 1)), size)

(* Mutant of CursorReport: counted from zero.                              *)
CursorReportFromZero == <<cursor.y, cursor.x>>

(* The row and column CSI 6n sends to the child.                           *)
CursorReport == <<cursor.y + 1, cursor.x + 1>>

Flag(f, on) == IF on THEN modes \union {f} ELSE modes \ {f}

(* The palette after be_screen_mode(enable) on the flags m: the default    *)
(* colours are swapped only when the flag changes.                         *)
be_screen_mode(m, enable) ==
    IF ("screen" \in m) = enable THEN reversed ELSE ~reversed

-----------------------------------------------------------------------------
Init ==
    /\ size \in Sizes
    /\ cursor = [x |-> 0, y |-> 0]
    /\ margins = PageMargins(size)
    /\ modes = {"autowrap"}
    /\ stored = [x |-> 0, y |-> 0, autowrap |-> TRUE]
    /\ tabs = {}
    /\ screen = "norm"
    /\ reversed = FALSE
    /\ touched = {} /\ scrolled = {}

-----------------------------------------------------------------------------
(* C0 and C1 controls.                                                     *)

ac_cr == be_move_cursor(0, cursor.y) /\ NoCalls /\ UNCHANGED setup

(* Where ac_index_down leaves a cursor c, and the region it scrolls.       *)
Down(c) == IF c.y = margins.bot THEN c ELSE At(c.x, c.y + 1, size)
ScrolledBelow(c) ==
    IF c.y = margins.bot THEN {<<margins.top, margins.bot, 1>>} ELSE {}

ac_index_down ==
    /\ cursor' = Down(cursor)
    /\ touched' = {} /\ scrolled' = ScrolledBelow(cursor)
    /\ UNCHANGED setup

ac_next_line ==
    /\ cursor' = At(0, Down(cursor).y, size)
    /\ touched' = {} /\ scrolled' = ScrolledBelow(cursor)
    /\ UNCHANGED setup

ac_lf == IF "newline" \in modes THEN ac_next_line ELSE ac_index_down

ac_index_up ==
    /\ \/ /\ cursor.y = margins.top
          /\ be_scroll_region(margins.top, margins.bot, -1)
          /\ UNCHANGED cursor
       \/ /\ cursor.y # margins.top
          /\ be_move_cursor(cursor.x, cursor.y - 1)
          /\ NoCalls
    /\ UNCHANGED setup

(* Tab goes to the nearest stop to the right or else to the multiple of    *)
(* TabWidth that (x+7) & ~7 computes, never past the last column.          *)
StopsAhead == {t \in tabs : t > cursor.x}
DefaultStop == ((cursor.x + TabWidth - 1) \div TabWidth) * TabWidth

ac_tab ==
    /\ \/ \E t \in StopsAhead : /\ \A u \in StopsAhead : t <= u
                               /\ be_move_cursor(t, cursor.y)
       \/ /\ StopsAhead = {}
          /\ be_move_cursor(int_min(DefaultStop, size.w - 1), cursor.y)
    /\ NoCalls /\ UNCHANGED setup

(* MODE_DESTRUCTBS is never set, so nothing is erased.                     *)
ac_bs ==
    /\ cursor.x > 0
    /\ be_move_cursor(cursor.x - 1, cursor.y)
    /\ NoCalls /\ UNCHANGED setup

ac_set_tab ==
    /\ tabs' = tabs \union {cursor.x}
    /\ NoCalls
    /\ UNCHANGED <<size, cursor, margins, modes, stored, screen, reversed>>

ac_clear_tab(ps) ==
    /\ tabs' = CASE parser_get_param(ps, 0, 0) = 3 -> {}
                 [] parser_get_param(ps, 0, 0) = 0 -> tabs \ {cursor.x}
                 [] OTHER -> tabs
    /\ NoCalls
    /\ UNCHANGED <<size, cursor, margins, modes, stored, screen, reversed>>

-----------------------------------------------------------------------------
(* Printable text.  With autowrap a chunk of len characters fills the rest *)
(* of the cursor's line and continues on next lines; be_move_cursor holds  *)
(* the cursor at the last column when a line is filled to its end.  All    *)
(* are functions of a cursor c.                                            *)

(* Mutant of NextLines: every line taken to be empty.                      *)
NextLinesFromZero(c, len) ==
    LET rest == len - size.w
    IN  IF rest <= 0 THEN 0 ELSE (rest + size.w - 1) \div size.w

(* The calls of ac_next_line.                                              *)
NextLines(c, len) ==
    LET rest == len - (size.w - c.x)
    IN  IF rest <= 0 THEN 0 ELSE (rest + size.w - 1) \div size.w

(* The column after the last character, size.w when it fills its line.     *)
ColumnAfter(c, len) == c.x + len - NextLines(c, len) * size.w

(* The line that n calls of ac_next_line reach.                            *)
LineAfter(c, n) ==
    int_min(c.y + n, IF c.y <= margins.bot THEN margins.bot ELSE size.h - 1)

Wrapped(c, len) ==
    At(ColumnAfter(c, len), LineAfter(c, NextLines(c, len)), size)

be_input_wrapping(len) ==
    /\ cursor' = Wrapped(cursor, len)
    /\ touched' = cursor.y .. cursor'.y
    /\ scrolled' =
          IF /\ cursor.y <= margins.bot
             /\ cursor.y + NextLines(cursor, len) > margins.bot
          THEN {<<margins.top, margins.bot, 1>>} ELSE {}

(* Without it the text stops at the last column, which shows the last      *)
(* character.                                                              *)
be_input_clipped(len) ==
    /\ be_move_cursor(cursor.x + int_min(len, size.w - cursor.x - 1), cursor.y)
    /\ Touch({cursor.y})

be_input(len) ==
    /\ IF "autowrap" \in modes THEN be_input_wrapping(len)
                               ELSE be_input_clipped(len)
    /\ UNCHANGED setup

-----------------------------------------------------------------------------
(* Cursor controls.                                                        *)

ac_cursor_left(ps) ==
    /\ be_move_cursor(int_max(0, cursor.x - Count(ps)), cursor.y)
    /\ NoCalls /\ UNCHANGED setup

ac_cursor_right(ps) ==
    /\ be_move_cursor(int_min(size.w - 1, Plus(cursor.x, Count(ps))), cursor.y)
    /\ NoCalls /\ UNCHANGED setup

ac_cursor_up(ps) ==
    /\ be_move_cursor(cursor.x, int_max(Highest, cursor.y - Count(ps)))
    /\ NoCalls /\ UNCHANGED setup

ac_cursor_down(ps) ==
    /\ be_move_cursor(cursor.x, int_min(Lowest, Plus(cursor.y, Count(ps))))
    /\ NoCalls /\ UNCHANGED setup

ac_cursor_position(ps) ==
    /\ cursor' = PositionOf(ps)
    /\ NoCalls /\ UNCHANGED setup

ac_column_position(ps) ==
    /\ be_move_cursor(ColumnOf(parser_get_param(ps, 0, 1)), cursor.y)
    /\ NoCalls /\ UNCHANGED setup

ac_line_position(ps) ==
    /\ be_move_cursor(cursor.x, LineOf(parser_get_param(ps, 0, 1)))
    /\ NoCalls /\ UNCHANGED setup

-----------------------------------------------------------------------------
(* The DECSC slot.                                                         *)

Saved == [x |-> cursor.x, y |-> cursor.y, autowrap |-> "autowrap" \in modes]

ac_save_cursor ==
    /\ stored' = Saved
    /\ NoCalls
    /\ UNCHANGED <<size, cursor, margins, modes, tabs, screen, reversed>>

RestoredModes == Flag("autowrap", stored.autowrap)

ac_restore_cursor ==
    /\ be_move_cursor(stored.x, stored.y)
    /\ modes' = RestoredModes
    /\ NoCalls
    /\ UNCHANGED <<size, margins, stored, tabs, screen, reversed>>

-----------------------------------------------------------------------------
(* Editing.  be_clear_area fetches the rows it clears; the guards of ED    *)
(* and IL are those of the rows they pass to it.                           *)

ac_erase_display(ps) ==
    /\ Touch(CASE parser_get_param(ps, 0, 0) = 0 -> cursor.y .. size.h - 1
               [] parser_get_param(ps, 0, 0) = 1 -> 0 .. cursor.y
               [] parser_get_param(ps, 0, 0) = 2 -> Rows
               [] OTHER -> {})
    /\ UNCHANGED <<setup, cursor>>

ac_erase_line(ps) ==
    /\ Touch(IF parser_get_param(ps, 0, 0) \in 0 .. 2 THEN {cursor.y} ELSE {})
    /\ UNCHANGED <<setup, cursor>>

(* ECH, ICH and DCH edit the cursor's row only.                            *)
EditRow == Touch({cursor.y}) /\ UNCHANGED <<setup, cursor>>

(* Unlike DL, IL does not look where the cursor is.                        *)
ac_insert_line(ps) ==
    LET n  == Count(ps)
        mx == margins.bot - cursor.y + 1
    IN  /\ IF n >= mx THEN Touch(cursor.y .. margins.bot - 1)
                      ELSE be_scroll_region(cursor.y, margins.bot, -n)
        /\ UNCHANGED <<setup, cursor>>

(* Mutant of ac_delete_line: the cursor's line not checked.                *)
ac_delete_line_Anywhere(ps) ==
    LET mx == margins.bot - cursor.y + 1
        n  == int_clamp(parser_get_param(ps, 0, 1), 1, mx)
    IN  /\ IF n = mx THEN Touch(cursor.y .. margins.bot)
                     ELSE be_scroll_region(cursor.y, margins.bot, n)
        /\ UNCHANGED <<setup, cursor>>

ac_delete_line(ps) ==
    LET mx == margins.bot - cursor.y + 1
        n  == int_clamp(parser_get_param(ps, 0, 1), 1, mx)
    IN  /\ InMargins(cursor.y)
        /\ IF n = mx THEN Touch(cursor.y .. margins.bot)
                     ELSE be_scroll_region(cursor.y, margins.bot, n)
        /\ UNCHANGED <<setup, cursor>>

(* SU and SD scroll the region by clamp(n, 1, bot - top) lines.            *)
ScrollLines(ps) ==
    int_clamp(parser_get_param(ps, 0, 1), 1, margins.bot - margins.top)

ac_scroll_up(ps) ==
    /\ be_scroll_region(margins.top, margins.bot, ScrollLines(ps))
    /\ UNCHANGED <<setup, cursor>>

ac_scroll_down(ps) ==
    /\ be_scroll_region(margins.top, margins.bot, -ScrollLines(ps))
    /\ UNCHANGED <<setup, cursor>>

(* DECALN *)
ac_screen_align ==
    /\ margins' = PageMargins(size)
    /\ Touch(Rows)
    /\ be_move_cursor(0, 0)
    /\ UNCHANGED <<size, modes, stored, tabs, screen, reversed>>

-----------------------------------------------------------------------------
(* Margins and modes.                                                      *)

(* Mutant of MarginsOf: margins of one line accepted.                      *)
MarginsOfOneLine(ps) ==
    LET t == int_clamp(parser_get_param(ps, 0, 1), 1, size.h)
        b == int_clamp(parser_get_param(ps, 1, size.h), 1, size.h)
    IN  IF t > b THEN PageMargins(size) ELSE [top |-> t - 1, bot |-> b - 1]

(* The margins DECSTBM asks for, the page when they are not ordered.       *)
MarginsOf(ps) ==
    LET t == int_clamp(parser_get_param(ps, 0, 1), 1, size.h)
        b == int_clamp(parser_get_param(ps, 1, size.h), 1, size.h)
    IN  IF t >= b THEN PageMargins(size) ELSE [top |-> t - 1, bot |-> b - 1]

ac_set_margins(ps) ==
    /\ margins' = MarginsOf(ps)
    /\ be_move_cursor(0, IF "origin" \in modes THEN margins'.top ELSE 0)
    /\ NoCalls
    /\ UNCHANGED <<size, modes, stored, tabs, screen, reversed>>

(* DECAWM (7) and LNM (20).                                                *)
SetPlainMode(f, on) ==
    /\ modes' = Flag(f, on)
    /\ NoCalls
    /\ UNCHANGED <<size, cursor, margins, stored, tabs, screen, reversed>>

(* DECOM (6): the cursor goes home, to the top margin when set.            *)
SetOrigin ==
    /\ modes' = Flag("origin", TRUE)
    /\ be_move_cursor(0, margins.top)
    /\ NoCalls
    /\ UNCHANGED <<size, margins, stored, tabs, screen, reversed>>

ResetOrigin ==
    /\ modes' = Flag("origin", FALSE)
    /\ be_move_cursor(0, 1)
    /\ NoCalls
    /\ UNCHANGED <<size, margins, stored, tabs, screen, reversed>>

(* DECSCNM (5) *)
SetScreenMode(on) ==
    /\ modes' = Flag("screen", on)
    /\ reversed' = be_screen_mode(modes, on)
    /\ NoCalls
    /\ UNCHANGED <<size, cursor, margins, stored, tabs, screen>>

(* ?47 and ?1047 *)
be_switch_buffer(alt) ==
    /\ screen' = IF alt THEN "alt" ELSE "norm"
    /\ NoCalls
    /\ UNCHANGED <<size, cursor, margins, modes, stored, tabs, reversed>>

(* ?1049: DECSC and the alternate buffer, the normal one and DECRC.        *)
SaveAndSwitch ==
    /\ stored' = Saved
    /\ screen' = "alt"
    /\ NoCalls
    /\ UNCHANGED <<size, cursor, margins, modes, tabs, reversed>>

RestoreAndSwitch ==
    /\ be_move_cursor(stored.x, stored.y)
    /\ modes' = RestoredModes
    /\ screen' = "norm"
    /\ NoCalls
    /\ UNCHANGED <<size, margins, stored, tabs, reversed>>

(* DECSTR and RIS.  The flags are overwritten before be_screen_mode looks  *)
(* at them.                                                                *)
ac_reset ==
    /\ margins' = PageMargins(size)
    /\ tabs' = {}
    /\ modes' = {"autowrap"}
    /\ screen' = "norm"
    /\ be_move_cursor(0, 0)
    /\ reversed' = be_screen_mode({"autowrap"}, FALSE)
    /\ NoCalls
    /\ UNCHANGED <<size, stored>>

-----------------------------------------------------------------------------
(* Size changes.  The frontend resizes the terminal when its window does,  *)
(* and may do so, to the size asked or another, from inside the callback   *)
(* by which DECCOLM (3) requests 132 or 80 columns.                        *)

(* Mutant of TabsWithin: the old tab stops copied whole.                   *)
TabsNotCut(s) == tabs

TabsWithin(s) == {t \in tabs : t < s.w}

te_resize(s) ==
    /\ s # size
    /\ size' = s
    /\ margins' = PageMargins(s)
    /\ cursor' = At(int_min(s.w - 1, cursor.x), int_min(s.h - 1, cursor.y), s)
    /\ tabs' = TabsWithin(s)
    /\ NoCalls
    /\ UNCHANGED <<modes, stored, screen, reversed>>

SetColumns(s) ==
    /\ size' = s
    /\ tabs' = TabsWithin(s)
    /\ margins' = PageMargins(s)
    /\ cursor' = At(0, 0, s)
    /\ Touch(0 .. s.h - 1)
    /\ UNCHANGED <<modes, stored, screen, reversed>>

-----------------------------------------------------------------------------
Controls ==
    \/ ac_cr \/ ac_lf \/ ac_tab \/ ac_bs \/ ac_set_tab
    \/ ac_index_down \/ ac_next_line \/ ac_index_up
    \/ ac_save_cursor \/ ac_restore_cursor \/ ac_screen_align \/ ac_reset

ControlSequence(ps) ==
    \/ ac_cursor_left(ps) \/ ac_cursor_right(ps)
    \/ ac_cursor_up(ps) \/ ac_cursor_down(ps)
    \/ ac_column_position(ps) \/ ac_line_position(ps) \/ ac_clear_tab(ps)
    \/ ac_erase_display(ps) \/ ac_erase_line(ps)
    \/ ac_insert_line(ps) \/ ac_delete_line(ps)
    \/ ac_scroll_up(ps) \/ ac_scroll_down(ps)

ModeChange ==
    \/ \E on \in BOOLEAN : \/ SetPlainMode("autowrap", on)
                          \/ SetPlainMode("newline", on)
                          \/ SetScreenMode(on)
                          \/ be_switch_buffer(on)
    \/ SetOrigin \/ ResetOrigin \/ SaveAndSwitch \/ RestoreAndSwitch

Next ==
    \/ \E len \in 1 .. MaxChunk : be_input(len)
    \/ EditRow
    \/ Controls
    \/ \E ps \in Params : ControlSequence(ps)
    \/ \E ps \in ParamPairs : ac_cursor_position(ps) \/ ac_set_margins(ps)
    \/ ModeChange
    \/ \E s \in Sizes : te_resize(s) \/ SetColumns(s)

Spec == Init /\ [][Next]_vars

-----------------------------------------------------------------------------
(* Properties.                                                             *)

(* Every variable has its type: the cursor and the tab stops are on the    *)
(* page (ac_set_tab indexes tab_stops with the cursor), the margins are    *)
(* two different lines of it.  The DECSC slot need not be on the page.     *)
TypeOK ==
    /\ size \in Sizes
    /\ cursor \in [x : 0 .. size.w - 1, y : Rows]
    /\ margins \in [top : Rows, bot : Rows] /\ margins.top < margins.bot
    /\ modes \subseteq Modes
    /\ stored \in [x : Nat, y : Nat, autowrap : BOOLEAN]
    /\ tabs \subseteq 0 .. size.w - 1
    /\ screen \in {"norm", "alt"}
    /\ reversed \in BOOLEAN
    /\ touched \subseteq Int
    /\ scrolled \subseteq Int \X Int \X Int

(* Whatever sequence of controls, margins and resizes came before, a       *)
(* handler fetches only rows of the buffer (buffer_get_row does not check) *)
(* and scrolls only regions of two lines or more of it (the assertions of  *)
(* buffer.c:93 and 146), by fewer lines than they have.                    *)
BufferCallsInBounds ==
    /\ touched \subseteq Rows
    /\ \A r \in scrolled : /\ 0 <= r[1] /\ r[1] < r[2] /\ r[2] < size.h
                          /\ r[3] # 0 /\ r[3] <= r[2] - r[1]
                          /\ -r[3] <= r[2] - r[1]

(* internal.h:92, "The cursor cannot move out of scrolling region": once   *)
(* origin mode has the cursor inside the margins, no handler takes it out, *)
(* but for those that restore a cursor saved elsewhere and a CUD by so     *)
(* many lines that its sum overflows.                                      *)
Confined == "origin" \in modes => InMargins(cursor.y)
CursorDownOverflows ==
    \E ps \in Params : ac_cursor_down(ps) /\ cursor.y + Count(ps) > IntMax
OriginConfines ==
    [][Confined => \/ Confined'
                   \/ ac_restore_cursor \/ RestoreAndSwitch
                   \/ CursorDownOverflows]_vars

(* A child that asks where the cursor is (CSI 6n) and later positions it   *)
(* there (CSI row;col H) comes back to the same cell, in any margins, when *)
(* origin mode is off.                                                     *)
ReportRoundTrips ==
    "origin" \notin modes => PositionOf(CursorReport) = cursor

(* DECSTBM, actions.c:491, "You cannot perform scrolling outside the       *)
(* margins": no handler moves a line above or below the margins in force,  *)
(* but for IL, which does not look where the cursor is.                    *)
ScrollsStayInside ==
    [][\A r \in scrolled' :
          \/ margins.top <= r[1] /\ r[2] <= margins.bot
          \/ \E ps \in Params : ac_insert_line(ps)]_vars

(* How the child's output is cut into reads does not matter: a chunk that  *)
(* stays short of the right margin leaves the next one where the two       *)
(* together would have ended.                                              *)
ChunksCompose ==
    \A m, n \in 1 .. MaxChunk :
        (m + n <= MaxChunk /\ ColumnAfter(cursor, m) < size.w)
            => Wrapped(Wrapped(cursor, m), n) = Wrapped(cursor, m + n)
=============================================================================
