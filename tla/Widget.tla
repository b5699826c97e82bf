------------------------------- MODULE Widget -------------------------------
(***************************************************************************)
(* The scrolled terminal widget in its window: how pixels become columns   *)
(* and rows and back (BasicTerm, ScrolledTerm, TermWindow), which of them  *)
(* the terminal and the child believe, and the scroll bar with the keys    *)
(* that use it.                                                            *)
(*                                                                         *)
(* The boxes of the window and the group are FL_NO_BOX, which adds         *)
(* nothing.  FLTK and the window manager are modelled as the code uses     *)
(* them: a size set by the program takes effect at once, a size set by     *)
(* the user is in the range that was asked for, and only the terminal      *)
(* grows with the window.  Scroll-back is counted in lines; Viewport has   *)
(* what they show.  Definitions marked as mutants are deliberate mistakes. *)
(***************************************************************************)
EXTENDS Integers

CONSTANTS
    Font,          \* [w, h] of a cell in pixels
    Box,           \* [w, h] that the terminal's frame takes
    SCROLLBAR_WIDTH,
    MinSize,       \* 4 columns, 2 rows
    MaxSize,       \* 225 of both
    NarrowColumns, \* 80
    WideColumns,   \* 132
    PageRows,      \* 24
    Capacity,      \* lines of scroll-back
    MaxOffset,     \* bound on the offset of a locked viewport
    NULL

Extents == [w : Nat, h : Nat]

ASSUME PixelAssumption ==
    /\ Font \in [w : Nat \ {0}, h : Nat \ {0}]
    /\ Box \in Extents /\ SCROLLBAR_WIDTH \in Nat
ASSUME SizeAssumption ==
    /\ MinSize \in Extents /\ MaxSize \in Extents
    /\ MinSize.w \in 1 .. NarrowColumns /\ NarrowColumns \in Nat
    /\ NarrowColumns <= WideColumns
    /\ WideColumns \in Nat /\ WideColumns <= MaxSize.w
    /\ MinSize.h \in 2 .. PageRows /\ PageRows \in Nat /\ PageRows <= MaxSize.h
ASSUME ScrollAssumption == Capacity \in Nat /\ MaxOffset \in Nat
ASSUME NullAssumption == NULL \notin Extents

VARIABLES
    window,    \* its size in pixels
    cells,     \* gfx.ncols, gfx.nrows: what fits into the widget
    area,      \* gfx.pixw, gfx.pixh: the pixels that are the terminal's
    size,      \* of the terminal, in columns and rows
    child,     \* the window size the child was given, or NULL
    refused,   \* whether the last resizeSlave failed, which no code keeps
    kept,      \* lines of scroll-back of the normal buffer
    screen,    \* which buffer is selected: "norm" or "alt"
    offset,    \* how many lines the viewport is scrolled back
    locked,    \* the viewport's scroll_lock
    bar        \* the scroll bar: [active, max, value]

pixels == <<window, cells, area, size, child, refused>>
scroll == <<kept, screen, offset, locked, bar>>
vars == <<window, cells, area, size, child, refused,
          kept, screen, offset, locked, bar>>

int_max(a, b) == IF a > b THEN a ELSE b
int_min(a, b) == IF a < b THEN a ELSE b
int_clamp(x, lo, hi) == int_min(int_max(x, lo), hi)

-----------------------------------------------------------------------------
(* Sizes.                                                                  *)

Pixels(s) == [w |-> s.w * Font.w, h |-> s.h * Font.h]

(* The window that event_want_size makes for a terminal of a size.         *)
(* Mutant: the scroll bar left out.                                        *)
WindowFor_NoBar(s) == [w |-> Pixels(s).w + Box.w, h |-> Pixels(s).h + Box.h]
WindowFor(s) ==
    [w |-> Pixels(s).w + Box.w + SCROLLBAR_WIDTH, h |-> Pixels(s).h + Box.h]

(* What event_size_range allows; the steps are a wish.  Mutant: the least  *)
(* height a cell too low.                                                  *)
SizeRange_Low ==
    [w : WindowFor(MinSize).w .. WindowFor(MaxSize).w,
     h : (WindowFor(MinSize).h - 1) .. WindowFor(MaxSize).h]
SizeRange ==
    [w : WindowFor(MinSize).w .. WindowFor(MaxSize).w,
     h : WindowFor(MinSize).h .. WindowFor(MaxSize).h]

CellsIn(win) ==
    [w |-> (win.w - SCROLLBAR_WIDTH - Box.w) \div Font.w,
     h |-> (win.h - Box.h) \div Font.h]

(* Mutant of Changed: the rows not looked at.                              *)
Changed_Columns(new) == new.w # size.w
Changed(new) == new # size

(* A child that cannot be told its size keeps the terminal at its own, and *)
(* is not asked again until the widget changes.  Mutant: the area set      *)
(* before the child is asked.                                              *)
Refuse_Area(new) == area' = Pixels(new) /\ UNCHANGED <<size, child>>
Refuse(new) == UNCHANGED <<area, size, child>>

(* BasicTerm::resize, in a window of a new size.                           *)
resize(win) ==
    LET new == CellsIn(win)
    IN  /\ window' = win /\ cells' = new
        /\ \/ ~Changed(new) /\ UNCHANGED <<area, size, child, refused>>
           \/ Changed(new) /\ refused' = TRUE /\ Refuse(new)
           \/ /\ Changed(new) /\ refused' = FALSE
              /\ area' = Pixels(new) /\ size' = new /\ child' = new

fe_request_resize(s) ==
    IF window = WindowFor(s) THEN UNCHANGED pixels ELSE resize(WindowFor(s))

(* DECCOLM, set or reset, from within the handling of output.              *)
DECCOLM(columns) ==
    /\ fe_request_resize([w |-> columns, h |-> int_max(size.h, PageRows)])
    /\ UNCHANGED scroll

UserResize ==
    /\ \E win \in SizeRange \ {window} : resize(win)
    /\ UNCHANGED scroll

-----------------------------------------------------------------------------
(* The scroll bar.                                                         *)

history_size == IF screen = "norm" THEN kept ELSE 0

(* Without scroll-back the bar is greyed out and keeps its value.  Mutant: *)
(* the value is kept while the size is the same.                           *)
event_scrollposition_Sized(off, sz) ==
    IF sz = 0 THEN [bar EXCEPT !.active = FALSE, !.max = 0]
    ELSE [active |-> TRUE, max |-> sz,
          value |-> IF bar.max = sz THEN bar.value ELSE off]
event_scrollposition(off, sz) ==
    IF sz = 0 THEN [bar EXCEPT !.active = FALSE, !.max = 0]
    ELSE [active |-> TRUE, max |-> sz, value |-> off]

fe_position == bar' = event_scrollposition(offset', history_size')

tePosition(to) ==
    /\ offset' = int_clamp(to, 0, history_size)
    /\ UNCHANGED <<kept, screen, locked>> /\ UNCHANGED pixels
    /\ fe_position

_widget_cb == bar.active /\ \E to \in 0 .. bar.max : tePosition(to)

(* Shift with Page_Up or Page_Down.                                        *)
scrollUp == tePosition(bar.value + (2 * size.h) \div 3)
scrollDown == tePosition(bar.value - (2 * size.h) \div 3)
scrollReset == tePosition(0)

(* Scroll_Lock: what getScrollLock returns is never set, so the key locks. *)
setScrollLock ==
    /\ locked' = TRUE
    /\ UNCHANGED <<kept, screen, offset, bar>> /\ UNCHANGED pixels

(* Output scrolls lines out of a region or back into it; on the normal     *)
(* buffer's first row they come from its scroll-back.  There is none of    *)
(* the alternate buffer, but the viewport is told of its lines as well.    *)
history_inc ==
    /\ \E n \in 0 .. size.h - 1 :
          kept' = IF screen = "norm" THEN int_min(kept + n, Capacity) ELSE kept
    /\ offset' = IF offset > 0 /\ locked THEN offset + 1 ELSE 0
    /\ offset' <= MaxOffset
    /\ UNCHANGED <<screen, locked>> /\ UNCHANGED pixels
    /\ fe_position

history_dec ==
    /\ \E n \in 0 .. size.h - 1 :
          kept' = IF screen = "norm" THEN int_max(kept - n, 0) ELSE kept
    /\ UNCHANGED <<screen, locked>> /\ UNCHANGED pixels
    /\ offset' = IF locked THEN int_min(offset, history_size') ELSE 0
    /\ fe_position

be_switch_buffer ==
    /\ screen' \in {"norm", "alt"}
    /\ offset' = IF screen' = "alt" THEN 0 ELSE offset
    /\ UNCHANGED <<kept, locked>> /\ UNCHANGED pixels
    /\ fe_position

ac_reset ==
    /\ screen' = "norm" /\ kept' = 0 /\ offset' = 0
    /\ UNCHANGED locked /\ UNCHANGED pixels
    /\ fe_position

-----------------------------------------------------------------------------
(* The window is made for 80 columns and 24 rows; nobody looks at whether  *)
(* the child took its first size.                                          *)
Init ==
    LET first == [w |-> NarrowColumns, h |-> PageRows]
    IN  /\ window = WindowFor(first) /\ cells = first
        /\ area = Pixels(first) /\ size = first
        /\ refused \in BOOLEAN /\ child = (IF refused THEN NULL ELSE first)
        /\ kept = 0 /\ screen = "norm" /\ offset = 0 /\ locked = FALSE
        /\ bar = [active |-> FALSE, max |-> 0, value |-> 0]

Output ==
    \/ \E columns \in {NarrowColumns, WideColumns} : DECCOLM(columns)
    \/ history_inc \/ history_dec \/ be_switch_buffer \/ ac_reset

User ==
    \/ UserResize
    \/ _widget_cb \/ scrollUp \/ scrollDown \/ scrollReset \/ setScrollLock

Next == Output \/ User

Spec == Init /\ [][Next]_vars

-----------------------------------------------------------------------------
(* Properties.                                                             *)

TypeOK ==
    /\ window \in SizeRange /\ cells \in Extents /\ area \in Extents
    /\ size \in Extents /\ child \in Extents \union {NULL}
    /\ refused \in BOOLEAN
    /\ kept \in 0 .. Capacity /\ screen \in {"norm", "alt"}
    /\ offset \in Nat /\ locked \in BOOLEAN
    /\ bar \in [active : BOOLEAN, max : Nat, value : Nat]

(* What fits into the widget, what the terminal has and what the child was *)
(* told are the same, whoever changed the size and in whatever order,      *)
(* until the child refuses a size; once it takes one they agree again.     *)
SizesAgree == ~refused => cells = size /\ child = size

(* The mouse is never reported at a cell that the terminal does not have   *)
(* or the child does not know of: a pixel of the area is a cell of both,   *)
(* also after a refused resize, which leaves a widget of another size.     *)
CellsInside ==
    \A x \in 0 .. area.w - 1, y \in 0 .. area.h - 1 :
       LET cell == [w |-> x \div Font.w, h |-> y \div Font.h]
       IN  /\ cell.w < size.w /\ cell.h < size.h
           /\ child # NULL => cell.w < child.w /\ cell.h < child.h

(* Flxi_BasicTerm.cxx:123: the size limits, given in pixels of the window  *)
(* around a scroll bar and a frame, hold for the terminal's cells, which   *)
(* is what SizesAssumption of Terminal takes for granted.                  *)
LimitsKept ==
    /\ size.w \in MinSize.w .. MaxSize.w
    /\ size.h \in MinSize.h .. MaxSize.h

(* A program that asks for 80 or 132 columns gets them, and a page of at   *)
(* least 24 rows, whatever the window was, unless the child refuses.       *)
AskedIsGiven ==
    [][\A columns \in {NarrowColumns, WideColumns} :
         DECCOLM(columns) =>
           refused' \/ /\ size'.w = columns /\ size'.h >= PageRows
                       /\ child' = size']_vars

(* Paging back and forth gets on and skips no line, from wherever output,  *)
(* the bar, a lock or the other buffer has left the viewport: it moves by  *)
(* less than a page and by one line at least, or reaches an end.           *)
PagingSkipsNothing ==
    [][/\ scrollUp => \/ offset' = history_size
                      \/ offset < offset' /\ offset' < offset + size.h
       /\ scrollDown => \/ offset' = 0
                        \/ offset > history_size /\ offset' = history_size
                        \/ offset - size.h < offset' /\ offset' < offset]_vars
=============================================================================
