------------------------------ MODULE Viewport ------------------------------
(***************************************************************************)
(* What the window shows: the two row buffers (buffer.c), the scroll-back  *)
(* of the normal one, the viewport on them (viewport.c) and the rows it    *)
(* takes to be dirty, down to what the frontend last drew.                 *)
(*                                                                         *)
(* The scroll-back is the bounded stack that History implements, a line is *)
(* what a row would be drawn as, and a row is dirty or clean as a whole    *)
(* (Row has its columns).  Regions are those of Terminal: two rows or    *)
(* more, scrolled by fewer lines than they have (BufferCallsInBounds).     *)
(* Definitions marked as mutants are deliberate mistakes.                  *)
(***************************************************************************)
EXTENDS Integers, Sequences

CONSTANTS
    Lines,      \* what a row may be drawn as
    Blank,      \* a cleared row
    NULL,       \* nothing kept, nothing drawn yet
    Capacity,   \* lines of scroll-back of the normal buffer
    Heights,    \* the heights the frontend may give the terminal
    MaxOffset   \* bound on the offset of a locked viewport

ASSUME LineAssumption == Blank \in Lines /\ NULL \notin Lines
ASSUME SizeAssumption ==
    Capacity \in Nat /\ MaxOffset \in Nat /\ Heights \subseteq Nat \ {0}

VARIABLES
    height,
    buffers,   \* the rows of the normal and of the alternate buffer
    screen,    \* the selected buffer: "norm" or "alt"
    kept,      \* the scroll-back, newest line first
    offset,    \* how many lines the viewport is scrolled back
    locked,    \* scroll_lock
    dirty,     \* the rows of the window to be redrawn
    shown,     \* what the frontend last drew on each
    reported   \* the last fe_position: offset and lines of scroll-back

(* A history variable, kept by no code and read by no action.              *)
VARIABLE everLocked   \* scroll lock has been on

vars == <<height, buffers, screen, kept, offset, locked, dirty, shown, reported,
          everLocked>>

Page == 0 .. height - 1
rows == buffers[screen]

(* history_size of the selected buffer's scroll-back; the alternate one's  *)
(* has capacity 0.                                                         *)
SizeOf(sc, k) == IF sc = "norm" THEN Len(k) ELSE 0
history_size == SizeOf(screen, kept)

int_min(a, b) == IF a < b THEN a ELSE b
int_clamp(x, lo, hi) ==
    LET y == IF x < lo THEN lo ELSE x IN IF y > hi THEN hi ELSE y

Scrollback == INSTANCE HistoryStack WITH
    capacity <- Capacity, lines <- kept, row <- Blank, Capacities <- {Capacity}

(* What row y of the window is to show: a line of the scroll-back above    *)
(* the first row of the buffer.  An age that is not kept is drawn blank.   *)
LineAt(y) ==
    LET line == Scrollback!Peek(offset - y - 1)
    IN  IF y >= offset THEN rows[y - offset]
        ELSE IF screen = "norm" /\ line # NULL THEN line ELSE Blank

-----------------------------------------------------------------------------
(* Dirty rows.                                                             *)

(* The rows of the window that rows ys of the buffer are on.               *)
viewport_taint(ys, off) == {y + off : y \in ys} \intersect Page

(* Mutant of _report_scroll: the size read before it changed.              *)
_report_scroll_Early == reported' = <<offset', history_size>>

_report_scroll == reported' = <<offset', SizeOf(screen', kept')>>

(* The offset after lines were scrolled out, and the rows then dirty.  The *)
(* loop over the last offset rows starts above the window when the offset  *)
(* exceeds the height; those writes miss the arrays and have no effect     *)
(* here.  Mutants: the offset of a locked viewport not moved; nothing made *)
(* dirty ("do we need to taint all here?", viewport.c:82).                 *)
OffsetAfterInc_Still == IF locked THEN offset ELSE 0
OffsetAfterInc ==
    IF offset = 0 THEN 0 ELSE IF locked THEN offset + 1 ELSE 0
TaintedByInc_Nothing == {}
TaintedByInc ==
    IF offset = 0 THEN {}
    ELSE IF locked THEN {y \in Page : y >= height - (offset + 1)} ELSE Page

(* The same after lines were taken back and hsz are left.  Mutant: the     *)
(* offset of an unlocked viewport kept.                                    *)
OffsetAfterDec_Keep(hsz) == IF locked THEN int_min(offset, hsz) ELSE offset
OffsetAfterDec(hsz) ==
    IF offset = 0 THEN 0 ELSE IF locked THEN int_min(offset, hsz) ELSE 0
TaintedByDec(hsz) ==
    IF offset = OffsetAfterDec(hsz) THEN {} ELSE Page

-----------------------------------------------------------------------------
Init ==
    /\ height \in Heights
    /\ buffers = [sc \in {"norm", "alt"} |-> [y \in Page |-> Blank]]
    /\ screen = "norm"
    /\ kept = <<>>
    /\ offset = 0 /\ locked = FALSE /\ everLocked = FALSE
    /\ dirty = Page
    /\ shown = [y \in Page |-> NULL]
    /\ reported = <<0, 0>>

-----------------------------------------------------------------------------
(* What handlers do to the selected buffer.                                *)

SetRows(new) == buffers' = [buffers EXCEPT ![screen] = new]

(* be_input and the editing controls change one row, be_clear_area several *)
(* at a time.                                                              *)
ChangeRows(ys, line) ==
    /\ SetRows([y \in Page |-> IF y \in ys THEN line ELSE rows[y]])
    /\ dirty' = dirty \union viewport_taint(ys, offset)
    /\ UNCHANGED <<height, screen, kept, offset, locked, shown, reported>>

(* n calls of buffer_scroll_up store the first n rows, oldest first, when  *)
(* the region starts at the top.                                           *)
buffer_scroll_up(from, to, n) ==
    /\ SetRows([y \in Page |-> IF y < from \/ y > to THEN rows[y]
                              ELSE IF y + n <= to THEN rows[y + n] ELSE Blank])
    /\ kept' = IF from = 0 /\ screen = "norm"
               THEN [i \in 1 .. int_min(n + Len(kept), Capacity) |->
                       IF i <= n THEN rows[n - i] ELSE kept[i - n]]
               ELSE kept

(* n calls of buffer_scroll_down fetch as many lines, newest first.        *)
buffer_scroll_down(from, to, n) ==
    LET fetched(i) == IF from = 0 /\ screen = "norm" /\ i <= Len(kept)
                      THEN kept[i] ELSE Blank
    IN  /\ SetRows([y \in Page |-> IF y < from \/ y > to THEN rows[y]
                                  ELSE IF y - n >= from THEN rows[y - n]
                                  ELSE fetched(from + n - y)])
        /\ kept' = IF from = 0 /\ screen = "norm"
                   THEN SubSeq(kept, n + 1, Len(kept)) ELSE kept

ScrollUp(from, to, n) ==
    /\ buffer_scroll_up(from, to, n)
    /\ OffsetAfterInc <= MaxOffset
    /\ offset' = OffsetAfterInc
    /\ dirty' = dirty \union TaintedByInc \union viewport_taint(from .. to, offset')
    /\ UNCHANGED <<height, screen, locked, shown>>
    /\ _report_scroll

ScrollDown(from, to, n) ==
    /\ buffer_scroll_down(from, to, n)
    /\ offset' = OffsetAfterDec(SizeOf(screen, kept'))
    /\ dirty' = dirty \union TaintedByDec(SizeOf(screen, kept'))
                     \union viewport_taint(from .. to, offset')
    /\ UNCHANGED <<height, screen, locked, shown>>
    /\ _report_scroll

be_scroll_region ==
    \E from, to \in Page : \E n \in 1 .. to - from :
        ScrollUp(from, to, n) \/ ScrollDown(from, to, n)

be_switch_buffer(alt, erase) ==
    /\ screen' = IF alt THEN "alt" ELSE "norm"
    /\ buffers' = IF alt /\ erase
                  THEN [buffers EXCEPT !["alt"] = [y \in Page |-> Blank]]
                  ELSE buffers
    /\ offset' = IF alt THEN 0 ELSE offset
    /\ dirty' = Page
    /\ UNCHANGED <<height, kept, locked, shown>>
    /\ _report_scroll

(* DECSTR and RIS: the alternate buffer keeps its rows.                    *)
ac_reset ==
    /\ screen' = "norm"
    /\ buffers' = [buffers EXCEPT !["norm"] = [y \in Page |-> Blank]]
    /\ kept' = <<>>
    /\ offset' = 0
    /\ dirty' = Page
    /\ _report_scroll
    /\ UNCHANGED <<height, locked, shown>>

-----------------------------------------------------------------------------
(* What the frontend does.                                                 *)

(* A shorter buffer loses its last rows, a taller one gets blank ones; the *)
(* viewport starts dirty and the window shows nothing of use.              *)
te_resize(h) ==
    /\ h # height
    /\ height' = h
    /\ buffers' = [sc \in {"norm", "alt"} |->
                     [y \in 0 .. h - 1 |-> IF y < height THEN buffers[sc][y]
                                          ELSE Blank]]
    /\ dirty' = 0 .. h - 1
    /\ shown' = [y \in 0 .. h - 1 |-> NULL]
    /\ UNCHANGED <<screen, kept, offset, locked, reported>>

(* te_position, from the scroll bar or a key.                              *)
viewport_set(to) ==
    LET off == int_clamp(to, 0, history_size)
    IN  /\ offset' = off
        /\ dirty' = IF off # offset THEN Page ELSE dirty
        /\ UNCHANGED <<height, buffers, screen, kept, locked, shown>>
        /\ _report_scroll

viewport_lock_scroll(lock) ==
    /\ locked' = lock
    /\ everLocked' = (everLocked \/ lock)
    /\ UNCHANGED <<height, buffers, screen, kept, offset, dirty, shown, reported>>

(* A palette change redraws everything.                                    *)
viewport_taint_colors ==
    /\ dirty' = Page
    /\ UNCHANGED <<height, buffers, screen, kept, offset, locked, shown, reported>>

(* A redraw of rows ys draws those that are dirty, all when forced.        *)
viewport_request_redraw(ys, force) ==
    /\ shown' = [y \in Page |-> IF y \in ys /\ (force \/ y \in dirty)
                                THEN LineAt(y) ELSE shown[y]]
    /\ dirty' = dirty \ ys
    /\ UNCHANGED <<height, buffers, screen, kept, offset, locked, reported>>

-----------------------------------------------------------------------------
Output ==
    \/ \E y \in Page, line \in Lines : ChangeRows({y}, line)
    \/ \E y, z \in Page : y < z /\ ChangeRows(y .. z, Blank)
    \/ be_scroll_region
    \/ \E alt, erase \in BOOLEAN : be_switch_buffer(alt, erase)
    \/ ac_reset

Frontend ==
    \/ \E h \in Heights : te_resize(h)
    \/ \E to \in 0 .. Capacity : viewport_set(to)
    \/ viewport_taint_colors
    \/ \E y, z \in Page, force \in BOOLEAN :
          y <= z /\ viewport_request_redraw(y .. z, force)

OutputOrFrontend == (Output \/ Frontend) /\ UNCHANGED everLocked
Next == OutputOrFrontend \/ \E lock \in BOOLEAN : viewport_lock_scroll(lock)

Spec == Init /\ [][Next]_vars

-----------------------------------------------------------------------------
(* Properties.                                                             *)

TypeOK ==
    /\ height \in Heights
    /\ buffers \in [{"norm", "alt"} -> [Page -> Lines]]
    /\ screen \in {"norm", "alt"}
    /\ kept \in Seq(Lines) /\ Len(kept) <= Capacity
    /\ offset \in Nat /\ locked \in BOOLEAN /\ everLocked \in BOOLEAN
    /\ dirty \subseteq Page
    /\ shown \in [Page -> Lines \union {NULL}]
    /\ reported \in Nat \X Nat

(* viewport_dirty.h:9, "Keeps track of dirty regions": between redraws     *)
(* every row of the window that no longer shows what it is to show is      *)
(* dirty, so that the next redraw, which draws dirty rows only, makes the  *)
(* window right.  It is what scrolling, switching buffers, scrolling back  *)
(* and output while scrolled back must each taint enough for.  Under       *)
(* scroll lock the code does not (viewport.c:77-78), and the rows it left  *)
(* stale stay so: the property is about viewports never locked.            *)
Fresh == \A y \in Page : shown[y] # LineAt(y) => y \in dirty
NothingStale == ~everLocked => Fresh

(* The scroll bar shows where the viewport is: the last fe_position told   *)
(* the frontend the offset and the size of the scroll-back, whatever       *)
(* changed either.                                                         *)
ReportCurrent == reported = <<offset, history_size>>

(* A viewport that was never locked is not scrolled back past the lines    *)
(* that are kept, whatever output takes lines back or clears them.         *)
InHistory == offset <= history_size
WithinHistory == ~everLocked => InHistory

(* A locked viewport that is scrolled back stays on its lines while the    *)
(* page scrolls by one line and the scroll-back has room for it.           *)
LockHolds ==
    [][(/\ locked /\ offset > 0 /\ Len(kept) < Capacity
        /\ ScrollUp(0, height - 1, 1)) =>
          \A y \in Page : LineAt(y)' = LineAt(y)]_vars

(* The alternate buffer has no scroll-back and is shown from its first     *)
(* row, locked or not.                                                     *)
AltUnscrolled == screen = "alt" => offset = 0
=============================================================================
