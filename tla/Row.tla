-------------------------------- MODULE Row --------------------------------
(***************************************************************************)
(* One row of the screen: its cells (bufferrow.c), the handlers that edit  *)
(* them, the columns taken to be dirty (viewport_dirty.c) and their        *)
(* redraw.  The window is not scrolled back; moves of whole rows are       *)
(* Viewport's.  The build is one with assertions off, as all but Debug     *)
(* builds are.                                                             *)
(*                                                                         *)
(* The rendition and the autowrap and insert modes may be set to anything  *)
(* between two handlers and change nothing of the row, so each handler     *)
(* takes them as parameters.  Definitions marked as mutants are            *)
(* deliberate mistakes.                                                    *)
(***************************************************************************)
EXTENDS Integers, Sequences

CONSTANTS
    Width,     \* columns
    Styles,    \* renditions: colours and attributes
    Cleared,   \* what a cleared row looks like, by its rendition
    Glyphs,    \* characters other than the space
    Space,     \* the space
    MaxUsed    \* bound on the cells that insert mode makes a row hold

ASSUME SizeAssumption == Width \in Nat \ {0} /\ MaxUsed \in Nat
ASSUME GlyphAssumption == Space \notin Glyphs /\ Styles # {}
ASSUME ClearedAssumption == DOMAIN Cleared = Styles

VARIABLES
    text,     \* the used cells
    erase,    \* what is drawn after them
    x,        \* the cursor's column, or -1 when it is on another row
    visible,  \* the cursor is shown
    start,    \* the dirty columns are start .. end - 1
    end,
    stale     \* columns that look different from what was last drawn: the
              \* window's side of it, which no code keeps

vars == <<text, erase, x, visible, start, end, stale>>

Columns == 0 .. Width - 1
Cells == [style : Styles, glyph : Glyphs \union {Space}]
Blank(s) == [style |-> s, glyph |-> Space]

int_min(a, b) == IF a < b THEN a ELSE b
int_max(a, b) == IF a > b THEN a ELSE b

(* What column c of a row of used cells t is drawn as when e follows them: *)
(* fe_draw_clear takes the background of e, inverse or not.                *)
Look(t, e, c) == IF c < Len(t) THEN t[c + 1] ELSE Blank(Cleared[e.style])

-----------------------------------------------------------------------------
(* bufferrow.c, on the used cells t.                                       *)

Times(n, cell) == [i \in 1 .. n |-> cell]

(* Mutant of bufrow_replace: padded with what the row was cleared with.    *)
bufrow_replace_PadErase(t, c, symbols, blank) ==
    IF symbols = <<>> THEN t
    ELSE [i \in 1 .. int_max(c + Len(symbols), Len(t)) |->
            IF i > c /\ i <= c + Len(symbols) THEN symbols[i - c]
            ELSE IF i <= Len(t) THEN t[i] ELSE erase]

(* Columns between the used cells and column c are padded with blank.      *)
bufrow_replace(t, c, symbols, blank) ==
    IF symbols = <<>> THEN t
    ELSE [i \in 1 .. int_max(c + Len(symbols), Len(t)) |->
            IF i > c /\ i <= c + Len(symbols) THEN symbols[i - c]
            ELSE IF i <= Len(t) THEN t[i] ELSE blank]

bufrow_insert(t, c, symbols, blank) ==
    IF Len(t) <= c THEN bufrow_replace(t, c, symbols, blank)
    ELSE SubSeq(t, 1, c) \o symbols \o SubSeq(t, c + 1, Len(t))

bufrow_fill(t, c, value, len, blank) ==
    bufrow_replace(t, c, Times(len, value), blank)

(* Mutant of bufrow_remove: the tail taken one column early.               *)
bufrow_remove_Early(t, c, len) ==
    IF c >= Len(t) THEN t
    ELSE SubSeq(t, 1, c) \o SubSeq(t, c + len, int_min(Len(t), Width))

bufrow_remove(t, c, len) ==
    IF c >= Len(t) THEN t
    ELSE SubSeq(t, 1, c) \o SubSeq(t, c + len + 1, int_min(Len(t), Width))

-----------------------------------------------------------------------------
(* viewport_dirty.c, on an interval of columns s .. e - 1; an empty one is *)
(* kept as 0 and 0.                                                        *)

Interval(s, e) == IF s >= e THEN [s |-> 0, e |-> 0] ELSE [s |-> s, e |-> e]
Dirty == [s |-> start, e |-> end]

dirty_taint(d, from, to) ==
    Interval(int_max(0, int_min(d.s, from)), int_min(Width, int_max(d.e, to)))

(* Mutant of dirty_cleanse: columns before those drawn taken to be drawn.  *)
dirty_cleanse_Before(d, from, to) ==
    Interval(IF from < to THEN int_max(d.s, to) ELSE d.s, d.e)

(* Drawing the middle of the interval leaves it as it is.                  *)
dirty_cleanse(d, from, to) ==
    Interval(IF from <= d.s THEN int_max(d.s, to) ELSE d.s,
             IF to >= d.e THEN int_min(d.e, from) ELSE d.e)

(* The cursor's old and new cell are dirty when it moves.                  *)
TaintAt(d, c) == IF c < 0 THEN d ELSE dirty_taint(d, c, c + 1)
be_move_cursor(d, c) == IF c = x THEN d ELSE TaintAt(TaintAt(d, x), c)

-----------------------------------------------------------------------------
(* A step of a handler gives the row new cells t, takes the cursor to      *)
(* column c and makes d dirty; whatever looks different is stale.          *)

Becomes(t, e, c, vis, d) ==
    /\ text' = t /\ erase' = e /\ x' = c /\ visible' = vis
    /\ start' = d.s /\ end' = d.e
    /\ stale' = stale \union {col \in Columns :
                    \/ Look(t, e, col) # Look(text, erase, col)
                    \/ (vis /\ col = c) # (visible /\ col = x)}

Init ==
    /\ text = <<>> /\ erase \in {Blank(s) : s \in Styles}
    /\ x \in {-1, 0} /\ visible = TRUE
    /\ start = 0 /\ end = Width
    /\ stale = Columns

(* The used cells once n cells are typed at column c.                      *)
Typed(c, n, insert, cell) ==
    IF insert THEN bufrow_insert(text, c, Times(n, cell), Blank(cell.style))
              ELSE bufrow_replace(text, c, Times(n, cell), Blank(cell.style))
TypedDirty(n, insert) == dirty_taint(Dirty, x, IF insert THEN Width ELSE x + n)

(* What be_input writes to one line with autowrap: the rest of its text    *)
(* goes to the next lines.                                                 *)
be_input_wrapping(len, insert, cell) ==
    LET t == Typed(x, len, insert, cell)
        c == int_min(x + len, Width - 1)
    IN  /\ len <= Width - x /\ Len(t) <= MaxUsed
        /\ Becomes(t, erase, c, visible, be_move_cursor(TypedDirty(len, insert), c))

(* Without autowrap, text past the last column replaces its cell.          *)
be_input_clipped(len, insert, cell) ==
    LET n == int_min(len, Width - x - 1)
        t == Typed(x, n, insert, cell)
        last == IF len > n
                THEN bufrow_replace(t, Width - 1, <<cell>>, Blank(cell.style))
                ELSE t
    IN  /\ Len(t) <= MaxUsed
        /\ Becomes(last, erase, x + n, visible,
                   be_move_cursor(TypedDirty(n, insert), x + n))

be_clear_area(c, width, s) ==
    Becomes(bufrow_fill(text, c, Blank(s), width, Blank(s)), erase, x, visible,
            dirty_taint(Dirty, c, c + width))

(* EL and ED to the right, ECH; to the left; the whole row.                *)
Erase(s) ==
    \/ (x >= 0 /\ \E width \in 1 .. Width - x : be_clear_area(x, width, s))
    \/ x >= 0 /\ be_clear_area(0, x + 1, s)
    \/ be_clear_area(0, Width, s)

(* The used cells after DCH and ICH by n.                                  *)
Deleted(n, s) ==
    IF n >= Width - x THEN bufrow_fill(text, x, Blank(s), n, Blank(s))
                      ELSE bufrow_remove(text, x, n)
Inserted(n, s) ==
    IF n >= Width - x THEN bufrow_fill(text, x, Blank(s), n, Blank(s))
    ELSE bufrow_insert(text, x, Times(n, Blank(s)), Blank(s))

ac_delete_char(n, s) ==
    Becomes(Deleted(n, s), erase, x, visible, dirty_taint(Dirty, x, Width))

ac_insert_char(n, s) ==
    /\ Len(Inserted(n, s)) <= MaxUsed
    /\ Becomes(Inserted(n, s), erase, x, visible, dirty_taint(Dirty, x, Width))

(* A scrolled region leaves a cleared row where lines moved away.          *)
bufrow_clear(s) ==
    Becomes(<<>>, Blank(s), x, visible, dirty_taint(Dirty, 0, Width))

MoveCursor(c) ==
    c # x /\ Becomes(text, erase, c, visible, be_move_cursor(Dirty, c))

(* DECTCEM (25): the row is not made dirty, neither way.                   *)
ShowCursor(on) == Becomes(text, erase, x, on, Dirty)

dirty_taint_row == Becomes(text, erase, x, visible, [s |-> 0, e |-> Width])

(* Mutant of viewport_request_redraw: the cursor drawn only when forced.   *)
viewport_request_redraw_NoCursor(c, width, force) ==
    LET from == IF force THEN c ELSE int_max(c, start)
        to   == IF force THEN c + width ELSE int_min(c + width, end)
        d    == dirty_cleanse(Dirty, from, to)
    IN  /\ stale' = {col \in stale :
                       /\ ~(from <= col /\ col < to)
                       /\ ~(visible /\ col = x /\ force)}
        /\ start' = d.s /\ end' = d.e
        /\ UNCHANGED <<text, erase, x, visible>>

(* A redraw of width columns from c on draws those that are dirty, all     *)
(* when forced, and the cursor, when it is inside or the redraw forced.    *)
viewport_request_redraw(c, width, force) ==
    LET from == IF force THEN c ELSE int_max(c, start)
        to   == IF force THEN c + width ELSE int_min(c + width, end)
        d    == dirty_cleanse(Dirty, from, to)
    IN  /\ stale' = {col \in stale :
                       /\ ~(from <= col /\ col < to)
                       /\ ~(visible /\ col = x
                              /\ (force \/ (c <= col /\ col < c + width)))}
        /\ start' = d.s /\ end' = d.e
        /\ UNCHANGED <<text, erase, x, visible>>

OnCursorRow ==
    /\ x >= 0
    /\ \/ \E len \in 1 .. Width + 1, insert \in BOOLEAN, cell \in Cells :
             be_input_wrapping(len, insert, cell) \/ be_input_clipped(len, insert, cell)
       \/ \E n \in 1 .. Width - x, s \in Styles :
             ac_delete_char(n, s) \/ ac_insert_char(n, s)

Next ==
    \/ OnCursorRow
    \/ \E s \in Styles : Erase(s) \/ bufrow_clear(s)
    \/ \E c \in -1 .. Width - 1 : MoveCursor(c)
    \/ \E on \in BOOLEAN : ShowCursor(on)
    \/ dirty_taint_row
    \/ \E c \in Columns, force \in BOOLEAN : \E width \in 1 .. Width - c :
          viewport_request_redraw(c, width, force)

Spec == Init /\ [][Next]_vars

-----------------------------------------------------------------------------
(* Properties.                                                             *)

(* Every variable has its type; the dirty columns are an interval of the   *)
(* row, none being 0 .. 0 (fe_draw_text is called with what lies in it).   *)
TypeOK ==
    /\ text \in Seq(Cells)
    /\ erase \in {Blank(s) : s \in Styles}
    /\ x \in -1 .. Width - 1 /\ visible \in BOOLEAN
    /\ start \in Nat /\ end \in 0 .. Width
    /\ (start < end \/ (start = 0 /\ end = 0))
    /\ stale \subseteq Columns

(* viewport_dirty.h:9, "Keeps track of dirty regions": every column that   *)
(* looks different from what was last drawn is dirty or under the cursor,  *)
(* which each redraw draws.                                                *)
Covered == \A c \in stale : c \in start .. end - 1 \/ (visible /\ c = x)

(* No handler leaves a column of the row to look different without making  *)
(* it dirty, but for three: hiding the cursor, which stays on the window;  *)
(* padding a row with a rendition other than the one it was cleared with;  *)
(* and, with the cursor hidden, replacing the last cell without autowrap.  *)
HidesCursor == visible /\ ~visible'
PadsInColour ==
    /\ Len(text) < x /\ Len(text') > Len(text)
    /\ text'[Len(text) + 1] # Look(text, erase, Len(text))
ReplacesUnseen ==
    /\ ~visible /\ x = Width - 1
    /\ \E len \in 1 .. Width + 1, insert \in BOOLEAN, cell \in Cells :
          be_input_clipped(len, insert, cell)
StaysCovered ==
    [][Covered => \/ Covered'
                  \/ HidesCursor \/ PadsInColour \/ ReplacesUnseen]_vars

(* A redraw of the whole row, forced or not, makes it right.               *)
RedrawRestores ==
    [][\A force \in BOOLEAN :
          (Covered /\ viewport_request_redraw(0, Width, force)) => stale' = {}]_vars

(* ICH moves the cells from the cursor on to the right and blanks its      *)
(* columns.  DCH moves them to the left, what lies past the right margin   *)
(* excepted, and leaves cleared columns behind, or blanks when it deletes  *)
(* all to the margin.  Neither touches a used cell before the cursor; the  *)
(* columns between the used cells and the cursor become blanks of the      *)
(* current rendition, whatever the row was cleared with: by ICH always, by *)
(* DCH only when it deletes all to the margin.                             *)
EditsMove ==
    x >= 0 => \A n \in 1 .. Width - x, s \in Styles, c \in Columns :
        LET now == Look(text, erase, c)
            padded == IF c < Len(text) THEN now ELSE Blank(s)
            inserted == Look(Inserted(n, s), erase, c)
            deleted == Look(Deleted(n, s), erase, c)
        IN  IF c < x
            THEN /\ inserted = padded
                 /\ deleted = IF n < Width - x THEN now ELSE padded
            ELSE /\ inserted = IF c < x + n THEN Blank(s)
                               ELSE Look(text, erase, c - n)
                 /\ deleted = IF c + n < Width THEN Look(text, erase, c + n)
                              ELSE IF n < Width - x THEN Blank(Cleared[erase.style])
                              ELSE Blank(s)
=============================================================================
