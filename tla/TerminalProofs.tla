--------------------------- MODULE TerminalProofs ---------------------------
(***************************************************************************)
(* For every set of sizes of two lines or more, every tab width, every set *)
(* of parameters and every width of int: the state of the terminal has its *)
(* type and what it asks of the row buffer is in bounds.                   *)
(***************************************************************************)
EXTENDS Terminal, TLAPS

-----------------------------------------------------------------------------
(* Arithmetic and parameters.                                              *)

(* int_clamp of misc.h returns a value between its bounds.                 *)
LEMMA ClampBounds ==
    ASSUME NEW x \in Int, NEW lo \in Int, NEW hi \in Int, lo <= hi
    PROVE  int_clamp(x, lo, hi) \in lo .. hi
BY DEF int_clamp

(* A wrapping sum is an integer.                                           *)
LEMMA PlusInt == ASSUME NEW a \in Int, NEW b \in Int PROVE Plus(a, b) \in Int
BY BoundsAssumption DEF Plus

(* A size has a column and two lines.                                      *)
LEMMA SizeFacts ==
    ASSUME NEW s \in Sizes
    PROVE  s.w \in Int /\ s.w >= 1 /\ s.h \in Int /\ s.h >= 2
BY SizesAssumption

(* A parameter is an integer, present or not.                              *)
LEMMA ParamInt ==
    ASSUME NEW ps \in ParamPairs, NEW i \in {0, 1}, NEW default \in Int
    PROVE  parser_get_param(ps, i, default) \in Int
<1>1. CASE ps = <<>>
  BY <1>1 DEF parser_get_param
<1>2. CASE \E p \in ParamValues : ps = <<p>>
  BY <1>2, ParamAssumption DEF parser_get_param
<1>3. CASE ps \in ParamValues \X ParamValues
  <2>1. PICK p \in ParamValues, q \in ParamValues : ps = <<p, q>>
    BY <1>3
  <2>2. Len(ps) = 2 /\ ps[1] = p /\ ps[2] = q
    BY <2>1
  <2> QED
    BY <2>2, ParamAssumption DEF parser_get_param
<1> QED
  BY <1>1, <1>2, <1>3 DEF ParamPairs, Params

LEMMA ParamsArePairs == Params \subseteq ParamPairs
BY DEF ParamPairs

LEMMA CountPositive ==
    ASSUME NEW ps \in Params PROVE Count(ps) \in Int /\ Count(ps) >= 1
BY ParamInt, ParamsArePairs DEF Count, int_max

-----------------------------------------------------------------------------
(* be_move_cursor puts the cursor on the page, wherever it is asked to.    *)
Page(s) == [x : 0 .. s.w - 1, y : 0 .. s.h - 1]

LEMMA AtOnPage ==
    ASSUME NEW x \in Int, NEW y \in Int, NEW s \in Sizes
    PROVE  At(x, y, s) \in Page(s)
<1>1. 0 <= s.w - 1 /\ 0 <= s.h - 1 /\ s.w - 1 \in Int /\ s.h - 1 \in Int
  BY SizeFacts
<1>2. int_clamp(x, 0, s.w - 1) \in 0 .. s.w - 1
  BY <1>1 DEF int_clamp
<1>3. int_clamp(y, 0, s.h - 1) \in 0 .. s.h - 1
  BY <1>1 DEF int_clamp
<1> QED
  BY <1>2, <1>3 DEF At, Page

(* The calls recorded by a step are in bounds on a page of h lines.        *)
Scrollable(h) == {r \in Int \X Int \X Int :
    /\ 0 <= r[1] /\ r[1] < r[2] /\ r[2] < h
    /\ r[3] # 0 /\ r[3] <= r[2] - r[1] /\ -r[3] <= r[2] - r[1]}
CallsOK == touched \subseteq Rows /\ scrolled \subseteq Scrollable(size.h)

Inv == TypeOK /\ BufferCallsInBounds

(* What a handler that keeps the size has to establish.                    *)
LEMMA StepOK ==
    ASSUME TypeOK, UNCHANGED setup, cursor' \in Page(size), CallsOK'
    PROVE  Inv'
BY SizeFacts DEF TypeOK, setup, Page, CallsOK, Inv, BufferCallsInBounds,
    Scrollable, Rows

LEMMA NoCallsOK == NoCalls => CallsOK'
BY DEF NoCalls, CallsOK

LEMMA TouchOK ==
    ASSUME NEW rows, rows \subseteq Rows, Touch(rows), size' = size
    PROVE  CallsOK'
BY DEF Touch, CallsOK, Rows

LEMMA ScrollOK ==
    ASSUME NEW from \in Int, NEW to \in Int, NEW num \in Int,
           size' = size, be_scroll_region(from, to, num),
           0 <= from, from < to, to < size.h,
           num <= to - from, -num <= to - from
    PROVE  CallsOK'
BY DEF be_scroll_region, CallsOK, Scrollable

(* The ranges TypeOK gives the numbers handlers compute with.              *)
LEMMA Ranges ==
    ASSUME TypeOK
    PROVE  /\ size \in Sizes
           /\ size.w \in Int /\ size.w >= 1 /\ size.h \in Int /\ size.h >= 2
           /\ cursor \in Page(size)
           /\ cursor.x \in Int /\ 0 <= cursor.x /\ cursor.x < size.w
           /\ cursor.y \in Int /\ 0 <= cursor.y /\ cursor.y < size.h
           /\ margins.top \in Int /\ 0 <= margins.top
           /\ margins.bot \in Int /\ margins.bot < size.h
           /\ margins.top < margins.bot
           /\ stored.x \in Int /\ stored.y \in Int
<1>1. size.w \in Int /\ size.w >= 1 /\ size.h \in Int /\ size.h >= 2
  BY SizeFacts DEF TypeOK
<1> QED
  BY <1>1 DEF TypeOK, Page, Rows

(* A handler that only moves the cursor.                                   *)
LEMMA MoveOK ==
    ASSUME TypeOK, UNCHANGED setup, NEW x \in Int, NEW y \in Int,
           be_move_cursor(x, y), CallsOK'
    PROVE  Inv'
BY Ranges, AtOnPage, StepOK DEF be_move_cursor

(* A handler that only edits rows or scrolls.                              *)
LEMMA EditOK ==
    ASSUME TypeOK, UNCHANGED <<setup, cursor>>, CallsOK'
    PROVE  Inv'
BY Ranges, StepOK

-----------------------------------------------------------------------------
LEMMA InitOK == Init => Inv
<1> SUFFICES ASSUME Init PROVE Inv
  OBVIOUS
<1>1. size.w \in Int /\ size.w >= 1 /\ size.h \in Int /\ size.h >= 2
  BY SizeFacts DEF Init
<1>2. cursor \in [x : 0 .. size.w - 1, y : Rows]
  BY <1>1 DEF Init, Rows
<1>3. margins \in [top : Rows, bot : Rows] /\ margins.top < margins.bot
  BY <1>1 DEF Init, Rows, PageMargins
<1>4. BufferCallsInBounds
  BY DEF Init, BufferCallsInBounds
<1> QED
  BY <1>2, <1>3, <1>4 DEF Init, Inv, TypeOK, Modes

LEMMA DownOK ==
    ASSUME TypeOK, NEW c \in Page(size)
    PROVE  Down(c) \in Page(size)
<1>1. c.x \in Int /\ c.y + 1 \in Int
  BY Ranges DEF Page
<1> QED
  BY <1>1, Ranges, AtOnPage DEF Down

LEMMA IndexScrollOK ==
    ASSUME TypeOK, size' = size, touched' = {},
           scrolled' = ScrolledBelow(cursor)
    PROVE  CallsOK'
BY Ranges DEF ScrolledBelow, CallsOK, Scrollable

LEMMA IndexDownOK == ASSUME TypeOK, ac_index_down PROVE Inv'
<1>1. UNCHANGED setup /\ size' = size
  BY DEF ac_index_down, setup
<1>2. CallsOK'
  BY <1>1, IndexScrollOK DEF ac_index_down
<1>3. cursor' \in Page(size)
  BY Ranges, DownOK DEF ac_index_down
<1> QED
  BY <1>1, <1>2, <1>3, StepOK

LEMMA NextLineOK == ASSUME TypeOK, ac_next_line PROVE Inv'
<1>1. UNCHANGED setup /\ size' = size
  BY DEF ac_next_line, setup
<1>2. CallsOK'
  BY <1>1, IndexScrollOK DEF ac_next_line
<1>3. Down(cursor).y \in Int
  BY Ranges, DownOK DEF Page
<1>4. cursor' \in Page(size)
  BY <1>3, Ranges, AtOnPage DEF ac_next_line
<1> QED
  BY <1>1, <1>2, <1>4, StepOK

LEMMA IndexUpOK == ASSUME TypeOK, ac_index_up PROVE Inv'
<1>1. UNCHANGED setup /\ size' = size
  BY DEF ac_index_up, setup
<1>2. CASE /\ cursor.y = margins.top
           /\ be_scroll_region(margins.top, margins.bot, -1)
           /\ UNCHANGED cursor
  <2>1. CallsOK'
    BY <1>1, <1>2, Ranges, ScrollOK
  <2> QED
    BY <1>1, <1>2, <2>1, EditOK
<1>3. CASE be_move_cursor(cursor.x, cursor.y - 1) /\ NoCalls
  BY <1>1, <1>3, Ranges, NoCallsOK, MoveOK
<1> QED
  BY <1>2, <1>3 DEF ac_index_up

LEMMA NextLinesInt ==
    ASSUME TypeOK, NEW c \in Page(size), NEW len \in Int
    PROVE  NextLines(c, len) \in Int
<1>1. c.x \in Int
  BY DEF Page
<1>2. len - (size.w - c.x) + size.w - 1 \in Int
  BY <1>1, Ranges
<1>3. (len - (size.w - c.x) + size.w - 1) \div size.w \in Int
  BY <1>2, Ranges
<1> QED
  BY <1>3 DEF NextLines

LEMMA WrappedOK ==
    ASSUME TypeOK, NEW c \in Page(size), NEW len \in Int
    PROVE  Wrapped(c, len) \in Page(size)
<1> DEFINE n == NextLines(c, len)
<1>1. n \in Int /\ c.x \in Int /\ c.y \in Int
  BY NextLinesInt DEF Page
<1>2. n * size.w \in Int
  BY <1>1, Ranges
<1>3. ColumnAfter(c, len) \in Int
  BY <1>1, <1>2 DEF ColumnAfter
<1>4. LineAfter(c, n) \in Int
  BY <1>1, Ranges DEF LineAfter, int_min
<1> QED
  BY <1>3, <1>4, Ranges, AtOnPage DEF Wrapped

LEMMA InputOK ==
    ASSUME TypeOK, NEW len \in 1 .. MaxChunk, be_input(len) PROVE Inv'
<1> USE Ranges
<1>1. UNCHANGED setup /\ size' = size
  BY DEF be_input, setup
<1>2. CASE be_input_wrapping(len)
  <2>1. cursor' \in Page(size)
    BY <1>2, WrappedOK DEF be_input_wrapping
  <2>2. touched' \subseteq Rows
    BY <1>2, <2>1 DEF be_input_wrapping, Page, Rows
  <2>3. scrolled' \subseteq Scrollable(size.h)
    BY <1>2 DEF be_input_wrapping, Scrollable
  <2>4. CallsOK'
    BY <1>1, <2>2, <2>3 DEF CallsOK, Rows
  <2> QED
    BY <1>1, <2>1, <2>4, StepOK
<1>3. CASE be_input_clipped(len)
  <2> DEFINE x == cursor.x + int_min(len, size.w - cursor.x - 1)
  <2>1. x \in Int
    BY DEF int_min
  <2>2. CallsOK'
    BY <1>1, <1>3, TouchOK DEF be_input_clipped, Rows
  <2>3. be_move_cursor(x, cursor.y)
    BY <1>3 DEF be_input_clipped
  <2> HIDE DEF x
  <2> QED
    BY <1>1, <2>1, <2>2, <2>3, MoveOK
<1> QED
  BY <1>2, <1>3 DEF be_input

LEMMA TabOK == ASSUME TypeOK, ac_tab PROVE Inv'
<1>1. UNCHANGED setup /\ size' = size /\ CallsOK' /\ cursor.y \in Int
  BY NoCallsOK, Ranges DEF ac_tab, setup
<1>2. CASE \E t \in StopsAhead : be_move_cursor(t, cursor.y)
  <2>1. PICK t \in tabs : be_move_cursor(t, cursor.y)
    BY <1>2 DEF StopsAhead
  <2>2. t \in Int
    BY Ranges DEF TypeOK
  <2> QED
    BY <1>1, <2>1, <2>2, MoveOK
<1>3. CASE be_move_cursor(int_min(DefaultStop, size.w - 1), cursor.y)
  <2>1. cursor.x + TabWidth - 1 \in Int /\ TabWidth \in Int /\ TabWidth >= 1
    BY Ranges, BoundsAssumption
  <2>2. DefaultStop \in Int
    BY <2>1 DEF DefaultStop
  <2>3. int_min(DefaultStop, size.w - 1) \in Int
    BY <2>2, Ranges DEF int_min
  <2> QED
    BY <1>1, <1>3, <2>3, MoveOK
<1> QED
  BY <1>2, <1>3 DEF ac_tab

LEMMA CrOK == ASSUME TypeOK, ac_cr PROVE Inv'
BY Ranges, NoCallsOK, MoveOK DEF ac_cr

LEMMA BsOK == ASSUME TypeOK, ac_bs PROVE Inv'
BY Ranges, NoCallsOK, MoveOK DEF ac_bs

-----------------------------------------------------------------------------
(* Cursor controls.                                                        *)

LEMMA CursorOK ==
    ASSUME TypeOK, NEW ps \in Params,
           \/ ac_cursor_left(ps) \/ ac_cursor_right(ps)
           \/ ac_cursor_up(ps) \/ ac_cursor_down(ps)
    PROVE  Inv'
<1> DEFINE n == Count(ps)
           left == int_max(0, cursor.x - n)
           right == int_min(size.w - 1, Plus(cursor.x, n))
           up == int_max(Highest, cursor.y - n)
           down == int_min(Lowest, Plus(cursor.y, n))
<1>1. n \in Int
  BY CountPositive
<1> HIDE DEF n
<1>2. Plus(cursor.x, n) \in Int /\ Plus(cursor.y, n) \in Int
  BY <1>1, Ranges, PlusInt
<1>3. Highest \in Int /\ Lowest \in Int
  BY Ranges DEF Highest, Lowest
<1>4. left \in Int /\ right \in Int /\ up \in Int /\ down \in Int
  BY <1>1, <1>2, <1>3, Ranges DEF int_min, int_max
<1>5. UNCHANGED setup /\ CallsOK' /\ cursor.x \in Int /\ cursor.y \in Int
  BY NoCallsOK, Ranges
  DEF ac_cursor_left, ac_cursor_right, ac_cursor_up, ac_cursor_down
<1>6. \/ be_move_cursor(left, cursor.y) \/ be_move_cursor(right, cursor.y)
      \/ be_move_cursor(cursor.x, up) \/ be_move_cursor(cursor.x, down)
  BY DEF ac_cursor_left, ac_cursor_right, ac_cursor_up, ac_cursor_down, n
<1> HIDE DEF left, right, up, down
<1> QED
  BY <1>4, <1>5, <1>6, MoveOK

LEMMA LineInt == ASSUME TypeOK, NEW n \in Int PROVE LineOf(n) \in Int
<1>1. Plus(n, margins.top) \in Int
  BY Ranges, PlusInt
<1> QED
  BY <1>1, Ranges DEF LineOf, int_clamp

LEMMA ColumnInt == ASSUME TypeOK, NEW n \in Int PROVE ColumnOf(n) \in Int
BY Ranges DEF ColumnOf, int_clamp

LEMMA PositionOK ==
    ASSUME TypeOK, NEW ps \in ParamPairs PROVE PositionOf(ps) \in Page(size)
<1> DEFINE p == parser_get_param(ps, 0, 1)
           q == parser_get_param(ps, 1, 1)
<1>1. p \in Int /\ q \in Int
  BY ParamInt
<1> HIDE DEF p, q
<1>2. int_max(p, 1) \in Int
  BY <1>1 DEF int_max
<1>3. LineOf(int_max(p, 1)) \in Int /\ ColumnOf(q) \in Int
  BY <1>1, <1>2, LineInt, ColumnInt
<1> QED
  BY <1>3, Ranges, AtOnPage DEF PositionOf, p, q

LEMMA AbsoluteOK ==
    ASSUME TypeOK, NEW ps \in ParamPairs,
           \/ ac_cursor_position(ps) \/ ac_column_position(ps)
           \/ ac_line_position(ps)
    PROVE  Inv'
<1> DEFINE p == parser_get_param(ps, 0, 1)
<1>1. p \in Int
  BY ParamInt
<1> HIDE DEF p
<1>2. LineOf(p) \in Int /\ ColumnOf(p) \in Int
  BY <1>1, LineInt, ColumnInt
<1>3. UNCHANGED setup /\ CallsOK' /\ cursor.x \in Int /\ cursor.y \in Int
  BY NoCallsOK, Ranges
  DEF ac_cursor_position, ac_column_position, ac_line_position
<1>4. CASE ac_cursor_position(ps)
  BY <1>3, <1>4, PositionOK, StepOK DEF ac_cursor_position
<1>5. CASE ac_column_position(ps)
  BY <1>2, <1>3, <1>5, MoveOK DEF ac_column_position, p
<1>6. CASE ac_line_position(ps)
  BY <1>2, <1>3, <1>6, MoveOK DEF ac_line_position, p
<1> QED
  BY <1>4, <1>5, <1>6

-----------------------------------------------------------------------------
(* Handlers that change more than the cursor.                              *)

Slots == [x : Nat, y : Nat, autowrap : BOOLEAN]

LEMMA KeepSizeOK ==
    ASSUME TypeOK, size' = size, cursor' \in Page(size),
           margins' \in [top : Rows, bot : Rows], margins'.top < margins'.bot,
           modes' \subseteq Modes, stored' \in Slots,
           tabs' \subseteq 0 .. size.w - 1, screen' \in {"norm", "alt"},
           reversed' \in BOOLEAN, CallsOK'
    PROVE  Inv'
BY Ranges DEF TypeOK, Page, Slots, CallsOK, Inv, BufferCallsInBounds,
    Scrollable, Rows

(* The parts of TypeOK, as KeepSizeOK wants them.                          *)
LEMMA Parts ==
    ASSUME TypeOK
    PROVE  /\ margins \in [top : Rows, bot : Rows] /\ margins.top < margins.bot
           /\ modes \subseteq Modes /\ stored \in Slots
           /\ tabs \subseteq 0 .. size.w - 1 /\ screen \in {"norm", "alt"}
           /\ reversed \in BOOLEAN
BY DEF TypeOK, Slots

LEMMA SavedOK == ASSUME TypeOK PROVE Saved \in Slots
BY Ranges DEF Saved, Slots

LEMMA FlagOK ==
    ASSUME TypeOK, NEW f \in Modes, NEW on \in BOOLEAN
    PROVE  Flag(f, on) \subseteq Modes
BY DEF Flag, TypeOK

LEMMA PageOK ==
    ASSUME NEW s \in Sizes
    PROVE  /\ PageMargins(s) \in [top : 0 .. s.h - 1, bot : 0 .. s.h - 1]
           /\ PageMargins(s).top < PageMargins(s).bot
BY SizeFacts DEF PageMargins

LEMMA HomeOK ==
    ASSUME TypeOK, NEW x \in Int, NEW y \in Int, be_move_cursor(x, y)
    PROVE  cursor' \in Page(size)
BY Ranges, AtOnPage DEF be_move_cursor

LEMMA TabStopsOK ==
    ASSUME TypeOK, NEW ps \in Params, ac_set_tab \/ ac_clear_tab(ps)
    PROVE  Inv'
<1>1. size' = size /\ cursor' = cursor /\ CallsOK'
  BY NoCallsOK DEF ac_set_tab, ac_clear_tab
<1>2. tabs' \subseteq 0 .. size.w - 1
  BY Ranges, Parts DEF ac_set_tab, ac_clear_tab
<1> QED
  BY <1>1, <1>2, Ranges, Parts, KeepSizeOK DEF ac_set_tab, ac_clear_tab

LEMMA SlotOK ==
    ASSUME TypeOK, \/ ac_save_cursor \/ ac_restore_cursor
                   \/ SaveAndSwitch \/ RestoreAndSwitch
    PROVE  Inv'
<1> USE Ranges, Parts, SavedOK
<1>1. RestoredModes \subseteq Modes
  BY FlagOK DEF RestoredModes, Modes, Slots
<1>2. size' = size /\ CallsOK'
  BY NoCallsOK
  DEF ac_save_cursor, ac_restore_cursor, SaveAndSwitch, RestoreAndSwitch
<1>3. cursor' \in Page(size)
  BY HomeOK
  DEF ac_save_cursor, ac_restore_cursor, SaveAndSwitch, RestoreAndSwitch
<1> QED
  BY <1>1, <1>2, <1>3, KeepSizeOK
  DEF ac_save_cursor, ac_restore_cursor, SaveAndSwitch, RestoreAndSwitch

LEMMA EraseOK ==
    ASSUME TypeOK, NEW ps \in Params,
           ac_erase_display(ps) \/ ac_erase_line(ps) \/ EditRow
    PROVE  Inv'
<1>1. UNCHANGED <<setup, cursor>> /\ size' = size
  BY DEF ac_erase_display, ac_erase_line, EditRow, setup
<1>2. CASE ac_erase_display(ps)
  BY <1>1, <1>2, Ranges, TouchOK, EditOK DEF ac_erase_display, Rows
<1>3. CASE ac_erase_line(ps)
  BY <1>1, <1>3, Ranges, TouchOK, EditOK DEF ac_erase_line, Rows
<1>4. CASE EditRow
  BY <1>1, <1>4, Ranges, TouchOK, EditOK DEF EditRow, Rows
<1> QED
  BY <1>2, <1>3, <1>4

LEMMA InsertLineOK ==
    ASSUME TypeOK, NEW ps \in Params, ac_insert_line(ps) PROVE Inv'
<1> DEFINE n == Count(ps)
<1>1. n \in Int /\ n >= 1
  BY CountPositive
<1>2. UNCHANGED <<setup, cursor>> /\ size' = size
  BY DEF ac_insert_line, setup
<1>3. \/ Touch(cursor.y .. margins.bot - 1)
      \/ /\ n < margins.bot - cursor.y + 1
         /\ be_scroll_region(cursor.y, margins.bot, -n)
  BY <1>1, Ranges DEF ac_insert_line
<1> HIDE DEF n
<1>4. CASE Touch(cursor.y .. margins.bot - 1)
  <2>1. cursor.y .. margins.bot - 1 \subseteq Rows
    BY Ranges DEF Rows
  <2> QED
    BY <1>2, <1>4, <2>1, TouchOK, EditOK
<1>5. CASE /\ n < margins.bot - cursor.y + 1
           /\ be_scroll_region(cursor.y, margins.bot, -n)
  <2>1. -n \in Int /\ cursor.y < margins.bot /\ -n <= margins.bot - cursor.y
        /\ -(-n) <= margins.bot - cursor.y
    BY <1>1, <1>5, Ranges
  <2>2. CallsOK'
    BY <1>2, <1>5, <2>1, Ranges, ScrollOK
  <2> QED
    BY <1>2, <2>2, EditOK
<1> QED
  BY <1>3, <1>4, <1>5

LEMMA DeleteLineOK ==
    ASSUME TypeOK, NEW ps \in Params, ac_delete_line(ps) PROVE Inv'
<1> DEFINE p == parser_get_param(ps, 0, 1)
           mx == margins.bot - cursor.y + 1
           n == int_clamp(p, 1, mx)
<1>1. p \in Int
  BY ParamInt, ParamsArePairs
<1>2. UNCHANGED <<setup, cursor>> /\ size' = size
  BY DEF ac_delete_line, setup
<1>3. /\ cursor.y <= margins.bot
      /\ \/ Touch(cursor.y .. margins.bot)
         \/ n # mx /\ be_scroll_region(cursor.y, margins.bot, n)
  BY DEF ac_delete_line, InMargins
<1> HIDE DEF p
<1>4. n \in Int /\ 1 <= n /\ n <= mx
  BY <1>1, <1>3, Ranges DEF int_clamp
<1>5. mx \in Int /\ mx = margins.bot - cursor.y + 1
  BY Ranges
<1> HIDE DEF n, mx
<1>6. CASE Touch(cursor.y .. margins.bot)
  <2>1. cursor.y .. margins.bot \subseteq Rows
    BY Ranges DEF Rows
  <2> QED
    BY <1>2, <1>6, <2>1, TouchOK, EditOK
<1>7. CASE n # mx /\ be_scroll_region(cursor.y, margins.bot, n)
  <2>1. cursor.y < margins.bot /\ n <= margins.bot - cursor.y
        /\ -n <= margins.bot - cursor.y
    BY <1>4, <1>5, <1>7, Ranges
  <2>2. CallsOK'
    BY <1>2, <1>4, <1>7, <2>1, Ranges, ScrollOK
  <2> QED
    BY <1>2, <2>2, EditOK
<1> QED
  BY <1>3, <1>6, <1>7

LEMMA ScrollLinesOK ==
    ASSUME TypeOK, NEW ps \in Params, ac_scroll_up(ps) \/ ac_scroll_down(ps)
    PROVE  Inv'
<1> DEFINE p == parser_get_param(ps, 0, 1)
<1>1. p \in Int
  BY ParamInt, ParamsArePairs
<1> HIDE DEF p
<1>2. /\ ScrollLines(ps) \in Int /\ 1 <= ScrollLines(ps)
      /\ ScrollLines(ps) <= margins.bot - margins.top
  BY <1>1, Ranges DEF ScrollLines, int_clamp, p
<1>3. UNCHANGED <<setup, cursor>> /\ size' = size
  BY DEF ac_scroll_up, ac_scroll_down, setup
<1>4. \/ be_scroll_region(margins.top, margins.bot, ScrollLines(ps))
      \/ be_scroll_region(margins.top, margins.bot, -ScrollLines(ps))
  BY DEF ac_scroll_up, ac_scroll_down
<1>5. CallsOK'
  BY <1>2, <1>3, <1>4, Ranges, ScrollOK
<1> QED
  BY <1>3, <1>5, EditOK

LEMMA MarginsOK ==
    ASSUME TypeOK, NEW ps \in ParamPairs
    PROVE  /\ MarginsOf(ps) \in [top : Rows, bot : Rows]
           /\ MarginsOf(ps).top < MarginsOf(ps).bot
<1> DEFINE p == parser_get_param(ps, 0, 1)
           q == parser_get_param(ps, 1, size.h)
           t == int_clamp(p, 1, size.h)
           b == int_clamp(q, 1, size.h)
<1>1. p \in Int /\ q \in Int
  BY ParamInt, Ranges
<1> HIDE DEF p, q
<1>2. t \in 1 .. size.h /\ b \in 1 .. size.h
  BY <1>1, Ranges DEF int_clamp
<1>3. MarginsOf(ps) = IF t >= b THEN PageMargins(size)
                                ELSE [top |-> t - 1, bot |-> b - 1]
  BY DEF MarginsOf, p, q
<1> HIDE DEF t, b
<1> QED
  BY <1>2, <1>3, Ranges, PageOK DEF Rows

LEMMA SetMarginsOK ==
    ASSUME TypeOK, NEW ps \in ParamPairs, ac_set_margins(ps) PROVE Inv'
<1>1. size' = size /\ CallsOK'
  BY NoCallsOK DEF ac_set_margins
<1>2. margins' \in [top : Rows, bot : Rows] /\ margins'.top < margins'.bot
  BY MarginsOK DEF ac_set_margins
<1>3. margins'.top \in Int
  BY <1>2, Ranges DEF Rows
<1>4. cursor' \in Page(size)
  BY <1>3, HomeOK DEF ac_set_margins
<1> QED
  BY <1>1, <1>2, <1>4, Parts, KeepSizeOK DEF ac_set_margins

LEMMA ModesOK ==
    ASSUME TypeOK, NEW on \in BOOLEAN,
           \/ SetPlainMode("autowrap", on) \/ SetPlainMode("newline", on)
           \/ SetScreenMode(on) \/ be_switch_buffer(on)
           \/ SetOrigin \/ ResetOrigin
    PROVE  Inv'
<1> USE Ranges, Parts
<1>1. size' = size /\ CallsOK'
  BY NoCallsOK
  DEF SetPlainMode, SetScreenMode, be_switch_buffer, SetOrigin, ResetOrigin
<1>2. cursor' \in Page(size)
  <2>1. \/ cursor' = cursor
        \/ be_move_cursor(0, margins.top) \/ be_move_cursor(0, 1)
    BY DEF SetPlainMode, SetScreenMode, be_switch_buffer, SetOrigin, ResetOrigin
  <2> QED
    BY <2>1, HomeOK
<1>3. modes' \subseteq Modes
  <2>1. \A f \in Modes, b \in BOOLEAN : Flag(f, b) \subseteq Modes
    BY FlagOK
  <2> QED
    BY <2>1 DEF SetPlainMode, SetScreenMode, be_switch_buffer, SetOrigin,
                ResetOrigin, Modes
<1>4. screen' \in {"norm", "alt"} /\ reversed' \in BOOLEAN
  BY DEF SetPlainMode, SetScreenMode, be_switch_buffer, SetOrigin, ResetOrigin,
         be_screen_mode
<1> QED
  BY <1>1, <1>2, <1>3, <1>4, KeepSizeOK
  DEF SetPlainMode, SetScreenMode, be_switch_buffer, SetOrigin, ResetOrigin

LEMMA ResetOK == ASSUME TypeOK, ac_reset \/ ac_screen_align PROVE Inv'
<1> USE Ranges, Parts
<1>1. size' = size /\ cursor' \in Page(size)
  <2>1. size' = size /\ be_move_cursor(0, 0)
    BY DEF ac_reset, ac_screen_align
  <2> QED
    BY <2>1, HomeOK
<1>2. margins' \in [top : Rows, bot : Rows] /\ margins'.top < margins'.bot
  BY PageOK DEF ac_reset, ac_screen_align, Rows
<1>3. CallsOK'
  BY <1>1, NoCallsOK, TouchOK DEF ac_reset, ac_screen_align
<1>4. /\ modes' \subseteq Modes /\ tabs' \subseteq 0 .. size.w - 1
      /\ screen' \in {"norm", "alt"} /\ reversed' \in BOOLEAN
      /\ stored' = stored
  BY DEF ac_reset, ac_screen_align, Modes, be_screen_mode
<1> QED
  BY <1>1, <1>2, <1>3, <1>4, KeepSizeOK

LEMMA ResizeOK ==
    ASSUME TypeOK, NEW s \in Sizes, te_resize(s) \/ SetColumns(s) PROVE Inv'
<1> USE Ranges, Parts
<1>1. size' = s /\ s.w \in Int /\ s.w >= 1 /\ s.h \in Int /\ s.h >= 2
  BY SizeFacts DEF te_resize, SetColumns
<1>2. cursor' \in Page(s)
  <2>1. int_min(s.w - 1, cursor.x) \in Int /\ int_min(s.h - 1, cursor.y) \in Int
    BY <1>1 DEF int_min
  <2> QED
    BY <2>1, AtOnPage DEF te_resize, SetColumns
<1>3. margins' \in [top : 0 .. s.h - 1, bot : 0 .. s.h - 1]
      /\ margins'.top < margins'.bot
  BY PageOK DEF te_resize, SetColumns
<1>4. tabs' \subseteq 0 .. s.w - 1
  BY <1>1 DEF te_resize, SetColumns, TabsWithin
<1>5. touched' \subseteq 0 .. s.h - 1 /\ scrolled' = {}
  BY DEF te_resize, SetColumns, NoCalls, Touch
<1>6. modes' = modes /\ stored' = stored /\ screen' = screen
      /\ reversed' = reversed
  BY DEF te_resize, SetColumns
<1> QED
  BY <1>1, <1>2, <1>3, <1>4, <1>5, <1>6
  DEF Inv, TypeOK, BufferCallsInBounds, Rows, Page, Slots

-----------------------------------------------------------------------------
LEMMA NextOK == ASSUME TypeOK, Next PROVE Inv'
<1>1. CASE \E len \in 1 .. MaxChunk : be_input(len)
  BY <1>1, InputOK
<1>2. CASE EditRow
  BY <1>2, EraseOK DEF Params
<1>3. CASE Controls
  BY <1>3, CrOK, IndexDownOK, NextLineOK, IndexUpOK, TabOK, BsOK, SlotOK,
     TabStopsOK, ResetOK
  DEF Controls, ac_lf, Params
<1>4. CASE \E ps \in Params : ControlSequence(ps)
  <2>1. PICK ps \in Params : ControlSequence(ps)
    BY <1>4
  <2>2. CASE \/ ac_cursor_left(ps) \/ ac_cursor_right(ps)
             \/ ac_cursor_up(ps) \/ ac_cursor_down(ps)
    BY <2>2, CursorOK
  <2>3. CASE ac_column_position(ps) \/ ac_line_position(ps)
    BY <2>3, AbsoluteOK, ParamsArePairs
  <2>4. CASE ac_clear_tab(ps)
    BY <2>4, TabStopsOK
  <2>5. CASE ac_erase_display(ps) \/ ac_erase_line(ps)
    BY <2>5, EraseOK
  <2>6. CASE ac_insert_line(ps) \/ ac_delete_line(ps)
    BY <2>6, InsertLineOK, DeleteLineOK
  <2>7. CASE ac_scroll_up(ps) \/ ac_scroll_down(ps)
    BY <2>7, ScrollLinesOK
  <2> QED
    BY <2>1, <2>2, <2>3, <2>4, <2>5, <2>6, <2>7 DEF ControlSequence
<1>5. CASE \E ps \in ParamPairs : ac_cursor_position(ps) \/ ac_set_margins(ps)
  BY <1>5, AbsoluteOK, SetMarginsOK
<1>6. CASE ModeChange
  BY <1>6, ModesOK, SlotOK DEF ModeChange
<1>7. CASE \E s \in Sizes : te_resize(s) \/ SetColumns(s)
  BY <1>7, ResizeOK
<1> QED
  BY <1>1, <1>2, <1>3, <1>4, <1>5, <1>6, <1>7 DEF Next

LEMMA StutterOK == ASSUME Inv, UNCHANGED vars PROVE Inv'
BY DEF Inv, vars, TypeOK, BufferCallsInBounds, Rows

LEMMA SpecInv == Spec => []Inv
<1>1. Inv /\ [Next]_vars => Inv'
  BY NextOK, StutterOK DEF Inv
<1> QED
  BY InitOK, <1>1, PTL DEF Spec

(* Cursor and tab stops stay on the page, margins stay two lines of it and *)
(* in order, through every sequence of handlers and resizes.               *)
THEOREM TypeCorrect == Spec => []TypeOK
<1>1. Inv => TypeOK
  BY DEF Inv
<1> QED
  BY SpecInv, <1>1, PTL

(* No handler fetches a row the buffer does not have or trips the          *)
(* assertions of buffer_scroll_up and buffer_scroll_down.                  *)
THEOREM CallsCorrect == Spec => []BufferCallsInBounds
<1>1. Inv => BufferCallsInBounds
  BY DEF Inv
<1> QED
  BY SpecInv, <1>1, PTL

-----------------------------------------------------------------------------
(* Origin mode confines the cursor.                                        *)

LEMMA ModSmall ==
    ASSUME NEW k \in Nat \ {0}, NEW x \in 0 .. k - 1 PROVE x % k = x
OBVIOUS

(* A sum that does not overflow is the sum.                                *)
LEMMA PlusSmall ==
    ASSUME NEW a \in Nat, NEW b \in Nat, a + b <= IntMax
    PROVE  Plus(a, b) = a + b
<1> DEFINE x == a + b + IntMax + 1
           k == 2 * (IntMax + 1)
<1>1. k \in Nat \ {0} /\ x \in 0 .. k - 1
  BY BoundsAssumption
<1>2. x % k = x
  BY <1>1, ModSmall
<1> QED
  BY <1>2, BoundsAssumption DEF Plus

(* be_move_cursor does not clamp a line inside the margins.                *)
LEMMA AtInside ==
    ASSUME TypeOK, NEW x \in Int, NEW y \in Int, InMargins(y)
    PROVE  At(x, y, size).y = y
BY Ranges DEF At, int_clamp, InMargins

LEMMA NextLinesNat ==
    ASSUME TypeOK, NEW c \in Page(size), NEW len \in Int
    PROVE  NextLines(c, len) >= 0
<1> DEFINE rest == len - (size.w - c.x)
<1>1. rest \in Int /\ size.w \in Nat \ {0}
  BY Ranges DEF Page
<1> HIDE DEF rest
<1>2. rest > 0 => (rest + size.w - 1) \div size.w >= 0
  BY <1>1
<1> QED
  BY <1>1, <1>2 DEF NextLines, rest

LEMMA LineOfInside ==
    ASSUME TypeOK, "origin" \in modes, NEW n \in Int
    PROVE  InMargins(LineOf(n))
<1>1. Plus(n, margins.top) \in Int
  BY Ranges, PlusInt
<1> QED
  BY <1>1, Ranges DEF LineOf, int_clamp, InMargins

(* What a handler that keeps modes and margins has to establish.           *)
LEMMA StaysInside ==
    ASSUME UNCHANGED setup, "origin" \in modes => InMargins(cursor'.y)
    PROVE  Confined'
BY DEF Confined, setup, InMargins

LEMMA DownInside ==
    ASSUME TypeOK, InMargins(cursor.y) PROVE InMargins(Down(cursor).y)
<1>1. CASE cursor.y = margins.bot
  BY <1>1 DEF Down
<1>2. CASE cursor.y # margins.bot
  <2>1. InMargins(cursor.y + 1)
    BY <1>2, Ranges DEF InMargins
  <2> QED
    BY <1>2, <2>1, Ranges, AtInside DEF Down
<1> QED
  BY <1>1, <1>2

LEMMA IndexInside ==
    ASSUME TypeOK, Confined, ac_index_down \/ ac_next_line \/ ac_index_up
    PROVE  Confined'
<1> SUFFICES ASSUME "origin" \in modes PROVE InMargins(cursor'.y)
  BY StaysInside DEF ac_index_down, ac_next_line, ac_index_up
<1>1. InMargins(cursor.y)
  BY DEF Confined
<1>2. CASE ac_index_down
  BY <1>1, <1>2, DownInside DEF ac_index_down
<1>3. CASE ac_next_line
  <2>1. InMargins(Down(cursor).y) /\ Down(cursor).y \in Int
    BY <1>1, Ranges, DownInside, DownOK DEF Page
  <2> QED
    BY <1>3, <2>1, AtInside DEF ac_next_line
<1>4. CASE ac_index_up
  <2>1. CASE cursor.y = margins.top
    BY <1>1, <1>4, <2>1 DEF ac_index_up
  <2>2. CASE cursor.y # margins.top
    <3>1. InMargins(cursor.y - 1)
      BY <1>1, <2>2, Ranges DEF InMargins
    <3> QED
      BY <1>4, <2>2, <3>1, Ranges, AtInside DEF ac_index_up, be_move_cursor
  <2> QED
    BY <2>1, <2>2
<1> QED
  BY <1>2, <1>3, <1>4

LEMMA InputInside ==
    ASSUME TypeOK, Confined, NEW len \in 1 .. MaxChunk, be_input(len)
    PROVE  Confined'
<1> SUFFICES ASSUME "origin" \in modes PROVE InMargins(cursor'.y)
  BY StaysInside DEF be_input
<1>1. InMargins(cursor.y)
  BY DEF Confined
<1>2. CASE be_input_wrapping(len)
  <2> DEFINE n == NextLines(cursor, len)
             x == ColumnAfter(cursor, len)
             y == LineAfter(cursor, n)
  <2>1. n \in Int /\ n >= 0
    BY Ranges, NextLinesInt, NextLinesNat
  <2>2. x \in Int
    <3>1. n * size.w \in Int
      BY <2>1, Ranges
    <3> QED
      BY <3>1, Ranges DEF ColumnAfter
  <2>3. cursor' = At(x, y, size)
    BY <1>2 DEF be_input_wrapping, Wrapped
  <2> HIDE DEF n, x
  <2>4. y \in Int /\ InMargins(y)
    BY <1>1, <2>1, Ranges DEF LineAfter, InMargins, int_min
  <2> HIDE DEF y
  <2> QED
    BY <2>2, <2>3, <2>4, AtInside
<1>3. CASE be_input_clipped(len)
  <2> DEFINE x == cursor.x + int_min(len, size.w - cursor.x - 1)
  <2>1. x \in Int
    BY Ranges DEF int_min
  <2>2. cursor' = At(x, cursor.y, size)
    BY <1>3 DEF be_input_clipped, be_move_cursor
  <2> HIDE DEF x
  <2> QED
    BY <1>1, <2>1, <2>2, Ranges, AtInside
<1> QED
  BY <1>2, <1>3 DEF be_input

LEMMA MoveInside ==
    ASSUME TypeOK, UNCHANGED setup, NEW x \in Int, NEW y \in Int,
           be_move_cursor(x, y), "origin" \in modes => InMargins(y)
    PROVE  Confined'
BY AtInside, StaysInside DEF be_move_cursor

(* Handlers that leave the cursor on its line.                             *)
LEMMA LineKept ==
    ASSUME TypeOK, Confined, UNCHANGED setup, NEW x \in Int,
           be_move_cursor(x, cursor.y) \/ cursor' = cursor
    PROVE  Confined'
<1>1. CASE be_move_cursor(x, cursor.y)
  BY <1>1, Ranges, MoveInside DEF Confined
<1>2. CASE cursor' = cursor
  BY <1>2, StaysInside DEF Confined
<1> QED
  BY <1>1, <1>2

LEMMA UpDownInside ==
    ASSUME TypeOK, Confined, NEW ps \in Params, ~CursorDownOverflows,
           ac_cursor_up(ps) \/ ac_cursor_down(ps)
    PROVE  Confined'
<1> DEFINE n == Count(ps)
<1>1. n \in Int /\ n >= 1
  BY CountPositive
<1>2. UNCHANGED setup
  BY DEF ac_cursor_up, ac_cursor_down
<1>3. CASE ac_cursor_up(ps)
  <2> DEFINE y == int_max(Highest, cursor.y - n)
  <2>1. be_move_cursor(cursor.x, y)
    BY <1>3 DEF ac_cursor_up
  <2> HIDE DEF n
  <2>2. y \in Int /\ ("origin" \in modes => InMargins(y))
    BY <1>1, Ranges DEF Confined, InMargins, Highest, int_max
  <2> HIDE DEF y
  <2> QED
    BY <1>2, <2>1, <2>2, Ranges, MoveInside
<1>4. CASE ac_cursor_down(ps)
  <2> DEFINE y == int_min(Lowest, cursor.y + n)
  <2>1. cursor.y + n <= IntMax
    BY <1>1, <1>4, Ranges, BoundsAssumption DEF CursorDownOverflows
  <2>2. Plus(cursor.y, n) = cursor.y + n
    BY <1>1, <2>1, Ranges, PlusSmall
  <2>3. be_move_cursor(cursor.x, y)
    BY <1>4, <2>2 DEF ac_cursor_down
  <2> HIDE DEF n
  <2>4. y \in Int /\ ("origin" \in modes => InMargins(y))
    BY <1>1, Ranges DEF Confined, InMargins, Lowest, int_min
  <2> HIDE DEF y
  <2> QED
    BY <1>2, <2>3, <2>4, Ranges, MoveInside
<1> QED
  BY <1>3, <1>4

LEMMA LeftRightInside ==
    ASSUME TypeOK, Confined, NEW ps \in Params,
           ac_cursor_left(ps) \/ ac_cursor_right(ps)
    PROVE  Confined'
<1> DEFINE n == Count(ps)
           left == int_max(0, cursor.x - n)
           right == int_min(size.w - 1, Plus(cursor.x, n))
<1>1. n \in Int
  BY CountPositive
<1> HIDE DEF n
<1>2. left \in Int /\ right \in Int
  <2>1. Plus(cursor.x, n) \in Int
    BY <1>1, Ranges, PlusInt
  <2> QED
    BY <1>1, <2>1, Ranges DEF int_min, int_max
<1>3. be_move_cursor(left, cursor.y) \/ be_move_cursor(right, cursor.y)
  BY DEF ac_cursor_left, ac_cursor_right, n
<1> HIDE DEF left, right
<1> QED
  BY <1>2, <1>3, LineKept DEF ac_cursor_left, ac_cursor_right

LEMMA AbsoluteInside ==
    ASSUME TypeOK, Confined, NEW ps \in ParamPairs,
           \/ ac_cursor_position(ps) \/ ac_column_position(ps)
           \/ ac_line_position(ps)
    PROVE  Confined'
<1> DEFINE p == parser_get_param(ps, 0, 1)
           q == parser_get_param(ps, 1, 1)
           m == int_max(p, 1)
<1>1. p \in Int /\ q \in Int
  BY ParamInt
<1> HIDE DEF p, q
<1>2. m \in Int
  BY <1>1 DEF int_max
<1>3. CASE ac_cursor_position(ps)
  <2>1. be_move_cursor(ColumnOf(q), LineOf(m)) /\ UNCHANGED setup
    BY <1>3 DEF ac_cursor_position, PositionOf, be_move_cursor, p, q
  <2> HIDE DEF m
  <2>2. /\ ColumnOf(q) \in Int /\ LineOf(m) \in Int
        /\ "origin" \in modes => InMargins(LineOf(m))
    BY <1>1, <1>2, ColumnInt, LineInt, LineOfInside
  <2> QED
    BY <2>1, <2>2, MoveInside
<1>4. CASE ac_column_position(ps)
  BY <1>1, <1>4, ColumnInt, LineKept DEF ac_column_position, p
<1>5. CASE ac_line_position(ps)
  <2>1. LineOf(p) \in Int /\ ("origin" \in modes => InMargins(LineOf(p)))
    BY <1>1, LineInt, LineOfInside
  <2> QED
    BY <1>5, <2>1, Ranges, MoveInside DEF ac_line_position, p
<1> QED
  BY <1>3, <1>4, <1>5

(* Handlers after which origin mode is off or the cursor on the top margin.*)
LEMMA MarginsInside ==
    ASSUME TypeOK, NEW ps \in ParamPairs, NEW s \in Sizes,
           \/ ac_set_margins(ps) \/ SetOrigin \/ ResetOrigin
           \/ ac_reset \/ ac_screen_align \/ te_resize(s) \/ SetColumns(s)
    PROVE  Confined'
<1> USE DEF Confined, InMargins
<1>1. CASE ac_set_margins(ps)
  <2>1. margins'.top \in Int /\ margins'.bot \in Int
        /\ 0 <= margins'.top /\ margins'.top < margins'.bot
        /\ margins'.bot < size.h
    BY <1>1, MarginsOK, Ranges DEF ac_set_margins, Rows
  <2>2. "origin" \in modes => cursor'.y = margins'.top
    BY <1>1, <2>1, Ranges DEF ac_set_margins, be_move_cursor, At, int_clamp
  <2> QED
    BY <1>1, <2>1, <2>2 DEF ac_set_margins
<1>2. CASE SetOrigin
  <2>1. cursor'.y = margins.top
    BY <1>2, Ranges DEF SetOrigin, be_move_cursor, At, int_clamp
  <2> QED
    BY <1>2, <2>1, Ranges DEF SetOrigin
<1>3. CASE ResetOrigin \/ ac_reset
  <2>1. \/ modes' = modes \ {"origin"}
        \/ modes' = {"autowrap"}
    BY <1>3, Zenon DEF ResetOrigin, ac_reset, Flag
  <2> QED
    BY <2>1
<1>4. CASE ac_screen_align
  BY <1>4, Ranges DEF ac_screen_align, PageMargins, be_move_cursor, At,
     int_clamp
<1>5. CASE te_resize(s) \/ SetColumns(s)
  <2>1. margins' = PageMargins(s) /\ size' = s
    BY <1>5 DEF te_resize, SetColumns
  <2>2. cursor'.y \in 0 .. s.h - 1
    <3>1. TypeOK'
      BY <1>5, ResizeOK DEF Inv
    <3> QED
      BY <2>1, <3>1 DEF TypeOK, Rows
  <2> QED
    BY <2>1, <2>2, SizeFacts DEF PageMargins
<1> QED
  BY <1>1, <1>2, <1>3, <1>4, <1>5

(* Handlers that keep the cursor, the margins and origin mode.             *)
LEMMA UntouchedInside ==
    ASSUME TypeOK, Confined, NEW ps \in Params, NEW on \in BOOLEAN,
           \/ EditRow \/ ac_erase_display(ps) \/ ac_erase_line(ps)
           \/ ac_insert_line(ps) \/ ac_delete_line(ps)
           \/ ac_scroll_up(ps) \/ ac_scroll_down(ps)
           \/ ac_set_tab \/ ac_clear_tab(ps) \/ ac_save_cursor \/ SaveAndSwitch
           \/ SetPlainMode("autowrap", on) \/ SetPlainMode("newline", on)
           \/ SetScreenMode(on) \/ be_switch_buffer(on)
    PROVE  Confined'
<1>1. cursor' = cursor /\ margins' = margins
  BY DEF EditRow, ac_erase_display, ac_erase_line, ac_insert_line,
         ac_delete_line, ac_scroll_up, ac_scroll_down, ac_set_tab, ac_clear_tab,
         ac_save_cursor, SaveAndSwitch, SetPlainMode, SetScreenMode,
         be_switch_buffer, setup
<1>2. "origin" \in modes' => "origin" \in modes
  BY DEF EditRow, ac_erase_display, ac_erase_line, ac_insert_line,
         ac_delete_line, ac_scroll_up, ac_scroll_down, ac_set_tab, ac_clear_tab,
         ac_save_cursor, SaveAndSwitch, SetPlainMode, SetScreenMode,
         be_switch_buffer, setup, Flag
<1> QED
  BY <1>1, <1>2 DEF Confined, InMargins

LEMMA TabInside ==
    ASSUME TypeOK, Confined, ac_tab \/ ac_cr \/ ac_bs PROVE Confined'
<1>1. CASE ac_cr \/ ac_bs
  BY <1>1, Ranges, LineKept DEF ac_cr, ac_bs
<1>2. CASE ac_tab
  <2>1. PICK x : be_move_cursor(x, cursor.y)
    BY <1>2 DEF ac_tab
  <2>2. cursor'.y = cursor.y
    BY <2>1, Ranges DEF be_move_cursor, At, int_clamp
  <2> QED
    BY <1>2, <2>2, StaysInside DEF ac_tab, Confined
<1> QED
  BY <1>1, <1>2

LEMMA ConfinedStep ==
    ASSUME TypeOK, Confined, Next, ~ac_restore_cursor, ~RestoreAndSwitch,
           ~CursorDownOverflows
    PROVE  Confined'
<1>1. CASE \E len \in 1 .. MaxChunk : be_input(len)
  BY <1>1, InputInside
<1>2. CASE EditRow
  BY <1>2, UntouchedInside DEF Params
<1>3. CASE Controls
  BY <1>3, TabInside, IndexInside, UntouchedInside, MarginsInside, Ranges
  DEF Controls, ac_lf, Params, ParamPairs
<1>4. CASE \E ps \in Params : ControlSequence(ps)
  <2>1. PICK ps \in Params : ControlSequence(ps)
    BY <1>4
  <2>2. CASE \/ ac_cursor_left(ps) \/ ac_cursor_right(ps)
             \/ ac_cursor_up(ps) \/ ac_cursor_down(ps)
    BY <2>2, LeftRightInside, UpDownInside
  <2>3. CASE ac_column_position(ps) \/ ac_line_position(ps)
    BY <2>3, AbsoluteInside, ParamsArePairs
  <2>4. CASE ~(\/ ac_cursor_left(ps) \/ ac_cursor_right(ps)
               \/ ac_cursor_up(ps) \/ ac_cursor_down(ps)
               \/ ac_column_position(ps) \/ ac_line_position(ps))
    BY <2>1, <2>4, UntouchedInside DEF ControlSequence
  <2> QED
    BY <2>2, <2>3, <2>4
<1>5. CASE \E ps \in ParamPairs : ac_cursor_position(ps) \/ ac_set_margins(ps)
  BY <1>5, AbsoluteInside, MarginsInside, Ranges
<1>6. CASE ModeChange
  BY <1>6, UntouchedInside, MarginsInside, Ranges
  DEF ModeChange, Params, ParamPairs
<1>7. CASE \E s \in Sizes : te_resize(s) \/ SetColumns(s)
  BY <1>7, MarginsInside DEF Params, ParamPairs
<1> QED
  BY <1>1, <1>2, <1>3, <1>4, <1>5, <1>6, <1>7 DEF Next

(* Origin mode holds the cursor inside the margins: only DECRC, and a CUD  *)
(* whose sum overflows, take it out.                                       *)
THEOREM OriginConfinesCursor == Spec => OriginConfines
<1>1. TypeOK /\ [Next]_vars
        => [Confined => \/ Confined'
                        \/ ac_restore_cursor \/ RestoreAndSwitch
                        \/ CursorDownOverflows]_vars
  BY ConfinedStep
<1> QED
  BY TypeCorrect, <1>1, PTL DEF Spec, OriginConfines

-----------------------------------------------------------------------------
LEMMA RoundTrip == TypeOK => ReportRoundTrips
<1> SUFFICES ASSUME TypeOK, "origin" \notin modes
             PROVE  PositionOf(CursorReport) = cursor
  BY DEF ReportRoundTrips
<1>1. /\ parser_get_param(CursorReport, 0, 1) = cursor.y + 1
      /\ parser_get_param(CursorReport, 1, 1) = cursor.x + 1
  BY DEF parser_get_param, CursorReport
<1>2. int_max(cursor.y + 1, 1) = cursor.y + 1
  BY Ranges DEF int_max
<1>3. LineOf(cursor.y + 1) = cursor.y
  BY Ranges DEF LineOf, int_clamp
<1>4. ColumnOf(cursor.x + 1) = cursor.x
  BY Ranges DEF ColumnOf, int_clamp
<1>5. At(cursor.x, cursor.y, size) = [x |-> cursor.x, y |-> cursor.y]
  BY Ranges DEF At, int_clamp
<1>6. [x |-> cursor.x, y |-> cursor.y] = cursor
  BY Ranges DEF Page
<1> QED
  BY <1>1, <1>2, <1>3, <1>4, <1>5, <1>6 DEF PositionOf

(* The position reported to the child is the one CUP takes it back to.     *)
THEOREM ReportCorrect == Spec => []ReportRoundTrips
BY TypeCorrect, RoundTrip, PTL

-----------------------------------------------------------------------------
(* Scrolling stays inside the margins.                                     *)

LEMMA InsideStep ==
    ASSUME TypeOK, Next,
           ~ \E ps \in Params : ac_insert_line(ps),
           NEW r \in scrolled'
    PROVE  margins.top <= r[1] /\ r[2] <= margins.bot
<1> USE Ranges
<1>1. CASE \E len \in 1 .. MaxChunk : be_input(len)
  BY <1>1 DEF be_input, be_input_wrapping, be_input_clipped, Touch
<1>2. CASE EditRow
  BY <1>2 DEF EditRow, Touch
<1>3. CASE Controls
  <2>1. CASE ac_index_down \/ ac_next_line \/ ac_lf
    BY <2>1 DEF ac_lf, ac_index_down, ac_next_line, ScrolledBelow
  <2>2. CASE ac_index_up
    BY <2>2 DEF ac_index_up, be_scroll_region, NoCalls
  <2>3. CASE \/ ac_cr \/ ac_tab \/ ac_bs \/ ac_set_tab
             \/ ac_save_cursor \/ ac_restore_cursor
             \/ ac_screen_align \/ ac_reset
    <3>1. scrolled' = {}
      BY <2>3 DEF ac_cr, ac_tab, ac_bs, ac_set_tab, ac_save_cursor,
         ac_restore_cursor, ac_screen_align, ac_reset, NoCalls, Touch
    <3> QED
      BY <3>1
  <2> QED
    BY <1>3, <2>1, <2>2, <2>3 DEF Controls
<1>4. CASE \E ps \in Params : ControlSequence(ps)
  <2>1. PICK ps \in Params : ControlSequence(ps)
    BY <1>4
  <2>2. CASE ac_delete_line(ps)
    BY <2>2 DEF ac_delete_line, InMargins, Touch, be_scroll_region
  <2>3. CASE ac_scroll_up(ps) \/ ac_scroll_down(ps)
    BY <2>3 DEF ac_scroll_up, ac_scroll_down, be_scroll_region
  <2>4. CASE ~(ac_delete_line(ps) \/ ac_scroll_up(ps) \/ ac_scroll_down(ps))
    BY <2>1, <2>4 DEF ControlSequence, ac_cursor_left, ac_cursor_right,
       ac_cursor_up, ac_cursor_down, ac_column_position, ac_line_position,
       ac_clear_tab, ac_erase_display, ac_erase_line, NoCalls, Touch
  <2> QED
    BY <2>2, <2>3, <2>4
<1>5. CASE \E ps \in ParamPairs : ac_cursor_position(ps) \/ ac_set_margins(ps)
  BY <1>5 DEF ac_cursor_position, ac_set_margins, NoCalls
<1>6. CASE ModeChange
  BY <1>6 DEF ModeChange, SetPlainMode, SetScreenMode, be_switch_buffer,
     SetOrigin, ResetOrigin, SaveAndSwitch, RestoreAndSwitch, NoCalls
<1>7. CASE \E s \in Sizes : te_resize(s) \/ SetColumns(s)
  BY <1>7 DEF te_resize, SetColumns, NoCalls, Touch
<1> QED
  BY <1>1, <1>2, <1>3, <1>4, <1>5, <1>6, <1>7 DEF Next

(* Only IL scrolls lines outside the margins.                              *)
THEOREM ScrollsConfined == Spec => ScrollsStayInside
<1>1. TypeOK /\ [Next]_vars
        => [\A r \in scrolled' :
              \/ margins.top <= r[1] /\ r[2] <= margins.bot
              \/ \E ps \in Params : ac_insert_line(ps)]_vars
  BY InsideStep
<1> QED
  BY TypeCorrect, <1>1, PTL DEF Spec, ScrollsStayInside

-----------------------------------------------------------------------------
(* Output is the same however it is cut.                                   *)

LEMMA OneQuotient ==
    ASSUME NEW w \in Nat \ {0}, NEW a \in Int, NEW m \in Int, NEW n \in Int,
           1 <= a - m * w, a - m * w <= w, 1 <= a - n * w, a - n * w <= w
    PROVE  m = n
<1>1. m * w \in Int /\ n * w \in Int
  OBVIOUS
<1>2. ASSUME m + 1 <= n PROVE FALSE
  <2>1. (m + 1) * w <= n * w /\ (m + 1) * w = m * w + w
    BY <1>2
  <2> QED
    BY <1>1, <2>1
<1>3. ASSUME n + 1 <= m PROVE FALSE
  <2>1. (n + 1) * w <= m * w /\ (n + 1) * w = n * w + w
    BY <1>3
  <2> QED
    BY <1>1, <2>1
<1> QED
  BY <1>2, <1>3

LEMMA Divided ==
    ASSUME NEW a \in Int, NEW w \in Nat \ {0}
    PROVE  a \div w \in Int /\ a % w \in 0 .. w - 1 /\ a = w * (a \div w) + (a % w)
OBVIOUS

(* The lines a chunk takes are those that leave its last character on one. *)
LEMMA LinesTaken ==
    ASSUME TypeOK, NEW c \in Page(size), NEW len \in Nat \ {0}
    PROVE  /\ NextLines(c, len) \in Nat
           /\ 1 <= ColumnAfter(c, len) /\ ColumnAfter(c, len) <= size.w
<1> DEFINE w == size.w
           rest == len - (w - c.x)
           q == (rest + w - 1) \div w
<1>1. w \in Nat \ {0} /\ c.x \in Nat /\ rest \in Int /\ rest = c.x + len - w
  BY Ranges DEF Page
<1>2. CASE rest <= 0
  <2>1. NextLines(c, len) = 0
    BY <1>2 DEF NextLines
  <2> QED
    BY <1>1, <1>2, <2>1 DEF ColumnAfter
<1>3. CASE rest > 0
  <2>1. NextLines(c, len) = q
    BY <1>1, <1>3 DEF NextLines
  <2>2. /\ q \in Int /\ (rest + w - 1) % w \in 0 .. w - 1
        /\ rest + w - 1 = w * q + ((rest + w - 1) % w)
    <3> DEFINE a == rest + w - 1
    <3>1. a \in Int
      BY <1>1
    <3> HIDE DEF a, w
    <3>2. /\ a \div w \in Int /\ a % w \in 0 .. w - 1
          /\ a = w * (a \div w) + (a % w)
      BY <1>1, <3>1, Divided
    <3> QED
      BY <3>2 DEF a
  <2> HIDE DEF q
  <2>3. w * q <= rest + w - 1 /\ rest <= w * q /\ q * w = w * q /\ w * q \in Int
    <3> HIDE DEF rest, w
    <3> QED
      BY <1>1, <2>2
  <2>4. q >= 1
    <3> HIDE DEF rest, w
    <3> SUFFICES ASSUME q <= 0 PROVE FALSE
      BY <2>2
    <3>1. w * q <= 0
      BY <1>1, <2>2
    <3> QED
      BY <1>1, <1>3, <2>3, <3>1
  <2>5. ColumnAfter(c, len) = c.x + len - q * w
    BY <2>1 DEF ColumnAfter
  <2> QED
    BY <1>1, <2>1, <2>2, <2>3, <2>4, <2>5
<1> QED
  BY <1>1, <1>2, <1>3

(* Where a chunk that stays short of the margin leaves the cursor.         *)
LEMMA WrappedShort ==
    ASSUME TypeOK, NEW c \in Page(size), NEW len \in Nat \ {0},
           ColumnAfter(c, len) < size.w
    PROVE  Wrapped(c, len) = [x |-> ColumnAfter(c, len),
                              y |-> LineAfter(c, NextLines(c, len))]
<1> DEFINE x == ColumnAfter(c, len)
           y == LineAfter(c, NextLines(c, len))
<1>1. NextLines(c, len) \in Nat /\ 1 <= x /\ x < size.w /\ x \in Int
  <2>1. c.x \in Int /\ NextLines(c, len) * size.w \in Int
    BY LinesTaken, Ranges DEF Page
  <2> QED
    BY <2>1, LinesTaken DEF ColumnAfter
<1>2. y \in Int /\ 0 <= y /\ y <= size.h - 1
  BY <1>1, Ranges DEF LineAfter, int_min, Page
<1> HIDE DEF x, y
<1>3. At(x, y, size) = [x |-> x, y |-> y]
  BY <1>1, <1>2, Ranges DEF At, int_clamp
<1> QED
  BY <1>3 DEF Wrapped, x, y

LEMMA LinesAdd ==
    ASSUME TypeOK, NEW c \in Page(size), NEW m \in Nat, NEW n \in Nat
    PROVE  LET d == [x |-> 0, y |-> LineAfter(c, m)]
           IN  LineAfter(d, n) = LineAfter(c, m + n)
BY Ranges DEF LineAfter, int_min, Page

LEMMA ChunksMeet ==
    ASSUME TypeOK, NEW c \in Page(size), NEW m \in Nat \ {0}, NEW n \in Nat \ {0},
           ColumnAfter(c, m) < size.w
    PROVE  Wrapped(Wrapped(c, m), n) = Wrapped(c, m + n)
<1> DEFINE d == Wrapped(c, m)
           j == NextLines(c, m)
           k == NextLines(d, n)
           l == NextLines(c, m + n)
           w == size.w
<1>1. d = [x |-> ColumnAfter(c, m), y |-> LineAfter(c, j)]
  BY WrappedShort
<1>2. d \in Page(size)
  BY WrappedOK
<1>3. /\ j \in Nat /\ k \in Nat /\ l \in Nat
      /\ 1 <= ColumnAfter(d, n) /\ ColumnAfter(d, n) <= w
      /\ 1 <= ColumnAfter(c, m + n) /\ ColumnAfter(c, m + n) <= w
  BY <1>2, LinesTaken
<1>4. w \in Nat \ {0} /\ c.x \in Int /\ j * w \in Int /\ k * w \in Int /\ l * w \in Int
  BY <1>3, Ranges DEF Page
<1>5. /\ ColumnAfter(d, n) = (c.x + m - j * w) + n - k * w
      /\ ColumnAfter(c, m + n) = c.x + (m + n) - l * w
  BY <1>1 DEF ColumnAfter
<1>6. j * w + k * w = (j + k) * w
  BY <1>3, <1>4
<1>7. l = j + k
  <2> DEFINE a == c.x + m + n
  <2> HIDE DEF d, j, k, l, w
  <2>1. a \in Int /\ ColumnAfter(d, n) = a - (j + k) * w
        /\ ColumnAfter(c, m + n) = a - l * w
    BY <1>3, <1>4, <1>5, <1>6
  <2> HIDE DEF a
  <2> QED
    BY <1>3, <1>4, <2>1, OneQuotient
<1>8. ColumnAfter(d, n) = ColumnAfter(c, m + n)
  <2> HIDE DEF d, j, k, l, w
  <2> QED
    BY <1>3, <1>4, <1>5, <1>6, <1>7
<1>9. LineAfter(d, k) = LineAfter(c, j + k)
  <2> HIDE DEF j, k, d
  <2> QED
    BY <1>1, <1>3, LinesAdd DEF LineAfter
<1> QED
  BY <1>7, <1>8, <1>9 DEF Wrapped

(* However the child's output is cut into reads, a chunk that stays short  *)
(* of the right margin leaves the cursor where the next one takes it to    *)
(* where both together would have: for every page, margins and cursor.     *)
THEOREM ChunksAlwaysCompose == Spec => []ChunksCompose
<1>1. TypeOK => ChunksCompose
  <2> SUFFICES ASSUME TypeOK, NEW m \in 1 .. MaxChunk, NEW n \in 1 .. MaxChunk,
                      ColumnAfter(cursor, m) < size.w
               PROVE  Wrapped(Wrapped(cursor, m), n) = Wrapped(cursor, m + n)
    BY DEF ChunksCompose
  <2>1. cursor \in Page(size) /\ m \in Nat \ {0} /\ n \in Nat \ {0}
    BY BoundsAssumption DEF TypeOK, Page, Rows
  <2> QED
    BY <2>1, ChunksMeet
<1> QED
  BY <1>1, TypeCorrect, PTL
=============================================================================
