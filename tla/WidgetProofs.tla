---------------------------- MODULE WidgetProofs ----------------------------
(***************************************************************************)
(* Theorems about Widget for every font, frame, limits and scroll-back,    *)
(* and about Mouse for any of the buttons, modifier keys and cells.        *)
(***************************************************************************)
EXTENDS Widget, Mouse, TLAPS

-----------------------------------------------------------------------------
(* Pixels and cells.                                                       *)

LEMMA DivWithin ==
    ASSUME NEW x \in Int, NEW f \in Nat \ {0}, NEW lo \in Int, NEW hi \in Int,
           lo * f <= x, x <= hi * f
    PROVE  lo <= x \div f /\ x \div f <= hi
<1>1. x \div f \in Int /\ x % f \in 0 .. f - 1 /\ x = f * (x \div f) + (x % f)
  OBVIOUS
<1> DEFINE q == x \div f
<1>2. q \in Int /\ f * q <= x /\ x < f * q + f
  BY <1>1
<1> HIDE DEF q
<1>3. lo <= q
  <2> SUFFICES ASSUME q + 1 <= lo PROVE FALSE
    BY <1>2
  <2>1. (q + 1) * f <= lo * f
    BY <1>2
  <2> QED
    BY <1>2, <2>1
<1>4. q <= hi
  <2> SUFFICES ASSUME hi + 1 <= q PROVE FALSE
    BY <1>2
  <2>1. (hi + 1) * f <= q * f
    BY <1>2
  <2> QED
    BY <1>2, <2>1
<1> QED
  BY <1>3, <1>4 DEF q

LEMMA DivBelow ==
    ASSUME NEW n \in Nat, NEW f \in Nat \ {0}, NEW x \in 0 .. n * f - 1
    PROVE  x \div f < n
<1>1. x \div f \in Int /\ x % f \in 0 .. f - 1 /\ x = f * (x \div f) + (x % f)
  BY n * f \in Int
<1> DEFINE q == x \div f
<1>2. q \in Int /\ f * q <= x /\ x < n * f
  BY <1>1, n * f \in Int
<1> HIDE DEF q
<1>3. q < n
  <2> SUFFICES ASSUME n <= q PROVE FALSE
    BY <1>2
  <2>1. n * f <= q * f
    BY <1>2
  <2> QED
    BY <1>2, <2>1, x \in Int
<1> QED
  BY <1>3 DEF q

Limited(s) ==
    /\ s \in Extents
    /\ s.w \in MinSize.w .. MaxSize.w /\ s.h \in MinSize.h .. MaxSize.h

LEMMA Constants ==
    /\ Font.w \in Nat \ {0} /\ Font.h \in Nat \ {0}
    /\ Box.w \in Nat /\ Box.h \in Nat /\ SCROLLBAR_WIDTH \in Nat
    /\ MinSize.w \in Nat /\ MinSize.h \in Nat
    /\ MaxSize.w \in Nat /\ MaxSize.h \in Nat
BY PixelAssumption, SizeAssumption DEF Extents

(* The window made for a terminal of a size has room for it exactly.       *)
LEMMA CellsOfWindow == ASSUME NEW s \in Extents PROVE CellsIn(WindowFor(s)) = s
<1>1. s.w \in Nat /\ s.h \in Nat /\ s = [w |-> s.w, h |-> s.h]
  BY DEF Extents
<1>2. /\ s.w * Font.w \in Int /\ s.h * Font.h \in Int
      /\ WindowFor(s).w - SCROLLBAR_WIDTH - Box.w = s.w * Font.w
      /\ WindowFor(s).h - Box.h = s.h * Font.h
  BY <1>1, Constants DEF WindowFor, Pixels
<1>3. (s.w * Font.w) \div Font.w = s.w
  <2>1. /\ s.w <= (s.w * Font.w) \div Font.w
        /\ (s.w * Font.w) \div Font.w <= s.w
    BY <1>1, <1>2, Constants, DivWithin
  <2> QED
    BY <1>1, <1>2, <2>1, Constants
<1>4. (s.h * Font.h) \div Font.h = s.h
  <2>1. /\ s.h <= (s.h * Font.h) \div Font.h
        /\ (s.h * Font.h) \div Font.h <= s.h
    BY <1>1, <1>2, Constants, DivWithin
  <2> QED
    BY <1>1, <1>2, <2>1, Constants
<1> QED
  BY <1>1, <1>2, <1>3, <1>4 DEF CellsIn

(* A window in the range asked for has room for a size in the limits.      *)
LEMMA CellsLimited == ASSUME NEW win \in SizeRange PROVE Limited(CellsIn(win))
<1> DEFINE pw == win.w - SCROLLBAR_WIDTH - Box.w
           ph == win.h - Box.h
<1>1. /\ MinSize.w * Font.w \in Int /\ MaxSize.w * Font.w \in Int
      /\ MinSize.h * Font.h \in Int /\ MaxSize.h * Font.h \in Int
  BY Constants
<1>2. /\ win.w \in (MinSize.w * Font.w + Box.w + SCROLLBAR_WIDTH) ..
                    (MaxSize.w * Font.w + Box.w + SCROLLBAR_WIDTH)
      /\ win.h \in (MinSize.h * Font.h + Box.h) .. (MaxSize.h * Font.h + Box.h)
  BY DEF SizeRange, WindowFor, Pixels
<1>3. /\ pw \in Int /\ MinSize.w * Font.w <= pw /\ pw <= MaxSize.w * Font.w
      /\ ph \in Int /\ MinSize.h * Font.h <= ph /\ ph <= MaxSize.h * Font.h
  BY <1>1, <1>2, Constants
<1> HIDE DEF pw, ph
<1>4. MinSize.w <= pw \div Font.w /\ pw \div Font.w <= MaxSize.w
  <2>1. /\ pw \in Int /\ Font.w \in Nat \ {0}
        /\ MinSize.w \in Int /\ MaxSize.w \in Int
    BY <1>3, Constants
  <2> QED
    BY <1>3, <2>1, DivWithin
<1>5. MinSize.h <= ph \div Font.h /\ ph \div Font.h <= MaxSize.h
  BY <1>3, Constants, DivWithin
<1>6. pw \div Font.w \in Int /\ ph \div Font.h \in Int
  BY <1>3, Constants
<1>7. CellsIn(win) = [w |-> pw \div Font.w, h |-> ph \div Font.h]
  BY DEF CellsIn, pw, ph
<1> QED
  BY <1>4, <1>5, <1>6, <1>7, Constants DEF Limited, Extents

LEMMA ProductMono ==
    ASSUME NEW a \in Nat, NEW b \in Nat, NEW f \in Nat, a <= b
    PROVE  a * f \in Nat /\ b * f \in Nat /\ a * f <= b * f
OBVIOUS

LEMMA WindowInRange == ASSUME NEW s, Limited(s) PROVE WindowFor(s) \in SizeRange
<1>1. /\ s.w \in Nat /\ MinSize.w <= s.w /\ s.w <= MaxSize.w
      /\ s.h \in Nat /\ MinSize.h <= s.h /\ s.h <= MaxSize.h
  BY Constants DEF Limited, Extents
<1>2. /\ MinSize.w * Font.w \in Nat /\ s.w * Font.w \in Nat
      /\ MaxSize.w * Font.w \in Nat
      /\ MinSize.w * Font.w <= s.w * Font.w /\ s.w * Font.w <= MaxSize.w * Font.w
  BY <1>1, Constants, ProductMono
<1>3. /\ MinSize.h * Font.h \in Nat /\ s.h * Font.h \in Nat
      /\ MaxSize.h * Font.h \in Nat
      /\ MinSize.h * Font.h <= s.h * Font.h /\ s.h * Font.h <= MaxSize.h * Font.h
  BY <1>1, Constants, ProductMono
<1>4. WindowFor(s).w \in WindowFor(MinSize).w .. WindowFor(MaxSize).w
  BY <1>2, Constants DEF WindowFor, Pixels
<1>5. WindowFor(s).h \in WindowFor(MinSize).h .. WindowFor(MaxSize).h
  BY <1>3, Constants DEF WindowFor, Pixels
<1>6. WindowFor(s) = [w |-> WindowFor(s).w, h |-> WindowFor(s).h]
  BY DEF WindowFor
<1> QED
  BY <1>4, <1>5, <1>6 DEF SizeRange

-----------------------------------------------------------------------------
(* Sizes.                                                                  *)

(* The terminal's area is always that of its size, and the child has been  *)
(* told that size or none; a refused resize is seen in cells only.         *)
PInv ==
    /\ window \in SizeRange /\ cells = CellsIn(window)
    /\ Limited(size) /\ area = Pixels(size)
    /\ child \in {NULL, size}
    /\ refused \in BOOLEAN /\ SizesAgree

LEMMA ResizeKeeps ==
    ASSUME PInv, NEW win \in SizeRange, resize(win)
    PROVE  PInv'
<1> DEFINE new == CellsIn(win)
<1>1. Limited(new) /\ window' = win /\ cells' = new
  BY CellsLimited DEF resize
<1> HIDE DEF new
<1>2. \/ new = size /\ UNCHANGED <<area, size, child, refused>>
      \/ refused' = TRUE /\ UNCHANGED <<area, size, child>>
      \/ refused' = FALSE /\ area' = Pixels(new) /\ size' = new /\ child' = new
  BY DEF resize, Changed, Refuse, new
<1>3. cells' = CellsIn(window')
  BY <1>1 DEF new
<1>4. CASE new = size /\ UNCHANGED <<area, size, child, refused>>
  BY <1>1, <1>3, <1>4 DEF PInv, SizesAgree, Limited
<1>5. CASE refused' = TRUE /\ UNCHANGED <<area, size, child>>
  BY <1>1, <1>3, <1>5 DEF PInv, SizesAgree, Limited
<1>6. CASE refused' = FALSE /\ area' = Pixels(new) /\ size' = new /\ child' = new
  BY <1>1, <1>3, <1>6 DEF PInv, SizesAgree, Limited
<1> QED
  BY <1>2, <1>4, <1>5, <1>6

(* What DECCOLM asks for is in the limits.                                 *)
LEMMA AskedLimited ==
    ASSUME PInv, NEW columns \in {NarrowColumns, WideColumns}
    PROVE  Limited([w |-> columns, h |-> int_max(size.h, PageRows)])
<1>1. size.h \in Nat /\ size.h \in MinSize.h .. MaxSize.h
  BY DEF PInv, Limited, Extents
<1> QED
  BY <1>1, SizeAssumption, Constants DEF Limited, Extents, int_max

LEMMA AskedKeeps ==
    ASSUME PInv, NEW columns \in {NarrowColumns, WideColumns}, DECCOLM(columns)
    PROVE  /\ PInv'
           /\ refused' \/ /\ size'.w = columns /\ size'.h >= PageRows
                          /\ child' = size'
<1> DEFINE asked == [w |-> columns, h |-> int_max(size.h, PageRows)]
<1>1. Limited(asked) /\ fe_request_resize(asked)
  BY AskedLimited DEF DECCOLM
<1>2. WindowFor(asked) \in SizeRange /\ CellsIn(WindowFor(asked)) = asked
  <2> HIDE DEF asked
  <2> QED
    BY <1>1, WindowInRange, CellsOfWindow DEF Limited
<1>3. asked.w = columns /\ asked.h >= PageRows
  <2>1. size.h \in Nat /\ PageRows \in Nat
    BY SizeAssumption DEF PInv, Limited, Extents
  <2> QED
    BY <2>1 DEF int_max
<1> HIDE DEF asked
<1>4. CASE window = WindowFor(asked) /\ UNCHANGED pixels
  <2>1. PInv'
    BY <1>4 DEF PInv, pixels, SizesAgree, Limited
  <2>2. cells' = asked
    BY <1>2, <1>4 DEF PInv, pixels
  <2> QED
    BY <1>3, <2>1, <2>2 DEF PInv, SizesAgree
<1>5. CASE resize(WindowFor(asked))
  <2>1. PInv' /\ cells' = asked
    BY <1>2, <1>5, ResizeKeeps DEF resize
  <2> QED
    BY <1>3, <2>1 DEF PInv, SizesAgree
<1> QED
  BY <1>1, <1>4, <1>5 DEF fe_request_resize

LEMMA NextSizes == PInv /\ [Next]_vars => PInv'
<1> SUFFICES ASSUME PInv, [Next]_vars PROVE PInv'
  OBVIOUS
<1>1. CASE UserResize
  BY <1>1, ResizeKeeps DEF UserResize
<1>2. ASSUME NEW columns \in {NarrowColumns, WideColumns}, DECCOLM(columns)
      PROVE  PInv'
  BY <1>2, AskedKeeps
<1>3. CASE UNCHANGED pixels
  BY <1>3 DEF pixels, PInv, SizesAgree, Limited
<1>4. CASE \/ history_inc \/ history_dec \/ be_switch_buffer \/ ac_reset
           \/ _widget_cb \/ scrollUp \/ scrollDown \/ scrollReset \/ setScrollLock
  <2>1. UNCHANGED pixels
    BY <1>4 DEF history_inc, history_dec, be_switch_buffer, ac_reset, _widget_cb,
                scrollUp, scrollDown, scrollReset, setScrollLock, tePosition
  <2> QED
    BY <1>3, <2>1
<1>5. CASE UNCHANGED vars
  BY <1>3, <1>5 DEF vars, pixels
<1> QED
  BY <1>1, <1>2, <1>4, <1>5 DEF Next, Output, User

LEMMA InitSizes == Init => PInv
<1> SUFFICES ASSUME Init PROVE PInv
  OBVIOUS
<1> DEFINE first == [w |-> NarrowColumns, h |-> PageRows]
<1>1. Limited(first)
  BY SizeAssumption, Constants DEF Limited, Extents
<1>2. /\ window = WindowFor(first) /\ cells = first /\ area = Pixels(first)
      /\ size = first
      /\ refused \in BOOLEAN /\ child = IF refused THEN NULL ELSE first
  BY DEF Init
<1> HIDE DEF first
<1>3. WindowFor(first) \in SizeRange /\ CellsIn(WindowFor(first)) = first
  BY <1>1, WindowInRange, CellsOfWindow DEF Limited
<1> QED
  BY <1>1, <1>2, <1>3 DEF PInv, SizesAgree

LEMMA AlwaysSizes == Spec => []PInv
BY InitSizes, NextSizes, PTL DEF Spec

(* Widget, terminal and child agree on the size unless the child refused.  *)
THEOREM SizesAlwaysAgree == Spec => []SizesAgree
<1>1. PInv => SizesAgree
  BY DEF PInv
<1> QED
  BY <1>1, AlwaysSizes, PTL

(* The limits on the window are limits on the terminal's cells.            *)
THEOREM LimitsAlwaysKept == Spec => []LimitsKept
<1>1. PInv => LimitsKept
  BY DEF PInv, Limited, LimitsKept
<1> QED
  BY <1>1, AlwaysSizes, PTL

(* The mouse is reported in cells that the terminal and the child have.    *)
THEOREM CellsAlwaysInside == Spec => []CellsInside
<1>1. PInv => CellsInside
  <2> SUFFICES ASSUME PInv, NEW x \in 0 .. area.w - 1, NEW y \in 0 .. area.h - 1
               PROVE  /\ x \div Font.w < size.w /\ y \div Font.h < size.h
                      /\ child # NULL => /\ x \div Font.w < child.w
                                         /\ y \div Font.h < child.h
    BY DEF CellsInside
  <2>1. size.w \in Nat /\ size.h \in Nat /\ child \in {NULL, size}
        /\ area = Pixels(size)
    BY DEF PInv, Limited, Extents
  <2>2. x \in 0 .. size.w * Font.w - 1 /\ y \in 0 .. size.h * Font.h - 1
    BY <2>1 DEF Pixels
  <2>3. x \div Font.w < size.w
    BY <2>1, <2>2, Constants, DivBelow
  <2>4. y \div Font.h < size.h
    BY <2>1, <2>2, Constants, DivBelow
  <2> QED
    BY <2>1, <2>3, <2>4
<1> QED
  BY <1>1, AlwaysSizes, PTL

(* 80 or 132 columns asked for are got, through the window and back.       *)
THEOREM AskedAlwaysGiven == Spec => AskedIsGiven
<1> DEFINE Given == \A columns \in {NarrowColumns, WideColumns} :
                      DECCOLM(columns) =>
                        refused' \/ /\ size'.w = columns /\ size'.h >= PageRows
                                    /\ child' = size'
<1>1. PInv => Given
  BY AskedKeeps
<1>2. PInv /\ [Next]_vars => [Given]_vars
  BY <1>1
<1>3. Spec => [][Given]_vars
  BY <1>2, AlwaysSizes, PTL DEF Spec
<1> QED
  BY <1>3 DEF AskedIsGiven

-----------------------------------------------------------------------------
(* The scroll bar.                                                         *)

(* The bar is greyed out without scroll-back and shows the offset with it. *)
SInv ==
    /\ kept \in 0 .. Capacity /\ screen \in {"norm", "alt"}
    /\ offset \in Nat
    /\ bar.value \in Nat /\ (history_size > 0 => bar.value = offset)

LEMMA PositionTold ==
    ASSUME kept' \in Nat, offset' \in Nat, bar.value \in Nat, fe_position
    PROVE  bar'.value \in Nat /\ (history_size' > 0 => bar'.value = offset')
<1>1. history_size' \in Nat
  BY DEF history_size
<1>2. CASE history_size' = 0
  BY <1>2 DEF fe_position, event_scrollposition
<1>3. CASE history_size' # 0
  BY <1>3 DEF fe_position, event_scrollposition
<1> QED
  BY <1>1, <1>2, <1>3

LEMMA NextScroll == SInv /\ PInv /\ [Next]_vars => SInv'
<1> SUFFICES ASSUME SInv, PInv, [Next]_vars PROVE SInv'
  OBVIOUS
<1> DEFINE Moved == /\ kept' \in 0 .. Capacity /\ screen' \in {"norm", "alt"}
                    /\ offset' \in Nat /\ fe_position
<1>1. Moved => SInv'
  BY PositionTold, ScrollAssumption DEF SInv
<1>2. size.h \in Nat /\ history_size \in Nat /\ Capacity \in Nat
  BY ScrollAssumption DEF PInv, Limited, Extents, SInv, history_size
<1>3. ASSUME NEW to \in Int, tePosition(to) PROVE SInv'
  <2>1. offset' \in Nat
    BY <1>2, <1>3 DEF tePosition, int_clamp, int_min, int_max
  <2> QED
    BY <1>1, <1>3, <2>1 DEF tePosition, SInv
<1>4. CASE _widget_cb
  <2>1. PICK to \in 0 .. bar.max : tePosition(to)
    BY <1>4 DEF _widget_cb
  <2> QED
    BY <1>3, <2>1
<1>5. CASE scrollUp \/ scrollDown \/ scrollReset
  <2>1. (2 * size.h) \div 3 \in Int /\ bar.value \in Int
    BY <1>2 DEF SInv
  <2> QED
    BY <1>3, <1>5, <2>1 DEF scrollUp, scrollDown, scrollReset
<1>6. CASE history_inc
  <2>1. kept' \in 0 .. Capacity
    BY <1>2, <1>6 DEF history_inc, SInv, int_min
  <2>2. offset' \in Nat
    BY <1>6 DEF history_inc, SInv
  <2> QED
    BY <1>1, <1>6, <2>1, <2>2 DEF history_inc, SInv
<1>7. CASE history_dec
  <2>1. kept' \in 0 .. Capacity
    BY <1>2, <1>7 DEF history_dec, SInv, int_max
  <2>2. history_size' \in Nat
    BY <1>2, <2>1 DEF history_size
  <2>3. offset' \in Nat
    BY <1>7, <2>2 DEF history_dec, SInv, int_min
  <2> QED
    BY <1>1, <1>7, <2>1, <2>3 DEF history_dec, SInv
<1>8. CASE be_switch_buffer
  BY <1>1, <1>8 DEF be_switch_buffer, SInv
<1>9. CASE ac_reset
  BY <1>1, <1>2, <1>9 DEF ac_reset, SInv
<1>10. CASE setScrollLock \/ UNCHANGED scroll
  BY <1>10 DEF setScrollLock, scroll, SInv, history_size
<1>11. CASE UserResize \/ \E columns \in {NarrowColumns, WideColumns} : DECCOLM(columns)
  <2>1. UNCHANGED scroll
    BY <1>11 DEF UserResize, DECCOLM
  <2> QED
    BY <1>10, <2>1
<1>12. CASE UNCHANGED vars
  <2>1. UNCHANGED scroll
    BY <1>12 DEF vars, scroll
  <2> QED
    BY <1>10, <2>1
<1> QED
  BY <1>4, <1>5, <1>6, <1>7, <1>8, <1>9, <1>10, <1>11, <1>12 DEF Next, Output, User

LEMMA AlwaysScroll == Spec => [](PInv /\ SInv)
<1>1. Init => SInv
  BY ScrollAssumption DEF Init, SInv, history_size
<1> QED
  BY <1>1, AlwaysSizes, NextScroll, PTL DEF Spec

(* Two thirds of a page of two rows or more are less than it, and one row  *)
(* at least.                                                               *)
LEMMA PageStep ==
    ASSUME PInv
    PROVE  /\ size.h \in Nat /\ (2 * size.h) \div 3 \in Nat
           /\ 1 <= (2 * size.h) \div 3 /\ (2 * size.h) \div 3 < size.h
<1>1. size.h \in Nat /\ MinSize.h <= size.h /\ MinSize.h \in Nat /\ 2 <= MinSize.h
  BY SizeAssumption, Constants DEF PInv, Limited, Extents
<1> QED
  BY <1>1

LEMMA PagingStep ==
    ASSUME PInv, SInv
    PROVE  /\ scrollUp => \/ offset' = history_size
                          \/ offset < offset' /\ offset' < offset + size.h
           /\ scrollDown => \/ offset' = 0
                            \/ offset > history_size /\ offset' = history_size
                            \/ offset - size.h < offset' /\ offset' < offset
<1> DEFINE step == (2 * size.h) \div 3
<1>1. step \in Nat /\ 1 <= step /\ step < size.h /\ size.h \in Nat
  BY PageStep
<1> HIDE DEF step
<1>2. offset \in Nat /\ bar.value \in Nat /\ history_size \in Nat
      /\ (history_size > 0 => bar.value = offset)
  BY ScrollAssumption DEF SInv, history_size
<1>3. ASSUME NEW to \in Int, tePosition(to)
      PROVE  offset' = IF to < 0 THEN 0
                       ELSE IF to > history_size THEN history_size ELSE to
  BY <1>2, <1>3 DEF tePosition, int_clamp, int_min, int_max
<1>4. ASSUME scrollUp
      PROVE  \/ offset' = history_size
             \/ offset < offset' /\ offset' < offset + size.h
  <2>1. tePosition(bar.value + step) /\ bar.value + step \in Int
    BY <1>1, <1>2, <1>4 DEF scrollUp, step
  <2>2. offset' = IF bar.value + step > history_size THEN history_size
                  ELSE bar.value + step
    BY <1>1, <1>2, <1>3, <2>1
  <2> QED
    BY <1>1, <1>2, <2>2
<1>5. ASSUME scrollDown
      PROVE  \/ offset' = 0
             \/ offset > history_size /\ offset' = history_size
             \/ offset - size.h < offset' /\ offset' < offset
  <2>1. tePosition(bar.value - step) /\ bar.value - step \in Int
    BY <1>1, <1>2, <1>5 DEF scrollDown, step
  <2>2. offset' = IF bar.value - step < 0 THEN 0
                  ELSE IF bar.value - step > history_size THEN history_size
                  ELSE bar.value - step
    BY <1>1, <1>2, <1>3, <2>1
  <2> QED
    BY <1>1, <1>2, <2>2
<1> QED
  BY <1>4, <1>5

(* Paging through the scroll-back gets on and skips no line.               *)
THEOREM PagingNeverSkips == Spec => PagingSkipsNothing
<1>1. PInv /\ SInv /\ [Next]_vars =>
        [/\ scrollUp => \/ offset' = history_size
                        \/ offset < offset' /\ offset' < offset + size.h
         /\ scrollDown => \/ offset' = 0
                          \/ offset > history_size /\ offset' = history_size
                          \/ offset - size.h < offset' /\ offset' < offset]_vars
  BY PagingStep
<1> QED
  BY <1>1, AlwaysScroll, PTL DEF Spec, PagingSkipsNothing

-----------------------------------------------------------------------------
(* The mouse.                                                              *)

(* The buttons the terminal believes to be down.                           *)
seen == buttons \intersect Buttons

(* What a program is told is right as long as nothing makes it doubtful,   *)
(* of the buttons the terminal has seen, over it or not; over the terminal *)
(* these are all.  A triple click is a double click.                       *)
Right ==
    /\ told = seen \/ unsure # {}
    /\ seen = {} => told = {} \/ "selection" \in unsure
MInv ==
    /\ MouseTypeOK /\ Right
    /\ pointer # Outside => held = seen
    /\ "TRIPLE" \in buttons => "DOUBLE" \in buttons

Named == {"LEFT", "MIDDLE", "RIGHT"}
Clicks == {{}, {"DOUBLE"}, {"DOUBLE", "TRIPLE"}}

-----------------------------------------------------------------------------
(* One event.                                                              *)

Changes(down) ==
    LET now == down \intersect Buttons IN (now \ seen) \union (seen \ now)

LEMMA SelectionDoubt ==
    ASSUME NEW down, NEW modifiers, NEW code,
           Selects(modifiers), Changes(down) # {}
    PROVE  "selection" \in Doubts(down, modifiers, code)
BY DEF Doubts, Changes, seen

LEMMA MulticlickDoubt ==
    ASSUME NEW down, NEW modifiers, "DOUBLE" \in buttons
    PROVE  "multiclick" \in Doubts(down, modifiers, ReleaseCode)
BY DEF Doubts

LEMMA SeveralDoubt ==
    ASSUME NEW down, NEW modifiers, NEW code, code # NoReport,
           NEW b \in Changes(down), NEW c \in Changes(down),
           b # c \/ (code = ReleaseCode /\ down \intersect Buttons # {})
    PROVE  "several" \in Doubts(down, modifiers, code)
BY DEF Doubts, Changes, seen

(* The stored buttons are those that are down, without the wheel.          *)
LEMMA StoredSeen ==
    ASSUME NEW now \in SUBSET Buttons, NEW more \in SUBSET {"DOUBLE", "TRIPLE",
             "WHEEL_UP", "WHEEL_DOWN"}
    PROVE  /\ Stored(now \union more) \intersect Buttons = now
           /\ (now \union more) \intersect Buttons = now
           /\ Stored(now \union more) \subseteq Buttons \union {"DOUBLE", "TRIPLE"}
BY ButtonsAssumption DEF Stored, Wheel

(* An event over the terminal: the buttons held, with clicks or the wheel. *)
Event(at, more, modifiers) ==
    /\ at \in Cells /\ held' \in SUBSET Buttons
    /\ \/ more \in Clicks
       \/ more \in {{"WHEEL_UP"}, {"WHEEL_DOWN"}} /\ held' = seen
    /\ te_handle_mouse(at, held' \union more, modifiers)

LEMMA EventTyped ==
    ASSUME MInv, NEW at, NEW more, NEW modifiers, Event(at, more, modifiers)
    PROVE  /\ cell' \in Cells /\ buttons' \subseteq Buttons \union {"DOUBLE", "TRIPLE"}
           /\ report' \in Reports \union {NoReport} /\ told' \subseteq Buttons
           /\ unsure' \subseteq {"selection", "multiclick", "several"}
           /\ seen' = held'
           /\ "TRIPLE" \in buttons' => "DOUBLE" \in buttons'
<1> DEFINE down == held' \union more
           code == Report(at, down, modifiers)
<1>1. more \in SUBSET {"DOUBLE", "TRIPLE", "WHEEL_UP", "WHEEL_DOWN"}
      /\ held' \in SUBSET Buttons /\ at \in Cells
      /\ te_handle_mouse(at, down, modifiers)
  BY DEF Event, Clicks
<1>2. cell' = at /\ buttons' = Stored(down) /\ report' = code
      /\ told' = Told(code)
      /\ unsure' \subseteq unsure \union Doubts(down, modifiers, code)
  BY <1>1 DEF te_handle_mouse
<1>3. code \in Reports \union {NoReport}
  BY DEF Report, ButtonReport, MotionReport, Reports, ReleaseCode
<1>4. \/ code = "M0" /\ "LEFT" \in down
      \/ code = "M1" /\ "MIDDLE" \in down
      \/ code = "M2" /\ "RIGHT" \in down
      \/ code \notin {"M0", "M1", "M2"}
  BY ReportsAssumption DEF Report, ButtonReport, MotionReport, Reports, ReleaseCode,
                        Stored
<1>5. told \subseteq Buttons
      /\ unsure \subseteq {"selection", "multiclick", "several"}
  BY DEF MInv, MouseTypeOK
<1>6. \A b \in Named : b \in down => b \in Buttons
  BY <1>1 DEF Named
<1>7. told' \subseteq Buttons
  BY <1>2, <1>4, <1>5, <1>6 DEF Told, Named, ReleaseCode
<1>8. Doubts(down, modifiers, code) \subseteq {"selection", "multiclick", "several"}
  BY DEF Doubts
<1>9. "TRIPLE" \in buttons' => "DOUBLE" \in buttons'
  BY <1>2, ButtonsAssumption DEF Event, Clicks, Stored, Wheel
<1> QED
  BY <1>1, <1>2, <1>3, <1>5, <1>7, <1>8, <1>9, StoredSeen DEF seen

(* What is reported of a change: one of the buttons that went down, or a   *)
(* release when none did.                                                  *)
LEMMA ChangeReported ==
    ASSUME MInv, NEW at, NEW more, NEW modifiers, Event(at, more, modifiers),
           ~Selects(modifiers), Changes(held' \union more) # {}
    PROVE  LET code == Report(at, held' \union more, modifiers)
           IN  \/ code = "M0" /\ "LEFT" \in held' \ seen
               \/ code = "M1" /\ "MIDDLE" \in held' \ seen
               \/ code = "M2" /\ "RIGHT" \in held' \ seen
               \/ code = ReleaseCode /\ held' \subseteq seen
<1> DEFINE down == held' \union more
           pressed == down \ buttons
           released == buttons \ down
<1>1. more \in SUBSET {"DOUBLE", "TRIPLE", "WHEEL_UP", "WHEEL_DOWN"}
      /\ held' \in SUBSET Buttons
  BY DEF Event, Clicks
<1>2. down \intersect Buttons = held'
  BY <1>1, StoredSeen
<1>3. Changes(down) = (held' \ seen) \union (seen \ held')
  BY <1>2 DEF Changes
<1>4. more \in Clicks
  BY <1>3 DEF Event
<1>5. pressed \intersect Named = held' \ seen
  BY <1>1, ButtonsAssumption DEF Named, seen
<1>6. pressed \intersect {"WHEEL_UP", "WHEEL_DOWN"} = {}
  BY <1>1, <1>4, ButtonsAssumption DEF Clicks
<1>7. held' \subseteq seen => released # {}
  BY <1>2, <1>3 DEF seen
<1>8. pressed \union released # {}
  BY <1>5, <1>7
<1>9. Report(at, down, modifiers) = ButtonReport(pressed, released)
  BY <1>8 DEF Report
<1>10. held' \ seen \subseteq Named
  BY <1>1, ButtonsAssumption DEF Named
<1>11. \/ ButtonReport(pressed, released) = "M0" /\ "LEFT" \in pressed
       \/ ButtonReport(pressed, released) = "M1" /\ "MIDDLE" \in pressed
       \/ ButtonReport(pressed, released) = "M2" /\ "RIGHT" \in pressed
       \/ ButtonReport(pressed, released) = ReleaseCode
          /\ pressed \intersect Named = {}
  <2>1. CASE pressed \intersect Named # {}
    BY <2>1 DEF ButtonReport, Named
  <2>2. CASE pressed \intersect Named = {}
    <3>1. released # {}
      BY <1>5, <1>7, <2>2
    <3> QED
      BY <1>6, <2>2, <3>1 DEF ButtonReport, Named
  <2> QED
    BY <2>1, <2>2
<1> QED
  BY <1>5, <1>9, <1>10, <1>11 DEF Named

(* Of no change: nothing, the wheel, a motion, or the end of clicks as a   *)
(* release.                                                                *)
LEMMA NoChangeTold ==
    ASSUME MInv, NEW at, NEW more, NEW modifiers, Event(at, more, modifiers),
           Changes(held' \union more) = {}
    PROVE  \/ told' = told
           \/ told' = told \union {"LEFT"} /\ "LEFT" \in held'
           \/ /\ "DOUBLE" \in buttons /\ told' = {}
              /\ Report(at, held' \union more, modifiers) = ReleaseCode
<1> DEFINE down == held' \union more
           pressed == down \ buttons
           released == buttons \ down
           code == Report(at, down, modifiers)
<1>1. more \in SUBSET {"DOUBLE", "TRIPLE", "WHEEL_UP", "WHEEL_DOWN"}
      /\ held' \in SUBSET Buttons /\ told' = Told(code)
  BY DEF Event, Clicks, te_handle_mouse
<1>2. down \intersect Buttons = held' /\ held' = seen
  <2>1. down \intersect Buttons = held'
    BY <1>1, StoredSeen
  <2> QED
    BY <2>1 DEF Changes
<1>3. CASE Selects(modifiers)
  <2>1. code = NoReport
    BY <1>3 DEF Report
  <2> QED
    BY <1>1, <2>1, ReportsAssumption DEF Told, Reports, ReleaseCode
<1>4. CASE ~Selects(modifiers) /\ pressed \union released # {}
  <2>1. code = ButtonReport(pressed, released)
    BY <1>4 DEF Report
  <2>2. pressed \intersect Named = {}
    BY <1>1, <1>2, ButtonsAssumption DEF Named, seen
  <2>3. released # {} => "DOUBLE" \in buttons
    <3>1. buttons \subseteq Buttons \union {"DOUBLE", "TRIPLE"}
          /\ ("TRIPLE" \in buttons => "DOUBLE" \in buttons)
      BY DEF MInv, MouseTypeOK
    <3>2. released \intersect Buttons = {}
      BY <1>2 DEF seen
    <3> QED
      BY <3>1, <3>2
  <2>4. \/ code \in {"M64", "M65", NoReport}
        \/ code = ReleaseCode /\ "DOUBLE" \in buttons
    BY <2>1, <2>2, <2>3 DEF ButtonReport, Named
  <2> QED
    BY <1>1, <2>4, ReportsAssumption DEF Told, Reports, ReleaseCode
<1>5. CASE ~Selects(modifiers) /\ pressed \union released = {}
  <2>1. code \in {NoReport, "M33", "M34", "M35"}
        \/ (code = "M0" /\ "LEFT" \in Stored(down))
    BY <1>5 DEF Report, MotionReport
  <2>2. "LEFT" \in Stored(down) => "LEFT" \in held'
    BY <1>1 DEF Stored
  <2> QED
    BY <1>1, <2>1, <2>2, ReportsAssumption DEF Told, Reports, ReleaseCode
<1> QED
  BY <1>3, <1>4, <1>5

LEMMA PressTold ==
    ASSUME NEW code
    PROVE  /\ code = "M0" => Told(code) = told \union {"LEFT"}
           /\ code = "M1" => Told(code) = told \union {"MIDDLE"}
           /\ code = "M2" => Told(code) = told \union {"RIGHT"}
BY DEF Told, ReleaseCode

LEMMA EventRight ==
    ASSUME MInv, NEW at, NEW more, NEW modifiers, Event(at, more, modifiers)
    PROVE  Right'
<1> DEFINE down == held' \union more
           code == Report(at, down, modifiers)
           doubts == Doubts(down, modifiers, code)
<1>1. more \in SUBSET {"DOUBLE", "TRIPLE", "WHEEL_UP", "WHEEL_DOWN"}
      /\ held' \in SUBSET Buttons /\ told' = Told(code)
      /\ unsure' = IF told' = {} /\ held' = {} THEN {} ELSE unsure \union doubts
  BY DEF Event, Clicks, te_handle_mouse
<1>2. seen' = held' /\ down \intersect Buttons = held'
  BY <1>1, EventTyped, StoredSeen
<1>3. Changes(down) = (held' \ seen) \union (seen \ held')
  BY <1>2 DEF Changes
<1>4. Right
  BY DEF MInv
<1>5. CASE told' = {} /\ held' = {}
  BY <1>2, <1>5 DEF Right
<1>6. CASE ~(told' = {} /\ held' = {}) /\ Changes(down) = {}
  <2>1. held' = seen /\ unsure' = unsure \union doubts
    BY <1>1, <1>3, <1>6
  <2>2. CASE told' = told
    BY <1>2, <1>4, <2>1, <2>2 DEF Right
  <2>3. CASE told' = told \union {"LEFT"} /\ "LEFT" \in held'
    BY <1>2, <1>4, <2>1, <2>3 DEF Right
  <2>4. CASE "DOUBLE" \in buttons /\ code = ReleaseCode /\ told' = {}
    <3>1. "multiclick" \in doubts
      BY <2>4, MulticlickDoubt
    <3> QED
      BY <1>2, <2>1, <2>4, <3>1 DEF Right
  <2> QED
    BY <1>6, <2>2, <2>3, <2>4, NoChangeTold
<1>7. CASE ~(told' = {} /\ held' = {}) /\ Changes(down) # {}
  <2>1. unsure' = unsure \union doubts
    BY <1>1, <1>7
  <2>2. CASE Selects(modifiers)
    <3>1. "selection" \in doubts
      BY <1>7, <2>2, SelectionDoubt
    <3> QED
      BY <2>1, <3>1 DEF Right
  <2>3. ASSUME ~Selects(modifiers), code = ReleaseCode, held' \subseteq seen
        PROVE  Right'
    <3>1. told' = {} /\ held' # {} /\ code # NoReport
      BY <1>1, <1>7, <2>3, ReportsAssumption DEF Told, Reports, ReleaseCode
    <3>2. "several" \in doubts
      BY <1>2, <1>7, <2>3, <3>1, SeveralDoubt
    <3> QED
      BY <1>2, <2>1, <3>1, <3>2 DEF Right
  <2>4. ASSUME NEW b \in held' \ seen, told' = told \union {b}, code # NoReport
        PROVE  Right'
    <3>1. CASE Changes(down) = {b}
      <4>1. held' = seen \union {b}
        BY <1>3, <3>1
      <4> QED
        BY <1>2, <1>4, <2>1, <2>4, <4>1 DEF Right
    <3>2. CASE Changes(down) # {b}
      <4>1. "several" \in doubts
        <5>1. b \in Changes(down)
          BY <1>3
        <5>2. PICK c \in Changes(down) : c # b
          BY <3>2, <5>1
        <5> QED
          BY <2>4, <5>1, <5>2, SeveralDoubt
      <4> QED
        BY <1>2, <2>1, <2>4, <4>1 DEF Right
    <3> QED
      BY <3>1, <3>2
  <2>5. ASSUME ~Selects(modifiers),
               \/ code = "M0" /\ "LEFT" \in held' \ seen
               \/ code = "M1" /\ "MIDDLE" \in held' \ seen
               \/ code = "M2" /\ "RIGHT" \in held' \ seen
        PROVE  Right'
    <3>1. code # NoReport
      BY <2>5, ReportsAssumption DEF Reports
    <3>2. \E b \in held' \ seen : told' = told \union {b}
      <4>1. CASE code = "M0" /\ "LEFT" \in held' \ seen
        BY <1>1, <4>1, PressTold
      <4>2. CASE code = "M1" /\ "MIDDLE" \in held' \ seen
        BY <1>1, <4>2, PressTold
      <4>3. CASE code = "M2" /\ "RIGHT" \in held' \ seen
        BY <1>1, <4>3, PressTold
      <4> QED
        BY <2>5, <4>1, <4>2, <4>3
    <3> QED
      BY <2>4, <3>1, <3>2
  <2> QED
    BY <1>7, <2>2, <2>3, <2>5, ChangeReported
<1> QED
  BY <1>5, <1>6, <1>7

-----------------------------------------------------------------------------
(* Every step.                                                             *)

LEMMA HandledKeeps ==
    ASSUME MInv, NEW at \in Cells \union {Outside}, NEW more, handle(at, more),
           pointer' \in Cells \union {Outside}, held' \in SUBSET Buttons,
           more \in Clicks \/ (more \in {{"WHEEL_UP"}, {"WHEEL_DOWN"}} /\ held' = seen),
           pointer' = at
    PROVE  MInv'
<1>1. mouse_mode' = mouse_mode
  BY DEF handle
<1>2. CASE at = Outside
  <2>1. report' = NoReport /\ UNCHANGED <<cell, buttons, told, unsure>>
    BY <1>2 DEF handle
  <2>2. seen' = seen
    BY <2>1 DEF seen
  <2>3. Right'
    BY <2>1, <2>2 DEF MInv, Right
  <2> QED
    BY <1>1, <1>2, <2>1, <2>3 DEF MInv, MouseTypeOK
<1>3. CASE at # Outside
  <2>1. PICK modifiers \in Modifiers :
             te_handle_mouse(at, held' \union more, modifiers)
    BY <1>3 DEF handle
  <2>2. Event(at, more, modifiers)
    BY <1>3, <2>1 DEF Event
  <2>3. Right'
    BY <2>2, EventRight
  <2>4. MouseTypeOK' /\ seen' = held' /\ ("TRIPLE" \in buttons' => "DOUBLE" \in buttons')
    <3>1. MouseTypeOK
      BY DEF MInv
    <3> QED
      BY <1>1, <2>2, <3>1, EventTyped DEF MouseTypeOK
  <2> QED
    BY <2>3, <2>4 DEF MInv
<1> QED
  BY <1>2, <1>3

LEMMA NextKeeps == MInv /\ [MouseNext]_mouseVars => MInv'
<1> SUFFICES ASSUME MInv, [MouseNext]_mouseVars PROVE MInv'
  OBVIOUS
<1> USE DEF Clicks
<1>1. MouseTypeOK
  BY DEF MInv
<1>2. CASE ac_set_mode \/ ac_clear_mode \/ UNCHANGED mouseVars
  <2>1. /\ UNCHANGED <<cell, buttons, held, pointer, told, unsure>>
        /\ mouse_mode' \in Tracking \union {"none"}
        /\ report' \in Reports \union {NoReport}
    BY <1>1, <1>2 DEF ac_set_mode, ac_clear_mode, Unmoved, mouseVars, MouseTypeOK
  <2>2. MouseTypeOK' /\ seen' = seen
    BY <1>1, <2>1 DEF MouseTypeOK, seen
  <2> QED
    BY <2>1, <2>2 DEF MInv, Right
<1>3. CASE push
  <2>1. PICK clicks \in Clicks : handle(pointer, clicks)
    BY <1>3 DEF push
  <2>2. held' \in SUBSET Buttons /\ pointer' = pointer
    BY <1>1, <1>3 DEF push, MouseTypeOK
  <2> QED
    BY <1>1, <2>1, <2>2, HandledKeeps DEF MouseTypeOK
<1>4. CASE release
  <2>1. held' \in SUBSET Buttons /\ pointer' = pointer /\ handle(pointer, {})
    BY <1>1, <1>4 DEF release, MouseTypeOK
  <2> QED
    BY <1>1, <2>1, HandledKeeps DEF MouseTypeOK
<1>5. CASE move
  <2>1. /\ held' \in SUBSET Buttons /\ handle(pointer', {})
        /\ pointer' \in Cells \union {Outside}
    BY <1>1, <1>5 DEF move, MouseTypeOK
  <2> QED
    BY <2>1, HandledKeeps
<1>6. CASE wheel
  <2>1. PICK w \in Wheel : handle(pointer, {w})
    BY <1>6 DEF wheel
  <2>2. held' = seen /\ held' \in SUBSET Buttons /\ pointer' = pointer
    BY <1>1, <1>6 DEF wheel, MInv, MouseTypeOK
  <2> QED
    BY <1>1, <2>1, <2>2, HandledKeeps DEF MouseTypeOK, Wheel
<1> QED
  BY <1>2, <1>3, <1>4, <1>5, <1>6 DEF MouseNext

(* Whatever the user does with the mouse, in and out of the terminal, and  *)
(* whichever tracking mode the program sets when, it is wrong about the    *)
(* buttons for one of the three reasons only, and no button is stuck.      *)
THEOREM ButtonsAlwaysKnown == MouseSpec => []ButtonsKnown
<1>1. MouseInit => MInv
  <2> SUFFICES ASSUME MouseInit PROVE MInv
    OBVIOUS
  <2>1. seen = {} /\ MouseTypeOK
    BY DEF MouseInit, seen, MouseTypeOK
  <2> QED
    BY <2>1 DEF MouseInit, MInv, Right
<1>2. MInv => ButtonsKnown
  BY DEF MInv, Right, ButtonsKnown
<1> QED
  BY <1>1, <1>2, NextKeeps, PTL DEF MouseSpec
=============================================================================
