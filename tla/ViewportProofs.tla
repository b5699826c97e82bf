--------------------------- MODULE ViewportProofs ---------------------------
(***************************************************************************)
(* The viewport, for every set of lines, capacity and height: its types    *)
(* and what it reports, locked or not; that no row of the window is stale  *)
(* and clean, and that it stays within the scroll-back, unless it was ever *)
(* locked.                                                                 *)
(***************************************************************************)
EXTENDS Viewport, SequenceTheorems, TLAPS

-----------------------------------------------------------------------------
(* Types.                                                                  *)

Rows == [Page -> Lines]

LEMMA PageIsFinite == ASSUME TypeOK PROVE height \in Nat \ {0}
BY SizeAssumption DEF TypeOK

LEMMA RowsTyped == ASSUME TypeOK PROVE rows \in Rows
BY DEF TypeOK, rows, Rows

(* Replacing the rows of the selected buffer.                              *)
LEMMA SetRowsTyped ==
    ASSUME TypeOK, NEW new \in Rows, SetRows(new), UNCHANGED height
    PROVE  buffers' \in [{"norm", "alt"} -> [Page' -> Lines]]
BY DEF TypeOK, SetRows, Rows, Page

LEMMA KeptTyped ==
    ASSUME TypeOK, NEW i \in 1 .. Len(kept)
    PROVE  kept[i] \in Lines
BY ElementOfSeq DEF TypeOK

LEMMA TaintTyped ==
    ASSUME NEW ys, NEW off PROVE viewport_taint(ys, off) \subseteq Page
BY DEF viewport_taint

LEMMA ScrolledUpTyped ==
    ASSUME TypeOK, NEW from \in Page, NEW to \in Page, NEW n \in 1 .. to - from,
           buffer_scroll_up(from, to, n), UNCHANGED height
    PROVE  /\ buffers' \in [{"norm", "alt"} -> [Page' -> Lines]]
           /\ kept' \in Seq(Lines) /\ Len(kept') <= Capacity
<1> DEFINE new == [y \in Page |-> IF y < from \/ y > to THEN rows[y]
                              ELSE IF y + n <= to THEN rows[y + n] ELSE Blank]
           k == int_min(n + Len(kept), Capacity)
           e(i) == IF i <= n THEN rows[n - i] ELSE kept[i - n]
           stored == [i \in 1 .. k |-> e(i)]
<1>1. height \in Nat \ {0} /\ rows \in Rows
  BY PageIsFinite, RowsTyped
<1>2. new \in Rows
  <2>1. ASSUME NEW y \in Page PROVE new[y] \in Lines
    <3>1. CASE y < from \/ y > to
      BY <1>1, <3>1 DEF Rows
    <3>2. CASE ~(y < from \/ y > to) /\ y + n <= to
      <4>1. y + n \in Page
        BY <1>1, <3>2 DEF Page
      <4> QED
        BY <1>1, <3>2, <4>1 DEF Rows
    <3>3. CASE ~(y < from \/ y > to) /\ ~(y + n <= to)
      BY <3>3, LineAssumption
    <3> QED
      BY <3>1, <3>2, <3>3
  <2> QED
    BY <2>1 DEF Rows
<1>3. buffers' \in [{"norm", "alt"} -> [Page' -> Lines]]
  <2>1. SetRows(new)
    BY DEF buffer_scroll_up
  <2> QED
    BY <1>2, <2>1, SetRowsTyped
<1>4. k \in Nat /\ k <= Capacity /\ k <= n + Len(kept)
  <2>1. Len(kept) \in Nat
    BY LenProperties DEF TypeOK
  <2> QED
    BY <1>1, <2>1, SizeAssumption DEF int_min, Page
<1>5. ASSUME from = 0
      PROVE  stored \in Seq(Lines) /\ Len(stored) <= Capacity
  <2>1. ASSUME NEW i \in 1 .. k PROVE e(i) \in Lines
    <3>1. CASE i <= n
      <4>1. n - i \in Page
        BY <1>1, <1>4, <1>5, <3>1 DEF Page
      <4> QED
        BY <1>1, <3>1, <4>1 DEF Rows
    <3>2. CASE i > n
      <4>1. Len(kept) \in Nat
        BY LenProperties DEF TypeOK
      <4>2. i - n \in 1 .. Len(kept)
        BY <1>4, <3>2, <4>1
      <4>3. kept[i - n] \in Lines
        BY <4>2, KeptTyped
      <4> QED
        BY <3>2, <4>3
    <3> QED
      BY <3>1, <3>2, <1>4
  <2>2. stored \in [1 .. k -> Lines]
    BY <2>1
  <2>3. stored \in Seq(Lines) /\ Len(stored) = k
    BY <1>4, <2>2
  <2> QED
    BY <1>4, <2>3
<1>6. kept' = stored \/ kept' = kept
  BY DEF buffer_scroll_up
<1>7. kept' = stored => from = 0 \/ kept' = kept
  BY DEF buffer_scroll_up
<1> QED
  BY <1>3, <1>5, <1>6, <1>7 DEF TypeOK

LEMMA ScrolledDownTyped ==
    ASSUME TypeOK, NEW from \in Page, NEW to \in Page, NEW n \in 1 .. to - from,
           buffer_scroll_down(from, to, n), UNCHANGED height
    PROVE  /\ buffers' \in [{"norm", "alt"} -> [Page' -> Lines]]
           /\ kept' \in Seq(Lines) /\ Len(kept') <= Capacity
<1> DEFINE fetched(i) == IF from = 0 /\ screen = "norm" /\ i <= Len(kept)
                         THEN kept[i] ELSE Blank
           new == [y \in Page |-> IF y < from \/ y > to THEN rows[y]
                                  ELSE IF y - n >= from THEN rows[y - n]
                                  ELSE fetched(from + n - y)]
<1>1. height \in Nat \ {0} /\ rows \in Rows
  BY PageIsFinite, RowsTyped
<1>2. Len(kept) \in Nat /\ kept \in Seq(Lines) /\ Len(kept) <= Capacity
  BY LenProperties DEF TypeOK
<1>3. ASSUME NEW i \in Nat \ {0} PROVE fetched(i) \in Lines
  <2>1. i <= Len(kept) => kept[i] \in Lines
    BY <1>2, KeptTyped
  <2> QED
    BY <2>1, LineAssumption
<1> HIDE DEF fetched
<1>4. new \in Rows
  <2>1. ASSUME NEW y \in Page PROVE new[y] \in Lines
    <3>1. CASE y < from \/ y > to
      BY <1>1, <3>1 DEF Rows
    <3>2. CASE ~(y < from \/ y > to) /\ y - n >= from
      <4>1. y - n \in Page
        BY <1>1, <3>2 DEF Page
      <4> QED
        BY <1>1, <3>2, <4>1 DEF Rows
    <3>3. CASE ~(y < from \/ y > to) /\ ~(y - n >= from)
      <4>1. from + n - y \in Nat \ {0}
        BY <1>1, <3>3 DEF Page
      <4>2. fetched(from + n - y) \in Lines
        BY <1>3, <4>1
      <4> QED
        BY <3>3, <4>2
    <3> QED
      BY <3>1, <3>2, <3>3
  <2> QED
    BY <2>1 DEF Rows
<1>5. buffers' \in [{"norm", "alt"} -> [Page' -> Lines]]
  <2>1. SetRows(new)
    BY DEF buffer_scroll_down, fetched
  <2> QED
    BY <1>4, <2>1, SetRowsTyped
<1>6. n + 1 \in Int /\ \A i \in n + 1 .. Len(kept) : kept[i] \in Lines
  BY <1>1, <1>2, KeptTyped DEF Page
<1>7. /\ SubSeq(kept, n + 1, Len(kept)) \in Seq(Lines)
      /\ Len(SubSeq(kept, n + 1, Len(kept)))
           = IF n + 1 <= Len(kept) THEN Len(kept) - (n + 1) + 1 ELSE 0
  BY <1>2, <1>6, SubSeqProperties
<1>8. Len(SubSeq(kept, n + 1, Len(kept))) <= Capacity
  BY <1>1, <1>2, <1>7, SizeAssumption DEF Page
<1> QED
  BY <1>2, <1>5, <1>7, <1>8 DEF buffer_scroll_down

LEMMA OffsetTyped ==
    ASSUME TypeOK, NEW hsz \in Nat
    PROVE  OffsetAfterInc \in Nat /\ OffsetAfterDec(hsz) \in Nat
BY DEF TypeOK, OffsetAfterInc, OffsetAfterDec, int_min

LEMMA InitTyped == Init => TypeOK
<1> SUFFICES ASSUME Init PROVE TypeOK
  OBVIOUS
<1>1. kept \in Seq(Lines) /\ Len(kept) = 0
  BY EmptySeq DEF Init
<1>2. everLocked \in BOOLEAN
  BY DEF Init
<1> QED
  BY <1>1, <1>2, LineAssumption, SizeAssumption DEF Init, TypeOK, Page

LEMMA NextTyped == TypeOK /\ [Next]_vars => TypeOK'
<1> SUFFICES ASSUME TypeOK, [Next]_vars PROVE TypeOK'
  OBVIOUS
<1>0. everLocked' \in BOOLEAN
  <2>1. everLocked \in BOOLEAN
    BY DEF TypeOK
  <2> QED
    BY <2>1, Zenon DEF Next, OutputOrFrontend, viewport_lock_scroll, vars
<1> USE <1>0
<1>1. height \in Nat \ {0} /\ rows \in Rows
  BY PageIsFinite, RowsTyped
<1>2. Len(kept) \in Nat /\ kept \in Seq(Lines) /\ Len(kept) <= Capacity
  BY LenProperties DEF TypeOK
<1>3. <<>> \in Seq(Lines) /\ Len(<<>>) = 0
  BY EmptySeq
<1>4. [y \in Page |-> Blank] \in Rows
  BY LineAssumption DEF Rows
<1>5. ASSUME NEW ys, NEW line \in Lines, ChangeRows(ys, line) PROVE TypeOK'
  <2>1. [y \in Page |-> IF y \in ys THEN line ELSE rows[y]] \in Rows
    BY <1>1 DEF Rows
  <2>2. buffers' \in [{"norm", "alt"} -> [Page' -> Lines]]
    BY <1>5, <2>1, SetRowsTyped DEF ChangeRows
  <2>3. viewport_taint(ys, offset) \subseteq Page
    BY TaintTyped
  <2> QED
    BY <1>5, <2>2, <2>3 DEF ChangeRows, TypeOK, Page
<1>6. ASSUME NEW from \in Page, NEW to \in Page, NEW n \in 1 .. to - from,
             ScrollUp(from, to, n)
      PROVE  TypeOK'
  <2>1. /\ buffers' \in [{"norm", "alt"} -> [Page' -> Lines]]
        /\ kept' \in Seq(Lines) /\ Len(kept') <= Capacity
    BY <1>6, ScrolledUpTyped DEF ScrollUp
  <2>2. offset' \in Nat
    BY <1>6, OffsetTyped, <1>2 DEF ScrollUp
  <2>3. SizeOf(screen', kept') \in Nat
    BY <2>1, LenProperties DEF SizeOf
  <2>4. TaintedByInc \subseteq Page /\ viewport_taint(from .. to, offset') \subseteq Page
    BY TaintTyped DEF TaintedByInc
  <2> QED
    BY <1>6, <2>1, <2>2, <2>3, <2>4 DEF ScrollUp, TypeOK, Page, _report_scroll
<1>7. ASSUME NEW from \in Page, NEW to \in Page, NEW n \in 1 .. to - from,
             ScrollDown(from, to, n)
      PROVE  TypeOK'
  <2>1. /\ buffers' \in [{"norm", "alt"} -> [Page' -> Lines]]
        /\ kept' \in Seq(Lines) /\ Len(kept') <= Capacity
    BY <1>7, ScrolledDownTyped DEF ScrollDown
  <2>2. SizeOf(screen, kept') \in Nat /\ screen' = screen
    BY <1>7, <2>1, LenProperties DEF SizeOf, ScrollDown
  <2>3. offset' \in Nat
    BY <1>7, <2>2, OffsetTyped DEF ScrollDown
  <2>4. /\ TaintedByDec(SizeOf(screen, kept')) \subseteq Page
        /\ viewport_taint(from .. to, offset') \subseteq Page
    BY TaintTyped DEF TaintedByDec
  <2> QED
    BY <1>7, <2>1, <2>2, <2>3, <2>4 DEF ScrollDown, TypeOK, Page, _report_scroll
<1>8. ASSUME NEW alt \in BOOLEAN, NEW erase \in BOOLEAN,
             be_switch_buffer(alt, erase)
      PROVE  TypeOK'
  <2>1. buffers' \in [{"norm", "alt"} -> [Page -> Lines]]
    BY <1>4, <1>8 DEF be_switch_buffer, TypeOK, Rows
  <2>2. SizeOf(screen', kept') \in Nat
    BY <1>2, <1>8 DEF SizeOf, be_switch_buffer
  <2> QED
    BY <1>8, <2>1, <2>2 DEF be_switch_buffer, TypeOK, Page, _report_scroll
<1>9. CASE ac_reset
  <2>1. buffers' \in [{"norm", "alt"} -> [Page -> Lines]]
    BY <1>4, <1>9 DEF ac_reset, TypeOK, Rows
  <2>2. SizeOf(screen', kept') \in Nat
    BY <1>3, <1>9 DEF SizeOf, ac_reset
  <2>3. kept' \in Seq(Lines) /\ Len(kept') <= Capacity
    BY <1>3, <1>9, SizeAssumption DEF ac_reset
  <2>4. reported' \in Nat \X Nat
    BY <1>9, <2>2 DEF ac_reset, _report_scroll
  <2> QED
    BY <1>9, <2>1, <2>3, <2>4 DEF ac_reset, TypeOK, Page
<1>10. ASSUME NEW h \in Heights, te_resize(h) PROVE TypeOK'
  <2>1. buffers' \in [{"norm", "alt"} -> [0 .. h - 1 -> Lines]]
    <3>1. ASSUME NEW sc \in {"norm", "alt"}, NEW y \in 0 .. h - 1, y < height
          PROVE  buffers[sc][y] \in Lines
      <4>1. y \in Page
        BY <1>1, <3>1, SizeAssumption DEF Page
      <4> QED
        BY <4>1 DEF TypeOK
    <3> QED
      BY <1>10, <3>1, LineAssumption DEF te_resize
  <2> QED
    BY <1>10, <2>1 DEF te_resize, TypeOK, Page
<1>11. ASSUME NEW to \in 0 .. Capacity, viewport_set(to) PROVE TypeOK'
  <2>1. history_size \in Nat /\ SizeOf(screen', kept') \in Nat
    BY <1>2, <1>11 DEF history_size, SizeOf, viewport_set
  <2>2. int_clamp(to, 0, history_size) \in Nat
    BY <2>1, SizeAssumption DEF int_clamp
  <2> QED
    BY <1>11, <2>1, <2>2 DEF viewport_set, TypeOK, Page, _report_scroll
<1>12. CASE viewport_taint_colors
  BY <1>12 DEF viewport_taint_colors, TypeOK, Page
<1>13. ASSUME NEW ys, NEW force, viewport_request_redraw(ys, force) PROVE TypeOK'
  <2>1. ASSUME NEW y \in Page PROVE LineAt(y) \in Lines
    <3>1. CASE y >= offset
      <4>1. y - offset \in Page
        BY <1>1, <3>1 DEF Page, TypeOK
      <4> QED
        BY <1>1, <3>1, <4>1 DEF LineAt, Rows
    <3>2. CASE ~(y >= offset) /\ offset - y <= Len(kept)
      <4>1. /\ offset - y \in 1 .. Len(kept)
            /\ offset - y - 1 < Len(kept) /\ (offset - y - 1) + 1 = offset - y
        BY <1>1, <1>2, <3>2 DEF Page, TypeOK
      <4>2. Scrollback!Peek(offset - y - 1) = kept[offset - y]
        BY <4>1 DEF Scrollback!Peek
      <4>3. kept[offset - y] \in Lines
        BY <4>1, KeptTyped
      <4> QED
        BY <3>2, <4>2, <4>3, LineAssumption DEF LineAt
    <3>3. CASE ~(y >= offset) /\ ~(offset - y <= Len(kept))
      <4>1. ~(offset - y - 1 < Len(kept))
        BY <1>1, <1>2, <3>3 DEF Page, TypeOK
      <4>2. Scrollback!Peek(offset - y - 1) = NULL
        BY <4>1 DEF Scrollback!Peek
      <4> QED
        BY <3>3, <4>2, LineAssumption DEF LineAt
    <3> QED
      BY <3>1, <3>2, <3>3
  <2>2. shown' \in [Page -> Lines \union {NULL}]
    BY <1>13, <2>1 DEF viewport_request_redraw, TypeOK
  <2> QED
    BY <1>13, <2>2 DEF viewport_request_redraw, TypeOK, Page
<1>14. ASSUME NEW lock \in BOOLEAN, viewport_lock_scroll(lock) PROVE TypeOK'
  BY <1>14 DEF viewport_lock_scroll, TypeOK, Page
<1>15. CASE UNCHANGED vars
  BY <1>15 DEF vars, TypeOK, Page
<1>16. CASE Output
  BY <1>5, <1>6, <1>7, <1>8, <1>9, <1>16, LineAssumption
  DEF Output, be_scroll_region
<1>17. CASE Frontend
  BY <1>10, <1>11, <1>12, <1>13, <1>17 DEF Frontend
<1> QED
  BY <1>14, <1>15, <1>16, <1>17 DEF Next, OutputOrFrontend

(* Every variable of the viewport has its type, whatever the child writes  *)
(* and the user scrolls, locks and resizes (TypeOK).                       *)
THEOREM ViewportTyped == Spec => []TypeOK
<1>1. Init => TypeOK
  BY InitTyped
<1>2. TypeOK /\ [Next]_vars => TypeOK'
  BY NextTyped
<1> QED
  BY <1>1, <1>2, PTL DEF Spec

-----------------------------------------------------------------------------
(* The scroll bar and the alternate buffer, locked or not.                 *)

Told == ReportCurrent /\ AltUnscrolled

LEMMA NextTold == TypeOK /\ Told /\ [Next]_vars => Told'
<1> SUFFICES ASSUME TypeOK, Told, [Next]_vars PROVE Told'
  OBVIOUS
<1> USE DEF Told, ReportCurrent, AltUnscrolled, history_size
<1>1. CASE UNCHANGED <<offset, screen, kept, reported>>
  BY <1>1
<1>2. ASSUME _report_scroll PROVE ReportCurrent'
  BY <1>2 DEF _report_scroll
<1>3. ASSUME NEW from, NEW to, NEW n, ScrollUp(from, to, n) PROVE Told'
  BY <1>2, <1>3 DEF ScrollUp, OffsetAfterInc
<1>4. ASSUME NEW from, NEW to, NEW n, ScrollDown(from, to, n) PROVE Told'
  BY <1>2, <1>4 DEF ScrollDown, OffsetAfterDec
<1>5. ASSUME NEW alt \in BOOLEAN, NEW erase, be_switch_buffer(alt, erase)
      PROVE  Told'
  BY <1>2, <1>5 DEF be_switch_buffer
<1>6. CASE ac_reset
  BY <1>2, <1>6 DEF ac_reset
<1>7. ASSUME NEW to \in 0 .. Capacity, viewport_set(to) PROVE Told'
  <2>1. screen = "alt" => int_clamp(to, 0, history_size) = 0
    BY SizeAssumption DEF SizeOf, int_clamp
  <2> QED
    BY <1>2, <1>7, <2>1 DEF viewport_set
<1>8. CASE Output
  BY <1>1, <1>3, <1>4, <1>5, <1>6, <1>8
  DEF Output, ChangeRows, be_scroll_region
<1>9. CASE Frontend
  BY <1>1, <1>7, <1>9
  DEF Frontend, te_resize, viewport_taint_colors, viewport_request_redraw
<1>10. ASSUME NEW lock, viewport_lock_scroll(lock) PROVE Told'
  BY <1>1, <1>10 DEF viewport_lock_scroll
<1>11. CASE UNCHANGED vars
  BY <1>1, <1>11 DEF vars
<1> QED
  BY <1>8, <1>9, <1>10, <1>11 DEF Next, OutputOrFrontend

LEMMA AlwaysTold == Spec => []Told
<1>1. Init => Told
  BY DEF Init, Told, ReportCurrent, AltUnscrolled, history_size, SizeOf
<1>2. TypeOK /\ Told /\ [Next]_vars => Told'
  BY NextTold
<1> QED
  BY <1>1, <1>2, ViewportTyped, PTL DEF Spec

(* The frontend always knows where the viewport is (ReportCurrent).        *)
THEOREM ScrollBarCurrent == Spec => []ReportCurrent
<1>1. Told => ReportCurrent
  BY DEF Told
<1> QED
  BY <1>1, AlwaysTold, PTL

(* The alternate buffer is never scrolled (AltUnscrolled).                 *)
THEOREM AltAtFirstRow == Spec => []AltUnscrolled
<1>1. Told => AltUnscrolled
  BY DEF Told
<1> QED
  BY <1>1, AlwaysTold, PTL

-----------------------------------------------------------------------------
(* What a locked viewport shows.                                           *)

(* The page scrolled by one line, with room for it in the scroll-back.     *)
LEMMA ScrolledByOne ==
    ASSUME TypeOK, screen = "norm", Len(kept) < Capacity,
           ScrollUp(0, height - 1, 1)
    PROVE  /\ Len(kept') = Len(kept) + 1 /\ kept'[1] = rows[0]
           /\ \A i \in 1 .. Len(kept) : kept'[i + 1] = kept[i]
           /\ \A y \in Page : y + 1 \in Page => rows'[y] = rows[y + 1]
<1>1. height \in Nat \ {0} /\ Len(kept) \in Nat /\ Capacity \in Nat
  BY PageIsFinite, LenProperties, SizeAssumption DEF TypeOK
<1>2. int_min(1 + Len(kept), Capacity) = Len(kept) + 1
  BY <1>1 DEF int_min
<1>3. kept' = [i \in 1 .. Len(kept) + 1 |-> IF i <= 1 THEN rows[1 - i] ELSE kept[i - 1]]
  BY <1>2 DEF ScrollUp, buffer_scroll_up
<1>4. Len(kept') = Len(kept) + 1
  BY <1>1, <1>3
<1>5. kept'[1] = rows[0]
  BY <1>1, <1>3
<1>6. ASSUME NEW i \in 1 .. Len(kept) PROVE kept'[i + 1] = kept[i]
  <2>1. i + 1 \in 1 .. Len(kept) + 1 /\ ~(i + 1 <= 1) /\ (i + 1) - 1 = i
    BY <1>1
  <2> QED
    BY <1>3, <2>1
<1>7. rows' = [y \in Page |-> IF y < 0 \/ y > height - 1 THEN rows[y]
                 ELSE IF y + 1 <= height - 1 THEN rows[y + 1] ELSE Blank]
  BY DEF ScrollUp, buffer_scroll_up, SetRows, rows, TypeOK
<1>8. ASSUME NEW y \in Page, y + 1 \in Page PROVE rows'[y] = rows[y + 1]
  BY <1>1, <1>7, <1>8 DEF Page
<1> QED
  BY <1>4, <1>5, <1>6, <1>8

LEMMA LockedStill ==
    ASSUME TypeOK, Told, locked, offset > 0, Len(kept) < Capacity,
           ScrollUp(0, height - 1, 1), NEW y \in Page
    PROVE  LineAt(y)' = LineAt(y)
<1>1. /\ height \in Nat \ {0} /\ Len(kept) \in Nat /\ offset \in Nat /\ y \in Nat
      /\ y < height
  BY PageIsFinite, LenProperties DEF TypeOK, Page
<1>2. screen = "norm" /\ screen' = "norm" /\ offset' = offset + 1
  BY <1>1 DEF Told, AltUnscrolled, TypeOK, ScrollUp, OffsetAfterInc
<1>3. /\ Len(kept') = Len(kept) + 1 /\ kept'[1] = rows[0]
      /\ \A i \in 1 .. Len(kept) : kept'[i + 1] = kept[i]
      /\ \A z \in Page : z + 1 \in Page => rows'[z] = rows[z + 1]
  BY <1>2, ScrolledByOne
<1>4. \A i \in 1 .. Len(kept) : kept[i] # NULL
  BY KeptTyped, LineAssumption
<1>5. CASE y > offset
  <2>1. LineAt(y) = rows[y - offset] /\ LineAt(y)' = rows'[y - offset']
    BY <1>1, <1>2, <1>5 DEF LineAt
  <2>2. y - offset' \in Page /\ (y - offset') + 1 = y - offset /\ y - offset \in Page
    BY <1>1, <1>2, <1>5 DEF Page
  <2> QED
    BY <1>3, <2>1, <2>2
<1>6. CASE y = offset
  <2>1. LineAt(y) = rows[0]
    BY <1>1, <1>6 DEF LineAt
  <2>2. offset' - y - 1 = 0 /\ ~(y >= offset')
    BY <1>1, <1>2, <1>6
  <2>3. rows[0] # NULL
    BY <1>1, RowsTyped, LineAssumption DEF Rows, Page
  <2>4. (offset' - y - 1) + 1 = 1 /\ offset' - y - 1 < Len(kept')
    BY <1>1, <1>3, <2>2
  <2>5. LineAt(y)' = kept'[1]
    BY <1>2, <1>3, <2>2, <2>3, <2>4 DEF LineAt, Scrollback!Peek
  <2> QED
    BY <1>3, <2>1, <2>5
<1>7. CASE y < offset
  <2>1. PICK age \in Nat : age = offset - y - 1
    BY <1>1, <1>7
  <2>2. offset' - y - 1 = age + 1 /\ ~(y >= offset) /\ ~(y >= offset')
    BY <1>1, <1>2, <1>7, <2>1
  <2>3. LineAt(y) = LET line == IF age < Len(kept) THEN kept[age + 1] ELSE NULL
                    IN  IF line # NULL THEN line ELSE Blank
    BY <1>2, <2>1, <2>2 DEF LineAt, Scrollback!Peek
  <2>4. LineAt(y)' = LET line == IF age + 1 < Len(kept') THEN kept'[(age + 1) + 1] ELSE NULL
                     IN  IF line # NULL THEN line ELSE Blank
    BY <1>2, <2>2 DEF LineAt, Scrollback!Peek
  <2>5. CASE age < Len(kept)
    <3>1. age + 1 \in 1 .. Len(kept) /\ age + 1 < Len(kept')
      BY <1>1, <1>3, <2>1, <2>5
    <3>2. kept'[(age + 1) + 1] = kept[age + 1]
      BY <1>3, <3>1
    <3> QED
      BY <2>3, <2>4, <2>5, <3>1, <3>2
  <2>6. CASE ~(age < Len(kept))
    <3>1. ~(age + 1 < Len(kept'))
      BY <1>1, <1>3, <2>1, <2>6
    <3> QED
      BY <2>3, <2>4, <2>6, <3>1
  <2> QED
    BY <2>5, <2>6
<1> QED
  BY <1>1, <1>5, <1>6, <1>7

(* A locked viewport that is scrolled back holds its lines while output    *)
(* scrolls the page, for every height and capacity and wherever the        *)
(* viewport is, beyond the oldest line included (LockHolds).               *)
THEOREM LockedViewHolds == Spec => LockHolds
<1>1. TypeOK /\ Told /\ [Next]_vars =>
        ((/\ locked /\ offset > 0 /\ Len(kept) < Capacity
          /\ ScrollUp(0, height - 1, 1)) =>
            \A y \in Page : LineAt(y)' = LineAt(y))
  BY LockedStill
<1> QED
  BY <1>1, ViewportTyped, AlwaysTold, PTL DEF Spec, LockHolds

-----------------------------------------------------------------------------
(* What an unlocked viewport shows.                                        *)

UInv == ~locked /\ InHistory /\ Fresh

(* A step that makes the whole window dirty leaves nothing stale.          *)
LEMMA AllDirty ==
    ASSUME UNCHANGED height, dirty' = Page PROVE Fresh'
BY DEF Fresh, Page

LEMMA BottomLines ==
    ASSUME TypeOK, offset = 0, NEW y \in Page PROVE LineAt(y) = rows[y]
<1>1. y >= offset /\ y - offset = y
  BY PageIsFinite DEF Page
<1> QED
  BY <1>1 DEF LineAt

(* A step that changes only rows ys of the buffer, shown from the first,   *)
(* and makes them dirty.                                                   *)
LEMMA RegionDirty ==
    ASSUME TypeOK, TypeOK', Fresh, NEW ys,
           offset = 0, offset' = 0, UNCHANGED <<height, shown>>,
           dirty' = dirty \union viewport_taint(ys, 0),
           \A y \in Page : y \notin ys => rows'[y] = rows[y]
    PROVE  Fresh'
<1>1. Page' = Page
  BY DEF Page
<1>2. ASSUME NEW y \in Page PROVE LineAt(y) = rows[y]
  BY <1>2, BottomLines
<1>3. ASSUME NEW y \in Page PROVE LineAt(y)' = rows'[y]
  <2>1. y >= offset' /\ y - offset' = y
    BY PageIsFinite DEF Page
  <2> QED
    BY <2>1 DEF LineAt
<1>4. ASSUME NEW y \in Page, y \in ys PROVE y \in viewport_taint(ys, 0)
  <2>1. y = y + 0
    BY PageIsFinite DEF Page
  <2> QED
    BY <1>4, <2>1 DEF viewport_taint
<1>5. ASSUME NEW y \in Page, shown'[y] # LineAt(y)' PROVE y \in dirty'
  <2>1. CASE y \in ys
    BY <1>4, <2>1
  <2>2. CASE y \notin ys
    <3>1. shown[y] # LineAt(y)
      BY <1>2, <1>3, <1>5, <2>2
    <3> QED
      BY <3>1 DEF Fresh
  <2> QED
    BY <2>1, <2>2
<1> QED
  BY <1>1, <1>5 DEF Fresh

LEMMA NextUnlocked ==
    TypeOK /\ TypeOK' /\ UInv /\ [OutputOrFrontend]_vars => UInv'
<1> SUFFICES ASSUME TypeOK, TypeOK', UInv, [OutputOrFrontend]_vars PROVE UInv'
  OBVIOUS
<1>1. height \in Nat \ {0} /\ rows \in Rows
  BY PageIsFinite, RowsTyped
<1>2. ~locked /\ InHistory /\ Fresh
  BY DEF UInv
<1>3. ASSUME NEW ys, NEW line, ChangeRows(ys, line) PROVE UInv'
  <2>1. InHistory' /\ ~locked' /\ Page' = Page
    BY <1>2, <1>3 DEF ChangeRows, InHistory, history_size, Page
  <2>2. rows' = [y \in Page |-> IF y \in ys THEN line ELSE rows[y]]
    BY <1>3 DEF ChangeRows, SetRows, rows, TypeOK
  <2>3. ASSUME NEW y \in Page, shown'[y] # LineAt(y)' PROVE y \in dirty'
    <3>1. CASE y < offset
      <4>1. LineAt(y)' = LineAt(y)
        BY <1>1, <1>3, <3>1 DEF LineAt, ChangeRows, Scrollback!Peek, Page, TypeOK
      <4> QED
        BY <1>2, <1>3, <2>3, <4>1 DEF Fresh, ChangeRows
    <3>2. CASE y >= offset
      <4>1. y - offset \in Page /\ (y - offset) + offset = y
        BY <1>1, <3>2 DEF Page, TypeOK
      <4>2. LineAt(y) = rows[y - offset] /\ LineAt(y)' = rows'[y - offset]
        BY <1>3, <3>2 DEF LineAt, ChangeRows
      <4>3. CASE y - offset \in ys
        <5>1. y \in viewport_taint(ys, offset)
          BY <4>1, <4>3 DEF viewport_taint
        <5> QED
          BY <1>3, <5>1 DEF ChangeRows
      <4>4. CASE y - offset \notin ys
        <5>1. LineAt(y)' = LineAt(y)
          BY <2>2, <4>1, <4>2, <4>4
        <5> QED
          BY <1>2, <1>3, <2>3, <5>1 DEF Fresh, ChangeRows
      <4> QED
        BY <4>3, <4>4
    <3> QED
      BY <1>1, <3>1, <3>2 DEF Page, TypeOK
  <2> QED
    BY <2>1, <2>3 DEF UInv, Fresh
<1>4. ASSUME NEW from \in Page, NEW to \in Page, NEW n \in 1 .. to - from,
             ScrollUp(from, to, n)
      PROVE  UInv'
  <2>1. ~locked' /\ offset' = 0 /\ InHistory'
    <3>1. SizeOf(screen', kept') \in Nat
      BY LenProperties DEF SizeOf, TypeOK
    <3>2. ~locked' /\ offset' = 0
      BY <1>2, <1>4 DEF ScrollUp, OffsetAfterInc
    <3> QED
      BY <3>1, <3>2 DEF InHistory, history_size
  <2>2. CASE offset = 0
    <3>1. dirty' = dirty \union viewport_taint(from .. to, 0)
      BY <1>4, <2>1, <2>2 DEF ScrollUp, TaintedByInc
    <3>2. ASSUME NEW y \in Page, y \notin from .. to PROVE rows'[y] = rows[y]
      <4>1. y < from \/ y > to
        BY <1>1, <3>2 DEF Page
      <4>2. rows' = [z \in Page |-> IF z < from \/ z > to THEN rows[z]
                              ELSE IF z + n <= to THEN rows[z + n] ELSE Blank]
        BY <1>4 DEF ScrollUp, buffer_scroll_up, SetRows, rows, TypeOK
      <4> QED
        BY <4>1, <4>2
    <3>3. Fresh'
      BY <1>2, <1>4, <2>1, <2>2, <3>1, <3>2, RegionDirty DEF ScrollUp
    <3> QED
      BY <2>1, <3>3 DEF UInv
  <2>3. CASE offset # 0
    <3>1. dirty' = Page
      BY <1>2, <1>4, <2>3, TaintTyped
      DEF ScrollUp, TaintedByInc, TypeOK
    <3>2. Fresh'
      BY <1>4, <3>1, AllDirty DEF ScrollUp
    <3> QED
      BY <2>1, <3>2 DEF UInv
  <2> QED
    BY <2>2, <2>3
<1>5. ASSUME NEW from \in Page, NEW to \in Page, NEW n \in 1 .. to - from,
             ScrollDown(from, to, n)
      PROVE  UInv'
  <2>1. ~locked' /\ offset' = 0 /\ InHistory'
    <3>1. SizeOf(screen', kept') \in Nat
      BY LenProperties DEF SizeOf, TypeOK
    <3>2. ~locked' /\ offset' = 0
      BY <1>2, <1>5 DEF ScrollDown, OffsetAfterDec
    <3> QED
      BY <3>1, <3>2 DEF InHistory, history_size
  <2>2. CASE offset = 0
    <3>1. dirty' = dirty \union viewport_taint(from .. to, 0)
      BY <1>5, <2>1, <2>2 DEF ScrollDown, TaintedByDec, OffsetAfterDec
    <3>2. ASSUME NEW y \in Page, y \notin from .. to PROVE rows'[y] = rows[y]
      <4>1. y < from \/ y > to
        BY <1>1, <3>2 DEF Page
      <4>2. rows'[y] = rows[y]
        BY <1>5, <4>1 DEF ScrollDown, buffer_scroll_down, SetRows, rows, TypeOK
      <4> QED
        BY <4>2
    <3>3. Fresh'
      BY <1>2, <1>5, <2>1, <2>2, <3>1, <3>2, RegionDirty DEF ScrollDown
    <3> QED
      BY <2>1, <3>3 DEF UInv
  <2>3. CASE offset # 0
    <3>1. TaintedByDec(SizeOf(screen, kept')) = Page
      BY <1>2, <2>3 DEF TaintedByDec, OffsetAfterDec
    <3>2. dirty' = Page
      BY <1>5, <3>1, TaintTyped DEF ScrollDown, TypeOK
    <3>3. Fresh'
      BY <1>5, <3>2, AllDirty DEF ScrollDown
    <3> QED
      BY <2>1, <3>3 DEF UInv
  <2> QED
    BY <2>2, <2>3
<1>6. ASSUME NEW alt \in BOOLEAN, NEW erase, be_switch_buffer(alt, erase)
      PROVE  UInv'
  <2>1. Fresh'
    BY <1>6, AllDirty DEF be_switch_buffer
  <2>2. SizeOf(screen', kept') \in Nat
    BY LenProperties DEF SizeOf, TypeOK
  <2>3. ~alt => offset <= SizeOf(screen', kept')
    <3>1. CASE screen = "norm"
      BY <1>2, <1>6, <3>1 DEF be_switch_buffer, InHistory, history_size, SizeOf
    <3>2. CASE screen = "alt"
      BY <1>2, <2>2, <3>2
      DEF InHistory, history_size, SizeOf, TypeOK
    <3> QED
      BY <3>1, <3>2 DEF TypeOK
  <2>4. InHistory'
    BY <1>6, <2>2, <2>3 DEF be_switch_buffer, InHistory, history_size
  <2> QED
    BY <1>2, <1>6, <2>1, <2>4 DEF UInv, be_switch_buffer
<1>7. CASE ac_reset
  <2>1. Fresh'
    BY <1>7, AllDirty DEF ac_reset
  <2>2. SizeOf(screen', kept') \in Nat
    BY LenProperties DEF SizeOf, TypeOK
  <2> QED
    BY <1>2, <1>7, <2>1, <2>2 DEF UInv, ac_reset, InHistory, history_size
<1>8. ASSUME NEW h \in Heights, te_resize(h) PROVE UInv'
  <2>1. Fresh'
    BY <1>8 DEF te_resize, Fresh, Page
  <2> QED
    BY <1>2, <1>8, <2>1 DEF UInv, te_resize, InHistory, history_size
<1>9. ASSUME NEW to \in 0 .. Capacity, viewport_set(to) PROVE UInv'
  <2>1. SizeOf(screen', kept') \in Nat /\ history_size = SizeOf(screen', kept')
    BY <1>9, LenProperties DEF SizeOf, TypeOK, viewport_set, history_size
  <2>2. InHistory' /\ ~locked'
    BY <1>2, <1>9, <2>1, SizeAssumption
    DEF InHistory, history_size, int_clamp, viewport_set
  <2>3. CASE offset' # offset
    BY <1>9, <2>2, <2>3, AllDirty DEF viewport_set, UInv
  <2>4. CASE offset' = offset
    <3>1. UNCHANGED <<height, buffers, screen, kept, dirty, shown>>
      BY <1>9, <2>4 DEF viewport_set
    <3>2. \A y \in Page : LineAt(y)' = LineAt(y)
      BY <2>4, <3>1 DEF LineAt, rows, Scrollback!Peek
    <3> QED
      BY <1>2, <2>2, <3>1, <3>2 DEF UInv, Fresh, Page
  <2> QED
    BY <2>3, <2>4
<1>10. CASE viewport_taint_colors
  <2>1. Fresh'
    BY <1>10, AllDirty DEF viewport_taint_colors
  <2> QED
    BY <1>2, <1>10, <2>1
    DEF UInv, viewport_taint_colors, InHistory, history_size
<1>11. ASSUME NEW ys, NEW force \in BOOLEAN, viewport_request_redraw(ys, force)
       PROVE  UInv'
  <2>1. UNCHANGED <<height, buffers, screen, kept, offset, locked>>
    BY <1>11 DEF viewport_request_redraw
  <2>2. \A y \in Page : LineAt(y)' = LineAt(y)
    BY <2>1 DEF LineAt, rows, Scrollback!Peek
  <2>3. ASSUME NEW y \in Page, shown'[y] # LineAt(y) PROVE y \in dirty'
    <3>1. y \notin ys
      BY <1>2, <1>11, <2>3 DEF viewport_request_redraw, Fresh
    <3>2. shown'[y] = shown[y] /\ (y \in dirty => y \in dirty')
      BY <1>11, <3>1 DEF viewport_request_redraw
    <3> QED
      BY <1>2, <2>3, <3>2 DEF Fresh
  <2>4. Fresh'
    BY <2>1, <2>2, <2>3 DEF Fresh, Page
  <2> QED
    BY <1>2, <2>1, <2>4 DEF UInv, InHistory, history_size
<1>12. CASE UNCHANGED vars
  <2>1. \A y \in Page : LineAt(y)' = LineAt(y)
    BY <1>12 DEF vars, LineAt, rows, Scrollback!Peek
  <2> QED
    BY <1>2, <1>12, <2>1
    DEF vars, UInv, Fresh, Page, InHistory, history_size
<1>13. CASE Output
  BY <1>3, <1>4, <1>5, <1>6, <1>7, <1>13 DEF Output, be_scroll_region
<1>14. CASE Frontend
  BY <1>8, <1>9, <1>10, <1>11, <1>14 DEF Frontend
<1> QED
  BY <1>12, <1>13, <1>14 DEF OutputOrFrontend

(* As long as the viewport was never locked.                               *)
NeverLocked == ~everLocked => UInv

LEMMA AlwaysFresh == Spec => []NeverLocked
<1>1. Init => NeverLocked
  BY DEF Init, NeverLocked, UInv, Fresh, InHistory, history_size, SizeOf
<1>2. TypeOK /\ TypeOK' /\ NeverLocked /\ [Next]_vars => NeverLocked'
  <2> SUFFICES ASSUME TypeOK, TypeOK', NeverLocked, [Next]_vars, ~everLocked'
               PROVE  UInv'
    BY DEF NeverLocked
  <2>1. ASSUME NEW lock \in BOOLEAN, viewport_lock_scroll(lock) PROVE UInv'
    <3>1. ~lock /\ UInv
      BY <2>1 DEF viewport_lock_scroll, NeverLocked
    <3>2. UNCHANGED <<height, buffers, screen, kept, offset, dirty, shown>>
      BY <2>1 DEF viewport_lock_scroll
    <3>3. \A y \in Page : LineAt(y)' = LineAt(y)
      BY <3>2 DEF LineAt, rows, Scrollback!Peek
    <3> QED
      BY <2>1, <3>1, <3>2, <3>3
      DEF viewport_lock_scroll, UInv, Fresh, Page, InHistory, history_size
  <2>2. CASE [OutputOrFrontend]_vars
    <3>1. UInv
      BY <2>2 DEF OutputOrFrontend, vars, NeverLocked
    <3> QED
      BY <2>2, <3>1, NextUnlocked
  <2> QED
    BY <2>1, <2>2 DEF Next
<1> QED
  BY <1>1, <1>2, ViewportTyped, PTL DEF Spec

(* Unless it was locked the viewport never leaves a changed row of the     *)
(* window clean (NothingStale).                                            *)
THEOREM RedrawsSuffice == Spec => []NothingStale
<1>1. NeverLocked => NothingStale
  BY DEF NeverLocked, NothingStale, UInv
<1> QED
  BY <1>1, AlwaysFresh, PTL

(* Nor does it go past the lines kept (WithinHistory).                     *)
THEOREM ScrolledWithinHistory == Spec => []WithinHistory
<1>1. NeverLocked => WithinHistory
  BY DEF NeverLocked, WithinHistory, UInv
<1> QED
  BY <1>1, AlwaysFresh, PTL
=============================================================================
