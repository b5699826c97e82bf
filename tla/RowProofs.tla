----------------------------- MODULE RowProofs -----------------------------
(***************************************************************************)
(* One row, for every width and set of renditions: its types, what the     *)
(* edits make of its cells, that every step but three kinds leaves what    *)
(* looks different dirty, and that a redraw of the row then makes it right. *)
(***************************************************************************)
EXTENDS Row, SequenceTheorems, TLAPS

-----------------------------------------------------------------------------
(* bufferrow.c, column by column.                                          *)

LEMMA BlankTyped == ASSUME NEW s \in Styles PROVE Blank(s) \in Cells
BY DEF Blank, Cells

LEMMA TimesIs ==
    ASSUME NEW n \in Nat, NEW cell \in Cells
    PROVE  /\ Times(n, cell) \in Seq(Cells) /\ Len(Times(n, cell)) = n
           /\ \A i \in 1 .. n : Times(n, cell)[i] = cell
BY IsASeq DEF Times

LEMMA ReplaceIs ==
    ASSUME NEW t \in Seq(Cells), NEW c \in Nat, NEW symbols \in Seq(Cells),
           NEW blank \in Cells
    PROVE  LET r == bufrow_replace(t, c, symbols, blank)
               n == Len(symbols)
           IN  /\ r \in Seq(Cells)
               /\ Len(r) = IF n = 0 THEN Len(t) ELSE int_max(c + n, Len(t))
               /\ \A i \in 1 .. Len(r) :
                    r[i] = IF i > c /\ i <= c + n THEN symbols[i - c]
                           ELSE IF i <= Len(t) THEN t[i] ELSE blank
<1> DEFINE n == Len(symbols)
           k == int_max(c + n, Len(t))
           e(i) == IF i > c /\ i <= c + n THEN symbols[i - c]
                   ELSE IF i <= Len(t) THEN t[i] ELSE blank
<1>1. n \in Nat /\ Len(t) \in Nat /\ (n = 0 <=> symbols = <<>>)
  BY EmptySeq, LenProperties
<1>2. CASE symbols = <<>>
  BY <1>1, <1>2 DEF bufrow_replace
<1>3. CASE symbols # <<>>
  <2>1. k \in Nat
    BY <1>1 DEF int_max
  <2>2. ASSUME NEW i \in 1 .. k PROVE e(i) \in Cells
    <3>1. CASE i > c /\ i <= c + n
      BY <1>1, <2>1, <3>1, ElementOfSeq
    <3>2. CASE ~(i > c /\ i <= c + n)
      BY <1>1, <2>1, <3>2, ElementOfSeq
    <3> QED
      BY <3>1, <3>2
  <2>3. bufrow_replace(t, c, symbols, blank) = [i \in 1 .. k |-> e(i)]
    BY <1>3 DEF bufrow_replace
  <2> HIDE DEF e, k
  <2>4. [i \in 1 .. k |-> e(i)] \in Seq(Cells)
        /\ Len([i \in 1 .. k |-> e(i)]) = k
    BY <2>1, <2>2, IsASeq
  <2> USE DEF e, k
  <2> QED
    BY <1>1, <1>3, <2>3, <2>4
<1> QED
  BY <1>2, <1>3

LEMMA ReplaceKeeps ==
    ASSUME NEW t \in Seq(Cells), NEW c \in Nat, NEW symbols \in Seq(Cells),
           NEW blank \in Cells
    PROVE  LET r == bufrow_replace(t, c, symbols, blank)
           IN  /\ r \in Seq(Cells) /\ Len(r) \in Nat /\ Len(r) >= Len(t)
               /\ \A i \in 1 .. Len(t) : i <= c => r[i] = t[i]
<1> DEFINE r == bufrow_replace(t, c, symbols, blank)
           n == Len(symbols)
<1>1. n \in Nat /\ Len(t) \in Nat
  BY LenProperties
<1>2. /\ r \in Seq(Cells)
      /\ Len(r) = IF n = 0 THEN Len(t) ELSE int_max(c + n, Len(t))
      /\ \A i \in 1 .. Len(r) :
           r[i] = IF i > c /\ i <= c + n THEN symbols[i - c]
                  ELSE IF i <= Len(t) THEN t[i] ELSE blank
  BY ReplaceIs
<1> HIDE DEF r, n
<1>3. Len(r) \in Nat /\ Len(r) >= Len(t)
  BY <1>1, <1>2 DEF int_max
<1>4. ASSUME NEW i \in 1 .. Len(t), i <= c PROVE r[i] = t[i]
  BY <1>1, <1>2, <1>3, <1>4
<1> QED
  BY <1>2, <1>3, <1>4 DEF r

LEMMA InsertIs ==
    ASSUME NEW t \in Seq(Cells), NEW c \in Nat, NEW symbols \in Seq(Cells),
           NEW blank \in Cells, Len(t) > c
    PROVE  LET r == bufrow_insert(t, c, symbols, blank)
               n == Len(symbols)
           IN  /\ r \in Seq(Cells) /\ Len(r) = Len(t) + n
               /\ \A i \in 1 .. Len(r) :
                    r[i] = IF i <= c THEN t[i]
                           ELSE IF i <= c + n THEN symbols[i - c] ELSE t[i - n]
<1> DEFINE head == SubSeq(t, 1, c)
           tail == SubSeq(t, c + 1, Len(t))
           n == Len(symbols)
<1>1. Len(t) \in Nat /\ n \in Nat
  BY LenProperties
<1>2. \A i \in 1 .. Len(t) : t[i] \in Cells
  BY ElementOfSeq
<1>3. head \in Seq(Cells) /\ Len(head) = c /\ \A i \in 1 .. c : head[i] = t[i]
  BY <1>1, <1>2, SubSeqProperties
<1>4. /\ tail \in Seq(Cells) /\ Len(tail) = Len(t) - c
      /\ \A i \in 1 .. Len(t) - c : tail[i] = t[c + i]
  BY <1>1, <1>2, SubSeqProperties
<1>5. bufrow_insert(t, c, symbols, blank) = (head \o symbols) \o tail
  <2>1. ~(Len(t) <= c)
    BY <1>1
  <2> QED
    BY <2>1, Zenon DEF bufrow_insert
<1> HIDE DEF head, tail
<1> DEFINE front == head \o symbols
<1>6. /\ front \in Seq(Cells) /\ Len(front) = c + n
      /\ \A i \in 1 .. c + n : front[i] = IF i <= c THEN head[i] ELSE symbols[i - c]
  BY <1>3, ConcatProperties
<1> HIDE DEF front, n
<1> DEFINE r == front \o tail
<1>7. /\ r \in Seq(Cells) /\ Len(r) = Len(front) + Len(tail)
      /\ \A i \in 1 .. Len(front) + Len(tail) :
            r[i] = IF i <= Len(front) THEN front[i] ELSE tail[i - Len(front)]
  BY <1>4, <1>6, ConcatProperties
<1> HIDE DEF r
<1>8. Len(front) + Len(tail) = Len(t) + n
  BY <1>1, <1>4, <1>6
<1>9. ASSUME NEW i \in 1 .. Len(t) + n
      PROVE  r[i] = IF i <= c THEN t[i]
                    ELSE IF i <= c + n THEN symbols[i - c] ELSE t[i - n]
  <2>1. CASE i <= c + n
    <3>1. i \in 1 .. c + n /\ r[i] = front[i]
      BY <1>1, <1>6, <1>7, <1>8, <2>1
    <3> QED
      BY <1>1, <1>3, <1>6, <2>1, <3>1
  <2>2. CASE i > c + n
    <3>1. i - (c + n) \in 1 .. Len(t) - c /\ c + (i - (c + n)) = i - n
      BY <1>1, <2>2
    <3>2. r[i] = tail[i - (c + n)]
      BY <1>1, <1>6, <1>7, <1>8, <2>2
    <3>3. tail[i - (c + n)] = t[i - n]
      BY <1>4, <3>1
    <3> QED
      BY <1>1, <2>2, <3>2, <3>3
  <2> QED
    BY <1>1, <2>1, <2>2
<1>10. r \in Seq(Cells) /\ Len(r) = Len(t) + n
  BY <1>7, <1>8
<1> QED
  BY <1>5, <1>9, <1>10 DEF n, r, front

LEMMA RemoveIs ==
    ASSUME NEW t \in Seq(Cells), NEW c \in Columns, NEW n \in Nat,
           Len(t) > c, n < Width - c
    PROVE  LET r == bufrow_remove(t, c, n)
               m == int_min(Len(t), Width)
           IN  /\ r \in Seq(Cells) /\ Len(r) = c + int_max(0, m - c - n)
               /\ \A i \in 1 .. Len(r) : r[i] = IF i <= c THEN t[i] ELSE t[i + n]
<1> DEFINE m == int_min(Len(t), Width)
           head == SubSeq(t, 1, c)
           tail == SubSeq(t, c + n + 1, m)
           k == int_max(0, m - c - n)
<1>1. /\ Len(t) \in Nat /\ Width \in Nat /\ c \in Nat /\ m \in Nat /\ k \in Nat
      /\ m <= Len(t) /\ k = IF c + n + 1 <= m THEN m - (c + n + 1) + 1 ELSE 0
  BY LenProperties, SizeAssumption DEF int_min, int_max, Columns
<1>2. \A i \in 1 .. Len(t) : t[i] \in Cells
  BY ElementOfSeq
<1>3. head \in Seq(Cells) /\ Len(head) = c /\ \A i \in 1 .. c : head[i] = t[i]
  BY <1>1, <1>2, SubSeqProperties
<1>4. /\ tail \in Seq(Cells) /\ Len(tail) = k
      /\ \A i \in 1 .. k : tail[i] = t[c + n + i]
  <2> HIDE DEF m, k
  <2>1. \A i \in c + n + 1 .. m : t[i] \in Cells
    BY <1>1, <1>2
  <2>2. /\ tail \in Seq(Cells)
        /\ Len(tail) = IF c + n + 1 <= m THEN m - (c + n + 1) + 1 ELSE 0
        /\ \A i \in 1 .. m - (c + n + 1) + 1 : tail[i] = t[(c + n + 1) + i - 1]
    BY <1>1, <2>1, SubSeqProperties
  <2>3. \A i \in 1 .. k : i \in 1 .. m - (c + n + 1) + 1
                          /\ (c + n + 1) + i - 1 = c + n + i
    BY <1>1
  <2> QED
    BY <1>1, <2>2, <2>3
<1>5. bufrow_remove(t, c, n) = head \o tail
  BY <1>1 DEF bufrow_remove
<1> HIDE DEF head, tail, k
<1> DEFINE r == head \o tail
<1>6. /\ r \in Seq(Cells) /\ Len(r) = c + k
      /\ \A i \in 1 .. c + k : r[i] = IF i <= c THEN head[i] ELSE tail[i - c]
  BY <1>3, <1>4, ConcatProperties
<1> HIDE DEF r
<1>7. ASSUME NEW i \in 1 .. c + k
      PROVE  r[i] = IF i <= c THEN t[i] ELSE t[i + n]
  <2>1. CASE i <= c
    BY <1>1, <1>3, <1>6, <2>1
  <2>2. CASE i > c
    <3>1. i - c \in 1 .. k /\ c + n + (i - c) = i + n
      BY <1>1, <2>2
    <3> QED
      BY <1>1, <1>4, <1>6, <2>2, <3>1
  <2> QED
    BY <1>1, <2>1, <2>2
<1> QED
  BY <1>5, <1>6, <1>7 DEF r, k

-----------------------------------------------------------------------------
(* What is seen of a row after an edit.                                    *)

(* Column col of t, before column c, looks as it did or is padding of one  *)
(* rendition, of which the first padded cell tells.                        *)
SameOrPadded(r, t, e, c, col, blank) ==
    \/ Look(r, e, col) = Look(t, e, col)
    \/ /\ Len(t) <= col /\ Len(r) > Len(t) /\ Len(t) < c
       /\ r[Len(t) + 1] = blank /\ Look(r, e, col) = blank

LEMMA ReplaceLooks ==
    ASSUME NEW t \in Seq(Cells), NEW c \in Nat, NEW symbols \in Seq(Cells),
           NEW blank \in Cells, NEW e, NEW col \in Nat
    PROVE  LET r == bufrow_replace(t, c, symbols, blank)
           IN  /\ col < c => SameOrPadded(r, t, e, c, col, blank)
               /\ (c <= col /\ col < c + Len(symbols))
                    => Look(r, e, col) = symbols[col - c + 1]
               /\ col >= c + Len(symbols) => Look(r, e, col) = Look(t, e, col)
<1> DEFINE r == bufrow_replace(t, c, symbols, blank)
           n == Len(symbols)
<1>1. n \in Nat /\ Len(t) \in Nat
  BY LenProperties
<1>2. /\ Len(r) = IF n = 0 THEN Len(t) ELSE IF c + n < Len(t) THEN Len(t) ELSE c + n
      /\ \A i \in 1 .. Len(r) :
            r[i] = IF i > c /\ i <= c + n THEN symbols[i - c]
                   ELSE IF i <= Len(t) THEN t[i] ELSE blank
  <2>1. /\ Len(r) = IF n = 0 THEN Len(t) ELSE int_max(c + n, Len(t))
        /\ \A i \in 1 .. Len(r) :
              r[i] = IF i > c /\ i <= c + n THEN symbols[i - c]
                     ELSE IF i <= Len(t) THEN t[i] ELSE blank
    BY ReplaceIs
  <2> HIDE DEF r, n
  <2>2. int_max(c + n, Len(t)) = IF c + n < Len(t) THEN Len(t) ELSE c + n
    BY <1>1 DEF int_max
  <2> QED
    BY <2>1, <2>2
<1> HIDE DEF r, n
<1>3. Len(r) \in Nat /\ Len(r) >= Len(t)
  BY <1>1, <1>2
<1>4. col < Len(r) => col + 1 \in 1 .. Len(r)
  BY <1>3
<1>5. CASE col < c
  <2>1. CASE col < Len(t)
    <3>1. r[col + 1] = t[col + 1]
      BY <1>1, <1>2, <1>3, <1>4, <1>5, <2>1
    <3> QED
      BY <1>1, <1>3, <1>5, <2>1, <3>1 DEF SameOrPadded, Look, r
  <2>2. CASE col >= Len(t) /\ n = 0
    BY <1>1, <1>2, <1>5, <2>2 DEF SameOrPadded, Look, r
  <2>3. CASE col >= Len(t) /\ n # 0
    <3>1. Len(r) = c + n /\ Len(t) < c
      BY <1>1, <1>2, <1>5, <2>3
    <3>2. r[col + 1] = blank
      BY <1>1, <1>2, <1>4, <1>5, <2>3, <3>1
    <3>3. Len(t) + 1 \in 1 .. Len(r) /\ ~(Len(t) + 1 > c)
          /\ ~(Len(t) + 1 <= Len(t))
      BY <1>1, <3>1
    <3>4. r[Len(t) + 1] = blank
      BY <1>2, <3>3
    <3>5. col < Len(r)
      BY <1>1, <1>5, <3>1
    <3> QED
      BY <1>1, <1>5, <2>3, <3>1, <3>2, <3>4, <3>5 DEF SameOrPadded, Look, r
  <2> QED
    BY <1>1, <2>1, <2>2, <2>3
<1>6. CASE c <= col /\ col < c + n
  <2>1. col < Len(r)
    BY <1>1, <1>2, <1>6
  <2>2. r[col + 1] = symbols[(col + 1) - c] /\ (col + 1) - c = col - c + 1
    BY <1>1, <1>2, <1>4, <1>6, <2>1
  <2> QED
    BY <1>1, <1>6, <2>1, <2>2 DEF Look, r, n
<1>7. CASE col >= c + n
  <2>1. col < Len(r) <=> col < Len(t)
    BY <1>1, <1>2, <1>7
  <2>2. col < Len(t) => r[col + 1] = t[col + 1]
    BY <1>1, <1>2, <1>4, <1>7, <2>1
  <2> QED
    BY <1>1, <1>7, <2>1, <2>2 DEF Look, r, n
<1> QED
  BY <1>1, <1>5, <1>6, <1>7 DEF n

(* Writing anything right of the used cells pads the columns in between.   *)
LEMMA ReplacePads ==
    ASSUME NEW t \in Seq(Cells), NEW c \in Nat, NEW symbols \in Seq(Cells),
           NEW blank \in Cells, NEW e, NEW col \in Nat,
           Len(symbols) # 0, col < c
    PROVE  Look(bufrow_replace(t, c, symbols, blank), e, col)
             = IF col < Len(t) THEN Look(t, e, col) ELSE blank
<1> DEFINE r == bufrow_replace(t, c, symbols, blank)
           n == Len(symbols)
<1>1. n \in Nat /\ Len(t) \in Nat /\ n # 0
  BY LenProperties
<1>2. /\ Len(r) = IF n = 0 THEN Len(t) ELSE int_max(c + n, Len(t))
      /\ \A i \in 1 .. Len(r) :
            r[i] = IF i > c /\ i <= c + n THEN symbols[i - c]
                   ELSE IF i <= Len(t) THEN t[i] ELSE blank
  BY ReplaceIs
<1> HIDE DEF r, n
<1>3. col < Len(r) /\ col + 1 \in 1 .. Len(r) /\ ~(col + 1 > c)
      /\ (col + 1 <= Len(t) <=> col < Len(t))
  BY <1>1, <1>2 DEF int_max
<1>4. r[col + 1] = IF col < Len(t) THEN t[col + 1] ELSE blank
  BY <1>2, <1>3
<1> QED
  BY <1>3, <1>4 DEF Look, r

LEMMA InsertLooks ==
    ASSUME NEW t \in Seq(Cells), NEW c \in Nat, NEW symbols \in Seq(Cells),
           NEW blank \in Cells, NEW e, NEW col \in Nat, Len(t) > c
    PROVE  LET r == bufrow_insert(t, c, symbols, blank)
           IN  /\ col < c => Look(r, e, col) = Look(t, e, col)
               /\ (c <= col /\ col < c + Len(symbols))
                    => Look(r, e, col) = symbols[col - c + 1]
               /\ col >= c + Len(symbols)
                    => Look(r, e, col) = Look(t, e, col - Len(symbols))
<1> DEFINE r == bufrow_insert(t, c, symbols, blank)
           n == Len(symbols)
<1>1. n \in Nat /\ Len(t) \in Nat
  BY LenProperties
<1>2. /\ Len(r) = Len(t) + n
      /\ \A i \in 1 .. Len(r) :
            r[i] = IF i <= c THEN t[i]
                   ELSE IF i <= c + n THEN symbols[i - c] ELSE t[i - n]
  BY InsertIs
<1> HIDE DEF r, n
<1>3. col < Len(r) => col + 1 \in 1 .. Len(r)
  BY <1>1, <1>2
<1>4. CASE col < c
  <2>1. col < Len(r) /\ r[col + 1] = t[col + 1]
    BY <1>1, <1>2, <1>3, <1>4
  <2> QED
    BY <1>1, <1>4, <2>1 DEF Look, r
<1>5. CASE c <= col /\ col < c + n
  <2>1. col < Len(r)
    BY <1>1, <1>2, <1>5
  <2>2. r[col + 1] = symbols[(col + 1) - c] /\ (col + 1) - c = col - c + 1
    BY <1>1, <1>2, <1>3, <1>5, <2>1
  <2> QED
    BY <1>1, <1>5, <2>1, <2>2 DEF Look, r, n
<1>6. CASE col >= c + n
  <2>1. col < Len(r) <=> col - n < Len(t)
    BY <1>1, <1>2
  <2>2. col < Len(r) => r[col + 1] = t[(col + 1) - n]
    BY <1>1, <1>2, <1>3, <1>6
  <2>3. (col + 1) - n = (col - n) + 1
    BY <1>1
  <2> QED
    BY <1>1, <1>6, <2>1, <2>2, <2>3 DEF Look, r, n
<1> QED
  BY <1>1, <1>4, <1>5, <1>6 DEF n

LEMMA RemoveLooks ==
    ASSUME NEW t \in Seq(Cells), NEW c \in Columns, NEW n \in Nat, n < Width - c,
           NEW e, NEW col \in Columns
    PROVE  LET r == bufrow_remove(t, c, n)
           IN  /\ r \in Seq(Cells)
               /\ col < c => Look(r, e, col) = Look(t, e, col)
               /\ (col >= c /\ col + n < Width)
                    => Look(r, e, col) = Look(t, e, col + n)
               /\ (col >= c /\ col + n >= Width /\ n > 0)
                    => Look(r, e, col) = Blank(Cleared[e.style])
<1> DEFINE r == bufrow_remove(t, c, n)
           k == IF Len(t) < Width THEN Len(t) ELSE Width
<1>1. /\ Len(t) \in Nat /\ Width \in Nat /\ c \in Nat /\ col \in Nat
      /\ c < Width /\ col < Width
  BY LenProperties, SizeAssumption DEF Columns
<1>2. CASE c >= Len(t)
  <2>1. r = t
    BY <1>2 DEF bufrow_remove
  <2> QED
    BY <1>1, <1>2, <2>1 DEF Look
<1>3. CASE c < Len(t)
  <2>1. /\ r \in Seq(Cells)
        /\ Len(r) = IF k - c - n > 0 THEN k - n ELSE c
        /\ \A i \in 1 .. Len(r) : r[i] = IF i <= c THEN t[i] ELSE t[i + n]
    BY <1>1, <1>3, RemoveIs DEF int_min, int_max
  <2> HIDE DEF r
  <2>2. Len(r) \in Nat /\ Len(r) >= c /\ k \in Nat
    BY <1>1, <2>1
  <2>3. col < Len(r) => col + 1 \in 1 .. Len(r)
    BY <1>1, <2>2
  <2>4. CASE col < c
    <3>1. col < Len(r) /\ r[col + 1] = t[col + 1]
      BY <1>1, <2>1, <2>2, <2>3, <2>4
    <3> QED
      BY <1>1, <1>3, <2>1, <2>4, <3>1 DEF Look, r
  <2>5. CASE col >= c /\ col + n < Width
    <3>1. col < Len(r) <=> col + n < Len(t)
      BY <1>1, <1>3, <2>1, <2>5
    <3>2. col < Len(r) => r[col + 1] = t[(col + 1) + n]
      BY <1>1, <2>1, <2>3, <2>5
    <3>3. (col + 1) + n = (col + n) + 1
      BY <1>1
    <3> QED
      BY <1>1, <2>1, <2>5, <3>1, <3>2, <3>3 DEF Look, r
  <2>6. CASE col >= c /\ col + n >= Width
    <3>1. n > 0 => ~(col < Len(r))
      BY <1>1, <1>3, <2>1, <2>6
    <3> QED
      BY <1>1, <2>1, <2>6, <3>1 DEF Look, r
  <2> QED
    BY <1>1, <2>4, <2>5, <2>6
<1> QED
  BY <1>1, <1>2, <1>3

-----------------------------------------------------------------------------
(* viewport_dirty.c.                                                       *)

IsInterval(d) ==
    /\ d.s \in Nat /\ d.e \in Nat /\ d.e <= Width
    /\ d.s < d.e \/ (d.s = 0 /\ d.e = 0)
Within(d, c) == d.s <= c /\ c < d.e
(* Interval d is taken to be dirty where b is.                             *)
Contains(d, b) == \A c \in Columns : Within(b, c) => Within(d, c)

LEMMA WidthIs == Width \in Nat /\ Width > 0
BY SizeAssumption

LEMMA ColumnIs == ASSUME NEW c \in Columns PROVE c \in Nat /\ c < Width
BY SizeAssumption DEF Columns

LEMMA DirtyIs ==
    ASSUME TypeOK
    PROVE  IsInterval(Dirty) /\ \A c \in Columns :
                Within(Dirty, c) <=> c \in start .. end - 1
<1>1. Dirty.s = start /\ Dirty.e = end
  BY DEF Dirty
<1>2. IsInterval(Dirty)
  BY <1>1, SizeAssumption DEF TypeOK, IsInterval
<1>3. ASSUME NEW c \in Columns
      PROVE  Within(Dirty, c) <=> c \in start .. end - 1
  BY <1>1, <1>3, ColumnIs, SizeAssumption DEF TypeOK, Within
<1> QED
  BY <1>2, <1>3

LEMMA TaintIs ==
    ASSUME NEW d, IsInterval(d), NEW from \in Int, NEW to \in Int
    PROVE  /\ IsInterval(dirty_taint(d, from, to))
           /\ Contains(dirty_taint(d, from, to), d)
           /\ \A c \in Columns :
                (from <= c /\ c < to) => Within(dirty_taint(d, from, to), c)
<1> DEFINE low == int_min(d.s, from)
           s == int_max(0, low)
           high == int_max(d.e, to)
           e == int_min(Width, high)
           t == dirty_taint(d, from, to)
<1>1. d.s \in Nat /\ d.e \in Nat /\ d.e <= Width /\ Width \in Nat
      /\ (d.s < d.e \/ (d.s = 0 /\ d.e = 0))
  BY WidthIs DEF IsInterval
<1>2. low \in Int /\ low <= d.s /\ low <= from /\ high \in Int /\ d.e <= high /\ to <= high
  BY <1>1 DEF int_min, int_max
<1>3. s \in Nat /\ s <= d.s /\ (low <= 0 => s = 0) /\ (low >= 0 => s = low)
      /\ e \in Nat /\ e <= Width /\ d.e <= e /\ (e = Width \/ e = high)
  <2> HIDE DEF low, high
  <2> QED
    BY <1>1, <1>2 DEF int_min, int_max
<1>4. t = IF s >= e THEN [s |-> 0, e |-> 0] ELSE [s |-> s, e |-> e]
  BY DEF dirty_taint, Interval
<1> HIDE DEF low, s, high, e, t
<1>5. IsInterval(t)
  BY <1>1, <1>3, <1>4 DEF IsInterval
<1>6. ASSUME NEW c \in Columns, Within(d, c) \/ (from <= c /\ c < to)
      PROVE  Within(t, c)
  <2>1. c \in Nat /\ c < Width
    BY ColumnIs
  <2>2. s <= c
    BY <1>1, <1>2, <1>3, <1>6, <2>1 DEF Within
  <2>3. c < e
    BY <1>1, <1>2, <1>3, <1>6, <2>1 DEF Within
  <2>4. t.s = s /\ t.e = e
    BY <1>3, <1>4, <2>1, <2>2, <2>3
  <2> QED
    BY <2>2, <2>3, <2>4 DEF Within
<1> QED
  BY <1>5, <1>6 DEF Contains, t

LEMMA CleanseIs ==
    ASSUME NEW d, IsInterval(d), NEW from \in Int, NEW to \in Int,
           from >= 0
    PROVE  /\ IsInterval(dirty_cleanse(d, from, to))
           /\ \A c \in Columns : Within(d, c) /\ ~(from <= c /\ c < to)
                => Within(dirty_cleanse(d, from, to), c)
<1> DEFINE s == IF from <= d.s THEN int_max(d.s, to) ELSE d.s
           e == IF to >= d.e THEN int_min(d.e, from) ELSE d.e
           t == dirty_cleanse(d, from, to)
<1>1. d.s \in Nat /\ d.e \in Nat /\ d.e <= Width /\ Width \in Nat
      /\ (d.s < d.e \/ (d.s = 0 /\ d.e = 0))
  BY WidthIs DEF IsInterval
<1>2. s \in Nat /\ (s = d.s \/ (from <= d.s /\ s = to))
      /\ e \in Nat /\ e <= Width /\ (e = d.e \/ (to >= d.e /\ e = from))
  BY <1>1 DEF int_min, int_max
<1>3. t = IF s >= e THEN [s |-> 0, e |-> 0] ELSE [s |-> s, e |-> e]
  BY DEF dirty_cleanse, Interval
<1> HIDE DEF s, e, t
<1>4. IsInterval(t)
  BY <1>1, <1>2, <1>3 DEF IsInterval
<1>5. ASSUME NEW c \in Columns, Within(d, c), ~(from <= c /\ c < to)
      PROVE  Within(t, c)
  <2>1. c \in Nat /\ c < Width /\ d.s <= c /\ c < d.e
    BY <1>5, ColumnIs DEF Within
  <2>2. s <= c
    BY <1>1, <1>2, <1>5, <2>1
  <2>3. c < e
    BY <1>1, <1>2, <1>5, <2>1
  <2>4. t.s = s /\ t.e = e
    BY <1>2, <1>3, <2>1, <2>2, <2>3
  <2> QED
    BY <2>2, <2>3, <2>4 DEF Within
<1> QED
  BY <1>4, <1>5 DEF t

LEMMA TaintAtIs ==
    ASSUME NEW d, IsInterval(d), NEW c \in -1 .. Width - 1
    PROVE  /\ IsInterval(TaintAt(d, c)) /\ Contains(TaintAt(d, c), d)
           /\ c \in Columns => Within(TaintAt(d, c), c)
<1>1. c \in Int /\ c + 1 \in Int /\ c < c + 1 /\ (c < 0 => c \notin Columns)
      /\ c <= c
  BY WidthIs DEF Columns
<1>2. CASE c < 0
  BY <1>1, <1>2 DEF TaintAt, Contains
<1>3. CASE ~(c < 0)
  <2>1. TaintAt(d, c) = dirty_taint(d, c, c + 1)
    BY <1>3 DEF TaintAt
  <2> QED
    BY <1>1, <2>1, TaintIs
<1> QED
  BY <1>2, <1>3

LEMMA MoveIs ==
    ASSUME TypeOK, NEW d, IsInterval(d), NEW c \in -1 .. Width - 1
    PROVE  /\ IsInterval(be_move_cursor(d, c)) /\ Contains(be_move_cursor(d, c), d)
           /\ \/ c = x
              \/ /\ x \in Columns => Within(be_move_cursor(d, c), x)
                 /\ c \in Columns => Within(be_move_cursor(d, c), c)
<1>1. CASE c = x
  BY <1>1 DEF be_move_cursor, Contains
<1>2. CASE c # x
  <2> DEFINE b == TaintAt(d, x)
  <2>1. IsInterval(b) /\ Contains(b, d) /\ (x \in Columns => Within(b, x))
    BY TaintAtIs DEF TypeOK
  <2> HIDE DEF b
  <2>2. /\ IsInterval(TaintAt(b, c)) /\ Contains(TaintAt(b, c), b)
        /\ c \in Columns => Within(TaintAt(b, c), c)
    BY <2>1, TaintAtIs
  <2>3. be_move_cursor(d, c) = TaintAt(b, c)
    BY <1>2 DEF be_move_cursor, b
  <2> QED
    BY <2>1, <2>2, <2>3 DEF Contains
<1> QED
  BY <1>1, <1>2

-----------------------------------------------------------------------------
(* A step of a handler: its types, and what it must have made dirty.       *)

Erased == {Blank(s) : s \in Styles}

LEMMA BecomesTyped ==
    ASSUME TypeOK, NEW t \in Seq(Cells), NEW e \in Erased, NEW c \in -1 .. Width - 1,
           NEW vis \in BOOLEAN, NEW d, IsInterval(d), Becomes(t, e, c, vis, d)
    PROVE  TypeOK'
<1>1. start' \in Nat /\ end' \in 0 .. Width
      /\ (start' < end' \/ (start' = 0 /\ end' = 0))
  BY WidthIs DEF Becomes, IsInterval
<1>2. stale' \subseteq Columns
  BY DEF Becomes, TypeOK
<1> QED
  BY <1>1, <1>2 DEF Becomes, TypeOK, Erased

LEMMA BecomesCovered ==
    ASSUME TypeOK, Covered, NEW t, NEW e, NEW c, NEW vis \in BOOLEAN, NEW d,
           IsInterval(d), Becomes(t, e, c, vis, d),
           Contains(d, Dirty),
           \A col \in Columns : Look(t, e, col) = Look(text, erase, col)
                                \/ Within(d, col) \/ (vis /\ col = c),
           visible /\ x \in Columns => Within(d, x) \/ (vis /\ x = c)
    PROVE  Covered'
<1>1. start' = d.s /\ end' = d.e /\ x' = c /\ visible' = vis
  BY DEF Becomes
<1>2. ASSUME NEW col \in stale'
      PROVE  col \in Columns /\ (Within(d, col) \/ (vis /\ col = c))
  <2>1. CASE col \in stale
    <3>1. col \in Columns
      BY <2>1 DEF TypeOK
    <3>2. Within(Dirty, col) \/ (visible /\ col = x)
      BY <2>1, <3>1, DirtyIs DEF Covered
    <3> QED
      BY <3>1, <3>2 DEF Contains
  <2>2. CASE col \notin stale
    <3>1. /\ col \in Columns
          /\ \/ Look(t, e, col) # Look(text, erase, col)
             \/ (vis /\ col = c) # (visible /\ col = x)
      BY <1>2, <2>2 DEF Becomes
    <3> QED
      BY <3>1
  <2> QED
    BY <2>1, <2>2
<1>3. ASSUME NEW col \in stale', Within(d, col)
      PROVE  col \in d.s .. d.e - 1
  BY <1>2, <1>3, ColumnIs DEF Within, IsInterval
<1> QED
  BY <1>1, <1>2, <1>3 DEF Covered

(* A step is fine when it keeps the types and what looks different dirty,  *)
(* but for the exceptions.                                                 *)
Fine ==
    /\ TypeOK'
    /\ Covered => Covered' \/ HidesCursor \/ PadsInColour \/ ReplacesUnseen

(* Padding before the cursor that cannot be told from what was there.      *)
LEMMA PaddingSeen ==
    ASSUME TypeOK, NEW col \in Columns, NEW blank,
           SameOrPadded(text', text, erase, x, col, blank), ~PadsInColour
    PROVE  Look(text', erase, col) = Look(text, erase, col)
<1> SUFFICES ASSUME Len(text) <= col, Len(text') > Len(text), Len(text) < x,
                    text'[Len(text) + 1] = blank, Look(text', erase, col) = blank
             PROVE  Look(text', erase, col) = Look(text, erase, col)
  BY DEF SameOrPadded
<1>1. Len(text) \in Nat /\ col \in Nat
  BY LenProperties, ColumnIs DEF TypeOK
<1>2. Look(text, erase, Len(text)) = Blank(Cleared[erase.style])
      /\ Look(text, erase, col) = Blank(Cleared[erase.style])
  BY <1>1 DEF Look
<1> QED
  BY <1>2 DEF PadsInColour

LEMMA EditFine ==
    ASSUME TypeOK, NEW t \in Seq(Cells), NEW c \in -1 .. Width - 1,
           NEW d, IsInterval(d), Contains(d, Dirty), NEW blank,
           Becomes(t, erase, c, visible, d),
           \A col \in Columns : \/ SameOrPadded(t, text, erase, x, col, blank)
                                \/ Within(d, col) \/ (visible /\ col = c),
           x \in Columns => Within(d, x) \/ x = c
    PROVE  Fine
<1>1. visible \in BOOLEAN /\ erase \in Erased /\ text' = t
  BY DEF TypeOK, Erased, Becomes
<1>2. TypeOK'
  BY <1>1, BecomesTyped
<1>3. ASSUME Covered, ~PadsInColour PROVE Covered'
  <2>1. ASSUME NEW col \in Columns
        PROVE  Look(t, erase, col) = Look(text, erase, col)
               \/ Within(d, col) \/ (visible /\ col = c)
    BY <1>1, <1>3, PaddingSeen
  <2> QED
    BY <1>1, <1>3, <2>1, BecomesCovered
<1> QED
  BY <1>2, <1>3 DEF Fine

-----------------------------------------------------------------------------
(* The handlers.                                                           *)

LEMMA TypedIs ==
    ASSUME TypeOK, x \in Columns, NEW n \in Nat, NEW insert \in BOOLEAN,
           NEW cell \in Cells
    PROVE  LET t == Typed(x, n, insert, cell)
           IN  /\ t \in Seq(Cells) /\ (n > 0 => Len(t) >= x + n)
               /\ Len(t) >= Len(text) /\ (n = 0 /\ Len(text) <= x => t = text)
               /\ \A col \in Columns :
                    /\ col < x => SameOrPadded(t, text, erase, x, col, Blank(cell.style))
                    /\ col >= x + n /\ (~insert \/ n = 0)
                         => Look(t, erase, col) = Look(text, erase, col)
<1> DEFINE blank == Blank(cell.style)
           symbols == Times(n, cell)
           t == Typed(x, n, insert, cell)
<1>1. text \in Seq(Cells) /\ Len(text) \in Nat /\ x \in Nat
  BY ColumnIs, LenProperties DEF TypeOK
<1>2. blank \in Cells
  BY BlankTyped DEF Cells
<1>3. symbols \in Seq(Cells) /\ Len(symbols) = n
  BY TimesIs
<1>4. \A col \in Columns : col \in Nat
  BY ColumnIs
<1>5. CASE ~insert \/ Len(text) <= x
  <2>1. t = bufrow_replace(text, x, symbols, blank)
    BY <1>5 DEF Typed, bufrow_insert
  <2> HIDE DEF t, blank, symbols
  <2>2. t \in Seq(Cells)
        /\ Len(t) = IF n = 0 THEN Len(text) ELSE int_max(x + n, Len(text))
    BY <1>1, <1>2, <1>3, <2>1, ReplaceIs
  <2>3. (n > 0 => Len(t) >= x + n) /\ Len(t) >= Len(text) /\ (n = 0 => t = text)
    <3>1. n = 0 => t = text
      <4>1. n = 0 => symbols = <<>>
        BY <1>3, EmptySeq
      <4> QED
        BY <2>1, <4>1 DEF bufrow_replace
    <3> QED
      BY <1>1, <2>2, <3>1 DEF int_max
  <2>4. ASSUME NEW col \in Columns
        PROVE  /\ col < x => SameOrPadded(t, text, erase, x, col, blank)
               /\ col >= x + n => Look(t, erase, col) = Look(text, erase, col)
    BY <1>1, <1>2, <1>3, <1>4, <2>1, ReplaceLooks
  <2> QED
    BY <2>2, <2>3, <2>4 DEF t, blank
<1>6. CASE insert /\ Len(text) > x
  <2>1. t = bufrow_insert(text, x, symbols, blank)
    BY <1>6 DEF Typed
  <2> HIDE DEF t, blank, symbols
  <2>2. t \in Seq(Cells) /\ Len(t) = Len(text) + n
    BY <1>1, <1>2, <1>3, <1>6, <2>1, InsertIs
  <2>3. ASSUME NEW col \in Columns
        PROVE  /\ col < x => Look(t, erase, col) = Look(text, erase, col)
               /\ col >= x + n => Look(t, erase, col) = Look(text, erase, col - n)
    <3>1. /\ col < x => Look(t, erase, col) = Look(text, erase, col)
          /\ col >= x + Len(symbols)
               => Look(t, erase, col) = Look(text, erase, col - Len(symbols))
      <4> DEFINE r == bufrow_insert(text, x, symbols, blank)
      <4>1. /\ col < x => Look(r, erase, col) = Look(text, erase, col)
            /\ col >= x + Len(symbols)
                 => Look(r, erase, col) = Look(text, erase, col - Len(symbols))
        <5>1. col \in Nat /\ Len(text) > x /\ text \in Seq(Cells) /\ x \in Nat
              /\ symbols \in Seq(Cells) /\ blank \in Cells
          BY <1>1, <1>2, <1>3, <1>4, <1>6
        <5> HIDE DEF r
        <5> QED
          BY <5>1, InsertLooks DEF r
      <4> QED
        BY <2>1, <4>1
    <3> QED
      BY <1>3, <3>1
  <2>4. ASSUME NEW col \in Columns, n = 0 PROVE col - n = col
    BY <1>4, <2>4
  <2>5. Len(t) >= x + n /\ Len(t) >= Len(text) /\ ~(Len(text) <= x)
    BY <1>1, <1>6, <2>2
  <2> QED
    BY <1>6, <2>2, <2>3, <2>4, <2>5 DEF t, blank, SameOrPadded
<1> QED
  BY <1>1, <1>5, <1>6

LEMMA TypedDirtyIs ==
    ASSUME TypeOK, x \in Columns, NEW n \in Nat, NEW insert \in BOOLEAN
    PROVE  LET d == TypedDirty(n, insert)
           IN  /\ IsInterval(d) /\ Contains(d, Dirty)
               /\ \A col \in Columns :
                    x <= col /\ (insert \/ col < x + n) => Within(d, col)
<1>1. x \in Int /\ x + n \in Int /\ Width \in Int
  BY WidthIs, ColumnIs
<1>2. IsInterval(Dirty)
  BY DirtyIs
<1>3. CASE insert
  <2>1. TypedDirty(n, insert) = dirty_taint(Dirty, x, Width)
    BY <1>3 DEF TypedDirty
  <2>2. \A col \in Columns : col < Width
    BY ColumnIs
  <2> QED
    BY <1>1, <1>2, <2>1, <2>2, TaintIs
<1>4. CASE ~insert
  <2>1. TypedDirty(n, insert) = dirty_taint(Dirty, x, x + n)
    BY <1>4 DEF TypedDirty
  <2> QED
    BY <1>1, <1>2, <1>4, <2>1, TaintIs
<1> QED
  BY <1>3, <1>4

LEMMA WrappingFine ==
    ASSUME TypeOK, x >= 0, NEW len \in 1 .. Width + 1, NEW insert \in BOOLEAN,
           NEW cell \in Cells, be_input_wrapping(len, insert, cell)
    PROVE  Fine
<1> DEFINE t == Typed(x, len, insert, cell)
           c == int_min(x + len, Width - 1)
           b == TypedDirty(len, insert)
           d == be_move_cursor(b, c)
           blank == Blank(cell.style)
<1>1. x \in Columns /\ x \in Nat /\ len \in Nat /\ len > 0
  BY WidthIs DEF TypeOK, Columns
<1>2. c \in -1 .. Width - 1
  BY <1>1, WidthIs DEF int_min, be_input_wrapping
<1>3. Becomes(t, erase, c, visible, d)
  BY DEF be_input_wrapping
<1> HIDE DEF c
<1>4. /\ IsInterval(b) /\ Contains(b, Dirty)
      /\ \A col \in Columns : x <= col /\ (insert \/ col < x + len) => Within(b, col)
  BY <1>1, TypedDirtyIs
<1>5. IsInterval(d) /\ Contains(d, b)
  BY <1>2, <1>4, MoveIs
<1>6. t \in Seq(Cells)
  BY <1>1, TypedIs
<1>7. ASSUME NEW col \in Columns
      PROVE  SameOrPadded(t, text, erase, x, col, blank) \/ Within(d, col)
  <2>1. CASE col < x
    BY <1>1, <2>1, TypedIs
  <2>2. CASE x <= col /\ (insert \/ col < x + len)
    BY <1>4, <1>5, <2>2 DEF Contains
  <2>3. CASE col >= x + len /\ ~insert
    <3>1. Look(t, erase, col) = Look(text, erase, col)
      BY <1>1, <2>3, TypedIs
    <3> QED
      BY <3>1 DEF SameOrPadded
  <2> QED
    BY <1>1, <2>1, <2>2, <2>3, ColumnIs
<1>8. Within(d, x)
  BY <1>1, <1>4, <1>5 DEF Contains
<1>9. Contains(d, Dirty)
  BY <1>4, <1>5 DEF Contains
<1> HIDE DEF t, d, blank
<1> QED
  BY <1>2, <1>3, <1>5, <1>6, <1>7, <1>8, <1>9, EditFine

LEMMA ClippedFine ==
    ASSUME TypeOK, x >= 0, NEW len \in 1 .. Width + 1, NEW insert \in BOOLEAN,
           NEW cell \in Cells, be_input_clipped(len, insert, cell)
    PROVE  Fine
<1> DEFINE n == int_min(len, Width - x - 1)
           t == Typed(x, n, insert, cell)
           blank == Blank(cell.style)
           last == IF len > n THEN bufrow_replace(t, Width - 1, <<cell>>, blank)
                              ELSE t
           b == TypedDirty(n, insert)
           d == be_move_cursor(b, x + n)
           one == <<cell>>
<1>1. x \in Columns /\ x \in Nat /\ len \in Nat /\ len > 0 /\ x < Width
  BY WidthIs DEF TypeOK, Columns
<1>2. /\ n \in Nat /\ x + n \in -1 .. Width - 1 /\ x + n \in Columns
      /\ (n = 0 <=> x = Width - 1) /\ (len > n => x + n = Width - 1)
  BY <1>1, WidthIs DEF int_min, Columns
<1>3. Becomes(last, erase, x + n, visible, d)
  BY DEF be_input_clipped
<1> HIDE DEF n
<1>4. /\ IsInterval(b) /\ Contains(b, Dirty)
      /\ \A col \in Columns : x <= col /\ (insert \/ col < x + n) => Within(b, col)
  BY <1>1, <1>2, TypedDirtyIs
<1>5. /\ IsInterval(d) /\ Contains(d, b)
      /\ n > 0 => Within(d, x + n)
  <2>1. n > 0 => x + n # x
    BY <1>1, <1>2
  <2> QED
    BY <1>1, <1>2, <1>4, <2>1, MoveIs
<1>6. /\ t \in Seq(Cells) /\ (n > 0 => Len(t) >= x + n)
      /\ Len(t) >= Len(text) /\ (n = 0 /\ Len(text) <= x => t = text)
      /\ \A col \in Columns :
           /\ col < x => SameOrPadded(t, text, erase, x, col, blank)
           /\ col >= x + n /\ (~insert \/ n = 0)
                => Look(t, erase, col) = Look(text, erase, col)
  BY <1>1, <1>2, TypedIs
<1>7. text \in Seq(Cells) /\ Len(text) \in Nat /\ Len(t) \in Nat
      /\ blank \in Cells /\ one \in Seq(Cells) /\ Len(one) = 1
      /\ Width - 1 \in Nat
  <2>1. text \in Seq(Cells) /\ blank \in Cells
    BY BlankTyped DEF TypeOK, Cells
  <2> QED
    BY <1>6, <2>1, LenProperties, WidthIs
<1> HIDE DEF t, blank, b, d, one
<1>8. CASE len <= n
  <2>1. last = t
    BY <1>1, <1>2, <1>8
  <2>2. ASSUME NEW col \in Columns
        PROVE  SameOrPadded(t, text, erase, x, col, blank) \/ Within(d, col)
    <3>1. CASE col < x
      BY <1>6, <3>1
    <3>2. CASE x <= col /\ (insert \/ col < x + n)
      BY <1>4, <1>5, <3>2 DEF Contains
    <3>3. CASE col >= x + n /\ ~insert
      BY <1>6, <3>3 DEF SameOrPadded
    <3> QED
      BY <1>1, <1>2, <3>1, <3>2, <3>3, ColumnIs
  <2>3. n > 0
    BY <1>1, <1>2, <1>8
  <2>4. Within(d, x) /\ Contains(d, Dirty)
    BY <1>1, <1>2, <1>4, <1>5, <2>3 DEF Contains
  <2> QED
    BY <1>2, <1>3, <1>5, <1>6, <2>1, <2>2, <2>4, EditFine
<1>9. CASE len > n
  <2>1. last = bufrow_replace(t, Width - 1, one, blank)
    BY <1>9 DEF one
  <2> HIDE DEF last
  <2>2. /\ last \in Seq(Cells) /\ Len(last) \in Nat /\ Len(last) >= Len(t)
        /\ \A i \in 1 .. Len(last) : i <= Width - 1 /\ i <= Len(t) => last[i] = t[i]
    <3> DEFINE r == bufrow_replace(t, Width - 1, one, blank)
    <3>1. /\ r \in Seq(Cells) /\ Len(r) \in Nat /\ Len(r) >= Len(t)
          /\ \A i \in 1 .. Len(t) : i <= Width - 1 => r[i] = t[i]
      BY <1>6, <1>7, ReplaceKeeps
    <3> QED
      BY <1>7, <2>1, <3>1
  <2>3. ASSUME NEW col \in Columns, col < Width - 1
        PROVE  SameOrPadded(last, t, erase, Width - 1, col, blank)
    BY <1>6, <1>7, <2>1, <2>3, ColumnIs, ReplaceLooks
  <2>4. ASSUME NEW col \in Columns, col < x
        PROVE  SameOrPadded(last, text, erase, x, col, blank)
    <3>1. SameOrPadded(last, t, erase, Width - 1, col, blank) /\ col < Width - 1
          /\ col \in Nat
      <4>1. col \in Nat /\ col < Width - 1
        BY <1>1, <2>4, ColumnIs, WidthIs
      <4> QED
        BY <2>3, <4>1
    <3>2. SameOrPadded(t, text, erase, x, col, blank)
      BY <1>6, <2>4
    <3>3. CASE n = 0 /\ Len(text) <= x
      BY <1>2, <1>6, <3>1, <3>3
    <3>4. CASE n = 0 /\ Len(text) > x
      BY <1>1, <1>2, <1>6, <1>7, <3>1, <3>2, <3>4 DEF SameOrPadded
    <3>5. CASE n > 0
      <4>1. Look(last, erase, col) = Look(t, erase, col)
        BY <1>2, <1>6, <1>7, <1>9, <3>1, <3>5 DEF SameOrPadded
      <4>2. Len(text) < x /\ Len(t) > Len(text)
              => Len(last) > Len(text) /\ last[Len(text) + 1] = t[Len(text) + 1]
        <5> SUFFICES ASSUME Len(text) < x, Len(t) > Len(text)
                     PROVE  Len(last) > Len(text)
                            /\ last[Len(text) + 1] = t[Len(text) + 1]
          OBVIOUS
        <5>1. Len(text) + 1 \in 1 .. Len(last) /\ Len(text) + 1 <= Width - 1
              /\ Len(text) + 1 <= Len(t)
          BY <1>1, <1>7, <2>2, WidthIs
        <5> QED
          BY <1>7, <2>2, <5>1
      <4> QED
        BY <3>2, <4>1, <4>2 DEF SameOrPadded
    <3> QED
      BY <1>1, <1>2, <1>7, <3>3, <3>4, <3>5
  <2>5. CASE n = 0 /\ ~visible
    <3>1. visible \in BOOLEAN /\ erase \in Erased
      BY DEF TypeOK, Erased
    <3>2. TypeOK'
      BY <1>2, <1>3, <1>5, <2>2, <3>1, BecomesTyped
    <3>3. ReplacesUnseen
      BY <1>2, <2>5 DEF ReplacesUnseen
    <3> QED
      BY <3>2, <3>3 DEF Fine
  <2>6. CASE n > 0 \/ visible
    <3>1. ASSUME NEW col \in Columns
          PROVE  \/ SameOrPadded(last, text, erase, x, col, blank)
                 \/ Within(d, col) \/ (visible /\ col = x + n)
      <4>1. CASE col < x
        BY <2>4, <4>1
      <4>2. CASE x <= col /\ col < x + n
        BY <1>4, <1>5, <4>2 DEF Contains
      <4>3. CASE col >= x + n
        <5>1. col = x + n
          BY <1>2, <1>9, <4>3, WidthIs DEF Columns
        <5> QED
          BY <1>2, <1>5, <2>6, <5>1
      <4> QED
        BY <1>1, <1>2, <4>1, <4>2, <4>3, ColumnIs
    <3>2. Within(d, x) \/ x = x + n
      BY <1>1, <1>2, <1>4, <1>5 DEF Contains
    <3>3. Contains(d, Dirty)
      BY <1>4, <1>5 DEF Contains
    <3> QED
      BY <1>2, <1>3, <1>5, <2>2, <3>1, <3>2, <3>3, EditFine
  <2> QED
    BY <1>2, <2>5, <2>6
<1> QED
  BY <1>1, <1>2, <1>8, <1>9

(* Filling width columns from column c on.                                 *)
LEMMA FillIs ==
    ASSUME TypeOK, NEW c \in Nat, NEW width \in Nat, NEW s \in Styles
    PROVE  LET t == bufrow_fill(text, c, Blank(s), width, Blank(s))
           IN  /\ t \in Seq(Cells)
               /\ \A col \in Columns :
                    /\ col < c => SameOrPadded(t, text, erase, c, col, Blank(s))
                    /\ c <= col /\ col < c + width => Look(t, erase, col) = Blank(s)
                    /\ col >= c + width => Look(t, erase, col) = Look(text, erase, col)
<1> DEFINE symbols == Times(width, Blank(s))
           r == bufrow_replace(text, c, symbols, Blank(s))
<1>1. text \in Seq(Cells) /\ Blank(s) \in Cells
  BY BlankTyped DEF TypeOK
<1>2. symbols \in Seq(Cells) /\ Len(symbols) = width
      /\ \A i \in 1 .. width : symbols[i] = Blank(s)
  BY <1>1, TimesIs
<1>3. r = bufrow_fill(text, c, Blank(s), width, Blank(s))
  BY DEF bufrow_fill
<1> HIDE DEF symbols
<1>4. r \in Seq(Cells)
  BY <1>1, <1>2, ReplaceKeeps
<1>5. ASSUME NEW col \in Columns
      PROVE  /\ col < c => SameOrPadded(r, text, erase, c, col, Blank(s))
             /\ c <= col /\ col < c + width => Look(r, erase, col) = Blank(s)
             /\ col >= c + width => Look(r, erase, col) = Look(text, erase, col)
  <2>1. col \in Nat
    BY ColumnIs
  <2>2. /\ col < c => SameOrPadded(r, text, erase, c, col, Blank(s))
        /\ (c <= col /\ col < c + Len(symbols))
             => Look(r, erase, col) = symbols[col - c + 1]
        /\ col >= c + Len(symbols) => Look(r, erase, col) = Look(text, erase, col)
    BY <1>1, <1>2, <2>1, ReplaceLooks
  <2>3. c <= col /\ col < c + width => symbols[col - c + 1] = Blank(s)
    BY <1>2, <2>1
  <2> QED
    BY <1>2, <2>2, <2>3
<1> HIDE DEF r
<1> QED
  BY <1>3, <1>4, <1>5

LEMMA ClearAreaFine ==
    ASSUME TypeOK, NEW c \in Nat, NEW width \in Nat, NEW s \in Styles,
           c = x \/ c = 0, be_clear_area(c, width, s)
    PROVE  Fine
<1> DEFINE t == bufrow_fill(text, c, Blank(s), width, Blank(s))
           d == dirty_taint(Dirty, c, c + width)
<1>1. Becomes(t, erase, x, visible, d)
  BY DEF be_clear_area
<1>2. /\ IsInterval(d) /\ Contains(d, Dirty)
      /\ \A col \in Columns : c <= col /\ col < c + width => Within(d, col)
  <2>1. IsInterval(Dirty) /\ c \in Int /\ c + width \in Int
    BY DirtyIs
  <2> QED
    BY <2>1, TaintIs
<1>3. t \in Seq(Cells)
  BY FillIs
<1>4. ASSUME NEW col \in Columns
      PROVE  SameOrPadded(t, text, erase, x, col, Blank(s)) \/ Within(d, col)
  <2>1. CASE col < c
    <3>1. c = x
      BY <2>1, ColumnIs
    <3> QED
      BY <2>1, <3>1, FillIs
  <2>2. CASE c <= col /\ col < c + width
    BY <1>2, <2>2
  <2>3. CASE col >= c + width
    BY <2>3, FillIs DEF SameOrPadded
  <2> QED
    BY <2>1, <2>2, <2>3, ColumnIs
<1> HIDE DEF t, d
<1>5. x \in -1 .. Width - 1
  BY DEF TypeOK
<1> QED
  BY <1>1, <1>2, <1>3, <1>4, <1>5, EditFine

LEMMA EraseFine ==
    ASSUME TypeOK, NEW s \in Styles, Erase(s) PROVE Fine
<1>1. x \in Int /\ Width \in Nat /\ 0 \in Nat
  BY WidthIs DEF TypeOK
<1>2. ASSUME x >= 0, NEW width \in 1 .. Width - x, be_clear_area(x, width, s)
      PROVE  Fine
  <2>1. x \in Nat /\ width \in Nat
    BY <1>1, <1>2
  <2> QED
    BY <1>2, <2>1, ClearAreaFine
<1>3. CASE x >= 0 /\ be_clear_area(0, x + 1, s)
  <2>1. x + 1 \in Nat
    BY <1>1, <1>3
  <2> QED
    BY <1>1, <1>3, <2>1, ClearAreaFine
<1>4. CASE be_clear_area(0, Width, s)
  BY <1>1, <1>4, ClearAreaFine
<1> QED
  BY <1>2, <1>3, <1>4 DEF Erase

(* Filling pads the columns between the used cells and column c.           *)
LEMMA FillPads ==
    ASSUME TypeOK, NEW c \in Nat, NEW width \in Nat \ {0}, NEW s \in Styles,
           NEW col \in Columns, col < c
    PROVE  Look(bufrow_fill(text, c, Blank(s), width, Blank(s)), erase, col)
             = IF col < Len(text) THEN Look(text, erase, col) ELSE Blank(s)
<1> DEFINE symbols == Times(width, Blank(s))
<1>1. text \in Seq(Cells) /\ Blank(s) \in Cells /\ col \in Nat
  BY BlankTyped, ColumnIs DEF TypeOK
<1>2. symbols \in Seq(Cells) /\ Len(symbols) # 0
  BY <1>1, TimesIs
<1>3. bufrow_replace(text, c, symbols, Blank(s))
        = bufrow_fill(text, c, Blank(s), width, Blank(s))
  BY DEF bufrow_fill
<1> HIDE DEF symbols
<1>4. Look(bufrow_replace(text, c, symbols, Blank(s)), erase, col)
        = IF col < Len(text) THEN Look(text, erase, col) ELSE Blank(s)
  BY <1>1, <1>2, ReplacePads
<1> QED
  BY <1>3, <1>4, Zenon

(* What DCH and ICH leave of the row, column by column.                    *)
LEMMA DeletedIs ==
    ASSUME TypeOK, x \in Columns, NEW n \in 1 .. Width - x, NEW s \in Styles
    PROVE  /\ Deleted(n, s) \in Seq(Cells)
           /\ \A col \in Columns :
                /\ col < x => SameOrPadded(Deleted(n, s), text, erase, x, col, Blank(s))
                /\ col >= x /\ col + n < Width
                     => Look(Deleted(n, s), erase, col) = Look(text, erase, col + n)
                /\ col >= x /\ col + n >= Width
                     => Look(Deleted(n, s), erase, col)
                          = IF n < Width - x THEN Blank(Cleared[erase.style])
                            ELSE Blank(s)
                /\ col < x
                     => Look(Deleted(n, s), erase, col)
                          = IF n < Width - x \/ col < Len(text)
                            THEN Look(text, erase, col) ELSE Blank(s)
<1>1. x \in Nat /\ n \in Nat /\ n > 0 /\ text \in Seq(Cells) /\ x < Width
      /\ Width \in Nat
  BY ColumnIs, WidthIs DEF TypeOK
<1>2. CASE n >= Width - x
  <2> DEFINE t == bufrow_fill(text, x, Blank(s), n, Blank(s))
  <2>1. Deleted(n, s) = t
    BY <1>2 DEF Deleted
  <2>2. ASSUME NEW col \in Columns
        PROVE  ~(col >= x /\ col + n < Width) /\ (col >= x => col < x + n)
    BY <1>1, <1>2, ColumnIs
  <2>3. /\ t \in Seq(Cells)
        /\ \A col \in Columns :
             /\ col < x => SameOrPadded(t, text, erase, x, col, Blank(s))
             /\ x <= col /\ col < x + n => Look(t, erase, col) = Blank(s)
    BY <1>1, FillIs
  <2>4. \A col \in Columns : col < x =>
          Look(t, erase, col)
            = IF col < Len(text) THEN Look(text, erase, col) ELSE Blank(s)
    BY <1>1, FillPads
  <2>5. ~(n < Width - x)
    BY <1>1, <1>2
  <2> HIDE DEF t
  <2> QED
    BY <1>1, <2>1, <2>2, <2>3, <2>4, <2>5
<1>3. CASE ~(n >= Width - x)
  <2>1. Deleted(n, s) = bufrow_remove(text, x, n) /\ n < Width - x
    BY <1>1, <1>3 DEF Deleted
  <2>2. x \in Columns => bufrow_remove(text, x, n) \in Seq(Cells)
    BY <1>1, <2>1, RemoveLooks
  <2>3. ASSUME NEW col \in Columns
        PROVE  LET r == bufrow_remove(text, x, n)
               IN  /\ col < x => Look(r, erase, col) = Look(text, erase, col)
                   /\ (col >= x /\ col + n < Width)
                        => Look(r, erase, col) = Look(text, erase, col + n)
                   /\ (col >= x /\ col + n >= Width)
                        => Look(r, erase, col) = Blank(Cleared[erase.style])
    BY <1>1, <2>1, RemoveLooks
  <2> QED
    BY <2>1, <2>2, <2>3 DEF SameOrPadded
<1> QED
  BY <1>2, <1>3

LEMMA InsertedIs ==
    ASSUME TypeOK, x \in Columns, NEW n \in 1 .. Width - x, NEW s \in Styles
    PROVE  /\ Inserted(n, s) \in Seq(Cells)
           /\ \A col \in Columns :
                /\ col < x => SameOrPadded(Inserted(n, s), text, erase, x, col, Blank(s))
                /\ col >= x /\ col < x + n => Look(Inserted(n, s), erase, col) = Blank(s)
                /\ col >= x + n
                     => Look(Inserted(n, s), erase, col) = Look(text, erase, col - n)
                /\ col < x
                     => Look(Inserted(n, s), erase, col)
                          = IF col < Len(text) THEN Look(text, erase, col)
                            ELSE Blank(s)
<1> DEFINE symbols == Times(n, Blank(s))
<1>1. x \in Nat /\ n \in Nat /\ n > 0 /\ text \in Seq(Cells) /\ x < Width
      /\ Width \in Nat /\ Len(text) \in Nat /\ Blank(s) \in Cells
  BY ColumnIs, WidthIs, LenProperties, BlankTyped DEF TypeOK
<1>2. symbols \in Seq(Cells) /\ Len(symbols) = n
      /\ \A i \in 1 .. n : symbols[i] = Blank(s)
  BY <1>1, TimesIs
<1>3. CASE n >= Width - x \/ Len(text) <= x
  <2> DEFINE t == bufrow_fill(text, x, Blank(s), n, Blank(s))
  <2>1. Inserted(n, s) = t
    BY <1>3 DEF Inserted, bufrow_insert, bufrow_fill
  <2>2. ASSUME NEW col \in Columns, col >= x + n
        PROVE  Look(text, erase, col) = Look(text, erase, col - n)
    <3>1. Len(text) <= x /\ ~(col < Len(text)) /\ ~(col - n < Len(text))
      BY <1>1, <1>3, <2>2, ColumnIs
    <3> QED
      BY <3>1 DEF Look
  <2>3. /\ t \in Seq(Cells)
        /\ \A col \in Columns :
             /\ col < x => SameOrPadded(t, text, erase, x, col, Blank(s))
             /\ x <= col /\ col < x + n => Look(t, erase, col) = Blank(s)
             /\ col >= x + n => Look(t, erase, col) = Look(text, erase, col)
    BY <1>1, FillIs
  <2>4. \A col \in Columns : col < x =>
          Look(t, erase, col)
            = IF col < Len(text) THEN Look(text, erase, col) ELSE Blank(s)
    BY <1>1, FillPads
  <2> HIDE DEF t
  <2> QED
    BY <1>1, <2>1, <2>2, <2>3, <2>4
<1>4. CASE ~(n >= Width - x) /\ Len(text) > x
  <2> DEFINE r == bufrow_insert(text, x, symbols, Blank(s))
  <2>1. Inserted(n, s) = r
    BY <1>4 DEF Inserted
  <2> HIDE DEF symbols
  <2>2. r \in Seq(Cells)
    BY <1>1, <1>2, <1>4, InsertIs
  <2>3. ASSUME NEW col \in Columns
        PROVE  /\ col < x => Look(r, erase, col) = Look(text, erase, col)
               /\ col >= x /\ col < x + n => Look(r, erase, col) = Blank(s)
               /\ col >= x + n => Look(r, erase, col) = Look(text, erase, col - n)
    <3>1. col \in Nat /\ Len(text) > x /\ text \in Seq(Cells) /\ x \in Nat
          /\ symbols \in Seq(Cells) /\ Blank(s) \in Cells
      BY <1>1, <1>2, <1>4, ColumnIs
    <3> HIDE DEF r
    <3>2. /\ col < x => Look(r, erase, col) = Look(text, erase, col)
          /\ (x <= col /\ col < x + Len(symbols))
               => Look(r, erase, col) = symbols[col - x + 1]
          /\ col >= x + Len(symbols)
               => Look(r, erase, col) = Look(text, erase, col - Len(symbols))
      BY <3>1, InsertLooks DEF r
    <3>3. x <= col /\ col < x + n => symbols[col - x + 1] = Blank(s)
      BY <1>1, <1>2, <3>1
    <3> QED
      BY <1>1, <1>2, <3>1, <3>2, <3>3
  <2>4. \A col \in Columns : col < x => col < Len(text)
    BY <1>1, <1>4, ColumnIs
  <2> HIDE DEF r
  <2> QED
    BY <2>1, <2>2, <2>3, <2>4 DEF SameOrPadded
<1> QED
  BY <1>1, <1>3, <1>4

(* Both make all columns from the cursor on dirty.                         *)
LEMMA ShiftFine ==
    ASSUME TypeOK, x >= 0, NEW t \in Seq(Cells), NEW s \in Styles,
           Becomes(t, erase, x, visible, dirty_taint(Dirty, x, Width)),
           \A col \in Columns : col < x =>
               SameOrPadded(t, text, erase, x, col, Blank(s))
    PROVE  Fine
<1> DEFINE d == dirty_taint(Dirty, x, Width)
<1>1. x \in Int /\ Width \in Int /\ x \in -1 .. Width - 1 /\ IsInterval(Dirty)
  BY WidthIs, DirtyIs DEF TypeOK
<1>2. /\ IsInterval(d) /\ Contains(d, Dirty)
      /\ \A col \in Columns : x <= col /\ col < Width => Within(d, col)
  BY <1>1, TaintIs
<1> HIDE DEF d
<1>3. ASSUME NEW col \in Columns
      PROVE  SameOrPadded(t, text, erase, x, col, Blank(s)) \/ Within(d, col)
  BY <1>1, <1>2, ColumnIs
<1> QED
  BY <1>1, <1>2, <1>3, EditFine DEF d

LEMMA CharsFine ==
    ASSUME TypeOK, x >= 0, NEW n \in 1 .. Width - x, NEW s \in Styles,
           ac_delete_char(n, s) \/ ac_insert_char(n, s)
    PROVE  Fine
<1>1. x \in Columns
  BY WidthIs DEF TypeOK, Columns
<1>2. CASE ac_delete_char(n, s)
  <2> DEFINE t == Deleted(n, s)
  <2>1. Becomes(t, erase, x, visible, dirty_taint(Dirty, x, Width))
    BY <1>2 DEF ac_delete_char
  <2>2. t \in Seq(Cells) /\ \A col \in Columns : col < x =>
               SameOrPadded(t, text, erase, x, col, Blank(s))
    BY <1>1, DeletedIs
  <2> HIDE DEF t
  <2> QED
    BY <2>1, <2>2, ShiftFine
<1>3. CASE ac_insert_char(n, s)
  <2> DEFINE t == Inserted(n, s)
  <2>1. Becomes(t, erase, x, visible, dirty_taint(Dirty, x, Width))
    BY <1>3 DEF ac_insert_char
  <2>2. t \in Seq(Cells) /\ \A col \in Columns : col < x =>
               SameOrPadded(t, text, erase, x, col, Blank(s))
    BY <1>1, InsertedIs
  <2> HIDE DEF t
  <2> QED
    BY <2>1, <2>2, ShiftFine
<1> QED
  BY <1>2, <1>3

(* Steps that make all they change dirty.                                  *)
LEMMA WholeFine ==
    ASSUME TypeOK, NEW t \in Seq(Cells), NEW e \in Erased,
           NEW d, IsInterval(d), \A col \in Columns : Within(d, col),
           Becomes(t, e, x, visible, d)
    PROVE  Fine
<1>1. visible \in BOOLEAN /\ x \in -1 .. Width - 1
  BY DEF TypeOK
<1>2. TypeOK'
  BY <1>1, BecomesTyped
<1>3. Contains(d, Dirty)
  BY DEF Contains
<1>4. Covered => Covered'
  BY <1>1, <1>3, BecomesCovered
<1> QED
  BY <1>2, <1>4 DEF Fine

LEMMA ClearFine == ASSUME TypeOK, NEW s \in Styles, bufrow_clear(s) PROVE Fine
<1> DEFINE d == dirty_taint(Dirty, 0, Width)
<1>1. Becomes(<<>>, Blank(s), x, visible, d)
  BY DEF bufrow_clear
<1>2. IsInterval(Dirty) /\ 0 \in Int /\ Width \in Int
  BY DirtyIs, WidthIs
<1>3. IsInterval(d) /\ \A col \in Columns : 0 <= col /\ col < Width => Within(d, col)
  BY <1>2, TaintIs
<1> HIDE DEF d
<1>4. \A col \in Columns : Within(d, col)
  BY <1>3, ColumnIs
<1>5. <<>> \in Seq(Cells) /\ Blank(s) \in Erased
  BY EmptySeq DEF Erased
<1> QED
  BY <1>1, <1>3, <1>4, <1>5, WholeFine

LEMMA TaintRowFine == ASSUME TypeOK, dirty_taint_row PROVE Fine
<1> DEFINE d == [s |-> 0, e |-> Width]
<1>1. Becomes(text, erase, x, visible, d) /\ text \in Seq(Cells) /\ erase \in Erased
  BY DEF dirty_taint_row, TypeOK, Erased
<1>2. IsInterval(d) /\ \A col \in Columns : Within(d, col)
  BY WidthIs, ColumnIs DEF IsInterval, Within
<1> HIDE DEF d
<1> QED
  BY <1>1, <1>2, WholeFine

LEMMA CursorFine ==
    ASSUME TypeOK, NEW c \in -1 .. Width - 1, MoveCursor(c) PROVE Fine
<1> DEFINE d == be_move_cursor(Dirty, c)
<1>1. Becomes(text, erase, c, visible, d) /\ c # x
  BY DEF MoveCursor
<1>2. visible \in BOOLEAN /\ text \in Seq(Cells) /\ erase \in Erased
  BY DEF TypeOK, Erased
<1>3. IsInterval(d) /\ Contains(d, Dirty) /\ (x \in Columns => Within(d, x))
  BY <1>1, DirtyIs, MoveIs
<1> HIDE DEF d
<1>4. TypeOK'
  BY <1>1, <1>2, <1>3, BecomesTyped
<1>5. Covered => Covered'
  BY <1>1, <1>2, <1>3, BecomesCovered
<1> QED
  BY <1>4, <1>5 DEF Fine

LEMMA ShowFine == ASSUME TypeOK, NEW on \in BOOLEAN, ShowCursor(on) PROVE Fine
<1>1. Becomes(text, erase, x, on, Dirty)
  BY DEF ShowCursor
<1>2. visible \in BOOLEAN /\ text \in Seq(Cells) /\ erase \in Erased
      /\ x \in -1 .. Width - 1
  BY DEF TypeOK, Erased
<1>3. IsInterval(Dirty) /\ Contains(Dirty, Dirty)
  BY DirtyIs DEF Contains
<1>4. TypeOK'
  BY <1>1, <1>2, <1>3, BecomesTyped
<1>5. visible' = on
  BY <1>1 DEF Becomes
<1>6. CASE visible /\ ~on
  BY <1>4, <1>5, <1>6 DEF Fine, HidesCursor
<1>7. CASE ~visible \/ on
  <2>1. Covered => Covered'
    BY <1>1, <1>2, <1>3, <1>7, BecomesCovered
  <2> QED
    BY <1>4, <2>1 DEF Fine
<1> QED
  BY <1>6, <1>7

LEMMA RedrawFine ==
    ASSUME TypeOK, NEW c \in Columns, NEW width \in 1 .. Width - c,
           NEW force \in BOOLEAN, viewport_request_redraw(c, width, force)
    PROVE  Fine
<1> DEFINE from == IF force THEN c ELSE int_max(c, start)
           to == IF force THEN c + width ELSE int_min(c + width, end)
           d == dirty_cleanse(Dirty, from, to)
<1>1. /\ start' = d.s /\ end' = d.e /\ UNCHANGED <<text, erase, x, visible>>
      /\ stale' \subseteq stale
      /\ \A col \in stale' : ~(from <= col /\ col < to)
  BY DEF viewport_request_redraw
<1>2. from \in Int /\ to \in Int /\ from >= 0
  BY WidthIs, ColumnIs DEF TypeOK, int_min, int_max
<1> HIDE DEF from, to
<1>3. /\ IsInterval(d)
      /\ \A col \in Columns : Within(Dirty, col) /\ ~(from <= col /\ col < to)
           => Within(d, col)
  BY <1>2, DirtyIs, CleanseIs
<1> HIDE DEF d
<1>4. TypeOK'
  <2>1. start' \in Nat /\ end' \in 0 .. Width
        /\ (start' < end' \/ (start' = 0 /\ end' = 0))
    BY <1>1, <1>3, WidthIs DEF IsInterval
  <2> QED
    BY <1>1, <2>1 DEF TypeOK
<1>5. ASSUME Covered PROVE Covered'
  <2>1. ASSUME NEW col \in stale', ~(visible /\ col = x)
        PROVE  col \in d.s .. d.e - 1
    <3>1. col \in Columns /\ col \in start .. end - 1
      BY <1>1, <1>5, <2>1 DEF TypeOK, Covered
    <3>2. Within(d, col)
      BY <1>1, <1>3, <2>1, <3>1, DirtyIs
    <3> QED
      BY <1>3, <3>1, <3>2, ColumnIs DEF Within, IsInterval
  <2> QED
    BY <1>1, <2>1 DEF Covered
<1> QED
  BY <1>4, <1>5 DEF Fine

LEMMA NextFine == ASSUME TypeOK, [Next]_vars PROVE Fine
<1>1. CASE OnCursorRow
  <2>1. x >= 0
    BY <1>1 DEF OnCursorRow
  <2>2. CASE \E len \in 1 .. Width + 1, insert \in BOOLEAN, cell \in Cells :
               be_input_wrapping(len, insert, cell) \/ be_input_clipped(len, insert, cell)
    BY <2>1, <2>2, WrappingFine, ClippedFine
  <2>3. CASE \E n \in 1 .. Width - x, s \in Styles :
               ac_delete_char(n, s) \/ ac_insert_char(n, s)
    BY <2>1, <2>3, CharsFine
  <2> QED
    BY <1>1, <2>2, <2>3 DEF OnCursorRow
<1>2. CASE \E s \in Styles : Erase(s) \/ bufrow_clear(s)
  BY <1>2, EraseFine, ClearFine
<1>3. CASE \E c \in -1 .. Width - 1 : MoveCursor(c)
  BY <1>3, CursorFine
<1>4. CASE \E on \in BOOLEAN : ShowCursor(on)
  BY <1>4, ShowFine
<1>5. CASE dirty_taint_row
  BY <1>5, TaintRowFine
<1>6. CASE \E c \in Columns, force \in BOOLEAN : \E width \in 1 .. Width - c :
             viewport_request_redraw(c, width, force)
  BY <1>6, RedrawFine
<1>7. CASE UNCHANGED vars
  BY <1>7 DEF vars, TypeOK, Covered, Columns, Cells, Fine
<1> QED
  BY <1>1, <1>2, <1>3, <1>4, <1>5, <1>6, <1>7 DEF Next

-----------------------------------------------------------------------------
(* The theorems.                                                           *)

(* The used cells are cells, the cursor is on the row or on none of it,    *)
(* and the dirty columns are an interval of the row, kept as 0 .. 0 when   *)
(* there are none, whatever the program sends and the window redraws.      *)
THEOREM RowTyped == Spec => []TypeOK
<1>1. Init => TypeOK
  BY WidthIs, EmptySeq DEF Init, TypeOK, Columns
<1>2. TypeOK /\ [Next]_vars => TypeOK'
  BY NextFine DEF Fine
<1> QED
  BY <1>1, <1>2, PTL DEF Spec

(* For every width, rendition and state of the row: what a step leaves to  *)
(* look different it makes dirty, so that no redraw misses it, but for the *)
(* three exceptions StaysCovered names.                                    *)
THEOREM ChangesAreDirty == Spec => StaysCovered
<1>1. TypeOK /\ [Next]_vars =>
        (Covered => Covered' \/ HidesCursor \/ PadsInColour \/ ReplacesUnseen)
  BY NextFine DEF Fine
<1> QED
  BY <1>1, RowTyped, PTL DEF Spec, StaysCovered

(* A redraw of the whole row, forced or not, leaves nothing to look        *)
(* different from what is drawn, for every width and wherever the dirty    *)
(* columns and the cursor are.                                             *)
THEOREM RedrawsRestore == Spec => RedrawRestores
<1>1. ASSUME TypeOK, NEW force \in BOOLEAN, Covered,
             viewport_request_redraw(0, Width, force)
      PROVE  stale' = {}
  <2> SUFFICES ASSUME NEW col \in stale' PROVE FALSE
    OBVIOUS
  <2> DEFINE from == IF force THEN 0 ELSE int_max(0, start)
             to == IF force THEN 0 + Width ELSE int_min(0 + Width, end)
  <2>1. col \in stale /\ ~(from <= col /\ col < to)
        /\ ~(visible /\ col = x /\ (force \/ (0 <= col /\ col < 0 + Width)))
    BY <1>1 DEF viewport_request_redraw
  <2>2. col \in Nat /\ col < Width /\ start \in Nat /\ end \in Nat /\ end <= Width
        /\ Width \in Nat
    BY <1>1, <2>1, ColumnIs, WidthIs DEF TypeOK
  <2>3. col \in start .. end - 1
    BY <1>1, <2>1, <2>2 DEF Covered
  <2>4. from <= col /\ col < to
    BY <2>2, <2>3 DEF int_min, int_max
  <2> QED
    BY <2>1, <2>4
<1>2. TypeOK /\ [Next]_vars =>
        \A force \in BOOLEAN :
            (Covered /\ viewport_request_redraw(0, Width, force)) => stale' = {}
  BY <1>1
<1> QED
  BY <1>2, RowTyped, PTL DEF Spec, RedrawRestores

(* ICH and DCH by any number of characters, at any column of a row of any  *)
(* width, and wherever its used cells end, move the cells after the        *)
(* cursor, leave the used ones before it alone, and pad up to the cursor   *)
(* when they write to the right of the used cells.                         *)
THEOREM EditsAlwaysMove == Spec => []EditsMove
<1>1. ASSUME TypeOK PROVE EditsMove
  <2> SUFFICES ASSUME x >= 0, NEW n \in 1 .. Width - x, NEW s \in Styles,
                      NEW c \in Columns
               PROVE  LET now == Look(text, erase, c)
                          padded == IF c < Len(text) THEN now ELSE Blank(s)
                          inserted == Look(Inserted(n, s), erase, c)
                          deleted == Look(Deleted(n, s), erase, c)
                      IN  IF c < x
                          THEN /\ inserted = padded
                               /\ deleted = IF n < Width - x THEN now ELSE padded
                          ELSE /\ inserted = IF c < x + n THEN Blank(s)
                                             ELSE Look(text, erase, c - n)
                               /\ deleted =
                                    IF c + n < Width THEN Look(text, erase, c + n)
                                    ELSE IF n < Width - x
                                         THEN Blank(Cleared[erase.style])
                                    ELSE Blank(s)
    BY DEF EditsMove
  <2>1. x \in Columns /\ x \in Nat /\ c \in Nat /\ n \in Nat /\ Width \in Nat
        /\ Len(text) \in Nat
    BY <1>1, ColumnIs, WidthIs, LenProperties DEF TypeOK, Columns
  <2>2. CASE c < x
    <3>1. Look(Inserted(n, s), erase, c)
            = IF c < Len(text) THEN Look(text, erase, c) ELSE Blank(s)
      BY <1>1, <2>1, <2>2, InsertedIs
    <3>2. Look(Deleted(n, s), erase, c)
            = IF n < Width - x \/ c < Len(text)
              THEN Look(text, erase, c) ELSE Blank(s)
      BY <1>1, <2>1, <2>2, DeletedIs
    <3> QED
      BY <2>2, <3>1, <3>2
  <2>3. CASE ~(c < x)
    <3>1. /\ c < x + n => Look(Inserted(n, s), erase, c) = Blank(s)
          /\ c >= x + n => Look(Inserted(n, s), erase, c) = Look(text, erase, c - n)
      BY <1>1, <2>1, <2>3, InsertedIs
    <3>2. /\ c + n < Width => Look(Deleted(n, s), erase, c) = Look(text, erase, c + n)
          /\ c + n >= Width => Look(Deleted(n, s), erase, c)
                = IF n < Width - x THEN Blank(Cleared[erase.style]) ELSE Blank(s)
      BY <1>1, <2>1, <2>3, DeletedIs
    <3>3. (c < x + n \/ c >= x + n) /\ (c + n < Width \/ c + n >= Width)
          /\ ~(c < x + n /\ c >= x + n)
      BY <2>1
    <3> QED
      BY <2>3, <3>1, <3>2, <3>3
  <2> QED
    BY <2>2, <2>3
<1> QED
  BY <1>1, RowTyped, PTL
=============================================================================
