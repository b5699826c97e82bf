--------------------------- MODULE RenditionProofs ---------------------------
(***************************************************************************)
(* Theorems about Rendition for every size of the palette and every list   *)
(* of parameters, however long.                                            *)
(***************************************************************************)
EXTENDS Rendition, TLAPS, WellFoundedInduction

(* Induction, of a set: the theorems of NaturalsInduction have an operator *)
(* for a parameter.                                                        *)
LEMMA UpTo ==
    ASSUME NEW S, 0 \in S, \A n \in Nat : n \in S => n + 1 \in S
    PROVE  Nat \subseteq S
<1> SUFFICES ASSUME NEW k \in Nat \ S PROVE FALSE
  OBVIOUS
<1> DEFINE T == Nat \ S
<1>1. T \subseteq Nat /\ k \in T /\ T # {}
  OBVIOUS
<1>2. PICK m \in T : \A j \in T : ~(<<j, m>> \in OpToRel(<, Nat))
  <2> HIDE DEF T
  <2> QED
    BY <1>1, WFMin, NatLessThanWellFounded
<1>3. \A j \in T : ~(j < m)
  BY <1>2 DEF OpToRel
<1>4. m # 0 /\ m \in Nat /\ m - 1 \in Nat
  OBVIOUS
<1>5. m - 1 \in S
  BY <1>3, <1>4
<1> QED
  BY <1>4, <1>5

-----------------------------------------------------------------------------
(* Going through the parameters.                                           *)

(* What Sgr makes of parameter n after those before it, which h has.       *)
Pass(ps, l, h, n) ==
    IF n = 0 THEN [look |-> l, skip |-> 0]
    ELSE IF h[n - 1].skip > 0 THEN [h[n - 1] EXCEPT !.skip = @ - 1]
    ELSE IF IsExtended(ps, n)
      THEN [look |-> Extended(ps[n], ps[n + 2], h[n - 1].look), skip |-> 2]
    ELSE [look |-> Simple(ps[n], h[n - 1].look), skip |-> 0]

Passes(ps, l, m, h) == h = [n \in 0 .. m |-> Pass(ps, l, h, n)]

LEMMA PassesAre ==
    ASSUME NEW ps, NEW l, NEW m \in Nat, NEW h, Passes(ps, l, m, h)
    PROVE  \A n \in 0 .. m : h[n] = Pass(ps, l, h, n)
BY DEF Passes

(* A pass looks at the one before it only.                                 *)
LEMMA PassLooksBack ==
    ASSUME NEW ps, NEW l, NEW n \in Nat, NEW h, NEW k,
           n # 0 => h[n - 1] = k[n - 1]
    PROVE  Pass(ps, l, h, n) = Pass(ps, l, k, n)
BY DEF Pass

LEMMA OneMorePass ==
    ASSUME NEW ps, NEW l, NEW m \in Nat, \E h : Passes(ps, l, m, h)
    PROVE  \E h : Passes(ps, l, m + 1, h)
<1>1. PICK h : Passes(ps, l, m, h)
  OBVIOUS
<1> DEFINE k == [n \in 0 .. m + 1 |-> IF n <= m THEN h[n] ELSE Pass(ps, l, h, n)]
<1>2. \A n \in 0 .. m : k[n] = h[n]
  OBVIOUS
<1>3. ASSUME NEW n \in 0 .. m + 1 PROVE k[n] = Pass(ps, l, k, n)
  <2>1. Pass(ps, l, k, n) = Pass(ps, l, h, n)
    <3>1. n \in Nat /\ (n # 0 => n - 1 \in 0 .. m)
      OBVIOUS
    <3>2. n # 0 => k[n - 1] = h[n - 1]
      BY <1>2, <3>1
    <3> HIDE DEF k
    <3> QED
      BY <3>1, <3>2, PassLooksBack
  <2>2. n \in 0 .. m => h[n] = Pass(ps, l, h, n)
    BY <1>1, PassesAre
  <2> QED
    BY <2>1, <2>2
<1>4. k = [n \in 0 .. m + 1 |-> Pass(ps, l, k, n)]
  <2>1. k = [n \in 0 .. m + 1 |-> k[n]]
    OBVIOUS
  <2> HIDE DEF k
  <2> QED
    BY <1>3, <2>1
<1> HIDE DEF k
<1> QED
  BY <1>4 DEF Passes

LEMMA PassesExist ==
    ASSUME NEW ps, NEW l, NEW m \in Nat PROVE \E h : Passes(ps, l, m, h)
<1> DEFINE S == {n \in Nat : \E h : Passes(ps, l, n, h)}
<1>1. 0 \in S
  <2> DEFINE h == [n \in 0 .. 0 |-> [look |-> l, skip |-> 0]]
  <2>1. \A n \in 0 .. 0 : Pass(ps, l, h, n) = [look |-> l, skip |-> 0]
    BY DEF Pass
  <2>2. Passes(ps, l, 0, h)
    BY <2>1 DEF Passes
  <2> QED
    BY <2>2
<1>2. \A n \in Nat : n \in S => n + 1 \in S
  BY OneMorePass
<1>3. Nat \subseteq S
  <2> HIDE DEF S
  <2> QED
    BY <1>1, <1>2, UpTo
<1> QED
  BY <1>3

(* Sgr ends with the last pass.                                            *)
LEMMA SgrPasses ==
    ASSUME NEW ps \in Seq(Nat), NEW l, ps # <<>>
    PROVE  \E h : Passes(ps, l, Len(ps), h) /\ Sgr(ps, l) = h[Len(ps)].look
<1> DEFINE h == CHOOSE f : f = [n \in 0 .. Len(ps) |-> Pass(ps, l, f, n)]
<1>1. \E f : Passes(ps, l, Len(ps), f)
  <2>1. Len(ps) \in Nat
    OBVIOUS
  <2> QED
    BY <2>1, PassesExist
<1>2. Passes(ps, l, Len(ps), h)
  BY <1>1, Zenon DEF Passes
<1>3. Sgr(ps, l) = h[Len(ps)].look
  BY Zenon DEF Sgr, Pass
<1> QED
  BY <1>2, <1>3

(* What holds before the first pass and is kept by each holds after Sgr,   *)
(* of the look and the parameters still to be skipped.                     *)
LEMMA EachPass ==
    ASSUME NEW ps, NEW l, NEW m \in Nat, NEW h, Passes(ps, l, m, h),
           NEW Good, [look |-> l, skip |-> 0] \in Good,
           \A n \in 1 .. m : h[n - 1] \in Good => Pass(ps, l, h, n) \in Good
    PROVE  \A n \in 0 .. m : h[n] \in Good
<1> DEFINE S == {n \in Nat : n <= m => h[n] \in Good}
<1>1. \A n \in 0 .. m : h[n] = Pass(ps, l, h, n)
  BY PassesAre
<1>2. 0 \in S
  <2>1. h[0] = [look |-> l, skip |-> 0]
    <3>1. h[0] = Pass(ps, l, h, 0)
      BY <1>1
    <3> QED
      BY <3>1 DEF Pass
  <2> QED
    BY <2>1
<1>3. ASSUME NEW n \in Nat, n \in S PROVE n + 1 \in S
  <2> SUFFICES ASSUME n + 1 <= m PROVE h[n + 1] \in Good
    OBVIOUS
  <2>1. n + 1 \in 1 .. m /\ n + 1 \in 0 .. m /\ (n + 1) - 1 = n /\ h[n] \in Good
    BY <1>3
  <2> HIDE DEF S
  <2> QED
    BY <1>1, <2>1
<1>4. Nat \subseteq S
  <2> HIDE DEF S
  <2> QED
    BY <1>2, <1>3, UpTo
<1> QED
  BY <1>4

-----------------------------------------------------------------------------
(* Colours of the palette.                                                 *)

Attributes == {"bold", "underline", "blink", "inverse"}
Looks == [attributes : SUBSET Attributes, fg : Colors, bg : Colors]

LEMMA ColorsAre ==
    /\ TE_COLOR_MODE \in Nat /\ TE_COLOR_MODE >= 16
    /\ TE_COLOR_ANSI = 6 /\ TE_COLOR_TEXT_FG = 0 /\ TE_COLOR_TEXT_BG = 1
    /\ Colors = 0 .. 5 + TE_COLOR_MODE
BY ColorAssumption DEF Colors, TE_COLOR_ANSI, TE_COLOR_TEXT_FG, TE_COLOR_TEXT_BG

LEMMA PlainIsLook == PlainLook \in Looks
BY ColorsAre DEF PlainLook, Looks

(* 8 or 10 colours, the last one for what is too much.                     *)
LEMMA BrightColors ==
    ASSUME NEW p \in Nat
    PROVE  Bright(p % 10) \in Colors /\ 8 + Bright(p % 10) \in Colors
<1>1. p % 10 \in 0 .. 9
  OBVIOUS
<1> DEFINE d == p % 10
<1> HIDE DEF d
<1>2. Bright(d) \in 6 .. 13
  BY <1>1, ColorsAre DEF Bright, int_min, d
<1> QED
  BY <1>2, ColorsAre DEF d

(* One parameter, case by case.                                            *)
LEMMA SimpleIs ==
    ASSUME NEW p \in Nat, NEW l
    PROVE  /\ p = 0 => Simple(p, l) = PlainLook
           /\ p \in {1, 4, 5, 7} =>
                Simple(p, l) = [l EXCEPT !.attributes = l.attributes \union {Sets[p]}]
           /\ p = 22 => Simple(p, l) = [l EXCEPT !.attributes = l.attributes \ {"bold"}]
           /\ p \in {24, 25, 27} =>
                Simple(p, l) = [l EXCEPT !.attributes = l.attributes \ {Sets[p - 20]}]
           /\ p \in 30 .. 37 => Simple(p, l) = [l EXCEPT !.fg = Bright(p % 10)]
           /\ p = 39 => Simple(p, l) = [l EXCEPT !.fg = TE_COLOR_TEXT_FG]
           /\ p \in 40 .. 47 => Simple(p, l) = [l EXCEPT !.bg = Bright(p % 10)]
           /\ p = 49 => Simple(p, l) = [l EXCEPT !.bg = TE_COLOR_TEXT_BG]
           /\ p \in 90 .. 99 => Simple(p, l) = [l EXCEPT !.fg = 8 + Bright(p % 10)]
           /\ p \in 100 .. 109 => Simple(p, l) = [l EXCEPT !.bg = 8 + Bright(p % 10)]
           /\ (/\ p \notin {0, 1, 4, 5, 7, 22, 24, 25, 27, 39, 49}
               /\ p \notin 30 .. 37 /\ p \notin 40 .. 47
               /\ p \notin 90 .. 99 /\ p \notin 100 .. 109) => Simple(p, l) = l
<1>1. p = 0 => Simple(p, l) = PlainLook
  BY DEF Simple
<1>2. p \in {1, 4, 5, 7} =>
        Simple(p, l) = [l EXCEPT !.attributes = l.attributes \union {Sets[p]}]
  BY DEF Simple
<1>3. p = 22 => Simple(p, l) = [l EXCEPT !.attributes = l.attributes \ {"bold"}]
  BY DEF Simple
<1>4. p \in {24, 25, 27} =>
        Simple(p, l) = [l EXCEPT !.attributes = l.attributes \ {Sets[p - 20]}]
  BY DEF Simple
<1>5. p \in 30 .. 37 => Simple(p, l) = [l EXCEPT !.fg = Bright(p % 10)]
  BY DEF Simple
<1>6. p = 39 => Simple(p, l) = [l EXCEPT !.fg = TE_COLOR_TEXT_FG]
  BY DEF Simple
<1>7. p \in 40 .. 47 => Simple(p, l) = [l EXCEPT !.bg = Bright(p % 10)]
  BY DEF Simple
<1>8. p = 49 => Simple(p, l) = [l EXCEPT !.bg = TE_COLOR_TEXT_BG]
  BY DEF Simple
<1>9. p \in 90 .. 99 => Simple(p, l) = [l EXCEPT !.fg = 8 + Bright(p % 10)]
  BY DEF Simple
<1>10. p \in 100 .. 109 => Simple(p, l) = [l EXCEPT !.bg = 8 + Bright(p % 10)]
  BY DEF Simple
<1>11. (/\ p \notin {0, 1, 4, 5, 7, 22, 24, 25, 27, 39, 49}
        /\ p \notin 30 .. 37 /\ p \notin 40 .. 47
        /\ p \notin 90 .. 99 /\ p \notin 100 .. 109) => Simple(p, l) = l
  BY DEF Simple
<1> QED
  BY <1>1, <1>2, <1>3, <1>4, <1>5, <1>6, <1>7, <1>8, <1>9, <1>10, <1>11

LEMMA SimpleLook ==
    ASSUME NEW p \in Nat, NEW l \in Looks PROVE Simple(p, l) \in Looks
<1>1. Sets[1] = "bold" /\ Sets[4] = "underline" /\ Sets[5] = "blink"
      /\ Sets[7] = "inverse"
  BY DEF Sets
<1>2. \A n \in {1, 4, 5, 7} : Sets[n] \in Attributes
  BY <1>1 DEF Attributes
<1>3. ASSUME NEW s \in SUBSET Attributes
      PROVE  [l EXCEPT !.attributes = s] \in Looks
  BY DEF Looks
<1>4. ASSUME NEW c \in Colors
      PROVE  [l EXCEPT !.fg = c] \in Looks /\ [l EXCEPT !.bg = c] \in Looks
  BY DEF Looks
<1>5. l.attributes \in SUBSET Attributes
  BY DEF Looks
<1>6. CASE p \in {1, 4, 5, 7}
  <2>1. Simple(p, l) = [l EXCEPT !.attributes = l.attributes \union {Sets[p]}]
    BY <1>6, SimpleIs
  <2>2. l.attributes \union {Sets[p]} \in SUBSET Attributes
    BY <1>2, <1>5, <1>6
  <2> QED
    BY <1>3, <2>1, <2>2
<1>7. CASE p \in {22, 24, 25, 27}
  <2>1. \/ Simple(p, l) = [l EXCEPT !.attributes = l.attributes \ {"bold"}]
        \/ Simple(p, l) = [l EXCEPT !.attributes = l.attributes \ {Sets[p - 20]}]
    BY <1>7, SimpleIs
  <2>2. \A a : l.attributes \ {a} \in SUBSET Attributes
    BY <1>5
  <2>3. \A a : [l EXCEPT !.attributes = l.attributes \ {a}] \in Looks
    BY <1>3, <2>2
  <2> QED
    BY <2>1, <2>3
<1>8. CASE p \in 30 .. 37 \/ p = 39 \/ p \in 90 .. 99
  <2>1. \/ Simple(p, l) = [l EXCEPT !.fg = Bright(p % 10)]
        \/ Simple(p, l) = [l EXCEPT !.fg = 8 + Bright(p % 10)]
        \/ Simple(p, l) = [l EXCEPT !.fg = TE_COLOR_TEXT_FG]
    BY <1>8, SimpleIs
  <2>2. TE_COLOR_TEXT_FG \in Colors
    BY ColorsAre
  <2> QED
    BY <1>4, <2>1, <2>2, BrightColors
<1>9. CASE p \in 40 .. 47 \/ p = 49 \/ p \in 100 .. 109
  <2>1. \/ Simple(p, l) = [l EXCEPT !.bg = Bright(p % 10)]
        \/ Simple(p, l) = [l EXCEPT !.bg = 8 + Bright(p % 10)]
        \/ Simple(p, l) = [l EXCEPT !.bg = TE_COLOR_TEXT_BG]
    BY <1>9, SimpleIs
  <2>2. TE_COLOR_TEXT_BG \in Colors
    BY ColorsAre
  <2> QED
    BY <1>4, <2>1, <2>2, BrightColors
<1>10. CASE /\ p \notin {1, 4, 5, 7} /\ p \notin {22, 24, 25, 27}
            /\ ~(p \in 30 .. 37 \/ p = 39 \/ p \in 90 .. 99)
            /\ ~(p \in 40 .. 47 \/ p = 49 \/ p \in 100 .. 109)
  <2>1. Simple(p, l) = IF p = 0 THEN PlainLook ELSE l
    BY <1>10, SimpleIs
  <2> QED
    BY <2>1, PlainIsLook
<1> QED
  BY <1>6, <1>7, <1>8, <1>9, <1>10

LEMMA ExtendedLook ==
    ASSUME NEW p, NEW n \in Nat, NEW l \in Looks PROVE Extended(p, n, l) \in Looks
<1>1. CASE n >= TE_COLOR_MODE
  BY <1>1 DEF Extended
<1>2. CASE ~(n >= TE_COLOR_MODE)
  <2>1. TE_COLOR_ANSI + n \in Colors
    BY <1>2, ColorsAre
  <2>2. \/ Extended(p, n, l) = [l EXCEPT !.fg = TE_COLOR_ANSI + n]
        \/ Extended(p, n, l) = [l EXCEPT !.bg = TE_COLOR_ANSI + n]
    BY <1>2 DEF Extended
  <2> QED
    BY <2>1, <2>2 DEF Looks
<1> QED
  BY <1>1, <1>2

LEMMA SkipTo ==
    ASSUME NEW r \in [look : Looks, skip : Nat], NEW k
    PROVE  [r EXCEPT !.skip = k] = [look |-> r.look, skip |-> k]
OBVIOUS

(* Every pass has a look and a number of parameters to be skipped.         *)
LEMMA PassLooks ==
    ASSUME NEW ps \in Seq(Nat), NEW l \in Looks, NEW h, Passes(ps, l, Len(ps), h)
    PROVE  \A n \in 0 .. Len(ps) : h[n] \in [look : Looks, skip : Nat]
<1> DEFINE m == Len(ps)
           Good == [look : Looks, skip : Nat]
<1>1. m \in Nat /\ \A n \in 1 .. m : ps[n] \in Nat
  OBVIOUS
<1>2. [look |-> l, skip |-> 0] \in Good
  OBVIOUS
<1>3. ASSUME NEW n \in 1 .. m, h[n - 1] \in Good
      PROVE  Pass(ps, l, h, n) \in Good
  <2> DEFINE b == h[n - 1]
  <2>1. b.look \in Looks /\ b.skip \in Nat
    BY <1>3
  <2>2. n # 0 /\ ps[n] \in Nat /\ n \in Nat
    BY <1>1
  <2>3. CASE b.skip > 0
    <3>1. Pass(ps, l, h, n) = [b EXCEPT !.skip = b.skip - 1]
      BY <2>2, <2>3 DEF Pass
    <3>2. b.skip - 1 \in Nat
      BY <2>1, <2>3
    <3>3. [b EXCEPT !.skip = b.skip - 1] = [look |-> b.look, skip |-> b.skip - 1]
      BY <1>3, SkipTo
    <3> QED
      BY <2>1, <3>1, <3>2, <3>3
  <2>4. CASE ~(b.skip > 0) /\ IsExtended(ps, n)
    <3>1. Pass(ps, l, h, n) = [look |-> Extended(ps[n], ps[n + 2], b.look), skip |-> 2]
      BY <2>2, <2>4 DEF Pass
    <3>2. ps[n + 2] \in Nat
      <4>1. n + 2 \in 1 .. m
        BY <1>1, <2>2, <2>4 DEF IsExtended
      <4> QED
        BY <1>1, <4>1
    <3>3. Extended(ps[n], ps[n + 2], b.look) \in Looks
      BY <2>1, <3>2, ExtendedLook
    <3> QED
      BY <3>1, <3>3
  <2>5. CASE ~(b.skip > 0) /\ ~IsExtended(ps, n)
    <3>1. Pass(ps, l, h, n) = [look |-> Simple(ps[n], b.look), skip |-> 0]
      BY <2>2, <2>5 DEF Pass
    <3>2. Simple(ps[n], b.look) \in Looks
      BY <2>1, <2>2, SimpleLook
    <3> QED
      BY <3>1, <3>2
  <2> QED
    BY <2>3, <2>4, <2>5
<1>4. Passes(ps, l, m, h)
  OBVIOUS
<1> HIDE DEF Good, m
<1>5. \A n \in 0 .. m : h[n] \in Good
  BY <1>1, <1>2, <1>3, <1>4, EachPass
<1> QED
  BY <1>5 DEF Good, m

LEMMA SgrLook ==
    ASSUME NEW ps \in Seq(Nat), NEW l \in Looks PROVE Sgr(ps, l) \in Looks
<1>1. CASE ps = <<>>
  BY <1>1, PlainIsLook DEF Sgr
<1>2. CASE ps # <<>>
  <2>1. PICK h : Passes(ps, l, Len(ps), h) /\ Sgr(ps, l) = h[Len(ps)].look
    BY <1>2, SgrPasses
  <2>2. h[Len(ps)] \in [look : Looks, skip : Nat]
    <3>1. Len(ps) \in 0 .. Len(ps)
      OBVIOUS
    <3> QED
      BY <2>1, <3>1, PassLooks
  <2> QED
    BY <2>1, <2>2
<1> QED
  BY <1>1, <1>2

-----------------------------------------------------------------------------
(* What every step keeps.                                                  *)

RInv ==
    /\ look \in Looks /\ charset \in {0, 1} /\ g \in [{0, 1} -> Charsets]
    /\ stored \in [look : Looks, charset : {0, 1}, g : [{0, 1} -> Charsets]]
    /\ reverse \in BOOLEAN /\ swapped \in BOOLEAN

LEMMA InitKeeps == Init => RInv
<1> SUFFICES ASSUME Init PROVE RInv
  OBVIOUS
<1>1. look \in Looks /\ charset \in {0, 1} /\ reverse \in BOOLEAN /\ swapped \in BOOLEAN
  BY PlainIsLook DEF Init
<1>2. g \in [{0, 1} -> Charsets]
  BY DEF Init, Charsets
<1>3. stored \in [look : Looks, charset : {0, 1}, g : [{0, 1} -> Charsets]]
  BY <1>1, <1>2 DEF Init, Saved
<1> QED
  BY <1>1, <1>2, <1>3 DEF RInv

LEMMA NextKeeps == RInv /\ [Next]_vars => RInv'
<1> SUFFICES ASSUME RInv, [Next]_vars PROVE RInv'
  OBVIOUS
<1>1. ASSUME NEW ps \in Requests, ac_char_attrs(ps) PROVE RInv'
  <2>1. look' \in Looks
    BY <1>1, SgrLook, ParamAssumption DEF ac_char_attrs, RInv
  <2> QED
    BY <1>1, <2>1 DEF ac_char_attrs, RInv
<1>2. ASSUME NEW n \in {0, 1}, ac_ls(n) PROVE RInv'
  BY <1>2 DEF ac_ls, RInv
<1>3. ASSUME NEW n \in {0, 1}, NEW set \in Charsets, ac_set_charset(n, set) PROVE RInv'
  BY <1>3 DEF ac_set_charset, RInv
<1>4. CASE ac_save_cursor \/ ac_restore_cursor
  BY <1>4 DEF ac_save_cursor, ac_restore_cursor, Saved, RInv
<1>5. ASSUME NEW enable \in BOOLEAN, ScreenMode(enable) PROVE RInv'
  BY <1>5 DEF ScreenMode, be_screen_mode, RInv
<1>6. CASE ac_reset
  BY <1>6, PlainIsLook DEF ac_reset, RInv
<1>7. CASE UNCHANGED vars
  BY <1>7 DEF vars, RInv
<1> QED
  BY <1>1, <1>2, <1>3, <1>4, <1>5, <1>6, <1>7 DEF Next

LEMMA AlwaysKept == Spec => []RInv
BY InitKeeps, NextKeeps, PTL DEF Spec

(* The state has its type, for every palette and whatever parameters come. *)
THEOREM RenditionTyped == Spec => []TypeOK
<1>1. RInv => TypeOK
  BY ColorsAre DEF RInv, TypeOK, Looks, Attributes
<1> QED
  BY <1>1, AlwaysKept, PTL

(* A cell is drawn in colours of the palette, also when it is bold.        *)
LEMMA DrawnColors ==
    ASSUME NEW l \in Looks PROVE Drawn(l).fg \in Colors /\ Drawn(l).bg \in Colors
<1>1. l.fg \in Colors /\ l.bg \in Colors
  BY DEF Looks
<1>2. l.fg \in TE_COLOR_ANSI .. TE_COLOR_ANSI + 7 => l.fg + 8 \in Colors
  BY ColorsAre
<1> QED
  BY <1>1, <1>2 DEF Drawn

LEMMA CursorLook == ASSUME NEW l \in Looks PROVE AtCursor(l) \in Looks
<1>1. l.attributes \in SUBSET Attributes
  BY DEF Looks
<1>2. /\ l.attributes \ {"inverse"} \in SUBSET Attributes
      /\ l.attributes \union {"inverse"} \in SUBSET Attributes
  BY <1>1 DEF Attributes
<1> QED
  BY <1>2 DEF AtCursor, Looks

(* No colour is looked up past the end of the palette, whichever and       *)
(* however many parameters SGR is given, for text and for the cursor on    *)
(* it, and whatever was saved before (ColoursInPalette).                   *)
THEOREM PaletteSuffices == Spec => []ColoursInPalette
<1>1. RInv => ColoursInPalette
  BY DrawnColors, CursorLook DEF RInv, ColoursInPalette
<1> QED
  BY <1>1, AlwaysKept, PTL

(* DECRC brings back how text is printed (SaveRestores).                   *)
THEOREM RestoredAsSaved == Spec => SaveRestores
<1>1. [Next]_vars =>
        [/\ stored' # stored =>
              Printed(stored.look, stored.g, stored.charset)' = Printed(look, g, charset)
         /\ ac_restore_cursor =>
              Printed(look, g, charset)' = Printed(stored.look, stored.g, stored.charset)]_vars
  <2> SUFFICES ASSUME Next
               PROVE  /\ stored' # stored =>
                           Printed(stored.look, stored.g, stored.charset)'
                             = Printed(look, g, charset)
                      /\ ac_restore_cursor =>
                           Printed(look, g, charset)'
                             = Printed(stored.look, stored.g, stored.charset)
    OBVIOUS
  <2>1. stored' # stored => ac_save_cursor
    BY DEF Next, ac_char_attrs, ac_ls, ac_set_charset, ac_restore_cursor, ScreenMode,
           ac_reset
  <2>2. ac_save_cursor =>
          stored'.look = look /\ stored'.g = g /\ stored'.charset = charset
    BY DEF ac_save_cursor, Saved
  <2>3. ac_restore_cursor =>
          look' = stored.look /\ g' = stored.g /\ charset' = stored.charset
    BY DEF ac_restore_cursor
  <2> QED
    BY <2>1, <2>2, <2>3 DEF Printed
<1> QED
  BY <1>1, PTL DEF Spec, SaveRestores

-----------------------------------------------------------------------------
(* Each attribute and colour is as its last item says.                     *)

(* The last of the values said is the one there is.                        *)
Largest(S) == CHOOSE n \in S : \A k \in S : k <= n

Updates(v, m, said, s) ==
    \A n \in 1 .. m : v[n] = IF n \in said THEN s[n] ELSE v[n - 1]

LEMMA LastCounts ==
    ASSUME NEW m \in Nat, NEW said \in SUBSET (1 .. m), NEW v, NEW s,
           Updates(v, m, said, s)
    PROVE  /\ v[m] = IF said = {} THEN v[0]
                     ELSE s[Largest(said)]
           /\ said # {} => Largest(said) \in said
<1> DEFINE Until(n) == \/ (\A k \in said : k > n) /\ v[n] = v[0]
                       \/ \E j \in said : /\ j <= n /\ v[n] = s[j]
                                          /\ \A k \in said : k <= n => k <= j
           S == {n \in Nat : n <= m => Until(n)}
<1>0. \A k \in said : k \in Nat /\ 0 < k /\ k <= m
  OBVIOUS
<1> USE DEF Updates
<1> HIDE DEF Until
<1>1. 0 \in S
  <2>1. Until(0)
    BY <1>0 DEF Until
  <2> QED
    BY <2>1
<1>2. ASSUME NEW n \in Nat, n + 1 <= m, Until(n) PROVE Until(n + 1)
  <2> USE DEF Until
  <2>1. n + 1 \in 1 .. m /\ (n + 1) - 1 = n /\ Until(n)
    BY <1>2
  <2>2. CASE n + 1 \in said
    <3>1. v[n + 1] = s[n + 1]
      BY <2>1, <2>2
    <3>2. \A k \in said : k <= n + 1 => k <= n + 1
      OBVIOUS
    <3> QED
      BY <2>2, <3>1, <3>2
  <2>3. CASE n + 1 \notin said
    <3>1. v[n + 1] = v[n]
      BY <2>1, <2>3
    <3>2. ASSUME NEW k \in said
          PROVE  (k > n => k > n + 1) /\ (k <= n + 1 => k <= n)
      <4>1. k \in Nat /\ k # n + 1
        BY <1>0, <2>3
      <4> QED
        BY <4>1
    <3>3. CASE (\A k \in said : k > n) /\ v[n] = v[0]
      BY <3>1, <3>2, <3>3
    <3>4. ASSUME NEW j \in said, j <= n, v[n] = s[j], \A k \in said : k <= n => k <= j
          PROVE  Until(n + 1)
      <4>1. j <= n + 1 /\ \A k \in said : k <= n + 1 => k <= j
        BY <1>0, <3>2, <3>4
      <4> QED
        BY <3>1, <3>4, <4>1
    <3> QED
      BY <2>1, <3>3, <3>4
  <2> QED
    BY <2>2, <2>3
<1>3. Until(m)
  <2>1. \A n \in Nat : n \in S => n + 1 \in S
    BY <1>2
  <2>2. Nat \subseteq S
    <3> HIDE DEF S
    <3> QED
      BY <1>1, <2>1, UpTo
  <2> QED
    BY <2>2
<1> USE DEF Until
<1>4. CASE (\A k \in said : k > m) /\ v[m] = v[0]
  <2>1. said = {}
    BY <1>0, <1>4
  <2> QED
    BY <1>4, <2>1
<1>5. ASSUME NEW j \in said, v[m] = s[j], \A k \in said : k <= m => k <= j
      PROVE  /\ v[m] = IF said = {} THEN v[0]
                       ELSE s[Largest(said)]
             /\ said # {} => Largest(said) \in said
  <2> DEFINE last == Largest(said)
  <2>1. \A k \in said : k <= j
    BY <1>0, <1>5
  <2>2. last \in said /\ \A k \in said : k <= last
    BY <2>1 DEF Largest
  <2> HIDE DEF last
  <2>3. last = j
    <3>1. last <= j /\ j <= last /\ last \in Nat /\ j \in Nat
      BY <1>0, <2>1, <2>2
    <3> QED
      BY <3>1
  <2> QED
    BY <1>5, <2>3 DEF last
<1> QED
  BY <1>3, <1>4, <1>5

(* Where the items of a list start.                                        *)
After(ps, n) == IF IsExtended(ps, n) THEN n + 3 ELSE n + 1
Starts(ps, F) ==
    /\ F \in SUBSET (1 .. Len(ps)) /\ 1 \in F
    /\ \A n \in F : /\ After(ps, n) <= Len(ps) => After(ps, n) \in F
                    /\ \A k \in n + 1 .. After(ps, n) - 1 : k \notin F

(* What a pass leaves to be skipped, and makes of the look.                *)
LEMMA PassIs ==
    ASSUME NEW ps \in Seq(Nat), NEW l \in Looks, NEW h, Passes(ps, l, Len(ps), h),
           NEW n \in 1 .. Len(ps)
    PROVE  h[n] = IF h[n - 1].skip > 0
                    THEN [look |-> h[n - 1].look, skip |-> h[n - 1].skip - 1]
                  ELSE IF IsExtended(ps, n)
                    THEN [look |-> Extended(ps[n], ps[n + 2], h[n - 1].look), skip |-> 2]
                  ELSE [look |-> Simple(ps[n], h[n - 1].look), skip |-> 0]
<1>1. Len(ps) \in Nat /\ n \in 0 .. Len(ps) /\ n - 1 \in 0 .. Len(ps) /\ n # 0
  OBVIOUS
<1>2. h[n] = Pass(ps, l, h, n)
  BY <1>1, PassesAre
<1> DEFINE b == h[n - 1]
<1>3. b \in [look : Looks, skip : Nat]
  BY <1>1, PassLooks
<1>4. [b EXCEPT !.skip = b.skip - 1] = [look |-> b.look, skip |-> b.skip - 1]
  BY <1>3, SkipTo
<1> QED
  BY <1>1, <1>2, <1>4 DEF Pass

LEMMA SkipIs ==
    ASSUME NEW ps \in Seq(Nat), NEW l \in Looks, NEW h, Passes(ps, l, Len(ps), h),
           NEW n \in 1 .. Len(ps)
    PROVE  h[n].skip = IF h[n - 1].skip > 0 THEN h[n - 1].skip - 1
                       ELSE IF IsExtended(ps, n) THEN 2 ELSE 0
<1>1. h[n] = IF h[n - 1].skip > 0
               THEN [look |-> h[n - 1].look, skip |-> h[n - 1].skip - 1]
             ELSE IF IsExtended(ps, n)
               THEN [look |-> Extended(ps[n], ps[n + 2], h[n - 1].look), skip |-> 2]
             ELSE [look |-> Simple(ps[n], h[n - 1].look), skip |-> 0]
  BY PassIs
<1> QED
  BY <1>1

(* Where no parameter is left to be skipped an item starts.                *)
LEMMA StartsUnskipped ==
    ASSUME NEW ps \in Seq(Nat), ps # <<>>, NEW l \in Looks, NEW h,
           Passes(ps, l, Len(ps), h), NEW F, Starts(ps, F)
    PROVE  \A n \in 1 .. Len(ps) : n \in F <=> h[n - 1].skip = 0
<1> DEFINE m == Len(ps)
           Pending(n) == \E j \in F : /\ IsExtended(ps, j) /\ j <= n
                                     /\ h[n].skip = j + 2 - n
           Right(n) == \/ h[n].skip = 0 /\ (n + 1 <= m => n + 1 \in F)
                       \/ h[n].skip > 0 /\ Pending(n)
           S == {n \in Nat : n <= m => Right(n)}
<1>1. m \in Nat \ {0}
  OBVIOUS
<1>2. \A n \in 0 .. m : h[n].skip \in Nat
  BY PassLooks
<1>3. \A n \in 1 .. m : h[n].skip = IF h[n - 1].skip > 0 THEN h[n - 1].skip - 1
                                     ELSE IF IsExtended(ps, n) THEN 2 ELSE 0
  BY SkipIs
<1>4. h[0].skip = 0
  <2>1. h[0] = Pass(ps, l, h, 0)
    BY <1>1, PassesAre
  <2> QED
    BY <2>1 DEF Pass
<1>5. \A n \in F : n \in 1 .. m
  BY DEF Starts
<1> HIDE DEF m
<1>6. ASSUME NEW n \in Nat, n + 1 <= m, Right(n) PROVE Right(n + 1)
  <2>1. n + 1 \in 1 .. m /\ (n + 1) - 1 = n /\ n \in 0 .. m
    BY <1>1, <1>6
  <2>2. CASE h[n].skip = 0 /\ n + 1 \in F /\ IsExtended(ps, n + 1)
    <3>1. h[n + 1].skip = 2
      BY <1>3, <2>1, <2>2
    <3>2. h[n + 1].skip = (n + 1) + 2 - (n + 1)
      BY <3>1
    <3> QED
      BY <2>2, <3>1, <3>2
  <2>3. CASE h[n].skip = 0 /\ n + 1 \in F /\ ~IsExtended(ps, n + 1)
    <3>1. h[n + 1].skip = 0
      BY <1>3, <2>1, <2>3
    <3>2. After(ps, n + 1) = (n + 1) + 1
      BY <2>3 DEF After
    <3> QED
      BY <2>3, <3>1, <3>2 DEF Starts, m
  <2>4. ASSUME h[n].skip > 0, NEW j \in F, IsExtended(ps, j), j <= n,
               h[n].skip = j + 2 - n
        PROVE  Right(n + 1)
    <3>1. j \in Nat /\ h[n + 1].skip = j + 2 - (n + 1)
      <4>1. j \in Nat
        BY <1>1, <1>5
      <4>2. h[n + 1].skip = h[n].skip - 1
        BY <1>3, <2>1, <2>4
      <4> QED
        BY <2>4, <4>1, <4>2
    <3>2. CASE h[n + 1].skip > 0
      <4>1. j <= n + 1
        BY <2>4, <3>1
      <4> QED
        BY <2>4, <3>1, <3>2, <4>1
    <3>3. CASE ~(h[n + 1].skip > 0)
      <4>1. h[n + 1].skip = 0 /\ (n + 1) + 1 = j + 3
        BY <1>2, <2>1, <2>4, <3>1, <3>3
      <4>2. After(ps, j) = j + 3
        BY <2>4 DEF After
      <4> QED
        BY <4>1, <4>2 DEF Starts, m
    <3> QED
      BY <3>2, <3>3
  <2> QED
    BY <1>6, <2>1, <2>2, <2>3, <2>4
<1>7. \A n \in 0 .. m : Right(n)
  <2>1. Right(0)
    BY <1>1, <1>4 DEF Starts
  <2> HIDE DEF Right
  <2>2. 0 \in S /\ \A n \in Nat : n \in S => n + 1 \in S
    BY <1>6, <2>1, <1>1
  <2>3. Nat \subseteq S
    <3> HIDE DEF S
    <3> QED
      BY <2>2, UpTo
  <2> QED
    BY <1>1, <2>3
<1>8. ASSUME NEW n \in 1 .. m PROVE n \in F <=> h[n - 1].skip = 0
  <2>1. n \in Nat /\ n - 1 \in 0 .. m /\ (n - 1) + 1 = n
    BY <1>1
  <2>2. Right(n - 1) /\ h[n - 1].skip \in Nat
    BY <1>2, <1>7, <2>1
  <2>3. CASE h[n - 1].skip = 0
    BY <2>1, <2>2, <2>3
  <2>4. CASE h[n - 1].skip > 0
    <3>1. PICK j \in F : IsExtended(ps, j) /\ j <= n - 1
                          /\ h[n - 1].skip = j + 2 - (n - 1)
      BY <2>2, <2>4
    <3>2. After(ps, j) = j + 3 /\ j \in Nat
      BY <1>5, <3>1 DEF After
    <3>3. n \in j + 1 .. After(ps, j) - 1
      BY <2>1, <2>4, <3>1, <3>2
    <3>4. n \notin F
      BY <3>3 DEF Starts
    <3> QED
      BY <2>4, <3>4
  <2> QED
    BY <2>2, <2>3, <2>4
<1> QED
  BY <1>8 DEF m

LEMMA FirstsStart ==
    ASSUME NEW ps \in Seq(Nat), ps # <<>>
    PROVE  Starts(ps, Firsts(ps))
<1> DEFINE m == Len(ps)
<1>1. m \in Nat \ {0}
  OBVIOUS
<1>2. PICK h : Passes(ps, PlainLook, m, h)
  BY <1>1, PassesExist
<1>3. \A n \in 0 .. m : h[n].skip \in Nat
  BY <1>2, PassLooks, PlainIsLook
<1>4. \A n \in 1 .. m : h[n].skip = IF h[n - 1].skip > 0 THEN h[n - 1].skip - 1
                                     ELSE IF IsExtended(ps, n) THEN 2 ELSE 0
  BY <1>2, SkipIs, PlainIsLook
<1>5. h[0].skip = 0
  <2>1. h[0] = Pass(ps, PlainLook, h, 0)
    BY <1>1, <1>2, PassesAre
  <2> QED
    BY <2>1 DEF Pass
<1>6. \A n \in 1 .. m : IsExtended(ps, n) => n + 2 <= m
  BY DEF IsExtended
<1> DEFINE F == {n \in 1 .. m : h[n - 1].skip = 0}
<1> HIDE DEF m
<1>7. 1 \in F
  BY <1>1, <1>5
<1>8. ASSUME NEW n \in F, IsExtended(ps, n)
      PROVE  n + 1 \notin F /\ n + 2 \notin F /\ (n + 3 <= m => n + 3 \in F)
  <2>1. n \in 1 .. m /\ h[n - 1].skip = 0 /\ n \in Nat
    BY <1>1
  <2>2. n + 2 <= m
    BY <1>6, <1>8, <2>1
  <2>3. h[n].skip = 2
    BY <1>4, <1>8, <2>1
  <2>4. n + 1 \in 1 .. m /\ (n + 1) - 1 = n /\ n + 2 \in 1 .. m /\ (n + 2) - 1 = n + 1
    BY <1>1, <2>1, <2>2
  <2>5. h[n + 1].skip = 1
    BY <1>4, <2>3, <2>4
  <2>6. h[n + 2].skip = 0
    BY <1>4, <2>4, <2>5
  <2>7. (n + 3) - 1 = n + 2
    BY <2>1
  <2> QED
    BY <1>1, <2>1, <2>3, <2>4, <2>5, <2>6, <2>7
<1>9. ASSUME NEW n \in F, ~IsExtended(ps, n)
      PROVE  n + 1 <= m => n + 1 \in F
  <2>1. n \in 1 .. m /\ h[n - 1].skip = 0 /\ n \in Nat /\ (n + 1) - 1 = n
    BY <1>1
  <2>2. h[n].skip = 0
    BY <1>4, <1>9, <2>1
  <2> QED
    BY <1>1, <2>1, <2>2
<1>10. ASSUME NEW n \in F
       PROVE  /\ After(ps, n) <= m => After(ps, n) \in F
              /\ \A k \in n + 1 .. After(ps, n) - 1 : k \notin F
  <2>1. n \in Nat
    BY <1>1
  <2> HIDE DEF F
  <2>2. CASE IsExtended(ps, n)
    <3>1. After(ps, n) = n + 3 /\ \A k \in n + 1 .. (n + 3) - 1 : k = n + 1 \/ k = n + 2
      BY <2>1, <2>2 DEF After
    <3> QED
      BY <1>8, <2>2, <3>1
  <2>3. CASE ~IsExtended(ps, n)
    <3>1. After(ps, n) = n + 1 /\ \A k : k \notin n + 1 .. (n + 1) - 1
      BY <2>1, <2>3 DEF After
    <3> QED
      BY <1>9, <2>3, <3>1
  <2> QED
    BY <2>2, <2>3
<1>11. F \in SUBSET (1 .. m)
  OBVIOUS
<1>12. Starts(ps, F)
  <2> HIDE DEF F
  <2> QED
    BY <1>7, <1>10, <1>11 DEF Starts, m
<1>13. \E firsts \in SUBSET (1 .. Len(ps)) :
         /\ 1 \in firsts
         /\ \A n \in firsts :
              LET next == IF IsExtended(ps, n) THEN n + 3 ELSE n + 1
              IN  /\ next <= Len(ps) => next \in firsts
                  /\ \A k \in n + 1 .. next - 1 : k \notin firsts
  <2> HIDE DEF F
  <2> QED
    BY <1>12, Zenon DEF Starts, After
<1>14. /\ Firsts(ps) \in SUBSET (1 .. Len(ps)) /\ 1 \in Firsts(ps)
       /\ \A n \in Firsts(ps) :
              LET next == IF IsExtended(ps, n) THEN n + 3 ELSE n + 1
              IN  /\ next <= Len(ps) => next \in Firsts(ps)
                  /\ \A k \in n + 1 .. next - 1 : k \notin Firsts(ps)
  <2> HIDE DEF F
  <2> QED
    BY <1>13, Zenon DEF Firsts
<1> QED
  BY <1>14, Zenon DEF Starts, After

(* What one parameter makes of each part of the look.                      *)
LEMMA BrightIs ==
    ASSUME NEW p \in Nat
    PROVE  /\ p \in 30 .. 37 => Bright(p % 10) = TE_COLOR_ANSI + p - 30
           /\ p \in 40 .. 47 => Bright(p % 10) = TE_COLOR_ANSI + p - 40
           /\ p \in 90 .. 99 => Bright(p % 10) = TE_COLOR_ANSI + int_min(p - 90, 7)
           /\ p \in 100 .. 109 => Bright(p % 10) = TE_COLOR_ANSI + int_min(p - 100, 7)
<1>1. /\ p \in 30 .. 37 => p % 10 = p - 30
      /\ p \in 40 .. 47 => p % 10 = p - 40
      /\ p \in 90 .. 99 => p % 10 = p - 90
      /\ p \in 100 .. 109 => p % 10 = p - 100
  OBVIOUS
<1> QED
  BY <1>1, ColorsAre DEF Bright, int_min

HasParts(l, a, f, b) == l.attributes = a /\ l.fg = f /\ l.bg = b

LEMMA ExceptParts ==
    ASSUME NEW l \in Looks, NEW new
    PROVE  /\ HasParts([l EXCEPT !.attributes = new], new, l.fg, l.bg)
           /\ HasParts([l EXCEPT !.fg = new], l.attributes, new, l.bg)
           /\ HasParts([l EXCEPT !.bg = new], l.attributes, l.fg, new)
BY DEF HasParts, Looks

LEMMA SimpleParts ==
    ASSUME NEW p \in Nat, NEW l \in Looks
    PROVE  LET has(a, f, b) == HasParts(Simple(p, l), a, f, b)
           IN  /\ p = 0 => has({}, TE_COLOR_TEXT_FG, TE_COLOR_TEXT_BG)
               /\ p \in {1, 4, 5, 7} => has(l.attributes \union {Sets[p]}, l.fg, l.bg)
               /\ p = 22 => has(l.attributes \ {"bold"}, l.fg, l.bg)
               /\ p \in {24, 25, 27} => has(l.attributes \ {Sets[p - 20]}, l.fg, l.bg)
               /\ p \in 30 .. 37 => has(l.attributes, TE_COLOR_ANSI + p - 30, l.bg)
               /\ p = 39 => has(l.attributes, TE_COLOR_TEXT_FG, l.bg)
               /\ p \in 40 .. 47 => has(l.attributes, l.fg, TE_COLOR_ANSI + p - 40)
               /\ p = 49 => has(l.attributes, l.fg, TE_COLOR_TEXT_BG)
               /\ p \in 90 .. 99 =>
                    has(l.attributes, TE_COLOR_ANSI + 8 + int_min(p - 90, 7), l.bg)
               /\ p \in 100 .. 109 =>
                    has(l.attributes, l.fg, TE_COLOR_ANSI + 8 + int_min(p - 100, 7))
               /\ (/\ p \notin {0, 1, 4, 5, 7, 22, 24, 25, 27, 39, 49}
                   /\ p \notin 30 .. 37 /\ p \notin 40 .. 47
                   /\ p \notin 90 .. 99 /\ p \notin 100 .. 109)
                     => has(l.attributes, l.fg, l.bg)
<1> DEFINE c == Bright(p % 10)
           has(a, f, b) == HasParts(Simple(p, l), a, f, b)
<1>1. /\ p \in 30 .. 37 => c = TE_COLOR_ANSI + p - 30
      /\ p \in 40 .. 47 => c = TE_COLOR_ANSI + p - 40
      /\ p \in 90 .. 99 => 8 + c = TE_COLOR_ANSI + 8 + int_min(p - 90, 7)
      /\ p \in 100 .. 109 => 8 + c = TE_COLOR_ANSI + 8 + int_min(p - 100, 7)
  <2>1. /\ p \in 30 .. 37 => c = TE_COLOR_ANSI + p - 30
        /\ p \in 40 .. 47 => c = TE_COLOR_ANSI + p - 40
        /\ p \in 90 .. 99 => c = TE_COLOR_ANSI + int_min(p - 90, 7)
        /\ p \in 100 .. 109 => c = TE_COLOR_ANSI + int_min(p - 100, 7)
    BY BrightIs
  <2>2. /\ TE_COLOR_ANSI \in Int
        /\ int_min(p - 90, 7) \in Int /\ int_min(p - 100, 7) \in Int
    BY ColorsAre DEF int_min
  <2> HIDE DEF c
  <2> QED
    BY <2>1, <2>2
<1>2. /\ p \in 30 .. 37 => Simple(p, l) = [l EXCEPT !.fg = c]
      /\ p \in 40 .. 47 => Simple(p, l) = [l EXCEPT !.bg = c]
      /\ p \in 90 .. 99 => Simple(p, l) = [l EXCEPT !.fg = 8 + c]
      /\ p \in 100 .. 109 => Simple(p, l) = [l EXCEPT !.bg = 8 + c]
  BY SimpleIs
<1> HIDE DEF c
<1>2b. /\ p \in {1, 4, 5, 7} =>
           Simple(p, l) = [l EXCEPT !.attributes = l.attributes \union {Sets[p]}]
       /\ p = 22 => Simple(p, l) = [l EXCEPT !.attributes = l.attributes \ {"bold"}]
       /\ p \in {24, 25, 27} =>
           Simple(p, l) = [l EXCEPT !.attributes = l.attributes \ {Sets[p - 20]}]
       /\ p = 39 => Simple(p, l) = [l EXCEPT !.fg = TE_COLOR_TEXT_FG]
       /\ p = 49 => Simple(p, l) = [l EXCEPT !.bg = TE_COLOR_TEXT_BG]
  BY SimpleIs
<1>3. p = 0 => has({}, TE_COLOR_TEXT_FG, TE_COLOR_TEXT_BG)
  BY SimpleIs DEF PlainLook, HasParts
<1>4. p \in {1, 4, 5, 7} => has(l.attributes \union {Sets[p]}, l.fg, l.bg)
  <2>1. HasParts([l EXCEPT !.attributes = l.attributes \union {Sets[p]}],
                 l.attributes \union {Sets[p]}, l.fg, l.bg)
    BY ExceptParts
  <2>2. p \in {1, 4, 5, 7} => Simple(p, l) = [l EXCEPT !.attributes = l.attributes \union {Sets[p]}]
    BY <1>2b
  <2> QED
    BY <2>1, <2>2
<1>5. p = 22 => has(l.attributes \ {"bold"}, l.fg, l.bg)
  <2>1. HasParts([l EXCEPT !.attributes = l.attributes \ {"bold"}],
                 l.attributes \ {"bold"}, l.fg, l.bg)
    BY ExceptParts
  <2>2. p = 22 => Simple(p, l) = [l EXCEPT !.attributes = l.attributes \ {"bold"}]
    BY <1>2b
  <2> QED
    BY <2>1, <2>2
<1>6. p \in {24, 25, 27} => has(l.attributes \ {Sets[p - 20]}, l.fg, l.bg)
  <2>1. HasParts([l EXCEPT !.attributes = l.attributes \ {Sets[p - 20]}],
                 l.attributes \ {Sets[p - 20]}, l.fg, l.bg)
    BY ExceptParts
  <2>2. p \in {24, 25, 27} => Simple(p, l) = [l EXCEPT !.attributes = l.attributes \ {Sets[p - 20]}]
    BY <1>2b
  <2> QED
    BY <2>1, <2>2
<1>7. p \in 30 .. 37 => has(l.attributes, TE_COLOR_ANSI + p - 30, l.bg)
  BY <1>1, <1>2, ExceptParts
<1>8. p = 39 => has(l.attributes, TE_COLOR_TEXT_FG, l.bg)
  <2>1. HasParts([l EXCEPT !.fg = TE_COLOR_TEXT_FG],
                 l.attributes, TE_COLOR_TEXT_FG, l.bg)
    BY ExceptParts
  <2>2. p = 39 => Simple(p, l) = [l EXCEPT !.fg = TE_COLOR_TEXT_FG]
    BY <1>2b
  <2> QED
    BY <2>1, <2>2
<1>9. p \in 40 .. 47 => has(l.attributes, l.fg, TE_COLOR_ANSI + p - 40)
  BY <1>1, <1>2, ExceptParts
<1>10. p = 49 => has(l.attributes, l.fg, TE_COLOR_TEXT_BG)
  <2>1. HasParts([l EXCEPT !.bg = TE_COLOR_TEXT_BG],
                 l.attributes, l.fg, TE_COLOR_TEXT_BG)
    BY ExceptParts
  <2>2. p = 49 => Simple(p, l) = [l EXCEPT !.bg = TE_COLOR_TEXT_BG]
    BY <1>2b
  <2> QED
    BY <2>1, <2>2
<1>11. p \in 90 .. 99 =>
         has(l.attributes, TE_COLOR_ANSI + 8 + int_min(p - 90, 7), l.bg)
  BY <1>1, <1>2, ExceptParts
<1>12. p \in 100 .. 109 =>
         has(l.attributes, l.fg, TE_COLOR_ANSI + 8 + int_min(p - 100, 7))
  BY <1>1, <1>2, ExceptParts
<1>13. (/\ p \notin {0, 1, 4, 5, 7, 22, 24, 25, 27, 39, 49}
        /\ p \notin 30 .. 37 /\ p \notin 40 .. 47
        /\ p \notin 90 .. 99 /\ p \notin 100 .. 109)
         => has(l.attributes, l.fg, l.bg)
  BY SimpleIs DEF HasParts
<1> QED
  BY <1>3, <1>4, <1>5, <1>6, <1>7, <1>8, <1>9, <1>10, <1>11, <1>12, <1>13

LEMMA SimpleFg ==
    ASSUME NEW p \in Nat, NEW l \in Looks
    PROVE  Simple(p, l).fg = IF p \in {0, 39} THEN TE_COLOR_TEXT_FG
                             ELSE IF p \in 30 .. 37 THEN TE_COLOR_ANSI + p - 30
                             ELSE IF p \in 90 .. 99
                               THEN TE_COLOR_ANSI + 8 + int_min(p - 90, 7)
                             ELSE l.fg
BY SimpleParts DEF HasParts

LEMMA SimpleBg ==
    ASSUME NEW p \in Nat, NEW l \in Looks
    PROVE  Simple(p, l).bg = IF p \in {0, 49} THEN TE_COLOR_TEXT_BG
                             ELSE IF p \in 40 .. 47 THEN TE_COLOR_ANSI + p - 40
                             ELSE IF p \in 100 .. 109
                               THEN TE_COLOR_ANSI + 8 + int_min(p - 100, 7)
                             ELSE l.bg
BY SimpleParts DEF HasParts

On == [bold |-> 1, underline |-> 4, blink |-> 5, inverse |-> 7]
Off == [bold |-> 22, underline |-> 24, blink |-> 25, inverse |-> 27]

LEMMA SimpleAttribute ==
    ASSUME NEW p \in Nat, NEW l \in Looks, NEW a \in Attributes
    PROVE  /\ p = On[a] => a \in Simple(p, l).attributes
           /\ p \in {0, Off[a]} => a \notin Simple(p, l).attributes
           /\ p \notin {0, On[a], Off[a]} =>
                (a \in Simple(p, l).attributes <=> a \in l.attributes)
<1>1. Sets[1] = "bold" /\ Sets[4] = "underline" /\ Sets[5] = "blink"
      /\ Sets[7] = "inverse"
  BY DEF Sets
<1>2. CASE p \in {1, 4, 5, 7}
  <2>1. Simple(p, l).attributes = l.attributes \union {Sets[p]}
    BY <1>2, SimpleParts DEF HasParts
  <2> QED
    BY <1>1, <1>2, <2>1 DEF Attributes, On, Off
<1>3. CASE p = 22
  <2>1. Simple(p, l).attributes = l.attributes \ {"bold"}
    BY <1>3, SimpleParts DEF HasParts
  <2> QED
    BY <1>3, <2>1 DEF Attributes, On, Off
<1>4. CASE p \in {24, 25, 27}
  <2>1. Simple(p, l).attributes = l.attributes \ {Sets[p - 20]}
    BY <1>4, SimpleParts DEF HasParts
  <2>2. Sets[p - 20] = IF p = 24 THEN "underline" ELSE IF p = 25 THEN "blink" ELSE "inverse"
    BY <1>1, <1>4
  <2> QED
    BY <1>4, <2>1, <2>2 DEF Attributes, On, Off
<1>5. CASE p = 0
  <2>1. Simple(p, l).attributes = {}
    BY <1>5, SimpleParts DEF HasParts
  <2> QED
    BY <1>5, <2>1 DEF Attributes, On, Off
<1>6. CASE p \notin {0, 1, 4, 5, 7, 22, 24, 25, 27}
  <2>1. Simple(p, l).attributes = l.attributes
    BY <1>6, SimpleParts DEF HasParts
  <2> QED
    BY <1>6, <2>1 DEF Attributes, On, Off
<1> QED
  BY <1>2, <1>3, <1>4, <1>5, <1>6

(* What an item says of a colour, and of an attribute.                     *)
ColourSaid(ps, n, base) ==
    IF IsExtended(ps, n)
      THEN IF ps[n] = base + 8 /\ ps[n + 2] < TE_COLOR_MODE
           THEN TE_COLOR_ANSI + ps[n + 2] ELSE NULL
    ELSE IF ps[n] \in base .. base + 7 THEN TE_COLOR_ANSI + ps[n] - base
    ELSE IF ps[n] \in base + 60 .. base + 69
      THEN TE_COLOR_ANSI + 8 + int_min(ps[n] - base - 60, 7)
    ELSE NULL

LEMMA SaysColour ==
    ASSUME NEW ps, NEW n
    PROVE  /\ Says(ps, n, "fg") = IF ps[n] \in {0, 39} THEN TE_COLOR_TEXT_FG
                                  ELSE ColourSaid(ps, n, 30)
           /\ Says(ps, n, "bg") = IF ps[n] \in {0, 49} THEN TE_COLOR_TEXT_BG
                                  ELSE ColourSaid(ps, n, 40)
BY DEF Says, ColourSaid

LEMMA SaysAttribute ==
    ASSUME NEW ps, NEW n, NEW a \in Attributes
    PROVE  Says(ps, n, a) = IF ps[n] = On[a] THEN TRUE
                            ELSE IF ps[n] \in {0, Off[a]} THEN FALSE ELSE NULL
<1>1. CASE a = "bold"
  BY <1>1 DEF Says, On, Off
<1>2. CASE a = "underline"
  BY <1>2 DEF Says, On, Off
<1>3. CASE a = "blink"
  BY <1>3 DEF Says, On, Off
<1>4. CASE a = "inverse"
  BY <1>4 DEF Says, On, Off
<1> QED
  BY <1>1, <1>2, <1>3, <1>4 DEF Attributes

Item(ps, n, l) ==
    IF IsExtended(ps, n) THEN Extended(ps[n], ps[n + 2], l) ELSE Simple(ps[n], l)

Heard(ps, n, what, before) ==
    IF Says(ps, n, what) # NULL THEN Says(ps, n, what) ELSE before

LEMMA ExtendedParts ==
    ASSUME NEW p \in {38, 48}, NEW n \in Nat, NEW l \in Looks
    PROVE  /\ Extended(p, n, l).attributes = l.attributes
           /\ Extended(p, n, l).fg = IF p = 38 /\ n < TE_COLOR_MODE
                                     THEN TE_COLOR_ANSI + n ELSE l.fg
           /\ Extended(p, n, l).bg = IF p = 48 /\ n < TE_COLOR_MODE
                                     THEN TE_COLOR_ANSI + n ELSE l.bg
<1>1. TE_COLOR_MODE \in Nat
  BY ColorAssumption
<1>2. CASE n >= TE_COLOR_MODE
  BY <1>1, <1>2 DEF Extended
<1>3. CASE n < TE_COLOR_MODE /\ p = 38
  <2>1. Extended(p, n, l) = [l EXCEPT !.fg = TE_COLOR_ANSI + n]
    BY <1>1, <1>3 DEF Extended
  <2>2. HasParts([l EXCEPT !.fg = TE_COLOR_ANSI + n],
                 l.attributes, TE_COLOR_ANSI + n, l.bg)
    BY ExceptParts
  <2>3. HasParts(Extended(p, n, l), l.attributes, TE_COLOR_ANSI + n, l.bg)
    BY <2>1, <2>2
  <2> QED
    BY <1>3, <2>3 DEF HasParts
<1>4. CASE n < TE_COLOR_MODE /\ p = 48
  <2>1. Extended(p, n, l) = [l EXCEPT !.bg = TE_COLOR_ANSI + n]
    BY <1>1, <1>4 DEF Extended
  <2>2. HasParts([l EXCEPT !.bg = TE_COLOR_ANSI + n],
                 l.attributes, l.fg, TE_COLOR_ANSI + n)
    BY ExceptParts
  <2>3. HasParts(Extended(p, n, l), l.attributes, l.fg, TE_COLOR_ANSI + n)
    BY <2>1, <2>2
  <2> QED
    BY <1>4, <2>3 DEF HasParts
<1> QED
  BY <1>1, <1>2, <1>3, <1>4

LEMMA ItemHeard ==
    ASSUME NEW ps \in Seq(Nat), NEW n \in 1 .. Len(ps), NEW l \in Looks
    PROVE  /\ Item(ps, n, l).fg = Heard(ps, n, "fg", l.fg)
           /\ Item(ps, n, l).bg = Heard(ps, n, "bg", l.bg)
<1> DEFINE p == ps[n]
           c == ps[n + 2]
<1>1. p \in Nat /\ TE_COLOR_MODE \in Nat /\ TE_COLOR_ANSI \in Nat
  BY ColorAssumption DEF TE_COLOR_ANSI
<1>2. \A x \in Nat : x # NULL
  BY NullAssumption
<1>3. TE_COLOR_TEXT_FG \in Nat /\ TE_COLOR_TEXT_BG \in Nat
  BY DEF TE_COLOR_TEXT_FG, TE_COLOR_TEXT_BG
<1>4. CASE IsExtended(ps, n)
  <2>1. p \in {38, 48} /\ c \in Nat
    <3>1. p \in {38, 48} /\ n + 2 \in 1 .. Len(ps)
      BY <1>4 DEF IsExtended
    <3> QED
      BY <3>1
  <2>2. TE_COLOR_ANSI + c \in Nat
    BY <1>1, <2>1
  <2>3. /\ Says(ps, n, "fg") = IF p = 38 /\ c < TE_COLOR_MODE
                               THEN TE_COLOR_ANSI + c ELSE NULL
        /\ Says(ps, n, "bg") = IF p = 48 /\ c < TE_COLOR_MODE
                               THEN TE_COLOR_ANSI + c ELSE NULL
    BY <1>4, <2>1, SaysColour DEF ColourSaid
  <2>4. Item(ps, n, l) = Extended(p, c, l)
    BY <1>4 DEF Item
  <2>5. /\ Extended(p, c, l).fg = IF p = 38 /\ c < TE_COLOR_MODE
                                  THEN TE_COLOR_ANSI + c ELSE l.fg
        /\ Extended(p, c, l).bg = IF p = 48 /\ c < TE_COLOR_MODE
                                  THEN TE_COLOR_ANSI + c ELSE l.bg
    BY <2>1, ExtendedParts
  <2> HIDE DEF p, c
  <2> QED
    BY <1>2, <2>2, <2>3, <2>4, <2>5 DEF Heard
<1>5. CASE ~IsExtended(ps, n)
  <2>1. Item(ps, n, l) = Simple(p, l)
    BY <1>5 DEF Item
  <2> DEFINE a == TE_COLOR_ANSI + p - 30
             b == TE_COLOR_ANSI + 8 + int_min(p - 90, 7)
             d == TE_COLOR_ANSI + p - 40
             e == TE_COLOR_ANSI + 8 + int_min(p - 100, 7)
  <2>2. /\ p \in 30 .. 37 => a \in Nat
        /\ p \in 90 .. 99 => b \in Nat
        /\ p \in 40 .. 47 => d \in Nat
        /\ p \in 100 .. 109 => e \in Nat
    <3> HIDE DEF p
    <3>1. \A k \in Nat : int_min(k, 7) \in Nat
      BY DEF int_min
    <3>2. (p \in 90 .. 99 => p - 90 \in Nat) /\ (p \in 100 .. 109 => p - 100 \in Nat)
      OBVIOUS
    <3>3. \A k \in Nat : TE_COLOR_ANSI + 8 + k \in Nat
      BY <1>1
    <3>4. (p \in 30 .. 37 => a \in Nat) /\ (p \in 40 .. 47 => d \in Nat)
      BY <1>1
    <3> QED
      BY <3>1, <3>2, <3>3, <3>4
  <2>3. Says(ps, n, "fg") = IF p \in {0, 39} THEN TE_COLOR_TEXT_FG
                            ELSE IF p \in 30 .. 37 THEN a
                            ELSE IF p \in 90 .. 99 THEN b ELSE NULL
    <3>1. /\ 30 + 7 = 37 /\ 30 + 60 = 90 /\ 30 + 69 = 99
          /\ p - 30 - 60 = p - 90
      BY <1>1
    <3>2. ColourSaid(ps, n, 30) = IF p \in 30 .. 37 THEN a
                                  ELSE IF p \in 90 .. 99 THEN b ELSE NULL
      BY <1>5, <3>1, Zenon DEF ColourSaid
    <3> QED
      BY <3>2, SaysColour, Zenon
  <2>4. Says(ps, n, "bg") = IF p \in {0, 49} THEN TE_COLOR_TEXT_BG
                            ELSE IF p \in 40 .. 47 THEN d
                            ELSE IF p \in 100 .. 109 THEN e ELSE NULL
    <3>1. /\ 40 + 7 = 47 /\ 40 + 60 = 100 /\ 40 + 69 = 109
          /\ p - 40 - 60 = p - 100
      BY <1>1
    <3>2. ColourSaid(ps, n, 40) = IF p \in 40 .. 47 THEN d
                                  ELSE IF p \in 100 .. 109 THEN e ELSE NULL
      BY <1>5, <3>1, Zenon DEF ColourSaid
    <3> QED
      BY <3>2, SaysColour, Zenon
  <2>5. Simple(p, l).fg = IF p \in {0, 39} THEN TE_COLOR_TEXT_FG
                          ELSE IF p \in 30 .. 37 THEN a
                          ELSE IF p \in 90 .. 99 THEN b ELSE l.fg
    BY <1>1, SimpleFg, Zenon
  <2>6. Simple(p, l).bg = IF p \in {0, 49} THEN TE_COLOR_TEXT_BG
                          ELSE IF p \in 40 .. 47 THEN d
                          ELSE IF p \in 100 .. 109 THEN e ELSE l.bg
    BY <1>1, SimpleBg, Zenon
  <2> HIDE DEF a, b, d, e, p
  <2>7. Simple(p, l).fg = Heard(ps, n, "fg", l.fg)
    BY <1>2, <1>3, <2>2, <2>3, <2>5 DEF Heard
  <2>8. Simple(p, l).bg = Heard(ps, n, "bg", l.bg)
    BY <1>2, <1>3, <2>2, <2>4, <2>6 DEF Heard
  <2> QED
    BY <2>1, <2>7, <2>8
<1> QED
  BY <1>4, <1>5

LEMMA ItemSets ==
    ASSUME NEW ps \in Seq(Nat), NEW n \in 1 .. Len(ps), NEW l \in Looks,
           NEW a \in Attributes
    PROVE  \/ /\ Says(ps, n, a) = NULL
              /\ a \in Item(ps, n, l).attributes <=> a \in l.attributes
           \/ Says(ps, n, a) = TRUE /\ a \in Item(ps, n, l).attributes
           \/ Says(ps, n, a) = FALSE /\ a \notin Item(ps, n, l).attributes
<1> DEFINE p == ps[n]
<1>1. p \in Nat /\ TRUE # NULL /\ FALSE # NULL
  <2>1. p \in Nat
    OBVIOUS
  <2>2. TRUE # NULL /\ FALSE # NULL
    BY NullAssumption, Zenon
  <2> QED
    BY <2>1, <2>2
<1>2. On[a] \in {1, 4, 5, 7} /\ Off[a] \in {22, 24, 25, 27}
  BY DEF Attributes, On, Off
<1>3. Says(ps, n, a) = IF p = On[a] THEN TRUE
                       ELSE IF p \in {0, Off[a]} THEN FALSE ELSE NULL
  BY SaysAttribute
<1>4. CASE IsExtended(ps, n)
  <2>1. p \in {38, 48} /\ ps[n + 2] \in Nat
    <3>1. p \in {38, 48} /\ n + 2 \in 1 .. Len(ps)
      BY <1>4 DEF IsExtended
    <3> QED
      BY <3>1
  <2>2. Item(ps, n, l).attributes = l.attributes
    BY <1>4, <2>1, ExtendedParts DEF Item
  <2>3. p # On[a] /\ p \notin {0, Off[a]}
    BY <1>2, <2>1
  <2>4. Says(ps, n, a) = NULL
    BY <1>3, <2>3, Zenon
  <2> QED
    BY <2>2, <2>4, Zenon
<1>5. CASE ~IsExtended(ps, n)
  <2>1. Item(ps, n, l) = Simple(p, l)
    BY <1>5 DEF Item
  <2>2. /\ p = On[a] => a \in Simple(p, l).attributes
        /\ p \in {0, Off[a]} => a \notin Simple(p, l).attributes
        /\ p \notin {0, On[a], Off[a]} =>
             (a \in Simple(p, l).attributes <=> a \in l.attributes)
    BY <1>1, SimpleAttribute
  <2> HIDE DEF p
  <2>3. CASE p = On[a]
    <3>1. Says(ps, n, a) = TRUE
      BY <1>3, <2>3, Zenon
    <3> QED
      BY <2>1, <2>2, <2>3, <3>1, Zenon
  <2>4. CASE p \in {0, Off[a]}
    <3>1. p # On[a]
      BY <1>2, <2>4
    <3>2. Says(ps, n, a) = FALSE
      BY <1>3, <2>4, <3>1, Zenon
    <3> QED
      BY <2>1, <2>2, <2>4, <3>2, Zenon
  <2>5. CASE p \notin {0, On[a], Off[a]}
    <3>1. Says(ps, n, a) = NULL
      BY <1>3, <2>5, Zenon
    <3> QED
      BY <2>1, <2>2, <2>5, <3>1, Zenon
  <2> QED
    BY <2>3, <2>4, <2>5
<1> QED
  BY <1>4, <1>5

(* A part of the look that changes as the items say is as the last said.   *)
Follows(v, ps, h, what) ==
    \A n \in 1 .. Len(ps) :
      v[n] = IF h[n - 1].skip = 0 THEN Heard(ps, n, what, v[n - 1]) ELSE v[n - 1]

LEMMA LastOf ==
    ASSUME NEW ps \in Seq(Nat), ps # <<>>, NEW l \in Looks, NEW h,
           Passes(ps, l, Len(ps), h), NEW what, NEW v, Follows(v, ps, h, what)
    PROVE  v[Len(ps)] = LastSaid(ps, Firsts(ps), what, v[0])
<1> DEFINE m == Len(ps)
           F == Firsts(ps)
           s == [n \in 1 .. m |-> Says(ps, n, what)]
           said == {n \in F : Says(ps, n, what) # NULL}
<1>1. m \in Nat
  OBVIOUS
<1>2. Starts(ps, F)
  BY FirstsStart
<1>3. \A n \in 1 .. m : n \in F <=> h[n - 1].skip = 0
  BY <1>2, StartsUnskipped
<1>4. said \in SUBSET (1 .. m)
  BY <1>2 DEF Starts
<1>5. \A n \in 1 .. m : s[n] = Says(ps, n, what)
  OBVIOUS
<1> HIDE DEF s
<1>6. Updates(v, m, said, s)
  <2> SUFFICES ASSUME NEW n \in 1 .. m
               PROVE  v[n] = IF n \in said THEN s[n] ELSE v[n - 1]
    BY DEF Updates
  <2>1. v[n] = IF n \in F THEN Heard(ps, n, what, v[n - 1]) ELSE v[n - 1]
    BY <1>3 DEF Follows
  <2> QED
    BY <1>5, <2>1, Zenon DEF Heard
<1> DEFINE last == Largest(said)
<1>7. /\ v[m] = IF said = {} THEN v[0] ELSE s[last]
      /\ said # {} => last \in said
  <2> HIDE DEF said, m
  <2> QED
    BY <1>1, <1>4, <1>6, LastCounts
<1>8. said # {} => s[last] = Says(ps, last, what)
  <2> HIDE DEF last, said, m
  <2> QED
    BY <1>4, <1>5, <1>7
<1> QED
  BY <1>7, <1>8, Zenon DEF LastSaid, Largest

(* A part of the look, at every pass.                                      *)
LEMMA PartPasses ==
    ASSUME NEW ps \in Seq(Nat), NEW l \in Looks, NEW h,
           Passes(ps, l, Len(ps), h), NEW n \in 1 .. Len(ps)
    PROVE  /\ h[n - 1].look \in Looks
           /\ h[n].look = IF h[n - 1].skip = 0 THEN Item(ps, n, h[n - 1].look)
                          ELSE h[n - 1].look
<1>1. Len(ps) \in Nat /\ n \in 0 .. Len(ps) /\ n - 1 \in 0 .. Len(ps)
  OBVIOUS
<1>2. h[n - 1] \in [look : Looks, skip : Nat]
  BY <1>1, PassLooks
<1>3. h[n] = IF h[n - 1].skip > 0
               THEN [look |-> h[n - 1].look, skip |-> h[n - 1].skip - 1]
             ELSE IF IsExtended(ps, n)
               THEN [look |-> Extended(ps[n], ps[n + 2], h[n - 1].look), skip |-> 2]
             ELSE [look |-> Simple(ps[n], h[n - 1].look), skip |-> 0]
  BY PassIs
<1>4. h[n - 1].skip \in Nat /\ h[n - 1].look \in Looks
  BY <1>2
<1> QED
  BY <1>3, <1>4 DEF Item

LEMMA LastItems ==
    ASSUME NEW ps \in Seq(Nat), ps # <<>>, NEW l \in Looks
    PROVE  /\ Sgr(ps, l).fg = LastSaid(ps, Firsts(ps), "fg", l.fg)
           /\ Sgr(ps, l).bg = LastSaid(ps, Firsts(ps), "bg", l.bg)
           /\ \A a \in Attributes :
                (a \in Sgr(ps, l).attributes)
                  = LastSaid(ps, Firsts(ps), a, a \in l.attributes)
<1> DEFINE m == Len(ps)
<1>1. m \in Nat /\ m \in 0 .. m /\ 0 \in 0 .. m
  OBVIOUS
<1>2. PICK h : Passes(ps, l, m, h) /\ Sgr(ps, l) = h[m].look
  BY SgrPasses
<1>3. h[0].look = l
  <2>1. h[0] = Pass(ps, l, h, 0)
    BY <1>1, <1>2, PassesAre
  <2> QED
    BY <2>1 DEF Pass
<1>4. \A n \in 1 .. m : n \in 0 .. m /\ n - 1 \in 0 .. m
  OBVIOUS
<1>5. ASSUME NEW n \in 1 .. m
      PROVE  /\ h[n - 1].look \in Looks
             /\ h[n].look = IF h[n - 1].skip = 0 THEN Item(ps, n, h[n - 1].look)
                            ELSE h[n - 1].look
  BY <1>2, PartPasses
<1>6. Sgr(ps, l).fg = LastSaid(ps, Firsts(ps), "fg", l.fg)
  <2> DEFINE v == [n \in 0 .. m |-> h[n].look.fg]
  <2>1. \A n \in 0 .. m : v[n] = h[n].look.fg
    OBVIOUS
  <2> HIDE DEF v
  <2>2. Follows(v, ps, h, "fg")
    BY <1>4, <1>5, <2>1, ItemHeard DEF Follows
  <2>3. v[m] = LastSaid(ps, Firsts(ps), "fg", v[0])
    BY <1>2, <2>2, LastOf
  <2> QED
    BY <1>1, <1>2, <1>3, <2>1, <2>3
<1>7. Sgr(ps, l).bg = LastSaid(ps, Firsts(ps), "bg", l.bg)
  <2> DEFINE v == [n \in 0 .. m |-> h[n].look.bg]
  <2>1. \A n \in 0 .. m : v[n] = h[n].look.bg
    OBVIOUS
  <2> HIDE DEF v
  <2>2. Follows(v, ps, h, "bg")
    BY <1>4, <1>5, <2>1, ItemHeard DEF Follows
  <2>3. v[m] = LastSaid(ps, Firsts(ps), "bg", v[0])
    BY <1>2, <2>2, LastOf
  <2> QED
    BY <1>1, <1>2, <1>3, <2>1, <2>3
<1>8. ASSUME NEW a \in Attributes
      PROVE  (a \in Sgr(ps, l).attributes)
               = LastSaid(ps, Firsts(ps), a, a \in l.attributes)
  <2> DEFINE v == [n \in 0 .. m |-> a \in h[n].look.attributes]
  <2>1. \A n \in 0 .. m : v[n] = (a \in h[n].look.attributes)
    BY Zenon
  <2> HIDE DEF v
  <2>2. ASSUME NEW n \in 1 .. m
        PROVE  v[n] = IF h[n - 1].skip = 0
                      THEN Heard(ps, n, a, v[n - 1]) ELSE v[n - 1]
    <3>1. /\ v[n] = (a \in h[n].look.attributes)
          /\ v[n - 1] = (a \in h[n - 1].look.attributes)
      BY <1>4, <2>1, Zenon
    <3>2. TRUE # NULL /\ FALSE # NULL
      BY NullAssumption, Zenon
    <3>3. CASE h[n - 1].skip # 0
      <4>1. h[n].look = h[n - 1].look
        BY <1>5, <3>3
      <4> QED
        BY <3>1, <3>3, <4>1, Zenon
    <3>4. CASE h[n - 1].skip = 0
      <4> DEFINE is == a \in h[n].look.attributes
                 was == a \in h[n - 1].look.attributes
                 says == Says(ps, n, a)
      <4>1. \/ says = NULL /\ (is <=> was)
            \/ says = TRUE /\ is
            \/ says = FALSE /\ ~is
        BY <1>5, <3>4, ItemSets
      <4>2. Heard(ps, n, a, v[n - 1]) = IF says # NULL THEN says ELSE v[n - 1]
        BY Zenon DEF Heard
      <4>3. CASE says = NULL /\ (is <=> was)
        <5>1. CASE was
          <6>1. v[n] = TRUE /\ v[n - 1] = TRUE
            BY <3>1, <4>3, <5>1, Zenon
          <6> QED
            BY <3>4, <4>2, <4>3, <6>1, Zenon
        <5>2. CASE ~was
          <6>1. is = FALSE /\ was = FALSE
            BY <4>3, <5>2
          <6>2. v[n] = FALSE /\ v[n - 1] = FALSE
            BY <3>1, <6>1, Zenon
          <6> QED
            BY <3>4, <4>2, <4>3, <6>2, Zenon
        <5> QED
          BY <5>1, <5>2
      <4>4. CASE says = TRUE /\ is
        <5>1. v[n] = TRUE
          BY <3>1, <4>4, Zenon
        <5> QED
          BY <3>2, <3>4, <4>2, <4>4, <5>1, Zenon
      <4>5. CASE says = FALSE /\ ~is
        <5>1. is = FALSE
          BY <4>5
        <5>2. v[n] = FALSE
          BY <3>1, <5>1, Zenon
        <5> QED
          BY <3>2, <3>4, <4>2, <4>5, <5>2, Zenon
      <4> QED
        BY <4>1, <4>3, <4>4, <4>5
    <3> QED
      BY <3>3, <3>4
  <2>3. Follows(v, ps, h, a)
    BY <2>2, Zenon DEF Follows
  <2>4. v[m] = LastSaid(ps, Firsts(ps), a, v[0])
    BY <1>2, <2>3, LastOf
  <2> QED
    BY <1>1, <1>2, <1>3, <2>1, <2>4, Zenon
<1> QED
  BY <1>6, <1>7, <1>8

(* SGR gives what its last items ask for, from every rendition and for     *)
(* every list of parameters, however many extended colours are in it, cut  *)
(* short or not (LastWins).                                                *)
THEOREM LastAlwaysWins == Spec => []LastWins
<1>1. ASSUME NEW ps \in Params \ {<<>>} PROVE ps \in Seq(Nat) /\ ps # <<>>
  <2>1. PICK n \in Nat : ps \in [1 .. n -> ParamValues]
    BY ParamAssumption DEF Params
  <2>2. ps \in [1 .. n -> Nat]
    BY <2>1, ParamAssumption
  <2> QED
    BY <2>2
<1>2. RInv => LastWins
  <2> SUFFICES ASSUME RInv, NEW ps \in Params \ {<<>>}
               PROVE  /\ Sgr(ps, look).fg = LastSaid(ps, Firsts(ps), "fg", look.fg)
                      /\ Sgr(ps, look).bg = LastSaid(ps, Firsts(ps), "bg", look.bg)
                      /\ \A a \in Attributes :
                           (a \in Sgr(ps, look).attributes)
                             = LastSaid(ps, Firsts(ps), a, a \in look.attributes)
    BY Zenon DEF LastWins, Attributes
  <2>1. look \in Looks
    BY DEF RInv
  <2> QED
    BY <1>1, <2>1, LastItems, Zenon
<1> QED
  BY <1>2, AlwaysKept, PTL
=============================================================================
