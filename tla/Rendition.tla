------------------------------ MODULE Rendition ------------------------------
(***************************************************************************)
(* What makes text look as it does: the rendition that SGR sets, the       *)
(* character sets, their part of the DECSC slot, the screen mode that      *)
(* swaps two colours of the palette, and the colours the frontend makes    *)
(* of a cell (the build with FLTK's fonts).                                *)
(*                                                                         *)
(* Parameters are numbers: one that has overflowed int may be less than    *)
(* 0, which the handler takes for a colour.  Definitions marked as mutants *)
(* are deliberate mistakes.                                                *)
(***************************************************************************)
EXTENDS Integers, Sequences

CONSTANTS
    TE_COLOR_MODE,  \* colours a program may choose from
    ParamValues,    \* the values a parameter may have
    MaxParams,      \* bound on the parameters of the sequences compared
    Requests,       \* the parameter lists of the SGR a program sends
    Letter,         \* a character that only the graphics set replaces
    Line,           \* what it is replaced by
    NULL

Params == UNION {[1 .. n -> ParamValues] : n \in 0 .. MaxParams}

ASSUME ColorAssumption == TE_COLOR_MODE \in Nat /\ TE_COLOR_MODE >= 16
ASSUME ParamAssumption ==
    /\ ParamValues \subseteq Nat /\ MaxParams \in Nat
    /\ Requests \subseteq Seq(Nat)
ASSUME GlyphAssumption == Letter # Line
ASSUME NullAssumption == NULL \notin Nat \union BOOLEAN

TE_COLOR_TEXT_FG == 0
TE_COLOR_TEXT_BG == 1
TE_COLOR_ANSI == 6
Colors == 0 .. TE_COLOR_ANSI + TE_COLOR_MODE - 1
Charsets == {"us", "uk", "special"}

VARIABLES
    look,     \* [attributes, fg, bg]
    charset,  \* which of the two sets is shifted in: 0 or 1
    g,        \* the sets: charset_g0 and charset_g1
    stored,   \* what DECSC saved of them
    reverse,  \* MODE_SCREEN
    swapped   \* the palette's first two colours are

vars == <<look, charset, g, stored, reverse, swapped>>

PlainLook ==
    [attributes |-> {}, fg |-> TE_COLOR_TEXT_FG, bg |-> TE_COLOR_TEXT_BG]

int_min(a, b) == IF a < b THEN a ELSE b

-----------------------------------------------------------------------------
(* Character Attributes (SGR).                                             *)

Sets == [n \in {1, 4, 5, 7} |-> CASE n = 1 -> "bold"  [] n = 4 -> "underline"
                                  [] n = 5 -> "blink" [] n = 7 -> "inverse"]

Bright(n) == TE_COLOR_ANSI + int_min(n, 7)

(* One parameter, not the start of an extended colour.  22 and its like    *)
(* clear what 2 less than 20 sets.  100 is a bright background, so that    *)
(* its own case is never reached.                                          *)
Simple(p, l) ==
    CASE p = 0 -> PlainLook
      [] p \in {1, 4, 5, 7} -> [l EXCEPT !.attributes = @ \union {Sets[p]}]
      [] p = 22 -> [l EXCEPT !.attributes = @ \ {"bold"}]
      [] p \in {24, 25, 27} -> [l EXCEPT !.attributes = @ \ {Sets[p - 20]}]
      [] p \in 30 .. 37 -> [l EXCEPT !.fg = Bright(p % 10)]
      [] p = 39 -> [l EXCEPT !.fg = TE_COLOR_TEXT_FG]
      [] p \in 40 .. 47 -> [l EXCEPT !.bg = Bright(p % 10)]
      [] p = 49 -> [l EXCEPT !.bg = TE_COLOR_TEXT_BG]
      [] p \in 90 .. 99 -> [l EXCEPT !.fg = 8 + Bright(p % 10)]
      [] p \in 100 .. 109 -> [l EXCEPT !.bg = 8 + Bright(p % 10)]
      [] OTHER -> l

(* 38;5;n and 48;5;n.  Mutant: the colour after the last one taken.        *)
Extended_Last(p, n, l) ==
    IF n > TE_COLOR_MODE THEN l
    ELSE IF p = 38 THEN [l EXCEPT !.fg = TE_COLOR_ANSI + n]
    ELSE [l EXCEPT !.bg = TE_COLOR_ANSI + n]
Extended(p, n, l) ==
    IF n >= TE_COLOR_MODE THEN l
    ELSE IF p = 38 THEN [l EXCEPT !.fg = TE_COLOR_ANSI + n]
    ELSE [l EXCEPT !.bg = TE_COLOR_ANSI + n]

(* Cut short, or of another kind, it is no extended colour: what follows   *)
(* 38 or 48 is taken for itself.                                           *)
IsExtended(ps, n) ==
    ps[n] \in {38, 48} /\ n + 2 <= Len(ps) /\ ps[n + 1] = 5

(* The rendition after the first n parameters, and how many of the next    *)
(* ones are an extended colour's.                                          *)
Sgr(ps, l) ==
    LET After[n \in 0 .. Len(ps)] ==
          LET before == After[n - 1]
          IN  IF n = 0 THEN [look |-> l, skip |-> 0]
              ELSE IF before.skip > 0 THEN [before EXCEPT !.skip = @ - 1]
              ELSE IF IsExtended(ps, n)
                THEN [look |-> Extended(ps[n], ps[n + 2], before.look), skip |-> 2]
              ELSE [look |-> Simple(ps[n], before.look), skip |-> 0]
    IN  IF ps = <<>> THEN PlainLook ELSE After[Len(ps)].look

ac_char_attrs(ps) ==
    /\ look' = Sgr(ps, look)
    /\ UNCHANGED <<charset, g, stored, reverse, swapped>>

-----------------------------------------------------------------------------
(* Character sets, and what DECSC saves of this module's state.            *)

(* Shift in and out.                                                       *)
ac_ls(n) ==
    /\ charset' = n /\ UNCHANGED <<look, g, stored, reverse, swapped>>

ac_set_charset(n, set) ==
    /\ g' = [g EXCEPT ![n] = set]
    /\ UNCHANGED <<look, charset, stored, reverse, swapped>>

_cp_replace(set, cp) == IF set = "special" /\ cp = Letter THEN Line ELSE cp

(* What be_input makes of a character; Row has the cells.                  *)
Printed(l, sets, n) == [glyph |-> _cp_replace(sets[n], Letter), look |-> l]

(* Mutant of Saved: the set that is shifted in left out.                   *)
Saved_NoShift == [look |-> look, charset |-> 0, g |-> g]

Saved == [look |-> look, charset |-> charset, g |-> g]

ac_save_cursor ==
    /\ stored' = Saved /\ UNCHANGED <<look, charset, g, reverse, swapped>>

ac_restore_cursor ==
    /\ look' = stored.look /\ charset' = stored.charset /\ g' = stored.g
    /\ UNCHANGED <<stored, reverse, swapped>>

-----------------------------------------------------------------------------
(* Reverse screen (DECSCNM).                                               *)

be_screen_mode(enable) ==
    /\ reverse' = enable
    /\ swapped' = (swapped # (reverse # enable))

ScreenMode(enable) ==
    be_screen_mode(enable) /\ UNCHANGED <<look, charset, g, stored>>

(* DECSTR and RIS: setting the mode flags anew takes MODE_SCREEN away,     *)
(* before be_screen_mode(false) looks at it and finds nothing to do.       *)
(* Neither the character sets nor the slot are reset.                      *)
ac_reset ==
    /\ look' = PlainLook /\ reverse' = FALSE
    /\ UNCHANGED <<charset, g, stored, swapped>>

-----------------------------------------------------------------------------
(* Drawing.                                                                *)

(* fe_draw_text: the palette's entries for a cell.  Bold ANSI colours are  *)
(* bright, before the inverse.  Mutant: all colours are.                   *)
Drawn_AllBright(l) ==
    LET fg == IF "bold" \in l.attributes THEN l.fg + 8 ELSE l.fg
    IN  IF "inverse" \in l.attributes THEN [fg |-> l.bg, bg |-> fg]
        ELSE [fg |-> fg, bg |-> l.bg]
Drawn(l) ==
    LET fg == IF "bold" \in l.attributes
                 /\ l.fg \in TE_COLOR_ANSI .. TE_COLOR_ANSI + 7
              THEN l.fg + 8 ELSE l.fg
    IN  IF "inverse" \in l.attributes THEN [fg |-> l.bg, bg |-> fg]
        ELSE [fg |-> fg, bg |-> l.bg]

(* fe_draw_cursor is given the cell with its inverse attribute flipped.    *)
AtCursor(l) ==
    [l EXCEPT !.attributes = IF "inverse" \in @ THEN @ \ {"inverse"}
                             ELSE @ \union {"inverse"}]

-----------------------------------------------------------------------------
Init ==
    /\ look = PlainLook /\ charset = 0 /\ g = [n \in {0, 1} |-> "us"]
    /\ stored = Saved
    /\ reverse = FALSE /\ swapped = FALSE

Next ==
    \/ \E ps \in Requests : ac_char_attrs(ps)
    \/ \E n \in {0, 1} : ac_ls(n) \/ \E set \in Charsets : ac_set_charset(n, set)
    \/ ac_save_cursor \/ ac_restore_cursor
    \/ \E enable \in BOOLEAN : ScreenMode(enable)
    \/ ac_reset

Spec == Init /\ [][Next]_vars

-----------------------------------------------------------------------------
(* Properties.                                                             *)

TypeOK ==
    /\ {look, stored.look} \subseteq
         [attributes : SUBSET {"bold", "underline", "blink", "inverse"},
          fg : Nat, bg : Nat]
    /\ charset \in {0, 1} /\ g \in [{0, 1} -> Charsets]
    /\ stored.charset \in {0, 1} /\ stored.g \in [{0, 1} -> Charsets]
    /\ reverse \in BOOLEAN /\ swapped \in BOOLEAN

(* Every colour read from the palette is one it has: of text and of the    *)
(* cursor on it, brightened and inverted, whatever parameters of SGR and   *)
(* whatever DECRC brought back.  No parameter has overflowed.              *)
ColoursInPalette ==
    \A l \in {look, stored.look} :
       {Drawn(l).fg, Drawn(l).bg, Drawn(AtCursor(l)).fg, Drawn(AtCursor(l)).bg}
         \subseteq Colors

(* What SGR's parameters ask for, stated without going through them in     *)
(* order: they fall into items, one parameter or an extended colour each   *)
(* (firsts has where they start), and each attribute and colour is as its  *)
(* last item says, or as it was.                                           *)
Firsts(ps) ==
    CHOOSE firsts \in SUBSET (1 .. Len(ps)) :
      /\ 1 \in firsts
      /\ \A n \in firsts :
           LET next == IF IsExtended(ps, n) THEN n + 3 ELSE n + 1
           IN  /\ next <= Len(ps) => next \in firsts
               /\ \A k \in n + 1 .. next - 1 : k \notin firsts

(* An item of SGR: what it says of an attribute, TRUE or FALSE, or of a    *)
(* colour; NULL is nothing.                                                *)
Says(ps, n, what) ==
    LET p == ps[n]
        color(base) == IF IsExtended(ps, n)
                       THEN IF p = base + 8 /\ ps[n + 2] < TE_COLOR_MODE
                            THEN TE_COLOR_ANSI + ps[n + 2] ELSE NULL
                       ELSE IF p \in base .. base + 7
                            THEN TE_COLOR_ANSI + p - base
                       ELSE IF p \in base + 60 .. base + 69
                            THEN TE_COLOR_ANSI + 8 + int_min(p - base - 60, 7)
                       ELSE NULL
    IN  CASE what = "fg" -> IF p \in {0, 39} THEN TE_COLOR_TEXT_FG ELSE color(30)
          [] what = "bg" -> IF p \in {0, 49} THEN TE_COLOR_TEXT_BG ELSE color(40)
          [] OTHER ->
               LET on == CASE what = "bold" -> 1 [] what = "underline" -> 4
                           [] what = "blink" -> 5 [] what = "inverse" -> 7
                   off == IF on = 1 THEN 22 ELSE on + 20
               IN  IF p = on THEN TRUE ELSE IF p \in {0, off} THEN FALSE ELSE NULL

LastSaid(ps, firsts, what, before) ==
    LET said == {n \in firsts : Says(ps, n, what) # NULL}
    IN  IF said = {} THEN before
        ELSE Says(ps, CHOOSE n \in said : \A k \in said : k <= n, what)

(* SGR gives the rendition its last items ask for, however many there are  *)
(* and wherever extended colours begin or are cut short, from any          *)
(* rendition a program has come to.  It depends on nothing else, so that   *)
(* states that differ in nothing else are compared once.                   *)
LookOnly == [look |-> look, charset |-> 0, g |-> [n \in {0, 1} |-> "us"]]
LastWins ==
    Saved = LookOnly /\ stored = LookOnly /\ ~reverse /\ ~swapped =>
    \A ps \in Params \ {<<>>} :
       LET after == Sgr(ps, look)
           firsts == Firsts(ps)
       IN  /\ after.fg = LastSaid(ps, firsts, "fg", look.fg)
           /\ after.bg = LastSaid(ps, firsts, "bg", look.bg)
           /\ \A a \in {"bold", "underline", "blink", "inverse"} :
                (a \in after.attributes)
                  = LastSaid(ps, firsts, a, a \in look.attributes)

(* Text after DECRC is printed as text was when DECSC saved, in glyph and  *)
(* rendition, whatever was selected, designated or reset in between.       *)
SaveRestores ==
    [][/\ stored' # stored =>
            Printed(stored.look, stored.g, stored.charset)' = Printed(look, g, charset)
       /\ ac_restore_cursor =>
            Printed(look, g, charset)' = Printed(stored.look, stored.g, stored.charset)]_vars

(* internal.h:102, "Set selects reverse screen, a white screen background  *)
(* with black characters": while the mode is set, the palette is reversed, *)
(* whatever was set, reset and restored before.                            *)
ReverseAsSet == reverse => swapped
=============================================================================
