----------------------------- MODULE MCTerminal -----------------------------
(* A terminal small enough to enumerate: two sizes, tabs every 2 columns,  *)
(* 4-bit integers, so that the largest parameter overflows a sum.  7 also  *)
(* stands for every parameter past the page; 1 is the default of <<>>.     *)
EXTENDS Terminal, FiniteSets

MCSizes == {[w |-> 2, h |-> 3], [w |-> 3, h |-> 2]}
MCParamValues == {0, 2, 7}

(* Bounds of the search: a single tab stop, and at most one of three       *)
(* features that do not interact (tab stops, newline mode, the palette).   *)
MaxTabs == 1
MaxFeatures == 1
Bound ==
    /\ Cardinality(tabs) <= MaxTabs
    /\ Cardinality({f \in {"tabs", "newline", "palette"} :
                      CASE f = "tabs"    -> tabs # {}
                        [] f = "newline" -> "newline" \in modes
                        [] f = "palette" -> reversed \/ "screen" \in modes})
         <= MaxFeatures
=============================================================================
