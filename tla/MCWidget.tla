------------------------------ MODULE MCWidget ------------------------------
(* Cells of 2 by 2 pixels, so that a window may show part of one, and      *)
(* scroll-back for more than a page of 2 or 3 rows.                        *)
EXTENDS Widget

MCFont == [w |-> 2, h |-> 2]
MCBox == [w |-> 1, h |-> 1]
MCMinSize == [w |-> 2, h |-> 2]
MCMaxSize == [w |-> 4, h |-> 4]
=============================================================================
