---------------------------- MODULE MCRendition ----------------------------
(* 16 colours, and parameters of every kind: 0; 5, which is blink and the  *)
(* word for an extended colour; what sets, clears and extends; the last    *)
(* colour of the palette and one past it.                                  *)
EXTENDS Rendition

MCParamValues == {0, 1, 5, 22, 31, 38, 39, 48, 107, 15, 16}
MCRequests ==
    {<<>>, <<1, 31>>, <<38, 5, 15>>, <<48, 5, 16, 7>>, <<107, 22>>}
=============================================================================
