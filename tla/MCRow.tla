------------------------------- MODULE MCRow -------------------------------
(* Two renditions, one inverse: a row cleared with it looks like neither.  *)
EXTENDS Row

CONSTANTS plain, red, inverse

MCStyles == {red, inverse}
MCCleared == [s \in MCStyles |-> IF s = inverse THEN plain ELSE s]
=============================================================================
