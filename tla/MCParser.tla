------------------------------ MODULE MCParser ------------------------------
(* The parser on code points that reach every entry of its tables.         *)
EXTENDS Parser

MCCodePoints ==
    {"ESC", "CSI", "OSC", "ST", "SSA", "NUL", "LF", "BEL", "PM",
     "[", "]", "(", "#", "P", "?", ";", "8", "2"}
(* One code point at a time, and runs of text with what may end them.      *)
MCChunks ==
    {<<c>> : c \in MCCodePoints}
      \union {<<c, d>> : c \in MCCodePoints, d \in {"P", ";", "ESC"}}
      \union {<<"P", "P", c>> : c \in {"SSA", "LF", "P"}}
=============================================================================
