------------------------------- MODULE MCInput -------------------------------
(* A user with a cursor key, a keypad key and Enter, and a child that      *)
(* changes what they send.  The user types and pastes a character that has *)
(* an encoding and one that has none, and pastes a closing bracket.        *)
EXTENDS Input

CONSTANT MaxSteps  \* bound on the user's and the child's steps together

MCKeys == {te_key.UP, te_key.ENTER, TE_KP_EQUAL + 1}
MCChars == {"x", "surrogate"}
MCUnencodable == {"surrogate"}
MCPastes == {<<"x", "surrogate">>, <<"ESC", "[201~", "x">>}
MCModifiers == {{}, {"ctrl", "meta"}}
MCCommands ==
    [do : {"set"}, what : {"cursorapp", "keyapp", "newline", "bracketpaste"}]
      \union [do : {"clear"}, what : {"cursorapp"}]
      \union [do : {"ask", "reset"}, what : {""}]

Bound == Len(commands) + events <= MaxSteps
=============================================================================
