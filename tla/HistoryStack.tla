---------------------------- MODULE HistoryStack ----------------------------
(***************************************************************************)
(* What the scroll-back promises its users (buffer.c, viewport.c): a       *)
(* bounded stack of lines.  Storing pushes a line and forgets the oldest   *)
(* one when there is no room, fetching takes the newest back, a blank one  *)
(* when there is none, and peeking reads a line by its age.                *)
(***************************************************************************)
EXTENDS Naturals, Sequences

CONSTANTS Lines, Blank, NULL, Capacities

VARIABLES
    capacity,  \* how many lines are kept
    lines,     \* the lines kept, newest first
    row        \* the row the last store copied or the last fetch filled

vars == <<capacity, lines, row>>

Peek(age) == IF age < Len(lines) THEN lines[age + 1] ELSE NULL

(* line on top of the newest n lines kept.                                 *)
Push(line, n) == [i \in 1 .. n + 1 |-> IF i = 1 THEN line ELSE lines[i - 1]]

Init == capacity \in Capacities /\ lines = <<>> /\ row = Blank

(* A line stored where there is room for room lines.                       *)
Store(line, room) ==
    /\ room # 0
    /\ \/ Len(lines) < room  /\ lines' = Push(line, Len(lines))
       \/ Len(lines) >= room /\ lines' = Push(line, room - 1)
    /\ row' = line
    /\ UNCHANGED capacity

Fetch ==
    /\ \/ lines # <<>> /\ row' = Head(lines) /\ lines' = Tail(lines)
       \/ lines = <<>> /\ row' = Blank /\ UNCHANGED lines
    /\ UNCHANGED capacity

Clear == lines' = <<>> /\ UNCHANGED <<capacity, row>>

Next == (\E line \in Lines : Store(line, capacity)) \/ Fetch \/ Clear

Spec == Init /\ [][Next]_vars
=============================================================================
