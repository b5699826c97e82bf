------------------------------ MODULE Frontend ------------------------------
(***************************************************************************)
(* From the pseudo terminal to the window: flterm opens a terminal, starts *)
(* the child on it and makes the window; PtyIO reads what the child        *)
(* writes, converts it and hands it to BasicTerm, which draws some time    *)
(* after the last update; the exit of the child closes the window.         *)
(*                                                                         *)
(* A byte is named by its part in UTF-8: "a" a character of one byte, "L2" *)
(* and "L3" the first byte of one of two or three, "C" one that continues  *)
(* it, "NUL" and "bad" what no text has.  The first byte stands for the    *)
(* character, too.  Definitions marked as mutants are deliberate mistakes. *)
(***************************************************************************)
EXTENDS Integers, SequencesExt

CONSTANTS
    Output,      \* what the child may write: first bytes, "NUL" or "bad"
    _BUFSIZE,    \* of the read buffer
    Delay,       \* ticks of the redraw timer
    MaxWritten,  \* bound on the characters the child writes
    NULL

Length == [a |-> 1, L2 |-> 2, L3 |-> 3, NUL |-> 1, bad |-> 1]
Bytes == DOMAIN Length \union {"C"}

ASSUME OutputAssumption == Output \subseteq DOMAIN Length
(* The buffer holds a character and the first bytes of another.            *)
ASSUME SizesAssumption ==
    _BUFSIZE \in Nat /\ _BUFSIZE > 3 /\ Delay \in Nat /\ MaxWritten \in Nat
ASSUME NullAssumption == NULL \notin Nat \union {"eof", "empty"}

VARIABLES
    at,         \* where _spawnTerm_cb is, "idle" when it does not run
    held,       \* what flterm holds for the window: the memory of its
                \* environment, error and TE_Pty, descriptors ptm and pts
    childfds,   \* which of the two the child has
    child,      \* the child process: not started, forked, running, its
                \* descriptors closed, waitable, or waited for
    pipe,       \* what the pseudo terminal holds for the master to read
    written,    \* all the child wrote, which no code keeps
    _pty,       \* PtyIO still owns the pseudo terminal
    _buf,       \* the _fill first bytes of _buf
    restored,   \* how often te_pty_restore ran, which no code keeps
    delivered,  \* all teProcessInput was given, which no code keeps
    told,       \* why event_childexit was called: the end of file, or a
                \* read that gave no character; NULL when it was not
    window,     \* TermWindow, the widgets and PtyIO: not made yet, open,
                \* or closed and deleted
    timer,      \* ticks until _deferred_update_cb; NULL when not started
    damage,     \* FLTK has to call draw
    undrawn     \* an update has not been drawn, which no code keeps

slaveVars == <<child, childfds, pipe, written>>
ioVars == <<_pty, _buf, restored, delivered, told>>
ptyVars == <<held, ioVars>>
widgetVars == <<timer, damage, undrawn>>
vars == <<at, slaveVars, ptyVars, window, widgetVars>>

Init ==
    /\ at = "idle" /\ held = {} /\ childfds = {}
    /\ child = "none" /\ pipe = <<>> /\ written = <<>>
    /\ _pty = FALSE /\ _buf = <<>> /\ restored = 0
    /\ delivered = <<>> /\ told = NULL /\ window = "none"
    /\ timer = NULL /\ damage = FALSE /\ undrawn = FALSE

-----------------------------------------------------------------------------
(* The child and the window are started.  te_pty_spawn takes steps that    *)
(* may each fail.                                                          *)

Gives == [malloc |-> {"pty"}, openpt |-> {"ptm"}, grantpt |-> {},
          unlockpt |-> {}, open |-> {"pts"}]
Following == [malloc |-> "openpt", openpt |-> "grantpt", grantpt |-> "unlockpt",
              unlockpt |-> "open", open |-> "fork"]

(* When augmenting the environment fails nothing is held.                  *)
_spawnTerm_cb ==
    /\ at = "idle" /\ window = "none"
    /\ at' = "malloc" /\ held' = {"env"}
    /\ UNCHANGED <<slaveVars, ioVars, window, widgetVars>>

Succeed ==
    /\ at \in DOMAIN Gives
    /\ at' = Following[at] /\ held' = held \union Gives[at]
    /\ UNCHANGED <<slaveVars, ioVars, window, widgetVars>>

(* Mutant of fail: only the master closed.                                 *)
fail_KeepSlave ==
    /\ at \in DOMAIN Gives \union {"fork"}
    /\ at' = "failed" /\ held' = (held \ {"ptm", "pty"}) \union {"err"}
    /\ UNCHANGED <<slaveVars, ioVars, window, widgetVars>>

(* What is not open yet is not closed.                                     *)
fail ==
    /\ at \in DOMAIN Gives \union {"fork"}
    /\ at' = "failed" /\ held' = (held \ {"pts", "ptm", "pty"}) \union {"err"}
    /\ UNCHANGED <<slaveVars, ioVars, window, widgetVars>>

(* The alert.                                                              *)
Failed ==
    /\ at = "failed"
    /\ at' = "idle" /\ held' = held \ {"env", "err"}
    /\ UNCHANGED <<slaveVars, ioVars, window, widgetVars>>

(* The child begins with the descriptors of its parent, which closes its   *)
(* own of the slave's side.                                                *)
fork ==
    /\ at = "fork" /\ at' = "window"
    /\ child' = "forked" /\ childfds' = held \intersect {"ptm", "pts"}
    /\ held' = held \ {"pts"}
    /\ UNCHANGED <<pipe, written, ioVars, window, widgetVars>>

TermWindow ==
    /\ at = "window" /\ at' = "idle"
    /\ held' = held \ {"env"}
    /\ _pty' = TRUE /\ window' = "open"
    /\ UNCHANGED <<slaveVars, _buf, restored, delivered, told, widgetVars>>

te_pty_spawn == Succeed \/ fail \/ Failed \/ fork \/ TermWindow

(* The new process takes the slave's side as 0, 1 and 2, closes what else  *)
(* it has and runs the program, or says on it why it cannot and exits.     *)
child_setup ==
    /\ child = "forked" /\ child' = "running"
    /\ childfds' = childfds \ {"ptm"}
    /\ UNCHANGED <<at, pipe, written, ptyVars, window, widgetVars>>

-----------------------------------------------------------------------------
(* The child, at any time.                                                 *)

Encoding(c) == [i \in 1 .. Length[c] |-> IF i = 1 THEN c ELSE "C"]

child_write ==
    /\ child = "running" /\ Len(written) < MaxWritten
    /\ \E c \in Output :
          written' = Append(written, c) /\ pipe' = pipe \o Encoding(c)
    /\ UNCHANGED <<at, child, childfds, ptyVars, window, widgetVars>>

(* The kernel closes the descriptors of a process that exits before the    *)
(* process can be waited for.                                              *)
child_exit ==
    /\ \/ child \in {"forked", "running"} /\ child' = "closed"
       \/ child = "closed" /\ child' = "waitable"
    /\ childfds' = {}
    /\ UNCHANGED <<at, pipe, written, ptyVars, window, widgetVars>>

-----------------------------------------------------------------------------
(* strutil.c: whether s is text, its characters, and the bytes left of an   *)
(* incomplete one at its end.                                              *)

Decoded(cps, left) == [ok |-> TRUE, cps |-> cps, left |-> left]
NotText == [ok |-> FALSE]
Invalid(s) ==
    \/ s[1] \in {"C", "NUL", "bad"}
    \/ \E i \in 2 .. Min({Length[s[1]], Len(s)}) : s[i] # "C"

(* Mutant of str_mbs_to_cps_n: the bytes of an incomplete character are    *)
(* dropped.                                                                *)
str_mbs_to_cps_n_DropRest(s) ==
    LET from[i \in 1 .. Len(s) + 1] ==
          LET rest == SubSeq(s, i, Len(s))
          IN  IF rest = <<>> THEN Decoded(<<>>, <<>>)
              ELSE IF Invalid(rest) THEN NotText
              ELSE IF Len(rest) < Length[s[i]] THEN Decoded(<<>>, <<>>)
              ELSE LET r == from[i + Length[s[i]]]
                   IN  IF r.ok THEN Decoded(<<s[i]>> \o r.cps, r.left) ELSE NotText
    IN  from[1]

str_mbs_to_cps_n(s) ==
    LET from[i \in 1 .. Len(s) + 1] ==
          LET rest == SubSeq(s, i, Len(s))
          IN  IF rest = <<>> THEN Decoded(<<>>, <<>>)
              ELSE IF Invalid(rest) THEN NotText
              ELSE IF Len(rest) < Length[s[i]] THEN Decoded(<<>>, rest)
              ELSE LET r == from[i + Length[s[i]]]
                   IN  IF r.ok THEN Decoded(<<s[i]>> \o r.cps, r.left) ELSE NotText
    IN  from[1]

-----------------------------------------------------------------------------
(* The widget's redraw.                                                    *)

(* Mutant of fe_updated: the timer is started before the old one is        *)
(* removed.                                                                *)
fe_updated_Swapped == timer' = NULL /\ undrawn' = TRUE /\ UNCHANGED damage

(* The timer is removed and started anew.                                  *)
fe_updated == timer' = Delay /\ undrawn' = TRUE /\ UNCHANGED damage

(* The user scrolls the view.                                              *)
te_position ==
    /\ window = "open" /\ fe_updated
    /\ UNCHANGED <<at, slaveVars, ptyVars, window>>

Tick ==
    /\ window = "open" /\ timer # NULL /\ timer > 0
    /\ timer' = timer - 1
    /\ UNCHANGED <<at, slaveVars, ptyVars, window, damage, undrawn>>

_deferred_update_cb ==
    /\ window = "open" /\ timer = 0
    /\ timer' = NULL /\ damage' = TRUE
    /\ UNCHANGED <<at, slaveVars, ptyVars, window, undrawn>>

(* A part of the window was hidden, or the user asked for a redraw.        *)
redraw ==
    /\ window = "open" /\ damage' = TRUE
    /\ UNCHANGED <<at, slaveVars, ptyVars, window, timer, undrawn>>

draw ==
    /\ window = "open" /\ damage
    /\ damage' = FALSE /\ undrawn' = FALSE
    /\ UNCHANGED <<at, slaveVars, ptyVars, window, timer>>

-----------------------------------------------------------------------------
(* PtyIO.                                                                  *)

(* Closes and frees.  WNOHANG: a child that is not waitable yet is left    *)
(* alone.                                                                  *)
te_pty_restore(times) ==
    /\ restored' = restored + times
    /\ child' = IF times > 0 /\ child = "waitable" THEN "reaped" ELSE child
    /\ held' = IF times > 0 THEN held \ {"ptm", "pty"} ELSE held

(* PtyIO's destructor restores the pseudo terminal if PtyIO still owns it. *)
Destroyed(pty) == IF pty THEN 1 ELSE 0

(* A callback of length 0 closes the window, which deletes the widgets and *)
(* PtyIO.  A timer that is running is not removed.                         *)
event_childexit(why) == told' = why /\ window' = "closed"

(* The user closes the window, with a key of it or of the program.         *)
_close ==
    /\ window = "open" /\ window' = "closed"
    /\ te_pty_restore(Destroyed(_pty))
    /\ UNCHANGED <<at, childfds, pipe, written, _pty, _buf, delivered, told,
                   widgetVars>>

space == _BUFSIZE - Len(_buf)

(* There is something to read, or nobody holds the slave's side any more.  *)
Readable ==
    /\ window = "open"
    /\ pipe # <<>> \/ "pts" \notin held \union childfds

(* Mutants of EndOfFile: PtyIO does not forget the pseudo terminal; an     *)
(* error of read is not an end.                                            *)
EndOfFile_KeepPty ==
    /\ Readable /\ (pipe = <<>> \/ space = 0)
    /\ te_pty_restore(1 + Destroyed(_pty)) /\ UNCHANGED _pty
    /\ event_childexit("eof")
    /\ UNCHANGED <<at, childfds, pipe, written, _buf, delivered, widgetVars>>
EndOfFile_OnlyZero ==
    /\ Readable /\ space = 0
    /\ te_pty_restore(1 + Destroyed(FALSE)) /\ _pty' = FALSE
    /\ event_childexit("eof")
    /\ UNCHANGED <<at, childfds, pipe, written, _buf, delivered, widgetVars>>

(* Nothing to read, or no room to read into: read returns -1 or 0.         *)
EndOfFile ==
    /\ Readable /\ (pipe = <<>> \/ space = 0)
    /\ te_pty_restore(1 + Destroyed(FALSE)) /\ _pty' = FALSE
    /\ event_childexit("eof")
    /\ UNCHANGED <<at, childfds, pipe, written, _buf, delivered, widgetVars>>

(* Mutant of Rejected: what is not text stays in the buffer.               *)
Rejected_Keep(bytes) == bytes

(* What is kept of a buffer that is not text: nothing of it, valid or not. *)
Rejected(bytes) == <<>>

Read ==
    /\ Readable
    /\ \E n \in 1 .. Min({space, Len(pipe)}) :
          LET bytes == _buf \o SubSeq(pipe, 1, n)
              r == str_mbs_to_cps_n(bytes)
          IN  /\ pipe' = SubSeq(pipe, n + 1, Len(pipe))
              /\ \/ /\ ~r.ok
                    /\ _buf' = Rejected(bytes)
                    /\ UNCHANGED <<child, held, restored, delivered, told, window,
                                   widgetVars>>
                 \/ /\ r.ok /\ r.cps # <<>>
                    /\ _buf' = r.left
                    /\ delivered' = delivered \o r.cps /\ fe_updated
                    /\ UNCHANGED <<child, held, restored, told, window>>
                 \/ /\ r.ok /\ r.cps = <<>>
                    /\ _buf' = r.left
                    /\ event_childexit("empty") /\ te_pty_restore(Destroyed(_pty))
                    /\ UNCHANGED <<delivered, widgetVars>>
    /\ UNCHANGED <<at, childfds, written, _pty>>

_fromSlave == EndOfFile \/ Read

Next ==
    \/ _spawnTerm_cb \/ te_pty_spawn \/ child_setup
    \/ child_write \/ child_exit
    \/ _fromSlave
    \/ te_position \/ _close
    \/ Tick \/ _deferred_update_cb \/ redraw \/ draw

(* te_pty_spawn and what it starts in the child run on; FLTK's loop calls  *)
(* what is due: descriptors, timers and draws.  The program the child runs *)
(* and the user are not fair.                                              *)
Spec ==
    /\ Init /\ [][Next]_vars
    /\ WF_vars(te_pty_spawn) /\ WF_vars(child_setup)
    /\ WF_vars(_fromSlave) /\ WF_vars(Tick)
    /\ WF_vars(_deferred_update_cb) /\ WF_vars(draw)

-----------------------------------------------------------------------------
(* Properties.                                                             *)

TypeOK ==
    /\ at \in DOMAIN Gives \union {"fork", "window", "failed", "idle"}
    /\ held \subseteq {"env", "err", "pty", "ptm", "pts"}
    /\ childfds \subseteq {"ptm", "pts"}
    /\ child \in {"none", "forked", "running", "closed", "waitable", "reaped"}
    /\ pipe \in Seq(Bytes) /\ written \in Seq(Output)
    /\ _pty \in BOOLEAN /\ restored \in Nat
    /\ _buf \in Seq(Bytes) /\ Len(_buf) < 3
    /\ delivered \in Seq(DOMAIN Length)
    /\ told \in {NULL, "eof", "empty"} /\ window \in {"none", "open", "closed"}
    /\ timer \in 0 .. Delay \union {NULL}
    /\ damage \in BOOLEAN /\ undrawn \in BOOLEAN

IsText == \A i \in 1 .. Len(written) : written[i] \notin {"NUL", "bad"}
BytesOf(cs) ==
    LET upto[n \in 0 .. Len(cs)] ==
          IF n = 0 THEN <<>> ELSE upto[n - 1] \o Encoding(cs[n])
    IN  upto[Len(cs)]

(* However the reads cut the child's output, also inside a character, no   *)
(* byte of a text is lost, doubled or moved: what was delivered, what the  *)
(* buffer keeps and what is not read yet are together what was written.    *)
TextInOrder == IsText => BytesOf(delivered) \o _buf \o pipe = BytesOf(written)

(* The pseudo terminal is restored (closed, freed) once and not before     *)
(* PtyIO goes, whether the child ends, the user closes the window, or a    *)
(* read that gives no character is taken for the end.                      *)
RestoredOnce == restored = IF window = "closed" THEN 1 ELSE 0

(* Whichever step of opening the terminal and starting the child fails,    *)
(* and however the window closes, nothing is leaked: outside of            *)
(* _spawnTerm_cb flterm holds the master and the TE_Pty of an open window, *)
(* and nothing else.  The program the child runs has the slave's side      *)
(* only, so that closing the master hangs it up.                           *)
HeldWhileOpen ==
    /\ at = "idle" => held = IF window = "open" THEN {"pty", "ptm"} ELSE {}
    /\ child = "running" => childfds = {"pts"}

Ended == child \in {"closed", "waitable", "reaped"}

(* An end of file is the end: the child has closed its side, all of its    *)
(* output is read, and if it is text all of it was delivered.  In          *)
(* particular the buffer never is so full that read is asked for nothing   *)
(* and its 0 taken for an end.                                             *)
EofMeansAll ==
    told = "eof" => /\ Ended /\ pipe = <<>>
                    /\ IsText => delivered = written

(* Once the child has ended, be it before its window is made, the window   *)
(* closes, however long the user goes on scrolling.                        *)
ExitSeen == Ended ~> window = "closed"

(* If updates pause for good, what was updated gets drawn.  (While they    *)
(* go on it need not: each starts the timer anew.)                         *)
UpdateDrawn ==
    <>[][timer' # Delay]_vars => (undrawn ~> (~undrawn \/ window = "closed"))

(* Flx_SlaveIO.hpp:27, "length of child data, or 0 for exit": the child is *)
(* only said to have exited when it has.                                   *)
ToldOnlyAtExit == told # NULL => Ended
=============================================================================
