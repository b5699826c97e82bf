-------------------------------- MODULE Input --------------------------------
(***************************************************************************)
(* From the user to the child: keys and pastes go through BasicTerm and    *)
(* the handlers of libte.c, where the child's modes say what they send, to *)
(* PtyIO, which writes it to the pseudo terminal; answers to the child's   *)
(* requests take the same way.  All of it is one thread, the child is      *)
(* another process, and the pseudo terminal does not block: what does not  *)
(* fit is refused.  The mouse is in module Mouse; a report of it is one    *)
(* toSlave call, as a key is.                                              *)
(*                                                                         *)
(* A byte of a message is named by a string; "ESC" starts those of more    *)
(* than one, and the second stands for the rest.  A character's bytes are  *)
(* one name, its own.  The build is one with NDEBUG, as all but Debug are. *)
(* Definitions marked as mutants are deliberate mistakes.                  *)
(***************************************************************************)
EXTENDS Integers, SequencesExt

CONSTANTS
    Keys,         \* the special keys the user may press, of type te_key_t
    Chars,        \* the characters, in key events and pastes
    Unencodable,  \* those of them that the locale has no encoding for
    MaxStray,     \* bound on the bytes written when one has none
    Pastes,       \* the texts the user may paste
    Commands,     \* what the child may ask for: [do, what]
    Modifiers,    \* the sets of modifier keys the user may hold
    Capacity,     \* bytes the pseudo terminal holds for the child to read
    MaxCommands,  \* bound on the child's requests
    MaxEvents     \* bound on the user's events

(* libte.h: te_key_t.  FLTK's function keys are TE_KEY_F + 1 and up.       *)
te_key == [ENTER |-> 1, TAB |-> 2, ESCAPE |-> 3, BACKSPACE |-> 4, HOME |-> 5,
           INSERT |-> 6, DELETE |-> 7, END |-> 8, PGUP |-> 9, PGDN |-> 10,
           UP |-> 11, DOWN |-> 12, RIGHT |-> 13, LEFT |-> 14]
TE_KEY_F == 20
TE_KP_EQUAL == 50

(* The keys the tables have.  With any other the search runs past them.    *)
ASSUME KeysAssumption ==
    Keys \subseteq (1 .. 14) \union (TE_KEY_F + 1 .. TE_KEY_F + 20)
                     \union (TE_KP_EQUAL .. TE_KP_EQUAL + 17)
ASSUME CapacityAssumption ==
    Capacity \in Nat \ {0} /\ MaxCommands \in Nat /\ MaxEvents \in Nat

Flags == {"cursorapp", "keyapp", "newline", "bracketpaste"}

(* DECSET and DECRST of a mode; DA and the like, RIS and DECSTR.           *)
ASSUME CommandsAssumption ==
    Commands \subseteq [do : {"set", "clear"}, what : Flags]
                         \union [do : {"ask", "reset"}, what : {""}]
(* What the rest of a sequence is called, and a key of the keypad, is not  *)
(* what a character typed is called.  A paste may hold the bytes of the    *)
(* closing bracket; none of the other sequences told apart here.           *)
ASSUME CharsAssumption ==
    Chars \intersect {"[?c", "[200~", "OA", "[A", "Oo", "/", "LF", "stray"} = {}
ASSUME UnencodableAssumption ==
    /\ Unencodable \subseteq Chars \ {"ESC", "[201~"}
    /\ MaxStray \in Nat
ASSUME PastesAssumption == Pastes \subseteq Seq(Chars \union {"ESC", "[201~"})

VARIABLES
    commands,    \* all the child wrote; the terminal has
    handled,     \*     handled of them
    mode_flags,  \* of Flags, those that are set
    sending,     \* the toSlave calls of the handler that runs, each the bytes
                 \* it has still to write; <<>> when the thread is idle
    pty,         \* bytes the child has still to read
    received,    \* bytes it has read
    given,       \* all bytes toSlave had to write, which no code keeps
    refused,     \* a write was refused, which no code keeps
    events       \* number of the user's events so far

child == <<commands, received>>
terminal == <<handled, mode_flags>>
wire == <<sending, given>>
inputVars == <<child, terminal, wire, pty, refused, events>>

InputInit ==
    /\ commands = <<>> /\ handled = 0 /\ mode_flags = {}
    /\ sending = <<>> /\ pty = <<>> /\ received = <<>>
    /\ given = <<>> /\ refused = FALSE
    /\ events = 0

-----------------------------------------------------------------------------
(* PtyIO::toSlave.  A handler's calls are written one after another; each  *)
(* write takes what fits, or less.                                         *)

Idle == sending = <<>>

(* What toSlave has to write for the string s.  A character without an     *)
(* encoding ends the conversion with an error that toSlave does not look   *)
(* at, and with its length not set: nwritten bytes are written, those that *)
(* were converted and then what the stack holds.                           *)
Encodes(s) == \A i \in 1 .. Len(s) : s[i] \notin Unencodable
str_cps_to_mbs_n(s, nwritten) ==
    IF Encodes(s) THEN s
    ELSE [i \in 1 .. nwritten |->
            IF \E k \in 1 .. Len(s) : k <= i /\ s[k] \in Unencodable
              THEN "stray" ELSE s[i]]

(* One call of a handler at most has the user's text.                      *)
Send(calls) ==
    \E nwritten \in 0 .. MaxStray :
       LET bytes == [i \in 1 .. Len(calls) |-> str_cps_to_mbs_n(calls[i], nwritten)]
       IN  sending' = bytes /\ given' = given \o FlattenSeq(bytes)
Unsent == UNCHANGED wire

Rest(s, n) == SubSeq(s, n + 1, Len(s))

(* Mutant of Write: src is not advanced.                                   *)
Write_SameSource ==
    /\ ~Idle /\ Len(pty) < Capacity
    /\ \E n \in 1 .. Min({Capacity - Len(pty), Len(sending[1])}) :
          /\ pty' = pty \o SubSeq(sending[1], 1, n)
          /\ sending' = IF n = Len(sending[1]) THEN Tail(sending)
                        ELSE [sending EXCEPT ![1] = SubSeq(@, 1, Len(@) - n)]
    /\ UNCHANGED <<child, terminal, given, refused, events>>
Write ==
    /\ ~Idle /\ Len(pty) < Capacity
    /\ \E n \in 1 .. Min({Capacity - Len(pty), Len(sending[1])}) :
          /\ pty' = pty \o SubSeq(sending[1], 1, n)
          /\ sending' = IF n = Len(sending[1]) THEN Tail(sending)
                        ELSE [sending EXCEPT ![1] = Rest(@, n)]
    /\ UNCHANGED <<child, terminal, given, refused, events>>

(* Mutant of Refused: the write is repeated until it is not.               *)
Refused_Again ==
    /\ ~Idle /\ sending[1] # <<>> /\ Len(pty) = Capacity
    /\ refused' = TRUE
    /\ UNCHANGED <<sending, child, terminal, given, pty, events>>

(* A full pseudo terminal: the rest of this call is dropped, the handler's *)
(* next one starts.                                                        *)
Refused ==
    /\ ~Idle /\ sending[1] # <<>> /\ Len(pty) = Capacity
    /\ refused' = TRUE /\ sending' = Tail(sending)
    /\ UNCHANGED <<child, terminal, given, pty, events>>

(* Nothing to write: an empty paste, or a length that happened to be 0.    *)
Nothing ==
    /\ ~Idle /\ sending[1] = <<>>
    /\ sending' = Tail(sending)
    /\ UNCHANGED <<child, terminal, given, pty, refused, events>>

toSlave == Write \/ Refused \/ Nothing

-----------------------------------------------------------------------------
(* The child, at any time.                                                 *)

child_request ==
    /\ Len(commands) < MaxCommands
    /\ \E c \in Commands : commands' = Append(commands, c)
    /\ UNCHANGED <<received, terminal, wire, pty, refused, events>>

child_read ==
    /\ pty # <<>>
    /\ received' = Append(received, Head(pty)) /\ pty' = Tail(pty)
    /\ UNCHANGED <<commands, terminal, wire, refused, events>>

(* The requests, in the terminal: actions.c.                               *)

(* What an answer says is not looked at: "[?c" stands for all of it.       *)
Answer(string) == Send(<< <<"ESC", string>> >>)

ac_set_mode(what) == mode_flags' = mode_flags \union {what} /\ Unsent
ac_clear_mode(what) == mode_flags' = mode_flags \ {what} /\ Unsent

(* DA, or DSR or DECREQTPARM, whose answers differ in their text only.     *)
ac_device_attrib ==
    Answer("[?c") /\ UNCHANGED mode_flags

(* RIS and DECSTR.                                                         *)
ac_reset == mode_flags' = {} /\ Unsent

Handle(command) ==
    CASE command.do = "set"   -> ac_set_mode(command.what)
      [] command.do = "clear" -> ac_clear_mode(command.what)
      [] command.do = "ask"   -> ac_device_attrib
      [] command.do = "reset" -> ac_reset

(* te_process_input, for one request.                                      *)
process_request ==
    /\ Idle /\ handled < Len(commands)
    /\ handled' = handled + 1
    /\ Handle(commands[handled + 1])
    /\ UNCHANGED <<child, pty, refused, events>>

-----------------------------------------------------------------------------
(* Keys and pastes: libte.c.                                               *)

(* A user's event, when the thread is idle; FLTK keeps those that come     *)
(* while it is not.                                                        *)
Event == Idle /\ events < MaxEvents /\ events' = events + 1

Esc(s) == <<"ESC", s>>

(* The tables of key strings: the cursor keys; Home, End and the keypad    *)
(* (= / * - + . , Enter and the digits), in te_key_t's order; the others.  *)
Cursor(strings) ==
    [k \in te_key.UP .. te_key.LEFT |-> Esc(strings[k - te_key.UP + 1])]
_keys_cursor_keys_on == Cursor(<<"OA", "OB", "OC", "OD">>)
_keys_cursor_keys_off == Cursor(<<"[A", "[B", "[C", "[D">>)
Keypad(home, end, strings) ==
    [k \in {te_key.HOME, te_key.END} \union (TE_KP_EQUAL .. TE_KP_EQUAL + 17) |->
        IF k = te_key.HOME THEN Esc(home)
        ELSE IF k = te_key.END THEN Esc(end)
        ELSE strings[k - TE_KP_EQUAL + 1]]
_keys_normal ==
    LET strings == <<"=", "/", "*", "-", "+", ".", "comma", "CR", "0", "1", "2", "3",
                     "4", "5", "6", "7", "8", "9">>
    IN  Keypad("[H", "[F", [i \in 1 .. 18 |-> <<strings[i]>>])
_keys_app ==
    LET strings == <<"OX", "Oo", "Oj", "Om", "Ok", "On", "Ol", "OM", "Op", "Oq",
                     "Or", "Os", "Ot", "Ou", "Ov", "Ow", "Ox", "Oy">>
    IN  Keypad("OH", "OF", [i \in 1 .. 18 |-> Esc(strings[i])])
_keys_common ==
    LET functions == <<"[11~", "[12~", "[13~", "[14~", "[15~", "[17~", "[18~",
                       "[19~", "[20~", "[21~", "[23~", "[24~", "[25~", "[26~",
                       "[28~", "[29~", "[31~", "[32~", "[33~", "[34~">>
    IN  [k \in ((te_key.TAB .. te_key.PGDN) \ {te_key.HOME, te_key.END})
                 \union (TE_KEY_F + 1 .. TE_KEY_F + 20) |->
            CASE k = te_key.TAB       -> <<"TAB">>
              [] k = te_key.ESCAPE    -> <<"ESC">>
              [] k = te_key.BACKSPACE -> <<"BS">>
              [] k = te_key.INSERT    -> Esc("[2~")
              [] k = te_key.DELETE    -> Esc("[3~")
              [] k = te_key.PGUP      -> Esc("[5~")
              [] k = te_key.PGDN      -> Esc("[6~")
              [] OTHER                -> Esc(functions[k - TE_KEY_F])]

(* What a key sends: Enter and Backspace first, then the first table that  *)
(* has the key.                                                            *)
KeyString(key, modifiers, flags) ==
    LET tables ==
          <<IF "cursorapp" \in flags THEN _keys_cursor_keys_on
                                     ELSE _keys_cursor_keys_off,
            IF "keyapp" \in flags THEN _keys_app ELSE _keys_normal,
            _keys_common>>
    IN  IF key = te_key.ENTER
          THEN IF "newline" \in flags THEN <<"CR", "LF">> ELSE <<"CR">>
        ELSE IF key = te_key.BACKSPACE /\ "shift" \notin modifiers THEN <<"DEL">>
        ELSE tables[Min({t \in 1 .. 3 : key \in DOMAIN tables[t]})][key]

(* Mutant of te_handle_button: the modes are not looked at.                *)
te_handle_button_DefaultModes ==
    \E key \in Keys, modifiers \in Modifiers :
       /\ Event /\ Send(<<KeyString(key, modifiers, {})>>)
       /\ UNCHANGED <<child, terminal, pty, refused>>

te_handle_button ==
    \E key \in Keys, modifiers \in Modifiers :
       /\ Event /\ Send(<<KeyString(key, modifiers, mode_flags)>>)
       /\ UNCHANGED <<child, terminal, pty, refused>>

(* A character typed; Ctrl with a few of them is a control character.      *)
Control ==
    [c \in {"space", "@", "^", "~", "grave"} |->
        IF c \in {"space", "@"} THEN "NUL" ELSE "RS"]
te_handle_keypress ==
    \E code \in Chars, modifiers \in Modifiers :
       /\ Event
       /\ Send(<<IF "ctrl" \in modifiers /\ code \in DOMAIN Control
                   THEN <<Control[code]>>
                 ELSE IF "meta" \in modifiers THEN <<"ESC", code>>
                 ELSE <<code>> >>)
       /\ UNCHANGED <<child, terminal, pty, refused>>

(* Mutant of te_paste_text: one toSlave call less, the closing bracket.    *)
te_paste_text_Unclosed ==
    \E data \in Pastes :
       /\ Event
       /\ Send(IF "bracketpaste" \in mode_flags
                 THEN <<Esc("[200~"), data>> ELSE <<data>>)
       /\ UNCHANGED <<child, terminal, pty, refused>>

(* The text goes as it is, also when it holds the closing bracket.         *)
te_paste_text ==
    \E data \in Pastes :
       /\ Event
       /\ Send(IF "bracketpaste" \in mode_flags
                 THEN <<Esc("[200~"), data, Esc("[201~")>> ELSE <<data>>)
       /\ UNCHANGED <<child, terminal, pty, refused>>

-----------------------------------------------------------------------------

InputNext ==
    \/ toSlave \/ process_request
    \/ child_request \/ child_read
    \/ te_handle_button \/ te_handle_keypress \/ te_paste_text

(* A handler that has begun goes on; the user and the child need not.      *)
InputSpec == InputInit /\ [][InputNext]_inputVars /\ WF_inputVars(toSlave)

-----------------------------------------------------------------------------
(* Properties.                                                             *)

InputTypeOK ==
    /\ commands \in Seq(Commands) /\ handled \in 0 .. Len(commands)
    /\ mode_flags \subseteq Flags
    /\ Len(sending) \in 0 .. 3
    /\ Len(pty) <= Capacity

(* How much of s is found in t, in that order, is all of it.               *)
Subsequence(s, t) ==
    LET found[n \in 0 .. Len(t)] ==
          IF n = 0 THEN 0
          ELSE LET before == found[n - 1]
               IN  IF before < Len(s) /\ s[before + 1] = t[n] THEN before + 1
                                                              ELSE before
    IN  found[Len(t)] = Len(s)

(* Keys, pastes, reports and answers reach the child in the order they     *)
(* were made, none inside another, doubled or torn by a short write; bytes *)
(* are only missing once a write was refused.                              *)
ArrivesInOrder ==
    LET passed == received \o pty
    IN  IF refused THEN Subsequence(passed, given)
        ELSE passed \o FlattenSeq(sending) = given

(* What the modes of the child's first n requests are: for each the last   *)
(* request about it counts.                                                *)
IsSet(flag, n) ==
    LET about == {i \in 1 .. n : \/ commands[i].do = "reset"
                                 \/ commands[i].do # "ask" /\ commands[i].what = flag}
    IN  about # {} /\ commands[Max(about)].do = "set"

(* A child that asked something after it had changed a mode, and has read  *)
(* the answer, can rely on the mode: of what it reads from then on nothing *)
(* was encoded for the modes of its earlier requests.                      *)
SaysSet ==
    [b \in {"OA", "Oo", "LF", "[200~"} |->
        CASE b = "OA" -> "cursorapp" [] b = "Oo" -> "keyapp"
          [] b = "LF" -> "newline" [] b = "[200~" -> "bracketpaste"]
SaysClear == [b \in {"[A", "/"} |-> IF b = "[A" THEN "cursorapp" ELSE "keyapp"]
KeysFollowModes ==
    \A i \in 1 .. Len(received) :
        LET answers == Cardinality({j \in 1 .. i - 1 : received[j] = "[?c"})
            asked == {n \in 0 .. Len(commands) :
                        answers <= Cardinality({j \in 1 .. n : commands[j].do = "ask"})}
        IN  /\ received[i] \in DOMAIN SaysSet =>
                 \E n \in asked : IsSet(SaysSet[received[i]], n)
            /\ received[i] \in DOMAIN SaysClear =>
                 \E n \in asked : ~IsSet(SaysClear[received[i]], n)

(* Toward internal.h:107, bracketed paste is for a program to tell "pasted *)
(* text from typed-in text": as long as nothing was refused, all it gets   *)
(* after ESC [ 200 ~ and before the next ESC [ 201 ~ is of a paste, also   *)
(* when its requests are answered and keys are pressed while the paste is  *)
(* written.  The converse does not hold: te_paste_text filters nothing,    *)
(* and what follows an ESC [ 201 ~ of the paste's own comes as if typed.   *)
PasteApart ==
    LET bytes == received \o pty
        Open(i, j) == bytes[i] = "[200~" /\ \A k \in i + 1 .. j : bytes[k] # "[201~"
    IN  ~refused =>
          \A j \in 1 .. Len(bytes) : (\E i \in 1 .. j - 1 : Open(i, j)) =>
              bytes[j] \in Chars \union {"ESC", "stray"}

(* However full the pseudo terminal is, and if the child never reads, the  *)
(* thread gets out of its handler: it does not wait for the child, which   *)
(* may be waiting for it.                                                  *)
NeverHangs == ~Idle ~> Idle
=============================================================================
