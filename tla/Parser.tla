------------------------------- MODULE Parser -------------------------------
(***************************************************************************)
(* The control sequence parser: the transition tables of parser_states.c   *)
(* and the functions of parser.c they call, one code point a step.  What a *)
(* step asks of the terminal is recorded in called; the handlers           *)
(* themselves are Terminal's.                                              *)
(*                                                                         *)
(* A code point is named by its character or its mnemonic.  NUL            *)
(* stands for the C0 controls and SSA for the C1 controls (0x86, 0x87,     *)
(* 0x89 .. 0x8c, 0x91 .. 0x95, 0x99) that no table lists.  Definitions     *)
(* marked as mutants are deliberate mistakes.                              *)
(***************************************************************************)
EXTENDS Integers, Sequences, FiniteSetsExt

CONSTANTS
    CodePoints,  \* what the child may send
    NULL,        \* nothing: no buffer, no intermediate, no call
    IntMax,      \* INT_MAX: a parameter past it wraps
    Chunks,      \* what one te_process_input may bring
    MaxHeld      \* bound on those a sequence or an OSC string holds

(* A sequence of 16 code points has at most the 16 parameters that params  *)
(* has room for.                                                           *)
ASSUME BoundsAssumption ==
    IntMax \in Nat \ {0} /\ MaxHeld \in 0 .. 16
ASSUME ChunkAssumption == Chunks \subseteq Seq(CodePoints)

(* What an OSC string holds: what ac_osc looks at, the rest is text.       *)
OscBytes == {"0", "1", "2", ";", "text"}
ASSUME NullAssumption == NULL \notin CodePoints \union Seq(OscBytes)

VARIABLES
    state,         \* current_state
    params,        \* the num_params first of params
    intermediate,  \* intermediate_chars[0]
    osc,           \* osc_buffer, what it holds; NULL when not allocated
    input,         \* input_data: the code points not consumed yet
    called,        \* what the last step asked of the terminal
    body           \* the open control sequence so far, its C0 controls left
                   \* out, which no code keeps

vars == <<state, params, intermediate, osc, input, called, body>>

States == {"normal", "esc", "csi", "cset_shiftin", "cset_shiftout", "hash",
           "osc", "ignore_to_st", "dcs"}

C0 == {"BEL", "BS", "HT", "LF", "VT", "FF", "CR"}
NormalControls == C0 \union {"SO", "SI", "IND", "NEL", "HTS", "RI"}
EscFinals == {">", "=", "7", "8", "H", "D", "M", "E", "c"}
Intermediates == {"?", "quote", "!", ">"}
Digits == <<"0", "1", "2", "3", "4", "5", "6", "7", "8", "9">>
DigitSet == {Digits[d] : d \in 1 .. 10}
CsiFinals == {"@", "A", "B", "C", "D", "G", "HPA", "H", "J", "K", "L", "M", "P",
              "S", "T", "X", "c", "d", "f", "g", "h", "l", "m", "n", "p", "r",
              "s", "u", "x"}
ParamBytes == Intermediates \union DigitSet \union {";"}

(* The entries without an action.                                          *)
StateOption(from, on, to) == [from |-> from, on |-> on, to |-> to]
Silent ==
    {StateOption("normal", {"CAN", "SUB", "SS2", "SS3", "SPA", "SOS", "DECID", "ST"},
         "normal"),
     StateOption("normal", {"ESC"}, "esc"),
     StateOption("normal", {"EPA", "PM", "APC"}, "ignore_to_st"),
     StateOption("normal", {"DCS"}, "dcs"), StateOption("esc", {"P"}, "dcs"),
     StateOption("esc", {"("}, "cset_shiftin"), StateOption("esc", {")"}, "cset_shiftout"),
     StateOption("esc", {"#"}, "hash"), StateOption("esc", {"^", "_"}, "ignore_to_st")}
    \union {StateOption(s, {"ST"}, "normal") : s \in {"ignore_to_st", "dcs"}}
    \union {StateOption(s, {"ESC"}, "esc") : s \in {"ignore_to_st", "dcs"}}
    \union {StateOption(s, CodePoints \ {"ST", "ESC"}, s) :
               s \in {"ignore_to_st", "dcs"}}

(* The code points with an entry of their own in state_normal, and those   *)
(* that end a run of text: below 32, or 0x84 .. 0x9f.                      *)
Listed == NormalControls \union {"CSI", "OSC"}
            \union UNION {t.on : t \in {u \in Silent : u.from = "normal"}}
Controls == Listed \union {"NUL", "SSA"}

(* Arithmetic on int that wraps.                                           *)
Wrap(n) == ((n + IntMax + 1) % (2 * IntMax + 2)) - IntMax - 1
Value(c) == (CHOOSE d \in 1 .. 10 : Digits[d] = c) - 1

Held == Len(body) + (IF osc = NULL THEN 0 ELSE Len(osc))

(* parser_new sets current_state only: the parameters and the intermediate *)
(* are whatever malloc left there.  So is the pointer to the buffer, which *)
(* nothing looks at before a string starts.                                *)
Init ==
    /\ state = "normal"
    /\ params \in {<<>>, <<IntMax>>}
    /\ intermediate \in (Intermediates \intersect CodePoints) \union {NULL}
    /\ osc = NULL /\ input = <<>> /\ called = NULL /\ body = <<>>

-----------------------------------------------------------------------------
(* A chunk of the child's output arrives when the last one is consumed.    *)
(* When a sequence holds all it may, only its end can come.  fe_updated,   *)
(* called in the end, leaves the parser alone.                             *)
te_process_input ==
    /\ input = <<>>
    /\ input' \in {c \in Chunks : Len(c) + Held <= MaxHeld \/ c = <<"ST">>}
    /\ called' = NULL
    /\ UNCHANGED <<state, params, intermediate, osc, body>>

cp == input[1]

(* One round of parser_input's loop: entry of state from for code points   *)
(* cps, to state to.                                                       *)
Entry(from, cps, to) ==
    /\ input # <<>> /\ state = from /\ cp \in cps
    /\ state' = to /\ input' = Tail(input)

Quiet(from, cps, to) == Entry(from, cps, to) /\ called' = NULL

silent ==
    /\ \E t \in Silent : Quiet(t.from, t.on, t.to)
    /\ UNCHANGED <<params, intermediate, osc, body>>

(* A handler that looks at no parameter.                                   *)
Perform(from, cps, to) ==
    /\ Entry(from, cps, to)
    /\ called' = [fn |-> from, cp |-> cp]
    /\ UNCHANGED <<params, intermediate, osc, body>>

control ==
    \/ Perform("normal", NormalControls, "normal")
    \/ \E s \in {"esc", "csi"} : Perform(s, C0, s)

esc_dispatch == Perform("esc", EscFinals, "normal")

(* Any other code point designates US-ASCII.                               *)
designate ==
    /\ \E s \in {"cset_shiftin", "cset_shiftout"} :
          /\ Entry(s, CodePoints, "normal")
          /\ called' = [fn |-> s, cp |-> IF cp \in {"A", "0"} THEN cp ELSE "B"]
    /\ UNCHANGED <<params, intermediate, osc, body>>

hash ==
    /\ \/ Entry("hash", {"8"}, "normal") /\ called' = [fn |-> "hash", cp |-> "8"]
       \/ Quiet("hash", CodePoints \ {"8"}, "normal")
    /\ UNCHANGED <<params, intermediate, osc, body>>

_parser_unknown_esc ==
    /\ Quiet("esc", CodePoints \ (C0 \union EscFinals \union
               {"[", "]", "(", ")", "#", "^", "_", "P"}), "normal")
    /\ UNCHANGED <<params, intermediate, osc, body>>

-----------------------------------------------------------------------------
(* Control sequences.                                                      *)

(* Mutant of _parser_clear_param: the intermediate is kept.                *)
_parser_clear_param_KeepIntermediate ==
    /\ Quiet("normal", {"CSI"}, "csi") \/ Quiet("esc", {"["}, "csi")
    /\ params' = <<>> /\ body' = <<>>
    /\ UNCHANGED <<osc, intermediate>>

_parser_clear_param ==
    /\ Quiet("normal", {"CSI"}, "csi") \/ Quiet("esc", {"["}, "csi")
    /\ params' = <<>> /\ intermediate' = NULL /\ body' = <<>>
    /\ UNCHANGED osc

_parser_set_intermediate ==
    /\ Quiet("csi", Intermediates, "csi")
    /\ intermediate' = cp /\ body' = Append(body, cp)
    /\ UNCHANGED <<params, osc>>

_parser_param_digit ==
    /\ Quiet("csi", DigitSet, "csi")
    /\ LET ps == IF params = <<>> THEN <<0>> ELSE params
       IN  params' = [ps EXCEPT ![Len(ps)] = Wrap(@ * 10 + Value(cp))]
    /\ body' = Append(body, cp)
    /\ UNCHANGED <<intermediate, osc>>

_parser_next_param ==
    /\ Quiet("csi", {";"}, "csi")
    /\ params' = Append(params, 0)
    /\ body' = Append(body, cp)
    /\ UNCHANGED <<intermediate, osc>>

csi_dispatch ==
    /\ Entry("csi", CsiFinals, "normal")
    /\ called' = [fn |-> "csi", cp |-> cp, params |-> params,
                  intermediate |-> intermediate]
    /\ body' = <<>>
    /\ UNCHANGED <<params, intermediate, osc>>

(* Mutant of _parser_unknown_csi: the sequence goes on.                    *)
_parser_unknown_csi_Stay ==
    /\ Quiet("csi", CodePoints \ (C0 \union CsiFinals \union ParamBytes), "csi")
    /\ UNCHANGED <<params, intermediate, osc, body>>

_parser_unknown_csi ==
    /\ Quiet("csi", CodePoints \ (C0 \union CsiFinals \union ParamBytes),
             "normal")
    /\ body' = <<>>
    /\ UNCHANGED <<params, intermediate, osc>>

-----------------------------------------------------------------------------
(* Operating system commands.                                              *)

_parser_osc_start ==
    /\ Quiet("normal", {"OSC"}, "osc") \/ Quiet("esc", {"]"}, "osc")
    /\ osc' = <<>>
    /\ UNCHANGED <<params, intermediate, body>>

_parser_osc_put ==
    /\ Quiet("osc", CodePoints \ {"BEL", "ST", "ESC"}, "osc")
    /\ osc' = Append(osc, IF cp \in OscBytes THEN cp ELSE "text")
    /\ UNCHANGED <<params, intermediate, body>>

ac_osc ==
    IF Len(osc) >= 2 /\ osc[2] = ";" /\ osc[1] \in {"0", "2"}
      THEN [fn |-> "fe_title", text |-> SubSeq(osc, 3, Len(osc))] ELSE NULL

(* Mutant of _parser_osc_end: the buffer is kept when an escape follows.   *)
_parser_osc_end_Leak ==
    /\ Entry("osc", {"BEL", "ST"}, "normal") \/ Entry("osc", {"ESC"}, "esc")
    /\ called' = ac_osc
    /\ osc' = IF cp = "ESC" THEN osc ELSE NULL
    /\ UNCHANGED <<params, intermediate, body>>

_parser_osc_end ==
    /\ Entry("osc", {"BEL", "ST"}, "normal") \/ Entry("osc", {"ESC"}, "esc")
    /\ called' = ac_osc
    /\ osc' = NULL
    /\ UNCHANGED <<params, intermediate, body>>

-----------------------------------------------------------------------------
(* Text.                                                                   *)

(* Mutant of IsRun: the last code point is left for the next chunk.        *)
IsRun_ButLast(n) ==
    /\ \A i \in 1 .. n : input[i] \notin Controls
    /\ n < Len(input)
    /\ n < Len(input) - 1 => input[n + 1] \in Controls

(* The first n code points of the input are the run of text it begins with.*)
IsRun(n) ==
    /\ \A i \in 1 .. n : input[i] \notin Controls
    /\ n < Len(input) => input[n + 1] \in Controls

(* Everything state_normal does not list.  be_input is given the run,      *)
(* which is empty for an unlisted C1 control: n - 1 then takes one code    *)
(* point back and the loop's own step takes it again.                      *)
_parser_normal_input ==
    /\ input # <<>> /\ state = "normal" /\ cp \notin Listed
    /\ \/ cp = "NUL" /\ input' = Tail(input) /\ called' = NULL
       \/ /\ cp # "NUL"
          /\ \E n \in 0 .. Len(input) :
                /\ IsRun(n)
                /\ input' = SubSeq(input, n + 1, Len(input))
                /\ called' = [fn |-> "be_input", text |-> SubSeq(input, 1, n)]
    /\ UNCHANGED <<state, params, intermediate, osc, body>>

parser_input ==
    \/ silent \/ control \/ esc_dispatch \/ designate \/ hash
    \/ _parser_unknown_esc
    \/ _parser_clear_param \/ _parser_set_intermediate
    \/ _parser_param_digit \/ _parser_next_param
    \/ csi_dispatch \/ _parser_unknown_csi
    \/ _parser_osc_start \/ _parser_osc_put \/ _parser_osc_end
    \/ _parser_normal_input

Next == te_process_input \/ parser_input

(* te_process_input returns only when its loop has ended: the loop is      *)
(* fair, the child is not.                                                 *)
Spec == Init /\ [][Next]_vars /\ WF_vars(parser_input)

-----------------------------------------------------------------------------
(* Properties.                                                             *)

Ints == -IntMax - 1 .. IntMax

Calls ==
    [fn : States, cp : CodePoints \union {"B"}]
      \union [fn : {"csi"}, cp : CodePoints, params : Seq(Ints),
              intermediate : CodePoints \union {NULL}]
      \union [fn : {"fe_title", "be_input"}, text : Seq(CodePoints \union OscBytes)]

TypeOK ==
    /\ state \in States
    /\ params \in Seq(Ints)
    /\ intermediate \in CodePoints \union {NULL}
    /\ osc \in Seq(OscBytes) \union {NULL}
    /\ input \in Seq(CodePoints)
    /\ called \in Calls \union {NULL}
    /\ body \in Seq(CodePoints)

(* The OSC buffer is allocated while a string is read and only then: every *)
(* way out of the state frees it, none into it finds one that would leak,  *)
(* and a code point is only ever put into a buffer that is there.          *)
OscOwned == (osc # NULL) <=> state = "osc"

(* What the parameters of a control sequence are, computed from its text   *)
(* as a whole: the fields between the semicolons, decimal.                 *)
Separators(text) == {i \in 1 .. Len(text) : text[i] = ";"}
Positions(text) == {i \in 1 .. Len(text) : text[i] \in DigitSet}
Field(text, i) == Cardinality({j \in Separators(text) : j < i}) + 1
DigitsOf(text, k) == {i \in Positions(text) : Field(text, i) = k}
PowerOfTen(n) ==
    LET power[i \in 0 .. n] == IF i = 0 THEN 1 ELSE power[i - 1] * 10
    IN  power[n]
Worth(text, k, i) ==
    IF i \in DigitsOf(text, k)
      THEN Value(text[i]) * PowerOfTen(Cardinality({j \in DigitsOf(text, k) : j > i}))
      ELSE 0
Number(text, k) ==
    LET sum[i \in 0 .. Len(text)] == IF i = 0 THEN 0 ELSE sum[i - 1] + Worth(text, k, i)
    IN  sum[Len(text)]
Fields(text) ==
    IF Separators(text) \union Positions(text) = {} THEN <<>>
    ELSE [k \in 1 .. Cardinality(Separators(text)) + 1 |-> Wrap(Number(text, k))]
LosesFirst(text) ==
    LET at == Separators(text) \union Positions(text)
    IN  at # {} /\ text[Min(at)] = ";"
LastIntermediate(text) ==
    LET at == {i \in 1 .. Len(text) : text[i] \in Intermediates}
    IN  IF at = {} THEN NULL ELSE text[Max(at)]

(* While a control sequence is open its parameters are the numbers between *)
(* its semicolons, modulo the width of an int, whichever way the text was  *)
(* cut into chunks, whatever controls came in between, and nothing of an   *)
(* earlier sequence or of the uninitialised parser is left; but an empty   *)
(* first field is lost (CSI ;5H has one parameter).                        *)
SequenceParams ==
    state = "csi" =>
        /\ params = IF LosesFirst(body) THEN Tail(Fields(body)) ELSE Fields(body)
        /\ intermediate = LastIntermediate(body)

(* Whatever the parser is in the middle of, a string terminator (0x9c)     *)
(* brings it back to plain text.                                           *)
TerminatorRecovers ==
    [][(input # <<>> /\ cp = "ST" /\ parser_input) => state' = "normal"]_vars

(* Every chunk is consumed, and te_process_input returns, unless it comes  *)
(* to a C1 control that no table lists: the run of text it starts is       *)
(* empty, and the loop finds it again for ever, although "One character is *)
(* always consumed by parser_input()" (parser.c:228).                      *)
Stuck == state = "normal" /\ input # <<>> /\ cp = "SSA"
InputConsumed == (input # <<>>) ~> (input = <<>> \/ Stuck)
=============================================================================
