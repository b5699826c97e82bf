---------------------------- MODULE StreamProofs ----------------------------
(***************************************************************************)
(* Theorems about the two streams between the child and the terminal:      *)
(* first Parser, the child's output, for every alphabet, every way of      *)
(* cutting it into chunks and every width of int; then Input, what goes    *)
(* to the child, for every pseudo terminal, all keys and all requests.     *)
(***************************************************************************)
EXTENDS Parser, Input, SequenceTheorems, FiniteSetTheorems, TLAPS

-----------------------------------------------------------------------------
(* Types.                                                                  *)

LEMMA ModTyped == ASSUME NEW a \in Int, NEW b \in Nat \ {0} PROVE a % b \in 0 .. b - 1
OBVIOUS

LEMMA WrapTyped == ASSUME NEW n \in Int PROVE Wrap(n) \in Ints
<1> DEFINE a == n + IntMax + 1
           b == 2 * IntMax + 2
<1>1. IntMax \in Nat /\ a \in Int /\ b \in Nat \ {0}
  BY BoundsAssumption
<1>2. a % b \in 0 .. b - 1
  <2> HIDE DEF a, b
  <2> QED
    BY <1>1, ModTyped
<1>3. ASSUME NEW r \in 0 .. b - 1 PROVE r - IntMax - 1 \in Ints
  BY <1>1, <1>3 DEF Ints
<1> QED
  BY <1>2, <1>3, Zenon DEF Wrap

LEMMA ValueTyped == ASSUME NEW c \in DigitSet PROVE Value(c) \in 0 .. 9
<1>1. \E d \in 1 .. 10 : Digits[d] = c
  BY DEF DigitSet
<1> QED
  BY <1>1 DEF Value

(* The rest of the input after a code point or a run of them.              *)
LEMMA RestTyped ==
    ASSUME TypeOK, input # <<>>
    PROVE  cp \in CodePoints /\ Tail(input) \in Seq(CodePoints)
BY DEF TypeOK, cp

LEMMA EntryTyped ==
    ASSUME TypeOK, NEW from, NEW cps, NEW to \in States, Entry(from, cps, to)
    PROVE  /\ cp \in CodePoints /\ cp \in cps /\ state = from
           /\ state' \in States /\ input' \in Seq(CodePoints)
BY RestTyped DEF Entry

(* A silent entry leads to a state of the tables; none is of, or leads to, *)
(* the state that reads an OSC string, or leads into a control sequence;   *)
(* and one for the string terminator leads back to plain text.             *)
LEMMA SilentEntries ==
    ASSUME NEW t \in Silent
    PROVE  /\ t.to \in States
           /\ t.from # "osc" /\ t.to # "osc" /\ t.to # "csi"
           /\ "ST" \in t.on => t.to = "normal"
<1>1. CASE \E s \in {"ignore_to_st", "dcs"} :
             \/ t = StateOption(s, {"ST"}, "normal")
             \/ t = StateOption(s, {"ESC"}, "esc")
             \/ t = StateOption(s, CodePoints \ {"ST", "ESC"}, s)
  BY <1>1 DEF StateOption, States
<1>2. CASE \/ t = StateOption("normal", {"CAN", "SUB", "SS2", "SS3", "SPA", "SOS",
                                       "DECID", "ST"}, "normal")
           \/ t = StateOption("normal", {"ESC"}, "esc")
           \/ t = StateOption("normal", {"EPA", "PM", "APC"}, "ignore_to_st")
           \/ t = StateOption("normal", {"DCS"}, "dcs")
  BY <1>2 DEF StateOption, States
<1>3. CASE t = StateOption("esc", {"P"}, "dcs")
  BY <1>3 DEF StateOption, States
<1>4. CASE t = StateOption("esc", {"("}, "cset_shiftin")
  BY <1>4 DEF StateOption, States
<1>5. CASE t = StateOption("esc", {")"}, "cset_shiftout")
  BY <1>5 DEF StateOption, States
<1>6. CASE t = StateOption("esc", {"#"}, "hash")
  BY <1>6 DEF StateOption, States
<1>7. CASE t = StateOption("esc", {"^", "_"}, "ignore_to_st")
  BY <1>7 DEF StateOption, States
<1> QED
  BY <1>1, <1>2, <1>3, <1>4, <1>5, <1>6, <1>7 DEF Silent

(* The rows of the tables that ask nothing of the terminal, and those that *)
(* ask for a handler.                                                      *)
LEMMA QuietTyped ==
    ASSUME TypeOK, NEW from, NEW cps, NEW to \in States, Quiet(from, cps, to)
    PROVE  /\ cp \in CodePoints /\ cp \in cps
           /\ state' \in States /\ input' \in Seq(CodePoints)
           /\ called' \in Calls \union {NULL}
BY EntryTyped DEF Quiet

LEMMA PerformTyped ==
    ASSUME TypeOK, NEW from \in States, NEW cps, NEW to \in States,
           Perform(from, cps, to)
    PROVE  TypeOK'
<1>1. /\ cp \in CodePoints /\ state' \in States /\ input' \in Seq(CodePoints)
  BY EntryTyped DEF Perform
<1>2. called' \in Calls
  BY <1>1 DEF Perform, Calls
<1> QED
  BY <1>1, <1>2 DEF Perform, TypeOK

LEMMA InitTyped == Init => TypeOK
<1> SUFFICES ASSUME Init PROVE TypeOK
  OBVIOUS
<1>1. IntMax \in Ints
  BY BoundsAssumption DEF Ints
<1>2. <<>> \in Seq(Ints) /\ <<IntMax>> \in Seq(Ints)
  BY <1>1
<1>3. params \in Seq(Ints)
  BY <1>2 DEF Init
<1> QED
  BY <1>3 DEF Init, TypeOK, States

LEMMA ParamDigitTyped == ASSUME TypeOK, _parser_param_digit PROVE params' \in Seq(Ints)
<1> DEFINE ps == IF params = <<>> THEN <<0>> ELSE params
           last == Wrap(ps[Len(ps)] * 10 + Value(cp))
<1>1. 0 \in Ints
  BY BoundsAssumption DEF Ints
<1>2. ps \in Seq(Ints) /\ Len(ps) \in 1 .. Len(ps)
  BY <1>1 DEF TypeOK
<1>3. cp \in DigitSet
  BY DEF _parser_param_digit, Quiet, Entry
<1>4. Value(cp) \in Int
  BY <1>3, ValueTyped
<1>5. ps[Len(ps)] \in Int
  <2>1. ps[Len(ps)] \in Ints
    BY <1>2
  <2> QED
    BY <2>1, BoundsAssumption DEF Ints
<1>6. last \in Ints
  BY <1>4, <1>5, WrapTyped
<1>7. params' = [ps EXCEPT ![Len(ps)] = last]
  BY DEF _parser_param_digit
<1> HIDE DEF ps, last
<1> QED
  BY <1>2, <1>6, <1>7, ExceptSeq

LEMMA TextTyped ==
    ASSUME TypeOK, _parser_normal_input
    PROVE  input' \in Seq(CodePoints) /\ called' \in Calls \union {NULL}
<1>1. CASE input' = Tail(input) /\ called' = NULL
  BY <1>1, RestTyped DEF _parser_normal_input
<1>2. ASSUME NEW n \in 0 .. Len(input),
             input' = SubSeq(input, n + 1, Len(input)),
             called' = [fn |-> "be_input", text |-> SubSeq(input, 1, n)]
      PROVE  input' \in Seq(CodePoints) /\ called' \in Calls
  <2>1. input \in Seq(CodePoints) /\ Len(input) \in Nat
    BY DEF TypeOK
  <2>2. /\ SubSeq(input, n + 1, Len(input)) \in Seq(CodePoints)
        /\ SubSeq(input, 1, n) \in Seq(CodePoints)
    BY <2>1, SubSeqProperties
  <2>3. SubSeq(input, 1, n) \in Seq(CodePoints \union OscBytes)
    BY <2>2
  <2> QED
    BY <1>2, <2>2, <2>3 DEF Calls
<1> QED
  BY <1>1, <1>2 DEF _parser_normal_input

LEMMA OscTyped ==
    ASSUME TypeOK, OscOwned, state = "osc"
    PROVE  osc \in Seq(OscBytes) /\ ac_osc \in Calls \union {NULL}
<1>1. osc \in Seq(OscBytes)
  BY DEF TypeOK, OscOwned
<1>2. CASE Len(osc) >= 2
  <2>1. SubSeq(osc, 3, Len(osc)) \in Seq(OscBytes)
    BY <1>1, <1>2, SubSeqProperties
  <2>2. SubSeq(osc, 3, Len(osc)) \in Seq(CodePoints \union OscBytes)
    BY <2>1
  <2> QED
    BY <1>1, <2>2 DEF ac_osc, Calls
<1> QED
  BY <1>1, <1>2 DEF ac_osc

LEMMA ArrivalTyped == ASSUME TypeOK, te_process_input PROVE TypeOK'
<1>1. input' \in Seq(CodePoints)
  BY ChunkAssumption DEF te_process_input
<1> QED
  BY <1>1 DEF te_process_input, TypeOK

LEMMA PlainTyped ==
    ASSUME TypeOK,
           silent \/ control \/ esc_dispatch \/ designate \/ hash
             \/ _parser_unknown_esc
    PROVE  TypeOK'
<1>1. CASE silent
  <2>1. PICK t \in Silent : Quiet(t.from, t.on, t.to)
    BY <1>1 DEF silent
  <2>2. t.to \in States
    BY SilentEntries
  <2> QED
    BY <1>1, <2>1, <2>2, QuietTyped DEF silent, TypeOK
<1>2. CASE control \/ esc_dispatch
  BY <1>2, PerformTyped DEF control, esc_dispatch, States
<1>3. CASE designate
  <2>1. PICK s \in {"cset_shiftin", "cset_shiftout"} :
            /\ Entry(s, CodePoints, "normal")
            /\ called' = [fn |-> s, cp |-> IF cp \in {"A", "0"} THEN cp ELSE "B"]
    BY <1>3 DEF designate
  <2>2. /\ cp \in CodePoints
        /\ state' \in States /\ input' \in Seq(CodePoints)
    BY <2>1, EntryTyped DEF States
  <2>3. called' \in Calls
    BY <2>1, <2>2 DEF Calls, States
  <2> QED
    BY <1>3, <2>2, <2>3 DEF designate, TypeOK
<1>4. CASE hash
  <2>1. CASE Entry("hash", {"8"}, "normal") /\ called' = [fn |-> "hash", cp |-> "8"]
    <3>1. /\ cp \in CodePoints /\ cp = "8"
          /\ state' \in States /\ input' \in Seq(CodePoints)
      BY <2>1, EntryTyped DEF States
    <3>2. called' \in Calls
      BY <2>1, <3>1 DEF Calls, States
    <3> QED
      BY <1>4, <3>1, <3>2 DEF hash, TypeOK
  <2>2. CASE Quiet("hash", CodePoints \ {"8"}, "normal")
    BY <1>4, <2>2, QuietTyped DEF hash, TypeOK, States
  <2> QED
    BY <1>4, <2>1, <2>2 DEF hash
<1>5. CASE _parser_unknown_esc
  BY <1>5, QuietTyped DEF _parser_unknown_esc, TypeOK, States
<1> QED
  BY <1>1, <1>2, <1>3, <1>4, <1>5

LEMMA SequenceTyped ==
    ASSUME TypeOK,
           _parser_clear_param \/ _parser_set_intermediate
             \/ _parser_param_digit \/ _parser_next_param
             \/ csi_dispatch \/ _parser_unknown_csi
    PROVE  TypeOK'
<1>1. /\ "csi" \in States /\ "normal" \in States
      /\ 0 \in Ints
  BY BoundsAssumption DEF States, Ints
<1>2. CASE _parser_clear_param
  BY <1>1, <1>2, QuietTyped DEF _parser_clear_param, TypeOK
<1>3. CASE _parser_set_intermediate
  <2>1. Quiet("csi", Intermediates, "csi")
    BY <1>3 DEF _parser_set_intermediate
  <2>2. /\ cp \in CodePoints /\ state' \in States
        /\ input' \in Seq(CodePoints) /\ called' \in Calls \union {NULL}
    BY <1>1, <2>1, QuietTyped
  <2>3. body' \in Seq(CodePoints)
    BY <1>3, <2>2, AppendProperties DEF _parser_set_intermediate, TypeOK
  <2> QED
    BY <1>3, <2>2, <2>3 DEF _parser_set_intermediate, TypeOK
<1>4. CASE _parser_param_digit
  <2>1. Quiet("csi", DigitSet, "csi")
    BY <1>4 DEF _parser_param_digit
  <2>2. /\ cp \in CodePoints /\ state' \in States
        /\ input' \in Seq(CodePoints) /\ called' \in Calls \union {NULL}
    BY <1>1, <2>1, QuietTyped
  <2>3. params' \in Seq(Ints)
    BY <1>4, ParamDigitTyped
  <2>4. body' \in Seq(CodePoints) /\ UNCHANGED <<intermediate, osc>>
    BY <1>4, <2>2, AppendProperties DEF _parser_param_digit, TypeOK
  <2> QED
    BY <2>2, <2>3, <2>4 DEF TypeOK
<1>5. CASE _parser_next_param
  <2>1. Quiet("csi", {";"}, "csi")
    BY <1>5 DEF _parser_next_param
  <2>2. /\ cp \in CodePoints /\ state' \in States
        /\ input' \in Seq(CodePoints) /\ called' \in Calls \union {NULL}
    BY <1>1, <2>1, QuietTyped
  <2>3. params' \in Seq(Ints)
    BY <1>1, <1>5, AppendProperties DEF _parser_next_param, TypeOK
  <2>4. body' \in Seq(CodePoints)
    BY <1>5, <2>2, AppendProperties DEF _parser_next_param, TypeOK
  <2> QED
    BY <1>5, <2>2, <2>3, <2>4 DEF _parser_next_param, TypeOK
<1>6. CASE csi_dispatch
  <2>1. Entry("csi", CsiFinals, "normal")
    BY <1>6 DEF csi_dispatch
  <2>2. /\ cp \in CodePoints /\ state' \in States /\ input' \in Seq(CodePoints)
    BY <1>1, <2>1, EntryTyped
  <2>3. called' \in Calls
    BY <1>6, <2>2 DEF csi_dispatch, Calls, TypeOK
  <2> QED
    BY <1>6, <2>2, <2>3 DEF csi_dispatch, TypeOK
<1>7. CASE _parser_unknown_csi
  BY <1>1, <1>7, QuietTyped DEF _parser_unknown_csi, TypeOK
<1> QED
  BY <1>2, <1>3, <1>4, <1>5, <1>6, <1>7

LEMMA StringTyped ==
    ASSUME TypeOK, OscOwned,
           _parser_osc_start \/ _parser_osc_put \/ _parser_osc_end
    PROVE  TypeOK'
<1>1. "osc" \in States /\ "normal" \in States /\ "esc" \in States
  BY DEF States
<1>2. CASE _parser_osc_start
  BY <1>1, <1>2, QuietTyped DEF _parser_osc_start, TypeOK
<1>3. CASE _parser_osc_put
  <2>1. Quiet("osc", CodePoints \ {"BEL", "ST", "ESC"}, "osc")
    BY <1>3 DEF _parser_osc_put
  <2>2. /\ state = "osc" /\ state' \in States
        /\ input' \in Seq(CodePoints) /\ called' \in Calls \union {NULL}
    BY <1>1, <2>1, QuietTyped DEF Quiet, Entry
  <2>3. osc \in Seq(OscBytes)
    BY <2>2, OscTyped
  <2>4. osc' \in Seq(OscBytes)
    <3> DEFINE byte == IF cp \in OscBytes THEN cp ELSE "text"
    <3>1. byte \in OscBytes
      BY DEF OscBytes
    <3>2. osc' = Append(osc, byte)
      BY <1>3 DEF _parser_osc_put
    <3> HIDE DEF byte
    <3> QED
      BY <2>3, <3>1, <3>2, AppendProperties
  <2> QED
    BY <1>3, <2>2, <2>4 DEF _parser_osc_put, TypeOK
<1>4. CASE _parser_osc_end
  <2>1. /\ state = "osc" /\ state' \in States /\ input' \in Seq(CodePoints)
    BY <1>1, <1>4, EntryTyped DEF _parser_osc_end
  <2>2. called' \in Calls \union {NULL}
    BY <1>4, <2>1, OscTyped DEF _parser_osc_end
  <2> QED
    BY <1>4, <2>1, <2>2 DEF _parser_osc_end, TypeOK
<1> QED
  BY <1>2, <1>3, <1>4

LEMMA NextTyped == TypeOK /\ OscOwned /\ [Next]_vars => TypeOK'
<1> SUFFICES ASSUME TypeOK, OscOwned, [Next]_vars PROVE TypeOK'
  OBVIOUS
<1>1. CASE te_process_input
  BY <1>1, ArrivalTyped
<1>2. CASE parser_input
  <2>1. CASE _parser_normal_input
    BY <2>1, TextTyped DEF _parser_normal_input, TypeOK
  <2> QED
    BY <1>2, <2>1, PlainTyped, SequenceTyped, StringTyped DEF parser_input
<1>3. CASE UNCHANGED vars
  BY <1>3 DEF vars, TypeOK
<1> QED
  BY <1>1, <1>2, <1>3 DEF Next

-----------------------------------------------------------------------------
(* The OSC buffer.                                                         *)

LEMMA EntryMoves ==
    ASSUME NEW from, NEW cps, NEW to, Entry(from, cps, to)
    PROVE  state = from /\ state' = to
BY DEF Entry

LEMMA PlainOwned ==
    ASSUME TypeOK, OscOwned,
           silent \/ control \/ esc_dispatch \/ designate \/ hash
             \/ _parser_unknown_esc \/ _parser_clear_param
             \/ _parser_set_intermediate \/ _parser_param_digit
             \/ _parser_next_param \/ csi_dispatch \/ _parser_unknown_csi
             \/ _parser_normal_input \/ te_process_input
    PROVE  OscOwned'
<1>1. osc' = osc
  BY DEF silent, control, Perform, esc_dispatch, designate, hash,
         _parser_unknown_esc, _parser_clear_param, _parser_set_intermediate,
         _parser_param_digit, _parser_next_param, csi_dispatch,
         _parser_unknown_csi, _parser_normal_input, te_process_input
<1>2. (state # "osc" /\ state' # "osc") \/ state' = state
  <2>1. CASE silent
    <3>1. PICK t \in Silent : Entry(t.from, t.on, t.to)
      BY <2>1 DEF silent, Quiet
    <3>2. t.from # "osc" /\ t.to # "osc"
      BY SilentEntries
    <3> QED
      BY <3>1, <3>2, EntryMoves
  <2>2. CASE _parser_normal_input \/ te_process_input
    BY <2>2 DEF _parser_normal_input, te_process_input
  <2>3. CASE control \/ esc_dispatch \/ designate \/ hash \/ _parser_unknown_esc
    BY <2>3 DEF control, Perform, esc_dispatch, designate, hash,
                _parser_unknown_esc, Quiet, Entry
  <2>4. CASE \/ _parser_clear_param \/ _parser_set_intermediate
             \/ _parser_param_digit \/ _parser_next_param
             \/ csi_dispatch \/ _parser_unknown_csi
    BY <2>4 DEF _parser_clear_param, _parser_set_intermediate,
                _parser_param_digit, _parser_next_param, csi_dispatch,
                _parser_unknown_csi, Quiet, Entry
  <2> QED
    BY <2>1, <2>2, <2>3, <2>4
<1> QED
  BY <1>1, <1>2 DEF OscOwned

LEMMA StringOwned ==
    ASSUME TypeOK, OscOwned, TypeOK',
           _parser_osc_start \/ _parser_osc_put \/ _parser_osc_end
    PROVE  OscOwned'
<1>1. <<>> # NULL
  <2>1. <<>> \in Seq(OscBytes)
    OBVIOUS
  <2> QED
    BY <2>1, NullAssumption
<1>2. CASE _parser_osc_start
  BY <1>1, <1>2 DEF _parser_osc_start, Quiet, Entry, OscOwned
<1>3. CASE _parser_osc_put
  <2>1. state = "osc" /\ state' = "osc"
    BY <1>3 DEF _parser_osc_put, Quiet, Entry
  <2>2. osc \in Seq(OscBytes)
    BY <2>1, OscTyped
  <2> DEFINE byte == IF cp \in OscBytes THEN cp ELSE "text"
  <2>3. byte \in OscBytes /\ osc' = Append(osc, byte)
    BY <1>3 DEF _parser_osc_put, OscBytes
  <2>4. osc' \in Seq(OscBytes)
    <3> HIDE DEF byte
    <3> QED
      BY <2>2, <2>3, AppendProperties
  <2> QED
    BY <2>1, <2>4, NullAssumption DEF OscOwned
<1>4. CASE _parser_osc_end
  BY <1>4 DEF _parser_osc_end, Entry, OscOwned
<1> QED
  BY <1>2, <1>3, <1>4

(* The strengthening of TypeOK: that the buffer is allocated while a       *)
(* string is read is what makes putting a code point into it, and handing  *)
(* its contents to ac_osc, well typed.                                     *)
Inv == TypeOK /\ OscOwned

LEMMA InitInv == Init => Inv
BY InitTyped DEF Init, Inv, OscOwned

LEMMA NextInv == Inv /\ [Next]_vars => Inv'
<1> SUFFICES ASSUME TypeOK, OscOwned, [Next]_vars PROVE TypeOK' /\ OscOwned'
  BY DEF Inv
<1>1. TypeOK'
  BY NextTyped
<1>2. CASE Next
  BY <1>1, <1>2, PlainOwned, StringOwned DEF Next, parser_input
<1>3. CASE UNCHANGED vars
  BY <1>1, <1>3 DEF vars, OscOwned
<1> QED
  BY <1>1, <1>2, <1>3

LEMMA SpecInv == Spec => []Inv
BY InitInv, NextInv, PTL DEF Spec

(* Every state of the parser, and every call it makes of the terminal, has *)
(* its type, whatever the child sends and however it is cut into chunks.   *)
THEOREM ParserTyped == Spec => []TypeOK
<1>1. Inv => TypeOK
  BY DEF Inv
<1> QED
  BY <1>1, SpecInv, PTL

(* The OSC buffer is allocated exactly while an OSC string is read: no     *)
(* sequence of code points leaks it, frees it twice or writes to it when   *)
(* it is not there.                                                        *)
THEOREM OscBufferOwned == Spec => []OscOwned
<1>1. Inv => OscOwned
  BY DEF Inv
<1> QED
  BY <1>1, SpecInv, PTL

-----------------------------------------------------------------------------
(* A string terminator.                                                    *)

(* A string terminator brings the parser back to plain text from whatever  *)
(* the child left it in the middle of.                                     *)
THEOREM TerminatorBringsBack == Spec => TerminatorRecovers
<1>1. ASSUME input # <<>>, cp = "ST", parser_input PROVE state' = "normal"
  <2>1. CASE silent
    <3>1. PICK t \in Silent : Entry(t.from, t.on, t.to)
      BY <2>1 DEF silent, Quiet
    <3>2. "ST" \in t.on
      BY <1>1, <3>1 DEF Entry
    <3>3. t.to = "normal"
      BY <3>2, SilentEntries
    <3> QED
      BY <3>1, <3>3, EntryMoves
  <2>2. CASE control \/ esc_dispatch \/ designate \/ hash \/ _parser_unknown_esc
    BY <1>1, <2>2 DEF control, Perform, esc_dispatch, designate, hash,
         _parser_unknown_esc, Quiet, Entry, C0
  <2>3. CASE \/ _parser_clear_param \/ _parser_set_intermediate
             \/ _parser_next_param
             \/ csi_dispatch \/ _parser_unknown_csi
    BY <1>1, <2>3 DEF _parser_clear_param, _parser_set_intermediate,
                _parser_next_param, csi_dispatch,
                _parser_unknown_csi, Quiet, Entry, Intermediates
  <2>4. CASE _parser_param_digit
    BY <1>1, <2>4 DEF _parser_param_digit, Quiet, Entry, DigitSet, Digits
  <2>5. CASE _parser_osc_start \/ _parser_osc_put \/ _parser_osc_end
    BY <1>1, <2>5 DEF _parser_osc_start, _parser_osc_put, _parser_osc_end,
                Quiet, Entry
  <2>6. CASE _parser_normal_input
    BY <1>1, <2>6 DEF _parser_normal_input, Listed, Silent, StateOption
  <2> QED
    BY <1>1, <2>1, <2>2, <2>3, <2>4, <2>5, <2>6 DEF parser_input
<1>2. (input # <<>> /\ cp = "ST" /\ parser_input) => state' = "normal"
  BY <1>1
<1>3. TRUE => [(input # <<>> /\ cp = "ST" /\ parser_input) => state' = "normal"]_vars
  BY <1>2
<1> QED
  BY <1>3, PTL DEF TerminatorRecovers

-----------------------------------------------------------------------------
(* Induction over numbers, as a fact about sets of them.                   *)

LEMMA UpTo ==
    ASSUME NEW S, 0 \in S, \A n \in Nat : n \in S => n + 1 \in S
    PROVE  Nat \subseteq S
<1> SUFFICES ASSUME NEW k \in Nat \ S PROVE FALSE
  OBVIOUS
<1> DEFINE T == Nat \ S
<1>1. T \subseteq Nat /\ k \in T /\ T # {}
  OBVIOUS
<1>2. PICK m \in T : \A j \in T : ~(<<j, m>> \in OpToRel(<, Nat))
  <2> HIDE DEF T
  <2> QED
    BY <1>1, WFMin, NatLessThanWellFounded
<1>3. \A j \in T : ~(j < m)
  BY <1>2 DEF OpToRel
<1>4. m # 0 /\ m \in Nat /\ m - 1 \in Nat
  OBVIOUS
<1>5. m - 1 \in S
  BY <1>3, <1>4
<1> QED
  BY <1>4, <1>5

-----------------------------------------------------------------------------
(* The parameters of a control sequence.                                   *)

(* The field separator, by a name the provers can read.                    *)
Semicolon == ";"
SeparatorsIn(text) == {i \in 1 .. Len(text) : text[i] = Semicolon}

LEMMA SeparatorsAre == ASSUME NEW text PROVE Separators(text) = SeparatorsIn(text)
BY Zenon DEF Separators, SeparatorsIn, Semicolon

LEMMA SemicolonApart ==
    /\ Semicolon \notin Intermediates
    /\ Semicolon \notin DigitSet
    /\ DigitSet \intersect Intermediates = {}
<1>0. DigitSet = {"0", "1", "2", "3", "4", "5", "6", "7", "8", "9"}
  BY DEF DigitSet, Digits
<1>1. Semicolon \notin Intermediates
  BY Zenon DEF Semicolon, Intermediates
<1>2. Semicolon \notin {"0", "1", "2", "3", "4", "5", "6", "7", "8", "9"}
  BY Zenon DEF Semicolon
<1>3. DigitSet \intersect Intermediates = {}
  BY <1>0 DEF Intermediates
<1> QED BY <1>0, <1>1, <1>2, <1>3, Zenon

LEMMA NextParam ==
    ASSUME _parser_next_param
    PROVE  /\ state = "csi" /\ state' = "csi" /\ cp = Semicolon
           /\ params' = Append(params, 0) /\ body' = Append(body, cp)
           /\ intermediate' = intermediate
BY Zenon DEF _parser_next_param, Quiet, Entry, Semicolon


(* The two recursive functions of Number are of one shape: what the last   *)
(* value times b and a term add up to.                                     *)
Step(e, b, w, h, n) == IF n = 0 THEN e ELSE h[n - 1] * b + w[n]
Series(e, b, w, m, h) == h = [n \in 0 .. m |-> Step(e, b, w, h, n)]

LEMMA StepLooksBack ==
    ASSUME NEW e, NEW b, NEW w, NEW h, NEW k, NEW n, n # 0 => h[n - 1] = k[n - 1]
    PROVE  Step(e, b, w, h, n) = Step(e, b, w, k, n)
BY DEF Step

LEMMA SeriesExist ==
    ASSUME NEW e, NEW b, NEW w, NEW m \in Nat PROVE \E h : Series(e, b, w, m, h)
<1> DEFINE S == {n \in Nat : \E h : Series(e, b, w, n, h)}
<1>1. 0 \in S
  <2> DEFINE h == [n \in 0 .. 0 |-> e]
  <2>1. \A n \in 0 .. 0 : Step(e, b, w, h, n) = e
    BY DEF Step
  <2>2. Series(e, b, w, 0, h)
    BY <2>1 DEF Series
  <2> QED
    BY <2>2
<1>2. ASSUME NEW n \in Nat, \E h : Series(e, b, w, n, h)
      PROVE  \E h : Series(e, b, w, n + 1, h)
  <2>1. PICK h : Series(e, b, w, n, h)
    BY <1>2
  <2> DEFINE k == [i \in 0 .. n + 1 |-> IF i <= n THEN h[i] ELSE Step(e, b, w, h, i)]
  <2>2. \A i \in 0 .. n : k[i] = h[i] /\ h[i] = Step(e, b, w, h, i)
    BY <2>1 DEF Series
  <2>3. k[n + 1] = Step(e, b, w, h, n + 1)
    OBVIOUS
  <2>4. k = [i \in 0 .. n + 1 |-> k[i]]
    OBVIOUS
  <2> HIDE DEF k
  <2>5. ASSUME NEW i \in 0 .. n + 1 PROVE k[i] = Step(e, b, w, k, i)
    <3>1. k[i] = Step(e, b, w, h, i)
      BY <2>2, <2>3
    <3>2. i # 0 => i - 1 \in 0 .. n
      OBVIOUS
    <3>3. i # 0 => k[i - 1] = h[i - 1]
      BY <2>2, <3>2
    <3> QED
      BY <3>1, <3>3, StepLooksBack
  <2>6. Series(e, b, w, n + 1, k)
    BY <2>4, <2>5 DEF Series
  <2> QED
    BY <2>6
<1>3. Nat \subseteq S
  <2>1. \A n \in Nat : n \in S => n + 1 \in S
    BY <1>2
  <2> HIDE DEF S
  <2> QED
    BY <1>1, <2>1, UpTo
<1> QED
  BY <1>3

(* What a series is at each place.                                         *)
LEMMA SeriesAt ==
    ASSUME NEW e, NEW b, NEW w, NEW m \in Nat, NEW h, Series(e, b, w, m, h)
    PROVE  /\ h[0] = e
           /\ \A n \in 0 .. m - 1 : h[n + 1] = h[n] * b + w[n + 1]
<1>1. \A n \in 0 .. m : h[n] = Step(e, b, w, h, n)
  BY DEF Series
<1>2. h[0] = e
  BY <1>1 DEF Step
<1>3. ASSUME NEW n \in 0 .. m - 1 PROVE h[n + 1] = h[n] * b + w[n + 1]
  <2>1. h[n + 1] = Step(e, b, w, h, n + 1) /\ n + 1 # 0 /\ (n + 1) - 1 = n
    BY <1>1
  <2> QED
    BY <2>1, Zenon DEF Step
<1> QED
  BY <1>2, <1>3

LEMMA Distribute ==
    ASSUME NEW a \in Nat, NEW b \in Nat, NEW x \in Nat, NEW y \in Nat
    PROVE  /\ a * (x * b + y) = (a * x) * b + a * y
           /\ x * b + y \in Nat
<1>1. a * (x * b + y) = a * (x * b) + a * y
  OBVIOUS
<1>2. a * (x * b) = (a * x) * b
  OBVIOUS
<1> QED
  BY <1>1, <1>2

(* Two series whose terms are in proportion are in that proportion.        *)
InProportion(a, w, v, m, n) == \A i \in m .. n : w[i] \in Nat /\ v[i] = a * w[i]

LEMMA SeriesInProportion ==
    ASSUME NEW a \in Nat, NEW b \in Nat, NEW e \in Nat, NEW d, d = a * e,
           NEW m \in Nat, NEW k \in Nat, m <= k,
           NEW w, NEW v, InProportion(a, w, v, 1, m),
           NEW h, Series(e, b, w, m, h), NEW j, Series(d, b, v, k, j)
    PROVE  InProportion(a, h, j, 0, m)
<1> DEFINE R == {n \in Nat : n <= m => h[n] \in Nat /\ j[n] = a * h[n]}
<1>1. /\ h[0] = e /\ \A n \in 0 .. m - 1 : h[n + 1] = h[n] * b + w[n + 1]
      /\ j[0] = d /\ \A n \in 0 .. k - 1 : j[n + 1] = j[n] * b + v[n + 1]
  BY SeriesAt
<1>2. 0 \in R
  BY <1>1
<1>3. ASSUME NEW n \in Nat, n \in R PROVE n + 1 \in R
  <2> SUFFICES ASSUME n + 1 <= m PROVE h[n + 1] \in Nat /\ j[n + 1] = a * h[n + 1]
    OBVIOUS
  <2>1. PICK x \in Nat : x = h[n] /\ j[n] = a * x
    BY <1>3
  <2>2. n \in 0 .. m - 1 /\ n \in 0 .. k - 1 /\ n + 1 \in 1 .. m
    OBVIOUS
  <2>3. PICK y \in Nat : y = w[n + 1] /\ v[n + 1] = a * y
    BY <2>2 DEF InProportion
  <2>4. h[n + 1] = x * b + y /\ j[n + 1] = (a * x) * b + a * y
    BY <1>1, <2>1, <2>2, <2>3
  <2>5. a * (x * b + y) = (a * x) * b + a * y /\ x * b + y \in Nat
    BY Distribute
  <2> QED
    BY <2>4, <2>5
<1>4. Nat \subseteq R
  <2> HIDE DEF R
  <2> QED
    BY <1>2, <1>3, UpTo
<1> QED
  BY <1>4 DEF InProportion

Power(m, h) == h = [i \in 0 .. m |-> IF i = 0 THEN 1 ELSE h[i - 1] * 10]

LEMMA PowerSeries ==
    ASSUME NEW m \in Nat
    PROVE  \E h : /\ Power(m, h) /\ PowerOfTen(m) = h[m]
                  /\ \A i \in 0 .. m : h[i] \in Nat
<1> DEFINE zero == [i \in Nat |-> 0]
           h == CHOOSE f : f = [i \in 0 .. m |-> IF i = 0 THEN 1 ELSE f[i - 1] * 10]
<1>1. PICK f : Series(1, 10, zero, m, f)
  BY SeriesExist
<1>2. Power(m, f)
  <2>1. \A i \in 0 .. m : f[i] \in Nat
    <3>1. PICK one \in Nat : one = 1
      OBVIOUS
    <3>2. one = one * one /\ m <= m /\ 10 \in Nat /\ Series(one, 10, zero, m, f)
      BY <1>1, <3>1
    <3>3. InProportion(one, zero, zero, 1, m)
      BY <3>1 DEF InProportion
    <3> HIDE DEF zero
    <3>4. InProportion(one, f, f, 0, m)
      BY <3>2, <3>3, SeriesInProportion
    <3> QED
      BY <3>4 DEF InProportion
  <2>2. f[0] = 1 /\ \A i \in 0 .. m - 1 : f[i + 1] = f[i] * 10
    <3>1. f[0] = 1 /\ \A i \in 0 .. m - 1 : f[i + 1] = f[i] * 10 + zero[i + 1]
      <4> HIDE DEF zero
      <4> QED
        BY <1>1, SeriesAt
    <3> QED
      BY <2>1, <3>1
  <2>3. f = [i \in 0 .. m |-> f[i]]
    BY <1>1 DEF Series
  <2>4. ASSUME NEW i \in 0 .. m PROVE f[i] = IF i = 0 THEN 1 ELSE f[i - 1] * 10
    <3>1. CASE i # 0
      <4>1. i - 1 \in 0 .. m - 1 /\ (i - 1) + 1 = i
        BY <3>1
      <4> QED
        BY <2>2, <3>1, <4>1
    <3> QED
      BY <2>2, <3>1
  <2> QED
    BY <2>3, <2>4 DEF Power
<1>3. Power(m, h)
  BY <1>2, Zenon DEF Power
<1>4. PowerOfTen(m) = h[m]
  BY Zenon DEF PowerOfTen
<1> HIDE DEF h
<1>5. \A i \in 0 .. m : h[i] \in Nat
  <2> DEFINE R == {n \in Nat : n <= m => h[n] \in Nat}
  <2>1. \A i \in 0 .. m : h[i] = IF i = 0 THEN 1 ELSE h[i - 1] * 10
    BY <1>3 DEF Power
  <2>2. 0 \in R
    BY <2>1
  <2>3. ASSUME NEW n \in Nat, n \in R PROVE n + 1 \in R
    <3> SUFFICES ASSUME n + 1 <= m PROVE h[n + 1] \in Nat
      OBVIOUS
    <3>1. h[n] \in Nat
      BY <2>3
    <3>2. h[n + 1] = h[n] * 10
      BY <2>1
    <3> QED
      BY <3>1, <3>2
  <2>4. Nat \subseteq R
    <3> HIDE DEF R
    <3> QED
      BY <2>2, <2>3, UpTo
  <2> QED
    BY <2>4
<1> QED
  BY <1>3, <1>4, <1>5

LEMMA PowersOfTen ==
    ASSUME NEW n \in Nat
    PROVE  /\ PowerOfTen(0) = 1 /\ PowerOfTen(n) \in Nat
           /\ PowerOfTen(n + 1) = 10 * PowerOfTen(n)
<1>1. PICK f : Power(n, f) /\ PowerOfTen(n) = f[n] /\ \A i \in 0 .. n : f[i] \in Nat
  BY PowerSeries
<1>2. PICK g : /\ Power(n + 1, g) /\ PowerOfTen(n + 1) = g[n + 1]
               /\ \A i \in 0 .. n + 1 : g[i] \in Nat
  BY PowerSeries
<1>3. PICK z : Power(0, z) /\ PowerOfTen(0) = z[0]
  BY PowerSeries
<1>4. z[0] = 1
  BY <1>3 DEF Power
<1>5. /\ \A i \in 0 .. n : f[i] = IF i = 0 THEN 1 ELSE f[i - 1] * 10
      /\ \A i \in 0 .. n + 1 : g[i] = IF i = 0 THEN 1 ELSE g[i - 1] * 10
  BY <1>1, <1>2 DEF Power
<1> DEFINE R == {i \in Nat : i <= n => f[i] = g[i]}
<1>6. 0 \in R
  BY <1>5
<1>7. ASSUME NEW i \in Nat, i \in R PROVE i + 1 \in R
  <2> SUFFICES ASSUME i + 1 <= n PROVE f[i + 1] = g[i + 1]
    OBVIOUS
  <2>1. f[i] = g[i]
    BY <1>7
  <2>2. f[i + 1] = f[i] * 10 /\ g[i + 1] = g[i] * 10
    BY <1>5
  <2> QED
    BY <2>1, <2>2
<1>8. Nat \subseteq R
  <2> HIDE DEF R
  <2> QED
    BY <1>6, <1>7, UpTo
<1>9. f[n] = g[n]
  BY <1>8
<1>10. g[n + 1] = g[n] * 10 /\ g[n] \in Nat
  BY <1>2, <1>5
<1> QED
  BY <1>1, <1>2, <1>3, <1>4, <1>9, <1>10

(* A text and the same with one code point more.                           *)
Grows(text, c, more) ==
    /\ Len(text) \in Nat /\ Len(more) = Len(text) + 1
    /\ \A i \in 1 .. Len(text) : more[i] = text[i]
    /\ more[Len(text) + 1] = c

LEMMA AppendGrows ==
    ASSUME NEW S, NEW text \in Seq(S), NEW c \in S PROVE Grows(text, c, Append(text, c))
BY AppendProperties, LenProperties DEF Grows

LEMMA SeparatorsGrow ==
    ASSUME NEW text, NEW c, NEW more, Grows(text, c, more)
    PROVE  /\ Separators(text) \subseteq 1 .. Len(text)
           /\ Separators(more) = Separators(text) \union
                                   (IF c = Semicolon THEN {Len(text) + 1} ELSE {})
<1>1. 1 .. Len(more) = (1 .. Len(text)) \union {Len(text) + 1}
  BY DEF Grows
<1>2. /\ SeparatorsIn(text) \subseteq 1 .. Len(text)
      /\ SeparatorsIn(more) = SeparatorsIn(text) \union
                                (IF c = Semicolon THEN {Len(text) + 1} ELSE {})
  BY <1>1 DEF Grows, SeparatorsIn
<1> QED
  BY <1>2, SeparatorsAre

LEMMA PositionsGrow ==
    ASSUME NEW text, NEW c, NEW more, Grows(text, c, more)
    PROVE  /\ Positions(text) \subseteq 1 .. Len(text)
           /\ Positions(more) = Positions(text) \union
                                  (IF c \in DigitSet THEN {Len(text) + 1} ELSE {})
<1>1. 1 .. Len(more) = (1 .. Len(text)) \union {Len(text) + 1}
  BY DEF Grows
<1> QED
  BY <1>1 DEF Grows, Positions

(* The field that the next digit is part of.                               *)
Current(text) == Cardinality(Separators(text)) + 1

LEMMA CountedUpTo ==
    ASSUME NEW n \in Nat, NEW T, T \subseteq 1 .. n
    PROVE  IsFiniteSet(T) /\ Cardinality(T) \in Nat
<1>1. IsFiniteSet(1 .. n)
  BY FS_Interval
<1> QED
  BY <1>1, FS_Subset, FS_CardinalityType

LEMMA FieldsGrow ==
    ASSUME NEW text, NEW c, NEW more, Grows(text, c, more)
    PROVE  /\ Current(text) \in Nat \ {0}
           /\ Current(more) = Current(text) + (IF c = Semicolon THEN 1 ELSE 0)
           /\ Field(more, Len(text) + 1) = Current(text)
           /\ \A i \in 1 .. Len(text) : /\ Field(more, i) = Field(text, i)
                                        /\ Field(text, i) \in 1 .. Current(text)
<1> DEFINE n == Len(text)
           T == Separators(text)
           U == Separators(more)
<1>1. /\ n \in Nat /\ T \subseteq 1 .. n
      /\ U = T \union (IF c = Semicolon THEN {n + 1} ELSE {})
  BY SeparatorsGrow DEF Grows
<1>2. IsFiniteSet(T) /\ Cardinality(T) \in Nat
  BY <1>1, CountedUpTo
<1> HIDE DEF n, T, U
<1>3. Cardinality(U) = Cardinality(T) + (IF c = Semicolon THEN 1 ELSE 0)
  <2>1. CASE c = Semicolon
    <3>1. n + 1 \notin T /\ U = T \union {n + 1}
      BY <1>1, <2>1
    <3> QED
      BY <1>2, <2>1, <3>1, FS_AddElement
  <2>2. CASE c # Semicolon
    BY <1>1, <1>2, <2>2
  <2> QED
    BY <2>1, <2>2
<1>4. \A i \in 1 .. n + 1 : {j \in U : j < i} = {j \in T : j < i}
  BY <1>1
<1>5. {j \in T : j < n + 1} = T
  <2>1. \A j \in T : j < n + 1
    BY <1>1
  <2> QED
    BY <2>1, Zenon
<1>6. ASSUME NEW i \in 1 .. n
      PROVE  Cardinality({j \in T : j < i}) + 1 \in 1 .. Cardinality(T) + 1
  <2>1. {j \in T : j < i} \subseteq T
    OBVIOUS
  <2>2. /\ Cardinality({j \in T : j < i}) <= Cardinality(T)
        /\ IsFiniteSet({j \in T : j < i})
    BY <1>2, <2>1, FS_Subset
  <2>3. Cardinality({j \in T : j < i}) \in Nat
    BY <2>2, FS_CardinalityType
  <2> QED
    BY <1>2, <2>2, <2>3
<1>7. /\ Current(text) = Cardinality(T) + 1 /\ Current(more) = Cardinality(U) + 1
      /\ \A i : /\ Field(text, i) = Cardinality({j \in T : j < i}) + 1
               /\ Field(more, i) = Cardinality({j \in U : j < i}) + 1
  BY Zenon DEF Current, Field, T, U
<1>8. Field(more, n + 1) = Current(text)
  <2>1. n + 1 \in 1 .. n + 1
    BY <1>1
  <2> QED
    BY <1>4, <1>5, <1>7, <2>1, Zenon
<1>9. ASSUME NEW i \in 1 .. n
      PROVE  Field(more, i) = Field(text, i) /\ Field(text, i) \in 1 .. Current(text)
  <2>1. i \in 1 .. n + 1
    BY <1>1
  <2> QED
    BY <1>4, <1>6, <1>7, <2>1, Zenon
<1>10. /\ Current(text) \in Nat \ {0}
       /\ Current(more) = Current(text) + (IF c = Semicolon THEN 1 ELSE 0)
  BY <1>2, <1>3, <1>7
<1> QED
  BY <1>8, <1>9, <1>10 DEF n

LEMMA DigitsGrow ==
    ASSUME NEW text, NEW c, NEW more, Grows(text, c, more), NEW k
    PROVE  /\ DigitsOf(text, k) \subseteq 1 .. Len(text)
           /\ k \notin 1 .. Current(text) => DigitsOf(text, k) = {}
           /\ DigitsOf(more, k) = DigitsOf(text, k) \union
                (IF c \in DigitSet /\ k = Current(text) THEN {Len(text) + 1} ELSE {})
<1> DEFINE n == Len(text)
<1>1. /\ n \in Nat /\ Positions(text) \subseteq 1 .. n
      /\ Positions(more) = Positions(text) \union (IF c \in DigitSet THEN {n + 1} ELSE {})
  BY PositionsGrow DEF Grows
<1>2. /\ Field(more, n + 1) = Current(text)
      /\ \A i \in 1 .. n : /\ Field(more, i) = Field(text, i)
                           /\ Field(text, i) \in 1 .. Current(text)
  BY FieldsGrow
<1> HIDE DEF n
<1>3. DigitsOf(text, k) \subseteq 1 .. n
  BY <1>1 DEF DigitsOf
<1>4. k \notin 1 .. Current(text) => DigitsOf(text, k) = {}
  BY <1>1, <1>2 DEF DigitsOf
<1>5. DigitsOf(more, k) = DigitsOf(text, k) \union
        (IF c \in DigitSet /\ k = Current(text) THEN {n + 1} ELSE {})
  BY <1>1, <1>2 DEF DigitsOf
<1> QED
  BY <1>3, <1>4, <1>5 DEF n

(* A digit more makes those of its field before it worth ten times as much.*)
Factor(text, c, k) == IF c \in DigitSet /\ k = Current(text) THEN 10 ELSE 1
Units(text, c, k) == IF c \in DigitSet /\ k = Current(text) THEN Value(c) ELSE 0

Later(text, k, i) == {j \in DigitsOf(text, k) : j > i}

LEMMA LaterGrows ==
    ASSUME NEW text, NEW c, NEW more, Grows(text, c, more), NEW k,
           NEW i \in 1 .. Len(text)
    PROVE  /\ Cardinality(Later(text, k, i)) \in Nat
           /\ Cardinality(Later(more, k, i)) =
                Cardinality(Later(text, k, i))
                  + (IF c \in DigitSet /\ k = Current(text) THEN 1 ELSE 0)
<1> DEFINE n == Len(text)
           T == Later(text, k, i)
           U == Later(more, k, i)
<1>1. n \in Nat
  BY DEF Grows
<1>2. /\ T \subseteq 1 .. n
      /\ U = T \union (IF c \in DigitSet /\ k = Current(text) THEN {n + 1} ELSE {})
  BY <1>1, DigitsGrow DEF Later
<1>3. IsFiniteSet(T) /\ Cardinality(T) \in Nat
  BY <1>1, <1>2, CountedUpTo
<1> HIDE DEF n, T, U
<1>4. CASE c \in DigitSet /\ k = Current(text)
  <2>1. n + 1 \notin T /\ U = T \union {n + 1}
    BY <1>1, <1>2, <1>4
  <2>2. Cardinality(U) = Cardinality(T) + 1
    BY <1>3, <2>1, FS_AddElement
  <2> QED
    BY <1>3, <1>4, <2>2 DEF T, U
<1>5. CASE ~(c \in DigitSet /\ k = Current(text))
  <2>1. U = T
    BY <1>2, <1>5
  <2> QED
    BY <1>3, <1>5, <2>1 DEF T, U
<1> QED
  BY <1>4, <1>5

LEMMA WorthGrows ==
    ASSUME NEW text, NEW c, NEW more, Grows(text, c, more), NEW k
    PROVE  /\ \A i \in 1 .. Len(text) :
                 /\ Worth(text, k, i) \in Nat
                 /\ Worth(more, k, i) = Factor(text, c, k) * Worth(text, k, i)
           /\ Worth(more, k, Len(text) + 1) = Units(text, c, k)
<1> DEFINE n == Len(text)
<1>1. n \in Nat /\ more[n + 1] = c
  BY DEF Grows
<1>2. /\ DigitsOf(text, k) \subseteq 1 .. n
      /\ DigitsOf(more, k) = DigitsOf(text, k) \union
           (IF c \in DigitSet /\ k = Current(text) THEN {n + 1} ELSE {})
  BY DigitsGrow
<1>3. \A i : /\ Worth(text, k, i) = IF i \in DigitsOf(text, k)
                   THEN Value(text[i]) * PowerOfTen(Cardinality(Later(text, k, i))) ELSE 0
             /\ Worth(more, k, i) = IF i \in DigitsOf(more, k)
                   THEN Value(more[i]) * PowerOfTen(Cardinality(Later(more, k, i))) ELSE 0
  BY Zenon DEF Worth, Later
<1>4. ASSUME NEW i \in 1 .. n
      PROVE  /\ Worth(text, k, i) \in Nat
             /\ Worth(more, k, i) = Factor(text, c, k) * Worth(text, k, i)
  <2>1. i \in DigitsOf(more, k) <=> i \in DigitsOf(text, k)
    <3>1. i # n + 1
      BY <1>1
    <3> HIDE DEF n
    <3> QED
      BY <1>2, <3>1
  <2>2. CASE i \notin DigitsOf(text, k)
    <3>1. Worth(text, k, i) = 0 /\ Worth(more, k, i) = 0
      BY <1>3, <2>1, <2>2, Zenon
    <3>2. Factor(text, c, k) * 0 = 0
      BY DEF Factor
    <3> QED
      BY <3>1, <3>2
  <2>3. CASE i \in DigitsOf(text, k)
    <3>1. text[i] \in DigitSet /\ more[i] = text[i]
      BY <2>3 DEF DigitsOf, Positions, Grows
    <3>2. PICK v \in Nat : v = Value(text[i])
      BY <3>1, ValueTyped
    <3>3. PICK p \in Nat : p = Cardinality(Later(text, k, i))
      BY LaterGrows
    <3>4. Cardinality(Later(more, k, i)) =
             p + (IF c \in DigitSet /\ k = Current(text) THEN 1 ELSE 0)
      BY <3>3, LaterGrows
    <3>5. PICK w \in Nat : w = PowerOfTen(p) /\ PowerOfTen(p + 1) = 10 * w
      BY PowersOfTen
    <3>6. PowerOfTen(Cardinality(Later(more, k, i))) = Factor(text, c, k) * w
      <4>1. CASE c \in DigitSet /\ k = Current(text)
        <5>1. Cardinality(Later(more, k, i)) = p + 1 /\ Factor(text, c, k) = 10
          BY <3>4, <4>1 DEF Factor
        <5> QED
          BY <3>5, <5>1
      <4>2. CASE ~(c \in DigitSet /\ k = Current(text))
        <5>1. Cardinality(Later(more, k, i)) = p /\ Factor(text, c, k) = 1
          BY <3>4, <4>2 DEF Factor
        <5> QED
          BY <3>5, <5>1
      <4> QED
        BY <4>1, <4>2
    <3>7. /\ Worth(text, k, i) = v * w
          /\ Worth(more, k, i) = v * PowerOfTen(Cardinality(Later(more, k, i)))
      BY <1>3, <2>1, <2>3, <3>1, <3>2, <3>3, <3>5, Zenon
    <3>8. PICK f \in Nat : f = Factor(text, c, k)
      BY DEF Factor
    <3>9. v * (f * w) = f * (v * w) /\ v * w \in Nat
      OBVIOUS
    <3> QED
      BY <3>6, <3>7, <3>8, <3>9
  <2> QED
    BY <2>2, <2>3
<1>5. Worth(more, k, n + 1) = Units(text, c, k)
  <2>1. CASE c \in DigitSet /\ k = Current(text)
    <3>1. n + 1 \in DigitsOf(more, k)
      BY <1>2, <2>1
    <3>2. Later(more, k, n + 1) = {}
      <4>1. \A j \in DigitsOf(more, k) : ~(j > n + 1)
        <5> HIDE DEF n
        <5> QED
          BY <1>1, <1>2
      <4> QED
        BY <4>1, Zenon DEF Later
    <3>3. Cardinality(Later(more, k, n + 1)) = 0
      BY <3>2, FS_EmptySet
    <3>4. Worth(more, k, n + 1) = Value(c) * PowerOfTen(0)
      <4> HIDE DEF n
      <4> QED
        BY <1>1, <1>3, <3>1, <3>3, Zenon
    <3>5. PowerOfTen(0) = 1
      BY PowersOfTen
    <3>6. Value(c) * 1 = Value(c)
      BY <2>1, ValueTyped
    <3> QED
      BY <2>1, <3>4, <3>5, <3>6 DEF Units
  <2>2. CASE ~(c \in DigitSet /\ k = Current(text))
    <3>1. n + 1 \notin DigitsOf(more, k)
      <4> HIDE DEF n
      <4> QED
        BY <1>1, <1>2, <2>2
    <3> QED
      BY <1>3, <2>2, <3>1, Zenon DEF Units
  <2> QED
    BY <2>1, <2>2
<1> QED
  BY <1>4, <1>5

(* The number in a field is what a series adds up to.                      *)
Total(text, k, m, h) ==
    h = [i \in 0 .. m |-> IF i = 0 THEN 0 ELSE h[i - 1] + Worth(text, k, i)]

LEMMA NumberTotal ==
    ASSUME NEW text, Len(text) \in Nat, NEW k,
           \A i \in 1 .. Len(text) : Worth(text, k, i) \in Nat
    PROVE  LET w == [i \in 1 .. Len(text) |-> Worth(text, k, i)]
           IN  \E h : Series(0, 1, w, Len(text), h) /\ Number(text, k) = h[Len(text)]
<1> DEFINE m == Len(text)
           w == [i \in 1 .. m |-> Worth(text, k, i)]
           h == CHOOSE f : f = [i \in 0 .. m |-> IF i = 0 THEN 0
                                                   ELSE f[i - 1] + Worth(text, k, i)]
<1>1. \A i \in 1 .. m : w[i] = Worth(text, k, i) /\ w[i] \in Nat
  OBVIOUS
<1>2. PICK f : Series(0, 1, w, m, f)
  BY SeriesExist
<1>3. Number(text, k) = h[m]
  BY Zenon DEF Number
<1> HIDE DEF w
<1>4. InProportion(1, w, w, 1, m)
  BY <1>1 DEF InProportion
<1>5. InProportion(1, f, f, 0, m)
  <2>1. 0 = 1 * 0 /\ m <= m /\ m \in Nat /\ 1 \in Nat /\ 0 \in Nat
    OBVIOUS
  <2> HIDE DEF m
  <2> QED
    BY <1>2, <1>4, <2>1, SeriesInProportion
<1>6. Total(text, k, m, f)
  <2>1. f[0] = 0 /\ \A i \in 0 .. m - 1 : f[i + 1] = f[i] * 1 + w[i + 1]
    <3>1. m \in Nat
      OBVIOUS
    <3>2. PICK e : e = 0
      OBVIOUS
    <3>3. PICK b : b = 1
      OBVIOUS
    <3> HIDE DEF m
    <3>4. f[0] = e /\ \A i \in 0 .. m - 1 : f[i + 1] = f[i] * b + w[i + 1]
      <4>1. Series(e, b, w, m, f)
        BY <1>2, <3>2, <3>3
      <4> QED
        BY <3>1, <4>1, SeriesAt
    <3> QED
      BY <3>2, <3>3, <3>4
  <2>2. f = [i \in 0 .. m |-> f[i]]
    BY <1>2 DEF Series
  <2>3. ASSUME NEW i \in 0 .. m
        PROVE  f[i] = IF i = 0 THEN 0 ELSE f[i - 1] + Worth(text, k, i)
    <3>1. CASE i # 0
      <4>1. i - 1 \in 0 .. m - 1 /\ (i - 1) + 1 = i /\ i \in 1 .. m
        BY <3>1
      <4>2. f[i - 1] \in Nat
        BY <1>5, <4>1 DEF InProportion
      <4>3. f[i] = f[i - 1] * 1 + w[i]
        BY <2>1, <4>1
      <4> QED
        BY <1>1, <3>1, <4>1, <4>2, <4>3
    <3> QED
      BY <2>1, <3>1
  <2> QED
    BY <2>2, <2>3 DEF Total
<1>7. Total(text, k, m, h)
  BY <1>6, Zenon DEF Total
<1> HIDE DEF h
<1>8. \A i \in 0 .. m : h[i] = IF i = 0 THEN 0 ELSE h[i - 1] + Worth(text, k, i)
  BY <1>7 DEF Total
<1>9. \A i \in 0 .. m : h[i] \in Nat
  <2> DEFINE R == {n \in Nat : n <= m => h[n] \in Nat}
  <2>1. 0 \in R
    BY <1>8
  <2>2. ASSUME NEW n \in Nat, n \in R PROVE n + 1 \in R
    <3> SUFFICES ASSUME n + 1 <= m PROVE h[n + 1] \in Nat
      OBVIOUS
    <3>1. h[n] \in Nat /\ Worth(text, k, n + 1) \in Nat
      BY <2>2
    <3>2. h[n + 1] = h[n] + Worth(text, k, n + 1)
      BY <1>8
    <3> QED
      BY <3>1, <3>2
  <2>3. Nat \subseteq R
    <3> HIDE DEF R
    <3> QED
      BY <2>1, <2>2, UpTo
  <2> QED
    BY <2>3
<1>10. Series(0, 1, w, m, h)
  <2>1. ASSUME NEW i \in 0 .. m PROVE h[i] = Step(0, 1, w, h, i)
    <3>1. CASE i # 0
      <4>1. i - 1 \in 0 .. m /\ i \in 1 .. m
        BY <3>1
      <4>2. h[i - 1] \in Nat /\ h[i] = h[i - 1] + w[i]
        BY <1>1, <1>8, <1>9, <3>1, <4>1
      <4>3. h[i - 1] * 1 = h[i - 1]
        BY <4>2
      <4> QED
        BY <3>1, <4>2, <4>3 DEF Step
    <3> QED
      BY <1>8, <3>1 DEF Step
  <2>2. h = [i \in 0 .. m |-> h[i]]
    BY <1>7 DEF Total
  <2> QED
    BY <2>1, <2>2 DEF Series
<1> QED
  BY <1>3, <1>10 DEF w

(* One code point more makes a digit the last of its field's number and    *)
(* leaves the other numbers alone.                                         *)
LEMMA NumberGrows ==
    ASSUME NEW text, NEW c, NEW more, Grows(text, c, more), NEW k
    PROVE  /\ Number(text, k) \in Nat
           /\ Number(more, k) =
                Factor(text, c, k) * Number(text, k) + Units(text, c, k)
<1> DEFINE n == Len(text)
           w == [i \in 1 .. Len(text) |-> Worth(text, k, i)]
           v == [i \in 1 .. Len(more) |-> Worth(more, k, i)]
           a == Factor(text, c, k)
           u == Units(text, c, k)
<1>1. n \in Nat /\ Len(more) = n + 1
  BY DEF Grows
<1>2. a \in Nat /\ u \in Nat
  BY ValueTyped DEF Factor, Units
<1>3. /\ \A i \in 1 .. n : /\ Worth(text, k, i) \in Nat
                           /\ Worth(more, k, i) = a * Worth(text, k, i)
      /\ Worth(more, k, n + 1) = u
  BY WorthGrows
<1> HIDE DEF a, u
<1>4. \A i \in 1 .. Len(more) : Worth(more, k, i) \in Nat
  BY <1>1, <1>2, <1>3
<1>5. PICK h : Series(0, 1, w, n, h) /\ Number(text, k) = h[n]
  BY <1>1, <1>3, NumberTotal
<1>6. PICK j : Series(0, 1, v, n + 1, j) /\ Number(more, k) = j[n + 1]
  BY <1>1, <1>4, NumberTotal
<1>7. InProportion(a, w, v, 1, n) /\ v[n + 1] = u
  BY <1>1, <1>3 DEF InProportion
<1> HIDE DEF w, v, n
<1>8. InProportion(a, h, j, 0, n)
  <2>1. 0 = a * 0 /\ n <= n + 1 /\ n + 1 \in Nat /\ 1 \in Nat /\ 0 \in Nat
    BY <1>1, <1>2
  <2> QED
    BY <1>1, <1>2, <1>5, <1>6, <1>7, <2>1, SeriesInProportion
<1>9. h[n] \in Nat /\ j[n] = a * h[n]
  BY <1>1, <1>8 DEF InProportion
<1>10. j[n + 1] = j[n] * 1 + v[n + 1]
  BY <1>1, <1>6, SeriesAt
<1>11. j[n] \in Nat
  BY <1>2, <1>9
<1> QED
  BY <1>2, <1>5, <1>6, <1>7, <1>9, <1>10, <1>11 DEF a, u

(* A field without digits is worth nothing.                                *)
LEMMA NumberOfNone ==
    ASSUME NEW text, Len(text) \in Nat, NEW k, DigitsOf(text, k) = {}
    PROVE  Number(text, k) = 0
<1> DEFINE n == Len(text)
           w == [i \in 1 .. Len(text) |-> Worth(text, k, i)]
<1>1. \A i \in 1 .. n : Worth(text, k, i) = 0
  BY Zenon DEF Worth
<1>2. PICK h : Series(0, 1, w, n, h) /\ Number(text, k) = h[n]
  BY <1>1, NumberTotal
<1>3. InProportion(0, w, w, 1, n)
  BY <1>1 DEF InProportion
<1> HIDE DEF w, n
<1>4. InProportion(0, h, h, 0, n)
  <2>1. 0 = 0 * 0 /\ n <= n /\ n \in Nat /\ 1 \in Nat /\ 0 \in Nat
    BY DEF n
  <2> QED
    BY <1>2, <1>3, <2>1, SeriesInProportion
<1>5. n \in Nat
  BY DEF n
<1>6. h[n] \in Nat /\ h[n] = 0 * h[n]
  BY <1>4, <1>5 DEF InProportion
<1> QED
  BY <1>2, <1>6

-----------------------------------------------------------------------------
LEMMA Divides ==
    ASSUME NEW a \in Int, NEW w \in Nat \ {0}
    PROVE  a \div w \in Int /\ a % w \in 0 .. w - 1 /\ a = w * (a \div w) + (a % w)
OBVIOUS

LEMMA SmallMultiple ==
    ASSUME NEW w \in Nat \ {0}, NEW d \in Int, w * d < w, - w < w * d PROVE d = 0
<1>1. CASE d >= 1
  <2>1. w * d >= w * 1
    BY <1>1
  <2> QED
    BY <2>1
<1>2. CASE d <= -1
  <2>1. w * d <= w * (-1)
    BY <1>2
  <2> QED
    BY <2>1
<1> QED
  BY <1>1, <1>2

LEMMA RemainderOfSum ==
    ASSUME NEW a \in Int, NEW w \in Nat \ {0}, NEW k \in Int
    PROVE  (a + w * k) % w = a % w
<1>1. PICK b \in Int : b = a + w * k
  OBVIOUS
<1>2. PICK q \in Int, r \in 0 .. w - 1 : r = a % w /\ a = w * q + r
  BY Divides
<1>3. PICK p \in Int, s \in 0 .. w - 1 : s = b % w /\ b = w * p + s
  BY Divides
<1>4. w * (q + k - p) = s - r
  <2>1. PICK x \in Int, y \in Int, z \in Int : x = w * q /\ y = w * k /\ z = w * p
    OBVIOUS
  <2>2. w * (q + k - p) = x + y - z
    BY <2>1
  <2>3. b = a + y /\ a = x + r /\ b = z + s
    BY <1>1, <1>2, <1>3, <2>1
  <2> QED
    BY <2>2, <2>3
<1>5. s - r < w /\ - w < s - r
  OBVIOUS
<1>6. q + k - p = 0
  BY <1>4, <1>5, SmallMultiple
<1>7. s = r
  BY <1>4, <1>6
<1>8. b % w = a % w
  BY <1>2, <1>3, <1>7, Zenon
<1> QED
  BY <1>1, <1>8, Zenon

(* A parameter that has wrapped goes on as the number it stands for.       *)
LEMMA WrapsOnce ==
    ASSUME NEW n \in Int, NEW v \in Int
    PROVE  /\ Wrap(n) \in Int
           /\ Wrap(Wrap(n) * 10 + v) = Wrap(10 * n + v)
<1>1. PICK h \in Nat : h = IntMax + 1
  BY BoundsAssumption
<1>2. PICK w \in Nat \ {0} : w = 2 * IntMax + 2
  BY BoundsAssumption
<1>3. \A x \in Int : Wrap(x) = ((x + h) % w) - h
  BY <1>1, <1>2, BoundsAssumption DEF Wrap
<1>4. PICK q \in Int, r \in 0 .. w - 1 : r = (n + h) % w /\ n + h = w * q + r
  <2>1. PICK b \in Int : b = n + h
    OBVIOUS
  <2>2. b % w \in 0 .. w - 1 /\ b = w * (b \div w) + (b % w) /\ b \div w \in Int
    BY Divides
  <2> QED
    BY <2>1, <2>2
<1>5. PICK m \in Int : m = w * q
  OBVIOUS
<1>6. Wrap(n) = n - m
  BY <1>3, <1>4, <1>5
<1>7. PICK a \in Int : a = 10 * n + v + h
  OBVIOUS
<1>8. PICK k \in Int : k = -10 * q
  OBVIOUS
<1>9. PICK x \in Int : x = Wrap(n) * 10 + v
  BY <1>6
<1>10. x + h = a + w * k
  <2>1. w * k = -10 * m
    BY <1>5, <1>8
  <2> QED
    BY <1>6, <1>7, <1>9, <2>1
<1>11. (a + w * k) % w = a % w
  BY RemainderOfSum
<1>12. Wrap(x) = (a % w) - h
  BY <1>3, <1>10, <1>11, Zenon
<1>13. PICK y \in Int : y = 10 * n + v
  OBVIOUS
<1>14. Wrap(y) = (a % w) - h
  <2>1. y + h = a
    BY <1>7, <1>13
  <2> QED
    BY <1>3, <2>1, Zenon
<1>15. Wrap(n) \in Int
  BY <1>6
<1> QED
  BY <1>9, <1>12, <1>13, <1>14, <1>15, Zenon

LEMMA WrapOfNone == Wrap(0) = 0
<1>1. (IntMax + 1) % (2 * IntMax + 2) = IntMax + 1
  <2>1. PICK w \in Nat \ {0} : w = 2 * IntMax + 2
    BY BoundsAssumption
  <2>2. PICK b \in Nat : b = IntMax + 1
    BY BoundsAssumption
  <2>3. PICK q \in Int, r \in 0 .. w - 1 : r = b % w /\ b = w * q + r
    <3>1. b % w \in 0 .. w - 1 /\ b = w * (b \div w) + (b % w) /\ b \div w \in Int
      BY Divides
    <3> QED
      BY <3>1
  <2>4. w * q < w /\ - w < w * q
    BY <2>1, <2>2, <2>3, BoundsAssumption
  <2>5. q = 0
    BY <2>4, SmallMultiple
  <2>6. b % w = b
    BY <2>3, <2>5
  <2> QED
    BY <2>1, <2>2, <2>6, Zenon
<1> QED
  BY <1>1, BoundsAssumption DEF Wrap

-----------------------------------------------------------------------------
(* The parameters a text means.                                            *)

LEMMA SmallestOf ==
    ASSUME NEW S \in SUBSET Nat, S # {}
    PROVE  Min(S) \in S /\ \A y \in S : Min(S) <= y
<1>1. PICK k \in S : \A j \in S : ~(<<j, k>> \in OpToRel(<, Nat))
  BY WFMin, NatLessThanWellFounded
<1>2. \A j \in S : k <= j
  <2>1. k \in Nat /\ S \subseteq Nat
    OBVIOUS
  <2>2. \A j \in S : j \in Nat /\ ~(j < k)
    BY <1>1, <2>1 DEF OpToRel
  <2> QED
    BY <2>1, <2>2
<1>3. \E x \in S : \A y \in S : x =< y
  BY <1>2
<1> QED
  BY <1>3, Zenon DEF Min

LEMMA SmallestIs ==
    ASSUME NEW S \in SUBSET Nat, NEW x \in S, \A y \in S : x <= y PROVE Min(S) = x
<1>1. Min(S) \in S /\ \A y \in S : Min(S) <= y
  BY SmallestOf
<1>2. PICK m \in Nat : m = Min(S)
  BY <1>1
<1> QED
  BY <1>1, <1>2

LEMMA GreatestOf ==
    ASSUME NEW n \in Nat, NEW S, S \subseteq 1 .. n, S # {}
    PROVE  Max(S) \in S
<1> DEFINE T == {n - x : x \in S}
<1>1. T \subseteq Nat /\ T # {}
  <2>1. \A x \in S : n - x \in Nat
    OBVIOUS
  <2>2. \E x : x \in S
    OBVIOUS
  <2> QED
    BY <2>1, <2>2
<1>2. PICK k \in T : \A j \in T : ~(<<j, k>> \in OpToRel(<, Nat))
  <2> HIDE DEF T
  <2> QED
    BY <1>1, WFMin, NatLessThanWellFounded
<1>3. k \in Nat /\ \A j \in T : k <= j
  <2>1. k \in Nat /\ \A j \in T : j \in Nat /\ ~(j < k)
    <3> HIDE DEF T
    <3> QED
      BY <1>1, <1>2 DEF OpToRel
  <2> QED
    BY <2>1
<1>4. PICK x \in S : k = n - x
  OBVIOUS
<1>5. \A y \in S : x >= y
  BY <1>3, <1>4
<1>6. \E z \in S : \A y \in S : z >= y
  BY <1>5
<1> QED
  BY <1>6, Zenon DEF Max

LEMMA GreatestIs ==
    ASSUME NEW S \in SUBSET Nat, NEW x \in S, \A y \in S : y <= x PROVE Max(S) = x
<1>1. \E z \in S : \A y \in S : z >= y
  OBVIOUS
<1>2. Max(S) \in S /\ \A y \in S : Max(S) >= y
  BY <1>1, Zenon DEF Max
<1>3. PICK m \in Nat : m = Max(S)
  BY <1>2
<1> QED
  BY <1>2, <1>3

(* Where the separators and the digits are.                                *)
Where(text) == Separators(text) \union Positions(text)
Counts(c) == c = Semicolon \/ c \in DigitSet

LEMMA WhereGrows ==
    ASSUME NEW text, NEW c, NEW more, Grows(text, c, more)
    PROVE  /\ Where(text) \subseteq 1 .. Len(text)
           /\ Where(more) = Where(text) \union (IF Counts(c) THEN {Len(text) + 1} ELSE {})
BY SeparatorsGrow, PositionsGrow DEF Where, Counts

LEMMA LosesFirstIs ==
    ASSUME NEW text
    PROVE  LosesFirst(text) <=> (Where(text) # {} /\ text[Min(Where(text))] = Semicolon)
BY Zenon DEF LosesFirst, Where, Semicolon

LEMMA LosesFirstGrows ==
    ASSUME NEW text, NEW c, NEW more, Grows(text, c, more)
    PROVE  /\ LosesFirst(text) => Where(text) # {} /\ Current(text) >= 2
           /\ LosesFirst(more) <=> IF Where(text) = {} THEN c = Semicolon
                                                      ELSE LosesFirst(text)
<1> DEFINE n == Len(text)
           T == Where(text)
           U == Where(more)
<1>1. /\ n \in Nat /\ more[n + 1] = c /\ \A i \in 1 .. n : more[i] = text[i]
      /\ T \subseteq 1 .. n /\ U = T \union (IF Counts(c) THEN {n + 1} ELSE {})
  BY WhereGrows DEF Grows
<1>2. /\ LosesFirst(text) <=> (T # {} /\ text[Min(T)] = Semicolon)
      /\ LosesFirst(more) <=> (U # {} /\ more[Min(U)] = Semicolon)
  BY LosesFirstIs, Zenon
<1> HIDE DEF n, T, U
<1>3. T # {} => Min(T) \in T /\ \A y \in T : Min(T) <= y
  <2>1. T \in SUBSET Nat
    BY <1>1
  <2> QED
    BY <2>1, SmallestOf
<1>4. LosesFirst(text) => Current(text) >= 2
  <2> SUFFICES ASSUME LosesFirst(text) PROVE Current(text) >= 2
    OBVIOUS
  <2>1. Min(T) \in 1 .. Len(text) /\ text[Min(T)] = Semicolon
    BY <1>1, <1>2, <1>3 DEF n
  <2>2. Min(T) \in SeparatorsIn(text)
    BY <2>1 DEF SeparatorsIn
  <2>3. Separators(text) # {} /\ Separators(text) \subseteq 1 .. n
    BY <2>2, SeparatorsAre, SeparatorsGrow DEF n
  <2>4. IsFiniteSet(Separators(text)) /\ Cardinality(Separators(text)) \in Nat
    BY <1>1, <2>3, CountedUpTo
  <2>5. Cardinality(Separators(text)) # 0
    BY <2>3, <2>4, FS_EmptySet
  <2> QED
    BY <2>4, <2>5 DEF Current
<1>5. CASE T = {}
  <2>1. CASE Counts(c)
    <3>1. U = {n + 1}
      BY <1>1, <1>5, <2>1
    <3>2. Min(U) = n + 1
      <4>1. U \in SUBSET Nat /\ n + 1 \in U /\ \A y \in U : n + 1 <= y
        BY <1>1, <3>1
      <4> QED
        BY <4>1, SmallestIs
    <3> QED
      BY <1>1, <1>2, <1>4, <1>5, <3>1, <3>2 DEF T
  <2>2. CASE ~Counts(c)
    BY <1>1, <1>2, <1>4, <1>5, <2>2 DEF T, Counts
  <2> QED
    BY <2>1, <2>2
<1>6. CASE T # {}
  <2>1. Min(T) \in 1 .. n
    BY <1>1, <1>3, <1>6
  <2>2. Min(U) = Min(T)
    <3>1. U \in SUBSET Nat /\ Min(T) \in U
      BY <1>1, <1>3, <1>6
    <3>2. \A y \in U : Min(T) <= y
      BY <1>1, <1>3, <1>6, <2>1
    <3> QED
      BY <3>1, <3>2, SmallestIs
  <2>3. more[Min(U)] = text[Min(T)] /\ U # {}
    BY <1>1, <1>6, <2>1, <2>2
  <2> QED
    BY <1>2, <1>4, <1>6, <2>3 DEF T
<1> QED
  BY <1>5, <1>6

LEMMA LastIntermediateGrows ==
    ASSUME NEW text, NEW c, NEW more, Grows(text, c, more)
    PROVE  LastIntermediate(more) =
              IF c \in Intermediates THEN c ELSE LastIntermediate(text)
<1> DEFINE n == Len(text)
           T == {i \in 1 .. Len(text) : text[i] \in Intermediates}
           U == {i \in 1 .. Len(more) : more[i] \in Intermediates}
<1>1. /\ n \in Nat /\ more[n + 1] = c /\ \A i \in 1 .. n : more[i] = text[i]
      /\ T \subseteq 1 .. n
      /\ U = T \union (IF c \in Intermediates THEN {n + 1} ELSE {})
  <2> HIDE DEF Intermediates
  <2>1. 1 .. Len(more) = (1 .. Len(text)) \union {Len(text) + 1}
    BY DEF Grows
  <2> QED
    BY <2>1 DEF Grows
<1>2. /\ LastIntermediate(text) = IF T = {} THEN NULL ELSE text[Max(T)]
      /\ LastIntermediate(more) = IF U = {} THEN NULL ELSE more[Max(U)]
  BY Zenon DEF LastIntermediate
<1> HIDE DEF n, T, U
<1>3. CASE c \in Intermediates
  <2>0. U = T \union {n + 1}
    BY <1>1, <1>3
  <2>1. U \in SUBSET Nat /\ n + 1 \in U /\ \A y \in U : y <= n + 1
    BY <1>1, <2>0
  <2>2. Max(U) = n + 1
    BY <2>1, GreatestIs
  <2> QED
    BY <1>1, <1>2, <1>3, <2>1, <2>2
<1>4. CASE c \notin Intermediates
  <2>1. U = T
    BY <1>1, <1>4
  <2>2. T # {} => Max(T) \in T
    BY <1>1, GreatestOf
  <2>3. T # {} => more[Max(T)] = text[Max(T)]
    BY <1>1, <2>2
  <2> QED
    BY <1>2, <1>4, <2>1, <2>3
<1> QED
  BY <1>3, <1>4

(* The parameters a text stands for, and their number.                     *)
Meant(text) == IF LosesFirst(text) THEN Tail(Fields(text)) ELSE Fields(text)
Offset(text) == IF LosesFirst(text) THEN 1 ELSE 0
Count(text) == IF Where(text) = {} THEN 0 ELSE Current(text) - Offset(text)

LEMMA TailOfFunction ==
    ASSUME NEW m \in Nat \ {0}, NEW f \in [1 .. m -> Int]
    PROVE  Tail(f) = [k \in 1 .. m - 1 |-> f[k + 1]]
<1>1. f \in Seq(Int) /\ Len(f) = m /\ f # <<>>
  OBVIOUS
<1>2. /\ Tail(f) \in Seq(Int) /\ Len(Tail(f)) = m - 1
      /\ \A i \in 1 .. m - 1 : Tail(f)[i] = f[i + 1]
  BY <1>1, HeadTailProperties
<1>3. PICK t \in Seq(Int) : t = Tail(f)
  BY <1>2
<1>4. t = [k \in 1 .. Len(t) |-> t[k]]
  BY LenProperties
<1> QED
  BY <1>2, <1>3, <1>4

LEMMA MeantIs ==
    ASSUME NEW S, NEW text \in Seq(S), NEW c \in S
    PROVE  /\ Count(text) \in Nat
           /\ Where(text) # {} => Count(text) >= 1
           /\ \A k \in Nat : Number(text, k) \in Nat
           /\ Meant(text) =
                [k \in 1 .. Count(text) |-> Wrap(Number(text, k + Offset(text)))]
<1> DEFINE m == Current(text)
           f == [k \in 1 .. m |-> Wrap(Number(text, k))]
<1>1. Grows(text, c, Append(text, c))
  BY AppendGrows
<1>2. /\ m \in Nat \ {0}
      /\ LosesFirst(text) => Where(text) # {} /\ m >= 2
      /\ \A k : Number(text, k) \in Nat
  BY <1>1, FieldsGrow, LosesFirstGrows, NumberGrows
<1>3. Fields(text) = IF Where(text) = {} THEN <<>> ELSE f
  BY Zenon DEF Fields, Where, Current
<1> HIDE DEF m
<1>4. \A k : Wrap(Number(text, k)) \in Int
  BY <1>2, WrapsOnce
<1>5. f \in [1 .. m -> Int] /\ \A k \in 1 .. m : f[k] = Wrap(Number(text, k))
  BY <1>4
<1> HIDE DEF f
<1>6. CASE LosesFirst(text)
  <2>1. Meant(text) = Tail(f) /\ Count(text) = m - 1 /\ Offset(text) = 1
    BY <1>2, <1>3, <1>6 DEF Meant, Count, Offset, m
  <2>2. Tail(f) = [k \in 1 .. m - 1 |-> f[k + 1]]
    BY <1>2, <1>5, TailOfFunction
  <2>3. \A k \in 1 .. m - 1 : f[k + 1] = Wrap(Number(text, k + 1))
    BY <1>2, <1>5
  <2>4. Meant(text) = [k \in 1 .. m - 1 |-> Wrap(Number(text, k + 1))]
    BY <2>1, <2>2, <2>3
  <2>5. m - 1 \in Nat /\ m - 1 >= 1
    BY <1>2, <1>6
  <2>6. Meant(text) = [k \in 1 .. Count(text) |-> Wrap(Number(text, k + Offset(text)))]
    BY <2>1, <2>4
  <2> QED
    BY <1>2, <2>1, <2>5, <2>6
<1>7. CASE ~LosesFirst(text) /\ Where(text) # {}
  <2>1. Meant(text) = f /\ Count(text) = m /\ Offset(text) = 0
    BY <1>2, <1>3, <1>7 DEF Meant, Count, Offset, m
  <2>2. f = [k \in 1 .. m |-> Wrap(Number(text, k + 0))]
    <3>1. \A k \in 1 .. m : k + 0 = k
      BY <1>2
    <3>2. f = [k \in 1 .. m |-> f[k]]
      BY <1>5
    <3> QED
      BY <1>5, <3>1, <3>2
  <2> QED
    BY <1>2, <1>7, <2>1, <2>2
<1>8. CASE Where(text) = {}
  <2>1. ~LosesFirst(text)
    BY <1>2, <1>8
  <2>2. Meant(text) = <<>> /\ Count(text) = 0 /\ Offset(text) = 0
    BY <1>3, <1>8, <2>1 DEF Meant, Count, Offset
  <2>3. <<>> = [k \in 1 .. 0 |-> Wrap(Number(text, k + 0))]
    OBVIOUS
  <2> QED
    BY <1>2, <1>8, <2>2, <2>3
<1> QED
  BY <1>6, <1>7, <1>8

(* What one code point more makes of them.                                 *)
LEMMA OthersKeep ==
    ASSUME NEW S, NEW text \in Seq(S), NEW c \in S, ~Counts(c)
    PROVE  Meant(Append(text, c)) = Meant(text)
<1> DEFINE more == Append(text, c)
<1>1. Grows(text, c, more) /\ more \in Seq(S)
  BY AppendGrows, AppendProperties
<1> HIDE DEF more
<1>2. Where(more) = Where(text) /\ Current(more) = Current(text)
  <2>1. Where(more) = Where(text)
    BY <1>1, WhereGrows
  <2>2. Current(text) \in Nat /\ c # Semicolon
    BY <1>1, FieldsGrow DEF Counts
  <2>3. Current(more) = Current(text) + (IF c = Semicolon THEN 1 ELSE 0)
    BY <1>1, FieldsGrow
  <2> QED
    BY <2>1, <2>2, <2>3
<1>3. Offset(more) = Offset(text)
  BY <1>1, LosesFirstGrows DEF Offset, Counts
<1>4. Count(more) = Count(text)
  BY <1>2, <1>3 DEF Count
<1>5. \A k : Number(more, k) = Number(text, k)
  <2> TAKE k
  <2>1. Factor(text, c, k) = 1 /\ Units(text, c, k) = 0
    BY DEF Factor, Units, Counts
  <2>2. /\ Number(text, k) \in Nat
        /\ Number(more, k) = Factor(text, c, k) * Number(text, k) + Units(text, c, k)
    BY <1>1, NumberGrows
  <2> QED
    BY <2>1, <2>2
<1>6. /\ Meant(text) = [k \in 1 .. Count(text) |-> Wrap(Number(text, k + Offset(text)))]
      /\ Meant(more) = [k \in 1 .. Count(more) |-> Wrap(Number(more, k + Offset(more)))]
  BY <1>1, MeantIs
<1> QED
  BY <1>3, <1>4, <1>5, <1>6 DEF more

LEMMA SemicolonAdds ==
    ASSUME NEW S, NEW text \in Seq(S), NEW c \in S, c = Semicolon
    PROVE  Meant(Append(text, c)) = Append(Meant(text), 0)
<1> DEFINE more == Append(text, c)
           m == Count(text)
           o == Offset(text)
           last == Current(text) + 1
<1>1. Grows(text, c, more) /\ more \in Seq(S) /\ Len(text) \in Nat /\ Len(more) \in Nat
  BY AppendGrows, AppendProperties, LenProperties DEF Grows
<1> HIDE DEF more
<1>2. Counts(c) /\ c \notin DigitSet
  BY SemicolonApart DEF Counts
<1>3. Where(more) = Where(text) \union {Len(text) + 1}
  BY <1>1, <1>2, WhereGrows
<1>4. Current(text) \in Nat \ {0} /\ Current(more) = last
  <2>1. Current(more) = Current(text) + (IF c = Semicolon THEN 1 ELSE 0)
    BY <1>1, FieldsGrow
  <2>2. Current(text) \in Nat \ {0}
    BY <1>1, FieldsGrow
  <2> QED
    BY <2>1, <2>2
<1>5. Where(text) = {} => Current(text) = 1 /\ o = 0 /\ Offset(more) = 1
  <2> SUFFICES ASSUME Where(text) = {}
               PROVE  Current(text) = 1 /\ o = 0 /\ Offset(more) = 1
    OBVIOUS
  <2>1. Separators(text) = {}
    BY DEF Where
  <2>2. ~LosesFirst(text) /\ LosesFirst(more)
    BY <1>1, LosesFirstGrows
  <2> QED
    BY <2>1, <2>2, FS_EmptySet DEF Current, Offset
<1>6. Where(text) # {} => Offset(more) = o
  BY <1>1, LosesFirstGrows DEF Offset
<1>7. m \in Nat /\ Count(more) = m + 1
      /\ o \in Nat /\ Offset(more) \in Nat /\ m + 1 + Offset(more) = last
  <2>1. m \in Nat /\ o \in {0, 1} /\ Offset(more) \in {0, 1}
    BY MeantIs DEF Offset
  <2>2. Count(more) = last - Offset(more)
    BY <1>3, <1>4 DEF Count
  <2>3. CASE Where(text) = {}
    <3>1. m = 0
      BY <2>3 DEF Count
    <3> QED
      BY <1>5, <2>1, <2>2, <2>3, <3>1
  <2>4. CASE Where(text) # {}
    <3>1. m = Current(text) - o
      BY <2>4 DEF Count
    <3> HIDE DEF m, o
    <3> QED
      BY <1>4, <1>6, <2>1, <2>2, <2>4, <3>1
  <2> QED
    BY <2>3, <2>4
<1>8. \A k : Number(more, k) = Number(text, k)
  <2> TAKE k
  <2>1. Factor(text, c, k) = 1 /\ Units(text, c, k) = 0
    BY <1>2 DEF Factor, Units
  <2>2. /\ Number(text, k) \in Nat
        /\ Number(more, k) = Factor(text, c, k) * Number(text, k) + Units(text, c, k)
    BY <1>1, NumberGrows
  <2> QED
    BY <2>1, <2>2
<1>9. Number(text, last) = 0
  <2>1. last \notin 1 .. Current(text)
    BY <1>4
  <2>2. DigitsOf(text, last) = {}
    BY <1>1, <2>1, DigitsGrow
  <2> QED
    BY <1>1, <2>2, NumberOfNone
<1>10. /\ Meant(text) = [k \in 1 .. m |-> Wrap(Number(text, k + o))]
       /\ Meant(more) = [k \in 1 .. m + 1 |-> Wrap(Number(text, k + Offset(more)))]
  <2>1. Meant(more) = [k \in 1 .. Count(more) |-> Wrap(Number(more, k + Offset(more)))]
    BY <1>1, MeantIs
  <2> QED
    BY <1>7, <1>8, <2>1, MeantIs
<1>11. \A k \in Nat : Wrap(Number(text, k)) \in Int
  <2> TAKE k \in Nat
  <2>1. Number(text, k) \in Int
    BY <1>1, NumberGrows
  <2> QED
    BY <2>1, WrapsOnce
<1>12. m # 0 => Offset(more) = o
  BY <1>6 DEF Count
<1> HIDE DEF m, o, last
<1> DEFINE g == Meant(text)
           h == Meant(more)
<1>13. g \in [1 .. m -> Int] /\ h \in [1 .. m + 1 -> Int]
  <2> DEFINE a(k) == Wrap(Number(text, k + o))
             b(k) == Wrap(Number(text, k + Offset(more)))
  <2>1. ASSUME NEW k \in 1 .. m PROVE a(k) \in Int
    <3>1. k + o \in Nat
      BY <1>7
    <3> QED
      BY <1>11, <3>1
  <2>2. ASSUME NEW k \in 1 .. m + 1 PROVE b(k) \in Int
    <3>1. k + Offset(more) \in Nat
      BY <1>7
    <3> QED
      BY <1>11, <3>1
  <2>3. g = [k \in 1 .. m |-> a(k)] /\ h = [k \in 1 .. m + 1 |-> b(k)]
    BY <1>10
  <2> HIDE DEF a, b, g, h
  <2> QED
    BY <2>1, <2>2, <2>3
<1>14. h[m + 1] = 0
  BY <1>7, <1>9, <1>10, WrapOfNone
<1>15. \A k \in 1 .. m : h[k] = g[k]
  BY <1>7, <1>10, <1>12
<1> HIDE DEF g, h
<1>16. h = Append(g, 0)
  <2>1. /\ g \in Seq(Int) /\ Len(g) = m
        /\ h \in Seq(Int) /\ Len(h) = m + 1
    BY <1>7, <1>13
  <2>2. /\ Append(g, 0) \in Seq(Int) /\ Len(Append(g, 0)) = m + 1
        /\ \A k \in 1 .. m : Append(g, 0)[k] = g[k]
        /\ Append(g, 0)[m + 1] = 0
    BY <1>7, <2>1, AppendProperties
  <2>3. \A k \in 1 .. m + 1 : h[k] = Append(g, 0)[k]
    BY <1>7, <1>14, <1>15, <2>2
  <2> QED
    BY <2>1, <2>2, <2>3, SeqEqual
<1> QED
  BY <1>16 DEF more, g, h

(* A digit opens the first field when there is none.                       *)
Opened(ps) == IF ps = <<>> THEN <<0>> ELSE ps

LEMMA DigitAdds ==
    ASSUME NEW S, NEW text \in Seq(S), NEW c \in S, c \in DigitSet,
           NEW ps, ps = Opened(Meant(text))
    PROVE  Meant(Append(text, c)) = [ps EXCEPT ![Len(ps)] = Wrap(@ * 10 + Value(c))]
<1> DEFINE more == Append(text, c)
           o == Offset(text)
           last == Current(text)
<1>1. Grows(text, c, more) /\ more \in Seq(S) /\ Len(text) \in Nat
  BY AppendGrows, AppendProperties, LenProperties
<1> HIDE DEF more
<1>2. Counts(c) /\ c # Semicolon
  BY SemicolonApart DEF Counts
<1>3. Where(more) = Where(text) \union {Len(text) + 1}
  BY <1>1, <1>2, WhereGrows
<1>4. last \in Nat \ {0} /\ Current(more) = last
  <2>1. Current(more) = last + (IF c = Semicolon THEN 1 ELSE 0)
    BY <1>1, FieldsGrow
  <2>2. last \in Nat \ {0}
    BY <1>1, FieldsGrow
  <2> QED
    BY <1>2, <2>1, <2>2
<1>5. Offset(more) = o
  BY <1>1, <1>2, LosesFirstGrows DEF Offset
<1>6. Where(text) = {} => last = 1 /\ o = 0 /\ Count(text) = 0 /\ Number(text, last) = 0
  <2> SUFFICES ASSUME Where(text) = {}
               PROVE  last = 1 /\ o = 0 /\ Count(text) = 0 /\ Number(text, last) = 0
    OBVIOUS
  <2>1. Separators(text) = {} /\ Positions(text) = {}
    BY DEF Where
  <2>2. ~LosesFirst(text) /\ DigitsOf(text, last) = {}
    BY <1>1, <2>1, LosesFirstGrows DEF DigitsOf
  <2>3. Number(text, last) = 0
    BY <1>1, <2>2, NumberOfNone
  <2> QED
    BY <2>1, <2>2, <2>3, FS_EmptySet DEF Current, Offset, Count
<1>7. PICK m \in Nat : m = Count(more)
  BY <1>1, MeantIs
<1>8. /\ m >= 1 /\ o \in Nat /\ m + o = last
      /\ Where(text) # {} => Count(text) = m
      /\ Where(text) = {} => m = 1
  <2>1. o \in {0, 1} /\ (o = 1 => last >= 2)
    BY <1>1, LosesFirstGrows DEF Offset
  <2>2. m = last - o
    BY <1>3, <1>4, <1>5, <1>7 DEF Count
  <2>3. Where(text) # {} => Count(text) = last - o
    BY DEF Count
  <2> HIDE DEF last, o
  <2> QED
    BY <1>4, <1>6, <2>1, <2>2, <2>3
<1>9. PICK v \in Nat : v = Value(c)
  BY ValueTyped
<1>10. /\ \A k : Number(text, k) \in Nat
       /\ \A k : k # last => Number(more, k) = Number(text, k)
       /\ Number(more, last) = 10 * Number(text, last) + v
  <2>1. \A k : /\ Number(text, k) \in Nat
               /\ Number(more, k) = Factor(text, c, k) * Number(text, k) + Units(text, c, k)
    BY <1>1, NumberGrows
  <2>2. \A k : k # last => Factor(text, c, k) = 1 /\ Units(text, c, k) = 0
    BY DEF Factor, Units
  <2>3. Factor(text, c, last) = 10 /\ Units(text, c, last) = v
    BY <1>9 DEF Factor, Units
  <2> QED
    BY <2>1, <2>2, <2>3
<1>11. /\ Meant(text) = [k \in 1 .. Count(text) |-> Wrap(Number(text, k + o))]
       /\ Meant(more) = [k \in 1 .. m |-> Wrap(Number(more, k + o))]
  BY <1>1, <1>5, <1>7, MeantIs
<1> HIDE DEF o, last
<1>12. ps = [k \in 1 .. m |-> Wrap(Number(text, k + o))]
  <2>1. CASE Where(text) = {}
    <3>1. Meant(text) = <<>>
      BY <1>6, <1>11, <2>1
    <3>2. ps = <<0>>
      BY <3>1 DEF Opened
    <3>3. m = 1 /\ Wrap(Number(text, 1 + o)) = 0
      BY <1>6, <1>8, <2>1, WrapOfNone
    <3> QED
      BY <3>2, <3>3
  <2>2. CASE Where(text) # {}
    <3>1. Meant(text) = [k \in 1 .. m |-> Wrap(Number(text, k + o))]
      BY <1>8, <1>11, <2>2
    <3>2. Meant(text) # <<>>
      BY <1>8, <3>1
    <3> QED
      BY <3>1, <3>2 DEF Opened
  <2> QED
    BY <2>1, <2>2
<1>13. \A k \in 1 .. m : Wrap(Number(text, k + o)) \in Int
  BY <1>10, WrapsOnce
<1>14. Len(ps) = m
  <2>1. ps \in [1 .. m -> Int]
    BY <1>12, <1>13
  <2> QED
    BY <2>1
<1>15. PICK x \in Nat : x = Number(text, m + o)
  BY <1>8, <1>10
<1>16. Number(more, m + o) = 10 * x + v
  BY <1>8, <1>10, <1>15
<1>17. Wrap(Wrap(x) * 10 + v) = Wrap(10 * x + v)
  BY WrapsOnce
<1> DEFINE y == Wrap(Wrap(x) * 10 + v)
<1>18. Wrap(Number(more, m + o)) = y
  BY <1>16, <1>17, Zenon
<1>19. ps[m] = Wrap(x)
  <2>1. m \in 1 .. m
    BY <1>8
  <2> QED
    BY <1>12, <1>15, <2>1, Zenon
<1>20. \A k \in 1 .. m : k # m => Number(more, k + o) = Number(text, k + o)
  BY <1>8, <1>10
<1> HIDE DEF y
<1>21. [ps EXCEPT ![m] = y] = [k \in 1 .. m |-> Wrap(Number(more, k + o))]
  BY <1>8, <1>12, <1>18, <1>20
<1>22. [ps EXCEPT ![Len(ps)] = Wrap(@ * 10 + Value(c))] = [ps EXCEPT ![m] = y]
  BY <1>9, <1>14, <1>19, Zenon DEF y
<1> QED
  BY <1>11, <1>21, <1>22, Zenon DEF more

(* One step of the parser.                                                 *)

LEMMA SequenceGoesOn ==
    ASSUME TypeOK, SequenceParams, cp \in CodePoints, state = "csi",
           _parser_set_intermediate \/ _parser_param_digit \/ _parser_next_param
    PROVE  params' = Meant(body') /\ intermediate' = LastIntermediate(body')
<1>1. body \in Seq(CodePoints) /\ Grows(body, cp, Append(body, cp))
  BY AppendGrows DEF TypeOK
<1>2. params = Meant(body) /\ intermediate = LastIntermediate(body)
  BY Zenon DEF SequenceParams, Meant
<1>3. LastIntermediate(Append(body, cp)) =
         IF cp \in Intermediates THEN cp ELSE LastIntermediate(body)
  BY <1>1, LastIntermediateGrows
<1>4. CASE _parser_set_intermediate
  <2>1. /\ cp \in Intermediates /\ intermediate' = cp
        /\ body' = Append(body, cp) /\ params' = params
    BY <1>4, Zenon DEF _parser_set_intermediate, Quiet, Entry
  <2>2. ~Counts(cp)
    BY <2>1, SemicolonApart DEF Counts
  <2>3. Meant(Append(body, cp)) = Meant(body)
    BY <1>1, <2>2, OthersKeep
  <2> QED
    BY <1>2, <1>3, <2>1, <2>3, Zenon
<1>5. CASE _parser_param_digit
  <2> DEFINE ps == Opened(params)
  <2>1. /\ cp \in DigitSet /\ body' = Append(body, cp) /\ intermediate' = intermediate
        /\ params' = [ps EXCEPT ![Len(ps)] = Wrap(@ * 10 + Value(cp))]
    BY <1>5, Zenon DEF _parser_param_digit, Quiet, Entry, Opened
  <2>2. cp \notin Intermediates
    BY <2>1, SemicolonApart
  <2>3. PICK qs : qs = ps
    OBVIOUS
  <2>4. qs = Opened(Meant(body))
    BY <1>2, <2>3, Zenon
  <2>5. Meant(Append(body, cp)) = [qs EXCEPT ![Len(qs)] = Wrap(@ * 10 + Value(cp))]
    BY <1>1, <2>1, <2>4, DigitAdds
  <2> QED
    BY <1>2, <1>3, <2>1, <2>2, <2>3, <2>5, Zenon
<1>6. CASE _parser_next_param
  <2>1. /\ cp = Semicolon /\ body' = Append(body, cp) /\ intermediate' = intermediate
        /\ params' = Append(params, 0)
    BY <1>6, Zenon DEF _parser_next_param, Quiet, Entry, Semicolon
  <2>2. cp \notin Intermediates
    BY <2>1, SemicolonApart
  <2>3. Meant(Append(body, cp)) = Append(Meant(body), 0)
    BY <1>1, <2>1, SemicolonAdds
  <2> QED
    BY <1>2, <1>3, <2>1, <2>2, <2>3, Zenon
<1> QED
  BY <1>4, <1>5, <1>6

LEMMA NothingMeant == Meant(<<>>) = <<>> /\ LastIntermediate(<<>>) = NULL
<1>1. Len(<<>>) = 0 /\ 1 .. 0 = {}
  OBVIOUS
<1>2. SeparatorsIn(<<>>) = {} /\ Positions(<<>>) = {}
  BY <1>1 DEF SeparatorsIn, Positions
<1>3. Separators(<<>>) = {}
  BY <1>2, SeparatorsAre
<1>4. ~LosesFirst(<<>>) /\ Fields(<<>>) = <<>>
  BY <1>2, <1>3, Zenon DEF LosesFirst, Fields
<1>5. LastIntermediate(<<>>) = NULL
  <2>1. {i \in 1 .. Len(<<>>) : <<>>[i] \in Intermediates} = {}
    BY <1>1
  <2> QED
    BY <2>1, Zenon DEF LastIntermediate
<1> QED
  BY <1>4, <1>5 DEF Meant

(* Any other step leaves the open sequence alone, begins one, or leaves    *)
(* none open.                                                              *)
LEMMA SequenceLeft ==
    ASSUME [Next]_vars, state' = "csi",
           ~(_parser_set_intermediate \/ _parser_param_digit \/ _parser_next_param)
    PROVE  \/ state = "csi" /\ UNCHANGED <<params, intermediate, body>>
           \/ params' = <<>> /\ intermediate' = NULL /\ body' = <<>>
<1>1. CASE te_process_input \/ _parser_normal_input \/ UNCHANGED vars
  BY <1>1 DEF te_process_input, _parser_normal_input, vars
<1>2. CASE silent
  <2>1. PICK t \in Silent : Entry(t.from, t.on, t.to)
    BY <1>2 DEF silent, Quiet
  <2>2. t.to # "csi"
    BY SilentEntries
  <2> QED
    BY <2>1, <2>2, EntryMoves
<1>3. CASE control
  BY <1>3 DEF control, Perform, Entry
<1>4. CASE esc_dispatch \/ designate \/ hash \/ _parser_unknown_esc
             \/ csi_dispatch \/ _parser_unknown_csi
  BY <1>4, Zenon DEF esc_dispatch, designate, hash, _parser_unknown_esc, csi_dispatch,
                     _parser_unknown_csi, Perform, Quiet, Entry
<1>5. CASE _parser_osc_start \/ _parser_osc_put \/ _parser_osc_end
  BY <1>5 DEF _parser_osc_start, _parser_osc_put, _parser_osc_end, Quiet, Entry
<1>6. CASE _parser_clear_param
  BY <1>6 DEF _parser_clear_param
<1> QED
  BY <1>1, <1>2, <1>3, <1>4, <1>5, <1>6 DEF Next, parser_input

(* While a control sequence is open its parameters are the numbers its     *)
(* text spells, modulo the width of an int, and its intermediate is the    *)
(* last it brought: for every text, however long its fields, and every     *)
(* way of cutting it into chunks.  An empty first field alone is lost.     *)
THEOREM ParamsAlwaysMeant == Spec => []SequenceParams
<1>1. Init => SequenceParams
  BY Zenon DEF Init, SequenceParams
<1>2. TypeOK /\ SequenceParams /\ [Next]_vars => SequenceParams'
  <2> SUFFICES ASSUME TypeOK, SequenceParams, [Next]_vars, state' = "csi"
               PROVE  params' = Meant(body') /\ intermediate' = LastIntermediate(body')
    BY Zenon DEF SequenceParams, Meant
  <2>1. CASE _parser_set_intermediate \/ _parser_param_digit \/ _parser_next_param
    <3>1. state = "csi" /\ input # <<>>
      BY <2>1, Zenon DEF _parser_set_intermediate, _parser_param_digit,
                         _parser_next_param, Quiet, Entry
    <3>2. cp \in CodePoints
      BY <3>1, RestTyped
    <3> QED
      BY <2>1, <3>1, <3>2, SequenceGoesOn
  <2>2. CASE ~(_parser_set_intermediate \/ _parser_param_digit \/ _parser_next_param)
    <3>1. \/ state = "csi" /\ UNCHANGED <<params, intermediate, body>>
          \/ params' = <<>> /\ intermediate' = NULL /\ body' = <<>>
      BY <2>2, SequenceLeft
    <3>2. state = "csi" => params = Meant(body) /\ intermediate = LastIntermediate(body)
      BY Zenon DEF SequenceParams, Meant
    <3> QED
      BY <3>1, <3>2, NothingMeant, Zenon
  <2> QED
    BY <2>1, <2>2
<1>3. Inv => TypeOK
  BY DEF Inv
<1> QED
  BY <1>1, <1>2, <1>3, SpecInv, PTL DEF Spec

-----------------------------------------------------------------------------
(* Input.  The calls of a handler, three at most, one after another.       *)

Joined(calls, i) ==
    IF i = 1 THEN calls[1]
    ELSE IF i = 2 THEN calls[1] \o calls[2]
    ELSE (calls[1] \o calls[2]) \o calls[3]

More(calls, f, i) == IF i = 1 THEN calls[i] ELSE f[i - 1] \o calls[i]
IsFlat(calls, f) == f = [i \in 1 .. Len(calls) |-> More(calls, f, i)]

LEMMA MoreIs ==
    ASSUME NEW calls, NEW f, NEW i \in 2 .. 3, f[i - 1] = Joined(calls, i - 1)
    PROVE  More(calls, f, i) = Joined(calls, i)
<1>1. More(calls, f, i) = f[i - 1] \o calls[i]
  <2>1. i # 1
    OBVIOUS
  <2> QED
    BY <2>1, Zenon DEF More
<1>2. CASE i = 2
  <2>1. i - 1 = 1 /\ Joined(calls, 1) = calls[1] /\ Joined(calls, 2) = calls[1] \o calls[2]
    BY <1>2 DEF Joined
  <2> QED
    BY <1>1, <1>2, <2>1
<1>3. CASE i = 3
  <2>1. i - 1 = 2 /\ Joined(calls, 2) = calls[1] \o calls[2]
        /\ Joined(calls, 3) = (calls[1] \o calls[2]) \o calls[3]
    BY <1>3 DEF Joined
  <2> QED
    BY <1>1, <1>3, <2>1
<1> QED
  BY <1>2, <1>3

LEMMA FlattenIs ==
    ASSUME NEW calls, Len(calls) \in 1 .. 3
    PROVE  FlattenSeq(calls) = Joined(calls, Len(calls))
<1> DEFINE m == Len(calls)
           w == [i \in 1 .. m |-> Joined(calls, i)]
           g == CHOOSE f : f = [i \in 1 .. Len(calls) |-> More(calls, f, i)]
<1>1. m \in 1 .. 3
  OBVIOUS
<1>2. FlattenSeq(calls) = g[m]
  <2>1. Len(calls) # 0
    OBVIOUS
  <2> QED
    BY <2>1, Zenon DEF FlattenSeq, More
<1>3. \A f : Joined(calls, 1) = calls[1] /\ More(calls, f, 1) = calls[1]
  BY DEF Joined, More
<1> HIDE DEF m
<1>4. ASSUME NEW i \in 1 .. m PROVE Joined(calls, i) = More(calls, w, i)
  <2>1. CASE i = 1
    BY <1>3, <2>1
  <2>2. CASE i # 1
    <3>1. i \in 2 .. 3 /\ i - 1 \in 1 .. m
      BY <1>1, <2>2
    <3>2. w[i - 1] = Joined(calls, i - 1)
      BY <3>1
    <3> HIDE DEF w
    <3> QED
      BY <3>1, <3>2, MoreIs
  <2> QED
    BY <2>1, <2>2
<1>5. IsFlat(calls, g)
  <2>1. \E f : f = [i \in 1 .. Len(calls) |-> More(calls, f, i)]
    <3>1. w = [i \in 1 .. m |-> More(calls, w, i)]
      BY <1>4
    <3> HIDE DEF w
    <3> QED
      BY <3>1 DEF m
  <2> QED
    BY <2>1, Zenon DEF IsFlat
<1> HIDE DEF g
<1>6. \A i \in 1 .. m : g[i] = More(calls, g, i)
  BY <1>5 DEF IsFlat, m
<1>7. g[1] = Joined(calls, 1)
  BY <1>1, <1>3, <1>6
<1>8. ASSUME m > 1 PROVE g[2] = Joined(calls, 2)
  <2>1. 2 \in 2 .. 3 /\ 2 - 1 = 1 /\ 2 \in 1 .. m
    BY <1>1, <1>8
  <2> QED
    BY <1>6, <1>7, <2>1, MoreIs
<1>9. ASSUME m > 2 PROVE g[3] = Joined(calls, 3)
  <2>1. 3 \in 2 .. 3 /\ 3 - 1 = 2 /\ 3 \in 1 .. m /\ m > 1
    BY <1>1, <1>9
  <2> QED
    BY <1>6, <1>8, <2>1, MoreIs
<1>10. m = 1 \/ m = 2 \/ m = 3
  BY <1>1
<1>11. g[m] = Joined(calls, m)
  BY <1>7, <1>8, <1>9, <1>10
<1> QED
  BY <1>2, <1>11 DEF m

LEMMA FlattenNone == FlattenSeq(<<>>) = <<>>
BY DEF FlattenSeq

(* The first call, then the others.                                        *)
LEMMA FlattenHead ==
    ASSUME NEW S, NEW calls \in Seq(Seq(S)), Len(calls) \in 1 .. 3
    PROVE  /\ Tail(calls) \in Seq(Seq(S)) /\ Len(Tail(calls)) = Len(calls) - 1
           /\ FlattenSeq(Tail(calls)) \in Seq(S) /\ calls[1] \in Seq(S)
           /\ FlattenSeq(calls) = calls[1] \o FlattenSeq(Tail(calls))
<1> DEFINE rest == Tail(calls)
<1>0. \A i \in 1 .. Len(calls) : calls[i] \in Seq(S)
  BY ElementOfSeq
<1>1. calls # <<>>
  <2>1. Len(<<>>) = 0
    OBVIOUS
  <2>2. Len(calls) # 0
    <3>1. \A n \in 1 .. 3 : n # 0
      OBVIOUS
    <3> QED
      BY <3>1, Zenon
  <2> QED
    BY <2>1, <2>2, Zenon
<1>2. /\ rest \in Seq(Seq(S)) /\ Len(rest) = Len(calls) - 1
      /\ \A i \in 1 .. Len(rest) : rest[i] = calls[i + 1]
  BY <1>1, HeadTailProperties
<1> HIDE DEF rest
<1>3. /\ Joined(calls, 1) = calls[1] /\ Joined(calls, 2) = calls[1] \o calls[2]
      /\ Joined(calls, 3) = (calls[1] \o calls[2]) \o calls[3]
      /\ Joined(rest, 1) = rest[1] /\ Joined(rest, 2) = rest[1] \o rest[2]
  BY DEF Joined
<1>4. CASE Len(calls) = 1
  <2>1. rest = <<>> /\ calls[1] \in Seq(S)
    BY <1>0, <1>2, <1>4, EmptySeq
  <2>2. FlattenSeq(rest) = <<>>
    BY <2>1, FlattenNone
  <2>3. FlattenSeq(calls) = calls[1]
    BY <1>3, <1>4, FlattenIs
  <2>4. <<>> \in Seq(S) /\ calls[1] \o <<>> = calls[1]
    BY <2>1, ConcatEmptySeq, EmptySeq
  <2> QED
    BY <1>2, <2>1, <2>2, <2>3, <2>4 DEF rest
<1>5. CASE Len(calls) = 2
  <2>1. /\ Len(rest) = 1 /\ rest[1] = calls[2]
        /\ calls[1] \in Seq(S) /\ calls[2] \in Seq(S)
    BY <1>0, <1>2, <1>5
  <2>2. FlattenSeq(rest) = Joined(rest, 1)
    <3>1. Len(rest) \in 1 .. 3
      BY <2>1
    <3> QED
      BY <2>1, <3>1, FlattenIs
  <2>3. FlattenSeq(calls) = Joined(calls, 2)
    BY <1>5, FlattenIs
  <2>4. FlattenSeq(rest) = calls[2] /\ FlattenSeq(calls) = calls[1] \o calls[2]
    BY <1>3, <2>1, <2>2, <2>3
  <2> QED
    BY <1>2, <2>1, <2>4 DEF rest
<1>6. CASE Len(calls) = 3
  <2>1. /\ Len(rest) = 2 /\ rest[1] = calls[2] /\ rest[2] = calls[3]
        /\ calls[1] \in Seq(S) /\ calls[2] \in Seq(S) /\ calls[3] \in Seq(S)
    BY <1>0, <1>2, <1>6
  <2>2. FlattenSeq(rest) = Joined(rest, 2)
    <3>1. Len(rest) \in 1 .. 3
      BY <2>1
    <3> QED
      BY <2>1, <3>1, FlattenIs
  <2>3. FlattenSeq(calls) = Joined(calls, 3)
    BY <1>6, FlattenIs
  <2>4. /\ calls[2] \o calls[3] \in Seq(S)
        /\ (calls[1] \o calls[2]) \o calls[3] = calls[1] \o (calls[2] \o calls[3])
    <3>1. ASSUME NEW s \in Seq(S), NEW t \in Seq(S), NEW u \in Seq(S)
          PROVE  t \o u \in Seq(S) /\ (s \o t) \o u = s \o (t \o u)
      BY ConcatProperties, ConcatAssociative
    <3> QED
      BY <2>1, <3>1
  <2>5. FlattenSeq(rest) = calls[2] \o calls[3]
    BY <1>3, <2>1, <2>2
  <2>6. FlattenSeq(calls) = (calls[1] \o calls[2]) \o calls[3]
    BY <1>3, <2>3
  <2>7. FlattenSeq(calls) = calls[1] \o FlattenSeq(rest) /\ FlattenSeq(rest) \in Seq(S)
    BY <2>4, <2>5, <2>6
  <2> QED
    BY <1>2, <2>1, <2>7 DEF rest
<1>7. Len(calls) = 1 \/ Len(calls) = 2 \/ Len(calls) = 3
  OBVIOUS
<1> QED
  BY <1>4, <1>5, <1>6, <1>7

LEMMA FlattenTyped ==
    ASSUME NEW S, NEW calls \in Seq(Seq(S)), Len(calls) \in 0 .. 3
    PROVE  FlattenSeq(calls) \in Seq(S)
<1>1. CASE Len(calls) = 0
  BY <1>1, EmptySeq, FlattenNone
<1>2. CASE Len(calls) # 0
  <2>1. Len(calls) \in 1 .. 3
    BY <1>2
  <2>2. /\ calls[1] \in Seq(S) /\ FlattenSeq(Tail(calls)) \in Seq(S)
        /\ FlattenSeq(calls) = calls[1] \o FlattenSeq(Tail(calls))
    BY <2>1, FlattenHead
  <2> QED
    BY <2>2, ConcatProperties
<1> QED
  BY <1>1, <1>2

-----------------------------------------------------------------------------
(* A part of a sequence, in its order.                                     *)

Embeds(f, s, t) ==
    /\ f \in [1 .. Len(s) -> 1 .. Len(t)]
    /\ \A i \in 1 .. Len(s) : s[i] = t[f[i]]
    /\ \A i, j \in 1 .. Len(s) : i < j => f[i] < f[j]
InOrder(s, t) == \E f : Embeds(f, s, t)

LEMMA InOrderStart ==
    ASSUME NEW S, NEW s \in Seq(S), NEW u \in Seq(S)
    PROVE  InOrder(s, s) /\ InOrder(s, s \o u)
<1> DEFINE f == [i \in 1 .. Len(s) |-> i]
           t == s \o u
<1>1. /\ Len(s) \in Nat /\ Len(u) \in Nat /\ Len(t) = Len(s) + Len(u)
      /\ \A i \in 1 .. Len(s) : t[i] = s[i]
  <2>1. Len(s) \in Nat /\ Len(u) \in Nat
    BY LenProperties
  <2>2. /\ Len(t) = Len(s) + Len(u)
        /\ \A i \in 1 .. Len(s) + Len(u) : t[i] = IF i <= Len(s) THEN s[i] ELSE u[i - Len(s)]
    BY ConcatProperties
  <2> HIDE DEF t
  <2>3. \A i \in 1 .. Len(s) : t[i] = s[i]
    BY <2>1, <2>2
  <2> QED
    BY <2>1, <2>2, <2>3
<1> HIDE DEF t
<1>2. Embeds(f, s, s)
  BY <1>1 DEF Embeds
<1>3. Embeds(f, s, t)
  BY <1>1 DEF Embeds
<1> QED
  BY <1>2, <1>3 DEF InOrder, t

LEMMA InOrderTwice ==
    ASSUME NEW s, NEW t, NEW u, InOrder(s, t), InOrder(t, u)
    PROVE  InOrder(s, u)
<1>1. PICK f : Embeds(f, s, t)
  BY DEF InOrder
<1>2. PICK g : Embeds(g, t, u)
  BY DEF InOrder
<1> DEFINE h == [i \in 1 .. Len(s) |-> g[f[i]]]
<1>3. \A i \in 1 .. Len(s) : f[i] \in 1 .. Len(t) /\ g[f[i]] \in 1 .. Len(u)
  BY <1>1, <1>2 DEF Embeds
<1>4. \A i \in 1 .. Len(s) : s[i] = u[g[f[i]]]
  BY <1>1, <1>2, <1>3 DEF Embeds
<1>5. \A i, j \in 1 .. Len(s) : i < j => g[f[i]] < g[f[j]]
  BY <1>1, <1>2, <1>3 DEF Embeds
<1>6. Embeds(h, s, u)
  BY <1>3, <1>4, <1>5 DEF Embeds
<1> QED
  BY <1>6 DEF InOrder

LEMMA InOrderGrows ==
    ASSUME NEW S, NEW s \in Seq(S), NEW t \in Seq(S), NEW u \in Seq(S), InOrder(s, t)
    PROVE  InOrder(s \o u, t \o u)
<1>1. PICK f : Embeds(f, s, t)
  BY DEF InOrder
<1> DEFINE a == s \o u
           b == t \o u
           m == Len(s)
           n == Len(t)
           k == Len(u)
           h == [i \in 1 .. m + k |-> IF i <= m THEN f[i] ELSE (i - m) + n]
<1>2. m \in Nat /\ n \in Nat /\ k \in Nat
  BY LenProperties
<1>3. /\ Len(a) = m + k /\ Len(b) = n + k
      /\ \A i \in 1 .. m + k : a[i] = IF i <= m THEN s[i] ELSE u[i - m]
      /\ \A i \in 1 .. n + k : b[i] = IF i <= n THEN t[i] ELSE u[i - n]
  BY ConcatProperties
<1>4. /\ \A i \in 1 .. m : f[i] \in 1 .. n /\ s[i] = t[f[i]]
      /\ \A i, j \in 1 .. m : i < j => f[i] < f[j]
  BY <1>1 DEF Embeds
<1> HIDE DEF a, b, m, n, k
<1>5. \A i \in 1 .. m + k : /\ h[i] \in 1 .. n + k
                            /\ i <= m => h[i] = f[i] /\ h[i] \in 1 .. n
                            /\ i > m => h[i] = (i - m) + n
  BY <1>2, <1>4
<1>6. h \in [1 .. m + k -> 1 .. n + k]
  BY <1>5
<1> HIDE DEF h
<1>7. \A i \in 1 .. m + k : a[i] = b[h[i]]
  <2> TAKE i \in 1 .. m + k
  <2>1. CASE i <= m
    <3>1. h[i] = f[i] /\ f[i] \in 1 .. n /\ h[i] \in 1 .. n + k /\ s[i] = t[f[i]]
      BY <1>2, <1>4, <1>5, <2>1
    <3>2. a[i] = s[i]
      BY <1>3, <2>1
    <3>3. b[h[i]] = t[h[i]]
      BY <1>2, <1>3, <3>1
    <3> QED
      BY <3>1, <3>2, <3>3
  <2>2. CASE i > m
    <3>1. h[i] = (i - m) + n /\ h[i] \in 1 .. n + k
      BY <1>5, <2>2
    <3>2. ~(i <= m) /\ ~(h[i] <= n) /\ h[i] - n = i - m
      BY <1>2, <2>2, <3>1
    <3>3. a[i] = u[i - m] /\ b[h[i]] = u[h[i] - n]
      BY <1>3, <3>1, <3>2
    <3> QED
      BY <3>2, <3>3
  <2> QED
    BY <1>2, <2>1, <2>2
<1>8. \A i, j \in 1 .. m + k : i < j => h[i] < h[j]
  <2> TAKE i, j \in 1 .. m + k
  <2> SUFFICES ASSUME i < j PROVE h[i] < h[j]
    OBVIOUS
  <2>1. CASE j <= m
    <3>1. i \in 1 .. m /\ j \in 1 .. m
      BY <1>2, <2>1
    <3>2. h[i] = f[i] /\ h[j] = f[j]
      BY <1>5, <2>1, <3>1
    <3> QED
      BY <1>4, <3>1, <3>2
  <2>2. CASE j > m
    <3>1. h[j] = (j - m) + n /\ h[j] > n /\ h[j] \in Int
      BY <1>2, <1>5, <2>2
    <3>2. CASE i <= m
      <4>1. h[i] \in 1 .. n
        BY <1>5, <3>2
      <4> QED
        BY <1>2, <3>1, <4>1
    <3>3. CASE i > m
      <4>1. h[i] = (i - m) + n
        BY <1>5, <3>3
      <4> QED
        BY <1>2, <3>1, <4>1
    <3> QED
      BY <1>2, <3>2, <3>3
  <2> QED
    BY <1>2, <2>1, <2>2
<1>9. Embeds(h, a, b)
  BY <1>3, <1>6, <1>7, <1>8 DEF Embeds
<1> QED
  BY <1>9 DEF InOrder, a, b

(* Looking for a part finds it.  How much of s is found in the first n of  *)
(* t, as Subsequence has it.                                               *)
Taken(s, before, e) ==
    IF before < Len(s) /\ s[before + 1] = e THEN before + 1 ELSE before
Search(s, t, h, n) == IF n = 0 THEN 0 ELSE Taken(s, h[n - 1], t[n])
Searched(s, t, m, h) == h = [n \in 0 .. m |-> Search(s, t, h, n)]

LEMMA SearchLooksBack ==
    ASSUME NEW s, NEW t, NEW h, NEW k, NEW n, n # 0 => h[n - 1] = k[n - 1]
    PROVE  Search(s, t, h, n) = Search(s, t, k, n)
BY DEF Search

LEMMA SearchesExist ==
    ASSUME NEW s, NEW t, NEW m \in Nat PROVE \E h : Searched(s, t, m, h)
<1> DEFINE S == {n \in Nat : \E h : Searched(s, t, n, h)}
<1>1. 0 \in S
  <2> DEFINE h == [n \in 0 .. 0 |-> 0]
  <2>1. \A n \in 0 .. 0 : Search(s, t, h, n) = 0
    BY DEF Search
  <2>2. Searched(s, t, 0, h)
    BY <2>1 DEF Searched
  <2> QED
    BY <2>2
<1>2. ASSUME NEW n \in Nat, \E h : Searched(s, t, n, h)
      PROVE  \E h : Searched(s, t, n + 1, h)
  <2>1. PICK h : Searched(s, t, n, h)
    BY <1>2
  <2> DEFINE k == [i \in 0 .. n + 1 |-> IF i <= n THEN h[i] ELSE Search(s, t, h, i)]
  <2>2. \A i \in 0 .. n : k[i] = h[i] /\ h[i] = Search(s, t, h, i)
    BY <2>1 DEF Searched
  <2>3. k[n + 1] = Search(s, t, h, n + 1)
    OBVIOUS
  <2>4. k = [i \in 0 .. n + 1 |-> k[i]]
    OBVIOUS
  <2> HIDE DEF k
  <2>5. ASSUME NEW i \in 0 .. n + 1 PROVE k[i] = Search(s, t, k, i)
    <3>1. k[i] = Search(s, t, h, i)
      BY <2>2, <2>3
    <3>2. i # 0 => i - 1 \in 0 .. n
      OBVIOUS
    <3>3. i # 0 => k[i - 1] = h[i - 1]
      BY <2>2, <3>2
    <3> QED
      BY <3>1, <3>3, SearchLooksBack
  <2>6. Searched(s, t, n + 1, k)
    BY <2>4, <2>5 DEF Searched
  <2> QED
    BY <2>6
<1>3. Nat \subseteq S
  <2>1. \A n \in Nat : n \in S => n + 1 \in S
    BY <1>2
  <2> HIDE DEF S
  <2> QED
    BY <1>1, <2>1, UpTo
<1> QED
  BY <1>3

LEMMA SubsequenceSearches ==
    ASSUME NEW s, NEW t, Len(t) \in Nat
    PROVE  \E h : Searched(s, t, Len(t), h) /\ (Subsequence(s, t) <=> h[Len(t)] = Len(s))
<1> DEFINE h == CHOOSE f : f = [n \in 0 .. Len(t) |-> Search(s, t, f, n)]
<1>1. \E f : Searched(s, t, Len(t), f)
  BY SearchesExist
<1>2. Searched(s, t, Len(t), h)
  BY <1>1, Zenon DEF Searched
<1>3. Subsequence(s, t) <=> h[Len(t)] = Len(s)
  BY Zenon DEF Subsequence, Search, Taken
<1> QED
  BY <1>2, <1>3

(* The search never falls behind a place the part has.                     *)
LEMMA PartFound ==
    ASSUME NEW S, NEW s \in Seq(S), NEW t \in Seq(S), InOrder(s, t)
    PROVE  Subsequence(s, t)
<1> DEFINE m == Len(s)
           k == Len(t)
<1>1. m \in Nat /\ k \in Nat
  BY LenProperties
<1>2. PICK f : Embeds(f, s, t)
  BY DEF InOrder
<1>3. PICK h : Searched(s, t, k, h) /\ (Subsequence(s, t) <=> h[k] = m)
  BY <1>1, SubsequenceSearches
<1> HIDE DEF m, k
<1>4. /\ \A i \in 1 .. m : f[i] \in 1 .. k /\ s[i] = t[f[i]]
      /\ \A i, j \in 1 .. m : i < j => f[i] < f[j]
  BY <1>2 DEF Embeds, m, k
<1>5. /\ h[0] = 0
      /\ \A n \in 1 .. k : h[n] = IF h[n - 1] < m /\ s[h[n - 1] + 1] = t[n]
                                     THEN h[n - 1] + 1 ELSE h[n - 1]
  <2>1. \A n \in 0 .. k : h[n] = Search(s, t, h, n)
    BY <1>3 DEF Searched
  <2>2. h[0] = 0
    BY <1>1, <2>1 DEF Search
  <2>3. ASSUME NEW n \in 1 .. k
        PROVE  h[n] = IF h[n - 1] < m /\ s[h[n - 1] + 1] = t[n]
                        THEN h[n - 1] + 1 ELSE h[n - 1]
    <3>1. h[n] = Search(s, t, h, n) /\ n # 0
      BY <2>1
    <3> QED
      BY <3>1, Zenon DEF Search, Taken, m
  <2> QED
    BY <2>2, <2>3
<1> DEFINE Ahead(n) == h[n] \in 0 .. m /\ \A i \in 1 .. m : f[i] <= n => i <= h[n]
           R == {n \in Nat : n <= k => Ahead(n)}
<1>6. 0 \in R
  BY <1>1, <1>4, <1>5
<1>7. ASSUME NEW n \in Nat, n + 1 <= k, Ahead(n) PROVE Ahead(n + 1)
  <2>1. n + 1 \in 1 .. k /\ (n + 1) - 1 = n
    BY <1>1, <1>7
  <2>2. h[n + 1] = IF h[n] < m /\ s[h[n] + 1] = t[n + 1] THEN h[n] + 1 ELSE h[n]
    BY <1>5, <2>1
  <2>3. h[n] \in 0 .. m
    BY <1>7
  <2>4. h[n + 1] \in 0 .. m /\ h[n] <= h[n + 1]
    BY <1>1, <2>2, <2>3
  <2>5. ASSUME NEW i \in 1 .. m, f[i] <= n + 1 PROVE i <= h[n + 1]
    <3>1. CASE f[i] <= n
      BY <1>7, <2>3, <2>4, <3>1
    <3>2. CASE f[i] = n + 1
      <4>1. i - 1 <= h[n]
        <5>1. CASE i = 1
          BY <2>3, <5>1
        <5>2. CASE i # 1
          <6>1. i - 1 \in 1 .. m /\ i - 1 < i
            BY <1>1, <5>2
          <6>2. f[i - 1] < f[i] /\ f[i - 1] \in Int
            BY <1>4, <6>1
          <6>3. f[i - 1] <= n
            BY <3>2, <6>2
          <6> QED
            BY <1>7, <6>1, <6>3
        <5> QED
          BY <5>1, <5>2
      <4>2. CASE h[n] = i - 1
        <5>1. h[n] < m /\ h[n] + 1 = i
          BY <1>1, <4>2
        <5>2. s[h[n] + 1] = t[n + 1]
          BY <1>4, <3>2, <5>1
        <5> QED
          BY <2>2, <5>1, <5>2
      <4>3. CASE h[n] # i - 1
        BY <2>3, <2>4, <4>1, <4>3
      <4> QED
        BY <4>2, <4>3
    <3>3. f[i] \in Int
      BY <1>4
    <3> QED
      BY <2>5, <3>1, <3>2, <3>3
  <2> QED
    BY <2>4, <2>5
<1>8. Nat \subseteq R
  <2>1. ASSUME NEW n \in Nat, n \in R PROVE n + 1 \in R
    <3> SUFFICES ASSUME n + 1 <= k PROVE Ahead(n + 1)
      OBVIOUS
    <3>1. n <= k
      BY <1>1
    <3>2. Ahead(n)
      BY <2>1, <3>1
    <3> HIDE DEF Ahead
    <3> QED
      BY <1>7, <3>2
  <2> HIDE DEF R
  <2> QED
    BY <1>6, <2>1, UpTo
<1>9. h[k] \in 0 .. m /\ \A i \in 1 .. m : f[i] <= k => i <= h[k]
  BY <1>1, <1>8
<1>10. h[k] = m
  <2>1. CASE m = 0
    BY <1>9, <2>1
  <2>2. CASE m # 0
    <3>1. m \in 1 .. m /\ f[m] <= k
      BY <1>1, <1>4, <2>2
    <3> QED
      BY <1>1, <1>9, <3>1
  <2> QED
    BY <2>1, <2>2
<1> QED
  BY <1>3, <1>10

-----------------------------------------------------------------------------
(* What keys send.                                                         *)

(* All that is sent.                                                       *)
CursorBytes == {"OA", "OB", "OC", "OD", "[A", "[B", "[C", "[D"}
KeypadApp == {"OX", "Oo", "Oj", "Om", "Ok", "On", "Ol", "OM", "Op", "Oq",
              "Or", "Os", "Ot", "Ou", "Ov", "Ow", "Ox", "Oy"}
KeypadNormal == {"=", "/", "*", "-", "+", ".", "comma", "CR", "0", "1", "2", "3",
                 "4", "5", "6", "7", "8", "9"}
FunctionBytes == {"[11~", "[12~", "[13~", "[14~", "[15~", "[17~", "[18~",
                  "[19~", "[20~", "[21~", "[23~", "[24~", "[25~", "[26~",
                  "[28~", "[29~", "[31~", "[32~", "[33~", "[34~"}
OtherBytes == {"OH", "OF", "[H", "[F", "[2~", "[3~", "[5~", "[6~", "TAB", "ESC", "BS",
               "DEL", "LF", "NUL", "RS", "[200~", "[201~", "[?c", "stray"}
Symbols == CursorBytes \union KeypadApp \union KeypadNormal \union FunctionBytes
             \union OtherBytes \union Chars

(* A byte of a key's string or of a character, with the modes set as they  *)
(* are in flags: it says what they are, if anything.                       *)
Clean(b, flags) ==
    /\ b \in Symbols /\ b \notin {"[?c", "[200~"}
    /\ b \in DOMAIN SaysSet => SaysSet[b] \in flags
    /\ b \in DOMAIN SaysClear => SaysClear[b] \notin flags
Keyed(s, flags) ==
    /\ s \in Seq(Symbols)
    /\ \A i \in 1 .. Len(s) : Clean(s[i], flags)

LEMMA SaysAre ==
    /\ DOMAIN SaysSet = {"OA", "Oo", "LF", "[200~"} /\ DOMAIN SaysClear = {"[A", "/"}
    /\ SaysSet["OA"] = "cursorapp" /\ SaysSet["Oo"] = "keyapp"
    /\ SaysSet["LF"] = "newline" /\ SaysSet["[200~"] = "bracketpaste"
    /\ SaysClear["[A"] = "cursorapp" /\ SaysClear["/"] = "keyapp"
BY DEF SaysSet, SaysClear

LEMMA CleanIs ==
    ASSUME NEW b, NEW flags
    PROVE  Clean(b, flags) <=>
             /\ b \in Symbols /\ b \notin {"[?c", "[200~"}
             /\ b = "OA" => "cursorapp" \in flags
             /\ b = "Oo" => "keyapp" \in flags
             /\ b = "LF" => "newline" \in flags
             /\ b = "[A" => "cursorapp" \notin flags
             /\ b = "/" => "keyapp" \notin flags
BY SaysAre DEF Clean

LEMMA CleanBytes ==
    ASSUME NEW flags
    PROVE  /\ \A b \in CursorBytes \ {"OA", "[A"} : Clean(b, flags)
           /\ \A b \in KeypadApp \ {"Oo"} : Clean(b, flags)
           /\ \A b \in KeypadNormal \ {"/"} : Clean(b, flags)
           /\ \A b \in FunctionBytes : Clean(b, flags)
           /\ \A b \in OtherBytes \ {"LF", "[200~", "[?c"} : Clean(b, flags)
           /\ \A b \in Chars : Clean(b, flags)
<1>1. \A b \in CursorBytes \ {"OA", "[A"} : Clean(b, flags)
  BY CleanIs DEF CursorBytes, Symbols
<1>2. \A b \in KeypadApp \ {"Oo"} : Clean(b, flags)
  BY CleanIs DEF KeypadApp, Symbols
<1>3. \A b \in KeypadNormal \ {"/"} : Clean(b, flags)
  BY CleanIs DEF KeypadNormal, Symbols
<1>4. \A b \in FunctionBytes : Clean(b, flags)
  BY CleanIs DEF FunctionBytes, Symbols
<1>5. \A b \in OtherBytes \ {"LF", "[200~", "[?c"} : Clean(b, flags)
  BY CleanIs DEF OtherBytes, Symbols
<1>6. \A b \in Chars : Clean(b, flags)
  <2> SUFFICES ASSUME NEW b \in Chars PROVE Clean(b, flags)
    OBVIOUS
  <2>1. b \notin {"[?c", "[200~", "OA", "[A", "Oo", "/", "LF"}
    BY CharsAssumption
  <2> QED
    BY <2>1, CleanIs DEF Symbols
<1> QED
  BY <1>1, <1>2, <1>3, <1>4, <1>5, <1>6

LEMMA CleanNames ==
    ASSUME NEW flags
    PROVE  /\ "cursorapp" \in flags => Clean("OA", flags)
           /\ Clean("OB", flags) /\ Clean("OC", flags) /\ Clean("OD", flags)
           /\ "cursorapp" \notin flags => Clean("[A", flags)
           /\ Clean("[B", flags) /\ Clean("[C", flags) /\ Clean("[D", flags)
           /\ Clean("OH", flags) /\ Clean("OF", flags)
           /\ Clean("[H", flags) /\ Clean("[F", flags)
           /\ Clean("TAB", flags) /\ Clean("ESC", flags) /\ Clean("BS", flags)
           /\ Clean("[2~", flags) /\ Clean("[3~", flags)
           /\ Clean("[5~", flags) /\ Clean("[6~", flags)
           /\ Clean("DEL", flags) /\ Clean("CR", flags)
           /\ "newline" \in flags => Clean("LF", flags)
           /\ Clean("NUL", flags) /\ Clean("RS", flags) /\ Clean("[201~", flags)
           /\ Clean("stray", flags)
<1>1. /\ {"OB", "OC", "OD", "[B", "[C", "[D"} \subseteq CursorBytes \ {"OA", "[A"}
      /\ {"OH", "OF", "[H", "[F", "TAB", "ESC", "BS", "[2~", "[3~", "[5~", "[6~", "DEL",
          "NUL", "RS", "[201~", "stray"} \subseteq OtherBytes \ {"LF", "[200~", "[?c"}
      /\ "CR" \in KeypadNormal \ {"/"}
  BY DEF CursorBytes, OtherBytes, KeypadNormal
<1>2. {"OA", "[A", "LF"} \subseteq Symbols
  BY DEF CursorBytes, OtherBytes, Symbols
<1>3. /\ "cursorapp" \in flags => Clean("OA", flags)
      /\ "cursorapp" \notin flags => Clean("[A", flags)
      /\ "newline" \in flags => Clean("LF", flags)
  BY <1>2, CleanIs
<1> QED
  BY <1>1, <1>3, CleanBytes

LEMMA KeyedIs ==
    ASSUME NEW b, NEW flags, Clean(b, flags)
    PROVE  Keyed(<<b>>, flags) /\ Keyed(<<"ESC", b>>, flags)
<1>1. Clean("ESC", flags) /\ b \in Symbols /\ "ESC" \in Symbols
  <2>1. "ESC" \in OtherBytes \ {"LF", "[200~", "[?c"}
    BY DEF OtherBytes
  <2>2. Clean("ESC", flags)
    BY <2>1, CleanBytes
  <2> QED
    BY <2>2 DEF Clean
<1>2. /\ <<b>> \in Seq(Symbols) /\ Len(<<b>>) = 1 /\ <<b>>[1] = b
      /\ <<"ESC", b>> \in Seq(Symbols) /\ Len(<<"ESC", b>>) = 2
      /\ <<"ESC", b>>[1] = "ESC" /\ <<"ESC", b>>[2] = b
  BY <1>1
<1>3. Keyed(<<b>>, flags)
  BY <1>2 DEF Keyed
<1>4. Keyed(<<"ESC", b>>, flags)
  <2> DEFINE s == <<"ESC", b>>
  <2>1. s \in Seq(Symbols) /\ Len(s) = 2 /\ s[1] = "ESC" /\ s[2] = b
    BY <1>2
  <2> HIDE DEF s
  <2>2. Keyed(s, flags)
    <3>1. Clean(s[1], flags) /\ Clean(s[2], flags)
      BY <1>1, <2>1
    <3>2. \A i \in 1 .. Len(s) : i = 1 \/ i = 2
      BY <2>1
    <3> QED
      BY <2>1, <3>1, <3>2 DEF Keyed
  <2> QED
    BY <2>2 DEF s
<1> QED
  BY <1>3, <1>4

LEMMA KeysAre ==
    /\ te_key.ENTER = 1 /\ te_key.TAB = 2 /\ te_key.ESCAPE = 3
    /\ te_key.BACKSPACE = 4 /\ te_key.HOME = 5 /\ te_key.INSERT = 6
    /\ te_key.DELETE = 7 /\ te_key.END = 8 /\ te_key.PGUP = 9 /\ te_key.PGDN = 10
    /\ te_key.UP = 11 /\ te_key.DOWN = 12 /\ te_key.RIGHT = 13 /\ te_key.LEFT = 14
    /\ TE_KEY_F = 20 /\ TE_KP_EQUAL = 50
BY DEF te_key, TE_KEY_F, TE_KP_EQUAL

LEMMA CursorKeyed ==
    ASSUME NEW flags
    PROVE  LET table == IF "cursorapp" \in flags THEN _keys_cursor_keys_on
                                                 ELSE _keys_cursor_keys_off
           IN  /\ DOMAIN table = 11 .. 14
               /\ \A k \in 11 .. 14 : Keyed(table[k], flags)
<1>1. ASSUME NEW a, NEW b, NEW c, NEW d, Clean(a, flags), Clean(b, flags),
             Clean(c, flags), Clean(d, flags), NEW table, table = Cursor(<<a, b, c, d>>)
      PROVE  /\ DOMAIN table = 11 .. 14
             /\ \A k \in 11 .. 14 : Keyed(table[k], flags)
  <2>1. DOMAIN table = 11 .. 14
    BY <1>1, KeysAre DEF Cursor
  <2>2. ASSUME NEW k \in 11 .. 14 PROVE Keyed(table[k], flags)
    <3>1. table[k] = Esc(<<a, b, c, d>>[k - 11 + 1])
      BY <1>1, KeysAre DEF Cursor
    <3>2. k - 11 + 1 \in 1 .. 4
      OBVIOUS
    <3>3. \A i \in 1 .. 4 : Clean(<<a, b, c, d>>[i], flags)
      BY <1>1
    <3> QED
      BY <3>1, <3>2, <3>3, KeyedIs DEF Esc
  <2> QED
    BY <2>1, <2>2
<1>2. CASE "cursorapp" \in flags
  <2>1. Clean("OA", flags) /\ Clean("OB", flags) /\ Clean("OC", flags) /\ Clean("OD", flags)
    BY <1>2, CleanNames
  <2> QED
    BY <1>1, <1>2, <2>1 DEF _keys_cursor_keys_on
<1>3. CASE "cursorapp" \notin flags
  <2>1. Clean("[A", flags) /\ Clean("[B", flags) /\ Clean("[C", flags) /\ Clean("[D", flags)
    BY <1>3, CleanNames
  <2> QED
    BY <1>1, <1>3, <2>1 DEF _keys_cursor_keys_off
<1> QED
  BY <1>2, <1>3

LEMMA KeypadKeyed ==
    ASSUME NEW flags
    PROVE  LET table == IF "keyapp" \in flags THEN _keys_app ELSE _keys_normal
           IN  /\ DOMAIN table = {5, 8} \union 50 .. 67
               /\ \A k \in {5, 8} \union 50 .. 67 : Keyed(table[k], flags)
<1>1. ASSUME NEW home, NEW end, NEW f, Clean(home, flags), Clean(end, flags),
             \A i \in 1 .. 18 : Keyed(f[i], flags), NEW table, table = Keypad(home, end, f)
      PROVE  /\ DOMAIN table = {5, 8} \union 50 .. 67
             /\ \A k \in {5, 8} \union 50 .. 67 : Keyed(table[k], flags)
  <2>1. DOMAIN table = {5, 8} \union 50 .. 67
    BY <1>1, KeysAre DEF Keypad
  <2>2. ASSUME NEW k \in {5, 8} \union 50 .. 67 PROVE Keyed(table[k], flags)
    <3>1. table[k] = IF k = 5 THEN Esc(home) ELSE IF k = 8 THEN Esc(end)
                     ELSE f[k - 50 + 1]
      BY <1>1, KeysAre DEF Keypad
    <3>2. k # 5 /\ k # 8 => k - 50 + 1 \in 1 .. 18
      OBVIOUS
    <3>3. Keyed(Esc(home), flags) /\ Keyed(Esc(end), flags)
      BY <1>1, KeyedIs DEF Esc
    <3> QED
      BY <1>1, <3>1, <3>2, <3>3
  <2> QED
    BY <2>1, <2>2
<1>2. CASE "keyapp" \in flags
  <2> DEFINE strings == <<"OX", "Oo", "Oj", "Om", "Ok", "On", "Ol", "OM", "Op", "Oq",
                          "Or", "Os", "Ot", "Ou", "Ov", "Ow", "Ox", "Oy">>
             f == [i \in 1 .. 18 |-> Esc(strings[i])]
  <2>1. \A i \in 1 .. 18 :
          strings[i] \in KeypadApp
    BY DEF KeypadApp
  <2>2. _keys_app = Keypad("OH", "OF", f)
    BY DEF _keys_app
  <2> HIDE DEF strings
  <2>3. \A i \in 1 .. 18 : Clean(strings[i], flags)
    <3>1. Clean("Oo", flags)
      BY <1>2, CleanIs DEF KeypadApp, Symbols
    <3> QED
      BY <2>1, <3>1, CleanBytes
  <2>4. Clean("OH", flags) /\ Clean("OF", flags)
    BY CleanNames
  <2>5. \A i \in 1 .. 18 : Keyed(f[i], flags)
    BY <2>3, KeyedIs DEF Esc
  <2> HIDE DEF f
  <2> QED
    BY <1>1, <1>2, <2>2, <2>4, <2>5
<1>3. CASE "keyapp" \notin flags
  <2> DEFINE strings == <<"=", "/", "*", "-", "+", ".", "comma", "CR", "0", "1", "2", "3",
                          "4", "5", "6", "7", "8", "9">>
             f == [i \in 1 .. 18 |-> <<strings[i]>>]
  <2>1. \A i \in 1 .. 18 :
          strings[i] \in KeypadNormal
    BY DEF KeypadNormal
  <2>2. _keys_normal = Keypad("[H", "[F", f)
    BY DEF _keys_normal
  <2> HIDE DEF strings
  <2>3. \A i \in 1 .. 18 : Clean(strings[i], flags)
    <3>1. Clean("/", flags)
      BY <1>3, CleanIs DEF KeypadNormal, Symbols
    <3> QED
      BY <2>1, <3>1, CleanBytes
  <2>4. Clean("[H", flags) /\ Clean("[F", flags)
    BY CleanNames
  <2>5. \A i \in 1 .. 18 : Keyed(f[i], flags)
    BY <2>3, KeyedIs
  <2> HIDE DEF f
  <2> QED
    BY <1>1, <1>3, <2>2, <2>4, <2>5
<1> QED
  BY <1>2, <1>3

OtherKeys == {2, 3, 4, 6, 7, 9, 10} \union 21 .. 40
LEMMA CommonKeyed ==
    ASSUME NEW flags
    PROVE  /\ DOMAIN _keys_common = OtherKeys
           /\ \A k \in OtherKeys : Keyed(_keys_common[k], flags)
<1> DEFINE functions == <<"[11~", "[12~", "[13~", "[14~", "[15~", "[17~", "[18~",
                       "[19~", "[20~", "[21~", "[23~", "[24~", "[25~", "[26~",
                       "[28~", "[29~", "[31~", "[32~", "[33~", "[34~">>
<1>1. \A i \in 1 .. 20 :
        functions[i] \in FunctionBytes
  BY DEF FunctionBytes
<1>2. _keys_common =
        [k \in ((te_key.TAB .. te_key.PGDN) \ {te_key.HOME, te_key.END})
                 \union (TE_KEY_F + 1 .. TE_KEY_F + 20) |->
            CASE k = te_key.TAB       -> <<"TAB">>
              [] k = te_key.ESCAPE    -> <<"ESC">>
              [] k = te_key.BACKSPACE -> <<"BS">>
              [] k = te_key.INSERT    -> Esc("[2~")
              [] k = te_key.DELETE    -> Esc("[3~")
              [] k = te_key.PGUP      -> Esc("[5~")
              [] k = te_key.PGDN      -> Esc("[6~")
              [] OTHER                -> Esc(functions[k - TE_KEY_F])]
  BY Zenon DEF _keys_common
<1> HIDE DEF functions
<1>3. \A i \in 1 .. 20 : Clean(functions[i], flags)
  BY <1>1, CleanBytes
<1>4. OtherKeys = ((te_key.TAB .. te_key.PGDN) \ {te_key.HOME, te_key.END})
                    \union (TE_KEY_F + 1 .. TE_KEY_F + 20)
  BY KeysAre DEF OtherKeys
<1>5. /\ Clean("TAB", flags) /\ Clean("ESC", flags) /\ Clean("BS", flags)
      /\ Clean("[2~", flags) /\ Clean("[3~", flags) /\ Clean("[5~", flags)
      /\ Clean("[6~", flags)
  BY CleanNames
<1>6. ASSUME NEW k \in OtherKeys PROVE Keyed(_keys_common[k], flags)
  <2>1. _keys_common[k] =
            CASE k = 2 -> <<"TAB">> [] k = 3 -> <<"ESC">> [] k = 4 -> <<"BS">>
              [] k = 6 -> Esc("[2~") [] k = 7 -> Esc("[3~") [] k = 9 -> Esc("[5~")
              [] k = 10 -> Esc("[6~") [] OTHER -> Esc(functions[k - 20])
    BY <1>2, <1>4, KeysAre
  <2>2. k \in {2, 3, 4, 6, 7, 9, 10} \/ (k - 20 \in 1 .. 20 /\ k > 20)
    BY DEF OtherKeys
  <2>3. CASE k \in {2, 3, 4, 6, 7, 9, 10}
    BY <1>5, <2>1, <2>3, KeyedIs DEF Esc
  <2>4. CASE k - 20 \in 1 .. 20 /\ k > 20
    <3>1. _keys_common[k] = Esc(functions[k - 20])
      BY <2>1, <2>4
    <3> QED
      BY <1>3, <2>4, <3>1, KeyedIs DEF Esc
  <2> QED
    BY <2>2, <2>3, <2>4
<1> QED
  BY <1>2, <1>4, <1>6

(* What a key sends says nothing of the modes that is not so.              *)
LEMMA KeyStringKeyed ==
    ASSUME NEW key \in Keys, NEW modifiers, NEW flags
    PROVE  Keyed(KeyString(key, modifiers, flags), flags)
<1> DEFINE cursor == IF "cursorapp" \in flags THEN _keys_cursor_keys_on
                                              ELSE _keys_cursor_keys_off
           keypad == IF "keyapp" \in flags THEN _keys_app ELSE _keys_normal
           tables == <<cursor, keypad, _keys_common>>
           has == {t \in 1 .. 3 : key \in DOMAIN tables[t]}
<1>1. /\ DOMAIN cursor = 11 .. 14 /\ \A k \in 11 .. 14 : Keyed(cursor[k], flags)
      /\ DOMAIN keypad = {5, 8} \union 50 .. 67
      /\ \A k \in {5, 8} \union 50 .. 67 : Keyed(keypad[k], flags)
      /\ DOMAIN _keys_common = OtherKeys
      /\ \A k \in OtherKeys : Keyed(_keys_common[k], flags)
  BY CursorKeyed, KeypadKeyed, CommonKeyed
<1>2. CASE key = te_key.ENTER
  <2>1. KeyString(key, modifiers, flags) =
          IF "newline" \in flags THEN <<"CR", "LF">> ELSE <<"CR">>
    BY <1>2 DEF KeyString
  <2>2. Clean("CR", flags) /\ ("newline" \in flags => Clean("LF", flags))
    BY CleanNames
  <2>3. Keyed(<<"CR">>, flags)
    BY <2>2, KeyedIs
  <2>4. ASSUME "newline" \in flags PROVE Keyed(<<"CR", "LF">>, flags)
    <3> DEFINE s == <<"CR", "LF">>
    <3>1. s[1] = "CR" /\ s[2] = "LF" /\ Len(s) = 2 /\ s \in Seq(Symbols)
      BY <2>2, <2>4 DEF Clean
    <3> HIDE DEF s
    <3>2. \A i \in 1 .. Len(s) : i = 1 \/ i = 2
      BY <3>1
    <3>3. Keyed(s, flags)
      BY <2>2, <2>4, <3>1, <3>2 DEF Keyed
    <3> QED
      BY <3>3 DEF s
  <2> QED
    BY <2>1, <2>3, <2>4
<1>3. CASE key = te_key.BACKSPACE /\ "shift" \notin modifiers
  <2>1. KeyString(key, modifiers, flags) = <<"DEL">>
    BY <1>3, KeysAre DEF KeyString
  <2>2. Clean("DEL", flags)
    BY CleanNames
  <2> QED
    BY <2>1, <2>2, KeyedIs
<1>4. CASE key # te_key.ENTER /\ ~(key = te_key.BACKSPACE /\ "shift" \notin modifiers)
  <2>1. KeyString(key, modifiers, flags) = tables[Min(has)][key]
    BY <1>4, Zenon DEF KeyString
  <2>2. key \in 2 .. 14 \union 21 .. 40 \union 50 .. 67
    BY <1>4, KeysAssumption, KeysAre
  <2>3. tables[1] = cursor /\ tables[2] = keypad /\ tables[3] = _keys_common
    OBVIOUS
  <2> HIDE DEF cursor, keypad, tables
  <2>4. has # {} /\ has \subseteq 1 .. 3
    <3>1. key \in 11 .. 14 \/ key \in {5, 8} \union 50 .. 67 \/ key \in OtherKeys
      BY <2>2 DEF OtherKeys
    <3> QED
      BY <1>1, <2>3, <3>1
  <2> DEFINE t == Min(has)
  <2>5. t \in has
    <3>1. \E x \in has : \A y \in has : x <= y
      <4>0. has # {} /\ \A x \in has : x = 1 \/ x = 2 \/ x = 3
        <5>1. \A x \in 1 .. 3 : x = 1 \/ x = 2 \/ x = 3
          OBVIOUS
        <5> QED
          BY <2>4, <5>1
      <4> HIDE DEF has
      <4>1. 1 \in has \/ (1 \notin has /\ 2 \in has)
              \/ (1 \notin has /\ 2 \notin has /\ 3 \in has)
        <5>1. PICK x \in has : x = 1 \/ x = 2 \/ x = 3
          BY <4>0
        <5> QED
          BY <5>1
      <4> QED
        BY <4>0, <4>1
    <3> HIDE DEF has
    <3> QED
      BY <3>1, Zenon DEF Min
  <2> HIDE DEF t
  <2>6. t \in 1 .. 3 /\ key \in DOMAIN tables[t]
    BY <2>5
  <2>7. Keyed(tables[t][key], flags)
    <3>1. CASE t = 1
      BY <1>1, <2>3, <2>6, <3>1
    <3>2. CASE t = 2
      BY <1>1, <2>3, <2>6, <3>2
    <3>3. CASE t = 3
      BY <1>1, <2>3, <2>6, <3>3
    <3> QED
      BY <2>6, <3>1, <3>2, <3>3
  <2> QED
    BY <2>1, <2>7 DEF t
<1> QED
  BY <1>2, <1>3, <1>4

-----------------------------------------------------------------------------
(* What is sent arrives in order.                                          *)

Wired ==
    /\ received \in Seq(Symbols) /\ pty \in Seq(Symbols) /\ given \in Seq(Symbols)
    /\ sending \in Seq(Seq(Symbols)) /\ Len(sending) \in 0 .. 3
    /\ Len(pty) <= Capacity

(* All that has passed or is still to be written.                          *)
Stream == (received \o pty) \o FlattenSeq(sending)
Ordered == IF refused THEN InOrder(Stream, given) ELSE Stream = given

(* A handler, in the idle thread, leaves the bytes t to be written.        *)
Sent(t) ==
    /\ sending' \in Seq(Seq(Symbols)) /\ Len(sending') \in 1 .. 3
    /\ FlattenSeq(sending') = t /\ given' = given \o t

LEMMA Concats ==
    ASSUME NEW S, NEW s \in Seq(S), NEW t \in Seq(S), NEW u \in Seq(S)
    PROVE  /\ s \o t \in Seq(S) /\ (s \o t) \o u = s \o (t \o u)
           /\ s \o <<>> = s
BY ConcatProperties, ConcatAssociative, ConcatEmptySeq

LEMMA SentOrdered ==
    ASSUME Wired, Ordered, Idle, NEW t, Sent(t), UNCHANGED <<received, pty, refused>>
    PROVE  Wired' /\ Ordered' /\ t \in Seq(Symbols) /\ given' = given \o t
<1>1. /\ sending' \in Seq(Seq(Symbols)) /\ Len(sending') \in 1 .. 3
      /\ FlattenSeq(sending') = t /\ given' = given \o t
  BY DEF Sent
<1>2. t \in Seq(Symbols)
  BY <1>1, FlattenTyped
<1>3. given' = given \o t /\ given \in Seq(Symbols)
  BY <1>1 DEF Wired
<1>4. given' \in Seq(Symbols)
  BY <1>2, <1>3, Concats
<1>5. Wired'
  BY <1>1, <1>4 DEF Wired
<1> DEFINE a == received \o pty
<1>6. a \in Seq(Symbols)
  BY Concats DEF Wired
<1>7. Stream = a
  <2>1. FlattenSeq(sending) = <<>>
    BY FlattenNone DEF Idle
  <2> QED
    BY <1>6, <2>1, Concats DEF Stream
<1>8. Stream' = a \o t
  BY <1>1, <1>3 DEF Stream
<1> HIDE DEF a
<1>9. Ordered'
  <2>1. CASE refused
    <3>1. InOrder(a, given)
      BY <1>7, <2>1 DEF Ordered
    <3>2. InOrder(a \o t, given \o t)
      BY <1>2, <1>3, <1>6, <3>1, InOrderGrows
    <3> QED
      BY <1>3, <1>8, <2>1, <3>2 DEF Ordered
  <2>2. CASE ~refused
    BY <1>3, <1>7, <1>8, <2>2 DEF Ordered
  <2> QED
    BY <2>1, <2>2
<1> QED
  BY <1>2, <1>3, <1>5, <1>9

(* The first call's string is cut; the rest of it is first then.           *)
LEMMA FlattenRest ==
    ASSUME NEW S, NEW calls \in Seq(Seq(S)), Len(calls) \in 1 .. 3, NEW s \in Seq(S)
    PROVE  /\ [calls EXCEPT ![1] = s] \in Seq(Seq(S))
           /\ Len([calls EXCEPT ![1] = s]) = Len(calls)
           /\ \A i \in 1 .. Len(calls) :
                [calls EXCEPT ![1] = s][i] = IF i = 1 THEN s ELSE calls[i]
           /\ FlattenSeq([calls EXCEPT ![1] = s]) = s \o FlattenSeq(Tail(calls))
<1> DEFINE new == [calls EXCEPT ![1] = s]
<1>1. 1 \in 1 .. Len(calls)
  <2>1. \A n \in 1 .. 3 : 1 \in 1 .. n
    OBVIOUS
  <2> QED
    BY <2>1, Zenon
<1>2. /\ new \in Seq(Seq(S)) /\ Len(new) = Len(calls)
      /\ \A i \in 1 .. Len(calls) : new[i] = IF i = 1 THEN s ELSE calls[i]
  BY <1>1, ExceptSeq
<1> HIDE DEF new
<1>3. new[1] = s
  BY <1>1, <1>2
<1>4. /\ Tail(new) \in Seq(Seq(S)) /\ Len(Tail(new)) = Len(new) - 1
      /\ FlattenSeq(new) = new[1] \o FlattenSeq(Tail(new))
  BY <1>2, FlattenHead
<1>5. Tail(calls) \in Seq(Seq(S)) /\ Len(Tail(calls)) = Len(calls) - 1
  BY FlattenHead
<1>6. new # <<>> /\ calls # <<>>
  <2>1. Len(<<>>) = 0
    OBVIOUS
  <2>2. \A n \in 1 .. 3 : n # 0
    OBVIOUS
  <2> QED
    BY <1>2, <2>1, <2>2, Zenon
<1>7. Tail(new) = Tail(calls)
  <2>1. ASSUME NEW i \in 1 .. Len(Tail(new)) PROVE Tail(new)[i] = Tail(calls)[i]
    <3>1. Tail(new)[i] = new[i + 1]
      BY <1>2, <1>6, HeadTailProperties
    <3>2. Tail(calls)[i] = calls[i + 1]
      BY <1>2, <1>4, <1>5, <1>6, HeadTailProperties
    <3>3. i + 1 \in 1 .. Len(calls) /\ i + 1 # 1
      BY <1>2, <1>4
    <3> QED
      BY <1>2, <3>1, <3>2, <3>3
  <2>2. Len(Tail(new)) = Len(Tail(calls))
    BY <1>2, <1>4, <1>5
  <2> QED
    BY <1>4, <1>5, <2>1, <2>2, SeqEqual
<1> QED
  BY <1>2, <1>3, <1>4, <1>7 DEF new

Cat(s, t) == s \o t
LEMMA Cats ==
    ASSUME NEW S, NEW s \in Seq(S), NEW t \in Seq(S), NEW u \in Seq(S)
    PROVE  Cat(s, t) \in Seq(S) /\ Cat(Cat(s, t), u) = Cat(s, Cat(t, u))
BY Concats DEF Cat

LEMMA Regrouped ==
    ASSUME NEW S, NEW a \in Seq(S), NEW b \in Seq(S), NEW p \in Seq(S), NEW r \in Seq(S),
           NEW f \in Seq(S)
    PROVE  Cat(Cat(a, Cat(b, p)), Cat(r, f)) = Cat(Cat(a, b), Cat(Cat(p, r), f))
<1>1. Cat(a, b) \in Seq(S) /\ Cat(r, f) \in Seq(S)
  BY Cats
<1>2. Cat(Cat(a, b), p) = Cat(a, Cat(b, p))
  BY Cats
<1>3. Cat(Cat(p, r), f) = Cat(p, Cat(r, f))
  BY Cats
<1>4. Cat(Cat(Cat(a, b), p), Cat(r, f)) = Cat(Cat(a, b), Cat(p, Cat(r, f)))
  BY <1>1, Cats
<1> QED
  BY <1>2, <1>3, <1>4

LEMMA LeastOf ==
    ASSUME NEW a \in Int, NEW b \in Int
    PROVE  /\ Min({a, b}) \in {a, b}
           /\ Min({a, b}) <= a /\ Min({a, b}) <= b
<1>1. \E x \in {a, b} : \A y \in {a, b} : x <= y
  <2>1. CASE a <= b
    BY <2>1
  <2>2. CASE ~(a <= b)
    BY <2>2
  <2> QED
    BY <2>1, <2>2
<1> QED
  BY <1>1, Zenon DEF Min

LEMMA WriteOrdered ==
    ASSUME Wired, Ordered, Write PROVE Wired' /\ Ordered' /\ given' = given
<1> DEFINE s == sending[1]
           rest == FlattenSeq(Tail(sending))
<1>1. sending # <<>> /\ Len(sending) \in 1 .. 3 /\ s \in Seq(Symbols)
  <2>1. sending # <<>>
    BY DEF Write, Idle
  <2>2. Len(sending) \in 1 .. 3
    BY <2>1, EmptySeq DEF Wired
  <2>3. 1 \in 1 .. Len(sending)
    BY <2>2
  <2>4. s \in Seq(Symbols)
    BY <2>3, ElementOfSeq DEF Wired
  <2> QED
    BY <2>1, <2>2, <2>4
<1>2. /\ Tail(sending) \in Seq(Seq(Symbols)) /\ Len(Tail(sending)) = Len(sending) - 1
      /\ rest \in Seq(Symbols) /\ FlattenSeq(sending) = s \o rest
  BY <1>1, FlattenHead DEF Wired
<1>3. PICK n \in 1 .. Min({Capacity - Len(pty), Len(s)}) :
           /\ pty' = pty \o SubSeq(s, 1, n)
           /\ sending' = IF n = Len(s) THEN Tail(sending)
                         ELSE [sending EXCEPT ![1] = Rest(@, n)]
  BY DEF Write
<1>4. UNCHANGED <<received, given, refused>>
  BY DEF Write, child, terminal
<1>5. n \in 1 .. Len(s) /\ n <= Capacity - Len(pty) /\ Len(s) \in Nat /\ Len(pty) \in Nat
  <2>1. Len(s) \in Int /\ Capacity - Len(pty) \in Int /\ Len(pty) \in Nat /\ Len(s) \in Nat
    BY <1>1, LenProperties, CapacityAssumption DEF Wired
  <2> HIDE DEF s
  <2> DEFINE m == Min({Capacity - Len(pty), Len(s)})
  <2>2. /\ m \in {Capacity - Len(pty), Len(s)}
        /\ m <= Capacity - Len(pty) /\ m <= Len(s)
    BY <2>1, LeastOf
  <2>3. n \in 1 .. m
    BY <1>3
  <2>4. m \in Int
    BY <2>1, <2>2
  <2> HIDE DEF m
  <2> QED
    BY <2>1, <2>2, <2>3, <2>4
<1> DEFINE p == SubSeq(s, 1, n)
           r == SubSeq(s, n + 1, Len(s))
<1> HIDE DEF s
<1>6. /\ p \in Seq(Symbols) /\ Len(p) = n /\ r \in Seq(Symbols) /\ p \o r = s
      /\ Len(r) = Len(s) - n
  <2>1. \A i \in 1 .. Len(s) : s[i] \in Symbols
    BY <1>1, ElementOfSeq
  <2>2. p \in Seq(Symbols) /\ Len(p) = n
    <3>1. \A i \in 1 .. n : s[i] \in Symbols
      BY <1>5, <2>1
    <3> QED
      BY <1>5, <3>1, SubSeqProperties
  <2>3. r \in Seq(Symbols) /\ Len(r) = Len(s) - n
    <3>1. /\ \A i \in n + 1 .. Len(s) : s[i] \in Symbols
          /\ n + 1 \in Int /\ Len(s) \in Int
      BY <1>5, <2>1
    <3>2. r \in Seq(Symbols) /\ Len(r) = IF n + 1 <= Len(s) THEN Len(s) - (n + 1) + 1 ELSE 0
      BY <3>1, SubSeqProperties
    <3> QED
      BY <1>5, <3>2
  <2>4. p \o r = s
    <3>1. 1 \in 1 .. Len(s) + 1 /\ n \in 1 - 1 .. Len(s) /\ Len(s) \in n .. Len(s)
      BY <1>5
    <3>2. p \o r = SubSeq(s, 1, Len(s))
      BY <1>1, <3>1, ConcatAdjacentSubSeq
    <3>3. SubSeq(s, 1, Len(s)) = s
      BY <1>1
    <3> QED
      BY <3>2, <3>3
  <2> QED
    BY <2>2, <2>3, <2>4
<1> HIDE DEF p, r
<1>7. /\ sending' \in Seq(Seq(Symbols)) /\ Len(sending') \in 0 .. 3
      /\ FlattenSeq(sending') = r \o rest
  <2>1. CASE n = Len(s)
    <3>1. sending' = Tail(sending)
      BY <1>3, <2>1
    <3>2. r = <<>>
      BY <1>5, <1>6, <2>1, EmptySeq
    <3>3. r \o rest = rest
      BY <1>2, <3>2, ConcatEmptySeq
    <3>4. Len(Tail(sending)) \in 0 .. 3
      <4>1. \A k \in 1 .. 3 : k - 1 \in 0 .. 3
        OBVIOUS
      <4> QED
        BY <1>1, <1>2, <4>1, Zenon
    <3>5. FlattenSeq(sending') = r \o rest
      BY <3>1, <3>3
    <3> QED
      BY <1>2, <3>1, <3>4, <3>5
  <2>2. CASE n # Len(s)
    <3>1. sending' = [sending EXCEPT ![1] = r]
      BY <1>3, <2>2 DEF Rest, r, s
    <3>2. /\ [sending EXCEPT ![1] = r] \in Seq(Seq(Symbols))
          /\ Len([sending EXCEPT ![1] = r]) = Len(sending)
          /\ \A i \in 1 .. Len(sending) :
                [sending EXCEPT ![1] = r][i] = IF i = 1 THEN r ELSE sending[i]
          /\ FlattenSeq([sending EXCEPT ![1] = r]) = r \o rest
      BY <1>1, <1>6, FlattenRest DEF Wired
    <3>3. Len(sending') \in 0 .. 3
      <4>1. Len(sending') = Len(sending)
        BY <3>1, <3>2, Zenon
      <4>2. \A k \in 1 .. 3 : k \in 0 .. 3
        OBVIOUS
      <4> QED
        BY <1>1, <4>1, <4>2, Zenon
    <3>4. sending' \in Seq(Seq(Symbols)) /\ FlattenSeq(sending') = r \o rest
      BY <3>1, <3>2
    <3> QED
      BY <3>3, <3>4
  <2> QED
    BY <2>1, <2>2
<1> HIDE DEF rest
<1>8. pty' \in Seq(Symbols) /\ Len(pty') <= Capacity
  <2>1. pty \o p \in Seq(Symbols) /\ Len(pty \o p) = Len(pty) + Len(p)
    BY <1>6, ConcatProperties DEF Wired
  <2> QED
    BY <1>3, <1>5, <1>6, <2>1, CapacityAssumption DEF p
<1>9. Wired'
  BY <1>4, <1>7, <1>8 DEF Wired
<1>10. Stream' = Stream
  <2>1. Stream' = (received \o (pty \o p)) \o (r \o rest)
    BY <1>3, <1>4, <1>7 DEF Stream, p
  <2>2. Stream = (received \o pty) \o ((p \o r) \o rest)
    BY <1>2, <1>6 DEF Stream
  <2>3. received \in Seq(Symbols) /\ pty \in Seq(Symbols)
    BY DEF Wired
  <2>4. (received \o (pty \o p)) \o (r \o rest) = (received \o pty) \o ((p \o r) \o rest)
    <3>1. /\ rest \in Seq(Symbols) /\ p \in Seq(Symbols) /\ r \in Seq(Symbols)
          /\ received \in Seq(Symbols) /\ pty \in Seq(Symbols)
      BY <1>2, <1>6, <2>3
    <3>2. Cat(Cat(received, Cat(pty, p)), Cat(r, rest))
            = Cat(Cat(received, pty), Cat(Cat(p, r), rest))
      BY <3>1, Regrouped
    <3> QED
      BY <3>2 DEF Cat
  <2> QED
    BY <2>1, <2>2, <2>4
<1> QED
  BY <1>4, <1>9, <1>10 DEF Ordered

LEMMA RefusedOrdered ==
    ASSUME Wired, Ordered, Refused PROVE Wired' /\ Ordered' /\ given' = given
<1> DEFINE s == sending[1]
           rest == FlattenSeq(Tail(sending))
           a == received \o pty
<1>1. sending # <<>> /\ Len(sending) \in 1 .. 3
  <2>1. sending # <<>>
    BY DEF Refused, Idle
  <2> QED
    BY <2>1, EmptySeq DEF Wired
<1>2. /\ Tail(sending) \in Seq(Seq(Symbols)) /\ Len(Tail(sending)) = Len(sending) - 1
      /\ rest \in Seq(Symbols) /\ FlattenSeq(sending) = s \o rest /\ s \in Seq(Symbols)
  BY <1>1, FlattenHead DEF Wired
<1>3. /\ refused' /\ sending' = Tail(sending)
      /\ UNCHANGED <<received, pty, given>>
  BY DEF Refused, child, terminal
<1>5. Wired'
  <2>0. \A k \in 1 .. 3 : k - 1 \in 0 .. 3
    OBVIOUS
  <2>1. Len(sending') \in 0 .. 3 /\ sending' \in Seq(Seq(Symbols))
    BY <1>1, <1>2, <1>3, <2>0, Zenon
  <2> QED
    BY <1>3, <2>1 DEF Wired
<1>6. a \in Seq(Symbols)
  BY Concats DEF Wired
<1>7. Stream = a \o (s \o rest) /\ Stream' = a \o rest
  BY <1>2, <1>3 DEF Stream
<1> HIDE DEF a, s, rest
<1>8. a \o s \in Seq(Symbols) /\ (a \o s) \o rest = a \o (s \o rest)
  <2>1. a \o s \in Seq(Symbols)
    BY <1>2, <1>6, ConcatProperties, Zenon
  <2>2. (a \o s) \o rest = a \o (s \o rest)
    <3>1. Cat(Cat(a, s), rest) = Cat(a, Cat(s, rest))
      BY <1>2, <1>6, Cats
    <3> QED
      BY <3>1 DEF Cat
  <2> QED
    BY <2>1, <2>2
<1>9. InOrder(a, a \o s)
  BY <1>2, <1>6, InOrderStart
<1>10. InOrder(Stream', Stream)
  <2>1. InOrder(a \o rest, (a \o s) \o rest)
    BY <1>2, <1>6, <1>8, <1>9, InOrderGrows
  <2> QED
    BY <1>7, <1>8, <2>1
<1>11. InOrder(Stream', given')
  <2>1. CASE refused
    <3>1. InOrder(Stream, given)
      BY <2>1 DEF Ordered
    <3> QED
      BY <1>3, <1>10, <3>1, InOrderTwice
  <2>2. CASE ~refused
    BY <1>3, <1>10, <2>2 DEF Ordered
  <2> QED
    BY <2>1, <2>2
<1> QED
  BY <1>3, <1>5, <1>11 DEF Ordered

LEMMA NothingOrdered ==
    ASSUME Wired, Ordered, Nothing PROVE Wired' /\ Ordered' /\ given' = given
<1>1. sending # <<>> /\ Len(sending) \in 1 .. 3
  <2>1. sending # <<>>
    BY DEF Nothing, Idle
  <2> QED
    BY <2>1, EmptySeq DEF Wired
<1>2. /\ Tail(sending) \in Seq(Seq(Symbols)) /\ Len(Tail(sending)) = Len(sending) - 1
      /\ FlattenSeq(Tail(sending)) \in Seq(Symbols)
      /\ FlattenSeq(sending) = sending[1] \o FlattenSeq(Tail(sending))
  BY <1>1, FlattenHead DEF Wired
<1>3. /\ sending[1] = <<>> /\ sending' = Tail(sending)
      /\ UNCHANGED <<received, pty, given, refused>>
  BY DEF Nothing, child, terminal
<1>4. FlattenSeq(sending') = FlattenSeq(sending)
  BY <1>2, <1>3, ConcatEmptySeq
<1>5. Wired'
  <2>0. \A k \in 1 .. 3 : k - 1 \in 0 .. 3
    OBVIOUS
  <2>1. Len(sending') \in 0 .. 3 /\ sending' \in Seq(Seq(Symbols))
    BY <1>1, <1>2, <1>3, <2>0, Zenon
  <2> QED
    BY <1>3, <2>1 DEF Wired
<1>6. Stream' = Stream
  BY <1>3, <1>4 DEF Stream
<1> QED
  BY <1>3, <1>5, <1>6 DEF Ordered

LEMMA HeadThenTail ==
    ASSUME NEW S, NEW s \in Seq(S), s # <<>> PROVE <<Head(s)>> \o Tail(s) = s
<1> DEFINE h == <<Head(s)>>
           t == Tail(s)
<1>1. /\ t \in Seq(S) /\ Len(t) = Len(s) - 1 /\ Len(s) \in Nat
      /\ \A i \in 1 .. Len(t) : t[i] = s[i + 1]
      /\ Head(s) \in S /\ Head(s) = s[1]
  BY HeadTailProperties, LenProperties
<1>2. h \in Seq(S) /\ Len(h) = 1 /\ h[1] = s[1]
  BY <1>1
<1>0. Len(t) \in Nat
  BY <1>1, LenProperties
<1> HIDE DEF h, t
<1>3. /\ h \o t \in Seq(S) /\ Len(h \o t) = Len(h) + Len(t)
      /\ \A i \in 1 .. Len(h) + Len(t) :
            (h \o t)[i] = IF i <= Len(h) THEN h[i] ELSE t[i - Len(h)]
  <2>1. ASSUME NEW a \in Seq(S), NEW b \in Seq(S)
        PROVE  /\ a \o b \in Seq(S) /\ Len(a \o b) = Len(a) + Len(b)
               /\ \A i \in 1 .. Len(a) + Len(b) :
                    (a \o b)[i] = IF i <= Len(a) THEN a[i] ELSE b[i - Len(a)]
    BY ConcatProperties
  <2> QED
    BY <1>1, <1>2, <2>1
<1>4. Len(h \o t) = Len(s)
  BY <1>1, <1>2, <1>3
<1>5. ASSUME NEW i \in 1 .. Len(s) PROVE (h \o t)[i] = s[i]
  <2>1. CASE i = 1
    BY <1>1, <1>2, <1>3, <2>1
  <2>2. CASE i # 1
    <3>1. i - 1 \in 1 .. Len(t) /\ (i - 1) + 1 = i /\ ~(i <= 1)
      BY <1>1, <2>2
    <3>2. (h \o t)[i] = t[i - 1]
      BY <1>1, <1>2, <1>3, <3>1
    <3> QED
      BY <1>1, <3>1, <3>2
  <2> QED
    BY <2>1, <2>2
<1>6. h \o t = s
  BY <1>3, <1>4, <1>5, SeqEqual
<1> QED
  BY <1>6 DEF h, t

LEMMA ReadOrdered ==
    ASSUME Wired, Ordered, child_read PROVE Wired' /\ Ordered' /\ given' = given
<1>1. /\ pty # <<>> /\ received' = Append(received, Head(pty)) /\ pty' = Tail(pty)
      /\ UNCHANGED <<sending, given, refused>>
  BY DEF child_read, wire
<1>2. /\ Head(pty) \in Symbols /\ Tail(pty) \in Seq(Symbols) /\ Len(Tail(pty)) = Len(pty) - 1
      /\ Len(pty) \in Nat
  BY <1>1, HeadTailProperties, LenProperties DEF Wired
<1>3. received' \in Seq(Symbols)
  BY <1>1, <1>2, AppendProperties DEF Wired
<1>4. Len(pty') <= Capacity
  BY <1>1, <1>2, CapacityAssumption DEF Wired
<1>5. Wired'
  BY <1>1, <1>2, <1>3, <1>4 DEF Wired
<1>6. received' \o pty' = received \o pty
  <2> DEFINE h == <<Head(pty)>>
  <2>1. h \in Seq(Symbols)
    BY <1>2
  <2>2. received' = received \o h
    BY <1>1, <1>2, AppendIsConcat DEF Wired
  <2>3. pty = h \o pty'
    <3>1. pty \in Seq(Symbols)
      BY DEF Wired
    <3>2. h \o pty' = pty
      BY <1>1, <1>2, <3>1, HeadThenTail
    <3> QED
      BY <3>2
  <2> HIDE DEF h
  <2>4. (received \o h) \o pty' = received \o (h \o pty')
    <3>1. received \in Seq(Symbols) /\ pty' \in Seq(Symbols)
      BY <1>1, <1>2 DEF Wired
    <3> QED
      BY <2>1, <3>1, ConcatAssociative
  <2> QED
    BY <2>2, <2>3, <2>4
<1>7. Stream' = Stream
  BY <1>1, <1>6 DEF Stream
<1> QED
  BY <1>1, <1>5, <1>7 DEF Ordered

-----------------------------------------------------------------------------
(* What a handler sends.                                                   *)

(* What may stand between the brackets of a paste.                         *)
Between == Chars \union {"ESC", "stray"}
TextBytes == Between \union {"[201~"}
Opening == <<"ESC", "[200~">>
Closing == <<"ESC", "[201~">>
Pasted(x) == (Opening \o x) \o Closing
Message(t, flags) ==
    \/ Keyed(t, flags)
    \/ "bracketpaste" \in flags /\ \E x \in Seq(TextBytes) : t = Pasted(x)
Reply == <<"ESC", "[?c">>

LEMMA SymbolsHave ==
    /\ {"ESC", "[200~", "[201~", "[?c", "NUL", "RS", "stray"} \subseteq Symbols
    /\ Chars \subseteq Symbols /\ TextBytes \subseteq Symbols
BY DEF Symbols, OtherBytes, TextBytes, Between

LEMMA Pairs ==
    ASSUME NEW a \in Symbols, NEW b \in Symbols
    PROVE  /\ <<a>> \in Seq(Symbols) /\ <<a>> # <<>>
           /\ <<a, b>> \in Seq(Symbols) /\ <<a, b>> # <<>>
OBVIOUS

LEMMA CatsAt ==
    ASSUME NEW S, NEW p \in Seq(S), NEW q \in Seq(S)
    PROVE  /\ Cat(p, q) \in Seq(S) /\ Len(Cat(p, q)) = Len(p) + Len(q)
           /\ \A i \in 1 .. Len(p) + Len(q) :
                Cat(p, q)[i] = IF i <= Len(p) THEN p[i] ELSE q[i - Len(p)]
BY ConcatProperties DEF Cat

(* A paste, byte for byte.                                                 *)
LEMMA PastedIs ==
    ASSUME NEW x \in Seq(TextBytes), NEW t, t = Pasted(x)
    PROVE  /\ t \in Seq(Symbols) /\ Len(t) = Len(x) + 4 /\ Len(x) \in Nat
           /\ t[1] = "ESC" /\ t[2] = "[200~" /\ t[Len(t)] = "[201~"
           /\ \A k \in 3 .. Len(t) : t[k] \in TextBytes
<1> DEFINE o == Opening
           c == Closing
           ox == Cat(o, x)
           n == Len(x)
<1>1. /\ o \in Seq(Symbols) /\ Len(o) = 2 /\ o[1] = "ESC" /\ o[2] = "[200~"
      /\ c \in Seq(Symbols) /\ Len(c) = 2 /\ c[1] = "ESC" /\ c[2] = "[201~"
  BY SymbolsHave DEF Opening, Closing
<1>2. x \in Seq(Symbols) /\ n \in Nat /\ \A k \in 1 .. n : x[k] \in TextBytes
  <2>1. \A k \in 1 .. n : x[k] \in TextBytes
    BY ElementOfSeq
  <2>2. x \in Seq(Symbols)
    BY SymbolsHave
  <2> QED
    BY <2>1, <2>2, LenProperties
<1>3. t = Cat(ox, c)
  BY DEF Pasted, Cat
<1> HIDE DEF o, c, n
<1>4. /\ ox \in Seq(Symbols) /\ Len(ox) = 2 + n
      /\ \A i \in 1 .. 2 + n : ox[i] = IF i <= 2 THEN o[i] ELSE x[i - 2]
  <2>1. /\ ox \in Seq(Symbols) /\ Len(ox) = Len(o) + Len(x)
        /\ \A i \in 1 .. Len(o) + Len(x) :
             ox[i] = IF i <= Len(o) THEN o[i] ELSE x[i - Len(o)]
    BY <1>1, <1>2, CatsAt
  <2> HIDE DEF ox
  <2> QED
    BY <1>1, <2>1 DEF n
<1> HIDE DEF ox
<1>5. /\ t \in Seq(Symbols) /\ Len(t) = n + 4
      /\ \A i \in 1 .. n + 4 : t[i] = IF i <= n + 2 THEN ox[i] ELSE c[i - (n + 2)]
  <2>1. /\ t \in Seq(Symbols) /\ Len(t) = Len(ox) + Len(c)
        /\ \A i \in 1 .. Len(ox) + Len(c) :
             t[i] = IF i <= Len(ox) THEN ox[i] ELSE c[i - Len(ox)]
    <3>1. ox \in Seq(Symbols) /\ c \in Seq(Symbols)
      BY <1>1, <1>4
    <3> QED
      BY <1>3, <3>1, CatsAt, Zenon
  <2> QED
    BY <1>1, <1>2, <1>4, <2>1
<1>6. t[1] = "ESC" /\ t[2] = "[200~" /\ t[n + 4] = "[201~" /\ t[n + 3] = "ESC"
  <2>1. /\ 1 \in 1 .. n + 4 /\ 2 \in 1 .. n + 4 /\ n + 3 \in 1 .. n + 4
        /\ n + 4 \in 1 .. n + 4 /\ 1 \in 1 .. 2 + n /\ 2 \in 1 .. 2 + n
        /\ 1 <= n + 2 /\ 2 <= n + 2 /\ ~(n + 3 <= n + 2) /\ ~(n + 4 <= n + 2)
        /\ (n + 3) - (n + 2) = 1 /\ (n + 4) - (n + 2) = 2
    BY <1>2
  <2> QED
    BY <1>1, <1>4, <1>5, <2>1
<1>7. ASSUME NEW k \in 3 .. n + 4 PROVE t[k] \in TextBytes
  <2>1. CASE k <= n + 2
    <3>1. k \in 1 .. n + 4 /\ k \in 1 .. 2 + n /\ ~(k <= 2) /\ k - 2 \in 1 .. n
      BY <1>2, <2>1
    <3>2. t[k] = x[k - 2]
      BY <1>4, <1>5, <2>1, <3>1
    <3> QED
      BY <1>2, <3>1, <3>2
  <2>2. CASE k > n + 2
    <3>1. k = n + 3 \/ k = n + 4
      BY <1>2, <2>2
    <3>2. "ESC" \in TextBytes /\ "[201~" \in TextBytes
      BY DEF TextBytes, Between
    <3> QED
      BY <1>6, <3>1, <3>2
  <2> QED
    BY <1>2, <2>1, <2>2
<1> QED
  BY <1>2, <1>5, <1>6, <1>7 DEF n

(* What the conversion leaves of a string.                                 *)
LEMMA ConvertedIs ==
    ASSUME NEW S, NEW s \in Seq(S), NEW n \in Nat
    PROVE  /\ str_cps_to_mbs_n(s, n) \in Seq(S \union {"stray"})
           /\ Encodes(s) => str_cps_to_mbs_n(s, n) = s
           /\ \A i \in 1 .. Len(str_cps_to_mbs_n(s, n)) :
                 \/ str_cps_to_mbs_n(s, n)[i] = "stray"
                 \/ i \in 1 .. Len(s) /\ str_cps_to_mbs_n(s, n)[i] = s[i]
<1>1. Len(s) \in Nat /\ \A i \in 1 .. Len(s) : s[i] \in S
  BY LenProperties, ElementOfSeq
<1>2. CASE Encodes(s)
  <2>1. str_cps_to_mbs_n(s, n) = s
    BY <1>2 DEF str_cps_to_mbs_n
  <2>2. s \in Seq(S \union {"stray"})
    OBVIOUS
  <2> QED
    BY <2>1, <2>2
<1>3. CASE ~Encodes(s)
  <2> DEFINE b(i) == IF \E k \in 1 .. Len(s) : k <= i /\ s[k] \in Unencodable
                       THEN "stray" ELSE s[i]
             t == [i \in 1 .. n |-> b(i)]
  <2>1. str_cps_to_mbs_n(s, n) = t
    BY <1>3 DEF str_cps_to_mbs_n
  <2>2. PICK k \in 1 .. Len(s) : s[k] \in Unencodable
    BY <1>3 DEF Encodes
  <2>3. ASSUME NEW i \in 1 .. n
        PROVE  b(i) = "stray" \/ (i \in 1 .. Len(s) /\ b(i) = s[i])
    <3>1. CASE k <= i
      BY <2>2, <3>1
    <3>2. CASE i < k
      <4>1. i \in 1 .. Len(s)
        BY <1>1, <3>2
      <4> QED
        BY <4>1
    <3> QED
      BY <3>1, <3>2
  <2> HIDE DEF b
  <2>4. \A i \in 1 .. n : b(i) \in S \union {"stray"}
    BY <1>1, <2>3
  <2>5. t \in Seq(S \union {"stray"}) /\ Len(t) = n /\ \A i \in 1 .. n : t[i] = b(i)
    BY <2>4
  <2> HIDE DEF t
  <2> QED
    BY <1>3, <2>1, <2>3, <2>5
<1> QED
  BY <1>2, <1>3

(* Fixed strings are written as they are.                                  *)
LEMMA FixedEncode == Encodes(Opening) /\ Encodes(Closing) /\ Encodes(Reply)
<1>1. Unencodable \intersect {"ESC", "[200~", "[201~", "[?c"} = {}
  BY CharsAssumption, UnencodableAssumption
<1>2. ASSUME NEW a, NEW b, a \notin Unencodable, b \notin Unencodable
      PROVE  Encodes(<<a, b>>)
  <2>1. Len(<<a, b>>) = 2 /\ <<a, b>>[1] = a /\ <<a, b>>[2] = b
    OBVIOUS
  <2>2. \A i \in 1 .. 2 : i = 1 \/ i = 2
    OBVIOUS
  <2> QED
    BY <1>2, <2>1, <2>2 DEF Encodes
<1> QED
  BY <1>1, <1>2 DEF Opening, Closing, Reply

LEMMA OneCall ==
    ASSUME NEW s \in Seq(Symbols), Send(<<s>>)
    PROVE  \E n \in Nat : Sent(str_cps_to_mbs_n(s, n))
<1> DEFINE calls == <<s>>
<1>1. Len(calls) = 1 /\ calls[1] = s
  OBVIOUS
<1> HIDE DEF calls
<1>2. PICK n \in 0 .. MaxStray :
         LET bytes == [i \in 1 .. Len(calls) |-> str_cps_to_mbs_n(calls[i], n)]
         IN  sending' = bytes /\ given' = given \o FlattenSeq(bytes)
  BY DEF Send, calls
<1> DEFINE t == str_cps_to_mbs_n(s, n)
           bytes == [i \in 1 .. Len(calls) |-> str_cps_to_mbs_n(calls[i], n)]
<1>3. n \in Nat
  BY UnencodableAssumption
<1>4. t \in Seq(Symbols)
  <2>1. t \in Seq(Symbols \union {"stray"})
    BY <1>3, ConvertedIs
  <2>2. Symbols \union {"stray"} = Symbols
    BY SymbolsHave
  <2> QED
    BY <2>1, <2>2
<1>5. sending' = bytes /\ given' = given \o FlattenSeq(bytes)
  BY <1>2
<1>6. bytes = [i \in 1 .. 1 |-> t]
  BY <1>1
<1> HIDE DEF t, bytes
<1>7. /\ bytes \in Seq(Seq(Symbols)) /\ Len(bytes) = 1 /\ bytes[1] = t
  BY <1>4, <1>6
<1>8. FlattenSeq(bytes) = t
  <2>1. Len(bytes) \in 1 .. 3
    BY <1>7
  <2> QED
    BY <1>7, <2>1, FlattenIs DEF Joined
<1>9. Sent(t)
  BY <1>5, <1>7, <1>8 DEF Sent
<1> QED
  BY <1>3, <1>9 DEF t

LEMMA KeyedSent ==
    ASSUME NEW s, NEW flags, Keyed(s, flags), Send(<<s>>)
    PROVE  \E t : Sent(t) /\ Keyed(t, flags)
<1>1. s \in Seq(Symbols) /\ \A i \in 1 .. Len(s) : Clean(s[i], flags)
  BY DEF Keyed
<1>2. PICK n \in Nat : Sent(str_cps_to_mbs_n(s, n))
  BY <1>1, OneCall
<1>3. PICK t : t = str_cps_to_mbs_n(s, n)
  OBVIOUS
<1>4. /\ t \in Seq(Symbols \union {"stray"})
      /\ \A i \in 1 .. Len(t) : t[i] = "stray" \/ (i \in 1 .. Len(s) /\ t[i] = s[i])
  BY <1>1, <1>3, ConvertedIs
<1>5. t \in Seq(Symbols)
  <2>1. Symbols \union {"stray"} = Symbols
    BY SymbolsHave
  <2> QED
    BY <1>4, <2>1
<1>6. Clean("stray", flags)
  BY CleanNames
<1>7. Keyed(t, flags)
  BY <1>1, <1>4, <1>5, <1>6 DEF Keyed
<1> QED
  BY <1>2, <1>3, <1>7

(* The three calls of a bracketed paste.                                   *)
LEMMA PasteSent ==
    ASSUME NEW data \in Pastes, Send(<<Esc("[200~"), data, Esc("[201~")>>)
    PROVE  \E x \in Seq(TextBytes) : Sent(Pasted(x))
<1> DEFINE calls == <<Opening, data, Closing>>
<1>1. Send(calls)
  BY DEF Opening, Closing, Esc
<1>2. /\ Len(calls) = 3 /\ calls[1] = Opening /\ calls[2] = data /\ calls[3] = Closing
  OBVIOUS
<1> HIDE DEF calls
<1>3. PICK n \in 0 .. MaxStray :
         LET bytes == [i \in 1 .. Len(calls) |-> str_cps_to_mbs_n(calls[i], n)]
         IN  sending' = bytes /\ given' = given \o FlattenSeq(bytes)
  BY <1>1 DEF Send
<1> DEFINE x == str_cps_to_mbs_n(data, n)
           bytes == [i \in 1 .. Len(calls) |-> str_cps_to_mbs_n(calls[i], n)]
<1>4. n \in Nat
  BY UnencodableAssumption
<1>5. Opening \in Seq(Symbols) /\ Closing \in Seq(Symbols)
  BY SymbolsHave, Pairs DEF Opening, Closing
<1>6. x \in Seq(TextBytes) /\ x \in Seq(Symbols)
  <2>1. data \in Seq(Chars \union {"ESC", "[201~"})
    BY PastesAssumption
  <2>2. x \in Seq((Chars \union {"ESC", "[201~"}) \union {"stray"})
    BY <1>4, <2>1, ConvertedIs
  <2>3. (Chars \union {"ESC", "[201~"}) \union {"stray"} = TextBytes
    BY DEF TextBytes, Between
  <2> HIDE DEF x
  <2>4. x \in Seq(TextBytes)
    BY <2>2, <2>3
  <2> QED
    BY <2>4, SymbolsHave
<1>7. sending' = bytes /\ given' = given \o FlattenSeq(bytes)
  BY <1>3
<1>8. /\ str_cps_to_mbs_n(Opening, n) = Opening
      /\ str_cps_to_mbs_n(Closing, n) = Closing
  BY <1>4, <1>5, FixedEncode, ConvertedIs
<1> HIDE DEF x
<1>9. /\ DOMAIN bytes = 1 .. 3
      /\ bytes[1] = Opening /\ bytes[2] = x /\ bytes[3] = Closing
  BY <1>2, <1>8 DEF x
<1>10. bytes = [i \in 1 .. 3 |-> bytes[i]]
  BY <1>2
<1> HIDE DEF bytes
<1>11. bytes \in Seq(Seq(Symbols)) /\ Len(bytes) = 3
  <2>1. \A i \in 1 .. 3 : i = 1 \/ i = 2 \/ i = 3
    OBVIOUS
  <2>2. \A i \in 1 .. 3 : bytes[i] \in Seq(Symbols)
    BY <1>5, <1>6, <1>9, <2>1
  <2> QED
    BY <1>10, <2>2
<1>12. Len(bytes) \in 1 .. 3
  BY <1>11
<1>13. FlattenSeq(bytes) = Joined(bytes, 3)
  BY <1>11, <1>12, FlattenIs
<1>14. FlattenSeq(bytes) = Pasted(x)
  BY <1>9, <1>11, <1>13 DEF Joined, Pasted
<1>15. Sent(Pasted(x))
  BY <1>7, <1>11, <1>12, <1>14 DEF Sent
<1> QED
  BY <1>6, <1>15

LEMMA EventSends ==
    ASSUME te_handle_button \/ te_handle_keypress \/ te_paste_text
    PROVE  /\ Idle /\ \E t : Sent(t) /\ Message(t, mode_flags)
           /\ UNCHANGED <<received, pty, refused, commands, handled, mode_flags>>
<1>1. CASE te_handle_button
  <2>1. PICK key \in Keys, modifiers \in Modifiers :
           Event /\ Send(<<KeyString(key, modifiers, mode_flags)>>)
             /\ UNCHANGED <<child, terminal, pty, refused>>
    BY <1>1 DEF te_handle_button
  <2> DEFINE t == KeyString(key, modifiers, mode_flags)
  <2>2. Keyed(t, mode_flags)
    BY KeyStringKeyed
  <2>3. Send(<<t>>)
    BY <2>1
  <2> HIDE DEF t
  <2>4. \E u : Sent(u) /\ Message(u, mode_flags)
    BY <2>2, <2>3, KeyedSent DEF Message
  <2> QED
    BY <2>1, <2>4 DEF Event, child, terminal
<1>2. CASE te_handle_keypress
  <2>1. PICK code \in Chars, modifiers \in Modifiers :
           /\ Event
           /\ Send(<<IF "ctrl" \in modifiers /\ code \in DOMAIN Control
                       THEN <<Control[code]>>
                     ELSE IF "meta" \in modifiers THEN <<"ESC", code>>
                     ELSE <<code>> >>)
           /\ UNCHANGED <<child, terminal, pty, refused>>
    BY <1>2 DEF te_handle_keypress
  <2> DEFINE t == IF "ctrl" \in modifiers /\ code \in DOMAIN Control
                       THEN <<Control[code]>>
                     ELSE IF "meta" \in modifiers THEN <<"ESC", code>>
                     ELSE <<code>>
  <2>2. Keyed(t, mode_flags)
    <3>1. Clean(code, mode_flags)
      BY CleanBytes
    <3>2. ASSUME code \in DOMAIN Control PROVE Control[code] = "NUL" \/ Control[code] = "RS"
      BY <3>2 DEF Control
    <3>3. ASSUME code \in DOMAIN Control PROVE Clean(Control[code], mode_flags)
      <4>1. Clean("NUL", mode_flags) /\ Clean("RS", mode_flags)
        BY CleanNames
      <4> QED
        BY <3>2, <3>3, <4>1
    <3> QED
      BY <3>1, <3>3, KeyedIs
  <2>3. Send(<<t>>)
    BY <2>1
  <2> HIDE DEF t
  <2>4. \E u : Sent(u) /\ Message(u, mode_flags)
    BY <2>2, <2>3, KeyedSent DEF Message
  <2> QED
    BY <2>1, <2>4 DEF Event, child, terminal
<1>3. CASE te_paste_text
  <2>1. PICK data \in Pastes :
           /\ Event
           /\ Send(IF "bracketpaste" \in mode_flags
                     THEN <<Esc("[200~"), data, Esc("[201~")>> ELSE <<data>>)
           /\ UNCHANGED <<child, terminal, pty, refused>>
    BY <1>3 DEF te_paste_text
  <2>2. \E t : Sent(t) /\ Message(t, mode_flags)
    <3>1. CASE "bracketpaste" \in mode_flags
      <4>1. \E x \in Seq(TextBytes) : Sent(Pasted(x))
        BY <2>1, <3>1, PasteSent
      <4> QED
        BY <3>1, <4>1 DEF Message
    <3>2. CASE "bracketpaste" \notin mode_flags
      <4>1. Keyed(data, mode_flags)
        <5>1. data \in Seq(Chars \union {"ESC", "[201~"})
          BY PastesAssumption
        <5>2. data \in Seq(Symbols)
          BY <5>1, SymbolsHave
        <5>3. \A i \in 1 .. Len(data) : data[i] \in Chars \union {"ESC", "[201~"}
          BY <5>1, ElementOfSeq
        <5>4. \A b \in Chars \union {"ESC", "[201~"} : Clean(b, mode_flags)
          BY CleanBytes, CleanNames
        <5> QED
          BY <5>2, <5>3, <5>4 DEF Keyed
      <4>2. Send(<<data>>)
        BY <2>1, <3>2
      <4> QED
        BY <4>1, <4>2, KeyedSent DEF Message
    <3> QED
      BY <3>1, <3>2
  <2> QED
    BY <2>1, <2>2 DEF Event, child, terminal
<1> QED
  BY <1>1, <1>2, <1>3

LEMMA ReplySent ==
    ASSUME ac_device_attrib PROVE Sent(Reply)
<1>1. Send(<<Reply>>)
  BY DEF ac_device_attrib, Answer, Reply
<1>2. Reply \in Seq(Symbols)
  BY SymbolsHave, Pairs DEF Reply
<1>3. PICK n \in Nat : Sent(str_cps_to_mbs_n(Reply, n))
  BY <1>1, <1>2, OneCall
<1>4. str_cps_to_mbs_n(Reply, n) = Reply
  BY <1>2, FixedEncode, ConvertedIs
<1> QED
  BY <1>3, <1>4

-----------------------------------------------------------------------------
(* What the modes are, after the first n of some requests.                 *)

About(command, flag) ==
    \/ command.do = "reset"
    \/ command.do # "ask" /\ command.what = flag
AboutIn(requests, flag, n) == {i \in 1 .. n : About(requests[i], flag)}
SetIn(requests, flag, n) ==
    /\ AboutIn(requests, flag, n) # {}
    /\ requests[Max(AboutIn(requests, flag, n))].do = "set"

LEMMA IsSetIs ==
    ASSUME NEW flag, NEW n PROVE IsSet(flag, n) <=> SetIn(commands, flag, n)
BY DEF IsSet, SetIn, AboutIn, About

LEMMA SetNext ==
    ASSUME NEW requests, NEW flag, NEW n \in Nat
    PROVE  /\ About(requests[n + 1], flag) =>
                (SetIn(requests, flag, n + 1) <=> requests[n + 1].do = "set")
           /\ ~About(requests[n + 1], flag) =>
                (SetIn(requests, flag, n + 1) <=> SetIn(requests, flag, n))
<1> DEFINE a == AboutIn(requests, flag, n)
           b == AboutIn(requests, flag, n + 1)
<1>1. ASSUME About(requests[n + 1], flag)
      PROVE  SetIn(requests, flag, n + 1) <=> requests[n + 1].do = "set"
  <2>1. n + 1 \in b /\ \A i \in b : i \in Int /\ i <= n + 1
    BY <1>1 DEF AboutIn
  <2> HIDE DEF b
  <2>2. Max(b) = n + 1
    <3>1. \E x \in b : \A y \in b : x >= y
      BY <2>1
    <3>2. Max(b) \in b /\ \A y \in b : Max(b) >= y
      BY <3>1, Zenon DEF Max
    <3> QED
      BY <2>1, <3>2
  <2>3. b # {}
    BY <2>1
  <2> QED
    BY <2>2, <2>3 DEF b, SetIn
<1>2. ASSUME ~About(requests[n + 1], flag)
      PROVE  SetIn(requests, flag, n + 1) <=> SetIn(requests, flag, n)
  <2>1. a = b
    BY <1>2 DEF AboutIn
  <2> QED
    BY <2>1 DEF SetIn
<1> QED
  BY <1>1, <1>2

(* More requests leave what the modes were after the earlier.              *)
LEMMA SetKept ==
    ASSUME NEW c, NEW d, NEW flag, NEW n \in Nat, \A i \in 1 .. n : d[i] = c[i]
    PROVE  SetIn(d, flag, n) <=> SetIn(c, flag, n)
<1> DEFINE a == AboutIn(c, flag, n)
<1>1. AboutIn(d, flag, n) = a
  BY DEF AboutIn
<1>2. a \subseteq 1 .. n
  BY DEF AboutIn
<1>3. a # {} => Max(a) \in 1 .. n
  <2> HIDE DEF a
  <2> QED
    BY <1>2, GreatestOf
<1> HIDE DEF a
<1>4. a # {} => d[Max(a)] = c[Max(a)]
  BY <1>3
<1> QED
  BY <1>1, <1>4 DEF a, SetIn

(* The modes that are set are those the handled requests leave set.        *)
ModesHold ==
    /\ commands \in Seq(Commands) /\ handled \in 0 .. Len(commands)
    /\ mode_flags \subseteq Flags
    /\ \A flag \in Flags : flag \in mode_flags <=> SetIn(commands, flag, handled)

LEMMA CommandIs ==
    ASSUME NEW c \in Commands
    PROVE  \/ c.do = "set" /\ c.what \in Flags
           \/ c.do = "clear" /\ c.what \in Flags
           \/ c.do = "ask"
           \/ c.do = "reset"
BY CommandsAssumption

LEMMA RequestModes ==
    ASSUME ModesHold, process_request
    PROVE  ModesHold'
<1> DEFINE h == handled + 1
           c == commands[h]
<1>1. /\ handled < Len(commands) /\ handled' = h /\ Handle(c) /\ commands' = commands
  BY DEF process_request, child
<1>2. /\ commands \in Seq(Commands) /\ handled \in Nat /\ h \in 1 .. Len(commands)
      /\ mode_flags \subseteq Flags
  BY <1>1, LenProperties DEF ModesHold
<1>3. c \in Commands
  BY <1>2, ElementOfSeq
<1>4. \A flag \in Flags :
        /\ About(c, flag) => (SetIn(commands, flag, h) <=> c.do = "set")
        /\ ~About(c, flag) => (SetIn(commands, flag, h) <=> flag \in mode_flags)
  BY <1>2, SetNext DEF ModesHold
<1> HIDE DEF c
<1>5. ASSUME mode_flags' \subseteq Flags,
             \A flag \in Flags :
               /\ About(c, flag) => (flag \in mode_flags' <=> c.do = "set")
               /\ ~About(c, flag) => (flag \in mode_flags' <=> flag \in mode_flags)
      PROVE  ModesHold'
  <2>1. \A flag \in Flags : flag \in mode_flags' <=> SetIn(commands, flag, h)
    BY <1>4, <1>5
  <2> QED
    BY <1>1, <1>2, <1>5, <2>1 DEF ModesHold
<1>6. CASE c.do = "set" /\ c.what \in Flags
  <2>1. mode_flags' = mode_flags \union {c.what}
    BY <1>1, <1>6 DEF Handle, ac_set_mode
  <2>2. \A flag \in Flags : About(c, flag) <=> c.what = flag
    BY <1>6 DEF About
  <2> QED
    BY <1>2, <1>5, <1>6, <2>1, <2>2
<1>7. CASE c.do = "clear" /\ c.what \in Flags
  <2>1. mode_flags' = mode_flags \ {c.what}
    BY <1>1, <1>7 DEF Handle, ac_clear_mode
  <2>2. \A flag \in Flags : About(c, flag) <=> c.what = flag
    BY <1>7 DEF About
  <2> QED
    BY <1>2, <1>5, <1>7, <2>1, <2>2
<1>8. CASE c.do = "ask"
  <2>1. mode_flags' = mode_flags
    BY <1>1, <1>8 DEF Handle, ac_device_attrib
  <2>2. \A flag \in Flags : ~About(c, flag)
    BY <1>8 DEF About
  <2> QED
    BY <1>2, <1>5, <2>1, <2>2
<1>9. CASE c.do = "reset"
  <2>1. mode_flags' = {}
    BY <1>1, <1>9 DEF Handle, ac_reset
  <2>2. \A flag \in Flags : About(c, flag)
    BY <1>9 DEF About
  <2> QED
    BY <1>2, <1>5, <1>9, <2>1, <2>2
<1> QED
  BY <1>3, <1>6, <1>7, <1>8, <1>9, CommandIs

LEMMA ChildModes ==
    ASSUME ModesHold, child_request
    PROVE  /\ ModesHold' /\ Len(commands)' = Len(commands) + 1
           /\ \A i \in 1 .. Len(commands) : commands'[i] = commands[i]
<1>1. /\ \E c \in Commands : commands' = Append(commands, c)
      /\ UNCHANGED <<handled, mode_flags>>
  BY DEF child_request, terminal
<1>2. /\ commands \in Seq(Commands) /\ Len(commands) \in Nat /\ handled \in 0 .. Len(commands)
      /\ mode_flags \subseteq Flags
  BY LenProperties DEF ModesHold
<1>3. /\ commands' \in Seq(Commands) /\ Len(commands)' = Len(commands) + 1
      /\ \A i \in 1 .. Len(commands) : commands'[i] = commands[i]
  BY <1>1, <1>2, AppendProperties
<1>4. \A flag : SetIn(commands', flag, handled) <=> SetIn(commands, flag, handled)
  <2>1. handled \in Nat /\ \A i \in 1 .. handled : commands'[i] = commands[i]
    BY <1>2, <1>3
  <2> QED
    BY <2>1, SetKept
<1>5. ModesHold'
  BY <1>1, <1>2, <1>3, <1>4 DEF ModesHold
<1> QED
  BY <1>3, <1>5

-----------------------------------------------------------------------------
(* What is sent fits the modes of some of the requests; those came after   *)
(* as many questions as there are answers before it.                       *)

AnswersAt(s, i) == {j \in 1 .. i - 1 : s[j] = "[?c"}
AsksAt(requests, n) == {j \in 1 .. n : requests[j].do = "ask"}
Says(requests, b, n) ==
    /\ b \in DOMAIN SaysSet => SetIn(requests, SaysSet[b], n)
    /\ b \in DOMAIN SaysClear => ~SetIn(requests, SaysClear[b], n)
Enough(requests, s, i, n) ==
    Cardinality(AnswersAt(s, i)) <= Cardinality(AsksAt(requests, n))
Fit(requests, s, h) ==
    /\ \A i \in 1 .. Len(s) : \E n \in 0 .. h :
          Enough(requests, s, i, n) /\ Says(requests, s[i], n)
    /\ Enough(requests, s, Len(s) + 1, h)

LEMMA MessageSays ==
    ASSUME NEW t, NEW flags, Message(t, flags)
    PROVE  /\ t \in Seq(Symbols)
           /\ \A k \in 1 .. Len(t) :
                /\ t[k] # "[?c"
                /\ t[k] \in DOMAIN SaysSet => SaysSet[t[k]] \in flags
                /\ t[k] \in DOMAIN SaysClear => SaysClear[t[k]] \notin flags
<1>1. CASE Keyed(t, flags)
  BY <1>1 DEF Keyed, Clean
<1>2. CASE "bracketpaste" \in flags /\ \E x \in Seq(TextBytes) : t = Pasted(x)
  <2>1. PICK x \in Seq(TextBytes) : t = Pasted(x)
    BY <1>2
  <2>2. /\ t \in Seq(Symbols) /\ Len(t) \in Nat
        /\ t[1] = "ESC" /\ t[2] = "[200~" /\ \A k \in 3 .. Len(t) : t[k] \in TextBytes
    BY <2>1, PastedIs
  <2>3. Clean("ESC", flags) /\ \A b \in TextBytes : Clean(b, flags)
    <3>1. \A b \in Chars : Clean(b, flags)
      BY CleanBytes
    <3>2. Clean("ESC", flags) /\ Clean("[201~", flags) /\ Clean("stray", flags)
      BY CleanNames
    <3> QED
      BY <3>1, <3>2 DEF TextBytes, Between
  <2>4. /\ "[200~" # "[?c" /\ "[200~" \notin DOMAIN SaysClear
        /\ SaysSet["[200~"] \in flags
    BY <1>2, SaysAre
  <2>5. ASSUME NEW k \in 1 .. Len(t)
        PROVE  /\ t[k] # "[?c"
               /\ t[k] \in DOMAIN SaysSet => SaysSet[t[k]] \in flags
               /\ t[k] \in DOMAIN SaysClear => SaysClear[t[k]] \notin flags
    <3>1. t[k] = "[200~" \/ Clean(t[k], flags)
      <4>1. k = 1 \/ k = 2 \/ k \in 3 .. Len(t)
        BY <2>2
      <4> QED
        BY <2>2, <2>3, <4>1
    <3>2. CASE t[k] = "[200~"
      BY <2>4, <3>2
    <3>3. CASE Clean(t[k], flags)
      BY <3>3 DEF Clean
    <3> QED
      BY <3>1, <3>2, <3>3
  <2> QED
    BY <2>2, <2>5
<1> QED
  BY <1>1, <1>2 DEF Message

LEMMA Appended ==
    ASSUME NEW S, NEW s \in Seq(S), NEW t \in Seq(S)
    PROVE  /\ Len(s) \in Nat /\ Len(t) \in Nat /\ Len(s \o t) = Len(s) + Len(t)
           /\ \A i \in 1 .. Len(s) : (s \o t)[i] = s[i]
           /\ \A k \in 1 .. Len(t) : (s \o t)[Len(s) + k] = t[k]
<1> DEFINE w == s \o t
<1>1. Len(s) \in Nat /\ Len(t) \in Nat
  BY LenProperties
<1>2. /\ Len(w) = Len(s) + Len(t)
      /\ \A i \in 1 .. Len(s) + Len(t) : w[i] = IF i <= Len(s) THEN s[i] ELSE t[i - Len(s)]
  BY ConcatProperties
<1> HIDE DEF w
<1>3. \A i \in 1 .. Len(s) : w[i] = s[i]
  BY <1>1, <1>2
<1>4. \A k \in 1 .. Len(t) : w[Len(s) + k] = t[k]
  <2> TAKE k \in 1 .. Len(t)
  <2>1. /\ Len(s) + k \in 1 .. Len(s) + Len(t) /\ ~(Len(s) + k <= Len(s))
        /\ (Len(s) + k) - Len(s) = k
    BY <1>1
  <2> QED
    BY <1>2, <2>1
<1> QED
  BY <1>1, <1>2, <1>3, <1>4 DEF w

(* More bytes and more requests leave the counts of the earlier.           *)
LEMMA CountsKept ==
    ASSUME NEW s, NEW w, NEW m \in Nat, \A j \in 1 .. m : w[j] = s[j], NEW i \in 1 .. m + 1
    PROVE  AnswersAt(w, i) = AnswersAt(s, i)
<1>1. \A j \in 1 .. i - 1 : w[j] = s[j]
  OBVIOUS
<1> QED
  BY <1>1 DEF AnswersAt

LEMMA AsksKept ==
    ASSUME NEW c, NEW d, NEW n \in Nat, \A j \in 1 .. n : d[j] = c[j]
    PROVE  AsksAt(d, n) = AsksAt(c, n) /\ \A b : Says(d, b, n) <=> Says(c, b, n)
<1>1. AsksAt(d, n) = AsksAt(c, n)
  BY DEF AsksAt
<1>2. \A flag : SetIn(d, flag, n) <=> SetIn(c, flag, n)
  BY SetKept
<1> QED
  BY <1>1, <1>2 DEF Says

LEMMA AsksFinite ==
    ASSUME NEW c, NEW n \in Nat
    PROVE  IsFiniteSet(AsksAt(c, n)) /\ Cardinality(AsksAt(c, n)) \in Nat
<1>1. IsFiniteSet(1 .. n)
  BY FS_Interval
<1>2. AsksAt(c, n) \in SUBSET (1 .. n)
  BY DEF AsksAt
<1> QED
  BY <1>1, <1>2, FS_Subset, FS_CardinalityType

LEMMA AsksNext ==
    ASSUME NEW c, NEW n \in Nat
    PROVE  /\ c[n + 1].do = "ask" =>
                Cardinality(AsksAt(c, n + 1)) = Cardinality(AsksAt(c, n)) + 1
           /\ Cardinality(AsksAt(c, n)) <= Cardinality(AsksAt(c, n + 1))
<1>1. IsFiniteSet(AsksAt(c, n)) /\ IsFiniteSet(AsksAt(c, n + 1))
  BY AsksFinite
<1>2. ASSUME c[n + 1].do = "ask"
      PROVE  Cardinality(AsksAt(c, n + 1)) = Cardinality(AsksAt(c, n)) + 1
  <2>1. AsksAt(c, n + 1) = AsksAt(c, n) \union {n + 1} /\ n + 1 \notin AsksAt(c, n)
    BY <1>2 DEF AsksAt
  <2> QED
    BY <1>1, <2>1, FS_AddElement
<1>3. AsksAt(c, n) \in SUBSET AsksAt(c, n + 1)
  BY DEF AsksAt
<1> QED
  BY <1>1, <1>2, <1>3, FS_Subset

LEMMA AnswersFinite ==
    ASSUME NEW s, NEW i \in Nat
    PROVE  IsFiniteSet(AnswersAt(s, i)) /\ Cardinality(AnswersAt(s, i)) \in Nat
<1>1. IsFiniteSet(1 .. i - 1)
  BY FS_Interval
<1>2. AnswersAt(s, i) \in SUBSET (1 .. i - 1)
  BY DEF AnswersAt
<1> QED
  BY <1>1, <1>2, FS_Subset, FS_CardinalityType

(* From requests c to d, from bytes s to those and t.                      *)
LEMMA FitGrows ==
    ASSUME NEW s \in Seq(Symbols), NEW t \in Seq(Symbols), NEW w, w = s \o t,
           NEW c, NEW d, NEW g \in Nat, NEW h \in Nat, g <= h,
           \A i \in 1 .. h : d[i] = c[i], Fit(c, s, g),
           \A k \in 1 .. Len(t) : Says(c, t[k], h),
           \A k \in 1 .. Len(t) + 1 : Enough(c, w, Len(s) + k, h)
    PROVE  Fit(d, w, h)
<1> DEFINE m == Len(s)
           n == Len(t)
<1>1. /\ m \in Nat /\ n \in Nat /\ Len(w) = m + n
      /\ \A i \in 1 .. m : w[i] = s[i]
      /\ \A k \in 1 .. n : w[m + k] = t[k]
  BY Appended
<1>2. /\ \A i \in 1 .. m : \E k \in 0 .. g : Enough(c, s, i, k) /\ Says(c, s[i], k)
      /\ \A k \in 1 .. n : Says(c, t[k], h)
      /\ \A k \in 1 .. n + 1 : Enough(c, w, m + k, h)
  BY DEF Fit
<1> HIDE DEF m, n
<1>3. ASSUME NEW k \in 0 .. h
      PROVE  /\ \A i : Enough(d, w, i, k) <=> Enough(c, w, i, k)
             /\ \A b : Says(d, b, k) <=> Says(c, b, k)
  <2>1. k \in Nat /\ \A j \in 1 .. k : d[j] = c[j]
    OBVIOUS
  <2>2. AsksAt(d, k) = AsksAt(c, k) /\ \A b : Says(d, b, k) <=> Says(c, b, k)
    BY <2>1, AsksKept
  <2> QED
    BY <2>2 DEF Enough
<1>4. ASSUME NEW i \in 1 .. m + n
      PROVE  \E k \in 0 .. h : Enough(d, w, i, k) /\ Says(d, w[i], k)
  <2>1. CASE i <= m
    <3>1. i \in 1 .. m
      BY <1>1, <2>1
    <3>2. PICK k \in 0 .. g : Enough(c, s, i, k) /\ Says(c, s[i], k)
      BY <1>2, <3>1
    <3>3. AnswersAt(w, i) = AnswersAt(s, i)
      <4>1. i \in 1 .. m + 1
        BY <1>1, <3>1
      <4> QED
        BY <1>1, <4>1, CountsKept
    <3>4. w[i] = s[i] /\ k \in 0 .. h
      BY <1>1, <3>1
    <3>5. Enough(c, w, i, k) /\ Says(c, w[i], k)
      BY <3>2, <3>3, <3>4 DEF Enough
    <3> QED
      BY <1>3, <3>4, <3>5
  <2>2. CASE i > m
    <3>1. i - m \in 1 .. n /\ i - m \in 1 .. n + 1 /\ m + (i - m) = i
      BY <1>1, <2>2
    <3>2. Enough(c, w, i, h) /\ w[i] = t[i - m] /\ Says(c, t[i - m], h)
      BY <1>1, <1>2, <3>1
    <3>3. h \in 0 .. h
      OBVIOUS
    <3>4. Enough(d, w, i, h) /\ Says(d, w[i], h)
      BY <1>3, <3>2, <3>3
    <3> QED
      BY <3>3, <3>4
  <2> QED
    BY <1>1, <2>1, <2>2
<1>5. Enough(d, w, (m + n) + 1, h)
  <2>1. n + 1 \in 1 .. n + 1 /\ m + (n + 1) = (m + n) + 1 /\ h \in 0 .. h
    BY <1>1
  <2>2. Enough(c, w, (m + n) + 1, h)
    BY <1>2, <2>1
  <2> QED
    BY <1>3, <2>1, <2>2
<1> QED
  BY <1>1, <1>4, <1>5 DEF Fit

LEMMA MessageFit ==
    ASSUME NEW s \in Seq(Symbols), NEW t, NEW flags, Message(t, flags),
           NEW c, NEW h \in Nat, Fit(c, s, h),
           flags \subseteq Flags,
           \A flag \in Flags : flag \in flags <=> SetIn(c, flag, h)
    PROVE  Fit(c, s \o t, h)
<1> DEFINE w == s \o t
           m == Len(s)
           n == Len(t)
<1>1. /\ t \in Seq(Symbols)
      /\ \A k \in 1 .. n :
           /\ t[k] # "[?c"
           /\ t[k] \in DOMAIN SaysSet => SaysSet[t[k]] \in flags
           /\ t[k] \in DOMAIN SaysClear => SaysClear[t[k]] \notin flags
  BY MessageSays
<1>2. /\ m \in Nat /\ n \in Nat /\ Len(w) = m + n
      /\ \A i \in 1 .. m : w[i] = s[i]
      /\ \A k \in 1 .. n : w[m + k] = t[k]
  BY <1>1, Appended
<1>3. \A k \in 1 .. n : Says(c, t[k], h)
  <2> TAKE k \in 1 .. n
  <2>1. ASSUME t[k] \in DOMAIN SaysSet PROVE SetIn(c, SaysSet[t[k]], h)
    BY <1>1, <2>1
  <2>2. ASSUME t[k] \in DOMAIN SaysClear PROVE ~SetIn(c, SaysClear[t[k]], h)
    <3>1. SaysClear[t[k]] \in Flags
      BY <2>2, SaysAre DEF Flags
    <3> QED
      BY <1>1, <2>2, <3>1
  <2> QED
    BY <2>1, <2>2 DEF Says
<1>4. Enough(c, s, m + 1, h)
  BY DEF Fit
<1> HIDE DEF w, m, n
<1>5. \A k \in 1 .. n + 1 : Enough(c, w, m + k, h)
  <2> TAKE k \in 1 .. n + 1
  <2>1. \A j \in 1 .. (m + k) - 1 : w[j] = "[?c" => j \in 1 .. m
    <3> TAKE j \in 1 .. (m + k) - 1
    <3>1. CASE j <= m
      BY <1>2, <3>1
    <3>2. CASE j > m
      <4>1. j - m \in 1 .. n /\ m + (j - m) = j
        BY <1>2, <3>2
      <4>2. w[j] = t[j - m]
        BY <1>2, <4>1
      <4>3. t[j - m] # "[?c"
        BY <1>1, <4>1
      <4> QED
        BY <4>2, <4>3
    <3> QED
      BY <1>2, <3>1, <3>2
  <2>2. \A j \in 1 .. m : j \in 1 .. (m + k) - 1 /\ j \in 1 .. (m + 1) - 1
    BY <1>2
  <2>3. \A j \in 1 .. (m + 1) - 1 : j \in 1 .. m
    BY <1>2
  <2>4. AnswersAt(w, m + k) = AnswersAt(s, m + 1)
    BY <1>2, <2>1, <2>2, <2>3 DEF AnswersAt
  <2> QED
    BY <1>4, <2>4 DEF Enough
<1>6. Fit(c, w, h)
  <2>1. w = s \o t /\ h <= h /\ \A i \in 1 .. h : c[i] = c[i]
    BY DEF w
  <2> QED
    BY <1>1, <1>3, <1>5, <2>1, FitGrows DEF m, n
<1> QED
  BY <1>6 DEF w

LEMMA ReplyFit ==
    ASSUME NEW s \in Seq(Symbols), NEW c, NEW h \in Nat, Fit(c, s, h),
           c[h + 1].do = "ask"
    PROVE  Fit(c, s \o Reply, h + 1)
<1>0. PICK t : t = Reply
  OBVIOUS
<1> DEFINE w == s \o t
           m == Len(s)
<1>1. t \in Seq(Symbols) /\ Len(t) = 2 /\ t[1] = "ESC" /\ t[2] = "[?c"
  BY <1>0, SymbolsHave, Pairs DEF Reply
<1>2. /\ m \in Nat /\ Len(w) = m + 2
      /\ \A i \in 1 .. m : w[i] = s[i]
      /\ w[m + 1] = "ESC" /\ w[m + 2] = "[?c"
  <2>1. /\ m \in Nat /\ Len(w) = m + Len(t)
        /\ \A i \in 1 .. m : w[i] = s[i]
        /\ \A k \in 1 .. Len(t) : w[m + k] = t[k]
    BY <1>1, Appended
  <2> HIDE DEF w, m
  <2> QED
    BY <1>1, <2>1
<1> HIDE DEF w, m
<1>3. \A k \in 1 .. Len(t) : Says(c, t[k], h + 1)
  <2>1. /\ {"ESC", "[?c"} \intersect DOMAIN SaysSet = {}
        /\ {"ESC", "[?c"} \intersect DOMAIN SaysClear = {}
    BY SaysAre
  <2>2. \A k \in 1 .. Len(t) : t[k] \in {"ESC", "[?c"}
    <3>1. \A k \in 1 .. 2 : k = 1 \/ k = 2
      OBVIOUS
    <3> QED
      BY <1>1, <3>1
  <2> QED
    BY <2>1, <2>2 DEF Says
<1> DEFINE old == AnswersAt(s, m + 1)
<1>4. Cardinality(old) <= Cardinality(AsksAt(c, h))
  BY DEF Fit, Enough, m
<1>5. AnswersAt(w, m + 1) = old /\ AnswersAt(w, m + 2) = old
  <2>1. m + 1 \in 1 .. m + 1
    BY <1>2
  <2>2. AnswersAt(w, m + 1) = old
    BY <1>2, <2>1, CountsKept
  <2>3. AnswersAt(w, m + 2) = AnswersAt(w, m + 1)
    <3>1. \A j \in 1 .. (m + 2) - 1 : w[j] = "[?c" => j \in 1 .. (m + 1) - 1
      BY <1>2
    <3>2. \A j \in 1 .. (m + 1) - 1 : j \in 1 .. (m + 2) - 1
      BY <1>2
    <3> QED
      BY <3>1, <3>2 DEF AnswersAt
  <2> QED
    BY <2>2, <2>3
<1>6. AnswersAt(w, m + 3) = old \union {m + 2} /\ m + 2 \notin old
  <2>1. \A j : j \in 1 .. (m + 3) - 1 <=> j \in 1 .. (m + 2) - 1 \/ j = m + 2
    BY <1>2
  <2>2. AnswersAt(w, m + 3) = AnswersAt(w, m + 2) \union {m + 2}
    BY <1>2, <2>1 DEF AnswersAt
  <2>3. m + 2 \notin AnswersAt(w, m + 2)
    BY <1>2 DEF AnswersAt
  <2> QED
    BY <1>5, <2>2, <2>3
<1>7. IsFiniteSet(old) /\ Cardinality(old) \in Nat
  BY <1>2, AnswersFinite
<1> HIDE DEF old
<1>8. /\ Cardinality(AsksAt(c, h)) \in Nat
      /\ Cardinality(AsksAt(c, h + 1)) = Cardinality(AsksAt(c, h)) + 1
  BY AsksFinite, AsksNext
<1>9. Cardinality(AnswersAt(w, m + 3)) = Cardinality(old) + 1
  BY <1>6, <1>7, FS_AddElement
<1>10. Enough(c, w, m + 1, h + 1) /\ Enough(c, w, m + 2, h + 1) /\ Enough(c, w, m + 3, h + 1)
  BY <1>4, <1>5, <1>7, <1>8, <1>9 DEF Enough
<1>11. \A k \in 1 .. Len(t) + 1 : Enough(c, w, m + k, h + 1)
  <2>1. \A k \in 1 .. Len(t) + 1 : k = 1 \/ k = 2 \/ k = 3
    BY <1>1
  <2> QED
    BY <1>10, <2>1
<1>12. Fit(c, w, h + 1)
  <2>1. /\ w = s \o t /\ h <= h + 1 /\ h + 1 \in Nat
        /\ \A i \in 1 .. h + 1 : c[i] = c[i]
    BY DEF w
  <2> QED
    BY <1>1, <1>3, <1>11, <2>1, FitGrows DEF m
<1> QED
  BY <1>0, <1>12 DEF w

LEMMA QuietFit ==
    ASSUME NEW s \in Seq(Symbols), NEW c, NEW d, NEW g \in Nat, NEW h \in {g, g + 1},
           \A i \in 1 .. h : d[i] = c[i], Fit(c, s, g)
    PROVE  Fit(d, s, h)
<1> DEFINE t == <<>>
           m == Len(s)
<1>1. t \in Seq(Symbols) /\ Len(t) = 0
  BY EmptySeq
<1>2. s = s \o t
  BY ConcatEmptySeq
<1>3. m \in Nat
  BY LenProperties
<1> HIDE DEF t
<1>4. Enough(c, s, m + 1, g)
  BY DEF Fit
<1> HIDE DEF m
<1>5. Enough(c, s, m + 1, h)
  <2>1. CASE h = g
    BY <1>4, <2>1
  <2>2. CASE h = g + 1
    <3>1. /\ Cardinality(AnswersAt(s, m + 1)) \in Nat
          /\ Cardinality(AsksAt(c, g)) \in Nat /\ Cardinality(AsksAt(c, g + 1)) \in Nat
          /\ Cardinality(AsksAt(c, g)) <= Cardinality(AsksAt(c, g + 1))
      BY <1>3, AnswersFinite, AsksFinite, AsksNext
    <3> QED
      BY <1>4, <2>2, <3>1 DEF Enough
  <2> QED
    BY <2>1, <2>2
<1>6. \A k \in 1 .. Len(t) + 1 : Enough(c, s, m + k, h)
  <2>1. \A k \in 1 .. Len(t) + 1 : k = 1
    BY <1>1
  <2> QED
    BY <1>5, <2>1
<1>7. \A k \in 1 .. Len(t) : Says(c, t[k], h)
  BY <1>1
<1>8. h \in Nat /\ g <= h
  OBVIOUS
<1> QED
  BY <1>1, <1>2, <1>6, <1>7, <1>8, FitGrows DEF m

-----------------------------------------------------------------------------
(* A paste stays apart.                                                    *)

(* An opening bracket has its closing one behind it, with only what is     *)
(* pasted between.                                                         *)
OpenIn(s, i, j) == s[i] = "[200~" /\ \A k \in i + 1 .. j : s[k] # "[201~"
Apart(s) ==
    /\ \A j \in 1 .. Len(s) : (\E i \in 1 .. j - 1 : OpenIn(s, i, j)) =>
          s[j] \in Between
    /\ \A i \in 1 .. Len(s) : ~OpenIn(s, i, Len(s))

(* What a message has: no opening bracket, or a paste.                     *)
LEMMA MessageApart ==
    ASSUME NEW t, NEW flags, Message(t, flags) \/ t = Reply
    PROVE  /\ t \in Seq(Symbols)
           /\ \/ \A k \in 1 .. Len(t) : t[k] # "[200~"
              \/ \E x \in Seq(TextBytes) : t = Pasted(x)
<1>1. CASE Keyed(t, flags)
  BY <1>1 DEF Keyed, Clean
<1>2. CASE \E x \in Seq(TextBytes) : t = Pasted(x)
  BY <1>2, PastedIs
<1>3. CASE t = Reply
  <2>1. t \in Seq(Symbols) /\ Len(t) = 2 /\ t[1] = "ESC" /\ t[2] = "[?c"
    BY <1>3, SymbolsHave, Pairs DEF Reply
  <2>2. \A k \in 1 .. 2 : k = 1 \/ k = 2
    OBVIOUS
  <2>3. "ESC" # "[200~" /\ "[?c" # "[200~"
    OBVIOUS
  <2> QED
    BY <2>1, <2>2, <2>3
<1> QED
  BY <1>1, <1>2, <1>3 DEF Message

LEMMA ApartGrows ==
    ASSUME NEW s \in Seq(Symbols), Apart(s), NEW t, NEW flags,
           Message(t, flags) \/ t = Reply
    PROVE  Apart(s \o t)
<1> DEFINE w == s \o t
           m == Len(s)
           n == Len(t)
<1>1. /\ t \in Seq(Symbols)
      /\ \/ \A k \in 1 .. n : t[k] # "[200~"
         \/ \E x \in Seq(TextBytes) : t = Pasted(x)
  BY MessageApart
<1>2. /\ m \in Nat /\ n \in Nat /\ Len(w) = m + n
      /\ \A i \in 1 .. m : w[i] = s[i]
      /\ \A k \in 1 .. n : w[m + k] = t[k]
  BY <1>1, Appended
<1>3. /\ \A j \in 1 .. m : (\E i \in 1 .. j - 1 : OpenIn(s, i, j)) => s[j] \in Between
      /\ \A i \in 1 .. m : ~OpenIn(s, i, m)
  BY DEF Apart
<1> HIDE DEF w, m, n
<1>4. ASSUME NEW i \in 1 .. m, NEW j \in 1 .. m, OpenIn(w, i, j)
      PROVE  OpenIn(s, i, j)
  <2>1. \A k \in i + 1 .. j : w[k] = s[k]
    BY <1>2
  <2> QED
    BY <1>2, <1>4, <2>1 DEF OpenIn
<1>5. ASSUME NEW i \in 1 .. m, NEW j \in m .. m + n PROVE ~OpenIn(w, i, j)
  <2> SUFFICES ASSUME OpenIn(w, i, j) PROVE FALSE
    OBVIOUS
  <2>1. OpenIn(w, i, m)
    <3>1. \A k \in i + 1 .. m : k \in i + 1 .. j
      BY <1>2
    <3> QED
      BY <3>1 DEF OpenIn
  <2>2. m \in 1 .. m
    BY <1>2
  <2> QED
    BY <1>3, <1>4, <2>1, <2>2
(* An opening bracket in what comes is the second byte of a paste.         *)
<1>6. ASSUME NEW i \in m + 1 .. m + n, w[i] = "[200~"
      PROVE  /\ i = m + 2 /\ n >= 4 /\ w[m + n] = "[201~"
             /\ \A j \in i + 1 .. m + n : w[j] \in TextBytes
  <2>1. i - m \in 1 .. n /\ m + (i - m) = i
    BY <1>2
  <2>2. t[i - m] = "[200~"
    BY <1>2, <1>6, <2>1
  <2>3. PICK x \in Seq(TextBytes) : t = Pasted(x)
    BY <1>1, <2>1, <2>2
  <2>4. /\ n = Len(x) + 4 /\ Len(x) \in Nat /\ t[1] = "ESC" /\ t[2] = "[200~"
        /\ t[n] = "[201~" /\ \A k \in 3 .. n : t[k] \in TextBytes
    BY <2>3, PastedIs DEF n
  <2>5. "[200~" \notin TextBytes
    BY CharsAssumption DEF TextBytes, Between
  <2>6. i - m = 2
    <3>1. i - m = 1 \/ i - m = 2 \/ i - m \in 3 .. n
      BY <1>2, <2>1
    <3>2. i - m # 1
      BY <2>2, <2>4
    <3> QED
      BY <2>2, <2>4, <2>5, <3>1, <3>2
  <2>7. w[m + n] = t[n]
    <3>1. n \in 1 .. n
      BY <1>2, <2>4
    <3> QED
      BY <1>2, <3>1
  <2>8. ASSUME NEW j \in i + 1 .. m + n PROVE w[j] \in TextBytes
    <3>1. j - m \in 3 .. n /\ j - m \in 1 .. n /\ m + (j - m) = j
      BY <1>2, <2>6
    <3> QED
      BY <1>2, <2>4, <3>1
  <2> QED
    BY <1>2, <2>1, <2>4, <2>6, <2>7, <2>8
<1>7. ASSUME NEW j \in 1 .. m + n, NEW i \in 1 .. j - 1, OpenIn(w, i, j)
      PROVE  w[j] \in Between
  <2>1. CASE j <= m
    <3>1. i \in 1 .. m /\ j \in 1 .. m
      BY <1>2, <2>1
    <3> QED
      BY <1>2, <1>3, <1>4, <1>7, <3>1
  <2>2. CASE j > m /\ i <= m
    <3>1. i \in 1 .. m /\ j \in m .. m + n
      BY <1>2, <2>2
    <3> QED
      BY <1>5, <1>7, <3>1
  <2>3. CASE i > m
    <3>1. i \in m + 1 .. m + n /\ w[i] = "[200~"
      BY <1>2, <1>7, <2>3 DEF OpenIn
    <3>2. w[j] \in TextBytes
      <4>1. j \in i + 1 .. m + n
        BY <1>2, <3>1
      <4> QED
        BY <1>6, <3>1, <4>1
    <3>3. w[j] # "[201~"
      <4>1. j \in i + 1 .. j
        BY <1>2, <3>1
      <4> QED
        BY <1>7, <4>1 DEF OpenIn
    <3> QED
      BY <3>2, <3>3 DEF TextBytes
  <2> QED
    BY <1>2, <2>1, <2>2, <2>3
<1>8. ASSUME NEW i \in 1 .. m + n, OpenIn(w, i, m + n) PROVE FALSE
  <2>1. CASE i <= m
    <3>1. i \in 1 .. m /\ m + n \in m .. m + n
      BY <1>2, <2>1
    <3> QED
      BY <1>5, <1>8, <3>1
  <2>2. CASE i > m
    <3>1. i \in m + 1 .. m + n /\ w[i] = "[200~"
      BY <1>2, <1>8, <2>2 DEF OpenIn
    <3>2. i = m + 2 /\ n >= 4 /\ w[m + n] = "[201~"
      BY <1>6, <3>1
    <3>3. m + n \in i + 1 .. m + n
      BY <1>2, <3>2
    <3> QED
      BY <1>8, <3>2, <3>3 DEF OpenIn
  <2> QED
    BY <1>2, <2>1, <2>2
<1>9. Apart(w)
  BY <1>2, <1>7, <1>8 DEF Apart
<1> QED
  BY <1>9 DEF w

-----------------------------------------------------------------------------
(* The invariant of Input.                                                 *)

InputInv ==
    /\ Wired /\ Ordered
    /\ ModesHold /\ Fit(commands, given, handled)
    /\ Apart(given)

LEMMA InputStarts == InputInit => InputInv
<1> SUFFICES ASSUME InputInit PROVE InputInv
  OBVIOUS
<1> USE DEF InputInit
<1>1. <<>> \in Seq(Symbols) /\ <<>> \in Seq(Commands) /\ <<>> \in Seq(Seq(Symbols))
      /\ Len(<<>>) = 0
  BY EmptySeq
<1>2. Wired
  BY <1>1, CapacityAssumption DEF Wired
<1>3. Ordered
  <2>1. <<>> \o <<>> = <<>>
    BY <1>1, ConcatEmptySeq
  <2> QED
    BY <2>1, FlattenNone DEF Ordered, Stream
<1>4. ModesHold
  <2>1. \A flag : AboutIn(commands, flag, 0) = {}
    BY DEF AboutIn
  <2> QED
    BY <1>1, <2>1 DEF ModesHold, SetIn
<1>5. Fit(<<>>, <<>>, 0)
  <2>1. AnswersAt(<<>>, 0 + 1) = {} /\ AsksAt(<<>>, 0) = {}
    BY DEF AnswersAt, AsksAt
  <2>2. Enough(<<>>, <<>>, 0 + 1, 0)
    <3>1. Cardinality({}) = 0 /\ 0 <= 0
      BY FS_EmptySet
    <3>2. Cardinality({}) <= Cardinality({})
      BY <3>1
    <3> QED
      BY <2>1, <3>2, Zenon DEF Enough
  <2> QED
    BY <1>1, <2>2 DEF Fit
<1>6. Apart(given)
  BY <1>1 DEF Apart
<1> QED
  BY <1>2, <1>3, <1>4, <1>5, <1>6 DEF InputInv

(* What a message, given to the idle thread, leaves of it.                 *)
LEMMA GivenInv ==
    ASSUME InputInv, Idle, NEW t, Sent(t), Message(t, mode_flags) \/ t = Reply,
           UNCHANGED <<received, pty, refused, commands>>
    PROVE  /\ Wired' /\ Ordered' /\ Apart(given') /\ given' = given \o t
           /\ Message(t, mode_flags) => Fit(commands', given', handled)
<1>1. /\ Wired' /\ Ordered' /\ t \in Seq(Symbols) /\ given' = given \o t
      /\ given \in Seq(Symbols)
  <2>1. Wired /\ Ordered /\ given \in Seq(Symbols)
    BY DEF InputInv, Wired
  <2> QED
    BY <2>1, SentOrdered
<1>2. Apart(given \o t)
  <2>1. Apart(given)
    BY DEF InputInv
  <2> QED
    BY <1>1, <2>1, ApartGrows
<1>3. ASSUME Message(t, mode_flags) PROVE Fit(commands, given \o t, handled)
  <2>1. /\ Fit(commands, given, handled) /\ handled \in Nat /\ mode_flags \subseteq Flags
        /\ \A flag \in Flags : flag \in mode_flags <=> SetIn(commands, flag, handled)
    BY DEF InputInv, ModesHold
  <2> QED
    BY <1>1, <1>3, <2>1, MessageFit
<1> QED
  BY <1>1, <1>2, <1>3

LEMMA RequestInv ==
    ASSUME InputInv, process_request PROVE InputInv'
<1> DEFINE c == commands[handled + 1]
<1>1. /\ Idle /\ handled' = handled + 1 /\ Handle(c)
      /\ handled < Len(commands)
      /\ UNCHANGED <<received, pty, refused, commands>>
  BY DEF process_request, child
<1>2. ModesHold /\ ModesHold'
  BY RequestModes DEF InputInv
<1>3. /\ handled \in Nat /\ c \in Commands /\ given \in Seq(Symbols)
      /\ Fit(commands, given, handled)
  <2>1. commands \in Seq(Commands) /\ handled \in Nat
    BY <1>2 DEF ModesHold
  <2>2. handled + 1 \in 1 .. Len(commands)
    BY <1>1, <2>1, LenProperties
  <2> QED
    BY <2>1, <2>2, ElementOfSeq DEF InputInv, Wired
<1>4. CASE c.do = "ask"
  <2>1. Sent(Reply)
    BY <1>1, <1>4, ReplySent DEF Handle
  <2>2. /\ Wired' /\ Ordered' /\ Apart(given') /\ given' = given \o Reply
    BY <1>1, <2>1, GivenInv
  <2>3. Fit(commands, given \o Reply, handled + 1)
    BY <1>3, <1>4, ReplyFit
  <2> QED
    BY <1>1, <1>2, <2>2, <2>3 DEF InputInv
<1>5. CASE c.do # "ask"
  <2>1. UNCHANGED <<sending, given>>
    <3>1. c.do = "set" \/ c.do = "clear" \/ c.do = "reset"
      BY <1>3, <1>5, CommandIs
    <3> HIDE DEF c
    <3> QED
      BY <1>1, <3>1 DEF Handle, ac_set_mode, ac_clear_mode, ac_reset, Unsent, wire
  <2>2. Wired' /\ Ordered' /\ Apart(given')
    BY <1>1, <2>1 DEF InputInv, Wired, Ordered, Stream, Apart, OpenIn
  <2>3. Fit(commands, given, handled + 1)
    <3>1. handled + 1 \in {handled, handled + 1}
          /\ \A i \in 1 .. handled + 1 : commands[i] = commands[i]
      OBVIOUS
    <3> QED
      BY <1>3, <3>1, QuietFit
  <2> QED
    BY <1>1, <1>2, <2>1, <2>2, <2>3 DEF InputInv
<1> QED
  BY <1>4, <1>5

LEMMA ChildInv ==
    ASSUME InputInv, child_request PROVE InputInv'
<1>1. UNCHANGED <<received, handled, mode_flags, sending, given, pty, refused>>
  BY DEF child_request, terminal, wire
<1>2. /\ ModesHold' /\ \A i \in 1 .. Len(commands) : commands'[i] = commands[i]
  BY ChildModes DEF InputInv
<1>3. Wired' /\ Ordered' /\ Apart(given')
  BY <1>1 DEF InputInv, Wired, Ordered, Stream, Apart, OpenIn
<1>4. Fit(commands', given, handled)
  <2>1. /\ given \in Seq(Symbols) /\ handled \in Nat /\ Fit(commands, given, handled)
        /\ handled \in {handled, handled + 1}
        /\ \A i \in 1 .. handled : commands'[i] = commands[i]
    <3>1. commands \in Seq(Commands) /\ handled \in 0 .. Len(commands)
      BY DEF InputInv, ModesHold
    <3>2. Len(commands) \in Nat
      BY <3>1, LenProperties
    <3>3. \A i \in 1 .. handled : i \in 1 .. Len(commands)
      BY <3>1, <3>2
    <3> QED
      BY <1>2, <3>1, <3>3 DEF InputInv, Wired
  <2> QED
    BY <2>1, QuietFit
<1> QED
  BY <1>1, <1>2, <1>3, <1>4 DEF InputInv

LEMMA InputSteps ==
    ASSUME InputInv, [InputNext]_inputVars PROVE InputInv'
<1>1. ASSUME Wired', Ordered', given' = given, UNCHANGED <<commands, terminal>>
      PROVE  InputInv'
  BY <1>1 DEF InputInv, terminal, ModesHold
<1>2. CASE Write
  BY <1>1, <1>2, WriteOrdered DEF InputInv, Write, child
<1>3. CASE Refused
  BY <1>1, <1>3, RefusedOrdered DEF InputInv, Refused, child
<1>9. CASE Nothing
  BY <1>1, <1>9, NothingOrdered DEF InputInv, Nothing, child
<1>4. CASE process_request
  BY <1>4, RequestInv
<1>5. CASE child_request
  BY <1>5, ChildInv
<1>6. CASE child_read
  BY <1>1, <1>6, ReadOrdered DEF InputInv, child_read
<1>7. CASE te_handle_button \/ te_handle_keypress \/ te_paste_text
  <2>1. PICK t : Sent(t) /\ Message(t, mode_flags)
    BY <1>7, EventSends
  <2>2. Idle /\ UNCHANGED <<received, pty, refused, commands, handled, mode_flags>>
    BY <1>7, EventSends
  <2>3. Wired' /\ Ordered' /\ Apart(given') /\ Fit(commands', given', handled)
    BY <2>1, <2>2, GivenInv
  <2>4. ModesHold'
    BY <2>2 DEF InputInv, ModesHold
  <2> QED
    BY <2>2, <2>3, <2>4 DEF InputInv
<1>8. CASE UNCHANGED inputVars
  <2>1. UNCHANGED <<received, commands, handled, mode_flags, sending, given, pty, refused>>
    BY <1>8 DEF inputVars, child, terminal, wire
  <2>2. Wired' /\ Ordered'
    BY <2>1 DEF InputInv, Wired, Ordered, Stream
  <2> QED
    BY <1>1, <2>1, <2>2 DEF terminal
<1> QED
  BY <1>2, <1>3, <1>4, <1>5, <1>6, <1>7, <1>8, <1>9 DEF InputNext, toSlave

LEMMA InputAlways == InputSpec => []InputInv
<1>1. InputInv /\ [InputNext]_inputVars => InputInv'
  BY InputSteps
<1> QED
  BY InputStarts, <1>1, PTL DEF InputSpec

(* A handler has three calls to write at most, and no more is in the       *)
(* pseudo terminal than it holds.                                          *)
THEOREM InputTyped == InputSpec => []InputTypeOK
<1>1. InputInv => InputTypeOK
  BY DEF InputInv, Wired, ModesHold, InputTypeOK
<1> QED
  BY <1>1, InputAlways, PTL

(* Keys, pastes and answers reach the child in the order they were made,   *)
(* whatever short writes cut them; only refused writes leave bytes out.    *)
THEOREM ArrivesAlwaysInOrder == InputSpec => []ArrivesInOrder
<1>1. InputInv => ArrivesInOrder
  <2> SUFFICES ASSUME InputInv PROVE ArrivesInOrder
    OBVIOUS
  <2> DEFINE a == received \o pty
             f == FlattenSeq(sending)
  <2>1. a \in Seq(Symbols) /\ f \in Seq(Symbols) /\ given \in Seq(Symbols)
    <3>1. received \in Seq(Symbols) /\ pty \in Seq(Symbols)
      BY DEF InputInv, Wired
    <3>2. a \in Seq(Symbols)
      BY <3>1, Concats
    <3>3. f \in Seq(Symbols)
      BY FlattenTyped DEF InputInv, Wired
    <3> QED
      BY <3>2, <3>3 DEF InputInv, Wired
  <2>2. Stream = a \o f
    BY DEF Stream
  <2> HIDE DEF a, f
  <2>3. CASE refused
    <3>1. InOrder(a, Stream)
      BY <2>1, <2>2, InOrderStart
    <3>2. InOrder(Stream, given)
      BY <2>3 DEF InputInv, Ordered
    <3>3. InOrder(a, given)
      BY <3>1, <3>2, InOrderTwice
    <3>4. Subsequence(a, given)
      BY <2>1, <3>3, PartFound
    <3> QED
      BY <2>3, <3>4 DEF ArrivesInOrder, a
  <2>4. CASE ~refused
    BY <2>2, <2>4 DEF InputInv, Ordered, ArrivesInOrder, a, f
  <2> QED
    BY <2>3, <2>4
<1> QED
  BY <1>1, InputAlways, PTL

(* What was read stands in what was given, in its order.                   *)
LEMMA ReceivedInOrder ==
    ASSUME InputInv PROVE InOrder(received, given)
<1> DEFINE f == FlattenSeq(sending)
           u == pty \o f
<1>1. /\ received \in Seq(Symbols) /\ pty \in Seq(Symbols) /\ f \in Seq(Symbols)
  BY FlattenTyped DEF InputInv, Wired
<1> HIDE DEF f
<1>2. u \in Seq(Symbols) /\ (received \o pty) \o f = received \o u
  BY <1>1, Concats
<1>3. Stream = received \o u
  BY <1>2 DEF Stream, f
<1> HIDE DEF u
<1>4. InOrder(received, Stream)
  BY <1>1, <1>2, <1>3, InOrderStart
<1>5. CASE refused
  BY <1>4, <1>5, InOrderTwice DEF InputInv, Ordered
<1>6. CASE ~refused
  BY <1>4, <1>6 DEF InputInv, Ordered
<1> QED
  BY <1>5, <1>6

(* At least the answers before a byte of the part are before it in whole.  *)
LEMMA AnswersEmbed ==
    ASSUME NEW s, NEW t, NEW f, Embeds(f, s, t), Len(s) \in Nat, Len(t) \in Nat,
           NEW i \in 1 .. Len(s)
    PROVE  Cardinality(AnswersAt(s, i)) <= Cardinality(AnswersAt(t, f[i]))
<1> DEFINE A == AnswersAt(s, i)
           B == AnswersAt(t, f[i])
           g == [j \in A |-> f[j]]
<1>1. /\ \A j \in 1 .. Len(s) : f[j] \in 1 .. Len(t) /\ s[j] = t[f[j]]
      /\ \A j, k \in 1 .. Len(s) : j < k => f[j] < f[k]
  BY DEF Embeds
<1>2. \A j \in A : j \in 1 .. Len(s) /\ j < i /\ s[j] = "[?c"
  BY DEF AnswersAt
<1>3. \A j \in A : f[j] \in B
  <2> TAKE j \in A
  <2>1. f[j] \in 1 .. Len(t) /\ f[i] \in 1 .. Len(t) /\ f[j] < f[i] /\ t[f[j]] = "[?c"
    BY <1>1, <1>2
  <2>2. f[j] \in 1 .. f[i] - 1
    BY <2>1
  <2> QED
    BY <2>1, <2>2 DEF AnswersAt
<1>4. \A j, k \in A : f[j] = f[k] => j = k
  <2> TAKE j, k \in A
  <2>1. j \in 1 .. Len(s) /\ k \in 1 .. Len(s)
    BY <1>2
  <2>2. f[j] \in Int /\ f[k] \in Int /\ (j < k => f[j] < f[k]) /\ (k < j => f[k] < f[j])
    BY <1>1, <2>1
  <2> QED
    BY <2>1, <2>2
<1>5. IsFiniteSet(B)
  <2>1. f[i] \in Nat
    BY <1>1
  <2> QED
    BY <2>1, AnswersFinite
<1> HIDE DEF A, B
<1>6. g \in Injection(A, B)
  BY <1>3, <1>4 DEF Injection, IsInjective
<1> HIDE DEF g
<1>7. Cardinality(A) <= Cardinality(B)
  BY <1>5, <1>6, FS_Injection
<1> QED
  BY <1>7 DEF A, B

(* A child that has read the answer to what it asked after it changed a    *)
(* mode reads nothing from then on that was encoded for its modes before.  *)
THEOREM KeysAlwaysFollow == InputSpec => []KeysFollowModes
<1>1. InputInv => KeysFollowModes
  <2> SUFFICES ASSUME InputInv, NEW i \in 1 .. Len(received)
               PROVE  LET answers == Cardinality({j \in 1 .. i - 1 : received[j] = "[?c"})
                          asked == {n \in 0 .. Len(commands) :
                                      answers <= Cardinality({j \in 1 .. n :
                                                                commands[j].do = "ask"})}
                      IN  /\ received[i] \in DOMAIN SaysSet =>
                               \E n \in asked : IsSet(SaysSet[received[i]], n)
                          /\ received[i] \in DOMAIN SaysClear =>
                               \E n \in asked : ~IsSet(SaysClear[received[i]], n)
    BY Zenon DEF KeysFollowModes
  <2>1. PICK f : Embeds(f, received, given)
    BY ReceivedInOrder DEF InOrder
  <2>2. Len(received) \in Nat /\ Len(given) \in Nat /\ handled \in 0 .. Len(commands)
        /\ Len(commands) \in Nat
    BY LenProperties DEF InputInv, Wired, ModesHold
  <2>3. f[i] \in 1 .. Len(given) /\ received[i] = given[f[i]]
    BY <2>1 DEF Embeds
  <2>4. PICK n \in 0 .. handled :
             Enough(commands, given, f[i], n) /\ Says(commands, given[f[i]], n)
    BY <2>3 DEF InputInv, Fit
  <2>5. Cardinality(AnswersAt(received, i)) <= Cardinality(AnswersAt(given, f[i]))
    BY <2>1, <2>2, AnswersEmbed
  <2>6. n \in 0 .. Len(commands)
    BY <2>2
  <2>7. Cardinality(AnswersAt(received, i)) <= Cardinality(AsksAt(commands, n))
    <3>1. /\ Cardinality(AnswersAt(received, i)) \in Nat
          /\ Cardinality(AnswersAt(given, f[i])) \in Nat
          /\ Cardinality(AsksAt(commands, n)) \in Nat
      BY <2>3, <2>6, AnswersFinite, AsksFinite
    <3> QED
      BY <2>4, <2>5, <3>1 DEF Enough
  <2>8. /\ received[i] \in DOMAIN SaysSet => IsSet(SaysSet[received[i]], n)
        /\ received[i] \in DOMAIN SaysClear => ~IsSet(SaysClear[received[i]], n)
    BY <2>3, <2>4, IsSetIs DEF Says
  <2> QED
    BY <2>6, <2>7, <2>8, Zenon DEF AnswersAt, AsksAt
<1> QED
  BY <1>1, InputAlways, PTL

(* As long as nothing was refused, all the child gets between the brackets *)
(* of a paste was pasted.                                                  *)
THEOREM PastesStayApart == InputSpec => []PasteApart
<1>1. InputInv => PasteApart
  <2> SUFFICES ASSUME InputInv, ~refused PROVE PasteApart
    BY DEF PasteApart
  <2> DEFINE a == received \o pty
             f == FlattenSeq(sending)
  <2>1. a \in Seq(Symbols) /\ f \in Seq(Symbols)
    <3>1. received \in Seq(Symbols) /\ pty \in Seq(Symbols)
      BY DEF InputInv, Wired
    <3>2. f \in Seq(Symbols)
      BY FlattenTyped DEF InputInv, Wired
    <3> QED
      BY <3>1, <3>2, Concats
  <2>2. given = a \o f
    BY DEF InputInv, Ordered, Stream
  <2>3. Apart(given)
    BY DEF InputInv
  <2> HIDE DEF a, f
  <2>4. /\ Len(a) \in Nat /\ Len(f) \in Nat /\ Len(given) = Len(a) + Len(f)
        /\ \A i \in 1 .. Len(a) : given[i] = a[i]
    BY <2>1, <2>2, Appended
  <2>5. ASSUME NEW j \in 1 .. Len(a), NEW i \in 1 .. j - 1, OpenIn(a, i, j)
        PROVE  a[j] \in Between
    <3>1. i \in 1 .. Len(a) /\ j \in 1 .. Len(given)
      BY <2>4
    <3>2. \A k \in i + 1 .. j : k \in 1 .. Len(a)
      BY <2>4
    <3>3. OpenIn(given, i, j)
      BY <2>4, <2>5, <3>1, <3>2 DEF OpenIn
    <3>4. given[j] \in Between
      BY <2>3, <3>1, <3>3 DEF Apart
    <3> QED
      BY <2>4, <3>4
  <2>6. \A j \in 1 .. Len(a) : (\E i \in 1 .. j - 1 : OpenIn(a, i, j)) =>
            a[j] \in Between
    BY <2>5
  <2> QED
    BY <2>6 DEF PasteApart, OpenIn, a, Between
<1> QED
  BY <1>1, InputAlways, PTL
=============================================================================
