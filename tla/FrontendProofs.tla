--------------------------- MODULE FrontendProofs ---------------------------
(***************************************************************************)
(* Theorems about Frontend for every buffer size, delay and child.         *)
(***************************************************************************)
EXTENDS Frontend, SequenceTheorems, WellFoundedInduction, TLAPS

-----------------------------------------------------------------------------
(* The window closes once.                                                 *)

(* The strengthening of RestoredOnce: PtyIO owns the pseudo terminal as    *)
(* long as the window exists, so that each way to close the window         *)
(* restores it, and no way does twice; and no window is made twice.        *)
OwnedWhileOpen ==
    /\ RestoredOnce
    /\ window \in {"none", "open", "closed"}
    /\ window = "open" => _pty = TRUE
    /\ at # "idle" => window = "none"

LEMMA ClosingRestores ==
    ASSUME OwnedWhileOpen, _close \/ EndOfFile
    PROVE  OwnedWhileOpen'
BY DEF OwnedWhileOpen, RestoredOnce, _close, EndOfFile, Readable, Destroyed,
       te_pty_restore, event_childexit

(* A read leaves the window open, or closes it and restores.               *)
LEMMA ReadEither ==
    ASSUME Read
    PROVE  /\ window = "open" /\ at' = at /\ childfds' = childfds
           /\ _pty' = _pty
           /\ \/ UNCHANGED <<child, held, restored, window>>
              \/ te_pty_restore(Destroyed(_pty)) /\ event_childexit("empty")
BY DEF Read, Readable

LEMMA ReadRestores == ASSUME OwnedWhileOpen, Read PROVE OwnedWhileOpen'
BY ReadEither DEF OwnedWhileOpen, RestoredOnce, te_pty_restore, Destroyed,
                  event_childexit

LEMMA StartRestores ==
    ASSUME OwnedWhileOpen, _spawnTerm_cb \/ te_pty_spawn \/ child_setup
    PROVE  OwnedWhileOpen'
<1>1. CASE _spawnTerm_cb \/ Failed \/ fork \/ TermWindow \/ child_setup
  BY <1>1 DEF OwnedWhileOpen, RestoredOnce, _spawnTerm_cb, Failed, fork,
              TermWindow, child_setup, ioVars, ptyVars
<1>2. CASE Succeed \/ fail
  <2>1. at # "idle"
    BY <1>2 DEF Succeed, fail, Gives
  <2> QED
    BY <1>2, <2>1 DEF OwnedWhileOpen, RestoredOnce, Succeed, fail, ioVars
<1> QED
  BY <1>1, <1>2 DEF te_pty_spawn

LEMMA NextRestores == OwnedWhileOpen /\ [Next]_vars => OwnedWhileOpen'
<1> SUFFICES ASSUME OwnedWhileOpen, [Next]_vars PROVE OwnedWhileOpen'
  OBVIOUS
<1>1. CASE _close \/ _fromSlave
  BY <1>1, ClosingRestores, ReadRestores DEF _fromSlave
<1>2. CASE \/ child_write \/ child_exit \/ te_position
           \/ Tick \/ _deferred_update_cb \/ redraw \/ draw
  BY <1>2 DEF child_write, child_exit, te_position, Tick, _deferred_update_cb,
              redraw, draw, OwnedWhileOpen, RestoredOnce, ptyVars, ioVars
<1>3. CASE _spawnTerm_cb \/ te_pty_spawn \/ child_setup
  BY <1>3, StartRestores
<1>4. CASE UNCHANGED vars
  BY <1>4 DEF vars, ptyVars, ioVars, OwnedWhileOpen, RestoredOnce
<1> QED
  BY <1>1, <1>2, <1>3, <1>4 DEF Next

LEMMA AlwaysOwned == Spec => []OwnedWhileOpen
<1>1. Init => OwnedWhileOpen
  BY DEF Init, OwnedWhileOpen, RestoredOnce
<1> QED
  BY <1>1, NextRestores, PTL DEF Spec

(* The pseudo terminal is restored exactly once on every way the window    *)
(* can close, whatever the child writes and whenever it ends: it is never  *)
(* closed and freed twice, and never left open.                            *)
THEOREM PtyRestoredOnce == Spec => []RestoredOnce
<1>1. OwnedWhileOpen => RestoredOnce
  BY DEF OwnedWhileOpen
<1> QED
  BY <1>1, AlwaysOwned, PTL

-----------------------------------------------------------------------------
(* Nothing is leaked.                                                      *)

(* What flterm holds at each step of te_pty_spawn, and what the child has  *)
(* while it is set up.                                                     *)
HeldAt ==
    /\ at \in DOMAIN Gives \union {"fork", "window", "failed", "idle"}
    /\ at = "malloc" => held = {"env"}
    /\ at = "openpt" => held = {"env", "pty"}
    /\ at \in {"grantpt", "unlockpt", "open"} => held = {"env", "pty", "ptm"}
    /\ at = "fork" => held = {"env", "pty", "ptm", "pts"}
    /\ at = "window" => held = {"env", "pty", "ptm"}
    /\ at = "failed" => held = {"env", "err"}
    /\ child = "forked" => childfds = {"ptm", "pts"}

HInv == HeldWhileOpen /\ HeldAt

LEMMA StepsHold == ASSUME HInv, Succeed PROVE HInv'
<1>1. at \in {"malloc", "openpt", "grantpt", "unlockpt", "open"}
  BY DEF Succeed, Gives
<1>2. at' = Following[at] /\ held' = held \union Gives[at]
      /\ child' = child /\ childfds' = childfds
  BY DEF Succeed, slaveVars
<1>3. CASE at = "malloc"
  BY <1>2, <1>3 DEF HInv, HeldAt, HeldWhileOpen, Gives, Following
<1>4. CASE at = "openpt"
  BY <1>2, <1>4 DEF HInv, HeldAt, HeldWhileOpen, Gives, Following
<1>5. CASE at \in {"grantpt", "unlockpt"}
  BY <1>2, <1>5 DEF HInv, HeldAt, HeldWhileOpen, Gives, Following
<1>6. CASE at = "open"
  BY <1>2, <1>6 DEF HInv, HeldAt, HeldWhileOpen, Gives, Following
<1> QED
  BY <1>1, <1>3, <1>4, <1>5, <1>6

LEMMA FailHolds == ASSUME HInv, fail PROVE HInv'
<1>1. at \in {"malloc", "openpt", "grantpt", "unlockpt", "open", "fork"}
  BY DEF fail, Gives
<1>2. held \in {{"env"}, {"env", "pty"}, {"env", "pty", "ptm"},
                {"env", "pty", "ptm", "pts"}}
  BY <1>1 DEF HInv, HeldAt
<1>3. held' = {"env", "err"}
  BY <1>2 DEF fail
<1>4. at' = "failed" /\ child' = child /\ childfds' = childfds
  BY DEF fail, slaveVars
<1> QED
  BY <1>3, <1>4 DEF HInv, HeldAt, HeldWhileOpen

LEMMA StartHolds ==
    ASSUME HInv, OwnedWhileOpen,
           _spawnTerm_cb \/ Failed \/ fork \/ TermWindow \/ child_setup
    PROVE  HInv'
<1>1. CASE _spawnTerm_cb
  BY <1>1 DEF HInv, HeldAt, HeldWhileOpen, _spawnTerm_cb, slaveVars, Gives
<1>2. CASE Failed
  <2>1. held' = {} /\ at' = "idle" /\ window' # "open"
    BY <1>2 DEF Failed, HInv, HeldAt, OwnedWhileOpen
  <2> QED
    BY <1>2, <2>1 DEF Failed, HInv, HeldAt, HeldWhileOpen, slaveVars
<1>3. CASE fork
  <2>1. held' = {"env", "pty", "ptm"} /\ childfds' = {"ptm", "pts"}
    BY <1>3 DEF fork, HInv, HeldAt
  <2> QED
    BY <1>3, <2>1 DEF fork, HInv, HeldAt, HeldWhileOpen
<1>4. CASE TermWindow
  <2>1. held' = {"pty", "ptm"}
    BY <1>4 DEF TermWindow, HInv, HeldAt
  <2> QED
    BY <1>4, <2>1 DEF TermWindow, HInv, HeldAt, HeldWhileOpen, slaveVars
<1>5. CASE child_setup
  <2>1. childfds' = {"pts"}
    BY <1>5 DEF child_setup, HInv, HeldAt
  <2> QED
    BY <1>5, <2>1 DEF child_setup, HInv, HeldAt, HeldWhileOpen, ptyVars
<1> QED
  BY <1>1, <1>2, <1>3, <1>4, <1>5

(* Closing the window restores, which closes the master and frees.         *)
LEMMA ClosingHolds ==
    ASSUME HInv, OwnedWhileOpen, _close \/ EndOfFile \/ Read
    PROVE  HInv'
<1>1. window = "open" /\ at = "idle" /\ _pty = TRUE /\ held = {"pty", "ptm"}
  BY ReadEither DEF _close, EndOfFile, Readable, OwnedWhileOpen, HInv,
                    HeldWhileOpen
<1>2. at' = at /\ childfds' = childfds
  BY ReadEither DEF _close, EndOfFile
<1>3. \/ UNCHANGED <<child, held, window>>
      \/ /\ window' = "closed"
         /\ te_pty_restore(1)
  <2>1. Destroyed(_pty) = 1 /\ 1 + Destroyed(FALSE) = 1
    BY <1>1 DEF Destroyed
  <2>2. CASE _close
    BY <2>1, <2>2 DEF _close
  <2>3. CASE EndOfFile
    BY <2>1, <2>3 DEF EndOfFile, event_childexit
  <2>4. CASE Read
    BY <2>1, <2>4, ReadEither DEF event_childexit
  <2> QED
    BY <2>2, <2>3, <2>4
<1>4. CASE UNCHANGED <<child, held, window>>
  BY <1>2, <1>4 DEF HInv, HeldAt, HeldWhileOpen
<1>5. CASE window' = "closed" /\ te_pty_restore(1)
  <2>1. held' = {} /\ child' \in {child, "reaped"}
    BY <1>1, <1>5 DEF te_pty_restore
  <2> QED
    BY <1>1, <1>2, <1>5, <2>1 DEF HInv, HeldAt, HeldWhileOpen
<1> QED
  BY <1>3, <1>4, <1>5

LEMMA NextHolds == HInv /\ OwnedWhileOpen /\ [Next]_vars => HInv'
<1> SUFFICES ASSUME HInv, OwnedWhileOpen, [Next]_vars PROVE HInv'
  OBVIOUS
<1>1. CASE _spawnTerm_cb \/ te_pty_spawn \/ child_setup
  BY <1>1, StepsHold, FailHolds, StartHolds DEF te_pty_spawn
<1>2. CASE _close \/ _fromSlave
  BY <1>2, ClosingHolds DEF _fromSlave
<1>3. CASE child_exit
  BY <1>3 DEF child_exit, HInv, HeldAt, HeldWhileOpen, ptyVars
<1>4. CASE \/ child_write \/ te_position
           \/ Tick \/ _deferred_update_cb \/ redraw \/ draw
  BY <1>4 DEF child_write, te_position, Tick, _deferred_update_cb, redraw, draw,
              HInv, HeldAt, HeldWhileOpen, ptyVars, slaveVars
<1>5. CASE UNCHANGED vars
  BY <1>5 DEF vars, ptyVars, slaveVars, HInv, HeldAt, HeldWhileOpen
<1> QED
  BY <1>1, <1>2, <1>3, <1>4, <1>5 DEF Next

LEMMA AlwaysHolds == Spec => []HInv
<1>1. Init => HInv
  BY DEF Init, HInv, HeldAt, HeldWhileOpen
<1> QED
  BY <1>1, NextHolds, AlwaysOwned, PTL DEF Spec

(* No step of opening the terminal that fails, and no way the window       *)
(* closes, leaks a descriptor or memory, and the program the child runs    *)
(* has no descriptor but the slave's side.                                 *)
THEOREM NothingLeaked == Spec => []HeldWhileOpen
<1>1. HInv => HeldWhileOpen
  BY DEF HInv
<1> QED
  BY <1>1, AlwaysHolds, PTL

-----------------------------------------------------------------------------
(* Text and its bytes.                                                     *)

Chars == DOMAIN Length
Text == Chars \ {"NUL", "bad"}

LEMMA Lengths ==
    /\ Chars = {"a", "L2", "L3", "NUL", "bad"}
    /\ \A c \in Chars : Length[c] \in 1 .. 3
    /\ "C" \notin Chars
    /\ Bytes = Chars \union {"C"}
<1>1. Chars = {"a", "L2", "L3", "NUL", "bad"}
  BY DEF Chars, Length
<1>2. \A c \in Chars : Length[c] \in 1 .. 3
  BY <1>1 DEF Length
<1> QED
  BY <1>1, <1>2 DEF Bytes, Chars

LEMMA EncodingIs ==
    ASSUME NEW c \in Chars
    PROVE  /\ Encoding(c) \in Seq(Bytes) /\ Len(Encoding(c)) = Length[c]
           /\ Encoding(c)[1] = c
           /\ \A i \in 2 .. Length[c] : Encoding(c)[i] = "C"
<1>1. Length[c] \in 1 .. 3 /\ c \in Bytes /\ "C" \in Bytes
  BY Lengths
<1>2. /\ \A i \in 1 .. Length[c] : Encoding(c)[i] = IF i = 1 THEN c ELSE "C"
      /\ Encoding(c) \in [1 .. Length[c] -> Bytes]
  BY <1>1 DEF Encoding
<1>3. Encoding(c) \in Seq(Bytes) /\ Len(Encoding(c)) = Length[c]
  BY <1>1, <1>2
<1> QED
  BY <1>1, <1>2, <1>3

(* Induction, of a set: the theorems of NaturalsInduction have an operator *)
(* for a parameter.                                                        *)
LEMMA UpTo ==
    ASSUME NEW S, 0 \in S, \A n \in Nat : n \in S => n + 1 \in S
    PROVE  Nat \subseteq S
<1> SUFFICES ASSUME NEW k \in Nat \ S PROVE FALSE
  OBVIOUS
<1> DEFINE T == Nat \ S
<1>1. T \subseteq Nat /\ k \in T /\ T # {}
  OBVIOUS
<1>2. PICK m \in T : \A j \in T : ~(<<j, m>> \in OpToRel(<, Nat))
  <2> HIDE DEF T
  <2> QED
    BY <1>1, WFMin, NatLessThanWellFounded
<1>3. \A j \in T : ~(j < m)
  BY <1>2 DEF OpToRel
<1>4. m # 0 /\ m \in Nat /\ m - 1 \in Nat
  OBVIOUS
<1>5. m - 1 \in S
  BY <1>3, <1>4
<1> QED
  BY <1>4, <1>5

(* The bytes of the first n characters, as BytesOf has them.               *)
More(cs, h, n) == IF n = 0 THEN <<>> ELSE h[n - 1] \o Encoding(cs[n])
Sums(cs, m, h) == h = [n \in 0 .. m |-> More(cs, h, n)]

LEMMA SumsAre ==
    ASSUME NEW cs, NEW m \in Nat, NEW h, Sums(cs, m, h)
    PROVE  h[0] = <<>> /\ \A n \in 1 .. m : h[n] = h[n - 1] \o Encoding(cs[n])
<1>1. \A n \in 0 .. m : h[n] = More(cs, h, n)
  BY DEF Sums
<1>2. h[0] = <<>>
  BY <1>1 DEF More
<1>3. ASSUME NEW n \in 1 .. m PROVE h[n] = h[n - 1] \o Encoding(cs[n])
  <2>1. h[n] = More(cs, h, n) /\ n # 0
    BY <1>1
  <2> QED
    BY <2>1 DEF More
<1> QED
  BY <1>2, <1>3

LEMMA OneMore ==
    ASSUME NEW cs, NEW m \in Nat, \E h : Sums(cs, m, h)
    PROVE  \E h : Sums(cs, m + 1, h)
<1>1. PICK h : Sums(cs, m, h)
  OBVIOUS
<1> DEFINE k == [n \in 0 .. m + 1 |-> IF n <= m THEN h[n] ELSE More(cs, h, n)]
<1>2. \A n \in 0 .. m : k[n] = h[n]
  OBVIOUS
<1>3. ASSUME NEW n \in 0 .. m + 1 PROVE k[n] = More(cs, k, n)
  <2>1. n \in Nat /\ (n # 0 => n - 1 \in 0 .. m)
    OBVIOUS
  <2>2. More(cs, k, n) = More(cs, h, n)
    <3>1. n # 0 => k[n - 1] = h[n - 1]
      BY <1>2, <2>1
    <3> HIDE DEF k
    <3> QED
      BY <3>1 DEF More
  <2>3. n \in 0 .. m => h[n] = More(cs, h, n)
    BY <1>1 DEF Sums
  <2> QED
    BY <2>2, <2>3
<1>4. k = [n \in 0 .. m + 1 |-> More(cs, k, n)]
  <2>1. k = [n \in 0 .. m + 1 |-> k[n]]
    OBVIOUS
  <2> HIDE DEF k
  <2> QED
    BY <1>3, <2>1
<1> HIDE DEF k
<1> QED
  BY <1>4 DEF Sums

LEMMA SumsExist ==
    ASSUME NEW cs, NEW m \in Nat PROVE \E h : Sums(cs, m, h)
<1> DEFINE S == {n \in Nat : \E h : Sums(cs, n, h)}
<1>1. 0 \in S
  <2> DEFINE h == [n \in 0 .. 0 |-> <<>>]
  <2>1. \A n \in 0 .. 0 : More(cs, h, n) = <<>>
    BY DEF More
  <2>2. Sums(cs, 0, h)
    BY <2>1 DEF Sums
  <2> QED
    BY <2>2
<1>2. \A n \in Nat : n \in S => n + 1 \in S
  BY OneMore
<1>3. Nat \subseteq S
  <2> HIDE DEF S
  <2> QED
    BY <1>1, <1>2, UpTo
<1> QED
  BY <1>3

LEMMA BytesSums ==
    ASSUME NEW cs, Len(cs) \in Nat
    PROVE  \E h : Sums(cs, Len(cs), h) /\ BytesOf(cs) = h[Len(cs)]
<1> DEFINE h == CHOOSE f : f = [n \in 0 .. Len(cs) |-> More(cs, f, n)]
<1>1. \E f : Sums(cs, Len(cs), f)
  BY SumsExist
<1>2. Sums(cs, Len(cs), h)
  BY <1>1, Zenon DEF Sums
<1>3. BytesOf(cs) = h[Len(cs)]
  BY Zenon DEF BytesOf, More
<1> QED
  BY <1>2, <1>3

LEMMA SumsAgree ==
    ASSUME NEW cs, NEW ds, NEW m \in Nat, NEW k \in Nat, m <= k,
           NEW h, Sums(cs, m, h), NEW j, Sums(ds, k, j),
           \A n \in 1 .. m : cs[n] = ds[n]
    PROVE  h[m] = j[m]
<1> DEFINE S == {n \in Nat : n <= m => h[n] = j[n]}
<1>1. /\ h[0] = <<>> /\ \A n \in 1 .. m : h[n] = h[n - 1] \o Encoding(cs[n])
      /\ j[0] = <<>> /\ \A n \in 1 .. k : j[n] = j[n - 1] \o Encoding(ds[n])
  BY SumsAre
<1>2. 0 \in S
  BY <1>1
<1>3. ASSUME NEW n \in Nat, n \in S PROVE n + 1 \in S
  <2> SUFFICES ASSUME n + 1 <= m PROVE h[n + 1] = j[n + 1]
    OBVIOUS
  <2>1. n + 1 \in 1 .. m /\ n + 1 \in 1 .. k /\ (n + 1) - 1 = n /\ h[n] = j[n]
    BY <1>3
  <2>2. /\ h[n + 1] = h[n] \o Encoding(cs[n + 1])
        /\ j[n + 1] = j[n] \o Encoding(ds[n + 1])
    BY <1>1, <2>1
  <2> QED
    BY <2>1, <2>2
<1>4. Nat \subseteq S
  <2> HIDE DEF S
  <2> QED
    BY <1>2, <1>3, UpTo
<1> QED
  BY <1>4

LEMMA BytesOfNone == BytesOf(<<>>) = <<>>
<1>1. Len(<<>>) = 0
  OBVIOUS
<1>2. PICK h : Sums(<<>>, Len(<<>>), h) /\ BytesOf(<<>>) = h[Len(<<>>)]
  BY <1>1, BytesSums
<1> QED
  BY <1>1, <1>2, SumsAre

LEMMA BytesOfAppend ==
    ASSUME NEW cs \in Seq(Chars), NEW c \in Chars
    PROVE  BytesOf(Append(cs, c)) = BytesOf(cs) \o Encoding(c)
<1> DEFINE m == Len(cs)
           ds == Append(cs, c)
<1>1. /\ m \in Nat /\ Len(ds) = m + 1 /\ ds[m + 1] = c
      /\ \A n \in 1 .. m : cs[n] = ds[n]
  BY AppendProperties
<1> HIDE DEF ds
<1>2. PICK h : Sums(cs, m, h) /\ BytesOf(cs) = h[m]
  BY <1>1, BytesSums
<1>3. PICK j : Sums(ds, m + 1, j) /\ BytesOf(ds) = j[m + 1]
  <2>1. Len(ds) \in Nat
    BY <1>1
  <2> QED
    BY <1>1, <2>1, BytesSums
<1> HIDE DEF m
<1>4. m + 1 \in Nat /\ m <= m + 1 /\ m + 1 \in 1 .. m + 1 /\ (m + 1) - 1 = m
  BY <1>1
<1>5. h[m] = j[m]
  BY <1>1, <1>2, <1>3, <1>4, SumsAgree
<1>6. j[m + 1] = j[m] \o Encoding(ds[m + 1])
  BY <1>3, <1>4, SumsAre
<1>7. BytesOf(ds) = BytesOf(cs) \o Encoding(c)
  BY <1>1, <1>2, <1>3, <1>5, <1>6
<1> QED
  BY <1>7 DEF ds

(* Text grows at its end.                                                  *)
LEMMA AppendedText ==
    ASSUME NEW S, NEW n \in Nat, NEW cs \in Seq(S), Len(cs) = n + 1
    PROVE  \E d \in Seq(S), e \in S : cs = Append(d, e) /\ Len(d) = n
<1>1. cs # <<>>
  OBVIOUS
<1>2. PICK d \in Seq(S), e \in S : cs = Append(d, e)
  BY <1>1, SequenceEmptyOrAppend
<1>3. Len(cs) = Len(d) + 1 /\ Len(d) \in Nat
  BY <1>2, AppendProperties, LenProperties
<1> QED
  BY <1>2, <1>3

LEMMA BytesOfSeq ==
    ASSUME NEW cs \in Seq(Chars) PROVE BytesOf(cs) \in Seq(Bytes)
<1> DEFINE S == {n \in Nat : \A ds \in Seq(Chars) :
                               Len(ds) = n => BytesOf(ds) \in Seq(Bytes)}
<1>1. 0 \in S
  <2>1. \A ds \in Seq(Chars) : Len(ds) = 0 => ds = <<>>
    BY EmptySeq
  <2>2. <<>> \in Seq(Bytes)
    BY EmptySeq
  <2> QED
    BY <2>1, <2>2, BytesOfNone
<1>2. ASSUME NEW n \in Nat, n \in S PROVE n + 1 \in S
  <2>1. ASSUME NEW ds \in Seq(Chars), Len(ds) = n + 1
        PROVE  BytesOf(ds) \in Seq(Bytes)
    <3>1. PICK d \in Seq(Chars), e \in Chars : ds = Append(d, e) /\ Len(d) = n
      BY <2>1, AppendedText
    <3>2. BytesOf(d) \in Seq(Bytes)
      BY <1>2, <3>1
    <3>3. BytesOf(ds) = BytesOf(d) \o Encoding(e)
      BY <3>1, BytesOfAppend
    <3>4. Encoding(e) \in Seq(Bytes)
      BY EncodingIs
    <3> QED
      BY <3>2, <3>3, <3>4, ConcatProperties
  <2> QED
    BY <2>1
<1>3. Nat \subseteq S
  <2> HIDE DEF S
  <2> QED
    BY <1>1, <1>2, UpTo
<1>4. Len(cs) \in Nat
  OBVIOUS
<1> QED
  BY <1>3, <1>4

LEMMA BytesOfConcat ==
    ASSUME NEW cs \in Seq(Chars), NEW ds \in Seq(Chars)
    PROVE  BytesOf(cs \o ds) = BytesOf(cs) \o BytesOf(ds)
<1> DEFINE S == {n \in Nat : \A d \in Seq(Chars) :
                   Len(d) = n => BytesOf(cs \o d) = BytesOf(cs) \o BytesOf(d)}
<1>1. 0 \in S
  <2>1. \A d \in Seq(Chars) : Len(d) = 0 => d = <<>>
    BY EmptySeq
  <2>2. cs \o <<>> = cs
    BY ConcatEmptySeq
  <2>3. BytesOf(cs) \o <<>> = BytesOf(cs)
    BY BytesOfSeq, ConcatEmptySeq
  <2> QED
    BY <2>1, <2>2, <2>3, BytesOfNone
<1>2. ASSUME NEW n \in Nat, n \in S PROVE n + 1 \in S
  <2>1. ASSUME NEW x \in Seq(Chars), Len(x) = n + 1
        PROVE  BytesOf(cs \o x) = BytesOf(cs) \o BytesOf(x)
    <3>1. PICK d \in Seq(Chars), e \in Chars : x = Append(d, e) /\ Len(d) = n
      BY <2>1, AppendedText
    <3>2. BytesOf(cs \o d) = BytesOf(cs) \o BytesOf(d)
      BY <1>2, <3>1
    <3>3. cs \o d \in Seq(Chars) /\ <<e>> \in Seq(Chars)
      BY ConcatProperties
    <3>4. cs \o x = Append(cs \o d, e)
      <4>1. cs \o x = cs \o (d \o <<e>>)
        BY <3>1, AppendIsConcat
      <4>2. cs \o (d \o <<e>>) = (cs \o d) \o <<e>>
        BY <3>3, ConcatAssociative
      <4>3. (cs \o d) \o <<e>> = Append(cs \o d, e)
        BY <3>3, AppendIsConcat
      <4> QED
        BY <4>1, <4>2, <4>3
    <3>5. BytesOf(cs \o x) = BytesOf(cs \o d) \o Encoding(e)
      BY <3>3, <3>4, BytesOfAppend
    <3>6. BytesOf(x) = BytesOf(d) \o Encoding(e)
      BY <3>1, BytesOfAppend
    <3>7. /\ BytesOf(cs) \in Seq(Bytes) /\ BytesOf(d) \in Seq(Bytes)
          /\ Encoding(e) \in Seq(Bytes)
      BY BytesOfSeq, EncodingIs
    <3>8. (BytesOf(cs) \o BytesOf(d)) \o Encoding(e)
            = BytesOf(cs) \o (BytesOf(d) \o Encoding(e))
      BY <3>7, ConcatAssociative
    <3> QED
      BY <3>2, <3>5, <3>6, <3>8
  <2> QED
    BY <2>1
<1>3. Nat \subseteq S
  <2> HIDE DEF S
  <2> QED
    BY <1>1, <1>2, UpTo
<1>4. Len(ds) \in Nat
  OBVIOUS
<1> QED
  BY <1>3, <1>4

(* The first character of a text, and its bytes.                           *)
LEMMA FirstOf ==
    ASSUME NEW cs \in Seq(Text), cs # <<>>
    PROVE  \E c \in Text, d \in Seq(Text) :
             /\ cs = <<c>> \o d
             /\ BytesOf(cs) = Encoding(c) \o BytesOf(d)
             /\ d \in Seq(Chars) /\ c \in Chars
<1>1. cs[1] \in Text /\ Tail(cs) \in Seq(Text)
  BY HeadTailProperties
<1> DEFINE c == cs[1]
           d == Tail(cs)
<1>2. cs = <<c>> \o d
  OBVIOUS
<1>3. c \in Chars /\ d \in Seq(Chars)
  <2>1. Text \subseteq Chars
    BY DEF Text
  <2> QED
    BY <1>1, <2>1, SeqMonotonic
<1> HIDE DEF c, d
<1>4. <<c>> \in Seq(Chars) /\ <<>> \in Seq(Chars) /\ <<c>> = Append(<<>>, c)
  BY <1>3
<1>5. BytesOf(<<c>>) = Encoding(c)
  <2>1. BytesOf(Append(<<>>, c)) = BytesOf(<<>>) \o Encoding(c)
    BY <1>3, <1>4, BytesOfAppend
  <2>2. <<>> \o Encoding(c) = Encoding(c)
    BY <1>3, EncodingIs, ConcatEmptySeq
  <2> QED
    BY <1>4, <2>1, <2>2, BytesOfNone
<1>6. BytesOf(<<c>> \o d) = Encoding(c) \o BytesOf(d)
  BY <1>3, <1>4, <1>5, BytesOfConcat
<1> QED
  BY <1>1, <1>2, <1>3, <1>6 DEF c, d

-----------------------------------------------------------------------------
(* Decoding.                                                               *)

LEMMA FromTheEnd ==
    ASSUME NEW m \in Nat, NEW G,
           \A i \in 1 .. m + 1 : (\A j \in i + 1 .. m + 1 : j \in G) => i \in G
    PROVE  \A i \in 1 .. m + 1 : i \in G
<1> DEFINE S == {k \in Nat : \A i \in 1 .. m + 1 : m + 1 - i < k => i \in G}
<1>1. 0 \in S
  OBVIOUS
<1>2. ASSUME NEW k \in Nat, k \in S PROVE k + 1 \in S
  <2>1. ASSUME NEW i \in 1 .. m + 1, m + 1 - i < k + 1 PROVE i \in G
    <3>1. ASSUME NEW j \in i + 1 .. m + 1 PROVE j \in G
      <4>1. j \in 1 .. m + 1 /\ m + 1 - j < k
        BY <2>1
      <4> QED
        BY <1>2, <4>1
    <3> QED
      BY <3>1
  <2> QED
    BY <2>1
<1>3. Nat \subseteq S
  <2> HIDE DEF S
  <2> QED
    BY <1>1, <1>2, UpTo
<1>4. ASSUME NEW i \in 1 .. m + 1 PROVE i \in G
  <2>1. m + 1 \in S /\ m + 1 - i < m + 1
    BY <1>3
  <2> QED
    BY <2>1
<1> QED
  BY <1>4

Rest(s, i) == SubSeq(s, i, Len(s))

(* What is decoded from byte i on, when f has what is from later ones.     *)
Joined(c, r) == IF r.ok THEN Decoded(<<c>> \o r.cps, r.left) ELSE NotText
Step(s, f, i) ==
    IF Rest(s, i) = <<>> THEN Decoded(<<>>, <<>>)
    ELSE IF Invalid(Rest(s, i)) THEN NotText
    ELSE IF Len(Rest(s, i)) < Length[s[i]] THEN Decoded(<<>>, Rest(s, i))
    ELSE Joined(s[i], f[i + Length[s[i]]])
Steps(s, i, f) == f = [j \in i .. Len(s) + 1 |-> Step(s, f, j)]

LEMMA RestIs ==
    ASSUME NEW s \in Seq(Bytes), NEW i \in 1 .. Len(s) + 1
    PROVE  /\ Len(s) \in Nat
           /\ Rest(s, i) \in Seq(Bytes) /\ Len(Rest(s, i)) = Len(s) + 1 - i
           /\ \A k \in 1 .. Len(s) + 1 - i : Rest(s, i)[k] = s[i + k - 1]
<1>1. Len(s) \in Nat /\ i \in Int /\ \A k \in i .. Len(s) : s[k] \in Bytes
  OBVIOUS
<1>2. /\ Rest(s, i) \in Seq(Bytes)
      /\ Len(Rest(s, i)) = IF i <= Len(s) THEN Len(s) - i + 1 ELSE 0
      /\ \A k \in 1 .. Len(s) - i + 1 : Rest(s, i)[k] = s[i + k - 1]
  BY <1>1, SubSeqProperties DEF Rest
<1> QED
  BY <1>1, <1>2

(* A character that is complete ends before the bytes do.                  *)
Complete(s, i) ==
    /\ Rest(s, i) # <<>> /\ ~Invalid(Rest(s, i))
    /\ ~(Len(Rest(s, i)) < Length[s[i]])

LEMMA ValidStart ==
    ASSUME NEW s \in Seq(Bytes), NEW i \in 1 .. Len(s) + 1,
           Rest(s, i) # <<>>, ~Invalid(Rest(s, i))
    PROVE  i <= Len(s) /\ s[i] \in Text /\ s[i] \in Chars
           /\ Rest(s, i)[1] = s[i] /\ Length[s[i]] \in 1 .. 3
<1>1. i <= Len(s)
  <2>1. Len(Rest(s, i)) # 0
    BY RestIs, EmptySeq
  <2> QED
    BY <2>1, RestIs
<1>2. Rest(s, i)[1] = s[i]
  <2>1. 1 \in 1 .. Len(s) + 1 - i /\ i + 1 - 1 = i
    BY <1>1
  <2>2. Rest(s, i)[1] = s[i + 1 - 1]
    BY <2>1, RestIs
  <2> QED
    BY <2>1, <2>2
<1>3. s[i] \in Bytes
  BY <1>1
<1>4. s[i] \notin {"C", "NUL", "bad"}
  BY <1>2 DEF Invalid
<1> QED
  BY <1>1, <1>2, <1>3, <1>4, Lengths DEF Text

LEMMA CompleteEnds ==
    ASSUME NEW s \in Seq(Bytes), NEW i \in 1 .. Len(s) + 1, Complete(s, i)
    PROVE  i + Length[s[i]] \in i + 1 .. Len(s) + 1
<1>1. Rest(s, i) # <<>> /\ ~Invalid(Rest(s, i)) /\ ~(Len(Rest(s, i)) < Length[s[i]])
  BY DEF Complete
<1>2. i <= Len(s) /\ Length[s[i]] \in 1 .. 3
  BY <1>1, ValidStart
<1>3. Len(s) \in Nat /\ Len(Rest(s, i)) = Len(s) + 1 - i
  BY RestIs
<1> QED
  BY <1>1, <1>2, <1>3

LEMMA StepIs ==
    ASSUME NEW s, NEW f, NEW i
    PROVE  /\ Rest(s, i) = <<>> => Step(s, f, i) = Decoded(<<>>, <<>>)
           /\ Rest(s, i) # <<>> /\ Invalid(Rest(s, i)) => Step(s, f, i) = NotText
           /\ (/\ Rest(s, i) # <<>> /\ ~Invalid(Rest(s, i))
               /\ Len(Rest(s, i)) < Length[s[i]])
                => Step(s, f, i) = Decoded(<<>>, Rest(s, i))
           /\ Complete(s, i) => Step(s, f, i) = Joined(s[i], f[i + Length[s[i]]])
<1>1. Rest(s, i) = <<>> => Step(s, f, i) = Decoded(<<>>, <<>>)
  BY DEF Step
<1>2. Rest(s, i) # <<>> /\ Invalid(Rest(s, i)) => Step(s, f, i) = NotText
  BY DEF Step
<1>3. (/\ Rest(s, i) # <<>> /\ ~Invalid(Rest(s, i))
       /\ Len(Rest(s, i)) < Length[s[i]])
        => Step(s, f, i) = Decoded(<<>>, Rest(s, i))
  BY DEF Step
<1>4. Complete(s, i) => Step(s, f, i) = Joined(s[i], f[i + Length[s[i]]])
  BY DEF Step, Complete
<1> QED
  BY <1>1, <1>2, <1>3, <1>4

LEMMA StepLooksOn ==
    ASSUME NEW s \in Seq(Bytes), NEW i \in 1 .. Len(s) + 1, NEW f, NEW k,
           \A j \in i + 1 .. Len(s) + 1 : f[j] = k[j]
    PROVE  Step(s, f, i) = Step(s, k, i)
<1>1. CASE Complete(s, i)
  <2>1. f[i + Length[s[i]]] = k[i + Length[s[i]]]
    BY <1>1, CompleteEnds
  <2> QED
    BY <1>1, <2>1, StepIs
<1>2. CASE ~Complete(s, i)
  BY <1>2 DEF Step, Complete
<1> QED
  BY <1>1, <1>2

LEMMA StepsExist ==
    ASSUME NEW s \in Seq(Bytes) PROVE \E f : Steps(s, 1, f)
<1> DEFINE m == Len(s)
           G == {i \in 1 .. m + 1 : \E f : Steps(s, i, f)}
<1>1. m \in Nat
  OBVIOUS
<1> HIDE DEF m
<1>2. ASSUME NEW i \in 1 .. m + 1, \A j \in i + 1 .. m + 1 : j \in G
      PROVE  \E f : Steps(s, i, f)
  <2>1. i \in 1 .. Len(s) + 1 /\ m = Len(s)
    BY DEF m
  <2>2. PICK h : i < m + 1 => Steps(s, i + 1, h)
    <3>1. i < m + 1 => i + 1 \in i + 1 .. m + 1
      BY <1>1
    <3> QED
      BY <1>2, <3>1
  <2> DEFINE f == [j \in i .. m + 1 |-> IF j = i THEN Step(s, h, i) ELSE h[j]]
  <2>3. \A j \in i + 1 .. m + 1 : f[j] = h[j] /\ h[j] = Step(s, h, j)
    <3>1. \A j \in i + 1 .. m + 1 : j \in i .. m + 1 /\ j # i /\ i < m + 1
      BY <1>1
    <3> QED
      BY <2>1, <2>2, <3>1 DEF Steps
  <2>4. f[i] = Step(s, h, i)
    BY <1>1
  <2>5. f = [j \in i .. m + 1 |-> f[j]]
    OBVIOUS
  <2> HIDE DEF f
  <2>6. ASSUME NEW j \in i .. m + 1 PROVE f[j] = Step(s, f, j)
    <3>1. j \in 1 .. Len(s) + 1 /\ \A k \in j + 1 .. Len(s) + 1 : k \in i + 1 .. m + 1
      BY <1>1, <2>1
    <3>2. Step(s, h, j) = Step(s, f, j)
      BY <2>3, <3>1, StepLooksOn
    <3>3. j = i \/ j \in i + 1 .. m + 1
      BY <1>1
    <3> QED
      BY <2>3, <2>4, <3>2, <3>3
  <2>7. f = [j \in i .. Len(s) + 1 |-> Step(s, f, j)]
    BY <2>1, <2>5, <2>6
  <2> QED
    BY <2>7 DEF Steps
<1>3. \A i \in 1 .. m + 1 : i \in G
  <2>1. \A i \in 1 .. m + 1 : (\A j \in i + 1 .. m + 1 : j \in G) => i \in G
    BY <1>2
  <2> HIDE DEF G
  <2> QED
    BY <1>1, <2>1, FromTheEnd
<1>4. 1 \in 1 .. m + 1
  BY <1>1
<1> QED
  BY <1>3, <1>4

LEMMA DecodedBy ==
    ASSUME NEW s \in Seq(Bytes)
    PROVE  \E f : /\ \A i \in 1 .. Len(s) + 1 : f[i] = Step(s, f, i)
                  /\ str_mbs_to_cps_n(s) = f[1]
<1> DEFINE h == CHOOSE f : f = [i \in 1 .. Len(s) + 1 |-> Step(s, f, i)]
<1>1. \E f : Steps(s, 1, f)
  BY StepsExist
<1>2. h = [i \in 1 .. Len(s) + 1 |-> Step(s, h, i)]
  BY <1>1, Zenon DEF Steps
<1>3. str_mbs_to_cps_n(s) = h[1]
  BY Zenon DEF str_mbs_to_cps_n, Step, Rest, Joined
<1> HIDE DEF h
<1>4. \A i \in 1 .. Len(s) + 1 : h[i] = Step(s, h, i)
  BY <1>2
<1> QED
  BY <1>3, <1>4

(* What is left over is the beginning of a character, or nothing.          *)
Partial(bs) == bs = <<>> \/ (bs[1] \in Chars /\ Len(bs) < Length[bs[1]])

LEMMA JoinedIs ==
    ASSUME NEW c, NEW r
    PROVE  /\ r.ok => /\ Joined(c, r).ok /\ Joined(c, r).cps = <<c>> \o r.cps
                      /\ Joined(c, r).left = r.left
           /\ ~r.ok => ~Joined(c, r).ok
BY DEF Joined, Decoded, NotText

(* What is decoded has its type, whatever the bytes are.                   *)
LEMMA DecodedTyped ==
    ASSUME NEW s \in Seq(Bytes), str_mbs_to_cps_n(s).ok
    PROVE  /\ str_mbs_to_cps_n(s).cps \in Seq(Chars)
           /\ str_mbs_to_cps_n(s).left \in Seq(Bytes)
           /\ Partial(str_mbs_to_cps_n(s).left)
<1> DEFINE m == Len(s)
<1>1. PICK f : /\ \A i \in 1 .. Len(s) + 1 : f[i] = Step(s, f, i)
               /\ str_mbs_to_cps_n(s) = f[1]
  BY DecodedBy
<1> DEFINE Good(r) == r.ok => /\ r.cps \in Seq(Chars) /\ r.left \in Seq(Bytes)
                              /\ Partial(r.left)
           G == {i \in 1 .. m + 1 : Good(f[i])}
<1>2. m \in Nat
  OBVIOUS
<1>3. ASSUME NEW i \in 1 .. m + 1, \A j \in i + 1 .. m + 1 : j \in G
      PROVE  Good(f[i])
  <2>1. f[i] = Step(s, f, i)
    BY <1>1
  <2>2. <<>> \in Seq(Chars) /\ <<>> \in Seq(Bytes) /\ Partial(<<>>)
    <3>1. <<>> \in Seq(Chars) /\ <<>> \in Seq(Bytes)
      BY EmptySeq
    <3> QED
      BY <3>1 DEF Partial
  <2>3. CASE Rest(s, i) = <<>>
    <3>1. f[i] = Decoded(<<>>, <<>>)
      BY <2>1, <2>3, StepIs
    <3> QED
      BY <2>2, <3>1 DEF Decoded
  <2>4. CASE Rest(s, i) # <<>> /\ Invalid(Rest(s, i))
    <3>1. f[i] = NotText
      BY <2>1, <2>4, StepIs
    <3> QED
      BY <3>1 DEF NotText
  <2>5. CASE /\ Rest(s, i) # <<>> /\ ~Invalid(Rest(s, i))
             /\ Len(Rest(s, i)) < Length[s[i]]
    <3>1. f[i] = Decoded(<<>>, Rest(s, i))
      BY <2>1, <2>5, StepIs
    <3>2. Rest(s, i)[1] = s[i] /\ s[i] \in Chars
      BY <2>5, ValidStart
    <3>3. Rest(s, i) \in Seq(Bytes) /\ Partial(Rest(s, i))
      BY <2>5, <3>2, RestIs DEF Partial
    <3> QED
      BY <2>2, <3>1, <3>3 DEF Decoded
  <2>6. CASE Complete(s, i)
    <3> DEFINE r == f[i + Length[s[i]]]
    <3>1. f[i] = Joined(s[i], r)
      BY <2>1, <2>6, StepIs
    <3>2. Good(r)
      <4>1. i + Length[s[i]] \in i + 1 .. m + 1
        BY <2>6, CompleteEnds
      <4> QED
        BY <1>3, <4>1
    <3>3. <<s[i]>> \in Seq(Chars)
      <4>1. s[i] \in Chars
        BY <2>6, ValidStart DEF Complete
      <4> QED
        BY <4>1
    <3> HIDE DEF r
    <3>4. CASE r.ok
      <4>1. <<s[i]>> \o r.cps \in Seq(Chars)
        BY <3>2, <3>3, <3>4, ConcatProperties
      <4>2. f[i].cps = <<s[i]>> \o r.cps /\ f[i].left = r.left
        BY <3>1, <3>4, JoinedIs
      <4> QED
        BY <3>2, <3>4, <4>1, <4>2
    <3>5. CASE ~r.ok
      BY <3>1, <3>5, JoinedIs
    <3> QED
      BY <3>4, <3>5
  <2> QED
    BY <2>3, <2>4, <2>5, <2>6 DEF Complete
<1>4. \A i \in 1 .. m + 1 : i \in G
  <2>1. \A i \in 1 .. m + 1 : (\A j \in i + 1 .. m + 1 : j \in G) => i \in G
    BY <1>3
  <2> HIDE DEF G, m
  <2> QED
    BY <1>2, <2>1, FromTheEnd
<1>5. Good(f[1])
  BY <1>2, <1>4
<1> QED
  BY <1>1, <1>5

LEMMA Least ==
    ASSUME NEW a \in Int, NEW b \in Int
    PROVE  /\ Min({a, b}) \in {a, b}
           /\ Min({a, b}) <= a /\ Min({a, b}) <= b
<1>1. \E x \in {a, b} : \A y \in {a, b} : x =< y
  <2>1. CASE a <= b
    BY <2>1
  <2>2. CASE ~(a <= b)
    BY <2>2
  <2> QED
    BY <2>1, <2>2
<1> QED
  BY <1>1, Zenon DEF Min

(* Two halves that are the same together start the same.                   *)
LEMMA StartsSame ==
    ASSUME NEW r \in Seq(Bytes), NEW t \in Seq(Bytes),
           NEW e \in Seq(Bytes), NEW d \in Seq(Bytes), r \o t = e \o d
    PROVE  \A k \in 1 .. Len(r) : k <= Len(e) => r[k] = e[k]
<1> SUFFICES ASSUME NEW k \in 1 .. Len(r), k <= Len(e) PROVE r[k] = e[k]
  OBVIOUS
<1>1. Len(r) \in Nat /\ Len(t) \in Nat /\ Len(e) \in Nat /\ Len(d) \in Nat
  BY LenProperties
<1>2. k \in 1 .. Len(r) + Len(t) /\ k \in 1 .. Len(e) + Len(d) /\ k <= Len(r)
  BY <1>1
<1>3. (r \o t)[k] = r[k] /\ (e \o d)[k] = e[k]
  BY <1>2, ConcatProperties
<1> QED
  BY <1>3

(* The bytes of a text start with a character, complete or not.            *)
LEMMA StartsValid ==
    ASSUME NEW r \in Seq(Bytes), r # <<>>, NEW t \in Seq(Bytes),
           NEW c \in Text, c \in Chars, NEW d \in Seq(Bytes),
           r \o t = Encoding(c) \o d
    PROVE  r[1] = c /\ ~Invalid(r)
<1> DEFINE e == Encoding(c)
<1>1. /\ e \in Seq(Bytes) /\ Len(e) = Length[c] /\ e[1] = c
      /\ \A k \in 2 .. Length[c] : e[k] = "C"
      /\ Length[c] \in 1 .. 3
  BY EncodingIs, Lengths
<1> HIDE DEF e
<1>2. \A k \in 1 .. Len(r) : k <= Len(e) => r[k] = e[k]
  BY <1>1, StartsSame DEF e
<1>3. Len(r) \in Nat \ {0}
  BY EmptySeq
<1>4. r[1] = c
  BY <1>1, <1>2, <1>3
<1>5. r[1] \notin {"C", "NUL", "bad"}
  BY <1>4, Lengths DEF Text
<1>6. \A k \in 2 .. Min({Length[c], Len(r)}) : r[k] = "C"
  <2>1. Min({Length[c], Len(r)}) \in Int
        /\ Min({Length[c], Len(r)}) <= Length[c] /\ Min({Length[c], Len(r)}) <= Len(r)
    <3>1. Length[c] \in Int /\ Len(r) \in Int
      BY <1>1, <1>3
    <3>2. \A a, b \in Int : Min({a, b}) \in {a, b} /\ Min({a, b}) <= a /\ Min({a, b}) <= b
      BY Least
    <3> DEFINE x == Length[c]
               y == Len(r)
    <3> HIDE DEF x, y
    <3>3. x \in Int /\ y \in Int
      BY <3>1 DEF x, y
    <3>4. Min({x, y}) \in Int /\ Min({x, y}) <= x /\ Min({x, y}) <= y
      BY <3>2, <3>3
    <3> QED
      BY <3>4 DEF x, y
  <2>2. ASSUME NEW k \in 2 .. Min({Length[c], Len(r)}) PROVE r[k] = "C"
    <3>1. k \in 2 .. Length[c] /\ k \in 1 .. Len(r) /\ k <= Len(e)
      BY <1>1, <1>3, <2>1
    <3> QED
      BY <1>1, <1>2, <3>1
  <2> QED
    BY <2>2
<1> QED
  BY <1>4, <1>5, <1>6 DEF Invalid

(* A complete character and what follows it.                               *)
LEMMA RestAfter ==
    ASSUME NEW s \in Seq(Bytes), NEW i \in 1 .. Len(s) + 1, Complete(s, i)
    PROVE  Rest(s, i) = Encoding(s[i]) \o Rest(s, i + Length[s[i]])
<1> DEFINE c == s[i]
           k == i + Length[c]
           e == Encoding(c)
           r == Rest(s, i)
           q == Rest(s, k)
<1>1. c \in Chars /\ r[1] = c /\ Length[c] \in 1 .. 3 /\ i <= Len(s) /\ ~Invalid(r)
      /\ ~(Len(r) < Length[c])
  BY ValidStart DEF Complete
<1>2. k \in i + 1 .. Len(s) + 1 /\ k \in 1 .. Len(s) + 1
  BY CompleteEnds
<1>3. /\ Len(s) \in Nat
      /\ r \in Seq(Bytes) /\ Len(r) = Len(s) + 1 - i
      /\ \A j \in 1 .. Len(s) + 1 - i : r[j] = s[i + j - 1]
  BY RestIs
<1>4. /\ q \in Seq(Bytes) /\ Len(q) = Len(s) + 1 - k
      /\ \A j \in 1 .. Len(s) + 1 - k : q[j] = s[k + j - 1]
  BY <1>2, RestIs
<1>5. /\ e \in Seq(Bytes) /\ Len(e) = Length[c] /\ e[1] = c
      /\ \A j \in 2 .. Length[c] : e[j] = "C"
  BY <1>1, EncodingIs
<1>6. \A j \in 2 .. Length[c] : r[j] = "C"
  <2>1. Min({Length[c], Len(r)}) = Length[c]
    <3>1. Length[c] \in Int /\ Len(r) \in Int /\ Length[c] <= Len(r)
      BY <1>1, <1>3
    <3>2. \A a, b \in Int : Min({a, b}) \in {a, b} /\ Min({a, b}) <= a /\ Min({a, b}) <= b
      BY Least
    <3> DEFINE x == Length[c]
               y == Len(r)
    <3> HIDE DEF x, y
    <3>3. x \in Int /\ y \in Int /\ x <= y
      BY <3>1 DEF x, y
    <3> DEFINE z == Min({x, y})
    <3>4. (z = x \/ z = y) /\ z <= x /\ z <= y
      BY <3>2, <3>3
    <3> HIDE DEF z
    <3>5. z = x
      BY <3>3, <3>4
    <3> QED
      BY <3>5 DEF x, y, z
  <2>2. \A j \in 2 .. Min({Length[r[1]], Len(r)}) : r[j] = "C"
    BY <1>1 DEF Invalid
  <2> QED
    BY <1>1, <2>1, <2>2
<1>7. k = i + Length[c]
  OBVIOUS
<1>8. e \o q \in Seq(Bytes) /\ Len(e \o q) = Len(e) + Len(q)
      /\ \A j \in 1 .. Len(e) + Len(q) :
           (e \o q)[j] = IF j <= Len(e) THEN e[j] ELSE q[j - Len(e)]
  BY <1>4, <1>5, ConcatProperties
<1> HIDE DEF c, k, e, r, q
<1>8a. Length[c] \in Nat /\ Len(s) \in Nat /\ i \in Nat /\ k \in Nat
  BY <1>1, <1>2, <1>3
<1>8b. /\ Len(r) = Len(s) + 1 - i /\ Len(q) = Len(s) + 1 - k
      /\ Len(e) = Length[c] /\ Len(e \o q) = Len(e) + Len(q)
  BY <1>3, <1>4, <1>5, <1>8
<1>9. Len(r) = Len(e \o q)
  <2> DEFINE n == Length[c]
             m == Len(s)
  <2>1. n \in Nat /\ m \in Nat /\ i \in Nat /\ k \in Nat /\ k = i + n
    BY <1>8a, <1>7
  <2>2. Len(r) = m + 1 - i /\ Len(e \o q) = n + (m + 1 - k)
    BY <1>8b
  <2> HIDE DEF n, m
  <2> QED
    BY <2>1, <2>2
<1>10. ASSUME NEW j \in 1 .. Len(r) PROVE r[j] = (e \o q)[j]
  <2>1. j \in 1 .. Len(e) + Len(q) /\ j \in 1 .. Len(s) + 1 - i
    BY <1>3, <1>8, <1>9
  <2>2. CASE j <= Length[c]
    <3>1. (e \o q)[j] = e[j]
      BY <1>5, <1>8, <2>1, <2>2
    <3>2. j = 1 \/ j \in 2 .. Length[c]
      BY <1>1, <2>2
    <3> QED
      BY <1>1, <1>5, <1>6, <3>1, <3>2
  <2>3. CASE ~(j <= Length[c])
    <3>1. (e \o q)[j] = q[j - Length[c]]
      BY <1>5, <1>8, <2>1, <2>3
    <3>2. j - Length[c] \in 1 .. Len(s) + 1 - k
          /\ k + (j - Length[c]) - 1 = i + j - 1
      <4> DEFINE n == Length[c]
                 m == Len(s)
      <4>1. /\ n \in Nat /\ m \in Nat /\ i \in Nat /\ k \in Nat /\ k = i + n
            /\ j \in 1 .. m + 1 - i /\ ~(j <= n)
        BY <1>8a, <1>7, <2>1, <2>3
      <4> HIDE DEF n, m
      <4>2. j - n \in 1 .. m + 1 - k /\ k + (j - n) - 1 = i + j - 1
        BY <4>1
      <4> QED
        BY <4>2 DEF n, m
    <3>3. q[j - Length[c]] = s[i + j - 1]
      BY <1>4, <3>2
    <3>4. r[j] = s[i + j - 1]
      BY <1>3, <2>1
    <3> QED
      BY <3>1, <3>3, <3>4
  <2> QED
    BY <2>2, <2>3
<1>11. r = e \o q
  BY <1>3, <1>8, <1>9, <1>10, SeqEqual
<1> QED
  BY <1>11 DEF c, k, e, r, q

LEMMA Associative ==
    /\ \A s, t, u \in Seq(Chars) : s \o (t \o u) = (s \o t) \o u
    /\ \A s, t, u \in Seq(Bytes) : s \o (t \o u) = (s \o t) \o u
BY ConcatAssociative

(* Bytes a text starts with are decoded into characters the text starts    *)
(* with; what is left over and what follows are the bytes of the others.   *)
DecodesTo(r, cs, t) ==
    /\ r.ok /\ r.cps \in Seq(Chars)
    /\ \E b \in Seq(Text) : cs = r.cps \o b /\ r.left \o t = BytesOf(b)

LEMMA NothingDecoded ==
    ASSUME NEW left, NEW t, NEW cs \in Seq(Text), left \o t = BytesOf(cs)
    PROVE  DecodesTo(Decoded(<<>>, left), cs, t)
<1>1. cs = <<>> \o cs /\ <<>> \in Seq(Chars)
  BY ConcatEmptySeq, EmptySeq
<1> QED
  BY <1>1 DEF DecodesTo, Decoded

LEMMA OneDecoded ==
    ASSUME NEW c \in Chars, NEW d \in Seq(Text), NEW t, NEW r, DecodesTo(r, d, t)
    PROVE  DecodesTo(Joined(c, r), <<c>> \o d, t)
<1>1. r.ok /\ r.cps \in Seq(Chars)
  BY DEF DecodesTo
<1>2. PICK b \in Seq(Text) : d = r.cps \o b /\ r.left \o t = BytesOf(b)
  BY DEF DecodesTo
<1>3. /\ Joined(c, r).ok /\ Joined(c, r).cps = <<c>> \o r.cps
      /\ Joined(c, r).left = r.left
  BY <1>1, JoinedIs
<1>4. <<c>> \in Seq(Chars) /\ b \in Seq(Chars)
  <2>1. Text \subseteq Chars
    BY DEF Text
  <2>2. b \in Seq(Chars)
    BY <2>1, SeqMonotonic
  <2> QED
    BY <2>2
<1>5. <<c>> \o d = (<<c>> \o r.cps) \o b /\ <<c>> \o r.cps \in Seq(Chars)
  <2>1. <<c>> \o (r.cps \o b) = (<<c>> \o r.cps) \o b
    BY <1>1, <1>4, Associative
  <2>2. <<c>> \o r.cps \in Seq(Chars)
    BY <1>1, <1>4, ConcatProperties
  <2> QED
    BY <1>2, <2>1, <2>2
<1> QED
  BY <1>2, <1>3, <1>5 DEF DecodesTo

LEMMA SameStart ==
    ASSUME NEW S, NEW s \in Seq(S), NEW t \in Seq(S), NEW u \in Seq(S),
           s \o t = s \o u
    PROVE  t = u
BY ConcatSimplifications

LEMMA DecodesText ==
    ASSUME NEW s \in Seq(Bytes), NEW t \in Seq(Bytes), NEW cs \in Seq(Text),
           s \o t = BytesOf(cs)
    PROVE  DecodesTo(str_mbs_to_cps_n(s), cs, t)
<1> DEFINE m == Len(s)
<1>1. PICK f : /\ \A i \in 1 .. Len(s) + 1 : f[i] = Step(s, f, i)
               /\ str_mbs_to_cps_n(s) = f[1]
  BY DecodedBy
<1> DEFINE Good(i) == \A x \in Seq(Text) :
                        Rest(s, i) \o t = BytesOf(x) => DecodesTo(f[i], x, t)
           G == {i \in 1 .. m + 1 : Good(i)}
<1>2. m \in Nat
  OBVIOUS
<1>3. ASSUME NEW i \in 1 .. m + 1, \A j \in i + 1 .. m + 1 : j \in G
      PROVE  Good(i)
  <2> SUFFICES ASSUME NEW x \in Seq(Text), Rest(s, i) \o t = BytesOf(x)
               PROVE  DecodesTo(f[i], x, t)
    OBVIOUS
  <2> DEFINE r == Rest(s, i)
  <2>1. f[i] = Step(s, f, i)
    BY <1>1
  <2>2. r \in Seq(Bytes)
    BY RestIs
  <2>3. CASE r = <<>>
    <3>1. f[i] = Decoded(<<>>, r)
      BY <2>1, <2>3, StepIs
    <3> QED
      BY <3>1, NothingDecoded
  <2>4. CASE r # <<>>
    <3>1. x # <<>>
      BY <2>2, <2>4, BytesOfNone, ConcatEqualIffEmpty
    <3>2. PICK c \in Text, d \in Seq(Text) :
             /\ x = <<c>> \o d
             /\ BytesOf(x) = Encoding(c) \o BytesOf(d)
             /\ d \in Seq(Chars) /\ c \in Chars
      BY <3>1, FirstOf
    <3>3. BytesOf(d) \in Seq(Bytes)
      BY <3>2, BytesOfSeq
    <3>4. r[1] = c /\ ~Invalid(r)
      BY <2>2, <2>4, <3>2, <3>3, StartsValid
    <3>5. s[i] = c
      BY <2>4, <3>4, ValidStart
    <3>6. CASE Len(r) < Length[s[i]]
      <4>1. f[i] = Decoded(<<>>, r)
        BY <2>1, <2>4, <3>4, <3>6, StepIs
      <4> QED
        BY <4>1, NothingDecoded
    <3>7. CASE ~(Len(r) < Length[s[i]])
      <4> DEFINE k == i + Length[s[i]]
      <4>1. Complete(s, i)
        BY <2>4, <3>4, <3>7 DEF Complete
      <4>2. k \in i + 1 .. m + 1 /\ k \in 1 .. Len(s) + 1
        BY <4>1, CompleteEnds
      <4>3. r = Encoding(c) \o Rest(s, k)
        BY <3>5, <4>1, RestAfter
      <4>4. Rest(s, k) \in Seq(Bytes) /\ Encoding(c) \in Seq(Bytes)
        BY <3>2, <4>2, RestIs, EncodingIs
      <4> HIDE DEF k
      <4>5. Encoding(c) \o (Rest(s, k) \o t) = Encoding(c) \o BytesOf(d)
        <5>1. Encoding(c) \o (Rest(s, k) \o t) = r \o t
          <6> DEFINE e == Encoding(c)
                     q == Rest(s, k)
          <6>1. e \in Seq(Bytes) /\ q \in Seq(Bytes) /\ r = e \o q
            BY <4>3, <4>4
          <6> HIDE DEF e, q, r
          <6>2. e \o (q \o t) = r \o t
            BY <6>1, Associative
          <6> QED
            BY <6>2 DEF e, q
        <5> QED
          BY <3>2, <5>1
      <4>6. Rest(s, k) \o t = BytesOf(d)
        <5>1. Rest(s, k) \o t \in Seq(Bytes)
          BY <4>4, ConcatProperties
        <5> QED
          BY <3>3, <4>4, <4>5, <5>1, SameStart
      <4>7. DecodesTo(f[k], d, t)
        BY <1>3, <4>2, <4>6
      <4>8. f[i] = Joined(c, f[k])
        BY <2>1, <3>5, <4>1, StepIs DEF k
      <4> QED
        BY <3>2, <4>7, <4>8, OneDecoded
    <3> QED
      BY <3>6, <3>7
  <2> QED
    BY <2>3, <2>4
<1>4. \A i \in 1 .. m + 1 : i \in G
  <2>1. \A i \in 1 .. m + 1 : (\A j \in i + 1 .. m + 1 : j \in G) => i \in G
    BY <1>3
  <2> HIDE DEF G, m
  <2> QED
    BY <1>2, <2>1, FromTheEnd
<1>5. Good(1)
  <2>1. 1 \in 1 .. m + 1
    BY <1>2
  <2> HIDE DEF m
  <2> QED
    BY <1>4, <2>1
<1>6. Rest(s, 1) = s
  BY SubSeqFull DEF Rest
<1> QED
  BY <1>1, <1>5, <1>6

-----------------------------------------------------------------------------
(* Nothing of a text is lost, doubled or moved.                            *)

(* The strengthening of TextInOrder: what was delivered is the beginning   *)
(* of the text, not only has the same bytes, and what the buffer keeps is  *)
(* the beginning of the next character.                                    *)
TextInv ==
    /\ pipe \in Seq(Bytes) /\ written \in Seq(Chars)
    /\ _buf \in Seq(Bytes) /\ delivered \in Seq(Chars) /\ Partial(_buf)
    /\ IsText => \E rest \in Seq(Text) :
                   written = delivered \o rest /\ _buf \o pipe = BytesOf(rest)

LEMMA ShortBuffer ==
    ASSUME NEW bs \in Seq(Bytes), Partial(bs) PROVE Len(bs) < 3
<1>1. bs = <<>> => Len(bs) = 0
  BY EmptySeq
<1>2. \A c \in Chars : Length[c] \in 1 .. 3
  BY Lengths
<1>3. Len(bs) \in Nat
  BY LenProperties
<1> QED
  BY <1>1, <1>2, <1>3 DEF Partial

(* The child writes one more character.                                    *)
LEMMA WriteInOrder == ASSUME TextInv, child_write PROVE TextInv'
<1>1. PICK c \in Output :
         written' = Append(written, c) /\ pipe' = pipe \o Encoding(c)
  BY DEF child_write
<1>2. _buf' = _buf /\ delivered' = delivered
  BY DEF child_write, ptyVars, ioVars
<1>3. c \in Chars /\ Encoding(c) \in Seq(Bytes)
  BY OutputAssumption, EncodingIs DEF Chars
<1>4. /\ pipe \in Seq(Bytes) /\ written \in Seq(Chars)
      /\ _buf \in Seq(Bytes) /\ delivered \in Seq(Chars) /\ Partial(_buf)
  BY DEF TextInv
<1>5. pipe' \in Seq(Bytes) /\ written' \in Seq(Chars)
  BY <1>1, <1>3, <1>4, ConcatProperties, AppendProperties
<1>6. ASSUME IsText'
      PROVE  \E rest \in Seq(Text) :
               written' = delivered \o rest /\ _buf \o pipe' = BytesOf(rest)
  <2>1. /\ Len(written') = Len(written) + 1 /\ Len(written) \in Nat
        /\ written'[Len(written) + 1] = c
        /\ \A i \in 1 .. Len(written) : written'[i] = written[i]
    BY <1>1, <1>3, <1>4, AppendProperties
  <2>2. \A i \in 1 .. Len(written') : written'[i] \notin {"NUL", "bad"}
    BY <1>6 DEF IsText
  <2>3. IsText
    BY <2>1, <2>2 DEF IsText
  <2>4. c \in Text
    BY <1>3, <2>1, <2>2 DEF Text
  <2>5. PICK rest \in Seq(Text) :
           written = delivered \o rest /\ _buf \o pipe = BytesOf(rest)
    BY <2>3 DEF TextInv
  <2>6. rest \in Seq(Chars) /\ <<c>> \in Seq(Chars)
    <3>1. Text \subseteq Chars
      BY DEF Text
    <3>2. rest \in Seq(Chars)
      BY <3>1, SeqMonotonic
    <3> QED
      BY <1>3, <3>2
  <2> DEFINE more == Append(rest, c)
  <2>7. more \in Seq(Text)
    BY <2>4, AppendProperties
  <2>8. written' = delivered \o more
    <3>1. written' = (delivered \o rest) \o <<c>>
      BY <1>1, <1>3, <1>4, <2>5, AppendIsConcat
    <3>2. more = rest \o <<c>>
      BY <2>4, AppendIsConcat
    <3> HIDE DEF more
    <3>3. delivered \o (rest \o <<c>>) = (delivered \o rest) \o <<c>>
      BY <1>4, <2>6, Associative
    <3> QED
      BY <3>1, <3>2, <3>3
  <2>9. _buf \o pipe' = BytesOf(more)
    <3>1. BytesOf(more) = BytesOf(rest) \o Encoding(c)
      BY <1>3, <2>6, BytesOfAppend
    <3> DEFINE e == Encoding(c)
    <3>2. e \in Seq(Bytes) /\ pipe' = pipe \o e
      BY <1>1, <1>3
    <3> HIDE DEF e, more
    <3>3. _buf \o (pipe \o e) = (_buf \o pipe) \o e
      BY <1>4, <3>2, Associative
    <3> QED
      BY <2>5, <3>1, <3>2, <3>3 DEF e
  <2> QED
    BY <2>7, <2>8, <2>9
<1> QED
  BY <1>2, <1>4, <1>5, <1>6 DEF TextInv

(* What a read takes, and what it makes of it.                             *)
LEMMA ReadTakes ==
    ASSUME TextInv, Read
    PROVE  \E taken \in Seq(Bytes) :
             LET r == str_mbs_to_cps_n(_buf \o taken)
             IN  /\ pipe' \in Seq(Bytes) /\ taken \o pipe' = pipe
                 /\ written' = written
                 /\ \/ ~r.ok /\ _buf' = <<>> /\ delivered' = delivered
                    \/ r.ok /\ _buf' = r.left /\ delivered' = delivered \o r.cps
                    \/ /\ r.ok /\ r.cps = <<>> /\ _buf' = r.left
                       /\ delivered' = delivered
<1> DEFINE Result(bytes, r) ==
             \/ ~r.ok /\ _buf' = <<>> /\ delivered' = delivered
             \/ r.ok /\ _buf' = r.left /\ delivered' = delivered \o r.cps
             \/ r.ok /\ r.cps = <<>> /\ _buf' = r.left /\ delivered' = delivered
<1>1. PICK n \in 1 .. Min({space, Len(pipe)}) :
         /\ pipe' = SubSeq(pipe, n + 1, Len(pipe))
         /\ LET bytes == _buf \o SubSeq(pipe, 1, n)
            IN  Result(bytes, str_mbs_to_cps_n(bytes))
  BY DEF Read, Rejected
<1> DEFINE taken == SubSeq(pipe, 1, n)
<1>2. /\ _buf \in Seq(Bytes) /\ Len(_buf) \in Nat
      /\ pipe \in Seq(Bytes) /\ Len(pipe) \in Nat /\ space \in Int
  BY SizesAssumption DEF TextInv, space
<1>3. n \in 1 .. Len(pipe)
  <2>1. \A a, b \in Int : Min({a, b}) \in {a, b} /\ Min({a, b}) <= b
    BY Least
  <2> DEFINE x == space
             y == Len(pipe)
             z == Min({x, y})
  <2> HIDE DEF x, y
  <2>2. x \in Int /\ y \in Nat
    BY <1>2 DEF x, y
  <2>3. z \in Int /\ z <= y
    BY <2>1, <2>2
  <2> HIDE DEF z
  <2>4. n \in 1 .. z
    BY <1>1 DEF x, y, z
  <2> QED
    BY <2>2, <2>3, <2>4 DEF y
<1>4. taken \in Seq(Bytes) /\ pipe' \in Seq(Bytes)
  <2>1. /\ \A i \in 1 .. n : pipe[i] \in Bytes
        /\ \A i \in n + 1 .. Len(pipe) : pipe[i] \in Bytes
        /\ n \in Int /\ n + 1 \in Int /\ Len(pipe) \in Int
    BY <1>2, <1>3
  <2> QED
    BY <1>1, <2>1, SubSeqProperties
<1>5. taken \o pipe' = pipe
  <2>1. 1 \in 1 .. Len(pipe) + 1 /\ n \in 0 .. Len(pipe) /\ Len(pipe) \in n .. Len(pipe)
        /\ 1 - 1 = 0
    BY <1>2, <1>3
  <2>2. SubSeq(pipe, 1, n) \o SubSeq(pipe, n + 1, Len(pipe)) = SubSeq(pipe, 1, Len(pipe))
    BY <1>2, <2>1, ConcatAdjacentSubSeq
  <2>3. SubSeq(pipe, 1, Len(pipe)) = pipe
    BY <1>2, SubSeqFull
  <2> QED
    BY <1>1, <2>2, <2>3
<1>6. written' = written
  BY DEF Read
<1> QED
  BY <1>1, <1>4, <1>5, <1>6

(* A read, however much it takes.                                          *)
LEMMA ReadInOrder == ASSUME TextInv, Read PROVE TextInv'
<1>1. PICK taken \in Seq(Bytes) :
         LET r == str_mbs_to_cps_n(_buf \o taken)
         IN  /\ pipe' \in Seq(Bytes) /\ taken \o pipe' = pipe
             /\ written' = written
             /\ \/ ~r.ok /\ _buf' = <<>> /\ delivered' = delivered
                \/ r.ok /\ _buf' = r.left /\ delivered' = delivered \o r.cps
                \/ /\ r.ok /\ r.cps = <<>> /\ _buf' = r.left
                   /\ delivered' = delivered
  BY ReadTakes
<1> DEFINE bytes == _buf \o taken
           r == str_mbs_to_cps_n(bytes)
<1>2. /\ pipe \in Seq(Bytes) /\ written \in Seq(Chars)
      /\ _buf \in Seq(Bytes) /\ delivered \in Seq(Chars)
  BY DEF TextInv
<1>3. bytes \in Seq(Bytes)
  BY <1>2, ConcatProperties
<1>4. r.ok => r.cps \in Seq(Chars) /\ r.left \in Seq(Bytes) /\ Partial(r.left)
  BY <1>3, DecodedTyped
<1>5. /\ pipe' \in Seq(Bytes) /\ taken \o pipe' = pipe /\ written' = written
      /\ \/ ~r.ok /\ _buf' = <<>> /\ delivered' = delivered
         \/ r.ok /\ _buf' = r.left /\ delivered' = delivered \o r.cps
  <2>1. delivered \o <<>> = delivered
    BY <1>2, ConcatEmptySeq
  <2> QED
    BY <1>1, <2>1
<1>6. bytes \o pipe' = _buf \o pipe
  <2>1. _buf \o (taken \o pipe') = (_buf \o taken) \o pipe'
    BY <1>2, <1>5, Associative
  <2> QED
    BY <1>5, <2>1
<1> HIDE DEF bytes, r
<1>7. _buf' \in Seq(Bytes) /\ delivered' \in Seq(Chars) /\ Partial(_buf')
  <2>1. CASE ~r.ok
    <3>1. <<>> \in Seq(Bytes) /\ Partial(<<>>)
      <4>1. <<>> \in Seq(Bytes)
        BY EmptySeq
      <4> QED
        BY <4>1 DEF Partial
    <3> QED
      BY <1>2, <1>5, <2>1, <3>1
  <2>2. CASE r.ok
    <3>1. delivered \o r.cps \in Seq(Chars)
      BY <1>2, <1>4, <2>2, ConcatProperties
    <3> QED
      BY <1>4, <1>5, <2>2, <3>1
  <2> QED
    BY <2>1, <2>2
<1>8. ASSUME IsText'
      PROVE  \E rest \in Seq(Text) :
               written = delivered' \o rest /\ _buf' \o pipe' = BytesOf(rest)
  <2>1. PICK rest \in Seq(Text) :
           written = delivered \o rest /\ _buf \o pipe = BytesOf(rest)
    BY <1>5, <1>8 DEF TextInv, IsText
  <2>2. DecodesTo(r, rest, pipe')
    <3>1. bytes \o pipe' = BytesOf(rest)
      BY <1>6, <2>1
    <3> QED
      BY <1>3, <1>5, <3>1, DecodesText DEF r
  <2>3. PICK b \in Seq(Text) : rest = r.cps \o b /\ r.left \o pipe' = BytesOf(b)
    BY <2>2 DEF DecodesTo
  <2>4. r.ok /\ r.cps \in Seq(Chars)
    BY <2>2 DEF DecodesTo
  <2>5. _buf' = r.left /\ delivered' = delivered \o r.cps
    BY <1>5, <2>4
  <2>6. b \in Seq(Chars)
    <3>1. Text \subseteq Chars
      BY DEF Text
    <3> QED
      BY <3>1, SeqMonotonic
  <2>7. written = delivered' \o b
    <3> DEFINE cps == r.cps
    <3>1. cps \in Seq(Chars) /\ rest = cps \o b /\ delivered' = delivered \o cps
      BY <2>3, <2>4, <2>5
    <3> HIDE DEF cps
    <3>2. delivered \o (cps \o b) = (delivered \o cps) \o b
      BY <1>2, <2>6, <3>1, Associative
    <3> QED
      BY <2>1, <3>1, <3>2
  <2> QED
    BY <2>3, <2>5, <2>7
<1>9. IsText' => \E rest \in Seq(Text) :
                   written' = delivered' \o rest /\ _buf' \o pipe' = BytesOf(rest)
  BY <1>5, <1>8
<1> QED
  BY <1>2, <1>5, <1>7, <1>9 DEF TextInv

LEMMA NextInOrder == TextInv /\ [Next]_vars => TextInv'
<1> SUFFICES ASSUME TextInv, [Next]_vars PROVE TextInv'
  OBVIOUS
<1>1. CASE child_write
  BY <1>1, WriteInOrder
<1>2. CASE Read
  BY <1>2, ReadInOrder
<1>3. CASE UNCHANGED <<pipe, written, _buf, delivered>>
  BY <1>3 DEF TextInv, IsText
<1>4. CASE ~child_write /\ ~Read
  <2>1. UNCHANGED <<pipe, written, _buf, delivered>>
    <3>1. CASE _spawnTerm_cb \/ te_pty_spawn \/ child_setup
      BY <3>1 DEF _spawnTerm_cb, te_pty_spawn, Succeed, fail, Failed, fork,
                  TermWindow, child_setup, slaveVars, ioVars, ptyVars
    <3>2. CASE child_exit \/ te_position \/ _close \/ EndOfFile
      BY <3>2 DEF child_exit, te_position, _close, EndOfFile, slaveVars, ioVars,
                  ptyVars
    <3>3. CASE Tick \/ _deferred_update_cb \/ redraw \/ draw
      BY <3>3 DEF Tick, _deferred_update_cb, redraw, draw, slaveVars, ioVars, ptyVars
    <3>4. CASE UNCHANGED vars
      BY <3>4 DEF vars, slaveVars, ioVars, ptyVars
    <3> QED
      BY <1>4, <3>1, <3>2, <3>3, <3>4 DEF Next, _fromSlave
  <2> QED
    BY <1>3, <2>1
<1> QED
  BY <1>1, <1>2, <1>4

LEMMA AlwaysInOrder == Spec => []TextInv
<1>1. Init => TextInv
  <2> SUFFICES ASSUME Init PROVE TextInv
    OBVIOUS
  <2>1. pipe = <<>> /\ written = <<>> /\ _buf = <<>> /\ delivered = <<>>
    BY DEF Init
  <2>2. <<>> \in Seq(Bytes) /\ <<>> \in Seq(Chars) /\ <<>> \in Seq(Text)
    BY EmptySeq
  <2>3. <<>> \o <<>> = <<>> /\ Partial(<<>>)
    BY <2>2, ConcatEmptySeq DEF Partial
  <2> QED
    BY <2>1, <2>2, <2>3, BytesOfNone DEF TextInv
<1> QED
  BY <1>1, NextInOrder, PTL DEF Spec

(* However the reads cut what the child writes, also inside a character,   *)
(* no byte of a text is lost, doubled or moved (TextInOrder), for every    *)
(* size of the buffer and every text.                                      *)
THEOREM TextAlwaysInOrder == Spec => []TextInOrder
<1>1. TextInv => TextInOrder
  <2> SUFFICES ASSUME TextInv, IsText
               PROVE  BytesOf(delivered) \o _buf \o pipe = BytesOf(written)
    BY DEF TextInOrder
  <2>1. PICK rest \in Seq(Text) :
           written = delivered \o rest /\ _buf \o pipe = BytesOf(rest)
    BY DEF TextInv
  <2>2. rest \in Seq(Chars)
    <3>1. Text \subseteq Chars
      BY DEF Text
    <3> QED
      BY <3>1, SeqMonotonic
  <2>3. BytesOf(written) = BytesOf(delivered) \o BytesOf(rest)
    BY <2>1, <2>2, BytesOfConcat DEF TextInv
  <2> DEFINE d == BytesOf(delivered)
  <2>4. d \in Seq(Bytes) /\ _buf \in Seq(Bytes) /\ pipe \in Seq(Bytes)
    BY BytesOfSeq DEF TextInv
  <2> HIDE DEF d
  <2>5. d \o (_buf \o pipe) = (d \o _buf) \o pipe
    BY <2>4, Associative
  <2> QED
    BY <2>1, <2>3, <2>5 DEF d
<1> QED
  BY <1>1, AlwaysInOrder, PTL

-----------------------------------------------------------------------------
(* The end of the file is the end.                                         *)

(* The strengthening of EofMeansAll: there is no window without a child,   *)
(* and after the end there is no window that would read any more.          *)
EndInv ==
    /\ at = "window" \/ window = "open" => child # "none"
    /\ child \in {"none", "forked", "running", "closed", "waitable", "reaped"}
    /\ told = "eof" => window = "closed"
    /\ EofMeansAll

(* All bytes read and none left over that belong to an incomplete          *)
(* character: no character is missing.                                     *)
LEMMA NothingMissing ==
    ASSUME TextInv, pipe = <<>>, IsText PROVE delivered = written
<1>1. PICK rest \in Seq(Text) :
         written = delivered \o rest /\ _buf \o pipe = BytesOf(rest)
  BY DEF TextInv
<1>2. _buf \in Seq(Bytes) /\ delivered \in Seq(Chars) /\ Partial(_buf)
  BY DEF TextInv
<1>3. _buf = BytesOf(rest)
  BY <1>1, <1>2, ConcatEmptySeq
<1>4. rest = <<>>
  <2> SUFFICES ASSUME rest # <<>> PROVE FALSE
    OBVIOUS
  <2>1. PICK c \in Text, d \in Seq(Text) :
           /\ rest = <<c>> \o d
           /\ BytesOf(rest) = Encoding(c) \o BytesOf(d)
           /\ d \in Seq(Chars) /\ c \in Chars
    BY FirstOf
  <2> DEFINE e == Encoding(c)
             b == BytesOf(d)
  <2>2. /\ e \in Seq(Bytes) /\ Len(e) = Length[c] /\ e[1] = c
        /\ Length[c] \in 1 .. 3 /\ b \in Seq(Bytes)
    BY <2>1, EncodingIs, Lengths, BytesOfSeq
  <2>3. _buf = e \o b
    BY <1>3, <2>1
  <2> HIDE DEF e, b
  <2>4. /\ Len(_buf) = Len(e) + Len(b) /\ Len(b) \in Nat
        /\ _buf[1] = e[1]
    <3>1. Len(e) \in Nat /\ Len(b) \in Nat /\ 1 \in 1 .. Len(e) + Len(b) /\ 1 <= Len(e)
      BY <2>2
    <3> QED
      BY <2>2, <2>3, <3>1, ConcatProperties
  <2>5. _buf # <<>> /\ ~(Len(_buf) < Length[_buf[1]])
    <3>1. ~(Len(_buf) < Length[c]) /\ Len(_buf) # 0
      <4> DEFINE n == Length[c]
                 m == Len(_buf)
      <4>1. n \in 1 .. 3 /\ m = n + Len(b) /\ Len(b) \in Nat
        BY <2>2, <2>4
      <4> HIDE DEF n, m
      <4>2. ~(m < n) /\ m # 0
        BY <4>1
      <4> QED
        BY <4>2 DEF n, m
    <3> QED
      BY <2>2, <2>4, <3>1, EmptySeq
  <2> QED
    BY <1>2, <2>5 DEF Partial
<1> QED
  BY <1>1, <1>2, <1>4, ConcatEmptySeq

(* There is room to read into.                                             *)
LEMMA RoomLeft == ASSUME TextInv PROVE space # 0
<1>1. Len(_buf) < 3 /\ Len(_buf) \in Nat
  BY ShortBuffer DEF TextInv
<1> QED
  BY <1>1, SizesAssumption DEF space

LEMMA FileEnds ==
    ASSUME EndInv, TextInv, HInv, OwnedWhileOpen, EndOfFile PROVE EndInv'
<1>1. window = "open" /\ pipe = <<>>
  BY RoomLeft DEF EndOfFile, Readable
<1>2. "pts" \notin childfds
  BY <1>1 DEF EndOfFile, Readable
<1>3. child # "forked" /\ child # "running"
  BY <1>2 DEF HInv, HeldAt, HeldWhileOpen
<1>4. Ended
  BY <1>1, <1>3 DEF EndInv, Ended
<1>5. child' \in {child, "reaped"}
  BY DEF EndOfFile, te_pty_restore
<1>6. /\ at' = at /\ pipe' = pipe /\ written' = written /\ delivered' = delivered
      /\ window' = "closed"
  BY DEF EndOfFile, event_childexit
<1>7. at # "window"
  BY <1>1 DEF OwnedWhileOpen
<1>8. IsText' = IsText /\ (IsText => delivered = written)
  BY <1>1, <1>6, NothingMissing DEF IsText
<1> QED
  BY <1>1, <1>4, <1>5, <1>6, <1>7, <1>8 DEF EndInv, EofMeansAll, Ended

LEMMA ReadGoesOn ==
    ASSUME EndInv, OwnedWhileOpen, Read PROVE EndInv'
<1>1. window = "open" /\ at' = at /\ at # "window" /\ told # "eof"
  BY ReadEither DEF EndInv, OwnedWhileOpen
<1>2. \/ UNCHANGED <<child, window>>
      \/ child' \in {child, "reaped"} /\ window' = "closed"
  BY ReadEither DEF te_pty_restore, event_childexit
<1>3. told' # "eof"
  <2>1. told' \in {told, "empty"}
    BY DEF Read, event_childexit
  <2> QED
    BY <1>1, <2>1
<1> QED
  BY <1>1, <1>2, <1>3 DEF EndInv, EofMeansAll

(* The other steps.                                                        *)
LEMMA EndStays ==
    ASSUME EndInv, told' = told, told = "eof" => Ended',
           told = "eof" => UNCHANGED <<window, pipe, written, delivered>>,
           at' = "window" \/ window' = "open" => child' # "none",
           child' \in {"none", "forked", "running", "closed", "waitable", "reaped"}
    PROVE  EndInv'
<1>1. CASE told = "eof"
  BY <1>1 DEF EndInv, EofMeansAll, IsText
<1>2. CASE told # "eof"
  BY <1>2 DEF EndInv, EofMeansAll
<1> QED
  BY <1>1, <1>2

LEMMA StartEnds ==
    ASSUME EndInv, OwnedWhileOpen, HInv,
           _spawnTerm_cb \/ te_pty_spawn \/ child_setup
    PROVE  EndInv'
<1>1. told' = told /\ UNCHANGED <<pipe, written, delivered>>
  BY DEF _spawnTerm_cb, te_pty_spawn, Succeed, fail, Failed, fork,
         TermWindow, child_setup, slaveVars, ioVars, ptyVars
<1>2. told = "eof" => window = "closed" /\ Ended
  BY DEF EndInv, EofMeansAll
<1>3. CASE _spawnTerm_cb \/ Succeed \/ fail \/ Failed
  <2>1. child' = child /\ window' = window
    BY <1>3 DEF _spawnTerm_cb, Succeed, fail, Failed, slaveVars
  <2>2. at' # "window"
    BY <1>3 DEF _spawnTerm_cb, Succeed, fail, Failed, Gives, Following
  <2> QED
    BY <1>1, <1>2, <2>1, <2>2, EndStays DEF EndInv, Ended
<1>4. CASE fork
  <2>1. told # "eof" /\ child' = "forked"
    BY <1>2, <1>4 DEF fork, OwnedWhileOpen
  <2> QED
    BY <1>1, <2>1, EndStays
<1>5. CASE TermWindow
  <2>1. told # "eof" /\ child' = child /\ child # "none"
    BY <1>2, <1>5 DEF TermWindow, OwnedWhileOpen, slaveVars, EndInv
  <2> QED
    BY <1>1, <2>1, EndStays DEF EndInv
<1>6. CASE child_setup
  <2>1. /\ told # "eof" /\ child' = "running"
    BY <1>2, <1>6 DEF child_setup, Ended
  <2> QED
    BY <1>1, <2>1, EndStays
<1> QED
  BY <1>3, <1>4, <1>5, <1>6 DEF te_pty_spawn

LEMMA NextEnds ==
    EndInv /\ TextInv /\ HInv /\ OwnedWhileOpen /\ [Next]_vars => EndInv'
<1> SUFFICES ASSUME EndInv, TextInv, HInv, OwnedWhileOpen, [Next]_vars
             PROVE  EndInv'
  OBVIOUS
<1>0. told = "eof" => window = "closed" /\ Ended
  BY DEF EndInv, EofMeansAll
<1>1. CASE EndOfFile
  BY <1>1, FileEnds
<1>2. CASE Read
  BY <1>2, ReadGoesOn
<1>3. CASE _spawnTerm_cb \/ te_pty_spawn \/ child_setup
  BY <1>3, StartEnds
<1>4. CASE child_write
  <2>1. told # "eof"
    BY <1>0, <1>4 DEF child_write, Ended
  <2>2. at' = at /\ window' = window /\ child' = child /\ told' = told
    BY <1>4 DEF child_write, ptyVars, ioVars
  <2> QED
    BY <2>1, <2>2, EndStays DEF EndInv
<1>5. CASE child_exit
  <2>1. UNCHANGED <<at, window, told, pipe, written, delivered>>
        /\ child' \in {"closed", "waitable"}
    BY <1>5 DEF child_exit, ptyVars, ioVars
  <2> QED
    BY <2>1, EndStays DEF EndInv, Ended
<1>6. CASE _close
  <2>1. told # "eof" /\ told' = told
    BY <1>0, <1>6 DEF _close
  <2>2. at' = at /\ window' = "closed" /\ child' \in {child, "reaped"}
    BY <1>6 DEF _close, te_pty_restore
  <2>3. at # "window"
    BY <1>6 DEF _close, OwnedWhileOpen
  <2> QED
    BY <2>1, <2>2, <2>3, EndStays DEF EndInv
<1>7. CASE te_position \/ Tick \/ _deferred_update_cb \/ redraw \/ draw
           \/ UNCHANGED vars
  <2>1. UNCHANGED <<at, child, window, told, pipe, written, delivered>>
    BY <1>7 DEF te_position, Tick, _deferred_update_cb, redraw, draw, vars,
                slaveVars, ioVars, ptyVars
  <2> QED
    BY <1>0, <2>1, EndStays DEF EndInv, Ended
<1> QED
  BY <1>1, <1>2, <1>3, <1>4, <1>5, <1>6, <1>7 DEF Next, _fromSlave

LEMMA AlwaysEnds == Spec => []EndInv
<1>1. Init => EndInv
  BY NullAssumption DEF Init, EndInv, EofMeansAll
<1> QED
  BY <1>1, NextEnds, AlwaysInOrder, AlwaysHolds, AlwaysOwned, PTL DEF Spec

(* An end of file is the end (EofMeansAll): the child has closed its side, *)
(* all it wrote is read, and a text is delivered to its last character.    *)
THEOREM EofAlwaysMeansAll == Spec => []EofMeansAll
<1>1. EndInv => EofMeansAll
  BY DEF EndInv
<1> QED
  BY <1>1, AlwaysEnds, PTL

(* What the order of the text and the end of file leave of TypeOK.         *)
Typed ==
    /\ held \subseteq {"env", "err", "pty", "ptm", "pts"}
    /\ childfds \subseteq {"ptm", "pts"}
    /\ written \in Seq(Output)
    /\ _pty \in BOOLEAN /\ restored \in Nat
    /\ told \in {NULL, "eof", "empty"}
    /\ timer \in 0 .. Delay \union {NULL}
    /\ damage \in BOOLEAN /\ undrawn \in BOOLEAN

LEMMA ClosingTyped ==
    ASSUME Typed, _close \/ EndOfFile \/ Read PROVE Typed'
<1>1. /\ childfds' = childfds /\ written' = written /\ _pty' \in BOOLEAN
      /\ damage' = damage
  BY ReadEither DEF Typed, _close, EndOfFile, Read, widgetVars, fe_updated
<1>2. /\ held' \in {held, held \ {"ptm", "pty"}} /\ told' \in {told, "eof", "empty"}
      /\ restored' \in Nat
  <2>1. \A x \in BOOLEAN : Destroyed(x) \in {0, 1}
    BY DEF Destroyed
  <2>2. CASE _close
    <3> DEFINE n == Destroyed(_pty)
    <3>1. n \in {0, 1} /\ restored \in Nat
      BY <2>1 DEF Typed
    <3>2. /\ restored' = restored + n /\ told' = told
          /\ held' = IF n > 0 THEN held \ {"ptm", "pty"} ELSE held
      BY <2>2 DEF _close, te_pty_restore
    <3> HIDE DEF n
    <3> QED
      BY <3>1, <3>2
  <2>3. CASE EndOfFile
    <3> DEFINE n == 1 + Destroyed(FALSE)
    <3>1. n = 1 /\ restored \in Nat
      BY DEF Destroyed, Typed
    <3>2. te_pty_restore(n) /\ told' = "eof"
      BY <2>3 DEF EndOfFile, event_childexit
    <3> HIDE DEF n
    <3>3. /\ restored' = restored + n
          /\ held' = IF n > 0 THEN held \ {"ptm", "pty"} ELSE held
      BY <3>2 DEF te_pty_restore
    <3> QED
      BY <3>1, <3>2, <3>3
  <2>4. CASE Read
    <3>1. told' \in {told, "empty"}
      BY <2>4 DEF Read, event_childexit
    <3> QED
      BY <2>1, <2>4, <3>1, ReadEither DEF Typed, te_pty_restore
  <2> QED
    BY <2>2, <2>3, <2>4
<1>3. timer' \in {timer, Delay} /\ undrawn' \in {undrawn, TRUE}
  BY DEF _close, EndOfFile, Read, widgetVars, fe_updated
<1>4. Delay \in 0 .. Delay
  BY SizesAssumption
<1> QED
  BY <1>1, <1>2, <1>3, <1>4 DEF Typed

LEMMA NextTyped == Typed /\ [Next]_vars => Typed'
<1> SUFFICES ASSUME Typed, [Next]_vars PROVE Typed'
  OBVIOUS
<1>1. CASE _spawnTerm_cb \/ Failed \/ fork \/ TermWindow \/ child_setup \/ fail
  BY <1>1 DEF Typed, _spawnTerm_cb, Failed, fork, TermWindow, child_setup, fail,
              slaveVars, ioVars, ptyVars, widgetVars
<1>2. CASE Succeed
  <2>1. Gives[at] \subseteq {"pty", "ptm", "pts"}
    BY <1>2 DEF Succeed, Gives
  <2> QED
    BY <1>2, <2>1 DEF Typed, Succeed, slaveVars, ioVars, widgetVars
<1>3. CASE child_write
  <2>1. written' \in Seq(Output)
    BY <1>3, AppendProperties DEF Typed, child_write
  <2> QED
    BY <1>3, <2>1 DEF Typed, child_write, ptyVars, ioVars, widgetVars
<1>4. CASE child_exit
  BY <1>4 DEF Typed, child_exit, ptyVars, ioVars, widgetVars
<1>5. CASE _close \/ _fromSlave
  BY <1>5, ClosingTyped DEF _fromSlave
<1>6. CASE te_position \/ _deferred_update_cb \/ redraw \/ draw
  <2>1. Delay \in 0 .. Delay
    BY SizesAssumption
  <2> QED
    BY <1>6, <2>1 DEF Typed, te_position, _deferred_update_cb, redraw, draw,
                      fe_updated, slaveVars, ptyVars, ioVars
<1>7. CASE Tick
  <2>1. timer \in 0 .. Delay /\ timer > 0 /\ timer' = timer - 1
    BY <1>7 DEF Tick, Typed
  <2>2. timer' \in 0 .. Delay
    BY <2>1, SizesAssumption
  <2> QED
    BY <1>7, <2>2 DEF Typed, Tick, slaveVars, ptyVars, ioVars
<1>8. CASE UNCHANGED vars
  BY <1>8 DEF Typed, vars, slaveVars, ptyVars, ioVars, widgetVars
<1> QED
  BY <1>1, <1>2, <1>3, <1>4, <1>5, <1>6, <1>7, <1>8 DEF Next, te_pty_spawn

(* The state has its type (TypeOK): no more is left in PtyIO's buffer than *)
(* part of one character, te_pty_spawn is at a call of its own, and the    *)
(* redraw timer never runs past its delay.                                 *)
THEOREM FrontendTyped == Spec => []TypeOK
<1>1. Init => Typed
  <2>1. <<>> \in Seq(Output)
    BY EmptySeq
  <2> SUFFICES ASSUME Init PROVE Typed
    OBVIOUS
  <2>2. /\ held = {} /\ childfds = {} /\ written = <<>> /\ _pty = FALSE
        /\ restored = 0 /\ told = NULL /\ timer = NULL
        /\ damage = FALSE /\ undrawn = FALSE
    BY DEF Init
  <2> QED
    BY <2>1, <2>2 DEF Typed
<1>2. Typed /\ TextInv /\ HInv /\ EndInv /\ OwnedWhileOpen => TypeOK
  <2> SUFFICES ASSUME Typed, TextInv, HInv, EndInv, OwnedWhileOpen PROVE TypeOK
    OBVIOUS
  <2>1. Len(_buf) < 3
    BY ShortBuffer DEF TextInv
  <2>2. /\ pipe \in Seq(Bytes) /\ _buf \in Seq(Bytes)
        /\ delivered \in Seq(DOMAIN Length)
    BY DEF TextInv, Chars
  <2>3. /\ at \in DOMAIN Gives \union {"fork", "window", "failed", "idle"}
        /\ child \in {"none", "forked", "running", "closed", "waitable", "reaped"}
        /\ window \in {"none", "open", "closed"}
    BY DEF HInv, HeldAt, EndInv, OwnedWhileOpen
  <2> QED
    BY <2>1, <2>2, <2>3 DEF Typed, TypeOK
<1> QED
  BY <1>1, <1>2, NextTyped, AlwaysInOrder, AlwaysHolds, AlwaysEnds, AlwaysOwned,
     PTL DEF Spec
=============================================================================
