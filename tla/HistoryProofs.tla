--------------------------- MODULE HistoryProofs ---------------------------
(***************************************************************************)
(* The ring of history.c is a bounded stack, for every set of lines, every *)
(* capacity and every width of the position counter, and over its wraps,   *)
(* but for the two steps that IsStack names.                               *)
(***************************************************************************)
EXTENDS History, FiniteSetTheorems, SequenceTheorems, TLAPS

-----------------------------------------------------------------------------
(* Residues.                                                               *)

(* Quotient and residue of x.                                              *)
LEMMA ModDef ==
    ASSUME NEW x \in Int, NEW n \in Nat \ {0}
    PROVE  \E q \in Int, r \in 0 .. n - 1 : x = n * q + r /\ r = x % n
<1>1. x \div n \in Int /\ x % n \in 0 .. n - 1
  OBVIOUS
<1>2. \A q, r \in Int : q = x \div n /\ r = x % n => x = n * q + r
  OBVIOUS
<1>3. PICK q \in Int, r \in 0 .. n - 1 : q = x \div n /\ r = x % n
  BY <1>1, Zenon
<1>4. x = n * q + r
  BY <1>2, <1>3
<1> QED
  BY <1>3, <1>4, Zenon

(* Multiples of n less than n apart are the same.                          *)
LEMMA SmallMultiple ==
    ASSUME NEW n \in Nat \ {0}, NEW q \in Int, -n < n * q, n * q < n
    PROVE  q = 0
<1>1. CASE q >= 1
  <2>1. n * q >= n
    BY <1>1
  <2> QED
    BY <2>1
<1>2. CASE q <= -1
  <2>1. n * q <= -n
    BY <1>2
  <2> QED
    BY <2>1
<1> QED
  BY <1>1, <1>2

LEMMA ModUnique ==
    ASSUME NEW n \in Nat \ {0}, NEW x \in Int, NEW q \in Int,
           NEW r \in 0 .. n - 1, x = n * q + r
    PROVE  x % n = r
<1>1. PICK p \in Int, s \in 0 .. n - 1 : x = n * p + s /\ s = x % n
  BY ModDef, Zenon
<1>2. x = n * p + s
  BY <1>1, Zenon
<1>3. n * (p - q) = n * p - n * q /\ n * p \in Int /\ n * q \in Int
  OBVIOUS
<1>4. n * (p - q) = r - s
  BY <1>2, <1>3
<1>5. p - q = 0
  BY <1>4, SmallMultiple
<1>6. n * (p - q) = 0
  BY <1>5
<1>7. r = s
  BY <1>4, <1>6
<1> QED
  BY <1>1, <1>7, Zenon

LEMMA ModShift ==
    ASSUME NEW n \in Nat \ {0}, NEW x \in Int, NEW q \in Int
    PROVE  (x + n * q) % n = x % n
<1>1. PICK p \in Int, s \in 0 .. n - 1 : x = n * p + s /\ s = x % n
  BY ModDef, Zenon
<1>2. x = n * p + s
  BY <1>1, Zenon
<1>3. PICK k \in Int : k = p + q
  OBVIOUS
<1>4. PICK y \in Int : y = x + n * q
  <2>1. x + n * q \in Int
    OBVIOUS
  <2> QED
    BY <2>1, Zenon
<1>5. n * (p + q) = n * p + n * q /\ n * p \in Int /\ n * q \in Int
  OBVIOUS
<1>6. y = n * k + s
  BY <1>2, <1>3, <1>4, <1>5
<1>7. y % n = s
  BY <1>6, ModUnique, Zenon
<1> QED
  BY <1>1, <1>4, <1>7, Zenon

(* n consecutive numbers have n different residues.                        *)
LEMMA ModInjective ==
    ASSUME NEW n \in Nat \ {0}, NEW x \in Int,
           NEW a \in 0 .. n - 1, NEW b \in 0 .. n - 1,
           (x - a) % n = (x - b) % n
    PROVE  a = b
<1>1. x - a \in Int /\ x - b \in Int
  OBVIOUS
<1>2. PICK p \in Int, s \in 0 .. n - 1 : x - a = n * p + s /\ s = (x - a) % n
  BY <1>1, ModDef, Zenon
<1>3. PICK q \in Int, r \in 0 .. n - 1 : x - b = n * q + r /\ r = (x - b) % n
  BY <1>1, ModDef, Zenon
<1>4. r = s
  BY <1>2, <1>3, Zenon
<1>5. n * (p - q) = n * p - n * q /\ n * p \in Int /\ n * q \in Int
  OBVIOUS
<1>6. n * (p - q) = b - a
  BY <1>2, <1>3, <1>4, <1>5
<1>7. p - q = 0
  BY <1>6, SmallMultiple
<1>8. n * (p - q) = 0
  BY <1>7
<1> QED
  BY <1>6, <1>8

-----------------------------------------------------------------------------
(* Where the entries are.                                                  *)

(* The entry of a line when pos is p.                                      *)
At(p, age) == Entry(p - 1 - age)

(* A ring with entries.                                                    *)
Ring ==
    /\ capacity \in Nat \ {0}
    /\ Modulus \in Nat \ {0}
    /\ capacity <= Modulus

LEMMA EntryInRing ==
    ASSUME Ring, NEW i \in Int
    PROVE  Entry(i) \in Slots
<1>1. \A x \in Int, n \in Nat \ {0} : x % n \in 0 .. n - 1
  OBVIOUS
<1>2. PICK r \in Int : r = i % Modulus
  BY <1>1 DEF Ring
<1>3. r % capacity \in 0 .. capacity - 1
  BY <1>1, Zenon DEF Ring
<1> QED
  BY <1>2, <1>3, Zenon DEF Entry, Slots

(* That pos is cut to an unsigned int leaves every line in its entry.      *)
LEMMA EntryOfCut ==
    ASSUME Ring, NEW x \in Int, NEW y \in Int
    PROVE  Entry((x % Modulus) - y) = Entry(x - y)
<1>1. Modulus \in Nat \ {0}
  BY DEF Ring
<1>2. PICK q \in Int, r \in 0 .. Modulus - 1 :
        x = Modulus * q + r /\ r = x % Modulus
  BY <1>1, ModDef, Zenon
<1>3. PICK z \in Int : z = r - y
  BY <1>1
<1>4. x - y = z + Modulus * q
  BY <1>1, <1>2, <1>3
<1>5. (z + Modulus * q) % Modulus = z % Modulus
  BY <1>1, ModShift, Zenon
<1> QED
  BY <1>2, <1>3, <1>4, <1>5, Zenon DEF Entry

(* A store moves no line, it makes each of them older by one; a fetch      *)
(* makes them younger.                                                     *)
LEMMA StoreAges ==
    ASSUME Ring, pos \in Int, NEW q, q = (pos + 1) % Modulus
    PROVE  /\ At(q, 0) = Entry(pos)
           /\ \A age \in Int : At(q, age + 1) = At(pos, age)
<1>1. ASSUME NEW age \in Int
      PROVE  At(q, age) = Entry(pos - age)
  <2>1. PICK x \in Int, y \in Int : x = pos + 1 /\ y = 1 + age
    OBVIOUS
  <2>2. Entry((x % Modulus) - y) = Entry(x - y)
    BY EntryOfCut, Zenon
  <2>3. (x % Modulus) - y = q - 1 - age /\ x - y = pos - age
    <3>1. q \in Int
      BY DEF Ring
    <3>2. q = x % Modulus
      BY <2>1, Zenon
    <3> QED
      BY <2>1, <3>1, <3>2
  <2> QED
    BY <2>2, <2>3, Zenon DEF At
<1>2. pos - 0 = pos /\ 0 \in Int
  OBVIOUS
<1>3. ASSUME NEW age \in Int
      PROVE  age + 1 \in Int /\ pos - (age + 1) = pos - 1 - age
  OBVIOUS
<1> QED
  BY <1>1, <1>2, <1>3, Zenon DEF At

LEMMA FetchAges ==
    ASSUME Ring, pos \in Int, NEW q, q = (pos - 1) % Modulus
    PROVE  /\ At(pos, 0) = Entry(pos - 1)
           /\ \A age \in Int : At(q, age) = At(pos, age + 1)
<1>1. ASSUME NEW age \in Int
      PROVE  At(q, age) = At(pos, age + 1)
  <2>1. PICK x \in Int, y \in Int : x = pos - 1 /\ y = 1 + age
    OBVIOUS
  <2>2. Entry((x % Modulus) - y) = Entry(x - y)
    BY EntryOfCut, Zenon
  <2>3. (x % Modulus) - y = q - 1 - age /\ x - y = pos - 1 - (age + 1)
    <3>1. q \in Int
      BY DEF Ring
    <3>2. q = x % Modulus
      BY <2>1, Zenon
    <3> QED
      BY <2>1, <3>1, <3>2
  <2> QED
    BY <2>2, <2>3, Zenon DEF At
<1>2. pos - 1 - 0 = pos - 1
  OBVIOUS
<1> QED
  BY <1>1, <1>2, Zenon DEF At

(* The values of pos are whole rings and Rest entries more.                *)
LEMMA RestIs ==
    ASSUME Ring
    PROVE  /\ Rest \in 1 .. capacity
           /\ \E k \in Int : Modulus = capacity * k + Rest
<1>1. PICK x \in Int : x = Modulus - 1
  BY DEF Ring
<1>2. capacity \in Nat \ {0} /\ Modulus \in Nat \ {0}
  BY DEF Ring
<1>3. PICK k \in Int, r \in 0 .. capacity - 1 :
        x = capacity * k + r /\ r = x % capacity
  BY <1>2, ModDef, Zenon
<1>4. Rest = 1 + r
  BY <1>1, <1>3, Zenon DEF Rest
<1>5. Modulus = capacity * k + (1 + r) /\ 1 + r \in 1 .. capacity
  BY <1>1, <1>2, <1>3
<1> QED
  BY <1>4, <1>5, Zenon

(* The entry of a line stored before pos wrapped, and of one stored since. *)
LEMMA AtIs ==
    ASSUME Ring, NEW p \in 0 .. Modulus - 1, NEW age \in 0 .. capacity - 1
    PROVE  /\ age < p => At(p, age) = (p - 1 - age) % capacity
           /\ age >= p => At(p, age) = (Modulus + p - 1 - age) % capacity
<1>1. capacity \in Nat \ {0} /\ Modulus \in Nat \ {0} /\ capacity <= Modulus
  BY DEF Ring
<1>2. CASE age < p
  <2>1. PICK i \in 0 .. Modulus - 1 : i = p - 1 - age
    BY <1>1, <1>2
  <2>2. i % Modulus = i
    BY <1>1
  <2> QED
    BY <1>1, <1>2, <2>1, <2>2 DEF At, Entry
<1>3. CASE age >= p
  <2>1. PICK i \in 0 .. Modulus - 1 : i = Modulus + p - 1 - age
    BY <1>1, <1>3
  <2>2. PICK j \in Int : j = p - 1 - age
    OBVIOUS
  <2>3. j = Modulus * (-1) + i
    BY <1>1, <2>1, <2>2
  <2>4. j % Modulus = i
    <3>1. -1 \in Int
      OBVIOUS
    <3> QED
      BY <1>1, <2>3, <3>1, ModUnique, Zenon
  <2>5. At(p, age) = i % capacity
    BY <2>2, <2>4, Zenon DEF At, Entry
  <2> QED
    BY <1>3, <2>1, <2>5
<1> QED
  BY <1>1, <1>2, <1>3

(* Room lines have entries of their own.                                   *)
LEMMA AgesApart ==
    ASSUME Ring, NEW p \in 0 .. Modulus - 1, NEW n \in Nat, n <= Room(p),
           NEW a \in 0 .. n - 1, NEW b \in 0 .. n - 1, At(p, a) = At(p, b)
    PROVE  a = b
<1>0. At(p, a) = At(p, b)
  OBVIOUS
<1>1. capacity \in Nat \ {0} /\ Modulus \in Nat \ {0} /\ capacity <= Modulus
  BY DEF Ring
<1>2. Rest \in 1 .. capacity
  BY RestIs
<1>3. Room(p) <= capacity
  BY <1>1, <1>2 DEF Room
<1>4. a \in 0 .. capacity - 1 /\ b \in 0 .. capacity - 1
  <2>1. Room(p) \in Int
    BY <1>1, <1>2 DEF Room
  <2> QED
    BY <1>1, <1>3, <2>1
<1>5. ASSUME NEW x \in Int, (x - a) % capacity = (x - b) % capacity
      PROVE  a = b
  BY <1>1, <1>4, <1>5, ModInjective, Zenon
<1>6. ASSUME NEW c \in 0 .. n - 1, NEW d \in 0 .. n - 1,
             c \in 0 .. capacity - 1, d \in 0 .. capacity - 1, c < p, d >= p
      PROVE  At(p, c) # At(p, d)
  <2>1. p < capacity /\ p # 0 /\ d < Rest
    BY <1>1, <1>2, <1>6 DEF Room
  <2>2. At(p, c) = p - 1 - c
    <3>1. PICK i \in 0 .. capacity - 1 : i = p - 1 - c
      BY <1>1, <1>6, <2>1
    <3>2. i % capacity = i
      BY <1>1
    <3> QED
      BY <1>6, <3>1, <3>2, AtIs
  <2>3. PICK k \in Int : Modulus = capacity * k + Rest
    BY RestIs
  <2>4. PICK i \in 0 .. capacity - 1 : i = Rest + p - 1 - d
    BY <1>1, <1>2, <1>6, <2>1
  <2>5. PICK j \in Int : j = Modulus + p - 1 - d
    BY <1>1
  <2>6. j = capacity * k + i
    <3>1. capacity * k \in Int
      BY <1>1
    <3> QED
      BY <1>1, <1>2, <2>3, <2>4, <2>5, <3>1
  <2>7. j % capacity = i
    BY <1>1, <2>6, ModUnique, Zenon
  <2>8. At(p, d) = i
    BY <1>6, <2>5, <2>7, AtIs
  <2> QED
    BY <1>1, <1>2, <1>6, <2>1, <2>2, <2>4, <2>8
<1>7. CASE a < p /\ b < p
  <2>1. At(p, a) = (p - 1 - a) % capacity /\ At(p, b) = (p - 1 - b) % capacity
    BY <1>4, <1>7, AtIs
  <2>2. PICK x \in Int : x = p - 1
    OBVIOUS
  <2>3. x - a = p - 1 - a /\ x - b = p - 1 - b
    BY <2>2
  <2>4. (x - a) % capacity = At(p, a) /\ (x - b) % capacity = At(p, b)
    BY <2>1, <2>3, Zenon
  <2>5. (x - a) % capacity = (x - b) % capacity
    BY <1>0, <2>4
  <2> QED
    BY <1>5, <2>5
<1>8. CASE a >= p /\ b >= p
  <2>1. /\ At(p, a) = (Modulus + p - 1 - a) % capacity
        /\ At(p, b) = (Modulus + p - 1 - b) % capacity
    BY <1>4, <1>8, AtIs
  <2>2. PICK x \in Int : x = Modulus + p - 1
    BY <1>1
  <2>3. x - a = Modulus + p - 1 - a /\ x - b = Modulus + p - 1 - b
    BY <1>1, <2>2
  <2>4. (x - a) % capacity = At(p, a) /\ (x - b) % capacity = At(p, b)
    BY <2>1, <2>3, Zenon
  <2>5. (x - a) % capacity = (x - b) % capacity
    BY <1>0, <2>4
  <2> QED
    BY <1>5, <2>5
<1>9. CASE a < p /\ b >= p
  BY <1>4, <1>6, <1>9
<1>10. CASE a >= p /\ b < p
  BY <1>4, <1>6, <1>10
<1> QED
  BY <1>7, <1>8, <1>9, <1>10

-----------------------------------------------------------------------------
(* The inductive invariant.  Window alone is not one: that a store counts  *)
(* right needs the entries in use named, and depth kept within the lines   *)
(* that have entries of their own.                                         *)

Used == {s \in Slots : data[s] # NULL}

Counted == size = Cardinality(Used)

Filled == \A age \in 0 .. depth - 1 : data[At(pos, age)] # NULL

(* Nothing torn: the entries in use are those of the ages below depth.     *)
Tidy ==
    ~ torn =>
        /\ size = depth
        /\ \A s \in Used : \E age \in 0 .. depth - 1 : s = At(pos, age)

IInv ==
    /\ TypeOK
    /\ depth <= Room(pos)
    /\ Counted
    /\ Filled
    /\ Tidy

LEMMA RingOf ==
    ASSUME TypeOK, capacity # 0
    PROVE  Ring /\ pos \in 0 .. Modulus - 1
BY CapacityAssumption DEF TypeOK, Ring

LEMMA RoomOf ==
    ASSUME Ring, NEW p \in Nat
    PROVE  Room(p) \in 1 .. capacity
BY RestIs DEF Ring, Room

LEMMA SlotsFinite ==
    ASSUME capacity \in Nat, NEW S \in SUBSET Slots
    PROVE  IsFiniteSet(S) /\ Cardinality(S) \in 0 .. capacity
<1>1. IsFiniteSet(Slots) /\ Cardinality(Slots) = capacity
  <2>1. 0 \in Int /\ capacity - 1 \in Int
    OBVIOUS
  <2>2. /\ IsFiniteSet(0 .. capacity - 1)
        /\ Cardinality(0 .. capacity - 1)
             = IF 0 > capacity - 1 THEN 0 ELSE capacity - 1 - 0 + 1
    BY <2>1, FS_Interval, Zenon
  <2> QED
    BY <2>2 DEF Slots
<1>2. IsFiniteSet(S) /\ Cardinality(S) <= Cardinality(Slots)
  BY <1>1, FS_Subset, Zenon
<1>3. Cardinality(S) \in Nat
  BY <1>2, FS_CardinalityType, Zenon
<1> QED
  BY <1>1, <1>2, <1>3

LEMMA UsedFinite ==
    ASSUME TypeOK
    PROVE  capacity \in Nat /\ Used \in SUBSET Slots /\ IsFiniteSet(Used)
<1>1. capacity \in Nat
  BY CapacityAssumption DEF TypeOK
<1>2. Used \in SUBSET Slots
  BY DEF Used
<1> QED
  BY <1>1, <1>2, SlotsFinite, Zenon

(* What Counted says of a new state, of which TypeOK is not known yet.     *)
LEMMA SizeTyped ==
    ASSUME TypeOK, capacity' = capacity, Counted'
    PROVE  size' \in 0 .. capacity
<1>1. Used' \in SUBSET Slots /\ capacity \in Nat
  BY CapacityAssumption DEF Used, Slots, TypeOK
<1>2. Cardinality(Used') \in 0 .. capacity
  BY <1>1, SlotsFinite, Zenon
<1> QED
  BY <1>2, Zenon DEF Counted

(* A ring just made or cleared.                                            *)
LEMMA EmptyRing ==
    ASSUME capacity \in Capacities, data = [s \in Slots |-> NULL], size = 0,
           pos = 0, row \in Lines \union {Blank}, depth = 0, torn = FALSE
    PROVE  IInv
<1>1. capacity \in Nat /\ capacity <= Modulus /\ Modulus \in Nat \ {0}
  BY CapacityAssumption
<1>2. TypeOK
  <2>1. data \in [Slots -> Lines \union {NULL}]
    OBVIOUS
  <2>2. 0 \in 0 .. capacity /\ 0 \in 0 .. Modulus - 1 /\ FALSE \in BOOLEAN
    BY <1>1
  <2> QED
    BY <2>1, <2>2, Zenon DEF TypeOK
<1>3. Used = {}
  BY DEF Used
<1>4. Counted
  BY <1>3, FS_EmptySet DEF Counted
<1>5. depth <= Room(pos)
  BY <1>1 DEF Room
<1>6. Filled
  BY DEF Filled
<1>7. Tidy
  BY <1>3 DEF Tidy
<1> QED
  BY <1>2, <1>4, <1>5, <1>6, <1>7 DEF IInv

LEMMA InitOK ==
    ASSUME Init
    PROVE  IInv
BY EmptyRing DEF Init

LEMMA ClearOK ==
    ASSUME IInv, history_clear
    PROVE  IInv'
<1>1. capacity' = capacity /\ capacity \in Nat /\ capacity <= Modulus
      /\ Modulus \in Nat \ {0}
  BY CapacityAssumption DEF history_clear, IInv, TypeOK
<1>2. data' = [s \in Slots |-> NULL] /\ size' = 0 /\ pos' = 0 /\ row' = row
      /\ depth' = 0 /\ torn' = FALSE /\ Slots' = Slots
  BY <1>1 DEF history_clear, Slots
<1>3. TypeOK'
  <2>1. data' \in [Slots -> Lines \union {NULL}]
    BY <1>2
  <2>2. 0 \in 0 .. capacity /\ 0 \in 0 .. Modulus - 1 /\ FALSE \in BOOLEAN
    BY <1>1
  <2> QED
    BY <1>1, <1>2, <2>1, <2>2, Zenon DEF IInv, TypeOK
<1>4. Used' = {}
  BY <1>2 DEF Used
<1>5. Counted'
  BY <1>2, <1>4, FS_EmptySet DEF Counted
<1>6. (depth <= Room(pos))'
  BY <1>1, <1>2 DEF Room
<1>7. Filled' /\ Tidy'
  BY <1>2, <1>4 DEF Filled, Tidy
<1> QED
  BY <1>3, <1>5, <1>6, <1>7 DEF IInv

(* The same ring: no store, no fetch.                                      *)
LEMMA StillOK ==
    ASSUME IInv, capacity' = capacity, data' = data, size' = size, pos' = pos,
           depth' = depth, torn' = torn, row' \in Lines \union {Blank}
    PROVE  IInv'
BY DEF IInv, TypeOK, Counted, Filled, Tidy, Used, Slots, Room, Rest, At, Entry

-----------------------------------------------------------------------------
(* A store.                                                                *)

(* Where a line goes in the ring, and where the others are then.           *)
LEMMA StoreMoves ==
    ASSUME IInv, NEW line \in Lines, history_store(line)
    PROVE  /\ Ring /\ pos \in 0 .. Modulus - 1
           /\ capacity' = capacity /\ Slots' = Slots
           /\ pos' \in 0 .. Modulus - 1
           /\ Entry(pos) \in Slots
           /\ At(pos', 0) = Entry(pos)
           /\ \A age \in Int : At(pos', age + 1) = At(pos, age)
           /\ \A age \in Int : At(pos, age)' = At(pos', age)
<1>1. Ring /\ pos \in 0 .. Modulus - 1 /\ capacity' = capacity
  BY RingOf DEF history_store, IInv
<1>2. Slots' = Slots
  BY <1>1, Zenon DEF Slots
<1>3. pos' = (pos + 1) % Modulus /\ pos \in Int
  BY <1>1 DEF history_store
<1>4. pos' \in 0 .. Modulus - 1
  <2>1. \A x \in Int, m \in Nat \ {0} : x % m \in 0 .. m - 1
    OBVIOUS
  <2>2. pos + 1 \in Int
    BY <1>3
  <2> QED
    BY <1>1, <1>3, <2>1, <2>2, Zenon DEF Ring
<1>5. Entry(pos) \in Slots
  BY <1>1, <1>3, EntryInRing, Zenon
<1>6. /\ At(pos', 0) = Entry(pos)
      /\ \A age \in Int : At(pos', age + 1) = At(pos, age)
  BY <1>1, <1>3, StoreAges, Zenon
<1> QED
  BY <1>1, <1>2, <1>4, <1>5, <1>6, Zenon DEF At, Entry

(* A store where there is no room takes the entry of the oldest line, but  *)
(* for the one that tears the ring.                                        *)
LEMMA OldestEntry ==
    ASSUME Ring, pos \in 0 .. Modulus - 1, depth \in 0 .. capacity,
           depth <= Room(pos), pos' = (pos + 1) % Modulus,
           ~ (pos = 0 /\ depth > Rest), ~ (depth < Room(pos'))
    PROVE  /\ depth = Room(pos') /\ depth # 0
           /\ At(pos, depth - 1) = Entry(pos)
<1>1. capacity \in Nat \ {0} /\ Modulus \in Nat \ {0} /\ capacity <= Modulus
  BY DEF Ring
<1>2. Rest \in 1 .. capacity
  BY RestIs
<1>3. PICK k \in Int : Modulus = capacity * k + Rest
  BY RestIs
<1>4. \/ pos + 1 = Modulus /\ pos' = 0
      \/ pos + 1 < Modulus /\ pos' = pos + 1
  <2>1. CASE pos + 1 = Modulus
    <3>1. (pos + 1) % Modulus = 0
      BY <1>1, <2>1
    <3> QED
      BY <2>1, <3>1
  <2>2. CASE pos + 1 # Modulus
    <3>1. pos + 1 \in 0 .. Modulus - 1
      BY <1>1, <2>2
    <3>2. (pos + 1) % Modulus = pos + 1
      BY <1>1, <3>1
    <3> QED
      BY <1>1, <2>2, <3>1, <3>2
  <2> QED
    BY <2>1, <2>2
<1>5. PICK i \in 0 .. Modulus - 1 : i = pos
  OBVIOUS
<1>6. PICK a \in 0 .. capacity - 1 : a = depth - 1
  BY <1>1, <1>2, <1>4 DEF Room
<1>10. i \in Int
  BY <1>1
<1>7. Entry(pos) = i % capacity
  <2>1. i % Modulus = i
    BY <1>1
  <2> QED
    BY <1>5, <2>1 DEF Entry
<1>8. CASE a < pos
  <2>1. depth = capacity
    BY <1>1, <1>2, <1>4, <1>6, <1>8 DEF Room
  <2>2. PICK j \in Int : j = i - 1 - a
    BY <1>5
  <2>3. At(pos, a) = j % capacity
    BY <1>5, <1>6, <1>8, <2>2, AtIs
  <2>4. i = j + capacity * 1 /\ 1 \in Int
    BY <1>1, <1>5, <1>6, <2>1, <2>2
  <2>5. (j + capacity * 1) % capacity = j % capacity
    BY <1>1, <2>4, ModShift, Zenon
  <2>6. At(pos, depth - 1) = Entry(pos)
    BY <1>6, <1>7, <2>3, <2>4, <2>5, Zenon
  <2>7. depth = Room(pos')
    BY <1>1, <1>2, <1>4, <2>1 DEF Room
  <2> QED
    BY <1>1, <2>1, <2>6, <2>7
<1>9. CASE a >= pos
  <2>1. depth = Rest /\ depth = Room(pos')
    BY <1>1, <1>2, <1>4, <1>6, <1>9 DEF Room
  <2>2. PICK j \in Int : j = Modulus + i - 1 - a
    BY <1>1, <1>5
  <2>3. At(pos, a) = j % capacity
    BY <1>5, <1>6, <1>9, <2>2, AtIs
  <2>4. j = i + capacity * k
    <3>1. PICK m \in Int : m = capacity * k
      <4>1. capacity * k \in Int
        BY <1>1
      <4> QED
        BY <4>1, Zenon
    <3>2. PICK r \in Int : r = Rest
      BY <1>1, <1>2
    <3>3. Modulus = m + r /\ a = r - 1
      BY <1>3, <1>6, <2>1, <3>1, <3>2, Zenon
    <3>4. j = i + m
      BY <1>1, <1>10, <2>2, <3>2, <3>3
    <3> QED
      BY <3>1, <3>4, Zenon
  <2>5. (i + capacity * k) % capacity = i % capacity
    BY <1>1, <1>10, ModShift, Zenon
  <2>6. At(pos, depth - 1) = Entry(pos)
    BY <1>6, <1>7, <2>3, <2>4, <2>5, Zenon
  <2> QED
    BY <1>2, <2>1, <2>6
<1> QED
  BY <1>5, <1>6, <1>8, <1>9

LEMMA ZeroBelow ==
    ASSUME NEW n \in Nat \ {0}
    PROVE  n \in Nat /\ 0 \in 0 .. n - 1
OBVIOUS

LEMMA StoreOK ==
    ASSUME IInv, NEW line \in Lines, history_store(line)
    PROVE  IInv'
<1>1. /\ Ring /\ pos \in 0 .. Modulus - 1
      /\ capacity' = capacity /\ Slots' = Slots
      /\ pos' \in 0 .. Modulus - 1
      /\ Entry(pos) \in Slots
      /\ At(pos', 0) = Entry(pos)
      /\ \A age \in Int : At(pos', age + 1) = At(pos, age)
      /\ \A age \in Int : At(pos, age)' = At(pos', age)
  BY StoreMoves
<1>2. /\ capacity \in Nat \ {0} /\ Modulus \in Nat \ {0} /\ capacity <= Modulus
      /\ data \in [Slots -> Lines \union {NULL}] /\ line # NULL
      /\ depth \in 0 .. capacity /\ torn \in BOOLEAN
  BY <1>1, LineAssumption DEF Ring, IInv, TypeOK
<1>3. /\ data' = [data EXCEPT ![Entry(pos)] = line]
      /\ size' = IF data[Entry(pos)] = NULL THEN size + 1 ELSE size
      /\ row' = line /\ pos' = (pos + 1) % Modulus
      /\ depth' = IF depth < Room(pos') THEN depth + 1 ELSE Room(pos')
      /\ torn' = (torn \/ (pos = 0 /\ depth > Rest))
  BY Zenon DEF history_store, Stored
<1>4. Room(pos') \in 1 .. capacity /\ Room(pos)' = Room(pos')
  <2>1. pos' \in Nat
    BY <1>1
  <2> QED
    BY <1>1, <2>1, RoomOf, Zenon DEF Room, Rest
<1>5. /\ depth' \in 1 .. capacity /\ depth' \in Nat \ {0}
      /\ depth' <= Room(pos') /\ depth' <= depth + 1
  BY <1>2, <1>3, <1>4
<1>6. /\ data' \in [Slots -> Lines \union {NULL}]
      /\ data'[Entry(pos)] = line
      /\ \A s \in Slots : s # Entry(pos) => data'[s] = data[s]
  BY <1>1, <1>2, <1>3
<1>7. Counted'
  <2>1. Used' = Used \union {Entry(pos)}
    BY <1>1, <1>2, <1>6 DEF Used
  <2>2. IsFiniteSet(Used)
    BY UsedFinite DEF IInv
  <2>3. Cardinality(Used \union {Entry(pos)})
          = IF Entry(pos) \in Used THEN Cardinality(Used)
            ELSE Cardinality(Used) + 1
    BY <2>2, FS_AddElement, Zenon
  <2>4. Entry(pos) \in Used <=> data[Entry(pos)] # NULL
    BY <1>1 DEF Used
  <2>5. size = Cardinality(Used)
    BY DEF IInv, Counted
  <2>6. size' = Cardinality(Used \union {Entry(pos)})
    BY <1>3, <2>3, <2>4, <2>5, Zenon
  <2> QED
    BY <2>1, <2>6, Zenon DEF Counted
<1>8. TypeOK'
  <2>1. size' \in 0 .. capacity
    BY <1>1, <1>7, SizeTyped DEF IInv
  <2>2. torn' \in BOOLEAN /\ depth' \in 0 .. capacity
    BY <1>2, <1>3, <1>5
  <2> QED
    BY <1>1, <1>3, <1>6, <2>1, <2>2, Zenon DEF IInv, TypeOK
<1>9. ASSUME NEW age \in 0 .. depth' - 1, age # 0
      PROVE  /\ age - 1 \in 0 .. depth - 1 /\ age - 1 \in Int
             /\ At(pos', age) = At(pos, age - 1)
             /\ At(pos', age) # Entry(pos)
             /\ At(pos', age) \in Slots
  <2>1. age - 1 \in 0 .. depth - 1 /\ age - 1 \in Int /\ age - 1 + 1 = age
    <3>1. PICK d \in Nat \ {0} : d = depth'
      BY <1>5, Zenon
    <3>2. PICK e \in Nat : e = depth
      BY <1>2
    <3>3. d <= e + 1 /\ age \in 0 .. d - 1
      BY <1>5, <3>1, <3>2, Zenon
    <3>4. age - 1 \in 0 .. e - 1 /\ age - 1 \in Int /\ age - 1 + 1 = age
      BY <1>9, <3>3
    <3> QED
      BY <3>2, <3>4, Zenon
  <2>2. At(pos', age) = At(pos, age - 1)
    BY <1>1, <2>1
  <2>3. At(pos', age) # At(pos', 0)
    <3>1. depth' \in Nat /\ 0 \in 0 .. depth' - 1
      BY <1>5, ZeroBelow
    <3> QED
      BY <1>1, <1>5, <1>9, <3>1, AgesApart, Zenon
  <2>4. At(pos', age) \in Slots
    <3>1. pos' - 1 - age \in Int
      BY <1>1
    <3> QED
      BY <1>1, <3>1, EntryInRing, Zenon DEF At
  <2> QED
    BY <1>1, <2>1, <2>2, <2>3, <2>4, Zenon
<1>10. Filled'
  <2>1. ASSUME NEW age \in 0 .. depth' - 1
        PROVE  data'[At(pos', age)] # NULL
    <3>1. CASE age = 0
      BY <1>1, <1>2, <1>6, <3>1, Zenon
    <3>2. CASE age # 0
      <4>1. /\ age - 1 \in 0 .. depth - 1
            /\ At(pos', age) = At(pos, age - 1)
            /\ At(pos', age) # Entry(pos)
            /\ At(pos', age) \in Slots
        BY <1>9, <3>2
      <4>2. data[At(pos, age - 1)] # NULL
        BY <4>1, Zenon DEF IInv, Filled
      <4> QED
        BY <1>6, <4>1, <4>2, Zenon
    <3> QED
      BY <3>1, <3>2
  <2>2. \A age \in 0 .. depth' - 1 : age \in Int
    BY <1>5
  <2> QED
    BY <1>1, <2>1, <2>2, Zenon DEF Filled
<1>11. Tidy'
  <2>1. SUFFICES ASSUME ~ torn'
                 PROVE  /\ size' = depth'
                        /\ \A s \in Used' :
                              \E age \in 0 .. depth' - 1 : s = At(pos', age)
    <3>1. \A age \in 0 .. depth' - 1 : At(pos, age)' = At(pos', age)
      <4>1. \A age \in 0 .. depth' - 1 : age \in Int
        BY <1>5
      <4> QED
        BY <1>1, <4>1, Zenon
    <3> QED
      BY <3>1, Zenon DEF Tidy
  <2>2. /\ ~ torn /\ ~ (pos = 0 /\ depth > Rest)
        /\ size = depth
        /\ \A s \in Used : \E age \in 0 .. depth - 1 : s = At(pos, age)
    BY <1>2, <1>3, <2>1 DEF IInv, Tidy
  <2>3. ASSUME NEW s \in Used', s # Entry(pos)
        PROVE  \E age \in 0 .. depth - 1 : s = At(pos, age)
               /\ s = At(pos', age + 1) /\ age + 1 \in 0 .. depth
    <3>1. s \in Used
      BY <1>1, <1>6, <2>3 DEF Used
    <3>2. PICK age \in 0 .. depth - 1 : s = At(pos, age)
      BY <2>2, <3>1
    <3>3. age \in Int /\ age + 1 \in 0 .. depth
      BY <1>2
    <3> QED
      BY <1>1, <3>2, <3>3, Zenon
  <2>4. 0 \in 0 .. depth' - 1
    BY <1>5, ZeroBelow
  <2>5. CASE depth < Room(pos')
    <3>1. depth' = depth + 1
      BY <1>3, <2>5
    <3>2. data[Entry(pos)] = NULL
      <4>1. SUFFICES ASSUME data[Entry(pos)] # NULL PROVE FALSE
        OBVIOUS
      <4>2. Entry(pos) \in Used
        BY <1>1, <4>1 DEF Used
      <4>3. PICK age \in 0 .. depth - 1 : Entry(pos) = At(pos, age)
        BY <2>2, <4>2
      <4>4. age \in Int /\ age + 1 \in 0 .. depth' - 1 /\ age + 1 # 0
        BY <1>2, <3>1
      <4>5. At(pos', age + 1) = Entry(pos)
        BY <1>1, <4>3, <4>4, Zenon
      <4> QED
        BY <1>9, <4>4, <4>5, Zenon
    <3>3. size' = depth'
      BY <1>3, <2>2, <3>1, <3>2
    <3>4. ASSUME NEW s \in Used'
          PROVE  \E age \in 0 .. depth' - 1 : s = At(pos', age)
      <4>1. CASE s = Entry(pos)
        BY <1>1, <2>4, <4>1, Zenon
      <4>2. CASE s # Entry(pos)
        <5>1. PICK age \in 0 .. depth - 1 :
                s = At(pos', age + 1) /\ age + 1 \in 0 .. depth
          BY <2>3, <4>2, Zenon
        <5>2. depth = depth' - 1
          BY <1>2, <3>1
        <5> QED
          BY <5>1, <5>2, Zenon
      <4> QED
        BY <4>1, <4>2
    <3> QED
      BY <3>3, <3>4
  <2>6. CASE ~ (depth < Room(pos'))
    <3>1. depth' = depth /\ At(pos, depth - 1) = Entry(pos) /\ depth \in Nat \ {0}
      BY <1>1, <1>2, <1>3, <1>4, <2>2, <2>6, OldestEntry DEF IInv
    <3>2. depth - 1 \in 0 .. depth - 1 /\ depth - 1 \in Int
      BY <3>1
    <3>3. data[Entry(pos)] # NULL
      BY <3>1, <3>2, Zenon DEF IInv, Filled
    <3>4. size' = depth'
      BY <1>3, <2>2, <3>1, <3>3
    <3>5. ASSUME NEW s \in Used'
          PROVE  \E age \in 0 .. depth' - 1 : s = At(pos', age)
      <4>1. CASE s = Entry(pos)
        BY <1>1, <2>4, <4>1, Zenon
      <4>2. CASE s # Entry(pos)
        <5>1. PICK age \in 0 .. depth - 1 :
                s = At(pos, age) /\ s = At(pos', age + 1)
          BY <2>3, <4>2, Zenon
        <5>2. age # depth - 1
          BY <3>1, <4>2, <5>1, Zenon
        <5>3. age + 1 \in 0 .. depth' - 1
          BY <3>1, <5>2
        <5> QED
          BY <5>1, <5>3, Zenon
      <4> QED
        BY <4>1, <4>2
    <3> QED
      BY <3>4, <3>5
  <2> QED
    BY <2>5, <2>6
<1> QED
  BY <1>1, <1>4, <1>5, <1>7, <1>8, <1>10, <1>11, Zenon DEF IInv

-----------------------------------------------------------------------------
(* A fetch.                                                                *)

LEMMA FetchMoves ==
    ASSUME IInv, history_fetch
    PROVE  /\ Ring /\ pos \in 0 .. Modulus - 1
           /\ capacity' = capacity /\ Slots' = Slots
           /\ pos' \in 0 .. Modulus - 1
           /\ Entry(pos - 1) \in Slots
           /\ At(pos, 0) = Entry(pos - 1)
           /\ \A age \in Int : At(pos', age) = At(pos, age + 1)
           /\ \A age \in Int : At(pos, age)' = At(pos', age)
<1>1. Ring /\ pos \in 0 .. Modulus - 1 /\ capacity' = capacity
  BY RingOf DEF history_fetch, IInv
<1>2. Slots' = Slots
  BY <1>1, Zenon DEF Slots
<1>3. pos' = (pos - 1) % Modulus /\ pos \in Int /\ pos - 1 \in Int
  BY <1>1 DEF history_fetch
<1>4. pos' \in 0 .. Modulus - 1
  <2>1. \A x \in Int, m \in Nat \ {0} : x % m \in 0 .. m - 1
    OBVIOUS
  <2> QED
    BY <1>1, <1>3, <2>1, Zenon DEF Ring
<1>5. Entry(pos - 1) \in Slots
  BY <1>1, <1>3, EntryInRing, Zenon
<1>6. /\ At(pos, 0) = Entry(pos - 1)
      /\ \A age \in Int : At(pos', age) = At(pos, age + 1)
  BY <1>1, <1>3, FetchAges, Zenon
<1> QED
  BY <1>1, <1>2, <1>4, <1>5, <1>6, Zenon DEF At, Entry

(* A fetch leaves no more lines than there are entries for.                *)
LEMMA FetchRoom ==
    ASSUME Ring, pos \in 0 .. Modulus - 1, depth \in Nat, depth <= Room(pos),
           pos' = (pos - 1) % Modulus,
           NEW d \in Nat, d <= depth, depth > 0 => d = depth - 1
    PROVE  d <= Room(pos')
<1>1. capacity \in Nat \ {0} /\ Modulus \in Nat \ {0} /\ capacity <= Modulus
  BY DEF Ring
<1>2. Rest \in 1 .. capacity
  BY RestIs
<1>3. \/ pos = 0 /\ pos' = Modulus - 1
      \/ pos > 0 /\ pos' = pos - 1
  <2>1. CASE pos = 0
    <3>1. -1 = Modulus * (-1) + (Modulus - 1) /\ Modulus - 1 \in 0 .. Modulus - 1
          /\ -1 \in Int
      BY <1>1
    <3>2. (-1) % Modulus = Modulus - 1
      BY <1>1, <3>1, ModUnique, Zenon
    <3>3. pos - 1 = -1
      BY <2>1
    <3> QED
      BY <2>1, <3>2, <3>3, Zenon
  <2>2. CASE pos # 0
    <3>1. pos - 1 \in 0 .. Modulus - 1 /\ pos > 0
      BY <1>1, <2>2
    <3>2. (pos - 1) % Modulus = pos - 1
      BY <1>1, <3>1
    <3> QED
      BY <3>1, <3>2
  <2> QED
    BY <2>1, <2>2
<1> QED
  BY <1>1, <1>2, <1>3 DEF Room

LEMMA FetchOK ==
    ASSUME IInv, history_fetch
    PROVE  IInv'
<1>1. /\ Ring /\ pos \in 0 .. Modulus - 1
      /\ capacity' = capacity /\ Slots' = Slots
      /\ pos' \in 0 .. Modulus - 1
      /\ Entry(pos - 1) \in Slots
      /\ At(pos, 0) = Entry(pos - 1)
      /\ \A age \in Int : At(pos', age) = At(pos, age + 1)
      /\ \A age \in Int : At(pos, age)' = At(pos', age)
  BY FetchMoves
<1>2. /\ capacity \in Nat \ {0} /\ Modulus \in Nat \ {0} /\ capacity <= Modulus
      /\ data \in [Slots -> Lines \union {NULL}]
      /\ depth \in 0 .. capacity /\ depth \in Nat /\ torn \in BOOLEAN
      /\ row \in Lines \union {Blank}
  BY <1>1, CapacityAssumption DEF Ring, IInv, TypeOK
<1>3. /\ \/ /\ data[Entry(pos - 1)] # NULL
            /\ row' = data[Entry(pos - 1)]
            /\ data' = [data EXCEPT ![Entry(pos - 1)] = NULL]
            /\ size' = size - 1
         \/ /\ data[Entry(pos - 1)] = NULL
            /\ row' = Blank /\ data' = data /\ size' = size
      /\ pos' = (pos - 1) % Modulus
      /\ depth' = IF depth > 0 THEN depth - 1 ELSE 0
      /\ torn' = torn
  BY Zenon DEF history_fetch, Fetched
<1>4. depth' \in Nat /\ depth' <= depth /\ (depth > 0 => depth' = depth - 1)
  BY <1>2, <1>3
<1>5. depth' <= Room(pos') /\ Room(pos)' = Room(pos')
  <2>1. depth' <= Room(pos')
    BY <1>1, <1>2, <1>3, <1>4, FetchRoom DEF IInv
  <2> QED
    BY <1>1, <2>1, Zenon DEF Room, Rest
<1>6. /\ data' \in [Slots -> Lines \union {NULL}]
      /\ data'[Entry(pos - 1)] = NULL
      /\ \A s \in Slots : s # Entry(pos - 1) => data'[s] = data[s]
      /\ row' \in Lines \union {Blank}
  BY <1>1, <1>2, <1>3
<1>7. Counted'
  <2>1. Used' = Used \ {Entry(pos - 1)}
    BY <1>1, <1>2, <1>6 DEF Used
  <2>2. IsFiniteSet(Used)
    BY UsedFinite DEF IInv
  <2>3. Cardinality(Used \ {Entry(pos - 1)})
          = IF Entry(pos - 1) \in Used THEN Cardinality(Used) - 1
            ELSE Cardinality(Used)
    BY <2>2, FS_RemoveElement, Zenon
  <2>4. Entry(pos - 1) \in Used <=> data[Entry(pos - 1)] # NULL
    BY <1>1 DEF Used
  <2>5. size = Cardinality(Used)
    BY DEF IInv, Counted
  <2>6. size' = Cardinality(Used \ {Entry(pos - 1)})
    <3>1. CASE data[Entry(pos - 1)] # NULL
      BY <1>3, <2>3, <2>4, <2>5, <3>1, Zenon
    <3>2. CASE data[Entry(pos - 1)] = NULL
      BY <1>3, <2>3, <2>4, <2>5, <3>2, Zenon
    <3> QED
      BY <3>1, <3>2, Zenon
  <2> QED
    BY <2>1, <2>6, Zenon DEF Counted
<1>8. TypeOK'
  <2>1. size' \in 0 .. capacity
    BY <1>1, <1>7, SizeTyped DEF IInv
  <2>2. torn' \in BOOLEAN /\ depth' \in 0 .. capacity
    BY <1>2, <1>3, <1>4
  <2> QED
    BY <1>1, <1>6, <2>1, <2>2, Zenon DEF IInv, TypeOK
<1>9. ASSUME NEW age \in Nat, age < depth, age # 0
      PROVE  /\ age \in 0 .. depth - 1
             /\ At(pos, age) # Entry(pos - 1)
             /\ At(pos, age) \in Slots
  <2>1. age \in 0 .. depth - 1 /\ 0 \in 0 .. depth - 1
    BY <1>2, <1>9
  <2>2. At(pos, age) # At(pos, 0)
    BY <1>1, <1>2, <1>9, <2>1, AgesApart DEF IInv
  <2>3. pos - 1 - age \in Int
    BY <1>1
  <2> QED
    BY <1>1, <2>1, <2>2, <2>3, EntryInRing, Zenon DEF At
<1>10. Filled'
  <2>1. ASSUME NEW age \in 0 .. depth' - 1
        PROVE  data'[At(pos', age)] # NULL
    <3>1. age \in Int /\ age + 1 \in Nat /\ age + 1 < depth /\ age + 1 # 0
      <4>1. PICK d \in Nat : d = depth'
        BY <1>4, Zenon
      <4>2. PICK e \in Nat : e = depth
        BY <1>2
      <4>3. d <= e /\ (e > 0 => d = e - 1) /\ age \in 0 .. d - 1
        BY <1>4, <4>1, <4>2, Zenon
      <4>4. age \in Int /\ age + 1 \in Nat /\ age + 1 < e /\ age + 1 # 0
        BY <4>3
      <4> QED
        BY <4>2, <4>4, Zenon
    <3>2. data[At(pos, age + 1)] # NULL
      BY <1>9, <3>1, Zenon DEF IInv, Filled
    <3>3. At(pos', age) = At(pos, age + 1)
      BY <1>1, <3>1
    <3> QED
      BY <1>6, <1>9, <3>1, <3>2, <3>3, Zenon
  <2>2. \A age \in 0 .. depth' - 1 : age \in Int
    BY <1>4
  <2> QED
    BY <1>1, <2>1, <2>2, Zenon DEF Filled
<1>11. Tidy'
  <2>1. SUFFICES ASSUME ~ torn'
                 PROVE  /\ size' = depth'
                        /\ \A s \in Used' :
                              \E age \in 0 .. depth' - 1 : s = At(pos', age)
    <3>1. \A age \in 0 .. depth' - 1 : At(pos, age)' = At(pos', age)
      <4>1. \A age \in 0 .. depth' - 1 : age \in Int
        BY <1>4
      <4> QED
        BY <1>1, <4>1, Zenon
    <3> QED
      BY <3>1, Zenon DEF Tidy
  <2>2. /\ ~ torn /\ size = depth
        /\ \A s \in Used : \E age \in 0 .. depth - 1 : s = At(pos, age)
    BY <1>3, <2>1 DEF IInv, Tidy
  <2>3. size' = depth'
    <3>1. CASE depth > 0
      <4>1. 0 \in 0 .. depth - 1
        BY <1>2, <3>1
      <4>2. data[Entry(pos - 1)] # NULL
        BY <1>1, <4>1 DEF IInv, Filled
      <4> QED
        BY <1>3, <1>4, <2>2, <3>1, <4>2
    <3>2. CASE ~ (depth > 0)
      <4>1. \A age \in 0 .. depth - 1 : FALSE
        BY <1>2, <3>2
      <4>2. Entry(pos - 1) \notin Used
        BY <2>2, <4>1
      <4>3. data[Entry(pos - 1)] = NULL
        BY <1>1, <4>2 DEF Used
      <4> QED
        BY <1>2, <1>3, <2>2, <3>2, <4>3
    <3> QED
      BY <3>1, <3>2
  <2>4. ASSUME NEW s \in Used'
        PROVE  \E age \in 0 .. depth' - 1 : s = At(pos', age)
    <3>1. s \in Used /\ s # Entry(pos - 1)
      BY <1>1, <1>6 DEF Used
    <3>2. PICK age \in 0 .. depth - 1 : s = At(pos, age)
      BY <2>2, <3>1
    <3>3. age # 0
      BY <1>1, <3>1, <3>2, Zenon
    <3>4. /\ age - 1 \in 0 .. depth' - 1 /\ age - 1 \in Int /\ age - 1 + 1 = age
      <4>1. PICK d \in Nat : d = depth'
        BY <1>4, Zenon
      <4>2. PICK e \in Nat : e = depth
        BY <1>2
      <4>3. (e > 0 => d = e - 1) /\ age \in 0 .. e - 1
        BY <1>4, <4>1, <4>2, Zenon
      <4>4. age - 1 \in 0 .. d - 1 /\ age - 1 \in Int /\ age - 1 + 1 = age
        BY <3>3, <4>3
      <4> QED
        BY <4>1, <4>4, Zenon
    <3>5. At(pos', age - 1) = At(pos, age)
      BY <1>1, <3>4
    <3> QED
      BY <3>2, <3>4, <3>5, Zenon
  <2> QED
    BY <2>3, <2>4
<1> QED
  BY <1>5, <1>7, <1>8, <1>10, <1>11, Zenon DEF IInv

-----------------------------------------------------------------------------
(* The theorems.                                                           *)

LEMMA Invariance == IInv /\ [Next]_vars => IInv'
<1>1. SUFFICES ASSUME IInv, [Next]_vars
               PROVE  IInv'
  OBVIOUS
<1>2. CASE \E line \in Lines : history_store(line)
  BY <1>1, <1>2, StoreOK
<1>3. CASE history_fetch
  BY <1>1, <1>3, FetchOK
<1>4. CASE FetchFromNoRing
  BY <1>1, <1>4, StillOK DEF FetchFromNoRing
<1>5. CASE history_clear
  BY <1>1, <1>5, ClearOK
<1>6. CASE UNCHANGED vars
  BY <1>1, <1>6, StillOK DEF vars, IInv, TypeOK
<1> QED
  BY <1>1, <1>2, <1>3, <1>4, <1>5, <1>6 DEF Next

(* For every set of lines, every capacity and every width of the counter,  *)
(* in every reachable state: size is the number of entries in use, the     *)
(* youngest depth lines have entries of their own, and unless the ring is  *)
(* torn nothing else is in it.                                             *)
THEOREM RingInvariant == Spec => []IInv
BY InitOK, Invariance, PTL DEF Spec

(* The ring's size never exceeds its capacity.                             *)
THEOREM RingTyped == Spec => []TypeOK
<1>1. IInv => TypeOK
  BY DEF IInv
<1> QED
  BY <1>1, RingInvariant, PTL

(* size counts the entries in use, every line within depth is found by a   *)
(* peek, and depth is size until the ring is torn.                         *)
THEOREM RingWindow == Spec => []Window
<1>1. IInv => Window
  <2>1. SUFFICES ASSUME IInv
                 PROVE  Window
    OBVIOUS
  <2>2. /\ size = Cardinality({s \in Slots : data[s] # NULL})
        /\ ~ torn => size = depth
    BY <2>1 DEF IInv, Counted, Used, Tidy
  <2>3. ASSUME NEW age \in 0 .. depth - 1
        PROVE  history_peek(age) # NULL
    <3>1. ~ (age >= capacity)
      BY <2>1, CapacityAssumption DEF IInv, TypeOK
    <3>2. data[At(pos, age)] # NULL
      BY <2>1 DEF IInv, Filled
    <3> QED
      BY <3>1, <3>2, Zenon DEF history_peek, EntryOfAge, At
  <2> QED
    BY <2>2, <2>3 DEF Window
<1> QED
  BY <1>1, RingInvariant, PTL

-----------------------------------------------------------------------------
(* The refinement.                                                         *)

(* The lines kept are lines, depth of them.                                *)
KeptTyped ==
    /\ depth \in Nat
    /\ Kept = [i \in 1 .. depth |-> data[At(pos, i - 1)]]
    /\ Kept \in Seq(Lines) /\ Len(Kept) = depth

LEMMA KeptIs ==
    ASSUME IInv
    PROVE  KeptTyped
<1>1. depth \in Nat /\ capacity \in Nat
  BY CapacityAssumption DEF IInv, TypeOK
<1>2. Kept = [i \in 1 .. depth |-> data[At(pos, i - 1)]]
  BY Zenon DEF Kept, EntryOfAge, At
<1>3. ASSUME NEW i \in 1 .. depth
      PROVE  data[At(pos, i - 1)] \in Lines
  <2>1. capacity # 0
    BY <1>1, <1>3 DEF IInv, TypeOK
  <2>2. Ring /\ pos \in Int
    BY <2>1, RingOf DEF IInv
  <2>3. i - 1 \in 0 .. depth - 1 /\ pos - 1 - (i - 1) \in Int
    BY <1>1, <2>2
  <2>4. At(pos, i - 1) \in Slots
    BY <2>2, <2>3, EntryInRing, Zenon DEF At
  <2>5. data[At(pos, i - 1)] # NULL
    BY <2>3, Zenon DEF IInv, Filled
  <2> QED
    BY <2>4, <2>5 DEF IInv, TypeOK
<1>4. [i \in 1 .. depth |-> data[At(pos, i - 1)]] \in Seq(Lines)
  BY <1>1, <1>3
<1>5. Len(Kept) = depth
  BY <1>1, <1>2
<1> QED
  BY <1>1, <1>2, <1>4, <1>5, Zenon DEF KeptTyped

LEMMA StoreIsPush ==
    ASSUME IInv, NEW line \in Lines, history_store(line)
    PROVE  Stack!Next \/ StoreOverWrap
<1>1. /\ Ring /\ pos \in 0 .. Modulus - 1
      /\ capacity' = capacity /\ Slots' = Slots
      /\ pos' \in 0 .. Modulus - 1
      /\ Entry(pos) \in Slots
      /\ At(pos', 0) = Entry(pos)
      /\ \A age \in Int : At(pos', age + 1) = At(pos, age)
      /\ \A age \in Int : At(pos, age)' = At(pos', age)
  BY StoreMoves
<1>2. /\ depth \in Nat
      /\ Kept = [i \in 1 .. depth |-> data[At(pos, i - 1)]]
      /\ Len(Kept) = depth
  BY KeptIs, Zenon DEF KeptTyped
<1>3. /\ data' = [data EXCEPT ![Entry(pos)] = line]
      /\ row' = line /\ pos' = (pos + 1) % Modulus
      /\ depth' = IF depth < Room(pos') THEN depth + 1 ELSE Room(pos')
  BY Zenon DEF history_store, Stored
<1>4. /\ capacity \in Nat \ {0} /\ Modulus \in Nat \ {0} /\ capacity <= Modulus
      /\ Room(pos') \in 1 .. capacity /\ Room(pos') \in Nat \ {0}
      /\ data \in [Slots -> Lines \union {NULL}] /\ depth <= capacity
  <2>1. capacity \in Nat \ {0} /\ Modulus \in Nat \ {0} /\ capacity <= Modulus
    BY <1>1 DEF Ring
  <2>2. pos' \in Nat
    BY <1>1, <2>1
  <2>3. Room(pos') \in 1 .. capacity
    BY <1>1, <2>2, RoomOf, Zenon
  <2> QED
    BY <2>1, <2>3 DEF IInv, TypeOK
<1>5. depth' \in Nat \ {0} /\ depth' - 1 <= depth /\ depth' <= Room(pos')
  BY <1>2, <1>3, <1>4
<1>6. Kept' = [i \in 1 .. depth' |-> data'[At(pos', i - 1)]]
  <2>1. Kept' = [i \in 1 .. depth' |-> data'[At(pos, i - 1)']]
    BY Zenon DEF Kept, EntryOfAge, At
  <2>2. \A i \in 1 .. depth' : At(pos, i - 1)' = At(pos', i - 1)
    <3>1. \A i \in 1 .. depth' : i - 1 \in Int
      BY <1>5
    <3> QED
      BY <1>1, <3>1, Zenon
  <2> QED
    BY <2>1, <2>2, Zenon
<1>7. ASSUME NEW n \in Nat, depth' = n + 1, n <= depth
      PROVE  Kept' = Stack!Push(line, n)
  <2>1. ASSUME NEW i \in 1 .. n + 1
        PROVE  data'[At(pos', i - 1)] = IF i = 1 THEN line ELSE Kept[i - 1]
    <3>1. CASE i = 1
      <4>1. i - 1 = 0
        BY <3>1
      <4>2. data'[Entry(pos)] = line
        BY <1>1, <1>3, <1>4
      <4> QED
        BY <1>1, <3>1, <4>1, <4>2, Zenon
    <3>2. CASE i # 1
      <4>1. /\ i - 1 \in 1 .. depth /\ i - 1 - 1 \in Int /\ i - 1 - 1 + 1 = i - 1
            /\ i - 1 \in 0 .. n /\ i - 1 # 0 /\ 0 \in 0 .. n
        BY <1>2, <1>7, <3>2
      <4>2. At(pos', i - 1) = At(pos, i - 1 - 1)
        BY <1>1, <4>1
      <4>3. At(pos', i - 1) # At(pos', 0)
        <5>1. PICK m \in Nat : m = n + 1
          OBVIOUS
        <5>2. m <= Room(pos') /\ m - 1 = n
          BY <1>5, <1>7, <5>1
        <5>3. i - 1 \in 0 .. m - 1 /\ 0 \in 0 .. m - 1
          BY <4>1, <5>2, Zenon
        <5> QED
          BY <1>1, <4>1, <5>2, <5>3, AgesApart, Zenon
      <4>4. pos - 1 - (i - 1 - 1) \in Int
        BY <1>1
      <4>5. At(pos, i - 1 - 1) \in Slots
        BY <1>1, <4>4, EntryInRing, Zenon DEF At
      <4>6. data'[At(pos, i - 1 - 1)] = data[At(pos, i - 1 - 1)]
        BY <1>1, <1>3, <1>4, <4>2, <4>3, <4>5, Zenon
      <4>7. Kept[i - 1] = data[At(pos, i - 1 - 1)]
        BY <1>2, <4>1, Zenon
      <4> QED
        BY <3>2, <4>2, <4>6, <4>7, Zenon
    <3> QED
      BY <3>1, <3>2
  <2> QED
    BY <1>6, <1>7, <2>1, Zenon DEF Stack!Push
<1>8. Stack!Store(line, Room(pos'))
  <2>1. CASE depth < Room(pos')
    <3>1. Kept' = Stack!Push(line, depth)
      BY <1>2, <1>3, <1>7, <2>1
    <3> QED
      BY <1>1, <1>2, <1>3, <1>4, <2>1, <3>1 DEF Stack!Store
  <2>2. CASE ~ (depth < Room(pos'))
    <3>1. PICK n \in Nat : n = Room(pos') - 1
      BY <1>4
    <3>2. depth' = n + 1 /\ n <= depth
      BY <1>2, <1>3, <1>4, <2>2, <3>1
    <3>3. Kept' = Stack!Push(line, n)
      BY <1>7, <3>2
    <3>4. Len(Kept) >= Room(pos') /\ Room(pos') # 0
      BY <1>2, <1>4, <2>2
    <3> QED
      BY <1>1, <1>3, <3>1, <3>3, <3>4 DEF Stack!Store
  <2> QED
    BY <2>1, <2>2
<1>9. CASE depth < Room(pos') \/ Room(pos') = capacity
  <2>1. Stack!Store(line, capacity)
    <3>1. CASE Room(pos') = capacity
      BY <1>8, <3>1
    <3>2. CASE depth < Room(pos')
      <4>1. Kept' = Stack!Push(line, depth)
        BY <1>2, <1>3, <1>7, <3>2
      <4>2. Len(Kept) < capacity /\ capacity # 0
        BY <1>2, <1>4, <3>2
      <4> QED
        BY <1>1, <1>2, <1>3, <4>1, <4>2 DEF Stack!Store
    <3> QED
      BY <1>9, <3>1, <3>2
  <2> QED
    BY <2>1 DEF Stack!Next
<1>10. CASE ~ (depth < Room(pos')) /\ Room(pos') # capacity
  <2>1. Rest \in 1 .. capacity
    BY <1>1, RestIs
  <2>2. Rest <= Room(pos')
    BY <1>1, <1>4, <1>10, <2>1 DEF Room
  <2>3. pos < depth
    <3>1. pos' # 0 /\ pos' <= Room(pos') /\ pos' \in Nat
      BY <1>1, <1>4, <1>10, <2>1 DEF Room
    <3>2. pos' = pos + 1
      <4>1. CASE pos + 1 = Modulus
        <5>1. (pos + 1) % Modulus = 0
          BY <1>4, <4>1
        <5> QED
          BY <1>3, <3>1, <5>1, Zenon
      <4>2. CASE pos + 1 # Modulus
        <5>1. pos + 1 \in 0 .. Modulus - 1
          BY <1>1, <1>4, <4>2
        <5>2. (pos + 1) % Modulus = pos + 1
          BY <1>4, <5>1
        <5> QED
          BY <1>3, <5>2, Zenon
      <4> QED
        BY <4>1, <4>2
    <3> QED
      BY <1>1, <1>2, <1>4, <1>10, <3>1, <3>2
  <2> QED
    BY <1>8, <2>2, <2>3 DEF StoreOverWrap
<1> QED
  BY <1>9, <1>10

LEMMA FetchIsPop ==
    ASSUME IInv, KeptTyped', history_fetch
    PROVE  Stack!Fetch \/ FetchTorn
<1>1. /\ Ring /\ pos \in 0 .. Modulus - 1
      /\ capacity' = capacity /\ Slots' = Slots
      /\ pos' \in 0 .. Modulus - 1
      /\ Entry(pos - 1) \in Slots
      /\ At(pos, 0) = Entry(pos - 1)
      /\ \A age \in Int : At(pos', age) = At(pos, age + 1)
      /\ \A age \in Int : At(pos, age)' = At(pos', age)
  BY FetchMoves
<1>2. /\ depth \in Nat
      /\ Kept = [i \in 1 .. depth |-> data[At(pos, i - 1)]]
      /\ Kept \in Seq(Lines) /\ Len(Kept) = depth
  BY KeptIs, Zenon DEF KeptTyped
<1>3. /\ depth' \in Nat /\ Kept' \in Seq(Lines) /\ Len(Kept') = depth'
      /\ Kept' = [i \in 1 .. depth' |-> data'[At(pos', i - 1)]]
  <2>1. /\ depth' \in Nat /\ Kept' \in Seq(Lines) /\ Len(Kept') = depth'
        /\ Kept' = [i \in 1 .. depth' |-> data'[At(pos, i - 1)']]
    BY Zenon DEF KeptTyped
  <2>2. \A i \in 1 .. depth' : At(pos, i - 1)' = At(pos', i - 1)
    <3>1. \A i \in 1 .. depth' : i - 1 \in Int
      BY <2>1
    <3> QED
      BY <1>1, <3>1, Zenon
  <2> QED
    BY <2>1, <2>2, Zenon
<1>4. /\ \/ /\ data[Entry(pos - 1)] # NULL
            /\ row' = data[Entry(pos - 1)]
            /\ data' = [data EXCEPT ![Entry(pos - 1)] = NULL]
         \/ /\ data[Entry(pos - 1)] = NULL
            /\ row' = Blank /\ data' = data
      /\ depth' = IF depth > 0 THEN depth - 1 ELSE 0
  BY Zenon DEF history_fetch, Fetched
<1>5. CASE depth > 0
  <2>1. /\ depth' = depth - 1 /\ depth \in Nat \ {0}
        /\ 0 \in 0 .. depth - 1 /\ 1 \in 1 .. depth /\ 1 - 1 = 0
    BY <1>2, <1>4, <1>5
  <2>2. data[Entry(pos - 1)] # NULL
    BY <1>1, <2>1 DEF IInv, Filled
  <2>3. Kept # <<>> /\ Kept[1] = data[Entry(pos - 1)]
    BY <1>1, <1>2, <2>1
  <2>4. row' = Head(Kept)
    <3>1. Head(Kept) = Kept[1]
      BY <1>2, <2>3, SMT
    <3> QED
      BY <1>4, <2>2, <2>3, <3>1, Zenon
  <2>5. ASSUME NEW i \in 1 .. depth'
        PROVE  Kept'[i] = Kept[i + 1]
    <3>1. /\ i \in Nat /\ i # 0 /\ i \in 0 .. depth - 1 /\ i + 1 \in 1 .. depth
          /\ i - 1 \in Int /\ i - 1 + 1 = i /\ i + 1 - 1 = i
      BY <2>1
    <3>2. At(pos', i - 1) = At(pos, i)
      BY <1>1, <3>1
    <3>3. At(pos, i) # At(pos, 0)
      BY <1>1, <1>2, <2>1, <3>1, AgesApart DEF IInv
    <3>4. At(pos, i) \in Slots
      <4>1. pos - 1 - i \in Int
        BY <1>1, <3>1
      <4> QED
        BY <1>1, <4>1, EntryInRing, Zenon DEF At
    <3>5. data'[At(pos, i)] = data[At(pos, i)]
      <4>1. data \in [Slots -> Lines \union {NULL}]
        BY DEF IInv, TypeOK
      <4> QED
        BY <1>1, <1>4, <3>3, <3>4, <4>1, Zenon
    <3>6. Kept[i + 1] = data[At(pos, i)]
      <4>1. PICK j \in 1 .. depth : j = i + 1
        BY <3>1, Zenon
      <4>2. Kept[j] = data[At(pos, j - 1)]
        BY <1>2, Zenon
      <4>3. j - 1 = i
        BY <3>1, <4>1
      <4> QED
        BY <4>1, <4>2, <4>3, Zenon
    <3>7. Kept'[i] = data'[At(pos', i - 1)]
      BY <1>3, Zenon
    <3> QED
      BY <3>2, <3>5, <3>6, <3>7, Zenon
  <2>6. Kept' = Tail(Kept)
    <3>1. /\ Tail(Kept) \in Seq(Lines)
          /\ Len(Tail(Kept)) = Len(Kept) - 1
          /\ \A i \in 1 .. Len(Tail(Kept)) : Tail(Kept)[i] = Kept[i + 1]
      BY <1>2, <2>3, HeadTailProperties, Zenon
    <3>2. Len(Kept') = Len(Tail(Kept)) /\ Len(Kept') = depth'
      BY <1>2, <1>3, <2>1, <3>1, Zenon
    <3>3. \A i \in 1 .. Len(Kept') : Kept'[i] = Tail(Kept)[i]
      BY <2>5, <3>1, <3>2, Zenon
    <3> QED
      BY <1>3, <3>1, <3>2, <3>3, SeqEqual
  <2> QED
    BY <1>1, <2>3, <2>4, <2>6, Zenon DEF Stack!Fetch
<1>6. CASE ~ (depth > 0) /\ torn
  <2>1. depth = 0
    BY <1>2, <1>6
  <2> QED
    BY <1>6, <2>1 DEF FetchTorn
<1>7. CASE ~ (depth > 0) /\ ~ torn
  <2>1. depth = 0 /\ depth' = 0 /\ \A age \in 0 .. depth - 1 : FALSE
    BY <1>2, <1>4, <1>7
  <2>2. Entry(pos - 1) \notin Used
    BY <1>7, <2>1 DEF IInv, Tidy
  <2>3. data[Entry(pos - 1)] = NULL
    BY <1>1, <2>2 DEF Used
  <2>4. Kept = <<>> /\ Kept' = <<>>
    BY <1>2, <1>3, <2>1
  <2> QED
    BY <1>1, <1>4, <2>3, <2>4, Zenon DEF Stack!Fetch
<1> QED
  BY <1>5, <1>6, <1>7

(* The steps that neither store nor fetch a line.                          *)
LEMMA QuietStep ==
    ASSUME IInv, FetchFromNoRing \/ history_clear \/ UNCHANGED vars
    PROVE  [Stack!Next]_(Stack!vars)
<1>1. CASE FetchFromNoRing
  <2>1. depth = 0 /\ depth' = 0 /\ capacity' = capacity /\ row' = Blank
    BY <1>1 DEF FetchFromNoRing, IInv, TypeOK
  <2>2. Kept = <<>> /\ Kept' = <<>>
    BY <2>1 DEF Kept
  <2> QED
    BY <2>1, <2>2 DEF Stack!Next, Stack!Fetch
<1>2. CASE history_clear
  <2>1. depth' = 0
    BY <1>2 DEF history_clear
  <2>2. Kept' = <<>>
    BY <2>1 DEF Kept
  <2> QED
    BY <1>2, <2>2 DEF history_clear, Stack!Next, Stack!Clear
<1>3. CASE UNCHANGED vars
  <2>1. Kept' = Kept
    BY <1>3, Zenon DEF vars, Kept, EntryOfAge, Entry
  <2> QED
    BY <1>3, <2>1 DEF vars, Stack!vars
<1> QED
  BY <1>1, <1>2, <1>3

LEMMA StackInit == Init => Stack!Init
<1>1. SUFFICES ASSUME Init PROVE Stack!Init
  OBVIOUS
<1>2. depth = 0
  BY <1>1 DEF Init
<1>3. Kept = <<>>
  BY <1>2 DEF Kept
<1> QED
  BY <1>1, <1>3 DEF Init, Stack!Init

(* For every set of lines, every capacity and every width of the counter,  *)
(* and over any number of its wraps, the ring of history.c is a bounded    *)
(* stack, but for the two steps IsStack names.                             *)
THEOREM RingIsStack == Spec => IsStack
<1>1. IInv => KeptTyped
  BY KeptIs
<1>2. IInv /\ KeptTyped' /\ [Next]_vars
        => [Stack!Next \/ StoreOverWrap \/ FetchTorn]_(Stack!vars)
  <2>1. SUFFICES ASSUME IInv, KeptTyped', [Next]_vars
                 PROVE  [Stack!Next \/ StoreOverWrap \/ FetchTorn]_(Stack!vars)
    OBVIOUS
  <2>2. CASE \E line \in Lines : history_store(line)
    BY <2>1, <2>2, StoreIsPush
  <2>3. CASE history_fetch
    <3>1. Stack!Fetch \/ FetchTorn
      BY <2>1, <2>3, FetchIsPop
    <3> QED
      BY <3>1 DEF Stack!Next
  <2>4. CASE FetchFromNoRing \/ history_clear \/ UNCHANGED vars
    BY <2>1, <2>4, QuietStep
  <2> QED
    BY <2>1, <2>2, <2>3, <2>4 DEF Next
<1> QED
  BY <1>1, <1>2, StackInit, RingInvariant, PTL DEF Spec, IsStack
=============================================================================
