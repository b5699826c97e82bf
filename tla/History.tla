------------------------------ MODULE History ------------------------------
(***************************************************************************)
(* The scroll-back ring of history.c.  Lines are kept in capacity entries  *)
(* at pos % capacity, where pos, an unsigned int, counts stores up and     *)
(* fetches down, below 0 too, whether there are lines or not.  Capacities  *)
(* need not divide the number of values of pos, and the code's does not:   *)
(* once pos has wrapped, lines stored on the two sides of the wrap may     *)
(* come to share an entry.  A line is opaque: a copy of the used cells of  *)
(* a row.  Definitions marked as mutants are deliberate mistakes.          *)
(***************************************************************************)
EXTENDS Integers, Sequences, FiniteSets

CONSTANTS
    Lines,       \* what a stored row may hold
    Blank,       \* a cleared row
    NULL,        \* the data of a free entry; what a peek at one gives
    Capacities,  \* of a ring: 1000 for the normal buffer, 0 for the other
    Modulus      \* number of values of an unsigned int, 2^32

ASSUME LineAssumption == NULL \notin Lines /\ Blank # NULL
ASSUME CapacityAssumption ==
    /\ Modulus \in Nat \ {0}
    /\ Capacities \subseteq 0 .. Modulus

VARIABLES
    capacity,
    data,      \* the entries
    size,      \* entries in use
    pos,       \* stores less fetches
    row        \* the row the last store copied or the last fetch filled

(* History variables, kept by no code and read by no action: what the      *)
(* properties say the ring still holds.                                    *)
VARIABLES
    depth,     \* how many of the youngest lines each have an entry
    torn       \* entries in use may hold other lines than those

vars == <<capacity, data, size, pos, row, depth, torn>>

Slots == 0 .. capacity - 1

(* The entry of index i, taken as an unsigned int.                         *)
Entry(i) == (i % Modulus) % capacity

(* The entry of the line that age younger ones were stored after.          *)
EntryOfAge(age) == Entry(pos - 1 - age)

history_peek(age) == IF age >= capacity THEN NULL ELSE data[EntryOfAge(age)]

(* The entries left over when rings are laid end to end over the values    *)
(* of pos, a whole ring if none are: 296 of the code's 1000.               *)
Rest == 1 + ((Modulus - 1) % capacity)

(* How many of the youngest lines have entries of their own when pos is p. *)
(* Just after a wrap the lines stored since are in the entries below p and *)
(* those stored before in the entries below Rest, the younger the higher.  *)
Room(p) ==
    IF p = 0 \/ p >= capacity THEN capacity
    ELSE IF p > Rest THEN p ELSE Rest

Stored ==
    /\ depth' = IF depth < Room(pos') THEN depth + 1 ELSE Room(pos')
    /\ torn' = (torn \/ (pos = 0 /\ depth > Rest))

Fetched ==
    /\ depth' = IF depth > 0 THEN depth - 1 ELSE 0
    /\ UNCHANGED torn

Init ==
    /\ depth = 0 /\ torn = FALSE
    /\ capacity \in Capacities
    /\ data = [s \in Slots |-> NULL]
    /\ size = 0 /\ pos = 0
    /\ row = Blank

history_clear ==
    /\ data' = [s \in Slots |-> NULL]
    /\ size' = 0 /\ pos' = 0
    /\ depth' = 0 /\ torn' = FALSE
    /\ UNCHANGED <<capacity, row>>

(* Mutant of history_store: the oldest line kept instead of the newest     *)
(* when the ring is full.                                                  *)
history_store_KeepOldest(line) ==
    /\ capacity # 0
    /\ pos' = (pos + 1) % Modulus
    /\ data' = [data EXCEPT ![Entry(pos)] = IF @ = NULL THEN line ELSE @]
    /\ size' = IF data[Entry(pos)] = NULL THEN size + 1 ELSE size
    /\ row' = line
    /\ Stored
    /\ UNCHANGED capacity

history_store(line) ==
    /\ capacity # 0
    /\ pos' = (pos + 1) % Modulus
    /\ data' = [data EXCEPT ![Entry(pos)] = line]
    /\ size' = IF data[Entry(pos)] = NULL THEN size + 1 ELSE size
    /\ row' = line
    /\ Stored
    /\ UNCHANGED capacity

FetchFromNoRing ==
    /\ capacity = 0
    /\ row' = Blank
    /\ UNCHANGED <<capacity, data, size, pos, depth, torn>>

(* Mutant of history_fetch: the entry fetched is not freed.                *)
history_fetch_KeepEntry ==
    /\ capacity # 0
    /\ pos' = (pos - 1) % Modulus
    /\ \/ /\ data[Entry(pos - 1)] # NULL
          /\ row' = data[Entry(pos - 1)]
          /\ size' = size - 1
       \/ /\ data[Entry(pos - 1)] = NULL
          /\ row' = Blank
          /\ UNCHANGED size
    /\ Fetched
    /\ UNCHANGED <<capacity, data>>

history_fetch ==
    LET newest == Entry(pos - 1) IN
    /\ capacity # 0
    /\ pos' = (pos - 1) % Modulus
    /\ \/ /\ data[newest] # NULL
          /\ row' = data[newest]
          /\ data' = [data EXCEPT ![newest] = NULL]
          /\ size' = size - 1
       \/ /\ data[newest] = NULL
          /\ row' = Blank
          /\ UNCHANGED <<data, size>>
    /\ Fetched
    /\ UNCHANGED capacity

Next ==
    \/ \E line \in Lines : history_store(line)
    \/ history_fetch \/ FetchFromNoRing
    \/ history_clear

Spec == Init /\ [][Next]_vars

-----------------------------------------------------------------------------
(* Properties.                                                             *)

TypeOK ==
    /\ capacity \in Capacities
    /\ data \in [Slots -> Lines \union {NULL}]
    /\ size \in 0 .. capacity
    /\ pos \in 0 .. Modulus - 1
    /\ row \in Lines \union {Blank}
    /\ depth \in 0 .. capacity
    /\ torn \in BOOLEAN

(* size counts the entries in use, and each of the depth youngest lines is *)
(* found by a peek at its age, whatever stores and fetches came before and *)
(* wherever pos has wrapped.  history_size bounds the scroll-back          *)
(* (viewport_set): as long as nothing was torn it is depth, so that no     *)
(* line it counts is missing and none it does not count keeps an entry.    *)
Window ==
    /\ size = Cardinality({s \in Slots : data[s] # NULL})
    /\ \A age \in 0 .. depth - 1 : history_peek(age) # NULL
    /\ ~ torn => size = depth

(* The lines the ring holds in order.                                      *)
Kept == [i \in 1 .. depth |-> data[EntryOfAge(i - 1)]]
Stack == INSTANCE HistoryStack WITH lines <- Kept

(* A store that forgets lines before the ring is full: some of those kept  *)
(* are from before pos wrapped (pos < depth), Rest at least stay.          *)
StoreOverWrap ==
    /\ pos < depth /\ Rest <= Room(pos')
    /\ \E line \in Lines : Stack!Store(line, Room(pos'))

(* A fetch past the lines kept once others have been torn off.             *)
FetchTorn == torn /\ depth = 0 /\ history_fetch

(* The ring is a bounded stack: stores push, the oldest line alone is lost *)
(* when it is full, and a fetch takes back the newest line, over any       *)
(* number of wraps of pos.  The exceptions are the two steps above, which  *)
(* take a wrap, as a fetch from an empty ring makes one (libte.c scrolls   *)
(* down at the top without asking whether there is a line to show).        *)
IsStack ==
    /\ Stack!Init
    /\ [][Stack!Next \/ StoreOverWrap \/ FetchTorn]_(Stack!vars)
=============================================================================
