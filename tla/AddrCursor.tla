----------------------------- MODULE AddrCursor -----------------------------
(***************************************************************************)
(* AddrIterator (addr_iterator.go): a cursor that walks the addresses of a *)
(* network from both ends.  The ends and the count minus one of what is    *)
(* left are kept in words as wide as an address, so that a whole universe, *)
(* whose count does not fit a word, is walked like any other network.      *)
(***************************************************************************)
EXTENDS Networks, Sequences

CONSTANT IndexW   \* width of a skip and of SizeHint, 64 in the code, where W is 128

ASSUME IndexAssumption == IndexW \in Nat /\ IndexW <= W

VARIABLES
  base, mask,        \* the network
  front, back,       \* the next address from each end
  remainingLast,     \* how many are left, minus one
  active,            \* something is left
  got                \* result of the last call

cursorVars == <<base, mask, front, back, remainingLast, active, got>>

HostMask == Not(mask)
Contiguous == HostMask \cap AddOne(HostMask) = {}

(* newAddrIterator                                                         *)
Open(n) ==
  /\ base = n.addr /\ mask = n.mask
  /\ front = n.addr
  /\ back = LastAddr(n)
  /\ remainingLast = {i \in Bits : i < NumHostBits(n)}
  /\ active = TRUE

(* The zero value of the type is an exhausted cursor.                      *)
Zero ==
  /\ base = {} /\ mask = {} /\ front = {} /\ back = {} /\ remainingLast = {}
  /\ active = FALSE

CursorInit == ((\E n \in Network : Open(n)) \/ Zero) /\ got = {}

(* One item less of left + 1 items.                                        *)
Consume(left) ==
  IF left = {} THEN active' = FALSE /\ remainingLast' = left
  ELSE active' = TRUE /\ remainingLast' = SubOne(left)

(* One host position up: with the mask bits set, the carry runs across     *)
(* them.                                                                   *)
After(x) ==
  IF Contiguous THEN AddOne(x) ELSE (AddOne(x \cup mask) \cap HostMask) \cup base

Beforehand(x) ==
  IF Contiguous THEN SubOne(x) ELSE (SubOne(x \cap HostMask) \cap HostMask) \cup base

(* depositHostIndex: bit i of the index goes to the i-th host position.    *)
Deposit(n) ==
  {p \in HostMask : Cardinality({q \in HostMask : q < p}) \in FromNat(n)}

Exhausted == got' = {} /\ active' = FALSE

TakeFront(x, left) ==
  /\ got' = {x}
  /\ front' = After(x)
  /\ Consume(left)

TakeBack(x, left) ==
  /\ got' = {x}
  /\ back' = Beforehand(x)
  /\ Consume(left)

-----------------------------------------------------------------------------
NextAddr ==
  /\ IF active THEN TakeFront(front, remainingLast)
     ELSE Exhausted /\ UNCHANGED <<front, remainingLast>>
  /\ UNCHANGED <<base, mask, back>>

NextBack ==
  /\ IF active THEN TakeBack(back, remainingLast)
     ELSE Exhausted /\ UNCHANGED <<back, remainingLast>>
  /\ UNCHANGED <<base, mask, front>>

Skips == 0 .. (2 ^ IndexW - 1)

(* Mutant: the skip compared with the count instead of count minus one.    *)
BeyondCount(n) == ~active \/ n > ToNat(remainingLast) + 1

Beyond(n) == ~active \/ n > ToNat(remainingLast)

FrontAfter(n) ==
  IF Contiguous THEN Add(front, FromNat(n))
  ELSE (Add(front \cup mask, Deposit(n)) \cap HostMask) \cup base

BackBefore(n) ==
  IF Contiguous THEN Sub(back, FromNat(n))
  ELSE (Sub(back \cap HostMask, Deposit(n)) \cap HostMask) \cup base

(* Nth(n): skip n, then Next.                                              *)
Nth ==
  /\ \E n \in Skips :
       IF Beyond(n) THEN Exhausted /\ UNCHANGED <<front, remainingLast>>
       ELSE TakeFront(FrontAfter(n), Sub(remainingLast, FromNat(n)))
  /\ UNCHANGED <<base, mask, back>>

(* Mutant: the skip from the back not taken from the shared count.         *)
NthBackUncounted ==
  /\ \E n \in Skips :
       IF Beyond(n) THEN Exhausted /\ UNCHANGED <<back, remainingLast>>
       ELSE TakeBack(BackBefore(n), remainingLast)
  /\ UNCHANGED <<base, mask, front>>

NthBack ==
  /\ \E n \in Skips :
       IF Beyond(n) THEN Exhausted /\ UNCHANGED <<back, remainingLast>>
       ELSE TakeBack(BackBefore(n), Sub(remainingLast, FromNat(n)))
  /\ UNCHANGED <<base, mask, front>>

CursorNext ==
  \/ NextAddr
  \/ NextBack
  \/ Nth
  \/ NthBack

CursorSpec == CursorInit /\ [][CursorNext]_cursorVars

(* SizeHint: the count and whether it is exact; saturated otherwise.       *)
SizeHint ==
  IF ~active THEN <<0, TRUE>>
  ELSE IF ToNat(remainingLast) >= 2 ^ IndexW - 1 THEN <<2 ^ IndexW - 1, FALSE>>
  ELSE <<ToNat(remainingLast) + 1, TRUE>>

-----------------------------------------------------------------------------
(* What is left: the addresses between the ends, in ascending order.       *)
Ascending(S) ==
  [k \in 1 .. Cardinality(S) |-> CHOOSE x \in S : k = Cardinality({y \in S : Le(y, x)})]

Between == {x \in Addrs([addr |-> base, mask |-> mask]) : Le(front, x) /\ Le(x, back)}

Left == IF active THEN Ascending(Between) ELSE <<>>

Abstract == INSTANCE AddrDeque WITH left <- Left, MaxSkip <- 2 ^ IndexW - 1

CursorTypeOK ==
  /\ mask \in Word /\ base \in SUBSET mask
  /\ front \in Word /\ back \in Word
  /\ remainingLast \in Word
  /\ active \in BOOLEAN
  /\ got \subseteq Addrs([addr |-> base, mask |-> mask]) /\ Cardinality(got) <= 1

(* As long as anything is left, both ends stand on addresses of the        *)
(* network and the shared count is exactly what lies between them, however *)
(* the two ends were moved (addr_iterator.go:26, 61).  SizeHint is that    *)
(* count, unless it does not fit the result, and then it is the greatest   *)
(* value of it (addr_iterator.go:152).                                     *)
CountExact ==
  LET hint  == SizeHint
      count == IF active THEN Cardinality(Between) ELSE 0
  IN  /\ CursorTypeOK
      /\ active =>
           /\ {front, back} \subseteq Between
           /\ Cardinality(Between) = ToNat(remainingLast) + 1
      /\ hint[2] <=> count < 2 ^ IndexW
      /\ hint[2] => hint[1] = count
      /\ ~hint[2] => hint[1] = 2 ^ IndexW - 1

(* The cursor is a queue with two ends: no address comes twice or out of   *)
(* order, skips drop exactly what they say, and exhaustion is permanent    *)
(* for every method (addr_iterator.go:8, 44, 79).                          *)
Implements == Abstract!Spec
=============================================================================
