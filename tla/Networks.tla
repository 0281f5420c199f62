------------------------------ MODULE Networks ------------------------------
(***************************************************************************)
(* The mask algebra of one address family (net4.go; net6.go is the same    *)
(* algorithms over 128-bit words).  A network is an address under a mask   *)
(* that may fix ANY set of bits: it names the addresses that agree with    *)
(* its own address on every masked bit.                                    *)
(*                                                                         *)
(* A Go method returning (Network, bool) is an operator returning a set    *)
(* of at most one network: {} is the false result.                         *)
(***************************************************************************)
EXTENDS Words

Pair == [addr : Word, mask : Word]

(* What a caller can hold: the address has no bit outside the mask.        *)
Network == {n \in Pair : n.addr \subseteq n.mask}

(* The addresses a network names.                                          *)
Addrs(n) == {x \in Word : x \cap n.mask = n.addr}

(* An optional result.                                                     *)
Only(found, n) == IF found THEN {n} ELSE {}

-----------------------------------------------------------------------------
(* Constructors and conversions                                            *)

FromBits(addr, mask) == [addr |-> addr \cap mask, mask |-> mask]

(* The host route of one address.                                          *)
FromAddr(addr) == [addr |-> addr, mask |-> Bits]

(* The CIDR kernel: lengths outside 0..W are rejected (ErrCIDROverflow).   *)
FromCIDR(addr, prefix) ==
  Only(0 <= prefix /\ prefix <= W, FromBits(addr, MaskFromPrefix(prefix)))

LastAddr(m) == m.addr \cup Not(m.mask)
NumHostBits(m) == Cardinality(Not(m.mask))

IsContiguous(m) == m.mask \cup SubOne(m.mask) = Bits

(* The prefix length, as a set of at most one length.                      *)
PrefixLen(m) == Only(IsContiguous(m), LeadingOnes(m.mask))

ToContiguous(m) == FromBits(m.addr, MaskFromPrefix(LeadingOnes(m.mask)))

-----------------------------------------------------------------------------
(* Order and set relations                                                 *)

(* Mutant: the tie broken towards the narrower network.                    *)
BeforeNarrowFirst(m, o) == Lt(m.addr, o.addr) \/ (m.addr = o.addr /\ Lt(o.mask, m.mask))

(* Compare(m, o) < 0: the address decides, the mask breaks ties.           *)
Before(m, o) == Lt(m.addr, o.addr) \/ (m.addr = o.addr /\ Lt(m.mask, o.mask))

(* Mutant: the masks compared as numbers.                                  *)
ContainsNumeric(m, o) == o.addr \cap m.mask = m.addr /\ Le(m.mask, o.mask)
Contains(m, o) == o.addr \cap m.mask = m.addr /\ o.mask \cap m.mask = m.mask

(* The subset test on masks collapsed to one unsigned compare; the typed   *)
(* wrapper calls it for CIDR blocks only.                                  *)
ContainsContiguous(m, o) == o.addr \cap m.mask = m.addr /\ Le(m.mask, o.mask)

ContainsAddr(m, x) == x \cap m.mask = m.addr

(* Mutant: one address left unmasked in the test for disjointness.         *)
IntersectionHalfMasked(m, o) ==
  Only(m.addr \cap o.mask = o.addr,
       [addr |-> m.addr \cup o.addr, mask |-> m.mask \cup o.mask])
Intersection(m, o) ==
  Only(m.addr \cap o.mask = o.addr \cap m.mask,
       [addr |-> m.addr \cup o.addr, mask |-> m.mask \cup o.mask])

Intersects(m, o) == Intersection(m, o) # {}
IsDisjoint(m, o) == ~Intersects(m, o)

-----------------------------------------------------------------------------
(* Merging                                                                 *)

(* Mutant: equal addresses not told from adjacent ones.                    *)
AdjacentBitOrEqual(m, o) ==
  LET diff == Xor(m.addr, o.addr)
  IN  Only(m.mask = o.mask /\ ClearLowestSetBit(diff) = {}, diff)

(* The bit in which two same-mask networks differ, {} when there is none   *)
(* or when they differ in several.                                         *)
AdjacentBit(m, o) ==
  LET diff == Xor(m.addr, o.addr)
  IN  Only(m.mask = o.mask /\ diff # {} /\ ClearLowestSetBit(diff) = {}, diff)

IsAdjacent(m, o) == AdjacentBit(m, o) # {}

(* Mutant: the address of the sibling union not masked.                    *)
MergeUnmasked(m, o) ==
  LET diff   == Xor(m.addr, o.addr)
      common == m.mask \cap o.mask
  IN  CASE m.mask = o.mask ->
             Only(ClearLowestSetBit(diff) = {}, [addr |-> m.addr, mask |-> Xor(m.mask, diff)])
        [] m.mask # o.mask /\ common = o.mask -> Only(m.addr \cap o.mask = o.addr, o)
        [] m.mask # o.mask /\ common = m.mask -> Only(o.addr \cap m.mask = m.addr, m)
        [] OTHER -> {}

(* Equal masks merge over at most one differing bit, which leaves the      *)
(* mask; unequal masks merge only when one network contains the other.     *)
Merge(m, o) ==
  LET diff   == Xor(m.addr, o.addr)
      mask   == Xor(m.mask, diff)
      common == m.mask \cap o.mask
  IN  CASE m.mask = o.mask ->
             Only(ClearLowestSetBit(diff) = {},
                  [addr |-> m.addr \cap mask, mask |-> mask])
        [] m.mask # o.mask /\ common = o.mask -> Only(m.addr \cap o.mask = o.addr, o)
        [] m.mask # o.mask /\ common = m.mask -> Only(o.addr \cap m.mask = m.addr, m)
        [] OTHER -> {}

IsAdjacentByLowestMaskBit(m, o) ==
  /\ m.mask = o.mask
  /\ m.mask # {}
  /\ Xor(m.addr, o.addr) = LowestSetBit(m.mask)

MergeByLowestMaskBit(m, o) ==
  CASE m = o -> {m}
    [] m.mask = o.mask /\ m # o ->
         Only(IsAdjacentByLowestMaskBit(m, o),
              [addr |-> m.addr \cap o.addr, mask |-> ClearLowestSetBit(m.mask)])
    [] m.mask # o.mask /\ Contains(m, o) -> {m}
    [] m.mask # o.mask /\ ~Contains(m, o) -> Only(Contains(o, m), o)

-----------------------------------------------------------------------------
(* Supernets                                                               *)

Supernet(m) == Only(m.mask # {}, FromBits(m.addr, ClearLowestSetBit(m.mask)))

(* Mutant: the addresses not compared.                                     *)
SupernetMaskOnly(n, addr, mask) == mask \cap n.mask

(* One step of the fold over the other networks.                           *)
SupernetMask(n, addr, mask) == mask \cap (n.mask \ Xor(addr, n.addr))

(* The fold is an intersection of masks, so the order of the arguments     *)
(* does not matter and a set of networks stands for the slice.             *)
SupernetFor(m, nets) ==
  FromBits(m.addr, {i \in m.mask : \A n \in nets : i \in SupernetMask(n, m.addr, m.mask)})

-----------------------------------------------------------------------------
(* Differences                                                             *)

(* The mask bits the intersection fixes and m leaves free.                 *)
Pending(m, o) == (m.mask \cup o.mask) \ m.mask

(* Mutant: the part not masked.                                            *)
PartUnmasked(addr, bit, mask) == [addr |-> Xor(addr, bit), mask |-> mask]

(* One part of m \ o.  Peeling from the top, the mask has grown by every   *)
(* bit already peeled; peeling from the bottom, it still has every bit     *)
(* not yet peeled.                                                         *)
Part(addr, bit, mask) == [addr |-> Xor(addr, bit) \cap mask, mask |-> mask]

(* The parts of m \ o as a set; DifferenceWalk has their order.            *)
DifferenceParts(m, o) ==
  IF IsDisjoint(m, o) THEN {m}
  ELSE {Part(m.addr \cup o.addr, {b}, m.mask \cup {j \in Pending(m, o) : j >= b}) :
          b \in Pending(m, o)}

(* The i-th step of the CIDR ladder built over the subtrahend.             *)
ContiguousLadderPart(m, prefix) ==
  FromBits(Xor(m.addr, {W - prefix}), MaskFromPrefix(prefix))
=============================================================================
