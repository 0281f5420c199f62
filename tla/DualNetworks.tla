---------------------------- MODULE DualNetworks ----------------------------
(***************************************************************************)
(* Networks of either family in one type (net.go).  An IPv6 network is     *)
(* held as it is; an IPv4 network as its IPv4-mapped image, under a flag.  *)
(* Most operations check the flags and then work on the stored forms, so   *)
(* that one 128-bit kernel serves both families.                           *)
(***************************************************************************)
EXTENDS Integers, FiniteSets

CONSTANTS
  W4,       \* width of an IPv4 word, 32 in the code
  W6,       \* width of an IPv6 word, 128 in the code
  Mapped    \* the one bits of ::ffff:0:0

ASSUME MappedAssumption ==
  /\ W4 \in Nat \ {0} /\ W6 \in Nat /\ W4 < W6
  /\ Mapped \subseteq W4 .. (W6 - 1)

(* The algebra of each family: the same algorithms over words of its width *)
(* (net4.go, net6.go).                                                     *)
F4 == INSTANCE Networks WITH W <- W4
F6 == INSTANCE Networks WITH W <- W6

(* An optional result.                                                     *)
Only(found, n) == IF found THEN {n} ELSE {}

(* The bits a mapped mask pins, ipv4MappedPrefixBits in number, and the    *)
(* conversion to uint32, which keeps the others.                           *)
Pinned == {i \in F6!Bits : i >= W4}
Low4(w) == {i \in w : i < W4}

-----------------------------------------------------------------------------
(* Between the families' own types                                         *)

ToIPv6Mapped4(n) == F6!FromBits(n.addr \cup Mapped, n.mask \cup Pinned)

(* Mutant: the mask not asked whether it pins the mapped range.            *)
IsIPv4MappedByAddress(n) == n.addr \cap Pinned = Mapped
IsIPv4MappedIPv6(n) == n.addr \cap Pinned = Mapped /\ Pinned \subseteq n.mask

ToIPv4Mapped(n) == Only(IsIPv4MappedIPv6(n), F4!FromBits(Low4(n.addr), Low4(n.mask)))

-----------------------------------------------------------------------------
Fields == [network : F6!Network, is4 : BOOLEAN]

(* What a caller can hold: the storage invariant.                          *)
Network == {d \in Fields : d.is4 => IsIPv4MappedIPv6(d.network)}

NetworkFrom4(n) == [network |-> ToIPv6Mapped4(n), is4 |-> TRUE]
NetworkFrom6(n) == [network |-> n, is4 |-> FALSE]

Unwrap4(d) == [addr |-> Low4(d.network.addr), mask |-> Low4(d.network.mask)]

IPv4(d) == Only(d.is4, Unwrap4(d))
IPv6(d) == Only(~d.is4, d.network)

-----------------------------------------------------------------------------
(* Addresses as net/netip has them: of one family, an IPv6 one perhaps     *)
(* with a zone, or the invalid zero value.                                 *)

Netip4(w) == [family |-> 4, bits |-> w, zoned |-> FALSE]
Netip6(w) == [family |-> 6, bits |-> w, zoned |-> FALSE]
NoNetip == [family |-> 0, bits |-> {}, zoned |-> FALSE]
InFamilyOf(d, w) == IF d.is4 THEN Netip4(Low4(w)) ELSE Netip6(w)

Addr(d) == InFamilyOf(d, d.network.addr)
Mask(d) == InFamilyOf(d, d.network.mask)
Hostmask(d) == InFamilyOf(d, F6!Not(d.network.mask))
LastAddr(d) == InFamilyOf(d, F6!LastAddr(d.network))

(* Answered by the stored mask for both families: the pinned bits lengthen *)
(* its leading run and are no host bits.                                   *)
IsContiguous(d) == F6!IsContiguous(d.network)
NumHostBits(d) == F6!NumHostBits(d.network)

(* Mutant: the stored length returned for both families.                   *)
PrefixLenStored(d) == F6!PrefixLen(d.network)
PrefixLen(d) ==
  {IF d.is4 THEN p - Cardinality(Pinned) ELSE p : p \in F6!PrefixLen(d.network)}

(* netip.Prefix: an address and a length its family allows.                *)
Prefix(d) ==
  {[addr |-> Addr(d), bits |-> p] :
     p \in IF d.is4 THEN F4!PrefixLen(Unwrap4(d)) ELSE F6!PrefixLen(d.network)}

(* The addresses of the sequences, and those of the cursor, which walks    *)
(* the stored form and converts each address.                              *)
Addrs(d) ==
  IF d.is4 THEN {Netip4(x) : x \in F4!Addrs(Unwrap4(d))}
  ELSE {Netip6(x) : x \in F6!Addrs(d.network)}
AddrIterator(d) == {InFamilyOf(d, x) : x \in F6!Addrs(d.network)}

-----------------------------------------------------------------------------
(* Constructors: the family of the addresses decides; mixed families and   *)
(* the invalid address are refused, and a zone is dropped.                 *)

Both(f, a, b) == a.family = f /\ b.family = f

NetworkFrom(addr, mask) ==
  Only(Both(4, addr, mask), NetworkFrom4(F4!FromBits(addr.bits, mask.bits)))
    \cup Only(Both(6, addr, mask), NetworkFrom6(F6!FromBits(addr.bits, mask.bits)))

NetworkFromAddr(addr) ==
  CASE addr.family = 4 -> {NetworkFrom4(F4!FromAddr(addr.bits))}
    [] addr.family = 6 -> {NetworkFrom6(F6!FromAddr(addr.bits))}
    [] OTHER -> {}

(* The length is bounded by the address's own family.                      *)
NetworkFromCIDR(addr, bits) ==
  CASE addr.family = 4 -> {NetworkFrom4(n) : n \in F4!FromCIDR(addr.bits, bits)}
    [] addr.family = 6 -> {NetworkFrom6(n) : n \in F6!FromCIDR(addr.bits, bits)}
    [] OTHER -> {}

NetworkFromPrefix(p) == NetworkFromCIDR(p.addr, p.bits)

-----------------------------------------------------------------------------
(* Questions                                                               *)

Before(m, o) ==
  IF m.is4 # o.is4 THEN m.is4 ELSE F6!Before(m.network, o.network)

(* Mutant: the stored forms compared without the family check.             *)
ContainsUnchecked(m, o) == F6!Contains(m.network, o.network)
Contains(m, o) == m.is4 = o.is4 /\ F6!Contains(m.network, o.network)
ContainsContiguous(m, o) == m.is4 = o.is4 /\ F6!ContainsContiguous(m.network, o.network)

ContainsAddr(m, a) ==
  IF m.is4 THEN a.family = 4 /\ a.bits \cap Low4(m.network.mask) = Low4(m.network.addr)
  ELSE a.family = 6 /\ ~a.zoned /\ F6!ContainsAddr(m.network, a.bits)

Intersects(m, o) == m.is4 = o.is4 /\ F6!Intersects(m.network, o.network)
IsAdjacent(m, o) == m.is4 = o.is4 /\ F6!IsAdjacent(m.network, o.network)
IsAdjacentByLowestMaskBit(m, o) ==
  m.is4 = o.is4 /\ F6!IsAdjacentByLowestMaskBit(m.network, o.network)

-----------------------------------------------------------------------------
(* Operations                                                              *)

(* The stored result under the operands' flag.                             *)
Flagged(is4, nets) == {[network |-> n, is4 |-> is4] : n \in nets}

(* Mutant: the intersection of the stored forms whatever the families.     *)
IntersectionUnchecked(m, o) == Flagged(m.is4, F6!Intersection(m.network, o.network))
Intersection(m, o) ==
  IF m.is4 # o.is4 THEN {} ELSE Flagged(m.is4, F6!Intersection(m.network, o.network))

Merge(m, o) ==
  IF m.is4 # o.is4 THEN {} ELSE Flagged(m.is4, F6!Merge(m.network, o.network))

MergeByLowestMaskBit(m, o) ==
  IF m.is4 # o.is4 THEN {} ELSE Flagged(m.is4, F6!MergeByLowestMaskBit(m.network, o.network))

(* Mutant: the parent of the stored form: 0.0.0.0/0 is stored as a /96     *)
(* and has a parent there.                                                 *)
SupernetStored(m) == Flagged(m.is4, F6!Supernet(m.network))
Supernet(m) ==
  IF m.is4 THEN {NetworkFrom4(n) : n \in F4!Supernet(Unwrap4(m))}
  ELSE {NetworkFrom6(n) : n \in F6!Supernet(m.network)}

SupernetFor(m, nets) ==
  Only(\A d \in nets : d.is4 = m.is4,
       [network |-> F6!SupernetFor(m.network, {d.network : d \in nets}), is4 |-> m.is4])

(* The parts of the differences, without their order: it is that of the    *)
(* family's own peel.                                                      *)
Difference(m, o) ==
  IF m.is4 # o.is4 THEN {m}
  ELSE IF m.is4 THEN {NetworkFrom4(n) : n \in F4!DifferenceParts(Unwrap4(m), Unwrap4(o))}
  ELSE {NetworkFrom6(n) : n \in F6!DifferenceParts(m.network, o.network)}

ContiguousLadderPart(m, bits) ==
  [network |-> F6!ContiguousLadderPart(m.network, IF m.is4 THEN bits + Cardinality(Pinned) ELSE bits),
   is4 |-> m.is4]

(* The ladder between nested CIDR blocks, again without its order.         *)
ContiguousDifference(m, o) ==
  IF ContainsContiguous(o, m) THEN {}
  ELSE IF ~ContainsContiguous(m, o) THEN {m}
  ELSE {ContiguousLadderPart(o, bits) :
          bits \in {b \in 1 .. W6 : /\ \E first \in PrefixLen(m) : first < b
                                  /\ \E last \in PrefixLen(o) : b <= last}}

ToContiguous(m) == [network |-> F6!ToContiguous(m.network), is4 |-> m.is4]

(* The image in IPv6, and the flag flipped where the stored form is one.   *)
ToIPv6Mapped(m) == m.network
ToCanonical(m) ==
  IF m.is4 \/ ~IsIPv4MappedIPv6(m.network) THEN m ELSE [network |-> m.network, is4 |-> TRUE]
=============================================================================
