----------------------------- MODULE DualProofs -----------------------------
(***************************************************************************)
(* Dual-family networks, for families of every width and every mapped      *)
(* range.  The storage invariant, TypeOK of DualCalls; that each call on   *)
(* stored forms gives the image of what the family's own algorithm gives,  *)
(* so results and answers are those of the family; and that every view of  *)
(* a network leads back to it.                                             *)
(***************************************************************************)
EXTENDS DualCalls, FiniteSetTheorems, TLAPS

(* What is proved of one family's algebra, for each family.                *)
T4 == INSTANCE NetworkTheorems WITH W <- W4
T6 == INSTANCE NetworkTheorems WITH W <- W6

LEMMA Widths ==
  /\ W4 \in Nat \ {0} /\ W6 \in Nat \ {0} /\ W4 < W6
  /\ F6!Bits = 0 .. (W6 - 1) /\ F4!Bits = 0 .. (W4 - 1) /\ F4!Bits \subseteq F6!Bits
  /\ Pinned = W4 .. (W6 - 1) /\ Mapped \subseteq Pinned
<1>1. W4 \in Nat \ {0} /\ W6 \in Nat \ {0} /\ W4 < W6
  BY MappedAssumption
<1>2. F6!Bits = 0 .. (W6 - 1) /\ F4!Bits = 0 .. (W4 - 1)
  BY DEF F6!Bits, F4!Bits
<1>3. Pinned = W4 .. (W6 - 1)
  BY <1>1, <1>2 DEF Pinned
<1> QED
  BY <1>1, <1>2, <1>3, MappedAssumption

-----------------------------------------------------------------------------
(* The algebras the specification and the theorems speak of are the same.  *)

LEMMA Same4 ==
  /\ F4!Bits = T4!Bits /\ F4!Word = T4!Word /\ F4!Network = T4!Network
  /\ \A w : F4!SubOne(w) = T4!SubOne(w) /\ F4!ClearLowestSetBit(w) = T4!ClearLowestSetBit(w)
  /\ \A m : F4!IsContiguous(m) <=> T4!IsContiguous(m)
  /\ \A m : F4!Supernet(m) = T4!Supernet(m)
  /\ \A m, o : F4!DifferenceParts(m, o) = T4!DifferenceParts(m, o)
  /\ \A x : F4!FromAddr(x) = T4!FromAddr(x)
  /\ \A x, p : F4!FromCIDR(x, p) = T4!FromCIDR(x, p)
<1>1. F4!Bits = T4!Bits
  BY DEF F4!Bits, T4!Bits
<1>2. F4!Word = T4!Word
  BY <1>1 DEF F4!Word, T4!Word
<1>3. F4!Network = T4!Network
  BY <1>2 DEF F4!Network, T4!Network, F4!Pair, T4!Pair
<1>4. \A w : F4!SubOne(w) = T4!SubOne(w)
  BY <1>1 DEF F4!SubOne, T4!SubOne
<1>5. \A w : F4!ClearLowestSetBit(w) = T4!ClearLowestSetBit(w)
  BY <1>4 DEF F4!ClearLowestSetBit, T4!ClearLowestSetBit
<1>6. \A m : F4!IsContiguous(m) <=> T4!IsContiguous(m)
  BY <1>1, <1>4 DEF F4!IsContiguous, T4!IsContiguous
<1>7. \A m : F4!Supernet(m) = T4!Supernet(m)
  BY <1>5 DEF F4!Supernet, T4!Supernet, F4!Only, T4!Only, F4!FromBits, T4!FromBits
<1>8. \A m, o : F4!DifferenceParts(m, o) = T4!DifferenceParts(m, o)
  BY DEF F4!DifferenceParts, T4!DifferenceParts, F4!IsDisjoint, T4!IsDisjoint,
         F4!Intersects, T4!Intersects, F4!Intersection, T4!Intersection, F4!Only, T4!Only,
         F4!Pending, T4!Pending, F4!Part, T4!Part, F4!Xor, T4!Xor
<1>9. \A x : F4!FromAddr(x) = T4!FromAddr(x)
  BY <1>1 DEF F4!FromAddr, T4!FromAddr
<1>10. \A x, p : F4!FromCIDR(x, p) = T4!FromCIDR(x, p)
  BY <1>1 DEF F4!FromCIDR, T4!FromCIDR, F4!Only, T4!Only, F4!FromBits, T4!FromBits,
              F4!MaskFromPrefix, T4!MaskFromPrefix
<1> QED
  BY <1>1, <1>2, <1>3, <1>4, <1>5, <1>6, <1>7, <1>8, <1>9, <1>10

LEMMA Same6 ==
  /\ F6!Bits = T6!Bits /\ F6!Word = T6!Word /\ F6!Network = T6!Network
  /\ \A w : F6!SubOne(w) = T6!SubOne(w) /\ F6!ClearLowestSetBit(w) = T6!ClearLowestSetBit(w)
  /\ \A m : F6!IsContiguous(m) <=> T6!IsContiguous(m)
  /\ \A m : F6!Supernet(m) = T6!Supernet(m)
  /\ \A m, o : F6!DifferenceParts(m, o) = T6!DifferenceParts(m, o)
  /\ \A x : F6!FromAddr(x) = T6!FromAddr(x)
  /\ \A x, p : F6!FromCIDR(x, p) = T6!FromCIDR(x, p)
<1>1. F6!Bits = T6!Bits
  BY DEF F6!Bits, T6!Bits
<1>2. F6!Word = T6!Word
  BY <1>1 DEF F6!Word, T6!Word
<1>3. F6!Network = T6!Network
  BY <1>2 DEF F6!Network, T6!Network, F6!Pair, T6!Pair
<1>4. \A w : F6!SubOne(w) = T6!SubOne(w)
  BY <1>1 DEF F6!SubOne, T6!SubOne
<1>5. \A w : F6!ClearLowestSetBit(w) = T6!ClearLowestSetBit(w)
  BY <1>4 DEF F6!ClearLowestSetBit, T6!ClearLowestSetBit
<1>6. \A m : F6!IsContiguous(m) <=> T6!IsContiguous(m)
  BY <1>1, <1>4 DEF F6!IsContiguous, T6!IsContiguous
<1>7. \A m : F6!Supernet(m) = T6!Supernet(m)
  BY <1>5 DEF F6!Supernet, T6!Supernet, F6!Only, T6!Only, F6!FromBits, T6!FromBits
<1>8. \A m, o : F6!DifferenceParts(m, o) = T6!DifferenceParts(m, o)
  BY DEF F6!DifferenceParts, T6!DifferenceParts, F6!IsDisjoint, T6!IsDisjoint,
         F6!Intersects, T6!Intersects, F6!Intersection, T6!Intersection, F6!Only, T6!Only,
         F6!Pending, T6!Pending, F6!Part, T6!Part, F6!Xor, T6!Xor
<1>9. \A x : F6!FromAddr(x) = T6!FromAddr(x)
  BY <1>1 DEF F6!FromAddr, T6!FromAddr
<1>10. \A x, p : F6!FromCIDR(x, p) = T6!FromCIDR(x, p)
  BY <1>1 DEF F6!FromCIDR, T6!FromCIDR, F6!Only, T6!Only, F6!FromBits, T6!FromBits,
              F6!MaskFromPrefix, T6!MaskFromPrefix
<1> QED
  BY <1>1, <1>2, <1>3, <1>4, <1>5, <1>6, <1>7, <1>8, <1>9, <1>10

(* The kernels the stored forms go through.                                *)
LEMMA SameKernels ==
  /\ \A m, o : F6!Contains(m, o) <=> T6!Contains(m, o)
  /\ \A m, o : F6!Intersection(m, o) = T6!Intersection(m, o)
  /\ \A m, o : F6!Merge(m, o) = T6!Merge(m, o)
  /\ \A m, o : F6!MergeByLowestMaskBit(m, o) = T6!MergeByLowestMaskBit(m, o)
  /\ \A w : F6!LeadingOnes(w) = T6!LeadingOnes(w)
  /\ \A p : F6!MaskFromPrefix(p) = T6!MaskFromPrefix(p)
  /\ \A m : F6!ToContiguous(m) = T6!ToContiguous(m)
<1>1. \A m, o : F6!Contains(m, o) <=> T6!Contains(m, o)
  BY DEF F6!Contains, T6!Contains
<1>2. \A m, o : F6!Intersection(m, o) = T6!Intersection(m, o)
  BY DEF F6!Intersection, T6!Intersection, F6!Only, T6!Only
<1>3. \A w : F6!ClearLowestSetBit(w) = T6!ClearLowestSetBit(w)
  BY Same6
<1>4. \A m, o : F6!Merge(m, o) = T6!Merge(m, o)
  BY <1>3 DEF F6!Merge, T6!Merge, F6!Xor, T6!Xor, F6!Only, T6!Only
<1>5. \A m, o : F6!MergeByLowestMaskBit(m, o) = T6!MergeByLowestMaskBit(m, o)
  BY <1>1, <1>3 DEF F6!MergeByLowestMaskBit, T6!MergeByLowestMaskBit, F6!Xor, T6!Xor,
     F6!Only, T6!Only, F6!IsAdjacentByLowestMaskBit, T6!IsAdjacentByLowestMaskBit,
     F6!LowestSetBit, T6!LowestSetBit
<1>6. \A w : F6!LeadingOnes(w) = T6!LeadingOnes(w)
  BY DEF F6!LeadingOnes, T6!LeadingOnes, F6!Bits, T6!Bits, F6!Cardinality, T6!Cardinality
<1>7. \A p : F6!MaskFromPrefix(p) = T6!MaskFromPrefix(p)
  BY DEF F6!MaskFromPrefix, T6!MaskFromPrefix, F6!Bits, T6!Bits
<1>8. \A m : F6!ToContiguous(m) = T6!ToContiguous(m)
  BY <1>6, <1>7 DEF F6!ToContiguous, T6!ToContiguous, F6!FromBits, T6!FromBits
<1> QED
  BY <1>1, <1>2, <1>4, <1>5, <1>6, <1>7, <1>8

-----------------------------------------------------------------------------
(* Stored forms                                                            *)

LEMMA Fields4 ==
  ASSUME NEW n \in F4!Network
  PROVE  /\ n.addr \subseteq F4!Bits /\ n.mask \subseteq F4!Bits /\ n.addr \subseteq n.mask
         /\ n = [addr |-> n.addr, mask |-> n.mask]
BY DEF F4!Network, F4!Pair, F4!Word

LEMMA Fields6 ==
  ASSUME NEW n \in F6!Network
  PROVE  /\ n.addr \subseteq F6!Bits /\ n.mask \subseteq F6!Bits /\ n.addr \subseteq n.mask
         /\ n = [addr |-> n.addr, mask |-> n.mask]
BY DEF F6!Network, F6!Pair, F6!Word

LEMMA FromBits4 ==
  ASSUME NEW a, NEW m, a \subseteq F4!Bits, m \subseteq F4!Bits
  PROVE  F4!FromBits(a, m) \in F4!Network
BY DEF F4!FromBits, F4!Network, F4!Pair, F4!Word

LEMMA FromBits6 ==
  ASSUME NEW a, NEW m, a \subseteq F6!Bits, m \subseteq F6!Bits
  PROVE  F6!FromBits(a, m) \in F6!Network
BY DEF F6!FromBits, F6!Network, F6!Pair, F6!Word

LEMMA DualFields ==
  ASSUME NEW d \in Network
  PROVE  /\ d.network \in F6!Network /\ d.is4 \in BOOLEAN
         /\ d.is4 => d.network.addr \cap Pinned = Mapped /\ Pinned \subseteq d.network.mask
         /\ d = [network |-> d.network, is4 |-> d.is4]
BY DEF Network, Fields, IsIPv4MappedIPv6

LEMMA DualMake ==
  ASSUME NEW n \in F6!Network, NEW is4 \in BOOLEAN,
         is4 => n.addr \cap Pinned = Mapped /\ Pinned \subseteq n.mask
  PROVE  [network |-> n, is4 |-> is4] \in Network
BY DEF Network, Fields, IsIPv4MappedIPv6

LEMMA FlaggedInNetwork ==
  ASSUME NEW nets, nets \subseteq F6!Network, NEW is4 \in BOOLEAN,
         is4 => \A n \in nets : n.addr \cap Pinned = Mapped /\ Pinned \subseteq n.mask
  PROVE  Flagged(is4, nets) \subseteq Network
<1>1. ASSUME NEW n \in nets PROVE [network |-> n, is4 |-> is4] \in Network
  BY <1>1, DualMake
<1> QED
  BY <1>1 DEF Flagged

(* An IPv6 network needs no check; an IPv4 one is stored inside the range, *)
(* and read back from there.                                               *)
LEMMA FromFamily6 ==
  ASSUME NEW n \in F6!Network
  PROVE  NetworkFrom6(n) \in Network
BY DualMake DEF NetworkFrom6

LEMMA FromFamily4 ==
  ASSUME NEW n \in F4!Network
  PROVE  /\ NetworkFrom4(n) \in Network
         /\ NetworkFrom4(n).is4
         /\ NetworkFrom4(n).network.addr = n.addr \cup Mapped
         /\ NetworkFrom4(n).network.mask = n.mask \cup Pinned
<1> DEFINE s == ToIPv6Mapped4(n)
<1>1. /\ n.addr \subseteq F4!Bits /\ n.mask \subseteq F4!Bits /\ n.addr \subseteq n.mask
  BY Fields4
<1>2. /\ F4!Bits \cap Pinned = {} /\ F4!Bits \subseteq F6!Bits
      /\ Pinned \subseteq F6!Bits /\ Mapped \subseteq Pinned
  BY Widths DEF Pinned
<1>3. s.addr = n.addr \cup Mapped /\ s.mask = n.mask \cup Pinned
  BY <1>1, <1>2 DEF ToIPv6Mapped4, F6!FromBits
<1>4. s \in F6!Network
  <2>1. n.addr \cup Mapped \subseteq F6!Bits /\ n.mask \cup Pinned \subseteq F6!Bits
    BY <1>1, <1>2
  <2> QED
    BY <2>1, FromBits6 DEF ToIPv6Mapped4
<1>5. s.addr \cap Pinned = Mapped /\ Pinned \subseteq s.mask
  BY <1>1, <1>2, <1>3
<1> HIDE DEF s
<1>6. NetworkFrom4(n) = [network |-> s, is4 |-> TRUE]
  BY DEF NetworkFrom4, s
<1>7. [network |-> s, is4 |-> TRUE] \in Network
  BY <1>4, <1>5, DualMake
<1> QED
  BY <1>3, <1>6, <1>7

LEMMA Unwrapped ==
  ASSUME NEW d \in Network
  PROVE  /\ Unwrap4(d) \in F4!Network
         /\ Unwrap4(d).addr = d.network.addr \cap F4!Bits
         /\ Unwrap4(d).mask = d.network.mask \cap F4!Bits
         /\ d.is4 => d.network.addr = Unwrap4(d).addr \cup Mapped
         /\ d.is4 => d.network.mask = Unwrap4(d).mask \cup Pinned
<1>1. /\ d.network.addr \subseteq F6!Bits /\ d.network.mask \subseteq F6!Bits
      /\ d.network.addr \subseteq d.network.mask
  BY DualFields, Fields6
<1>2. ASSUME NEW w, w \subseteq F6!Bits PROVE Low4(w) = w \cap F4!Bits
  <2>1. \A i \in F6!Bits : i < W4 <=> i \in F4!Bits
    BY Widths
  <2> QED
    BY <1>2, <2>1 DEF Low4
<1>3. F6!Bits = F4!Bits \cup Pinned /\ F4!Bits \cap Pinned = {} /\ Mapped \subseteq Pinned
  BY Widths DEF Pinned
<1>4. /\ Unwrap4(d).addr = d.network.addr \cap F4!Bits
      /\ Unwrap4(d).mask = d.network.mask \cap F4!Bits
  BY <1>1, <1>2 DEF Unwrap4
<1>5. Unwrap4(d) \in F4!Network
  BY <1>1, <1>2 DEF Unwrap4, F4!Network, F4!Pair, F4!Word
<1>6. ASSUME d.is4
      PROVE  /\ d.network.addr = Unwrap4(d).addr \cup Mapped
             /\ d.network.mask = Unwrap4(d).mask \cup Pinned
  BY <1>1, <1>3, <1>4, <1>6, DualFields
<1> QED
  BY <1>4, <1>5, <1>6

(* The pinned bits lengthen the leading run of a mask and nothing else.    *)
LEMMA StoredBlock ==
  ASSUME NEW w, w \subseteq F4!Bits
  PROVE  (w \cup Pinned) \cup F6!SubOne(w \cup Pinned) = F6!Bits
           <=> w \cup F4!SubOne(w) = F4!Bits
<1> DEFINE v == w \cup Pinned
<1>1. /\ F6!Bits = F4!Bits \cup Pinned /\ F4!Bits \cap Pinned = {}
      /\ \A i \in F4!Bits : \A j \in Pinned : ~(j < i)
  BY Widths DEF Pinned
<1>2. v \in T6!Word /\ w \in T4!Word
  BY <1>1, Same4, Same6 DEF F6!Word, F4!Word
<1>3. W4 \in Nat \ {0} /\ W6 \in Nat \ {0}
  BY Widths
<1>4. v \cup T6!SubOne(v) = T6!Bits <=> \A i \in T6!Bits \ v : \A j \in v : ~(j < i)
  BY <1>2, <1>3, T6!ContiguousIsUpward
<1>5. w \cup T4!SubOne(w) = T4!Bits <=> \A i \in T4!Bits \ w : \A j \in w : ~(j < i)
  BY <1>2, <1>3, T4!ContiguousIsUpward
<1>6. (\A i \in F6!Bits \ v : \A j \in v : ~(j < i))
        <=> (\A i \in F4!Bits \ w : \A j \in w : ~(j < i))
  BY <1>1
<1> QED
  BY <1>4, <1>5, <1>6, Same4, Same6

LEMMA StoredIsContiguous ==
  /\ \A n \in F4!Network : F4!IsContiguous(n) <=> IsContiguous(NetworkFrom4(n))
  /\ \A d \in Network : d.is4 => (IsContiguous(d) <=> F4!IsContiguous(Unwrap4(d)))
<1>1. ASSUME NEW n \in F4!Network
      PROVE  F4!IsContiguous(n) <=> IsContiguous(NetworkFrom4(n))
  <2>1. n.mask \subseteq F4!Bits /\ NetworkFrom4(n).network.mask = n.mask \cup Pinned
    BY Fields4, FromFamily4
  <2> QED
    BY <2>1, StoredBlock DEF IsContiguous, F6!IsContiguous, F4!IsContiguous
<1>2. ASSUME NEW d \in Network, d.is4
      PROVE  IsContiguous(d) <=> F4!IsContiguous(Unwrap4(d))
  <2>1. /\ Unwrap4(d).mask \subseteq F4!Bits
        /\ d.network.mask = Unwrap4(d).mask \cup Pinned
    BY <1>2, Unwrapped, Fields4
  <2> QED
    BY <2>1, StoredBlock DEF IsContiguous, F6!IsContiguous, F4!IsContiguous
<1> QED
  BY <1>1, <1>2

-----------------------------------------------------------------------------
(* Operations on stored forms keep the pinned bits, and those of the       *)
(* wrapper the class.                                                      *)

LEMMA IntersectionStored ==
  ASSUME NEW m \in Network, NEW o \in Network
  PROVE  /\ Intersection(m, o) \subseteq Network
         /\ IsContiguous(m) /\ IsContiguous(o) => \A u \in Intersection(m, o) : IsContiguous(u)
<1> DEFINE nets == F6!Intersection(m.network, o.network)
<1>1. CASE m.is4 # o.is4
  BY <1>1 DEF Intersection
<1>2. CASE m.is4 = o.is4
  <2>0. /\ m.network \in F6!Network /\ o.network \in F6!Network /\ m.is4 \in BOOLEAN
        /\ W6 \in Nat \ {0}
    BY DualFields, Widths
  <2>1. \A u \in nets : /\ u.addr = m.network.addr \cup o.network.addr
                        /\ u.mask = m.network.mask \cup o.network.mask
    BY DEF F6!Intersection, F6!Only
  <2>2. nets \subseteq F6!Network
    BY <2>0, Same6, SameKernels, T6!IntersectionIsExact
  <2>3. ASSUME m.is4, NEW u \in nets PROVE u.addr \cap Pinned = Mapped /\ Pinned \subseteq u.mask
    BY <1>2, <2>1, <2>3, DualFields
  <2>4. Flagged(m.is4, nets) \subseteq Network
    BY <2>0, <2>2, <2>3, FlaggedInNetwork
  <2>5. ASSUME IsContiguous(m), IsContiguous(o), NEW n \in nets PROVE F6!IsContiguous(n)
    BY <2>0, <2>5, Same6, SameKernels, T6!BlocksStayBlocks DEF IsContiguous
  <2> QED
    BY <1>2, <2>4, <2>5 DEF Intersection, Flagged, IsContiguous
<1> QED
  BY <1>1, <1>2

(* The bit a merge frees is one in which the addresses differ, so it is    *)
(* not pinned.                                                             *)
LEMMA MergeStored ==
  ASSUME NEW m \in Network, NEW o \in Network
  PROVE  Merge(m, o) \subseteq Network
<1> DEFINE nets == F6!Merge(m.network, o.network)
<1>1. CASE m.is4 # o.is4
  BY <1>1 DEF Merge
<1>2. CASE m.is4 = o.is4
  <2>0. /\ m.network \in T6!Network /\ o.network \in T6!Network /\ m.is4 \in BOOLEAN
        /\ W6 \in Nat \ {0} /\ nets = T6!Merge(m.network, o.network)
    BY DualFields, Widths, Same6, SameKernels
  <2>1. nets \subseteq F6!Network
    BY <2>0, Same6, T6!MergeIsUnion
  <2>2. ASSUME m.is4, NEW u \in nets PROVE u.addr \cap Pinned = Mapped /\ Pinned \subseteq u.mask
    <3>1. /\ m.network.addr \cap Pinned = Mapped /\ Pinned \subseteq m.network.mask
          /\ o.network.addr \cap Pinned = Mapped /\ Pinned \subseteq o.network.mask
      BY <1>2, <2>2, DualFields
    <3>2. \/ u = m.network \/ u = o.network
          \/ /\ u.addr = m.network.addr \cap o.network.addr
             /\ u.mask = m.network.mask \ T6!Xor(m.network.addr, o.network.addr)
      BY <2>0, <2>2, T6!MergeCases
    <3>3. T6!Xor(m.network.addr, o.network.addr) \cap Pinned = {}
      BY <3>1 DEF T6!Xor
    <3> QED
      BY <3>1, <3>2, <3>3
  <2>3. Flagged(m.is4, nets) \subseteq Network
    BY <2>0, <2>1, <2>2, FlaggedInNetwork
  <2> QED
    BY <1>2, <2>3 DEF Merge
<1> QED
  BY <1>1, <1>2

LEMMA MergeByLowestStored ==
  ASSUME NEW m \in Network, NEW o \in Network
  PROVE  /\ MergeByLowestMaskBit(m, o) \subseteq Network
         /\ IsContiguous(m) /\ IsContiguous(o) =>
              \A u \in MergeByLowestMaskBit(m, o) : IsContiguous(u)
<1>1. CASE m.is4 # o.is4
  BY <1>1 DEF MergeByLowestMaskBit
<1>2. CASE m.is4 = o.is4
  <2>0. m.network \in T6!Network /\ o.network \in T6!Network /\ W6 \in Nat \ {0}
    BY DualFields, Widths, Same6
  <2>1. F6!MergeByLowestMaskBit(m.network, o.network) \subseteq F6!Merge(m.network, o.network)
    BY <2>0, SameKernels, T6!LowestMerge
  <2>2. MergeByLowestMaskBit(m, o) \subseteq Merge(m, o)
    BY <1>2, <2>1 DEF MergeByLowestMaskBit, Merge, Flagged
  <2>3. ASSUME IsContiguous(m), IsContiguous(o),
               NEW n \in F6!MergeByLowestMaskBit(m.network, o.network)
        PROVE  F6!IsContiguous(n)
    BY <2>0, <2>3, Same6, SameKernels, T6!BlocksStayBlocks DEF IsContiguous
  <2> QED
    BY <1>2, <2>2, <2>3, MergeStored DEF MergeByLowestMaskBit, Flagged, IsContiguous
<1> QED
  BY <1>1, <1>2

(* The parent is taken in the family's own width: that of 0.0.0.0/0 is     *)
(* none, although its stored form has one.                                 *)
LEMMA SupernetStored4 ==
  ASSUME NEW m \in Network
  PROVE  /\ Supernet(m) \subseteq Network
         /\ IsContiguous(m) => \A u \in Supernet(m) : IsContiguous(u)
<1>1. CASE m.is4
  <2>1. Unwrap4(m) \in T4!Network /\ W4 \in Nat \ {0}
    BY Unwrapped, Widths, Same4
  <2>2. F4!Supernet(Unwrap4(m)) \subseteq F4!Network
    BY <2>1, Same4, T4!CoversAreNetworks
  <2>3. ASSUME IsContiguous(m), NEW n \in F4!Supernet(Unwrap4(m)) PROVE F4!IsContiguous(n)
    <3>1. T4!IsContiguous(Unwrap4(m))
      BY <1>1, <2>3, StoredIsContiguous, Same4
    <3> QED
      BY <2>1, <2>3, <3>1, Same4, T4!BlocksStayBlocks
  <2>4. Supernet(m) = {NetworkFrom4(n) : n \in F4!Supernet(Unwrap4(m))}
    BY <1>1 DEF Supernet
  <2> QED
    BY <2>2, <2>3, <2>4, FromFamily4, StoredIsContiguous
<1>2. CASE ~m.is4
  <2>1. m.network \in T6!Network /\ W6 \in Nat \ {0}
    BY DualFields, Widths, Same6
  <2>2. F6!Supernet(m.network) \subseteq F6!Network
    BY <2>1, Same6, T6!CoversAreNetworks
  <2>3. ASSUME IsContiguous(m), NEW n \in F6!Supernet(m.network) PROVE F6!IsContiguous(n)
    BY <2>1, <2>3, Same6, T6!BlocksStayBlocks DEF IsContiguous
  <2>4. Supernet(m) = {NetworkFrom6(n) : n \in F6!Supernet(m.network)}
    BY <1>2 DEF Supernet
  <2> QED
    BY <2>2, <2>3, <2>4, FromFamily6 DEF IsContiguous, NetworkFrom6
<1> QED
  BY <1>1, <1>2

LEMMA SupernetForStored ==
  ASSUME NEW m \in Network, NEW nets, nets \subseteq Network
  PROVE  SupernetFor(m, nets) \subseteq Network
<1> SUFFICES ASSUME \A d \in nets : d.is4 = m.is4
             PROVE  [network |-> F6!SupernetFor(m.network, {d.network : d \in nets}),
                     is4 |-> m.is4] \in Network
  BY DEF SupernetFor, Only
<1> DEFINE us == {d.network : d \in nets}
           w == {i \in m.network.mask :
                   \A n \in us : i \in F6!SupernetMask(n, m.network.addr, m.network.mask)}
           s == F6!SupernetFor(m.network, us)
<1>1. /\ m.network.addr \subseteq F6!Bits /\ m.network.mask \subseteq F6!Bits
      /\ m.is4 \in BOOLEAN
  BY DualFields, Fields6
<1>2. s \in F6!Network /\ s.addr = m.network.addr \cap w /\ s.mask = w
  BY <1>1, FromBits6 DEF F6!SupernetFor, F6!FromBits
<1>3. ASSUME m.is4 PROVE Pinned \subseteq w /\ m.network.addr \cap Pinned = Mapped
  <2>1. m.network.addr \cap Pinned = Mapped /\ Pinned \subseteq m.network.mask
    BY <1>3, DualFields
  <2>2. \A n \in us : n.addr \cap Pinned = Mapped /\ Pinned \subseteq n.mask
    BY <1>3, DualFields
  <2>3. \A n \in us : F6!Xor(m.network.addr, n.addr) \cap Pinned = {}
    BY <2>1, <2>2 DEF F6!Xor
  <2> QED
    BY <2>1, <2>2, <2>3 DEF F6!SupernetMask
<1>4. ASSUME m.is4 PROVE s.addr \cap Pinned = Mapped /\ Pinned \subseteq s.mask
  BY <1>2, <1>3, <1>4
<1> HIDE DEF s
<1>5. [network |-> s, is4 |-> m.is4] \in Network
  BY <1>1, <1>2, <1>4, DualMake
<1> QED
  BY <1>5 DEF s

LEMMA ToContiguousStored ==
  ASSUME NEW m \in Network
  PROVE  ToContiguous(m) \in Network /\ IsContiguous(ToContiguous(m))
<1> DEFINE s == F6!ToContiguous(m.network)
<1>0. /\ m.network \in F6!Network /\ m.network \in T6!Network /\ m.is4 \in BOOLEAN
      /\ W6 \in Nat \ {0}
  BY DualFields, Widths, Same6
<1>1. s = T6!ToContiguous(m.network)
  BY SameKernels
<1>2. s \in F6!Network /\ F6!IsContiguous(s) /\ s.mask = T6!Run(m.network.mask)
  <2>1. {} \in T6!Word
    BY DEF T6!Word
  <2> QED
    BY <1>0, <1>1, <2>1, Same6, T6!CoversAreNetworks, T6!ConstructedBlocks
<1>3. s.addr = m.network.addr \cap s.mask
  BY DEF F6!ToContiguous, F6!FromBits
<1>4. ASSUME m.is4 PROVE s.addr \cap Pinned = Mapped /\ Pinned \subseteq s.mask
  <2>1. m.network.addr \cap Pinned = Mapped /\ Pinned \subseteq m.network.mask
    BY <1>4, DualFields
  <2>2. \A i \in Pinned : i \in T6!Bits /\ i .. (W6 - 1) \subseteq Pinned
    BY Widths, Same6
  <2>3. Pinned \subseteq T6!Run(m.network.mask)
    BY <2>1, <2>2 DEF T6!Run
  <2> QED
    BY <1>2, <1>3, <2>1, <2>3
<1> HIDE DEF s
<1>5. [network |-> s, is4 |-> m.is4] \in Network
  BY <1>0, <1>2, <1>4, DualMake
<1> QED
  BY <1>2, <1>5 DEF s, ToContiguous, IsContiguous

LEMMA DifferenceStored ==
  ASSUME NEW m \in Network, NEW o \in Network
  PROVE  Difference(m, o) \subseteq Network
<1>1. CASE m.is4 # o.is4
  BY <1>1 DEF Difference
<1>2. CASE m.is4 = o.is4 /\ m.is4
  <2>1. /\ Unwrap4(m) \in T4!Network /\ Unwrap4(o) \in T4!Network /\ W4 \in Nat \ {0}
    BY Unwrapped, Widths, Same4
  <2>2. F4!DifferenceParts(Unwrap4(m), Unwrap4(o)) \subseteq F4!Network
    BY <2>1, Same4, T4!PartsAreNetworks
  <2> QED
    BY <1>2, <2>2, FromFamily4 DEF Difference
<1>3. CASE m.is4 = o.is4 /\ ~m.is4
  <2>1. m.network \in T6!Network /\ o.network \in T6!Network /\ W6 \in Nat \ {0}
    BY DualFields, Widths, Same6
  <2>2. F6!DifferenceParts(m.network, o.network) \subseteq F6!Network
    BY <2>1, Same6, T6!PartsAreNetworks
  <2> QED
    BY <1>3, <2>2, FromFamily6 DEF Difference
<1> QED
  BY <1>1, <1>2, <1>3

(* A rung of the ladder flips a bit below the pinned ones as long as its   *)
(* length is one of the family.                                            *)
LEMMA LadderStored ==
  ASSUME NEW m \in Network, NEW bits \in 1 .. W6, m.is4 => bits <= W4
  PROVE  /\ ContiguousLadderPart(m, bits) \in Network
         /\ IsContiguous(ContiguousLadderPart(m, bits))
<1> DEFINE p == IF m.is4 THEN bits + Cardinality(Pinned) ELSE bits
           s == F6!ContiguousLadderPart(m.network, p)
           x == F6!Xor(m.network.addr, {W6 - p})
<1>0. /\ W4 \in Nat \ {0} /\ W6 \in Nat \ {0} /\ W4 < W6 /\ F6!Bits = 0 .. (W6 - 1)
      /\ Pinned = W4 .. (W6 - 1) /\ Mapped \subseteq Pinned
  BY Widths
<1>1. Cardinality(Pinned) = W6 - W4
  <2>1. Cardinality(W4 .. (W6 - 1)) = IF W4 > W6 - 1 THEN 0 ELSE (W6 - 1) - W4 + 1
    BY <1>0, FS_Interval
  <2> QED
    BY <1>0, <2>1
<1>2. p \in 1 .. W6 /\ (m.is4 => W6 - p < W4)
  BY <1>0, <1>1
<1> HIDE DEF p
<1>3. /\ m.network.addr \subseteq F6!Bits /\ m.is4 \in BOOLEAN
      /\ m.is4 => m.network.addr \cap Pinned = Mapped
  BY DualFields, Fields6
<1>4. x \subseteq F6!Bits /\ F6!MaskFromPrefix(p) \subseteq F6!Bits
  BY <1>0, <1>2, <1>3 DEF F6!Xor, F6!MaskFromPrefix
<1>5. s \in F6!Network /\ s.addr = x \cap F6!MaskFromPrefix(p) /\ s.mask = F6!MaskFromPrefix(p)
  BY <1>4, FromBits6 DEF F6!ContiguousLadderPart, F6!FromBits
<1>6. ASSUME m.is4 PROVE s.addr \cap Pinned = Mapped /\ Pinned \subseteq s.mask
  <2>1. W6 - p \notin Pinned
    BY <1>0, <1>2, <1>6
  <2>2. x \cap Pinned = Mapped
    BY <1>3, <1>6, <2>1 DEF F6!Xor
  <2>3. Pinned \subseteq F6!MaskFromPrefix(p)
    BY <1>0, <1>2, <1>6 DEF F6!MaskFromPrefix
  <2> QED
    BY <1>5, <2>2, <2>3
<1>7. F6!IsContiguous(s)
  <2>1. s.mask = T6!MaskFromPrefix(p) /\ p \in 0 .. W6
    BY <1>0, <1>2, <1>5, SameKernels
  <2>2. s.mask \cup T6!SubOne(s.mask) = T6!Bits
    BY <1>0, <2>1, T6!PrefixMask, T6!RunFacts
  <2> QED
    BY <2>2, Same6 DEF F6!IsContiguous
<1> HIDE DEF s
<1>8. [network |-> s, is4 |-> m.is4] \in Network
  BY <1>3, <1>5, <1>6, DualMake
<1>9. ContiguousLadderPart(m, bits) = [network |-> s, is4 |-> m.is4]
  BY DEF ContiguousLadderPart, s, p
<1> QED
  BY <1>7, <1>8, <1>9 DEF IsContiguous

LEMMA ContiguousDifferenceStored ==
  ASSUME NEW m \in Network, NEW o \in Network, IsContiguous(m), IsContiguous(o)
  PROVE  /\ ContiguousDifference(m, o) \subseteq Network
         /\ \A u \in ContiguousDifference(m, o) : IsContiguous(u)
<1>1. CASE ContainsContiguous(o, m) \/ ~ContainsContiguous(m, o)
  BY <1>1 DEF ContiguousDifference
<1>2. CASE ~ContainsContiguous(o, m) /\ ContainsContiguous(m, o)
  <2> DEFINE rungs == {b \in 1 .. W6 : /\ \E first \in PrefixLen(m) : first < b
                                       /\ \E last \in PrefixLen(o) : b <= last}
  <2>1. ContiguousDifference(m, o) = {ContiguousLadderPart(o, bits) : bits \in rungs}
    BY <1>2 DEF ContiguousDifference
  <2>2. ASSUME NEW bits \in rungs, o.is4 PROVE bits <= W4
    <3>1. PICK last \in PrefixLen(o) : bits <= last
      OBVIOUS
    <3>2. last = F6!LeadingOnes(o.network.mask) - Cardinality(Pinned)
      BY <2>2, <3>1 DEF PrefixLen, F6!PrefixLen, F6!Only
    <3>3. F6!LeadingOnes(o.network.mask) \in 0 .. W6
      <4>1. o.network.mask \in T6!Word /\ W6 \in Nat \ {0}
        BY DualFields, Fields6, Widths, Same6 DEF F6!Word
      <4> QED
        BY <4>1, SameKernels, T6!LeadingRun
    <3>4. Cardinality(Pinned) = W6 - W4
      <4>1. Cardinality(W4 .. (W6 - 1)) = IF W4 > W6 - 1 THEN 0 ELSE (W6 - 1) - W4 + 1
        BY Widths, FS_Interval
      <4> QED
        BY Widths, <4>1
    <3> QED
      BY <3>1, <3>2, <3>3, <3>4, Widths
  <2> QED
    BY <2>1, <2>2, LadderStored
<1> QED
  BY <1>1, <1>2

-----------------------------------------------------------------------------
(* Constructors                                                            *)

(* An address of a family has bits of that family only.                    *)
Fits(a) ==
  \/ a.family = 4 /\ a.bits \subseteq F4!Bits
  \/ a.family = 6 /\ a.bits \subseteq F6!Bits
  \/ a.family = 0

LEMMA ViewsFit ==
  ASSUME NEW d \in Network
  PROVE  Fits(LastAddr(d)) /\ Fits(Mask(d)) /\ Fits(NoNetip)
<1>1. ASSUME NEW w, w \subseteq F6!Bits PROVE Fits(InFamilyOf(d, w))
  <2>1. \A i \in F6!Bits : i < W4 => i \in F4!Bits
    BY Widths
  <2>2. Low4(w) \subseteq F4!Bits
    BY <1>1, <2>1 DEF Low4
  <2> QED
    BY <1>1, <2>2 DEF Fits, InFamilyOf, Netip4, Netip6
<1>2. d.network.addr \subseteq F6!Bits /\ d.network.mask \subseteq F6!Bits
  BY DualFields, Fields6
<1>3. F6!LastAddr(d.network) \subseteq F6!Bits
  BY <1>2 DEF F6!LastAddr, F6!Not
<1> QED
  BY <1>1, <1>2, <1>3 DEF LastAddr, Mask, Fits, NoNetip

LEMMA ConstructorsStored ==
  ASSUME NEW a, NEW x, Fits(a), Fits(x)
  PROVE  /\ NetworkFrom(a, x) \subseteq Network
         /\ NetworkFromAddr(a) \subseteq Network
         /\ \A p \in Int : /\ NetworkFromCIDR(a, p) \subseteq Network
                          /\ \A u \in NetworkFromCIDR(a, p) : IsContiguous(u)
<1>0. W4 \in Nat \ {0} /\ W6 \in Nat \ {0}
  BY Widths
<1>1. NetworkFrom(a, x) \subseteq Network
  BY FromBits4, FromBits6, FromFamily4, FromFamily6 DEF NetworkFrom, Only, Both, Fits
<1>2. CASE a.family = 4
  <2>1. a.bits \in T4!Word
    BY <1>2, Same4 DEF Fits, F4!Word
  <2>2. {} \subseteq F4!Bits
    OBVIOUS
  <2>3. [addr |-> {}, mask |-> {}] \in T4!Network
    BY Same4 DEF F4!Network, F4!Pair, F4!Word
  <2>4. /\ T4!FromAddr(a.bits) \in T4!Network
        /\ \A p \in Int : /\ T4!FromCIDR(a.bits, p) \subseteq T4!Network
                         /\ \A u \in T4!FromCIDR(a.bits, p) : T4!IsContiguous(u)
    BY <1>0, <2>1, <2>3, T4!ConstructedBlocks, T4!CoversAreNetworks
  <2>5. NetworkFromAddr(a) \subseteq Network
    BY <1>2, <2>4, Same4, FromFamily4 DEF NetworkFromAddr
  <2>6. ASSUME NEW p \in Int, NEW u \in NetworkFromCIDR(a, p)
        PROVE  u \in Network /\ IsContiguous(u)
    <3>1. PICK n \in F4!FromCIDR(a.bits, p) : u = NetworkFrom4(n)
      BY <1>2, <2>6 DEF NetworkFromCIDR
    <3>2. n \in F4!Network /\ F4!IsContiguous(n)
      BY <2>4, <3>1, Same4
    <3> QED
      BY <3>1, <3>2, FromFamily4, StoredIsContiguous
  <2> QED
    BY <1>1, <2>5, <2>6
<1>3. CASE a.family = 6
  <2>1. a.bits \in T6!Word
    BY <1>3, Same6 DEF Fits, F6!Word
  <2>3. [addr |-> {}, mask |-> {}] \in T6!Network
    BY Same6 DEF F6!Network, F6!Pair, F6!Word
  <2>4. /\ T6!FromAddr(a.bits) \in T6!Network
        /\ \A p \in Int : /\ T6!FromCIDR(a.bits, p) \subseteq T6!Network
                         /\ \A u \in T6!FromCIDR(a.bits, p) : T6!IsContiguous(u)
    BY <1>0, <2>1, <2>3, T6!ConstructedBlocks, T6!CoversAreNetworks
  <2>5. NetworkFromAddr(a) \subseteq Network
    BY <1>3, <2>4, Same6, FromFamily6 DEF NetworkFromAddr
  <2>6. ASSUME NEW p \in Int, NEW u \in NetworkFromCIDR(a, p)
        PROVE  u \in Network /\ IsContiguous(u)
    <3>1. PICK n \in F6!FromCIDR(a.bits, p) : u = NetworkFrom6(n)
      BY <1>3, <2>6 DEF NetworkFromCIDR
    <3>2. n \in F6!Network /\ F6!IsContiguous(n)
      BY <2>4, <3>1, Same6
    <3> QED
      BY <3>1, <3>2, FromFamily6 DEF IsContiguous, NetworkFrom6
  <2> QED
    BY <1>1, <2>5, <2>6
<1>4. CASE a.family = 0
  BY <1>1, <1>4 DEF NetworkFromAddr, NetworkFromCIDR
<1> QED
  BY <1>2, <1>3, <1>4 DEF Fits

(* Between the families.                                                   *)
LEMMA ConversionsStored ==
  ASSUME NEW m \in Network
  PROVE  ToCanonical(m) \in Network /\ NetworkFrom6(ToIPv6Mapped(m)) \in Network
<1>1. m.network \in F6!Network
  BY DualFields
<1>2. ToCanonical(m) \in Network
  <2>1. CASE m.is4 \/ ~IsIPv4MappedIPv6(m.network)
    BY <2>1 DEF ToCanonical
  <2>2. CASE ~m.is4 /\ IsIPv4MappedIPv6(m.network)
    <3>1. [network |-> m.network, is4 |-> TRUE] \in Network
      BY <1>1, <2>2, DualMake DEF IsIPv4MappedIPv6
    <3> QED
      BY <2>2, <3>1 DEF ToCanonical
  <2> QED
    BY <2>1, <2>2
<1> QED
  BY <1>1, <1>2, FromFamily6 DEF ToIPv6Mapped

-----------------------------------------------------------------------------
(* The theorem                                                             *)

(* A call keeps the types when its results are stored networks, of the     *)
(* class if the program goes on with a wrapped one.                        *)
LEMMA ReturnKeepsTypes ==
  ASSUME TypeOK, NEW name \in Ops, NEW operands \in Seq(Network),
         NEW results, results \subseteq Network,
         Return(name, operands, results), prefix' \in -1 .. (W6 + 1),
         typed' \in BOOLEAN, typed' => IsContiguous(held'),
         held' \in Network
  PROVE  TypeOK'
BY DEF TypeOK, Return

LEMMA HeldIsResult ==
  ASSUME TypeOK, NEW name, NEW operands, NEW results, results \subseteq Network,
         Return(name, operands, results)
  PROVE  /\ held' \in Network
         /\ typed /\ (\A u \in results : IsContiguous(u)) => IsContiguous(held')
BY DEF TypeOK, Return

(* A call of the plain type or of the wrapper that leaves it at that.      *)
LEMMA CallKeepsTypes ==
  ASSUME TypeOK, NEW name \in Ops, NEW operands \in Seq(Network),
         NEW results, results \subseteq Network,
         Return(name, operands, results), prefix' \in -1 .. (W6 + 1), UNCHANGED typed,
         typed => \A u \in results : IsContiguous(u)
  PROVE  TypeOK'
<1>1. held' \in Network /\ (typed => IsContiguous(held'))
  BY HeldIsResult
<1>2. typed' \in BOOLEAN /\ (typed' => IsContiguous(held'))
  BY <1>1 DEF TypeOK
<1> QED
  BY <1>1, <1>2, ReturnKeepsTypes

(* TypeOK of DualCalls (net.go:224, 393; contiguous.go:15): whatever       *)
(* sequence of calls led to it, an IPv4 network is stored with the mapped  *)
(* prefix in its address and the pinned bits in its mask, and a wrapped    *)
(* network is a CIDR block, although no call checks either again.          *)
THEOREM StorageInvariant == Spec => []TypeOK
<1>0. W6 \in Nat /\ 0 \in -1 .. (W6 + 1) /\ <<>> \in Seq(Network)
  BY Widths
<1>1. Init => TypeOK
  BY <1>0 DEF Init, TypeOK, Ops
<1>2. TypeOK /\ [Next]_vars => TypeOK'
  <2> SUFFICES ASSUME TypeOK, [Next]_vars PROVE TypeOK'
    OBVIOUS
  <2>0. held \in Network /\ typed \in BOOLEAN /\ (typed => IsContiguous(held))
    BY DEF TypeOK
  <2>1. CASE CallIntersection
    <3>1. PICK o \in Others : Call("Intersection", <<o>>, Intersection(held, o))
      BY <2>1 DEF CallIntersection
    <3>2. o \in Network /\ <<o>> \in Seq(Network) /\ (typed => IsContiguous(o))
      BY DEF Others
    <3>3. /\ Intersection(held, o) \subseteq Network
          /\ typed => \A u \in Intersection(held, o) : IsContiguous(u)
      BY <2>0, <2>1, <3>2, IntersectionStored
    <3> QED
      BY <1>0, <2>1, <3>1, <3>2, <3>3, CallKeepsTypes DEF Call, Ops, CallIntersection
  <2>2. CASE CallMergeByLowestMaskBit
    <3>1. PICK o \in Others : Call("MergeByLowestMaskBit", <<o>>, MergeByLowestMaskBit(held, o))
      BY <2>2 DEF CallMergeByLowestMaskBit
    <3>2. o \in Network /\ <<o>> \in Seq(Network) /\ (typed => IsContiguous(o))
      BY DEF Others
    <3>3. /\ MergeByLowestMaskBit(held, o) \subseteq Network
          /\ typed => \A u \in MergeByLowestMaskBit(held, o) : IsContiguous(u)
      BY <2>0, <2>2, <3>2, MergeByLowestStored
    <3> QED
      BY <1>0, <2>2, <3>1, <3>2, <3>3, CallKeepsTypes DEF Call, Ops, CallMergeByLowestMaskBit
  <2>3. CASE CallSupernet
    <3>1. /\ Supernet(held) \subseteq Network
          /\ typed => \A u \in Supernet(held) : IsContiguous(u)
      BY <2>0, SupernetStored4
    <3> QED
      BY <1>0, <2>3, <3>1, CallKeepsTypes DEF Call, Ops, CallSupernet
  <2>4. CASE CallDifference
    <3>1. PICK o \in Others : Call("Difference", <<o>>, Difference(held, o))
      BY <2>4 DEF CallDifference
    <3>2. o \in Network /\ <<o>> \in Seq(Network) /\ (typed => IsContiguous(o))
      BY DEF Others
    <3>3. /\ Difference(held, o) \subseteq Network
          /\ typed => \A u \in Difference(held, o) : IsContiguous(u)
      BY <2>0, <2>4, <3>2, DifferenceStored DEF CallDifference
    <3> QED
      BY <1>0, <2>4, <3>1, <3>2, <3>3, CallKeepsTypes DEF Call, Ops, CallDifference
  <2>5. CASE CallContiguousDifference
    <3>1. PICK o \in Others : Call("Difference", <<o>>, ContiguousDifference(held, o))
      BY <2>5 DEF CallContiguousDifference
    <3>2. o \in Network /\ <<o>> \in Seq(Network) /\ (typed => IsContiguous(o))
      BY DEF Others
    <3>3. /\ ContiguousDifference(held, o) \subseteq Network
          /\ typed => \A u \in ContiguousDifference(held, o) : IsContiguous(u)
      BY <2>0, <2>5, <3>2, ContiguousDifferenceStored DEF CallContiguousDifference
    <3> QED
      BY <1>0, <2>5, <3>1, <3>2, <3>3, CallKeepsTypes DEF Call, Ops, CallContiguousDifference
  <2>6. CASE CallMerge
    <3>1. PICK o \in Others : Call("Merge", <<o>>, Merge(held, o))
      BY <2>6 DEF CallMerge
    <3>2. o \in Network /\ <<o>> \in Seq(Network) /\ (typed => IsContiguous(o))
      BY DEF Others
    <3>3. /\ Merge(held, o) \subseteq Network
          /\ typed => \A u \in Merge(held, o) : IsContiguous(u)
      BY <2>0, <2>6, <3>2, MergeStored DEF CallMerge
    <3> QED
      BY <1>0, <2>6, <3>1, <3>2, <3>3, CallKeepsTypes DEF Call, Ops, CallMerge
  <2>7. CASE CallSupernetFor
    <3>1. PICK nets \in Slices :
            Call("SupernetFor", nets, SupernetFor(held, {nets[k] : k \in DOMAIN nets}))
      BY <2>7 DEF CallSupernetFor
    <3>2. nets \in Seq(Network) /\ {nets[k] : k \in DOMAIN nets} \subseteq Network
      BY SlicesAssumption
    <3>3. SupernetFor(held, {nets[k] : k \in DOMAIN nets}) \subseteq Network
      BY <2>0, <3>2, SupernetForStored
    <3> QED
      BY <1>0, <2>7, <3>1, <3>2, <3>3, CallKeepsTypes DEF Call, Ops, CallSupernetFor
  <2>8. CASE CallToCanonical
    <3>1. {ToCanonical(held)} \subseteq Network
      BY <2>0, ConversionsStored
    <3>2. ~typed /\ UNCHANGED typed /\ prefix' = 0
          /\ Return("ToCanonical", <<>>, {ToCanonical(held)})
      BY <2>8 DEF Call, CallToCanonical
    <3>3. "ToCanonical" \in Ops /\ prefix' \in -1 .. (W6 + 1)
      BY <1>0, <3>2 DEF Ops
    <3>4. typed => \A u \in {ToCanonical(held)} : IsContiguous(u)
      BY <3>2
    <3> QED
      BY <1>0, <3>1, <3>2, <3>3, <3>4, CallKeepsTypes
  <2>9. CASE CallToIPv6Mapped
    <3>1. {NetworkFrom6(ToIPv6Mapped(held))} \subseteq Network
      BY <2>0, ConversionsStored
    <3>2. ~typed /\ UNCHANGED typed /\ prefix' = 0
          /\ Return("ToIPv6Mapped", <<>>, {NetworkFrom6(ToIPv6Mapped(held))})
      BY <2>9 DEF Call, CallToIPv6Mapped
    <3>3. "ToIPv6Mapped" \in Ops /\ prefix' \in -1 .. (W6 + 1)
      BY <1>0, <3>2 DEF Ops
    <3>4. typed => \A u \in {NetworkFrom6(ToIPv6Mapped(held))} : IsContiguous(u)
      BY <3>2
    <3> QED
      BY <1>0, <3>1, <3>2, <3>3, <3>4, CallKeepsTypes
  <2>10. CASE CallToContiguous
    <3>1. /\ Return("ToContiguous", <<>>, {ToContiguous(held)})
          /\ typed' = TRUE /\ prefix' = 0
      BY <2>10 DEF CallToContiguous, Call
    <3>2. ToContiguous(held) \in Network /\ IsContiguous(ToContiguous(held))
      BY <2>0, ToContiguousStored
    <3>3. held' = ToContiguous(held)
      BY <3>1 DEF Return
    <3>4. "ToContiguous" \in Ops /\ prefix' \in -1 .. (W6 + 1)
      BY <1>0, <3>1 DEF Ops
    <3>5. {ToContiguous(held)} \subseteq Network /\ held' \in Network
      BY <3>2, <3>3
    <3>6. typed' \in BOOLEAN /\ (typed' => IsContiguous(held'))
      BY <3>1, <3>2, <3>3
    <3> QED
      BY <1>0, <3>1, <3>4, <3>5, <3>6, ReturnKeepsTypes
  <2>11. CASE CallContiguousFrom
    <3>1. /\ Return("ContiguousFrom", <<>>, Only(IsContiguous(held), held))
          /\ typed' = IsContiguous(held) /\ prefix' = 0
      BY <2>11 DEF CallContiguousFrom, Call
    <3>2. held' = held /\ Only(IsContiguous(held), held) \subseteq Network
      BY <2>0, <3>1 DEF Return, Only
    <3>3. IsContiguous(held) \in BOOLEAN
      BY DEF IsContiguous, F6!IsContiguous
    <3>4. typed' \in BOOLEAN /\ (typed' => IsContiguous(held')) /\ held' \in Network
      BY <2>0, <3>1, <3>2, <3>3
    <3> QED
      BY <1>0, <3>1, <3>2, <3>4, ReturnKeepsTypes DEF Ops
  <2>12. CASE CallNetwork
    <3>1. /\ Return("Network", <<>>, {held}) /\ typed' = FALSE /\ prefix' = 0
      BY <2>12 DEF CallNetwork, Call
    <3>2. held' = held
      BY <3>1 DEF Return
    <3>3. "Network" \in Ops /\ prefix' \in -1 .. (W6 + 1)
      BY <1>0, <3>1 DEF Ops
    <3>4. {held} \subseteq Network /\ held' \in Network
      BY <2>0, <3>2
    <3>5. typed' \in BOOLEAN /\ (typed' => IsContiguous(held'))
      BY <3>1
    <3> QED
      BY <1>0, <3>1, <3>3, <3>4, <3>5, ReturnKeepsTypes
  <2>13. CASE CallNetworkFrom
    <3>1. CASE Call("NetworkFrom", <<>>, NetworkFrom(LastAddr(held), NoNetip))
      <4>1. NetworkFrom(LastAddr(held), NoNetip) \subseteq Network
        BY <2>0, ViewsFit, ConstructorsStored
      <4> QED
        BY <1>0, <2>13, <3>1, <4>1, CallKeepsTypes DEF Call, Ops, CallNetworkFrom
    <3>2. ASSUME NEW o \in Others,
                 Call("NetworkFrom", <<o>>, NetworkFrom(LastAddr(held), Mask(o)))
          PROVE  TypeOK'
      <4>1. o \in Network /\ <<o>> \in Seq(Network)
        BY DEF Others
      <4>2. NetworkFrom(LastAddr(held), Mask(o)) \subseteq Network
        BY <2>0, <4>1, ViewsFit, ConstructorsStored
      <4> QED
        BY <1>0, <2>13, <3>2, <4>1, <4>2, CallKeepsTypes DEF Call, Ops, CallNetworkFrom
    <3> QED
      BY <2>13, <3>1, <3>2 DEF CallNetworkFrom
  <2>14. CASE CallFromAddr
    <3>1. PICK a \in {LastAddr(held), NoNetip} : Call("FromAddr", <<>>, NetworkFromAddr(a))
      BY <2>14 DEF CallFromAddr
    <3>2. NetworkFromAddr(a) \subseteq Network
      BY <2>0, <3>1, ViewsFit, ConstructorsStored
    <3> QED
      BY <1>0, <2>14, <3>1, <3>2, CallKeepsTypes DEF Call, Ops, CallFromAddr
  <2>15. CASE CallFromCIDR
    <3>1. PICK p \in -1 .. (W6 + 1) :
            Return("FromCIDR", <<>>, NetworkFromCIDR(LastAddr(held), p)) /\ prefix' = p
      BY <2>15 DEF CallFromCIDR
    <3>2. p \in Int
      BY <1>0
    <3>3. /\ NetworkFromCIDR(LastAddr(held), p) \subseteq Network
          /\ \A u \in NetworkFromCIDR(LastAddr(held), p) : IsContiguous(u)
      BY <2>0, <3>2, ViewsFit, ConstructorsStored
    <3> QED
      BY <1>0, <2>15, <3>1, <3>3, CallKeepsTypes DEF Ops, CallFromCIDR
  <2>16. CASE Ask
    <3>1. PICK o \in Others : Call("Ask", <<o>>, {})
      BY <2>16 DEF Ask
    <3>2. <<o>> \in Seq(Network)
      BY DEF Others
    <3>3. UNCHANGED typed /\ prefix' = 0 /\ Return("Ask", <<o>>, {})
      BY <2>16, <3>1 DEF Call, Ask
    <3>4. "Ask" \in Ops /\ prefix' \in -1 .. (W6 + 1)
      BY <1>0, <3>3 DEF Ops
    <3>5. /\ op' = "Ask" /\ recv' = held /\ args' = <<o>> /\ out' = {}
          /\ held' = held
      BY <3>3 DEF Return
    <3> QED
      BY <2>0, <3>2, <3>3, <3>4, <3>5 DEF TypeOK
  <2>17. CASE Continue
    BY <1>0, <2>17 DEF Continue, TypeOK, Ops
  <2>18. CASE UNCHANGED vars
    BY <2>18 DEF TypeOK, vars
  <2> QED
    BY <2>1, <2>2, <2>3, <2>4, <2>5, <2>6, <2>7, <2>8, <2>9, <2>10, <2>11, <2>12, <2>13,
       <2>14, <2>15, <2>16, <2>17, <2>18 DEF Next
<1> QED
  BY <1>1, <1>2, PTL DEF Spec

-----------------------------------------------------------------------------
(* The rest of the algebras is the same too.                               *)

LEMMA SameRest4 ==
  /\ \A w : F4!Not(w) = T4!Not(w) /\ F4!LeadingOnes(w) = T4!LeadingOnes(w)
  /\ \A w : T4!Run(w) = {i \in F4!Bits : i .. (W4 - 1) \subseteq w}
  /\ \A p : F4!MaskFromPrefix(p) = T4!MaskFromPrefix(p)
  /\ \A a, m : F4!FromBits(a, m) = T4!FromBits(a, m)
  /\ \A m, o : F4!Intersection(m, o) = T4!Intersection(m, o)
  /\ \A m, o : F4!Intersects(m, o) <=> T4!Intersects(m, o)
  /\ \A m, o : F4!IsDisjoint(m, o) <=> T4!IsDisjoint(m, o)
  /\ \A m, o : F4!Pending(m, o) = T4!Pending(m, o)
  /\ \A a, b, m : F4!Part(a, b, m) = T4!Part(a, b, m)
  /\ \A m, p : F4!ContiguousLadderPart(m, p) = T4!ContiguousLadderPart(m, p)
  /\ \A m, o : F4!ContainsContiguous(m, o) <=> T4!ContainsContiguous(m, o)
  /\ \A m, o : F4!Contains(m, o) <=> T4!Contains(m, o)
  /\ \A m : F4!PrefixLen(m) = T4!PrefixLen(m)
<1>1. F4!Bits = T4!Bits /\ \A m : F4!IsContiguous(m) <=> T4!IsContiguous(m)
  BY Same4
<1>2. \A w : F4!Not(w) = T4!Not(w)
  BY <1>1 DEF F4!Not, T4!Not
<1>3. \A w : F4!LeadingOnes(w) = T4!LeadingOnes(w)
  BY <1>1 DEF F4!LeadingOnes, T4!LeadingOnes, F4!Cardinality, T4!Cardinality
<1>4. \A w : T4!Run(w) = {i \in F4!Bits : i .. (W4 - 1) \subseteq w}
  BY <1>1 DEF T4!Run
<1>5. \A p : F4!MaskFromPrefix(p) = T4!MaskFromPrefix(p)
  BY <1>1 DEF F4!MaskFromPrefix, T4!MaskFromPrefix
<1>6. \A a, m : F4!FromBits(a, m) = T4!FromBits(a, m)
  BY DEF F4!FromBits, T4!FromBits
<1>7. \A m, o : F4!Intersection(m, o) = T4!Intersection(m, o)
  BY DEF F4!Intersection, T4!Intersection, F4!Only, T4!Only
<1>8. \A m, o : /\ F4!Intersects(m, o) <=> T4!Intersects(m, o)
                /\ F4!IsDisjoint(m, o) <=> T4!IsDisjoint(m, o)
  BY <1>7 DEF F4!Intersects, T4!Intersects, F4!IsDisjoint, T4!IsDisjoint
<1>9. \A m, o : F4!Pending(m, o) = T4!Pending(m, o)
  BY DEF F4!Pending, T4!Pending
<1>10. \A a, b, m : F4!Part(a, b, m) = T4!Part(a, b, m)
  BY DEF F4!Part, T4!Part, F4!Xor, T4!Xor
<1>11. \A m, p : F4!ContiguousLadderPart(m, p) = T4!ContiguousLadderPart(m, p)
  BY <1>5, <1>6 DEF F4!ContiguousLadderPart, T4!ContiguousLadderPart, F4!Xor, T4!Xor
<1>12. \A m, o : F4!ContainsContiguous(m, o) <=> T4!ContainsContiguous(m, o)
  BY DEF F4!ContainsContiguous, T4!ContainsContiguous, F4!Le, T4!Le, F4!Lt, T4!Lt
<1>13. \A m, o : F4!Contains(m, o) <=> T4!Contains(m, o)
  BY DEF F4!Contains, T4!Contains
<1>14. \A m : F4!PrefixLen(m) = T4!PrefixLen(m)
  BY <1>1, <1>3 DEF F4!PrefixLen, T4!PrefixLen, F4!Only, T4!Only
<1> QED
  BY <1>2, <1>3, <1>4, <1>5, <1>6, <1>7, <1>8, <1>9, <1>10, <1>11, <1>12, <1>13, <1>14
LEMMA SameRest6 ==
  /\ \A w : F6!Not(w) = T6!Not(w) /\ F6!LeadingOnes(w) = T6!LeadingOnes(w)
  /\ \A w : T6!Run(w) = {i \in F6!Bits : i .. (W6 - 1) \subseteq w}
  /\ \A p : F6!MaskFromPrefix(p) = T6!MaskFromPrefix(p)
  /\ \A a, m : F6!FromBits(a, m) = T6!FromBits(a, m)
  /\ \A m, o : F6!Intersection(m, o) = T6!Intersection(m, o)
  /\ \A m, o : F6!Intersects(m, o) <=> T6!Intersects(m, o)
  /\ \A m, o : F6!IsDisjoint(m, o) <=> T6!IsDisjoint(m, o)
  /\ \A m, o : F6!Pending(m, o) = T6!Pending(m, o)
  /\ \A a, b, m : F6!Part(a, b, m) = T6!Part(a, b, m)
  /\ \A m, p : F6!ContiguousLadderPart(m, p) = T6!ContiguousLadderPart(m, p)
  /\ \A m, o : F6!ContainsContiguous(m, o) <=> T6!ContainsContiguous(m, o)
  /\ \A m, o : F6!Contains(m, o) <=> T6!Contains(m, o)
  /\ \A m : F6!PrefixLen(m) = T6!PrefixLen(m)
<1>1. F6!Bits = T6!Bits /\ \A m : F6!IsContiguous(m) <=> T6!IsContiguous(m)
  BY Same6
<1>2. \A w : F6!Not(w) = T6!Not(w)
  BY <1>1 DEF F6!Not, T6!Not
<1>3. \A w : F6!LeadingOnes(w) = T6!LeadingOnes(w)
  BY <1>1 DEF F6!LeadingOnes, T6!LeadingOnes, F6!Cardinality, T6!Cardinality
<1>4. \A w : T6!Run(w) = {i \in F6!Bits : i .. (W6 - 1) \subseteq w}
  BY <1>1 DEF T6!Run
<1>5. \A p : F6!MaskFromPrefix(p) = T6!MaskFromPrefix(p)
  BY <1>1 DEF F6!MaskFromPrefix, T6!MaskFromPrefix
<1>6. \A a, m : F6!FromBits(a, m) = T6!FromBits(a, m)
  BY DEF F6!FromBits, T6!FromBits
<1>7. \A m, o : F6!Intersection(m, o) = T6!Intersection(m, o)
  BY DEF F6!Intersection, T6!Intersection, F6!Only, T6!Only
<1>8. \A m, o : /\ F6!Intersects(m, o) <=> T6!Intersects(m, o)
                /\ F6!IsDisjoint(m, o) <=> T6!IsDisjoint(m, o)
  BY <1>7 DEF F6!Intersects, T6!Intersects, F6!IsDisjoint, T6!IsDisjoint
<1>9. \A m, o : F6!Pending(m, o) = T6!Pending(m, o)
  BY DEF F6!Pending, T6!Pending
<1>10. \A a, b, m : F6!Part(a, b, m) = T6!Part(a, b, m)
  BY DEF F6!Part, T6!Part, F6!Xor, T6!Xor
<1>11. \A m, p : F6!ContiguousLadderPart(m, p) = T6!ContiguousLadderPart(m, p)
  BY <1>5, <1>6 DEF F6!ContiguousLadderPart, T6!ContiguousLadderPart, F6!Xor, T6!Xor
<1>12. \A m, o : F6!ContainsContiguous(m, o) <=> T6!ContainsContiguous(m, o)
  BY DEF F6!ContainsContiguous, T6!ContainsContiguous, F6!Le, T6!Le, F6!Lt, T6!Lt
<1>13. \A m, o : F6!Contains(m, o) <=> T6!Contains(m, o)
  BY DEF F6!Contains, T6!Contains
<1>14. \A m : F6!PrefixLen(m) = T6!PrefixLen(m)
  BY <1>1, <1>3 DEF F6!PrefixLen, T6!PrefixLen, F6!Only, T6!Only
<1> QED
  BY <1>2, <1>3, <1>4, <1>5, <1>6, <1>7, <1>8, <1>9, <1>10, <1>11, <1>12, <1>13, <1>14

(* The merges of IPv4 networks; those of IPv6 ones are in SameKernels.     *)
LEMMA SameMerges4 ==
  /\ \A m, o : F4!Merge(m, o) = T4!Merge(m, o)
  /\ \A m, o : F4!MergeByLowestMaskBit(m, o) = T4!MergeByLowestMaskBit(m, o)
<1>1. \A w : F4!ClearLowestSetBit(w) = T4!ClearLowestSetBit(w)
  BY Same4
<1>2. \A m, o : F4!Merge(m, o) = T4!Merge(m, o)
  BY <1>1 DEF F4!Merge, T4!Merge, F4!Xor, T4!Xor, F4!Only, T4!Only
<1>3. \A m, o : F4!MergeByLowestMaskBit(m, o) = T4!MergeByLowestMaskBit(m, o)
  BY <1>1 DEF F4!MergeByLowestMaskBit, T4!MergeByLowestMaskBit, F4!Xor, T4!Xor,
     F4!Only, T4!Only, F4!IsAdjacentByLowestMaskBit, T4!IsAdjacentByLowestMaskBit,
     F4!LowestSetBit, T4!LowestSetBit, F4!Contains, T4!Contains
<1> QED
  BY <1>2, <1>3

-----------------------------------------------------------------------------
(* The image of an IPv4 network among the stored forms                     *)

LEMMA Apart ==
  /\ F6!Bits = F4!Bits \cup Pinned /\ F4!Bits \cap Pinned = {} /\ Mapped \subseteq Pinned
  /\ \A i \in F4!Bits : \A j \in Pinned : i < j /\ ~(j < i) /\ i <= j /\ ~(j <= i)
  /\ \A i \in F6!Bits : i < W4 <=> i \in F4!Bits
BY Widths DEF Pinned

LEMMA Image ==
  ASSUME NEW n \in F4!Network
  PROVE  /\ n.addr \subseteq F4!Bits /\ n.mask \subseteq F4!Bits /\ n.addr \subseteq n.mask
         /\ n = [addr |-> n.addr, mask |-> n.mask]
         /\ ToIPv6Mapped4(n) = [addr |-> n.addr \cup Mapped, mask |-> n.mask \cup Pinned]
         /\ ToIPv6Mapped4(n) \in F6!Network
         /\ NetworkFrom4(n) \in Network
         /\ Unwrap4(NetworkFrom4(n)) = n
<1>1. /\ n.addr \subseteq F4!Bits /\ n.mask \subseteq F4!Bits /\ n.addr \subseteq n.mask
      /\ n = [addr |-> n.addr, mask |-> n.mask]
  BY Fields4
<1>2. (n.addr \cup Mapped) \cap (n.mask \cup Pinned) = n.addr \cup Mapped
  BY <1>1, Apart
<1>3. ToIPv6Mapped4(n) = [addr |-> n.addr \cup Mapped, mask |-> n.mask \cup Pinned]
  BY <1>2 DEF ToIPv6Mapped4, F6!FromBits
<1>4. n.addr \cup Mapped \subseteq F6!Bits /\ n.mask \cup Pinned \subseteq F6!Bits
  BY <1>1, Apart
<1>5. ToIPv6Mapped4(n) \in F6!Network
  BY <1>4, FromBits6 DEF ToIPv6Mapped4
<1>6. NetworkFrom4(n) \in Network
  BY FromFamily4
<1>7. Unwrap4(NetworkFrom4(n)) = n
  <2>1. /\ Unwrap4(NetworkFrom4(n)).addr = (n.addr \cup Mapped) \cap F4!Bits
        /\ Unwrap4(NetworkFrom4(n)).mask = (n.mask \cup Pinned) \cap F4!Bits
    BY <1>6, Unwrapped, FromFamily4
  <2>2. /\ Unwrap4(NetworkFrom4(n)).addr = n.addr /\ Unwrap4(NetworkFrom4(n)).mask = n.mask
    BY <1>1, <2>1, Apart
  <2>3. Unwrap4(NetworkFrom4(n)) =
          [addr |-> Unwrap4(NetworkFrom4(n)).addr, mask |-> Unwrap4(NetworkFrom4(n)).mask]
    BY DEF Unwrap4
  <2> QED
    BY <1>1, <2>2, <2>3
<1> QED
  BY <1>1, <1>3, <1>5, <1>6, <1>7

LEMMA ImageFields ==
  ASSUME NEW n \in F4!Network
  PROVE  /\ ToIPv6Mapped4(n).addr = n.addr \cup Mapped
         /\ ToIPv6Mapped4(n).mask = n.mask \cup Pinned
BY Image

LEMMA ImageOfPair ==
  ASSUME NEW a, NEW m, a \subseteq m, m \subseteq F4!Bits
  PROVE  /\ [addr |-> a, mask |-> m] \in F4!Network
         /\ ToIPv6Mapped4([addr |-> a, mask |-> m]) =
              [addr |-> a \cup Mapped, mask |-> m \cup Pinned]
<1>1. [addr |-> a, mask |-> m] \in F4!Network
  BY DEF F4!Network, F4!Pair, F4!Word
<1> QED
  BY <1>1, Image

(* A stored IPv4 network is the image of what it stands for.               *)
LEMMA Stored ==
  ASSUME NEW d \in Network
  PROVE  /\ d.is4 => /\ d = NetworkFrom4(Unwrap4(d))
                     /\ d.network = ToIPv6Mapped4(Unwrap4(d))
                     /\ Unwrap4(d) \in F4!Network
         /\ ~d.is4 => d = NetworkFrom6(d.network) /\ d.network \in F6!Network
<1>1. d.network \in F6!Network /\ d = [network |-> d.network, is4 |-> d.is4]
  BY DualFields
<1>2. d.network = [addr |-> d.network.addr, mask |-> d.network.mask]
  BY <1>1, Fields6
<1>3. ASSUME d.is4
      PROVE  d = NetworkFrom4(Unwrap4(d)) /\ d.network = ToIPv6Mapped4(Unwrap4(d))
  <2>1. d.network = ToIPv6Mapped4(Unwrap4(d))
    BY <1>2, <1>3, Unwrapped, Image
  <2> QED
    BY <1>1, <1>3, <2>1 DEF NetworkFrom4
<1>4. ASSUME ~d.is4 PROVE d = NetworkFrom6(d.network)
  BY <1>1, <1>4, DualFields DEF NetworkFrom6
<1> QED
  BY <1>1, <1>3, <1>4, Unwrapped

LEMMA ImageInjective ==
  ASSUME NEW v \in F4!Network, NEW u \in F4!Network
  PROVE  /\ ToIPv6Mapped4(v) = ToIPv6Mapped4(u) <=> v = u
         /\ ToIPv6Mapped4(v).mask = ToIPv6Mapped4(u).mask <=> v.mask = u.mask
         /\ F6!Xor(ToIPv6Mapped4(v).addr, ToIPv6Mapped4(u).addr) = F4!Xor(v.addr, u.addr)
<1>1. /\ v.addr \subseteq F4!Bits /\ v.mask \subseteq F4!Bits
      /\ u.addr \subseteq F4!Bits /\ u.mask \subseteq F4!Bits
  BY Image
<1>2. ToIPv6Mapped4(v).mask = ToIPv6Mapped4(u).mask <=> v.mask = u.mask
  <2>1. /\ v.mask = ToIPv6Mapped4(v).mask \cap F4!Bits
        /\ u.mask = ToIPv6Mapped4(u).mask \cap F4!Bits
    BY <1>1, Apart, ImageFields
  <2>2. v.mask = u.mask => ToIPv6Mapped4(v).mask = ToIPv6Mapped4(u).mask
    BY ImageFields, Zenon
  <2> QED
    BY <2>1, <2>2, Zenon
<1>3. F6!Xor(ToIPv6Mapped4(v).addr, ToIPv6Mapped4(u).addr) = F4!Xor(v.addr, u.addr)
  BY <1>1, Apart, ImageFields DEF F6!Xor, F4!Xor
<1>4. ToIPv6Mapped4(v) = ToIPv6Mapped4(u) <=> v = u
  BY Image DEF NetworkFrom4
<1> QED
  BY <1>2, <1>3, <1>4

(* The algebras count with copies of the library's operator.               *)
LEMMA SameCardinality ==
  \A S : F4!Cardinality(S) = Cardinality(S) /\ F6!Cardinality(S) = Cardinality(S)
BY DEF F4!Cardinality, F6!Cardinality, Cardinality

(* The lowest set bit of a mask that is not empty is none of the pinned.   *)
LEMMA ClearsBelow ==
  ASSUME NEW w, w \subseteq F4!Bits
  PROVE  /\ F6!ClearLowestSetBit(w) = F4!ClearLowestSetBit(w)
         /\ w # {} => F6!ClearLowestSetBit(w \cup Pinned) = F4!ClearLowestSetBit(w) \cup Pinned
         /\ w # {} => F6!LowestSetBit(w \cup Pinned) = F4!LowestSetBit(w)
         /\ F6!LowestSetBit(Pinned) \cap F4!Bits = {}
<1>1. w \in T4!Word /\ w \in T6!Word /\ (w \cup Pinned) \in T6!Word
  BY Apart, Same4, Same6 DEF F4!Word, F6!Word
<1>2. W4 \in Nat \ {0} /\ W6 \in Nat \ {0}
  BY Widths
<1>3. F4!ClearLowestSetBit(w) = {i \in w : \E j \in w : j < i}
  BY <1>1, <1>2, Same4, T4!ClearLowestIsNotLowest
<1>4. F6!ClearLowestSetBit(w) = {i \in w : \E j \in w : j < i}
  BY <1>1, <1>2, Same6, T6!ClearLowestIsNotLowest
<1>5. F6!ClearLowestSetBit(w \cup Pinned) =
        {i \in w \cup Pinned : \E j \in w \cup Pinned : j < i}
  BY <1>1, <1>2, Same6, T6!ClearLowestIsNotLowest
<1>6. \A i \in w : \A j \in Pinned : i < j /\ ~(j < i) /\ i <= j /\ ~(j <= i)
  BY Apart
<1>7. ASSUME w # {}
      PROVE  F6!ClearLowestSetBit(w \cup Pinned) = F4!ClearLowestSetBit(w) \cup Pinned
  BY <1>3, <1>5, <1>6, <1>7
<1>8. ASSUME w # {} PROVE F6!LowestSetBit(w \cup Pinned) = F4!LowestSetBit(w)
  BY <1>6, <1>8 DEF F6!LowestSetBit, F4!LowestSetBit
<1>9. F6!LowestSetBit(Pinned) \cap F4!Bits = {}
  BY Apart DEF F6!LowestSetBit
<1> QED
  BY <1>3, <1>4, <1>7, <1>8, <1>9

LEMMA RunBelow ==
  ASSUME NEW w, w \subseteq F4!Bits
  PROVE  /\ T6!Run(w \cup Pinned) = T4!Run(w) \cup Pinned
         /\ F6!LeadingOnes(w \cup Pinned) = F4!LeadingOnes(w) + Cardinality(Pinned)
         /\ F4!LeadingOnes(w) \in Nat /\ Cardinality(Pinned) = W6 - W4
<1>1. \A i : i \in F4!Bits <=> i \in Nat /\ i < W4
  BY Widths
<1>2. \A i : i \in Pinned <=> i \in Nat /\ W4 <= i /\ i < W6
  BY Widths
<1>3. W4 \in Nat /\ W6 \in Nat /\ W4 < W6
  BY Widths
<1>4. ASSUME NEW i \in F4!Bits
      PROVE  i .. (W6 - 1) \subseteq w \cup Pinned <=> i .. (W4 - 1) \subseteq w
  <2>1. ASSUME i .. (W6 - 1) \subseteq w \cup Pinned, NEW j \in i .. (W4 - 1) PROVE j \in w
    <3>1. j \in i .. (W6 - 1) /\ j \notin Pinned
      BY <1>1, <1>2, <1>3
    <3> QED
      BY <2>1, <3>1
  <2>2. ASSUME i .. (W4 - 1) \subseteq w, NEW j \in i .. (W6 - 1) PROVE j \in w \cup Pinned
    <3>1. j \in i .. (W4 - 1) \/ j \in Pinned
      BY <1>1, <1>2, <1>3
    <3> QED
      BY <2>2, <3>1
  <2> QED
    BY <2>1, <2>2
<1>5. ASSUME NEW i \in Pinned PROVE i .. (W6 - 1) \subseteq w \cup Pinned
  BY <1>2, <1>3
<1>6. T6!Run(w \cup Pinned) = T4!Run(w) \cup Pinned
  BY <1>4, <1>5, Apart, SameRest4, SameRest6
<1>7. /\ F6!LeadingOnes(w \cup Pinned) = Cardinality(T6!Run(w \cup Pinned))
      /\ F4!LeadingOnes(w) = Cardinality(T4!Run(w))
  <2>1. /\ T6!Run(w \cup Pinned) = {i \in F6!Bits : i .. (W6 - 1) \subseteq w \cup Pinned}
        /\ T4!Run(w) = {i \in F4!Bits : i .. (W4 - 1) \subseteq w}
    BY SameRest4, SameRest6
  <2> QED
    BY <2>1, SameCardinality DEF F6!LeadingOnes, F4!LeadingOnes
<1>8. IsFiniteSet(F4!Bits) /\ IsFiniteSet(Pinned)
  BY <1>3, Widths, FS_Interval
<1>9. T4!Run(w) \subseteq F4!Bits
  BY SameRest4
<1>10. IsFiniteSet(T4!Run(w)) /\ T4!Run(w) \cap Pinned = {}
  BY <1>8, <1>9, FS_Subset, Apart
<1>11. /\ Cardinality(T4!Run(w) \cup Pinned) =
            Cardinality(T4!Run(w)) + Cardinality(Pinned) - Cardinality(T4!Run(w) \cap Pinned)
       /\ Cardinality({}) = 0
  BY <1>8, <1>10, FS_Union, FS_EmptySet
<1>12. Cardinality(T4!Run(w)) \in Nat /\ Cardinality(Pinned) \in Nat
  BY <1>8, <1>10, FS_CardinalityType
<1>13. Cardinality(W4 .. (W6 - 1)) = IF W4 > W6 - 1 THEN 0 ELSE (W6 - 1) - W4 + 1
  BY <1>3, FS_Interval
<1>14. Cardinality(Pinned) = W6 - W4
  BY <1>3, <1>13, Widths
<1>15. Cardinality(T4!Run(w) \cup Pinned) = Cardinality(T4!Run(w)) + Cardinality(Pinned)
  <2>1. Cardinality(T4!Run(w) \cap Pinned) = 0
    BY <1>10, <1>11, Zenon
  <2> QED
    BY <1>11, <1>12, <2>1
<1> QED
  BY <1>6, <1>7, <1>12, <1>14, <1>15

-----------------------------------------------------------------------------
(* The kernels on images: each gives the images of what the family's own   *)
(* algorithm gives.                                                        *)

Images(nets) == {ToIPv6Mapped4(n) : n \in nets}

LEMMA IntersectionOfImages ==
  ASSUME NEW v \in F4!Network, NEW u \in F4!Network
  PROVE  /\ F6!Intersection(ToIPv6Mapped4(v), ToIPv6Mapped4(u)) = Images(F4!Intersection(v, u))
         /\ F6!Intersects(ToIPv6Mapped4(v), ToIPv6Mapped4(u)) <=> F4!Intersects(v, u)
<1> DEFINE s == ToIPv6Mapped4(v)
           t == ToIPv6Mapped4(u)
           n == [addr |-> v.addr \cup u.addr, mask |-> v.mask \cup u.mask]
           r == [addr |-> s.addr \cup t.addr, mask |-> s.mask \cup t.mask]
<1>1. /\ v.addr \subseteq v.mask /\ v.mask \subseteq F4!Bits
      /\ u.addr \subseteq u.mask /\ u.mask \subseteq F4!Bits
  BY Image
<1>2. /\ s.addr = v.addr \cup Mapped /\ s.mask = v.mask \cup Pinned
      /\ t.addr = u.addr \cup Mapped /\ t.mask = u.mask \cup Pinned
  BY ImageFields
<1> HIDE DEF s, t
<1>3. s.addr \cap t.mask = t.addr \cap s.mask <=> v.addr \cap u.mask = u.addr \cap v.mask
  BY <1>1, <1>2, Apart
<1>4. ToIPv6Mapped4(n) = r
  <2>1. v.addr \cup u.addr \subseteq v.mask \cup u.mask /\ v.mask \cup u.mask \subseteq F4!Bits
    BY <1>1
  <2>2. ToIPv6Mapped4(n) = [addr |-> (v.addr \cup u.addr) \cup Mapped,
                            mask |-> (v.mask \cup u.mask) \cup Pinned]
    BY <2>1, ImageOfPair
  <2>3. /\ s.addr \cup t.addr = (v.addr \cup u.addr) \cup Mapped
        /\ s.mask \cup t.mask = (v.mask \cup u.mask) \cup Pinned
    BY <1>2
  <2> QED
    BY <2>2, <2>3
<1>5. F4!Intersection(v, u) = IF v.addr \cap u.mask = u.addr \cap v.mask THEN {n} ELSE {}
  BY DEF F4!Intersection, F4!Only
<1>6. F6!Intersection(s, t) = IF s.addr \cap t.mask = t.addr \cap s.mask THEN {r} ELSE {}
  BY DEF F6!Intersection, F6!Only
<1> HIDE DEF n, r
<1> QED
  BY <1>3, <1>4, <1>5, <1>6 DEF Images, F6!Intersects, F4!Intersects, s, t

LEMMA ContainsOfImages ==
  ASSUME NEW v \in F4!Network, NEW u \in F4!Network
  PROVE  F6!Contains(ToIPv6Mapped4(v), ToIPv6Mapped4(u)) <=> F4!Contains(v, u)
<1>1. /\ v.addr \subseteq v.mask /\ v.mask \subseteq F4!Bits
      /\ u.addr \subseteq u.mask /\ u.mask \subseteq F4!Bits
  BY Image
<1>2. /\ (u.addr \cup Mapped) \cap (v.mask \cup Pinned) = v.addr \cup Mapped
           <=> u.addr \cap v.mask = v.addr
      /\ (u.mask \cup Pinned) \cap (v.mask \cup Pinned) = v.mask \cup Pinned
           <=> u.mask \cap v.mask = v.mask
  BY <1>1, Apart
<1> QED
  BY <1>2, ImageFields DEF F6!Contains, F4!Contains

LEMMA OrderOfImages ==
  ASSUME NEW v \in F4!Network, NEW u \in F4!Network
  PROVE  /\ F6!Before(ToIPv6Mapped4(v), ToIPv6Mapped4(u)) <=> F4!Before(v, u)
         /\ F6!ContainsContiguous(ToIPv6Mapped4(v), ToIPv6Mapped4(u)) <=> F4!ContainsContiguous(v, u)
<1>1. /\ v.addr \subseteq v.mask /\ v.mask \subseteq F4!Bits
      /\ u.addr \subseteq u.mask /\ u.mask \subseteq F4!Bits
  BY Image
<1>2. ASSUME NEW a, NEW b, NEW p, a \subseteq F4!Bits, b \subseteq F4!Bits, p \subseteq Pinned
      PROVE  /\ F6!Lt(a \cup p, b \cup p) <=> F4!Lt(a, b)
             /\ a \cup p = b \cup p <=> a = b
  <2>1. (a \cup p) \ (b \cup p) = a \ b /\ (b \cup p) \ (a \cup p) = b \ a
    BY <1>2, Apart
  <2>2. a \cup p = b \cup p <=> a = b
    BY <1>2, Apart
  <2> QED
    BY <2>1, <2>2 DEF F6!Lt, F4!Lt
<1>3. /\ v.addr \subseteq F4!Bits /\ u.addr \subseteq F4!Bits
      /\ Mapped \subseteq Pinned /\ Pinned \subseteq Pinned
  BY <1>1, Apart
<1>4. /\ F6!Lt(v.addr \cup Mapped, u.addr \cup Mapped) <=> F4!Lt(v.addr, u.addr)
      /\ v.addr \cup Mapped = u.addr \cup Mapped <=> v.addr = u.addr
  BY <1>2, <1>3
<1>5. /\ F6!Lt(v.mask \cup Pinned, u.mask \cup Pinned) <=> F4!Lt(v.mask, u.mask)
      /\ v.mask \cup Pinned = u.mask \cup Pinned <=> v.mask = u.mask
  BY <1>1, <1>2, <1>3
<1>6. F6!Before(ToIPv6Mapped4(v), ToIPv6Mapped4(u)) <=> F4!Before(v, u)
  BY <1>4, <1>5, ImageFields DEF F6!Before, F4!Before
<1>7. (u.addr \cup Mapped) \cap (v.mask \cup Pinned) = v.addr \cup Mapped
        <=> u.addr \cap v.mask = v.addr
  BY <1>1, Apart
<1>8. F6!ContainsContiguous(ToIPv6Mapped4(v), ToIPv6Mapped4(u)) <=> F4!ContainsContiguous(v, u)
  BY <1>5, <1>7, ImageFields DEF F6!ContainsContiguous, F4!ContainsContiguous, F6!Le, F4!Le
<1> QED
  BY <1>6, <1>8

LEMMA AdjacencyOfImages ==
  ASSUME NEW v \in F4!Network, NEW u \in F4!Network
  PROVE  /\ F6!IsAdjacent(ToIPv6Mapped4(v), ToIPv6Mapped4(u)) <=> F4!IsAdjacent(v, u)
         /\ F6!IsAdjacentByLowestMaskBit(ToIPv6Mapped4(v), ToIPv6Mapped4(u))
              <=> F4!IsAdjacentByLowestMaskBit(v, u)
<1> DEFINE diff == F4!Xor(v.addr, u.addr)
           s == ToIPv6Mapped4(v)
           t == ToIPv6Mapped4(u)
<1>1. /\ F6!Xor(s.addr, t.addr) = diff
      /\ s.mask = t.mask <=> v.mask = u.mask
      /\ s.mask = v.mask \cup Pinned
  BY ImageInjective, ImageFields
<1>2. diff \subseteq F4!Bits /\ v.mask \subseteq F4!Bits
  BY Image DEF F4!Xor
<1>3. F6!ClearLowestSetBit(diff) = F4!ClearLowestSetBit(diff)
  BY <1>2, ClearsBelow
<1> HIDE DEF s, t
<1>4. F6!IsAdjacent(s, t) <=> F4!IsAdjacent(v, u)
  <2>1. F6!AdjacentBit(s, t) = F4!AdjacentBit(v, u)
    BY <1>1, <1>3 DEF F6!AdjacentBit, F6!Only, F4!AdjacentBit, F4!Only
  <2> QED
    BY <2>1 DEF F6!IsAdjacent, F4!IsAdjacent
<1>5. CASE v.mask = {}
  <2>1. F6!LowestSetBit(Pinned) # diff
    <3>1. F6!LowestSetBit(Pinned) \cap F4!Bits = {}
      BY ClearsBelow
    <3>2. W4 \in Pinned /\ \A j \in Pinned : W4 <= j
      BY Widths
    <3>3. W4 \in F6!LowestSetBit(Pinned)
      BY <3>2 DEF F6!LowestSetBit
    <3> QED
      BY <1>2, <3>1, <3>3
  <2>2. ~F4!IsAdjacentByLowestMaskBit(v, u)
    BY <1>5 DEF F4!IsAdjacentByLowestMaskBit
  <2>3. s.mask = Pinned
    BY <1>1, <1>5
  <2>4. ~F6!IsAdjacentByLowestMaskBit(s, t)
    BY <1>1, <2>1, <2>3 DEF F6!IsAdjacentByLowestMaskBit
  <2> QED
    BY <1>4, <2>2, <2>4 DEF s, t
<1>6. CASE v.mask # {}
  <2>1. F6!LowestSetBit(s.mask) = F4!LowestSetBit(v.mask) /\ s.mask # {}
    BY <1>1, <1>2, <1>6, ClearsBelow
  <2>2. F6!IsAdjacentByLowestMaskBit(s, t) <=> F4!IsAdjacentByLowestMaskBit(v, u)
    BY <1>1, <1>6, <2>1 DEF F6!IsAdjacentByLowestMaskBit, F4!IsAdjacentByLowestMaskBit
  <2> QED
    BY <1>4, <2>2 DEF s, t
<1> QED
  BY <1>5, <1>6

LEMMA MergeOfImages ==
  ASSUME NEW v \in F4!Network, NEW u \in F4!Network
  PROVE  F6!Merge(ToIPv6Mapped4(v), ToIPv6Mapped4(u)) = Images(F4!Merge(v, u))
<1> DEFINE diff == F4!Xor(v.addr, u.addr)
           s == ToIPv6Mapped4(v)
           t == ToIPv6Mapped4(u)
<1>1. /\ F6!Xor(s.addr, t.addr) = diff
      /\ s.mask = t.mask <=> v.mask = u.mask
      /\ s.addr = v.addr \cup Mapped /\ s.mask = v.mask \cup Pinned
      /\ t.addr = u.addr \cup Mapped /\ t.mask = u.mask \cup Pinned
  BY ImageInjective, ImageFields
<1>2. /\ v.addr \subseteq v.mask /\ v.mask \subseteq F4!Bits
      /\ u.addr \subseteq u.mask /\ u.mask \subseteq F4!Bits
  BY Image
<1>3. diff \subseteq F4!Bits
  BY <1>2 DEF F4!Xor
<1>4. F6!ClearLowestSetBit(diff) = F4!ClearLowestSetBit(diff)
  BY <1>3, ClearsBelow
<1> HIDE DEF s, t
<1>5. CASE v.mask = u.mask
  <2> DEFINE nm == F4!Xor(v.mask, diff)
             sm == F6!Xor(s.mask, diff)
             n == [addr |-> v.addr \cap nm, mask |-> nm]
             r == [addr |-> s.addr \cap sm, mask |-> sm]
  <2>1. nm \subseteq F4!Bits /\ sm = nm \cup Pinned
    BY <1>1, <1>2, <1>3, Apart DEF F6!Xor, F4!Xor
  <2>2. s.addr \cap sm = (v.addr \cap nm) \cup Mapped
    BY <1>1, <1>2, <2>1, Apart
  <2> HIDE DEF nm, sm
  <2>3. ToIPv6Mapped4(n) = r
    BY <2>1, <2>2, ImageOfPair
  <2> HIDE DEF diff
  <2>4. F4!Merge(v, u) = IF F4!ClearLowestSetBit(diff) = {} THEN {n} ELSE {}
    BY <1>5 DEF F4!Merge, F4!Only, diff, nm
  <2>5. F6!Merge(s, t) = IF F6!ClearLowestSetBit(diff) = {} THEN {r} ELSE {}
    BY <1>1, <1>5 DEF F6!Merge, F6!Only, sm
  <2> HIDE DEF n, r
  <2> QED
    BY <1>4, <2>3, <2>4, <2>5 DEF Images, s, t
<1>6. CASE v.mask # u.mask
  <2>1. s.mask # t.mask
    BY <1>1, <1>6
  <2>2. /\ s.mask \cap t.mask = t.mask <=> v.mask \cap u.mask = u.mask
        /\ s.mask \cap t.mask = s.mask <=> v.mask \cap u.mask = v.mask
        /\ s.addr \cap t.mask = t.addr <=> v.addr \cap u.mask = u.addr
        /\ t.addr \cap s.mask = s.addr <=> u.addr \cap v.mask = v.addr
    BY <1>1, <1>2, Apart
  <2>3. F4!Merge(v, u) =
          CASE v.mask \cap u.mask = u.mask -> IF v.addr \cap u.mask = u.addr THEN {u} ELSE {}
            [] v.mask \cap u.mask = v.mask -> IF u.addr \cap v.mask = v.addr THEN {v} ELSE {}
            [] OTHER -> {}
    BY <1>6 DEF F4!Merge, F4!Only
  <2>4. F6!Merge(s, t) =
          CASE s.mask \cap t.mask = t.mask -> IF s.addr \cap t.mask = t.addr THEN {t} ELSE {}
            [] s.mask \cap t.mask = s.mask -> IF t.addr \cap s.mask = s.addr THEN {s} ELSE {}
            [] OTHER -> {}
    BY <2>1 DEF F6!Merge, F6!Only
  <2>5. CASE v.mask \cap u.mask = u.mask
    <3>1. v.mask \cap u.mask # v.mask
      BY <1>6, <2>5
    <3>2. F4!Merge(v, u) = IF v.addr \cap u.mask = u.addr THEN {u} ELSE {}
      BY <2>3, <2>5, <3>1
    <3>3. F6!Merge(s, t) = IF s.addr \cap t.mask = t.addr THEN {t} ELSE {}
      BY <2>2, <2>4, <2>5, <3>1
    <3> QED
      BY <2>2, <3>2, <3>3 DEF Images, s, t
  <2>6. CASE v.mask \cap u.mask # u.mask /\ v.mask \cap u.mask = v.mask
    <3>2. F4!Merge(v, u) = IF u.addr \cap v.mask = v.addr THEN {v} ELSE {}
      BY <2>3, <2>6
    <3>3. F6!Merge(s, t) = IF t.addr \cap s.mask = s.addr THEN {s} ELSE {}
      BY <2>2, <2>4, <2>6
    <3> QED
      BY <2>2, <3>2, <3>3 DEF Images, s, t
  <2>7. CASE v.mask \cap u.mask # u.mask /\ v.mask \cap u.mask # v.mask
    <3>2. F4!Merge(v, u) = {}
      BY <2>3, <2>7
    <3>3. F6!Merge(s, t) = {}
      BY <2>2, <2>4, <2>7
    <3> QED
      BY <3>2, <3>3 DEF Images, s, t
  <2> QED
    BY <2>5, <2>6, <2>7
<1> QED
  BY <1>5, <1>6

LEMMA LowestMergeOfImages ==
  ASSUME NEW v \in F4!Network, NEW u \in F4!Network
  PROVE  F6!MergeByLowestMaskBit(ToIPv6Mapped4(v), ToIPv6Mapped4(u)) =
           Images(F4!MergeByLowestMaskBit(v, u))
<1> DEFINE s == ToIPv6Mapped4(v)
           t == ToIPv6Mapped4(u)
<1>1. /\ v.addr \subseteq v.mask /\ v.mask \subseteq F4!Bits
      /\ u.addr \subseteq u.mask /\ u.mask \subseteq F4!Bits
  BY Image
<1>2. /\ s.addr = v.addr \cup Mapped /\ s.mask = v.mask \cup Pinned
      /\ t.addr = u.addr \cup Mapped /\ t.mask = u.mask \cup Pinned
  BY ImageFields
<1>3. s = t <=> v = u
  BY ImageInjective
<1>4. s.mask = t.mask <=> v.mask = u.mask
  BY ImageInjective
<1>5. F6!Contains(s, t) <=> F4!Contains(v, u)
  BY ContainsOfImages
<1>6. F6!Contains(t, s) <=> F4!Contains(u, v)
  BY ContainsOfImages
<1>7. F6!IsAdjacentByLowestMaskBit(s, t) <=> F4!IsAdjacentByLowestMaskBit(v, u)
  BY AdjacencyOfImages
<1>8. CASE v = u
  <2>1. F4!MergeByLowestMaskBit(v, u) = {v}
    BY <1>8 DEF F4!MergeByLowestMaskBit
  <2>2. F6!MergeByLowestMaskBit(s, t) = {s}
    BY <1>3, <1>8 DEF F6!MergeByLowestMaskBit
  <2> QED
    BY <2>1, <2>2 DEF Images
<1>9. CASE v # u /\ v.mask = u.mask
  <2> DEFINE nm == F4!ClearLowestSetBit(v.mask)
             n == [addr |-> v.addr \cap u.addr, mask |-> nm]
             r == [addr |-> s.addr \cap t.addr, mask |-> F6!ClearLowestSetBit(s.mask)]
  <2>1. s # t /\ s.mask = t.mask
    BY <1>3, <1>4, <1>9
  <2> HIDE DEF s, t
  <2>2. F4!MergeByLowestMaskBit(v, u) = IF F4!IsAdjacentByLowestMaskBit(v, u) THEN {n} ELSE {}
    BY <1>9 DEF F4!MergeByLowestMaskBit, F4!Only
  <2>3. F6!MergeByLowestMaskBit(s, t) = IF F6!IsAdjacentByLowestMaskBit(s, t) THEN {r} ELSE {}
    BY <2>1 DEF F6!MergeByLowestMaskBit, F6!Only
  <2>4. ASSUME F4!IsAdjacentByLowestMaskBit(v, u) PROVE ToIPv6Mapped4(n) = r
    <3>1. /\ v.mask # {} /\ F4!Xor(v.addr, u.addr) = F4!LowestSetBit(v.mask)
      BY <2>4 DEF F4!IsAdjacentByLowestMaskBit
    <3>2. F6!ClearLowestSetBit(v.mask \cup Pinned) = nm \cup Pinned
      BY <1>1, <3>1, ClearsBelow
    <3>3. F6!ClearLowestSetBit(s.mask) = nm \cup Pinned
      BY <1>2, <3>2, Zenon
    <3>4. s.addr \cap t.addr = (v.addr \cap u.addr) \cup Mapped
      BY <1>1, <1>2, Apart
    <3>5. nm = {i \in v.mask : \E j \in v.mask : j < i}
      <4>1. v.mask \in T4!Word /\ W4 \in Nat \ {0}
        BY <1>1, Widths, Same4 DEF F4!Word
      <4> QED
        BY <4>1, Same4, T4!ClearLowestIsNotLowest
    <3>6. v.addr \cap u.addr \subseteq nm /\ nm \subseteq F4!Bits
      <4>1. ASSUME NEW i \in v.addr \cap u.addr PROVE i \in nm
        <5>1. i \in v.mask /\ i \notin F4!LowestSetBit(v.mask)
          BY <1>1, <3>1, <4>1 DEF F4!Xor
        <5>2. PICK j \in v.mask : ~(i <= j)
          BY <5>1 DEF F4!LowestSetBit
        <5>3. i \in Int /\ j \in Int
          BY <1>1, <5>1, Widths
        <5> QED
          BY <3>5, <5>1, <5>2, <5>3
      <4> QED
        BY <1>1, <3>5, <4>1
    <3>7. ToIPv6Mapped4(n) = [addr |-> (v.addr \cap u.addr) \cup Mapped, mask |-> nm \cup Pinned]
      BY <3>6, ImageOfPair
    <3> QED
      BY <3>3, <3>4, <3>7
  <2> HIDE DEF n, r
  <2> QED
    BY <1>7, <2>2, <2>3, <2>4 DEF Images, s, t
<1>10. CASE v # u /\ v.mask # u.mask
  <2>1. s # t /\ s.mask # t.mask
    BY <1>3, <1>4, <1>10
  <2> HIDE DEF s, t
  <2>2. F4!MergeByLowestMaskBit(v, u) =
          IF F4!Contains(v, u) THEN {v} ELSE IF F4!Contains(u, v) THEN {u} ELSE {}
    BY <1>10 DEF F4!MergeByLowestMaskBit, F4!Only
  <2>3. F6!MergeByLowestMaskBit(s, t) =
          IF F6!Contains(s, t) THEN {s} ELSE IF F6!Contains(t, s) THEN {t} ELSE {}
    BY <2>1 DEF F6!MergeByLowestMaskBit, F6!Only
  <2> QED
    BY <1>5, <1>6, <2>2, <2>3 DEF Images, s, t
<1> QED
  BY <1>8, <1>9, <1>10

LEMMA SupernetForOfImages ==
  ASSUME NEW v \in F4!Network, NEW us, us \subseteq F4!Network
  PROVE  F6!SupernetFor(ToIPv6Mapped4(v), Images(us)) = ToIPv6Mapped4(F4!SupernetFor(v, us))
<1> DEFINE s == ToIPv6Mapped4(v)
           w == {i \in v.mask : \A n \in us : i \in F4!SupernetMask(n, v.addr, v.mask)}
           x == {i \in s.mask : \A n \in Images(us) : i \in F6!SupernetMask(n, s.addr, s.mask)}
<1>1. v.addr \subseteq v.mask /\ v.mask \subseteq F4!Bits
  BY Image
<1>2. s.addr = v.addr \cup Mapped /\ s.mask = v.mask \cup Pinned
  BY ImageFields
<1>3. ASSUME NEW n \in us, NEW i \in s.mask
      PROVE  i \in F6!SupernetMask(ToIPv6Mapped4(n), s.addr, s.mask)
               <=> i \in F4!SupernetMask(n, v.addr, v.mask) \cup Pinned
  <2>1. n.addr \subseteq n.mask /\ n.mask \subseteq F4!Bits
    BY Image
  <2>2. ToIPv6Mapped4(n).addr = n.addr \cup Mapped /\ ToIPv6Mapped4(n).mask = n.mask \cup Pinned
    BY ImageFields
  <2> HIDE DEF s
  <2> QED
    BY <1>1, <1>2, <2>1, <2>2, Apart DEF F6!SupernetMask, F4!SupernetMask, F6!Xor, F4!Xor
<1> HIDE DEF s
<1>4. \A i \in s.mask : i \in x <=> \A n \in us : i \in F4!SupernetMask(n, v.addr, v.mask) \cup Pinned
  BY <1>3 DEF Images
<1>5. x = w \cup Pinned
  <2>1. \A i \in s.mask : i \in Pinned <=> i \notin v.mask
    BY <1>1, <1>2, Apart
  <2> QED
    BY <1>2, <1>4, <2>1
<1>6. w \subseteq F4!Bits /\ v.addr \cap w \subseteq w
  BY <1>1
<1> HIDE DEF w, x
<1>7. s.addr \cap x = (v.addr \cap w) \cup Mapped
  BY <1>1, <1>2, <1>5, <1>6, Apart
<1>8. F4!SupernetFor(v, us) = [addr |-> v.addr \cap w, mask |-> w]
  BY DEF F4!SupernetFor, F4!FromBits, w
<1>9. F6!SupernetFor(s, Images(us)) = [addr |-> s.addr \cap x, mask |-> x]
  BY DEF F6!SupernetFor, F6!FromBits, x
<1>10. ToIPv6Mapped4([addr |-> v.addr \cap w, mask |-> w]) =
         [addr |-> (v.addr \cap w) \cup Mapped, mask |-> w \cup Pinned]
  BY <1>6, ImageOfPair
<1> QED
  BY <1>5, <1>7, <1>8, <1>9, <1>10 DEF s

LEMMA ToContiguousOfImage ==
  ASSUME NEW v \in F4!Network
  PROVE  F6!ToContiguous(ToIPv6Mapped4(v)) = ToIPv6Mapped4(F4!ToContiguous(v))
<1> DEFINE s == ToIPv6Mapped4(v)
           run == T4!Run(v.mask)
<1>0. W4 \in Nat \ {0} /\ W6 \in Nat \ {0}
  BY Widths
<1>1. v.addr \subseteq v.mask /\ v.mask \subseteq F4!Bits
  BY Image
<1>2. s.addr = v.addr \cup Mapped /\ s.mask = v.mask \cup Pinned
  BY ImageFields
<1>3. v.mask \in T4!Word /\ v.mask \cup Pinned \in T6!Word
  BY <1>1, Apart, Same4, Same6 DEF F4!Word, F6!Word
<1>4. F4!MaskFromPrefix(F4!LeadingOnes(v.mask)) = run
  BY <1>0, <1>3, T4!LeadingRun, SameRest4
<1>5. F6!MaskFromPrefix(F6!LeadingOnes(s.mask)) = run \cup Pinned
  <2>1. F6!MaskFromPrefix(F6!LeadingOnes(v.mask \cup Pinned)) = T6!Run(v.mask \cup Pinned)
    BY <1>0, <1>3, T6!LeadingRun, SameRest6
  <2>2. T6!Run(v.mask \cup Pinned) = run \cup Pinned
    BY <1>1, RunBelow
  <2> QED
    BY <1>2, <2>1, <2>2, Zenon
<1>6. run \subseteq F4!Bits
  BY SameRest4
<1> HIDE DEF run, s
<1>7. F4!ToContiguous(v) = [addr |-> v.addr \cap run, mask |-> run]
  BY <1>4 DEF F4!ToContiguous, F4!FromBits
<1>8. F6!ToContiguous(s) = [addr |-> s.addr \cap (run \cup Pinned), mask |-> run \cup Pinned]
  BY <1>5, Zenon DEF F6!ToContiguous, F6!FromBits
<1>9. s.addr \cap (run \cup Pinned) = (v.addr \cap run) \cup Mapped
  BY <1>1, <1>2, <1>6, Apart
<1>10. v.addr \cap run \subseteq run
  OBVIOUS
<1>11. ToIPv6Mapped4([addr |-> v.addr \cap run, mask |-> run]) =
         [addr |-> (v.addr \cap run) \cup Mapped, mask |-> run \cup Pinned]
  BY <1>6, <1>10, ImageOfPair
<1> QED
  BY <1>7, <1>8, <1>9, <1>11 DEF s

LEMMA AddrsOfImage ==
  ASSUME NEW v \in F4!Network
  PROVE  /\ \A x \in F6!Addrs(ToIPv6Mapped4(v)) : Low4(x) \in F4!Addrs(v) /\ x = Low4(x) \cup Mapped
         /\ \A y \in F4!Addrs(v) : y \cup Mapped \in F6!Addrs(ToIPv6Mapped4(v)) /\ Low4(y \cup Mapped) = y
<1>1. v.addr \subseteq v.mask /\ v.mask \subseteq F4!Bits
  BY Image
<1>2. /\ ToIPv6Mapped4(v).addr = v.addr \cup Mapped
      /\ ToIPv6Mapped4(v).mask = v.mask \cup Pinned
  BY ImageFields
<1>3. \A w : w \subseteq F6!Bits => Low4(w) = w \cap F4!Bits
  BY Apart DEF Low4
<1>4. ASSUME NEW x \in F6!Addrs(ToIPv6Mapped4(v))
      PROVE  Low4(x) \in F4!Addrs(v) /\ x = Low4(x) \cup Mapped
  <2>1. x \subseteq F6!Bits /\ x \cap (v.mask \cup Pinned) = v.addr \cup Mapped
    BY <1>2 DEF F6!Addrs, F6!Word
  <2>2. Low4(x) = x \cap F4!Bits
    BY <1>3, <2>1
  <2>3. (x \cap F4!Bits) \cap v.mask = v.addr
    BY <1>1, <2>1, Apart
  <2>4. x = (x \cap F4!Bits) \cup Mapped
    BY <1>1, <2>1, Apart
  <2>5. x \cap F4!Bits \in F4!Addrs(v)
    BY <2>3 DEF F4!Addrs, F4!Word
  <2> QED
    BY <2>2, <2>4, <2>5
<1>5. ASSUME NEW y \in F4!Addrs(v)
      PROVE  y \cup Mapped \in F6!Addrs(ToIPv6Mapped4(v)) /\ Low4(y \cup Mapped) = y
  <2>1. y \subseteq F4!Bits /\ y \cap v.mask = v.addr
    BY DEF F4!Addrs, F4!Word
  <2>2. y \cup Mapped \subseteq F6!Bits /\ (y \cup Mapped) \cap F4!Bits = y
    BY <2>1, Apart
  <2>3. (y \cup Mapped) \cap (v.mask \cup Pinned) = v.addr \cup Mapped
    BY <1>1, <2>1, Apart
  <2> QED
    BY <1>2, <1>3, <2>2, <2>3 DEF F6!Addrs, F6!Word
<1> QED
  BY <1>4, <1>5

LEMMA HostBitsOfImage ==
  ASSUME NEW v \in F4!Network
  PROVE  /\ F6!NumHostBits(ToIPv6Mapped4(v)) = F4!NumHostBits(v)
         /\ Low4(F6!LastAddr(ToIPv6Mapped4(v))) = F4!LastAddr(v)
         /\ F6!IsContiguous(ToIPv6Mapped4(v)) <=> F4!IsContiguous(v)
<1>1. v.addr \subseteq v.mask /\ v.mask \subseteq F4!Bits
  BY Image
<1>2. /\ ToIPv6Mapped4(v).addr = v.addr \cup Mapped
      /\ ToIPv6Mapped4(v).mask = v.mask \cup Pinned
  BY ImageFields
<1>3. F6!Not(ToIPv6Mapped4(v).mask) = F4!Not(v.mask)
  BY <1>1, <1>2, Apart DEF F6!Not, F4!Not
<1>4. F6!NumHostBits(ToIPv6Mapped4(v)) = F4!NumHostBits(v)
  BY <1>3, SameCardinality DEF F6!NumHostBits, F4!NumHostBits
<1>5. F6!LastAddr(ToIPv6Mapped4(v)) = F4!LastAddr(v) \cup Mapped
  BY <1>2, <1>3 DEF F6!LastAddr, F4!LastAddr
<1>6. Low4(F4!LastAddr(v) \cup Mapped) = F4!LastAddr(v)
  <2>1. F4!LastAddr(v) \subseteq F4!Bits
    BY <1>1 DEF F4!LastAddr, F4!Not
  <2> QED
    BY <2>1, Apart DEF Low4
<1>7. F6!IsContiguous(ToIPv6Mapped4(v)) <=> F4!IsContiguous(v)
  BY StoredIsContiguous DEF NetworkFrom4, IsContiguous
<1> QED
  BY <1>4, <1>5, <1>6, <1>7, Zenon

-----------------------------------------------------------------------------
(* Prefix lengths, and the ladder                                          *)

LEMMA PrefixLenOfFamily ==
  ASSUME NEW d \in Network
  PROVE  PrefixLen(d) = IF d.is4 THEN F4!PrefixLen(Unwrap4(d)) ELSE F6!PrefixLen(d.network)
<1>1. CASE ~d.is4
  BY <1>1 DEF PrefixLen, F6!PrefixLen, F6!Only
<1>2. CASE d.is4
  <2> DEFINE v == Unwrap4(d)
             k == Cardinality(Pinned)
  <2>1. v \in F4!Network /\ d.network = ToIPv6Mapped4(v)
    BY <1>2, Stored
  <2>2. v.mask \subseteq F4!Bits /\ d.network.mask = v.mask \cup Pinned
    BY <2>1, Image, ImageFields
  <2>3. /\ F6!LeadingOnes(v.mask \cup Pinned) = F4!LeadingOnes(v.mask) + k
        /\ F4!LeadingOnes(v.mask) \in Nat /\ k \in Int
    <3>1. /\ F6!LeadingOnes(v.mask \cup Pinned) = F4!LeadingOnes(v.mask) + k
          /\ F4!LeadingOnes(v.mask) \in Nat /\ k = W6 - W4
      BY <2>2, RunBelow, Zenon
    <3> QED
      BY <3>1, Widths
  <2>4. F6!LeadingOnes(d.network.mask) - k = F4!LeadingOnes(v.mask)
    <3>1. F6!LeadingOnes(d.network.mask) = F6!LeadingOnes(v.mask \cup Pinned)
      BY <2>2, Zenon
    <3> QED
      BY <2>3, <3>1
  <2>5. F6!IsContiguous(d.network) <=> F4!IsContiguous(v)
    BY <2>1, HostBitsOfImage
  <2> HIDE DEF v, k
  <2>6. F6!PrefixLen(d.network) =
          IF F4!IsContiguous(v) THEN {F6!LeadingOnes(d.network.mask)} ELSE {}
    BY <2>5 DEF F6!PrefixLen, F6!Only
  <2>7. PrefixLen(d) = {p - k : p \in F6!PrefixLen(d.network)}
    BY <1>2 DEF PrefixLen, k
  <2>8. PrefixLen(d) = IF F4!IsContiguous(v) THEN {F4!LeadingOnes(v.mask)} ELSE {}
    BY <2>4, <2>6, <2>7
  <2> QED
    BY <1>2, <2>8 DEF F4!PrefixLen, F4!Only, v
<1> QED
  BY <1>1, <1>2

(* A rung of the dual ladder is the image of the family's own.             *)
LEMMA RungOfImage ==
  ASSUME NEW v \in F4!Network, NEW bits \in 1 .. W4
  PROVE  F6!ContiguousLadderPart(ToIPv6Mapped4(v), bits + Cardinality(Pinned)) =
           ToIPv6Mapped4(F4!ContiguousLadderPart(v, bits))
<1> DEFINE s == ToIPv6Mapped4(v)
           p == bits + Cardinality(Pinned)
           b == W4 - bits
           x == F4!Xor(v.addr, {b})
           top == F4!MaskFromPrefix(bits)
<1>1. W4 \in Nat \ {0} /\ W6 \in Nat /\ W4 < W6 /\ Cardinality(Pinned) = W6 - W4
  BY Widths, RunBelow
<1>2. W6 - p = b /\ b \in F4!Bits /\ p \in Int
  BY <1>1, Widths
<1>3. v.addr \subseteq F4!Bits
  BY Image
<1>4. s.addr = v.addr \cup Mapped
  BY ImageFields
<1>5. F6!Xor(s.addr, {b}) = x \cup Mapped
  BY <1>2, <1>3, <1>4, Apart DEF F6!Xor, F4!Xor
<1>6. F6!MaskFromPrefix(p) = top \cup Pinned
  <2>1. \A i \in F6!Bits : i >= b <=> (i \in F4!Bits /\ i >= b) \/ i \in Pinned
    BY <1>1, <1>2, Widths
  <2>2. F6!MaskFromPrefix(p) = {i \in F6!Bits : i >= b}
    BY <1>2 DEF F6!MaskFromPrefix
  <2>3. top = {i \in F4!Bits : i >= b}
    BY DEF F4!MaskFromPrefix
  <2> QED
    BY <2>1, <2>2, <2>3, Apart
<1>7. x \cap top \subseteq top /\ top \subseteq F4!Bits /\ x \subseteq F4!Bits
  BY <1>2, <1>3 DEF F4!Xor, F4!MaskFromPrefix
<1>8. (x \cup Mapped) \cap (top \cup Pinned) = (x \cap top) \cup Mapped
  BY <1>7, Apart
<1> HIDE DEF s, p, b, x, top
<1>9. F6!ContiguousLadderPart(s, p) =
        [addr |-> F6!Xor(s.addr, {b}) \cap F6!MaskFromPrefix(p), mask |-> F6!MaskFromPrefix(p)]
  BY <1>2, Zenon DEF F6!ContiguousLadderPart, F6!FromBits
<1>10. F6!ContiguousLadderPart(s, p) = [addr |-> (x \cap top) \cup Mapped, mask |-> top \cup Pinned]
  BY <1>5, <1>6, <1>8, <1>9
<1>11. F4!ContiguousLadderPart(v, bits) = [addr |-> x \cap top, mask |-> top]
  BY Zenon DEF F4!ContiguousLadderPart, F4!FromBits, x, b, top
<1>12. ToIPv6Mapped4([addr |-> x \cap top, mask |-> top]) =
         [addr |-> (x \cap top) \cup Mapped, mask |-> top \cup Pinned]
  BY <1>7, ImageOfPair
<1> QED
  BY <1>10, <1>11, <1>12 DEF s, p

LEMMA BlockLength ==
  ASSUME NEW d \in Network, IsContiguous(d)
  PROVE  IF d.is4 THEN /\ PrefixLen(d) = {F4!LeadingOnes(Unwrap4(d).mask)}
                       /\ F4!LeadingOnes(Unwrap4(d).mask) \in 0 .. W4
                       /\ F4!MaskFromPrefix(F4!LeadingOnes(Unwrap4(d).mask)) = Unwrap4(d).mask
         ELSE /\ PrefixLen(d) = {F6!LeadingOnes(d.network.mask)}
              /\ F6!LeadingOnes(d.network.mask) \in 0 .. W6
              /\ F6!MaskFromPrefix(F6!LeadingOnes(d.network.mask)) = d.network.mask
<1>0. W4 \in Nat \ {0} /\ W6 \in Nat \ {0}
  BY Widths
<1>1. CASE d.is4
  <2>1. Unwrap4(d) \in T4!Network /\ T4!IsContiguous(Unwrap4(d))
    BY <1>1, Stored, Same4, StoredIsContiguous
  <2>2. /\ T4!LeadingOnes(Unwrap4(d).mask) \in 0 .. W4
        /\ Unwrap4(d).mask = T4!MaskFromPrefix(T4!LeadingOnes(Unwrap4(d).mask))
        /\ T4!PrefixLen(Unwrap4(d)) = {T4!LeadingOnes(Unwrap4(d).mask)}
    BY <1>0, <2>1, T4!ContiguousMask
  <2> QED
    BY <1>1, <2>2, SameRest4, PrefixLenOfFamily
<1>2. CASE ~d.is4
  <2>1. d.network \in T6!Network /\ T6!IsContiguous(d.network)
    BY <1>2, Stored, Same6 DEF IsContiguous
  <2>2. /\ T6!LeadingOnes(d.network.mask) \in 0 .. W6
        /\ d.network.mask = T6!MaskFromPrefix(T6!LeadingOnes(d.network.mask))
        /\ T6!PrefixLen(d.network) = {T6!LeadingOnes(d.network.mask)}
    BY <1>0, <2>1, T6!ContiguousMask
  <2> QED
    BY <1>2, <2>2, SameRest6, PrefixLenOfFamily
<1> QED
  BY <1>1, <1>2

(* Between blocks the ladder gives the parts of the general difference.    *)
LEMMA LadderIsDifference ==
  ASSUME NEW m \in Network, NEW o \in Network, IsContiguous(m), IsContiguous(o)
  PROVE  ContiguousDifference(m, o) = Difference(m, o)
<1>0. W4 \in Nat \ {0} /\ W6 \in Nat \ {0} /\ W4 < W6
  BY Widths
<1>1. CASE m.is4 # o.is4
  BY <1>1 DEF ContiguousDifference, ContainsContiguous, Difference
<1>2. CASE m.is4 = o.is4 /\ m.is4
  <2> DEFINE v == Unwrap4(m)
             u == Unwrap4(o)
             p == F4!LeadingOnes(v.mask)
             q == F4!LeadingOnes(u.mask)
  <2>1. /\ v \in F4!Network /\ u \in F4!Network
        /\ m.network = ToIPv6Mapped4(v) /\ o.network = ToIPv6Mapped4(u)
    BY <1>2, Stored
  <2>2. /\ ContainsContiguous(m, o) <=> F4!ContainsContiguous(v, u)
        /\ ContainsContiguous(o, m) <=> F4!ContainsContiguous(u, v)
    BY <1>2, <2>1, OrderOfImages DEF ContainsContiguous
  <2>3. /\ v \in T4!Network /\ u \in T4!Network /\ T4!IsContiguous(v) /\ T4!IsContiguous(u)
    BY <1>2, <2>1, Same4, StoredIsContiguous
  <2>4. F4!DifferenceParts(v, u) =
          IF F4!ContainsContiguous(u, v) THEN {}
          ELSE IF ~F4!ContainsContiguous(v, u) THEN {v}
          ELSE {F4!ContiguousLadderPart(u, bits) : bits \in (p + 1) .. q}
    BY <1>0, <2>3, T4!LadderParts, Same4, SameRest4
  <2>5. PrefixLen(m) = {p} /\ PrefixLen(o) = {q} /\ p \in 0 .. W4 /\ q \in 0 .. W4
    BY <1>2, BlockLength
  <2>6. m = NetworkFrom4(v)
    BY <1>2, Stored
  <2> HIDE DEF v, u, p, q
  <2>7. {b \in 1 .. W6 : /\ \E first \in PrefixLen(m) : first < b
                         /\ \E last \in PrefixLen(o) : b <= last} = (p + 1) .. q
    BY <1>0, <2>5
  <2>8. \A bits \in (p + 1) .. q :
          ContiguousLadderPart(o, bits) = NetworkFrom4(F4!ContiguousLadderPart(u, bits))
    <3> SUFFICES ASSUME NEW bits \in (p + 1) .. q
                 PROVE ContiguousLadderPart(o, bits) = NetworkFrom4(F4!ContiguousLadderPart(u, bits))
      OBVIOUS
    <3>1. bits \in 1 .. W4
      BY <1>0, <2>5
    <3>2. F6!ContiguousLadderPart(o.network, bits + Cardinality(Pinned)) =
            ToIPv6Mapped4(F4!ContiguousLadderPart(u, bits))
      BY <2>1, <3>1, RungOfImage
    <3>3. ContiguousLadderPart(o, bits) =
            [network |-> F6!ContiguousLadderPart(o.network, bits + Cardinality(Pinned)),
             is4 |-> TRUE]
      BY <1>2, DualFields DEF ContiguousLadderPart
    <3> QED
      BY <3>2, <3>3, Zenon DEF NetworkFrom4
  <2>9. Difference(m, o) = {NetworkFrom4(n) : n \in F4!DifferenceParts(v, u)}
    BY <1>2 DEF Difference, v, u
  <2>10. ContiguousDifference(m, o) =
           IF ContainsContiguous(o, m) THEN {}
           ELSE IF ~ContainsContiguous(m, o) THEN {m}
           ELSE {ContiguousLadderPart(o, bits) : bits \in (p + 1) .. q}
    BY <2>7, Zenon DEF ContiguousDifference
  <2>11. CASE ContainsContiguous(o, m)
    BY <2>2, <2>4, <2>9, <2>10, <2>11
  <2>12. CASE ~ContainsContiguous(o, m) /\ ~ContainsContiguous(m, o)
    BY <2>2, <2>4, <2>6, <2>9, <2>10, <2>12
  <2>13. CASE ~ContainsContiguous(o, m) /\ ContainsContiguous(m, o)
    BY <2>2, <2>4, <2>8, <2>9, <2>10, <2>13
  <2> QED
    BY <2>11, <2>12, <2>13
<1>3. CASE m.is4 = o.is4 /\ ~m.is4
  <2> DEFINE v == m.network
             u == o.network
             p == F6!LeadingOnes(v.mask)
             q == F6!LeadingOnes(u.mask)
  <2>1. v \in F6!Network /\ u \in F6!Network /\ m = NetworkFrom6(v)
    BY <1>3, Stored
  <2>2. /\ ContainsContiguous(m, o) <=> F6!ContainsContiguous(v, u)
        /\ ContainsContiguous(o, m) <=> F6!ContainsContiguous(u, v)
    BY <1>3 DEF ContainsContiguous
  <2>3. /\ v \in T6!Network /\ u \in T6!Network /\ T6!IsContiguous(v) /\ T6!IsContiguous(u)
    BY <2>1, Same6 DEF IsContiguous
  <2> HIDE DEF v, u
  <2>4. F6!DifferenceParts(v, u) =
          IF F6!ContainsContiguous(u, v) THEN {}
          ELSE IF ~F6!ContainsContiguous(v, u) THEN {v}
          ELSE {F6!ContiguousLadderPart(u, bits) : bits \in (p + 1) .. q}
    BY <1>0, <2>3, T6!LadderParts, Same6, SameRest6
  <2>5. PrefixLen(m) = {p} /\ PrefixLen(o) = {q} /\ p \in 0 .. W6 /\ q \in 0 .. W6
    BY <1>3, BlockLength DEF v, u
  <2> HIDE DEF p, q
  <2>7. {b \in 1 .. W6 : /\ \E first \in PrefixLen(m) : first < b
                         /\ \E last \in PrefixLen(o) : b <= last} = (p + 1) .. q
    BY <1>0, <2>5
  <2>8. \A bits \in (p + 1) .. q :
          ContiguousLadderPart(o, bits) = NetworkFrom6(F6!ContiguousLadderPart(u, bits))
    BY <1>3, DualFields DEF ContiguousLadderPart, NetworkFrom6, u
  <2>9. Difference(m, o) = {NetworkFrom6(n) : n \in F6!DifferenceParts(v, u)}
    BY <1>3 DEF Difference, v, u
  <2>10. ContiguousDifference(m, o) =
           IF ContainsContiguous(o, m) THEN {}
           ELSE IF ~ContainsContiguous(m, o) THEN {m}
           ELSE {ContiguousLadderPart(o, bits) : bits \in (p + 1) .. q}
    BY <2>7, Zenon DEF ContiguousDifference
  <2>11. CASE ContainsContiguous(o, m)
    BY <2>2, <2>4, <2>9, <2>10, <2>11
  <2>12. CASE ~ContainsContiguous(o, m) /\ ~ContainsContiguous(m, o)
    BY <2>1, <2>2, <2>4, <2>9, <2>10, <2>12
  <2>13. CASE ~ContainsContiguous(o, m) /\ ContainsContiguous(m, o)
    BY <2>2, <2>4, <2>8, <2>9, <2>10, <2>13
  <2> QED
    BY <2>11, <2>12, <2>13
<1> QED
  BY <1>1, <1>2, <1>3

-----------------------------------------------------------------------------
(* What each method returns, in the receiver's own family                  *)

OfFamily(d, four, six) ==
  IF d.is4 THEN {NetworkFrom4(n) : n \in four} ELSE {NetworkFrom6(n) : n \in six}

LEMMA ValuesOfFamily ==
  ASSUME NEW d \in Network, NEW four, NEW six, d.is4 => four \subseteq F4!Network
  PROVE  Values(OfFamily(d, four, six)) =
           {<<Family(d), n>> : n \in IF d.is4 THEN four ELSE six}
<1>1. CASE d.is4
  <2>1. ASSUME NEW n \in four
        PROVE  Family(NetworkFrom4(n)) = 4 /\ Value(NetworkFrom4(n)) = n
    <3>1. n \in F4!Network
      BY <1>1
    <3>2. Unwrap4(NetworkFrom4(n)) = n
      BY <3>1, Image
    <3> QED
      BY <3>2 DEF Family, Value, NetworkFrom4
  <2>2. OfFamily(d, four, six) = {NetworkFrom4(n) : n \in four} /\ Family(d) = 4
    BY <1>1 DEF OfFamily, Family
  <2>3. Values(OfFamily(d, four, six)) =
          {<<Family(NetworkFrom4(n)), Value(NetworkFrom4(n))>> : n \in four}
    BY <2>2 DEF Values
  <2> QED
    BY <1>1, <2>1, <2>2, <2>3
<1>2. CASE ~d.is4
  <2>1. \A n : Family(NetworkFrom6(n)) = 6 /\ Value(NetworkFrom6(n)) = n
    BY DEF Family, Value, NetworkFrom6
  <2>2. OfFamily(d, four, six) = {NetworkFrom6(n) : n \in six} /\ Family(d) = 6
    BY <1>2 DEF OfFamily, Family
  <2>3. Values(OfFamily(d, four, six)) =
          {<<Family(NetworkFrom6(n)), Value(NetworkFrom6(n))>> : n \in six}
    BY <2>2 DEF Values
  <2> QED
    BY <1>2, <2>1, <2>2, <2>3
<1> QED
  BY <1>1, <1>2

LEMMA FlagsImages ==
  ASSUME NEW d \in Network, NEW nets
  PROVE  /\ d.is4 => Flagged(d.is4, Images(nets)) = {NetworkFrom4(n) : n \in nets}
         /\ ~d.is4 => Flagged(d.is4, nets) = {NetworkFrom6(n) : n \in nets}
<1>1. d.is4 \in BOOLEAN
  BY DualFields
<1>2. CASE d.is4
  <2>1. d.is4 = TRUE
    BY <1>1, <1>2
  <2> QED
    BY <1>2, <2>1 DEF Flagged, Images, NetworkFrom4
<1>3. CASE ~d.is4
  <2>1. d.is4 = FALSE
    BY <1>1, <1>3
  <2> QED
    BY <1>3, <2>1 DEF Flagged, NetworkFrom6
<1> QED
  BY <1>2, <1>3

LEMMA ValueOf ==
  ASSUME NEW d \in Network
  PROVE  IF d.is4 THEN Value(d) \in F4!Network /\ d.network = ToIPv6Mapped4(Value(d))
         ELSE Value(d) \in F6!Network /\ d.network = Value(d)
BY Stored DEF Value

(* Of two networks of one family.                                          *)
LEMMA PairsOfFamily ==
  ASSUME NEW m \in Network, NEW o \in Network, m.is4 = o.is4
  PROVE  LET v == Value(m)
             u == Value(o)
         IN  /\ Intersection(m, o) = OfFamily(m, F4!Intersection(v, u), F6!Intersection(v, u))
             /\ Merge(m, o) = OfFamily(m, F4!Merge(v, u), F6!Merge(v, u))
             /\ MergeByLowestMaskBit(m, o) =
                  OfFamily(m, F4!MergeByLowestMaskBit(v, u), F6!MergeByLowestMaskBit(v, u))
             /\ Difference(m, o) = OfFamily(m, F4!DifferenceParts(v, u), F6!DifferenceParts(v, u))
             /\ NetworkFrom(LastAddr(m), Mask(o)) =
                  OfFamily(m, {F4!FromBits(LastAddr(m).bits, u.mask)},
                              {F6!FromBits(LastAddr(m).bits, u.mask)})
<1> DEFINE v == Value(m)
           u == Value(o)
<1>1. CASE m.is4
  <2>1. /\ v \in F4!Network /\ u \in F4!Network
        /\ m.network = ToIPv6Mapped4(v) /\ o.network = ToIPv6Mapped4(u)
    BY <1>1, ValueOf
  <2>2. v = Unwrap4(m) /\ u = Unwrap4(o)
    BY <1>1 DEF Value
  <2> HIDE DEF v, u
  <2>3. Intersection(m, o) = {NetworkFrom4(n) : n \in F4!Intersection(v, u)}
    BY <1>1, <2>1, IntersectionOfImages, FlagsImages DEF Intersection
  <2>4. Merge(m, o) = {NetworkFrom4(n) : n \in F4!Merge(v, u)}
    BY <1>1, <2>1, MergeOfImages, FlagsImages DEF Merge
  <2>5. MergeByLowestMaskBit(m, o) = {NetworkFrom4(n) : n \in F4!MergeByLowestMaskBit(v, u)}
    BY <1>1, <2>1, LowestMergeOfImages, FlagsImages DEF MergeByLowestMaskBit
  <2>6. Difference(m, o) = {NetworkFrom4(n) : n \in F4!DifferenceParts(v, u)}
    BY <1>1, <2>2 DEF Difference
  <2>7. NetworkFrom(LastAddr(m), Mask(o)) =
          {NetworkFrom4(n) : n \in {F4!FromBits(LastAddr(m).bits, u.mask)}}
    <3>1. /\ LastAddr(m).family = 4 /\ Mask(o).family = 4 /\ Mask(o).bits = Low4(o.network.mask)
      BY <1>1 DEF LastAddr, Mask, InFamilyOf, Netip4
    <3>2. u.mask = Low4(o.network.mask)
      BY <2>2 DEF Unwrap4
    <3>3. Mask(o).bits = u.mask
      BY <3>1, <3>2
    <3>4. Both(4, LastAddr(m), Mask(o)) /\ ~Both(6, LastAddr(m), Mask(o))
      BY <3>1 DEF Both
    <3>5. NetworkFrom(LastAddr(m), Mask(o)) = {NetworkFrom4(F4!FromBits(LastAddr(m).bits, Mask(o).bits))}
      BY <3>4 DEF NetworkFrom, Only
    <3>6. NetworkFrom(LastAddr(m), Mask(o)) = {NetworkFrom4(F4!FromBits(LastAddr(m).bits, u.mask))}
      BY <3>3, <3>5
    <3> QED
      BY <3>6
  <2> QED
    BY <1>1, <2>3, <2>4, <2>5, <2>6, <2>7 DEF OfFamily, v, u
<1>2. CASE ~m.is4
  <2>1. m.network = v /\ o.network = u
    BY <1>2, ValueOf
  <2> HIDE DEF v, u
  <2>3. Intersection(m, o) = {NetworkFrom6(n) : n \in F6!Intersection(v, u)}
    BY <1>2, <2>1, FlagsImages DEF Intersection
  <2>4. Merge(m, o) = {NetworkFrom6(n) : n \in F6!Merge(v, u)}
    BY <1>2, <2>1, FlagsImages DEF Merge
  <2>5. MergeByLowestMaskBit(m, o) = {NetworkFrom6(n) : n \in F6!MergeByLowestMaskBit(v, u)}
    BY <1>2, <2>1, FlagsImages DEF MergeByLowestMaskBit
  <2>6. Difference(m, o) = {NetworkFrom6(n) : n \in F6!DifferenceParts(v, u)}
    BY <1>2, <2>1 DEF Difference
  <2>7. NetworkFrom(LastAddr(m), Mask(o)) =
          {NetworkFrom6(n) : n \in {F6!FromBits(LastAddr(m).bits, u.mask)}}
    <3>1. /\ LastAddr(m).family = 6 /\ Mask(o).family = 6 /\ Mask(o).bits = o.network.mask
      BY <1>2 DEF LastAddr, Mask, InFamilyOf, Netip6
    <3>3. Mask(o).bits = u.mask
      BY <2>1, <3>1
    <3>4. ~Both(4, LastAddr(m), Mask(o)) /\ Both(6, LastAddr(m), Mask(o))
      BY <3>1 DEF Both
    <3>5. NetworkFrom(LastAddr(m), Mask(o)) = {NetworkFrom6(F6!FromBits(LastAddr(m).bits, Mask(o).bits))}
      BY <3>4 DEF NetworkFrom, Only
    <3>6. NetworkFrom(LastAddr(m), Mask(o)) = {NetworkFrom6(F6!FromBits(LastAddr(m).bits, u.mask))}
      BY <3>3, <3>5
    <3> QED
      BY <3>6
  <2> QED
    BY <1>2, <2>3, <2>4, <2>5, <2>6, <2>7 DEF OfFamily, v, u
<1> QED
  BY <1>1, <1>2

(* Of one network, or of a slice of its family.                            *)
LEMMA CoversOfFamily ==
  ASSUME NEW m \in Network
  PROVE  LET v == Value(m)
             last == LastAddr(m).bits
         IN  /\ Supernet(m) = OfFamily(m, F4!Supernet(v), F6!Supernet(v))
             /\ {ToContiguous(m)} = OfFamily(m, {F4!ToContiguous(v)}, {F6!ToContiguous(v)})
             /\ NetworkFromAddr(LastAddr(m)) =
                  OfFamily(m, {F4!FromAddr(last)}, {F6!FromAddr(last)})
             /\ \A p : NetworkFromCIDR(LastAddr(m), p) =
                         OfFamily(m, F4!FromCIDR(last, p), F6!FromCIDR(last, p))
             /\ \A nets \in SUBSET Network :
                  LET us == {Value(d) : d \in nets}
                  IN  IF \E d \in nets : d.is4 # m.is4 THEN SupernetFor(m, nets) = {}
                      ELSE SupernetFor(m, nets) =
                             OfFamily(m, {F4!SupernetFor(v, us)}, {F6!SupernetFor(v, us)})
<1> DEFINE v == Value(m)
           last == LastAddr(m).bits
<1>0. m.is4 \in BOOLEAN
  BY DualFields
<1>1. CASE m.is4
  <2>0. m.is4 = TRUE
    BY <1>0, <1>1
  <2>1. v \in F4!Network /\ m.network = ToIPv6Mapped4(v) /\ v = Unwrap4(m)
    BY <1>1, ValueOf DEF Value
  <2>2. LastAddr(m).family = 4
    BY <1>1 DEF LastAddr, InFamilyOf, Netip4
  <2> HIDE DEF v, last
  <2>3. Supernet(m) = {NetworkFrom4(n) : n \in F4!Supernet(v)}
    BY <1>1, <2>1 DEF Supernet
  <2>4. {ToContiguous(m)} = {NetworkFrom4(n) : n \in {F4!ToContiguous(v)}}
    BY <2>0, <2>1, ToContiguousOfImage DEF ToContiguous, NetworkFrom4
  <2>5. NetworkFromAddr(LastAddr(m)) = {NetworkFrom4(n) : n \in {F4!FromAddr(last)}}
    BY <2>2 DEF NetworkFromAddr, last
  <2>6. \A p : NetworkFromCIDR(LastAddr(m), p) = {NetworkFrom4(n) : n \in F4!FromCIDR(last, p)}
    BY <2>2 DEF NetworkFromCIDR, last
  <2>7. ASSUME NEW nets \in SUBSET Network, \A d \in nets : d.is4 = m.is4
        PROVE  SupernetFor(m, nets) =
                 {NetworkFrom4(n) : n \in {F4!SupernetFor(v, {Value(d) : d \in nets})}}
    <3> DEFINE us == {Value(d) : d \in nets}
    <3>1. \A d \in nets : Value(d) \in F4!Network /\ d.network = ToIPv6Mapped4(Value(d))
      BY <1>1, <2>7, ValueOf
    <3>2. us \subseteq F4!Network /\ {d.network : d \in nets} = Images(us)
      BY <3>1 DEF Images
    <3> HIDE DEF us
    <3>3. F6!SupernetFor(m.network, {d.network : d \in nets}) = ToIPv6Mapped4(F4!SupernetFor(v, us))
      <4>1. F6!SupernetFor(ToIPv6Mapped4(v), Images(us)) = ToIPv6Mapped4(F4!SupernetFor(v, us))
        BY <2>1, <3>2, SupernetForOfImages
      <4> QED
        BY <2>1, <3>2, <4>1, Zenon
    <3>4. SupernetFor(m, nets) = {[network |-> F6!SupernetFor(m.network, {d.network : d \in nets}),
                                   is4 |-> m.is4]}
      BY <2>7, Zenon DEF SupernetFor, Only
    <3>5. SupernetFor(m, nets) = {NetworkFrom4(F4!SupernetFor(v, us))}
      BY <2>0, <3>3, <3>4, Zenon DEF NetworkFrom4
    <3> QED
      BY <3>5 DEF us
  <2>8. ASSUME NEW nets \in SUBSET Network, \E d \in nets : d.is4 # m.is4
        PROVE  SupernetFor(m, nets) = {}
    BY <2>8 DEF SupernetFor, Only
  <2> QED
    BY <1>1, <2>3, <2>4, <2>5, <2>6, <2>7, <2>8 DEF OfFamily, v, last
<1>2. CASE ~m.is4
  <2>0. m.is4 = FALSE
    BY <1>0, <1>2
  <2>1. m.network = v
    BY <1>2, ValueOf
  <2>2. LastAddr(m).family = 6
    BY <1>2 DEF LastAddr, InFamilyOf, Netip6
  <2> HIDE DEF v, last
  <2>3. Supernet(m) = {NetworkFrom6(n) : n \in F6!Supernet(v)}
    BY <1>2, <2>1 DEF Supernet
  <2>4. {ToContiguous(m)} = {NetworkFrom6(n) : n \in {F6!ToContiguous(v)}}
    BY <2>0, <2>1 DEF ToContiguous, NetworkFrom6
  <2>5. NetworkFromAddr(LastAddr(m)) = {NetworkFrom6(n) : n \in {F6!FromAddr(last)}}
    BY <2>2 DEF NetworkFromAddr, last
  <2>6. \A p : NetworkFromCIDR(LastAddr(m), p) = {NetworkFrom6(n) : n \in F6!FromCIDR(last, p)}
    BY <2>2 DEF NetworkFromCIDR, last
  <2>7. ASSUME NEW nets \in SUBSET Network, \A d \in nets : d.is4 = m.is4
        PROVE  SupernetFor(m, nets) =
                 {NetworkFrom6(n) : n \in {F6!SupernetFor(v, {Value(d) : d \in nets})}}
    <3> DEFINE us == {Value(d) : d \in nets}
    <3>1. \A d \in nets : d.network = Value(d)
      BY <1>2, <2>7, ValueOf
    <3>2. {d.network : d \in nets} = us
      BY <3>1
    <3> HIDE DEF us
    <3>4. SupernetFor(m, nets) = {[network |-> F6!SupernetFor(m.network, {d.network : d \in nets}),
                                   is4 |-> m.is4]}
      BY <2>7, Zenon DEF SupernetFor, Only
    <3>5. SupernetFor(m, nets) = {NetworkFrom6(F6!SupernetFor(v, us))}
      BY <2>0, <2>1, <3>2, <3>4, Zenon DEF NetworkFrom6
    <3> QED
      BY <3>5 DEF us
  <2>8. ASSUME NEW nets \in SUBSET Network, \E d \in nets : d.is4 # m.is4
        PROVE  SupernetFor(m, nets) = {}
    BY <2>8 DEF SupernetFor, Only
  <2> QED
    BY <1>2, <2>3, <2>4, <2>5, <2>6, <2>7, <2>8 DEF OfFamily, v, last
<1> QED
  BY <1>1, <1>2

(* The results recorded are those of the method, called on the receiver    *)
(* with the arguments recorded; the wrapper's ladder gives the parts of    *)
(* the plain difference.                                                   *)
Recorded ==
  /\ op \in {"Intersection", "Merge", "MergeByLowestMaskBit", "Difference", "Ask"} =>
       \E o \in Network :
         /\ args = <<o>>
         /\ op = "Intersection" => out = Intersection(recv, o)
         /\ op = "Merge" => out = Merge(recv, o)
         /\ op = "MergeByLowestMaskBit" => out = MergeByLowestMaskBit(recv, o)
         /\ op = "Difference" => out = Difference(recv, o)
  /\ op = "NetworkFrom" =>
       \/ args = <<>>
       \/ \E o \in Network : args = <<o>> /\ out = NetworkFrom(LastAddr(recv), Mask(o))
  /\ op = "Supernet" => out = Supernet(recv)
  /\ op = "ToContiguous" => out = {ToContiguous(recv)}
  /\ op = "FromAddr" => out \in {{}, NetworkFromAddr(LastAddr(recv))}
  /\ op = "FromCIDR" => out = NetworkFromCIDR(LastAddr(recv), prefix)
  /\ op = "SupernetFor" => out = SupernetFor(recv, {args[k] : k \in DOMAIN args})

LEMMA EachCallRecorded ==
  ASSUME TypeOK, Recorded, [Next]_vars
  PROVE  Recorded'
<1>0. held \in Network /\ (typed => IsContiguous(held))
  BY DEF TypeOK
<1>1. CASE CallIntersection
  <2>1. PICK o \in Others : Call("Intersection", <<o>>, Intersection(held, o))
    BY <1>1 DEF CallIntersection
  <2>2. /\ op' = "Intersection" /\ args' = <<o>> /\ recv' = held /\ o \in Network
        /\ out' = Intersection(held, o)
    BY <2>1 DEF Call, Return, Others
  <2> QED
    BY <2>2 DEF Recorded
<1>2. CASE CallMergeByLowestMaskBit
  <2>1. PICK o \in Others : Call("MergeByLowestMaskBit", <<o>>, MergeByLowestMaskBit(held, o))
    BY <1>2 DEF CallMergeByLowestMaskBit
  <2>2. /\ op' = "MergeByLowestMaskBit" /\ args' = <<o>> /\ recv' = held /\ o \in Network
        /\ out' = MergeByLowestMaskBit(held, o)
    BY <2>1 DEF Call, Return, Others
  <2> QED
    BY <2>2 DEF Recorded
<1>3. CASE CallSupernet
  <2>1. op' = "Supernet" /\ recv' = held /\ out' = Supernet(held)
    BY <1>3 DEF CallSupernet, Call, Return
  <2> QED
    BY <2>1 DEF Recorded
<1>4. CASE CallDifference
  <2>1. PICK o \in Others : Call("Difference", <<o>>, Difference(held, o))
    BY <1>4 DEF CallDifference
  <2>2. /\ op' = "Difference" /\ args' = <<o>> /\ recv' = held /\ o \in Network
        /\ out' = Difference(held, o)
    BY <2>1 DEF Call, Return, Others
  <2> QED
    BY <2>2 DEF Recorded
<1>5. CASE CallContiguousDifference
  <2>1. typed /\ \E o \in Others : Call("Difference", <<o>>, ContiguousDifference(held, o))
    BY <1>5 DEF CallContiguousDifference
  <2>2. PICK o \in Others : Call("Difference", <<o>>, ContiguousDifference(held, o))
    BY <2>1
  <2>3. o \in Network /\ IsContiguous(o)
    BY <2>1 DEF Others
  <2>4. ContiguousDifference(held, o) = Difference(held, o)
    BY <1>0, <2>1, <2>3, LadderIsDifference
  <2>5. /\ op' = "Difference" /\ args' = <<o>> /\ recv' = held
        /\ out' = Difference(held, o)
    BY <2>2, <2>4 DEF Call, Return
  <2> QED
    BY <2>3, <2>5 DEF Recorded
<1>6. CASE CallMerge
  <2>1. PICK o \in Others : Call("Merge", <<o>>, Merge(held, o))
    BY <1>6 DEF CallMerge
  <2>2. /\ op' = "Merge" /\ args' = <<o>> /\ recv' = held /\ o \in Network
        /\ out' = Merge(held, o)
    BY <2>1 DEF Call, Return, Others
  <2> QED
    BY <2>2 DEF Recorded
<1>7. CASE CallSupernetFor
  <2>1. PICK nets \in Slices :
          Call("SupernetFor", nets, SupernetFor(held, {nets[k] : k \in DOMAIN nets}))
    BY <1>7 DEF CallSupernetFor
  <2>2. /\ op' = "SupernetFor" /\ recv' = held /\ args' = nets
        /\ out' = SupernetFor(held, {nets[k] : k \in DOMAIN nets})
    BY <2>1 DEF Call, Return
  <2> QED
    BY <2>2 DEF Recorded
<1>8. CASE CallToCanonical
  <2>1. op' = "ToCanonical"
    BY <1>8 DEF CallToCanonical, Call, Return
  <2> QED
    BY <2>1 DEF Recorded
<1>9. CASE CallToIPv6Mapped
  <2>1. op' = "ToIPv6Mapped"
    BY <1>9 DEF CallToIPv6Mapped, Call, Return
  <2> QED
    BY <2>1 DEF Recorded
<1>10. CASE CallToContiguous
  <2>1. op' = "ToContiguous" /\ recv' = held /\ out' = {ToContiguous(held)}
    BY <1>10 DEF CallToContiguous, Call, Return
  <2> QED
    BY <2>1 DEF Recorded
<1>11. CASE CallContiguousFrom
  <2>1. op' = "ContiguousFrom"
    BY <1>11 DEF CallContiguousFrom, Call, Return
  <2> QED
    BY <2>1 DEF Recorded
<1>12. CASE CallNetwork
  <2>1. op' = "Network"
    BY <1>12 DEF CallNetwork, Call, Return
  <2> QED
    BY <2>1 DEF Recorded
<1>13. CASE CallNetworkFrom
  <2>1. CASE Call("NetworkFrom", <<>>, NetworkFrom(LastAddr(held), NoNetip))
    <3>1. op' = "NetworkFrom" /\ args' = <<>>
      BY <2>1 DEF Call, Return
    <3> QED
      BY <3>1 DEF Recorded
  <2>2. ASSUME NEW o \in Others,
               Call("NetworkFrom", <<o>>, NetworkFrom(LastAddr(held), Mask(o)))
        PROVE  Recorded'
    <3>1. /\ op' = "NetworkFrom" /\ args' = <<o>> /\ recv' = held /\ o \in Network
          /\ out' = NetworkFrom(LastAddr(held), Mask(o))
      BY <2>2 DEF Call, Return, Others
    <3> QED
      BY <3>1 DEF Recorded
  <2> QED
    BY <1>13, <2>1, <2>2 DEF CallNetworkFrom
<1>14. CASE CallFromAddr
  <2>1. PICK a \in {LastAddr(held), NoNetip} : Call("FromAddr", <<>>, NetworkFromAddr(a))
    BY <1>14 DEF CallFromAddr
  <2>2. NetworkFromAddr(NoNetip) = {}
    BY DEF NetworkFromAddr, NoNetip
  <2>3. op' = "FromAddr" /\ recv' = held /\ out' = NetworkFromAddr(a)
    BY <2>1 DEF Call, Return
  <2>4. out' \in {{}, NetworkFromAddr(LastAddr(held))}
    BY <2>1, <2>2, <2>3
  <2> QED
    BY <2>3, <2>4 DEF Recorded
<1>15. CASE CallFromCIDR
  <2>1. PICK p \in -1 .. (W6 + 1) :
          Return("FromCIDR", <<>>, NetworkFromCIDR(LastAddr(held), p)) /\ prefix' = p
    BY <1>15 DEF CallFromCIDR
  <2>2. op' = "FromCIDR" /\ recv' = held /\ out' = NetworkFromCIDR(LastAddr(held), prefix')
    BY <2>1 DEF Return
  <2> QED
    BY <2>2 DEF Recorded
<1>16. CASE Ask
  <2>1. PICK o \in Others : Call("Ask", <<o>>, {})
    BY <1>16 DEF Ask
  <2>2. op' = "Ask" /\ args' = <<o>> /\ o \in Network
    BY <2>1 DEF Call, Return, Others
  <2> QED
    BY <2>2 DEF Recorded
<1>17. CASE Continue
  <2>1. op' = "none"
    BY <1>17 DEF Continue
  <2> QED
    BY <2>1 DEF Recorded
<1>18. CASE UNCHANGED vars
  BY <1>18 DEF vars, Recorded
<1> QED
  BY <1>1, <1>2, <1>3, <1>4, <1>5, <1>6, <1>7, <1>8, <1>9, <1>10, <1>11, <1>12, <1>13,
     <1>14, <1>15, <1>16, <1>17, <1>18 DEF Next

(* What the last call left in op, recv, args, prefix and out tells which   *)
(* method was called on what: the invariant the answers rest on.           *)
THEOREM CallsAreRecorded == Spec => [](TypeOK /\ Recorded)
<1>1. Init => Recorded
  BY DEF Init, Recorded
<1>2. TypeOK /\ Recorded /\ [Next]_vars => Recorded'
  BY EachCallRecorded
<1> QED
  BY <1>1, <1>2, StorageInvariant, PTL DEF Spec

(* The receiver's family has the algebra's results.                        *)
LEMMA ResultsFollow ==
  ASSUME TypeOK, NEW four, NEW six, recv.is4 => four \subseteq F4!Network,
         out = OfFamily(recv, four, six)
  PROVE  Results(four, six)
<1>1. recv \in Network
  BY DEF TypeOK
<1> QED
  BY <1>1, ValuesOfFamily DEF Results, Own

LEMMA OwnResults ==
  ASSUME NEW m \in Network, m.is4
  PROVE  LET v == Value(m)
             last == LastAddr(m).bits
         IN  /\ last \subseteq F4!Bits
             /\ F4!Supernet(v) \subseteq F4!Network
             /\ F4!ToContiguous(v) \in F4!Network
             /\ F4!FromAddr(last) \in F4!Network
             /\ \A p \in Int : F4!FromCIDR(last, p) \subseteq F4!Network
             /\ \A us : F4!SupernetFor(v, us) \in F4!Network
             /\ \A o \in Network : o.is4 =>
                  LET u == Value(o)
                  IN  /\ F4!Intersection(v, u) \subseteq F4!Network
                      /\ F4!Merge(v, u) \subseteq F4!Network
                      /\ F4!MergeByLowestMaskBit(v, u) \subseteq F4!Network
                      /\ F4!DifferenceParts(v, u) \subseteq F4!Network
                      /\ F4!FromBits(last, u.mask) \in F4!Network
<1> DEFINE v == Value(m)
           last == LastAddr(m).bits
<1>0. W4 \in Nat \ {0}
  BY Widths
<1>1. v \in T4!Network
  BY ValueOf, Same4
<1>2. last \subseteq F4!Bits
  <2>1. LastAddr(m).family = 4
    BY DEF LastAddr, InFamilyOf, Netip4
  <2> QED
    BY <2>1, ViewsFit DEF Fits
<1>3. last \in T4!Word
  BY <1>2, Same4 DEF F4!Word
<1> HIDE DEF v, last
<1>4. F4!Supernet(v) \subseteq F4!Network
  BY <1>0, <1>1, T4!CoversAreNetworks, Same4
<1>5. F4!ToContiguous(v) \in F4!Network
  <2>1. F4!MaskFromPrefix(F4!LeadingOnes(v.mask)) \subseteq F4!Bits /\ v.addr \subseteq F4!Bits
    BY <1>1, Same4, Fields4 DEF F4!MaskFromPrefix
  <2> QED
    BY <2>1, FromBits4 DEF F4!ToContiguous
<1>6. F4!FromAddr(last) \in F4!Network
  BY <1>0, <1>1, <1>3, T4!ConstructedBlocks, Same4
<1>7. \A p \in Int : F4!FromCIDR(last, p) \subseteq F4!Network
  BY <1>0, <1>1, <1>3, T4!CoversAreNetworks, Same4
<1>8. ASSUME NEW us PROVE F4!SupernetFor(v, us) \in F4!Network
  <2>1. {i \in v.mask : \A n \in us : i \in F4!SupernetMask(n, v.addr, v.mask)} \subseteq F4!Bits
        /\ v.addr \subseteq F4!Bits
    BY <1>1, Same4, Fields4
  <2> QED
    BY <2>1, FromBits4 DEF F4!SupernetFor
<1>9. ASSUME NEW o \in Network, o.is4
      PROVE  LET u == Value(o)
             IN  /\ F4!Intersection(v, u) \subseteq F4!Network
                 /\ F4!Merge(v, u) \subseteq F4!Network
                 /\ F4!MergeByLowestMaskBit(v, u) \subseteq F4!Network
                 /\ F4!DifferenceParts(v, u) \subseteq F4!Network
                 /\ F4!FromBits(last, u.mask) \in F4!Network
  <2> DEFINE u == Value(o)
  <2>1. u \in T4!Network /\ u \in F4!Network
    BY <1>9, ValueOf, Same4
  <2> HIDE DEF u
  <2>2. F4!Intersection(v, u) \subseteq F4!Network
    BY <1>0, <1>1, <2>1, T4!ResultsAreNetworks, Same4, SameRest4
  <2>3. F4!Merge(v, u) \subseteq F4!Network /\ F4!MergeByLowestMaskBit(v, u) \subseteq F4!Network
    BY <1>0, <1>1, <2>1, T4!ResultsAreNetworks, Same4, SameMerges4
  <2>4. F4!DifferenceParts(v, u) \subseteq F4!Network
    BY <1>0, <1>1, <2>1, T4!PartsAreNetworks, Same4
  <2>5. F4!FromBits(last, u.mask) \in F4!Network
    BY <1>2, <2>1, Fields4, FromBits4
  <2> QED
    BY <2>2, <2>3, <2>4, <2>5 DEF u
<1> QED
  BY <1>2, <1>4, <1>5, <1>6, <1>7, <1>8, <1>9 DEF v, last

(* ResultsOfFamily of DualCalls (net.go:448, 502, 612, 641, 695): whatever *)
(* the widths and the mapped range, a call on networks of one family gives *)
(* what the family's own algorithm gives, and one across families nothing, *)
(* or for a difference the receiver.                                       *)
THEOREM FamilyResults == Spec => []ResultsOfFamily
<1>1. TypeOK /\ Recorded => ResultsOfFamily
  <2> SUFFICES ASSUME TypeOK, Recorded PROVE ResultsOfFamily
    OBVIOUS
  <2> DEFINE v == Value(recv)
             last == LastAddr(recv).bits
  <2>0. recv \in Network /\ args \in Seq(Network) /\ prefix \in Int
    BY Widths DEF TypeOK
  <2>1. ASSUME op = "Supernet" PROVE Results(F4!Supernet(v), F6!Supernet(v))
    BY <2>0, <2>1, CoversOfFamily, OwnResults, ResultsFollow DEF Recorded
  <2>2. ASSUME op = "ToContiguous" PROVE Results({F4!ToContiguous(v)}, {F6!ToContiguous(v)})
    <3>1. out = OfFamily(recv, {F4!ToContiguous(v)}, {F6!ToContiguous(v)})
      BY <2>0, <2>2, CoversOfFamily DEF Recorded
    <3>2. recv.is4 => {F4!ToContiguous(v)} \subseteq F4!Network
      BY <2>0, OwnResults
    <3> QED
      BY <3>1, <3>2, ResultsFollow
  <2>3. ASSUME op = "FromAddr"
        PROVE  out = {} \/ Results({F4!FromAddr(last)}, {F6!FromAddr(last)})
    <3>1. out = {} \/ out = OfFamily(recv, {F4!FromAddr(last)}, {F6!FromAddr(last)})
      BY <2>0, <2>3, CoversOfFamily DEF Recorded
    <3>2. recv.is4 => {F4!FromAddr(last)} \subseteq F4!Network
      BY <2>0, OwnResults
    <3> QED
      BY <3>1, <3>2, ResultsFollow
  <2>4. ASSUME op = "FromCIDR"
        PROVE  Results(F4!FromCIDR(last, prefix), F6!FromCIDR(last, prefix))
    <3>1. out = OfFamily(recv, F4!FromCIDR(last, prefix), F6!FromCIDR(last, prefix))
      BY <2>0, <2>4, CoversOfFamily DEF Recorded
    <3>2. recv.is4 => F4!FromCIDR(last, prefix) \subseteq F4!Network
      BY <2>0, OwnResults
    <3> QED
      BY <3>1, <3>2, ResultsFollow
  <2>5. ASSUME op = "SupernetFor"
        PROVE  LET nets == {args[k] : k \in DOMAIN args}
                   us   == {Value(d) : d \in nets}
               IN  IF \E d \in nets : Foreign(d) THEN out = {}
                   ELSE Results({F4!SupernetFor(v, us)}, {F6!SupernetFor(v, us)})
    <3> DEFINE nets == {args[k] : k \in DOMAIN args}
               us   == {Value(d) : d \in nets}
    <3>1. nets \in SUBSET Network
      BY <2>0
    <3>2. out = SupernetFor(recv, nets)
      BY <2>5 DEF Recorded
    <3> HIDE DEF nets
    <3>3. IF \E d \in nets : d.is4 # recv.is4 THEN SupernetFor(recv, nets) = {}
          ELSE SupernetFor(recv, nets) =
                 OfFamily(recv, {F4!SupernetFor(v, us)}, {F6!SupernetFor(v, us)})
      BY <2>0, <3>1, CoversOfFamily
    <3>4. recv.is4 => {F4!SupernetFor(v, us)} \subseteq F4!Network
      BY <2>0, OwnResults
    <3> HIDE DEF us
    <3>5. IF \E d \in nets : Foreign(d) THEN out = {}
          ELSE Results({F4!SupernetFor(v, us)}, {F6!SupernetFor(v, us)})
      BY <3>2, <3>3, <3>4, ResultsFollow DEF Foreign
    <3> QED
      BY <3>5 DEF nets, us
  <2>6. ASSUME op \in {"Intersection", "Merge", "MergeByLowestMaskBit", "NetworkFrom", "Difference"},
               NEW k \in DOMAIN args
        PROVE  LET u == Value(args[k])
               IN  IF Foreign(args[k])
                   THEN out = IF op = "Difference" THEN {recv} ELSE {}
                   ELSE /\ op = "Intersection" => Results(F4!Intersection(v, u), F6!Intersection(v, u))
                        /\ op = "Merge" => Results(F4!Merge(v, u), F6!Merge(v, u))
                        /\ op = "MergeByLowestMaskBit" =>
                             Results(F4!MergeByLowestMaskBit(v, u), F6!MergeByLowestMaskBit(v, u))
                        /\ op = "Difference" => Results(F4!DifferenceParts(v, u), F6!DifferenceParts(v, u))
                        /\ op = "NetworkFrom" =>
                             Results({F4!FromBits(last, u.mask)}, {F6!FromBits(last, u.mask)})
    <3>1. PICK o \in Network :
            /\ args = <<o>>
            /\ op = "Intersection" => out = Intersection(recv, o)
            /\ op = "Merge" => out = Merge(recv, o)
            /\ op = "MergeByLowestMaskBit" => out = MergeByLowestMaskBit(recv, o)
            /\ op = "Difference" => out = Difference(recv, o)
            /\ op = "NetworkFrom" => out = NetworkFrom(LastAddr(recv), Mask(o))
      <4>1. CASE op = "NetworkFrom"
        <5>1. args # <<>>
          BY <2>6
        <5> QED
          BY <4>1, <5>1 DEF Recorded
      <4>2. CASE op # "NetworkFrom"
        BY <2>6, <4>2 DEF Recorded
      <4> QED
        BY <4>1, <4>2
    <3>2. args[k] = o
      BY <2>6, <3>1
    <3> DEFINE u == Value(o)
    <3>3. CASE Foreign(o)
      <4>1. recv.is4 # o.is4
        BY <3>3 DEF Foreign
      <4>2. op = "NetworkFrom" => out = {}
        <5>1. /\ LastAddr(recv).family = IF recv.is4 THEN 4 ELSE 6
              /\ Mask(o).family = IF o.is4 THEN 4 ELSE 6
          BY DEF LastAddr, Mask, InFamilyOf, Netip4, Netip6
        <5>2. recv.is4 \in BOOLEAN /\ o.is4 \in BOOLEAN
          BY <2>0, DualFields
        <5>3. NetworkFrom(LastAddr(recv), Mask(o)) = {}
          BY <4>1, <5>1, <5>2 DEF NetworkFrom, Both, Only
        <5> QED
          BY <3>1, <5>3
      <4>3. out = IF op = "Difference" THEN {recv} ELSE {}
        BY <2>6, <3>1, <4>1, <4>2 DEF Intersection, Merge, MergeByLowestMaskBit, Difference
      <4> QED
        BY <3>2, <3>3, <4>3
    <3>4. CASE ~Foreign(o)
      <4>1. recv.is4 = o.is4
        BY <3>4 DEF Foreign
      <4>2. /\ op = "Intersection" => out = OfFamily(recv, F4!Intersection(v, u), F6!Intersection(v, u))
            /\ op = "Merge" => out = OfFamily(recv, F4!Merge(v, u), F6!Merge(v, u))
            /\ op = "MergeByLowestMaskBit" =>
                 out = OfFamily(recv, F4!MergeByLowestMaskBit(v, u), F6!MergeByLowestMaskBit(v, u))
            /\ op = "Difference" =>
                 out = OfFamily(recv, F4!DifferenceParts(v, u), F6!DifferenceParts(v, u))
            /\ op = "NetworkFrom" =>
                 out = OfFamily(recv, {F4!FromBits(last, u.mask)}, {F6!FromBits(last, u.mask)})
        BY <2>0, <3>1, <4>1, PairsOfFamily
      <4>3. recv.is4 =>
              /\ F4!Intersection(v, u) \subseteq F4!Network
              /\ F4!Merge(v, u) \subseteq F4!Network
              /\ F4!MergeByLowestMaskBit(v, u) \subseteq F4!Network
              /\ F4!DifferenceParts(v, u) \subseteq F4!Network
              /\ {F4!FromBits(last, u.mask)} \subseteq F4!Network
        BY <2>0, <3>1, <4>1, OwnResults
      <4> HIDE DEF u, v, last
      <4>4. /\ op = "Intersection" => Results(F4!Intersection(v, u), F6!Intersection(v, u))
            /\ op = "Merge" => Results(F4!Merge(v, u), F6!Merge(v, u))
            /\ op = "MergeByLowestMaskBit" =>
                 Results(F4!MergeByLowestMaskBit(v, u), F6!MergeByLowestMaskBit(v, u))
            /\ op = "Difference" => Results(F4!DifferenceParts(v, u), F6!DifferenceParts(v, u))
            /\ op = "NetworkFrom" =>
                 Results({F4!FromBits(last, u.mask)}, {F6!FromBits(last, u.mask)})
        BY <4>2, <4>3, ResultsFollow
      <4> QED
        BY <3>2, <3>4, <4>4 DEF u
    <3> QED
      BY <3>3, <3>4
  <2> HIDE DEF v, last
  <2> QED
    BY <2>1, <2>2, <2>3, <2>4, <2>5, <2>6 DEF ResultsOfFamily, v, last
<1> QED
  BY <1>1, CallsAreRecorded, PTL

(* AnswersOfFamily of DualCalls (net.go:373, 393, 414, 426, 473, 576, 593, *)
(* 725, 746): the answers from stored forms are those of the family's own  *)
(* algorithms, for every width.                                            *)
THEOREM FamilyAnswers == Spec => []AnswersOfFamily
<1>1. TypeOK /\ Recorded => AnswersOfFamily
  <2> SUFFICES ASSUME TypeOK, Recorded, op = "Ask", NEW k \in DOMAIN args
               PROVE  LET o == args[k]
                          v == Value(recv)
                          u == Value(o)
                          Is(answer, four, six) == answer <=> (~Foreign(o) /\ Own(four, six))
                      IN  /\ Before(recv, o) <=>
                               IF Foreign(o) THEN recv.is4 ELSE Own(F4!Before(v, u), F6!Before(v, u))
                          /\ Is(Contains(recv, o), F4!Contains(v, u), F6!Contains(v, u))
                          /\ IsContiguous(recv) /\ IsContiguous(o) =>
                               (ContainsContiguous(recv, o) <=> Contains(recv, o))
                          /\ Is(Intersects(recv, o), F4!Intersects(v, u), F6!Intersects(v, u))
                          /\ Is(IsAdjacent(recv, o), F4!IsAdjacent(v, u), F6!IsAdjacent(v, u))
                          /\ Is(IsAdjacentByLowestMaskBit(recv, o),
                                F4!IsAdjacentByLowestMaskBit(v, u), F6!IsAdjacentByLowestMaskBit(v, u))
                          /\ \A a \in Addrs(o) : ContainsAddr(recv, a) <=> a \in Addrs(recv)
                          /\ IsContiguous(recv) <=> Own(F4!IsContiguous(v), F6!IsContiguous(v))
                          /\ NumHostBits(recv) = Own(F4!NumHostBits(v), F6!NumHostBits(v))
                          /\ PrefixLen(recv) = Own(F4!PrefixLen(v), F6!PrefixLen(v))
    BY DEF AnswersOfFamily
  <2> DEFINE o == args[k]
             v == Value(recv)
             u == Value(o)
  <2>0. recv \in Network /\ o \in Network /\ recv.is4 \in BOOLEAN /\ o.is4 \in BOOLEAN
    <3>1. args \in Seq(Network) /\ recv \in Network
      BY DEF TypeOK
    <3> QED
      BY <3>1, DualFields
  <2> HIDE DEF o
  <2>1. Foreign(o) <=> recv.is4 # o.is4
    BY <2>0 DEF Foreign
  <2>2. IF recv.is4 THEN v \in F4!Network /\ recv.network = ToIPv6Mapped4(v)
        ELSE v \in F6!Network /\ recv.network = v
    BY <2>0, ValueOf
  <2>3. IF o.is4 THEN u \in F4!Network /\ o.network = ToIPv6Mapped4(u)
        ELSE u \in F6!Network /\ o.network = u
    BY <2>0, ValueOf
  <2> HIDE DEF v, u
  <2>4. Before(recv, o) <=>
          IF Foreign(o) THEN recv.is4 ELSE Own(F4!Before(v, u), F6!Before(v, u))
    BY <2>0, <2>1, <2>2, <2>3, OrderOfImages DEF Before, Own
  <2>5. Contains(recv, o) <=> (~Foreign(o) /\ Own(F4!Contains(v, u), F6!Contains(v, u)))
    BY <2>0, <2>1, <2>2, <2>3, ContainsOfImages DEF Contains, Own
  <2>6. IsContiguous(recv) /\ IsContiguous(o) =>
          (ContainsContiguous(recv, o) <=> Contains(recv, o))
    <3> SUFFICES ASSUME IsContiguous(recv), IsContiguous(o)
                 PROVE  F6!ContainsContiguous(recv.network, o.network)
                          <=> F6!Contains(recv.network, o.network)
      BY DEF ContainsContiguous, Contains
    <3>1. /\ recv.network \in F6!Network /\ o.network \in F6!Network
      BY <2>0, DualFields
    <3>2. /\ recv.network.mask \in T6!Word /\ o.network.mask \in T6!Word /\ W6 \in Nat \ {0}
          /\ recv.network.mask \cup T6!SubOne(recv.network.mask) = T6!Bits
          /\ o.network.mask \cup T6!SubOne(o.network.mask) = T6!Bits
      BY <3>1, Fields6, Same6, Widths DEF IsContiguous, F6!IsContiguous, F6!Word
    <3>3. T6!Le(recv.network.mask, o.network.mask) <=> recv.network.mask \subseteq o.network.mask
      BY <3>2, T6!ContiguousOrder
    <3>4. F6!Le(recv.network.mask, o.network.mask) <=> T6!Le(recv.network.mask, o.network.mask)
      BY DEF F6!Le, T6!Le, F6!Lt, T6!Lt
    <3>5. recv.network.mask \subseteq o.network.mask
            <=> o.network.mask \cap recv.network.mask = recv.network.mask
      OBVIOUS
    <3> QED
      BY <3>3, <3>4, <3>5 DEF F6!ContainsContiguous, F6!Contains
  <2>7. Intersects(recv, o) <=> (~Foreign(o) /\ Own(F4!Intersects(v, u), F6!Intersects(v, u)))
    BY <2>0, <2>1, <2>2, <2>3, IntersectionOfImages DEF Intersects, Own
  <2>8. /\ IsAdjacent(recv, o) <=> (~Foreign(o) /\ Own(F4!IsAdjacent(v, u), F6!IsAdjacent(v, u)))
        /\ IsAdjacentByLowestMaskBit(recv, o) <=>
             (~Foreign(o) /\ Own(F4!IsAdjacentByLowestMaskBit(v, u), F6!IsAdjacentByLowestMaskBit(v, u)))
    BY <2>0, <2>1, <2>2, <2>3, AdjacencyOfImages DEF IsAdjacent, IsAdjacentByLowestMaskBit, Own
  <2>9. ASSUME NEW a \in Addrs(o) PROVE ContainsAddr(recv, a) <=> a \in Addrs(recv)
    <3>1. /\ a = [family |-> a.family, bits |-> a.bits, zoned |-> FALSE]
          /\ o.is4 => a.family = 4 /\ a.bits \subseteq F4!Bits
          /\ ~o.is4 => a.family = 6 /\ a.bits \subseteq F6!Bits
      BY <2>9 DEF Addrs, Netip4, Netip6, F4!Addrs, F6!Addrs, F4!Word, F6!Word
    <3>2. CASE recv.is4
      <4>1. v = Unwrap4(recv)
        BY <3>2 DEF v, Value
      <4>2. Low4(recv.network.mask) = v.mask /\ Low4(recv.network.addr) = v.addr
        BY <4>1 DEF Unwrap4
      <4>3. Addrs(recv) = {Netip4(x) : x \in F4!Addrs(v)}
        BY <3>2, <4>1 DEF Addrs
      <4>4. ContainsAddr(recv, a) <=> a.family = 4 /\ a.bits \cap v.mask = v.addr
        BY <3>2, <4>2 DEF ContainsAddr
      <4>5. ASSUME a.family = 4 PROVE a \in Addrs(recv) <=> a.bits \cap v.mask = v.addr
        <5>1. a.bits \subseteq F4!Bits /\ a = Netip4(a.bits)
          BY <2>0, <3>1, <4>5 DEF Netip4
        <5>2. \A x : a = Netip4(x) => x = a.bits
          BY DEF Netip4
        <5> QED
          BY <4>3, <5>1, <5>2 DEF F4!Addrs, F4!Word
      <4>6. ASSUME a.family # 4 PROVE a \notin Addrs(recv)
        BY <4>3, <4>6 DEF Netip4
      <4> QED
        BY <4>4, <4>5, <4>6
    <3>3. CASE ~recv.is4
      <4>1. recv.network = v
        BY <2>2, <3>3
      <4>3. Addrs(recv) = {Netip6(x) : x \in F6!Addrs(v)}
        BY <3>3, <4>1 DEF Addrs
      <4>4. ContainsAddr(recv, a) <=> a.family = 6 /\ a.bits \cap v.mask = v.addr
        <5>1. a.zoned = FALSE
          BY <3>1
        <5> QED
          BY <3>3, <4>1, <5>1 DEF ContainsAddr, F6!ContainsAddr
      <4>5. ASSUME a.family = 6 PROVE a \in Addrs(recv) <=> a.bits \cap v.mask = v.addr
        <5>1. a.bits \subseteq F6!Bits /\ a = Netip6(a.bits)
          BY <2>0, <3>1, <4>5 DEF Netip6
        <5>2. \A x : a = Netip6(x) => x = a.bits
          BY DEF Netip6
        <5> QED
          BY <4>3, <5>1, <5>2 DEF F6!Addrs, F6!Word
      <4>6. ASSUME a.family # 6 PROVE a \notin Addrs(recv)
        BY <4>3, <4>6 DEF Netip6
      <4> QED
        BY <4>4, <4>5, <4>6
    <3> QED
      BY <3>2, <3>3
  <2>10. /\ IsContiguous(recv) <=> Own(F4!IsContiguous(v), F6!IsContiguous(v))
         /\ NumHostBits(recv) = Own(F4!NumHostBits(v), F6!NumHostBits(v))
    BY <2>2, HostBitsOfImage DEF IsContiguous, NumHostBits, Own
  <2>11. PrefixLen(recv) = Own(F4!PrefixLen(v), F6!PrefixLen(v))
    BY <2>0, PrefixLenOfFamily DEF Own, v, Value
  <2> QED
    BY <2>4, <2>5, <2>6, <2>7, <2>8, <2>9, <2>10, <2>11 DEF o, v, u
<1> QED
  BY <1>1, CallsAreRecorded, PTL

-----------------------------------------------------------------------------
(* The views of a network                                                  *)

LEMMA PrefixReadsBack ==
  ASSUME NEW d \in Network
  PROVE  /\ NetworkFrom(Addr(d), Mask(d)) = {d}
         /\ UNION {NetworkFromPrefix(p) : p \in Prefix(d)} = Only(IsContiguous(d), d)
         /\ {p.bits : p \in Prefix(d)} = PrefixLen(d)
<1> DEFINE v == Unwrap4(d)
           lens == IF d.is4 THEN F4!PrefixLen(v) ELSE F6!PrefixLen(d.network)
<1>1. Addr(d) = (IF d.is4 THEN Netip4(v.addr) ELSE Netip6(d.network.addr))
  BY DEF Addr, InFamilyOf, Unwrap4
<1>2. Mask(d) = (IF d.is4 THEN Netip4(v.mask) ELSE Netip6(d.network.mask))
  BY DEF Mask, InFamilyOf, Unwrap4
<1>3. ASSUME d.is4 PROVE F4!FromBits(v.addr, v.mask) = v
  <2>1. v \in F4!Network
    BY <1>3, Stored
  <2>2. v = [addr |-> v.addr, mask |-> v.mask] /\ v.addr \cap v.mask = v.addr
    BY <2>1, Fields4
  <2> QED
    BY <2>2 DEF F4!FromBits
<1>4. ASSUME ~d.is4 PROVE F6!FromBits(d.network.addr, d.network.mask) = d.network
  <2>1. /\ d.network = [addr |-> d.network.addr, mask |-> d.network.mask]
        /\ d.network.addr \cap d.network.mask = d.network.addr
    BY Stored, <1>4, Fields6
  <2> QED
    BY <2>1 DEF F6!FromBits
<1>5. /\ d.is4 => d = NetworkFrom4(v)
      /\ ~d.is4 => d = NetworkFrom6(d.network)
      /\ d.is4 \in BOOLEAN
  BY Stored, DualFields
<1>6. NetworkFrom(Addr(d), Mask(d)) = {d}
  <2>1. CASE d.is4
    <3>1. Addr(d).family = 4 /\ Mask(d).family = 4 /\ Addr(d).bits = v.addr /\ Mask(d).bits = v.mask
      BY <1>1, <1>2, <2>1 DEF Netip4
    <3> HIDE DEF v
    <3> QED
      BY <1>3, <1>5, <2>1, <3>1 DEF NetworkFrom, Both, Only
  <2>2. CASE ~d.is4
    <3>1. /\ Addr(d).family = 6 /\ Mask(d).family = 6
          /\ Addr(d).bits = d.network.addr /\ Mask(d).bits = d.network.mask
      BY <1>1, <1>2, <2>2 DEF Netip6
    <3> QED
      BY <1>4, <1>5, <2>2, <3>1 DEF NetworkFrom, Both, Only
  <2> QED
    BY <2>1, <2>2
<1>7. Prefix(d) = {[addr |-> Addr(d), bits |-> p] : p \in lens} /\ PrefixLen(d) = lens
  BY PrefixLenOfFamily DEF Prefix
<1>8. lens # {} <=> IsContiguous(d)
  <2>1. d.is4 => (IsContiguous(d) <=> F4!IsContiguous(v))
    BY StoredIsContiguous
  <2> HIDE DEF v
  <2> QED
    BY <2>1 DEF F4!PrefixLen, F6!PrefixLen, F4!Only, F6!Only, IsContiguous
<1>9. ASSUME IsContiguous(d), NEW p \in lens
      PROVE  NetworkFromPrefix([addr |-> Addr(d), bits |-> p]) = {d}
  <2>1. CASE d.is4
    <3>1. p \in 0 .. W4 /\ F4!MaskFromPrefix(p) = v.mask
      BY <1>7, <1>9, <2>1, BlockLength
    <3>2. Addr(d).family = 4 /\ Addr(d).bits = v.addr
      BY <1>1, <2>1 DEF Netip4
    <3> HIDE DEF v
    <3>3. F4!FromCIDR(Addr(d).bits, p) = {v}
      BY <1>3, <2>1, <3>1, <3>2 DEF F4!FromCIDR, F4!Only
    <3> QED
      BY <1>5, <2>1, <3>2, <3>3 DEF NetworkFromPrefix, NetworkFromCIDR
  <2>2. CASE ~d.is4
    <3>1. p \in 0 .. W6 /\ F6!MaskFromPrefix(p) = d.network.mask
      BY <1>7, <1>9, <2>2, BlockLength
    <3>2. Addr(d).family = 6 /\ Addr(d).bits = d.network.addr
      BY <1>1, <2>2 DEF Netip6
    <3>3. F6!FromCIDR(Addr(d).bits, p) = {d.network}
      BY <1>4, <2>2, <3>1, <3>2 DEF F6!FromCIDR, F6!Only
    <3> QED
      BY <1>5, <2>2, <3>2, <3>3 DEF NetworkFromPrefix, NetworkFromCIDR
  <2> QED
    BY <2>1, <2>2
<1> HIDE DEF lens
<1>10. UNION {NetworkFromPrefix(p) : p \in Prefix(d)} = Only(IsContiguous(d), d)
  <2>1. CASE IsContiguous(d)
    <3>1. {NetworkFromPrefix(p) : p \in Prefix(d)} = {{d}}
      BY <1>7, <1>8, <1>9, <2>1
    <3> QED
      BY <2>1, <3>1 DEF Only
  <2>2. CASE ~IsContiguous(d)
    BY <1>7, <1>8, <2>2 DEF Only
  <2> QED
    BY <2>1, <2>2
<1>11. {p.bits : p \in Prefix(d)} = PrefixLen(d)
  <2> DEFINE a == Addr(d)
  <2> HIDE DEF a
  <2>1. Prefix(d) = {[addr |-> a, bits |-> p] : p \in lens} /\ PrefixLen(d) = lens
    BY <1>7 DEF a
  <2>2. \A p : [addr |-> a, bits |-> p].bits = p
    OBVIOUS
  <2>3. \A q \in Prefix(d) : q.bits \in lens
    BY <2>1, <2>2
  <2>4. \A p \in lens : \E q \in Prefix(d) : q.bits = p
    <3> SUFFICES ASSUME NEW p \in lens PROVE \E q \in Prefix(d) : q.bits = p
      OBVIOUS
    <3>1. [addr |-> a, bits |-> p] \in Prefix(d)
      BY <2>1
    <3> QED
      BY <2>2, <3>1, Zenon
  <2> QED
    BY <2>1, <2>3, <2>4, Zenon
<1> QED
  BY <1>6, <1>10, <1>11

LEMMA AddrsReadBack ==
  ASSUME NEW d \in Network
  PROVE  /\ AddrIterator(d) = Addrs(d)
         /\ LastAddr(d) \in Addrs(d)
         /\ F6!Addrs(d.network) = {IF d.is4 THEN a.bits \cup Mapped ELSE a.bits : a \in Addrs(d)}
<1> DEFINE v == Unwrap4(d)
<1>1. F6!LastAddr(d.network) \in F6!Addrs(d.network)
  <2>1. /\ d.network.addr \subseteq d.network.mask /\ d.network.mask \subseteq F6!Bits
    BY DualFields, Fields6
  <2> QED
    BY <2>1 DEF F6!LastAddr, F6!Not, F6!Addrs, F6!Word
<1>2. CASE d.is4
  <2>1. v \in F4!Network /\ d.network = ToIPv6Mapped4(v)
    BY <1>2, Stored
  <2>2. AddrIterator(d) = {Netip4(Low4(x)) : x \in F6!Addrs(d.network)}
    BY <1>2 DEF AddrIterator, InFamilyOf
  <2>3. Addrs(d) = {Netip4(y) : y \in F4!Addrs(v)}
    BY <1>2 DEF Addrs
  <2> HIDE DEF v
  <2>4. /\ \A x \in F6!Addrs(d.network) : Low4(x) \in F4!Addrs(v) /\ x = Low4(x) \cup Mapped
        /\ \A y \in F4!Addrs(v) : y \cup Mapped \in F6!Addrs(d.network) /\ Low4(y \cup Mapped) = y
    BY <2>1, AddrsOfImage
  <2>5. AddrIterator(d) = Addrs(d)
    <3>1. \A x \in F6!Addrs(d.network) : Netip4(Low4(x)) \in Addrs(d)
      BY <2>3, <2>4
    <3>2. ASSUME NEW y \in F4!Addrs(v) PROVE Netip4(y) \in AddrIterator(d)
      <4>1. Netip4(Low4(y \cup Mapped)) \in AddrIterator(d)
        BY <2>2, <2>4
      <4> QED
        BY <2>4, <4>1, Zenon
    <3> QED
      BY <2>2, <2>3, <3>1, <3>2
  <2>6. LastAddr(d) \in AddrIterator(d)
    BY <1>1 DEF AddrIterator, LastAddr
  <2>7. \A y : Netip4(y).bits = y
    BY DEF Netip4
  <2>8. F6!Addrs(d.network) = {a.bits \cup Mapped : a \in Addrs(d)}
    <3>1. {a.bits \cup Mapped : a \in Addrs(d)} = {y \cup Mapped : y \in F4!Addrs(v)}
      BY <2>3, <2>7
    <3>2. ASSUME NEW x \in F6!Addrs(d.network) PROVE x \in {y \cup Mapped : y \in F4!Addrs(v)}
      <4>1. Low4(x) \in F4!Addrs(v) /\ x = Low4(x) \cup Mapped
        BY <2>4
      <4> QED
        BY <4>1, Zenon
    <3>3. \A y \in F4!Addrs(v) : y \cup Mapped \in F6!Addrs(d.network)
      BY <2>4
    <3> QED
      BY <3>1, <3>2, <3>3, Zenon
  <2> QED
    BY <1>2, <2>5, <2>6, <2>8
<1>3. CASE ~d.is4
  <2>1. AddrIterator(d) = Addrs(d) /\ Addrs(d) = {Netip6(x) : x \in F6!Addrs(d.network)}
    BY <1>3 DEF AddrIterator, InFamilyOf, Addrs
  <2>2. LastAddr(d) = Netip6(F6!LastAddr(d.network))
    BY <1>3 DEF LastAddr, InFamilyOf
  <2>3. \A y : Netip6(y).bits = y
    BY DEF Netip6
  <2> QED
    BY <1>1, <1>3, <2>1, <2>2, <2>3
<1> QED
  BY <1>2, <1>3

LEMMA CanonicalReadsBack ==
  ASSUME NEW d \in Network
  PROVE  LET range == ToIPv6Mapped4([addr |-> {}, mask |-> {}])
         IN  /\ F6!Contains(range, d.network) <=> IsIPv4MappedIPv6(d.network)
             /\ ToCanonical(NetworkFrom6(d.network)).is4 <=> IsIPv4MappedIPv6(d.network)
             /\ d.is4 => /\ IsIPv4MappedIPv6(d.network)
                         /\ ToCanonical(NetworkFrom6(d.network)) = d
                         /\ ToIPv4Mapped(d.network) = IPv4(d)
             /\ ToCanonical(d) # d => ~d.is4 /\ IsIPv4MappedIPv6(d.network)
<1> DEFINE range == ToIPv6Mapped4([addr |-> {}, mask |-> {}])
<1>1. range.addr = Mapped /\ range.mask = Pinned
  <2>1. range = [addr |-> {} \cup Mapped, mask |-> {} \cup Pinned]
    BY ImageOfPair
  <2> QED
    BY <2>1
<1>2. d.network.mask \subseteq F6!Bits
  BY DualFields, Fields6
<1> HIDE DEF range
<1>3. F6!Contains(range, d.network) <=> IsIPv4MappedIPv6(d.network)
  BY <1>1, <1>2 DEF F6!Contains, IsIPv4MappedIPv6
<1>4. ToCanonical(NetworkFrom6(d.network)) =
        [network |-> d.network, is4 |-> IsIPv4MappedIPv6(d.network)]
  BY DEF ToCanonical, NetworkFrom6, IsIPv4MappedIPv6
<1>5. ASSUME d.is4
      PROVE  /\ IsIPv4MappedIPv6(d.network)
             /\ ToCanonical(NetworkFrom6(d.network)) = d
             /\ ToIPv4Mapped(d.network) = IPv4(d)
  <2>1. IsIPv4MappedIPv6(d.network)
    BY <1>5 DEF Network
  <2>2. d = [network |-> d.network, is4 |-> TRUE]
    BY <1>5, DualFields
  <2>3. Unwrap4(d) \in F4!Network
    BY <1>5, Stored
  <2>4. Unwrap4(d).addr \cap Unwrap4(d).mask = Unwrap4(d).addr
    BY <2>3, Fields4
  <2>5. F4!FromBits(Low4(d.network.addr), Low4(d.network.mask)) = Unwrap4(d)
    BY <2>4 DEF F4!FromBits, Unwrap4
  <2> QED
    BY <1>4, <1>5, <2>1, <2>2, <2>5 DEF ToIPv4Mapped, IPv4, Only
<1>6. ToCanonical(d) # d => ~d.is4 /\ IsIPv4MappedIPv6(d.network)
  BY DEF ToCanonical
<1> QED
  BY <1>3, <1>4, <1>5, <1>6 DEF range

(* ViewsReadBack of DualCalls (net.go:213, 315, 763, 854, 867; net6.go:    *)
(* 1038, 1050): every view of a network the program holds leads back to    *)
(* it, and only networks inside the mapped range change their addresses    *)
(* when made canonical.                                                    *)
THEOREM ViewsAreFaithful == Spec => []ViewsReadBack
<1>1. TypeOK => ViewsReadBack
  <2> SUFFICES ASSUME held \in Network PROVE ViewsReadBack
    BY DEF TypeOK
  <2>1. {NetworkFrom4(n) : n \in IPv4(held)} \cup {NetworkFrom6(n) : n \in IPv6(held)} = {held}
    <3>1. CASE held.is4
      BY <3>1, Stored DEF IPv4, IPv6, Only
    <3>2. CASE ~held.is4
      BY <3>2, Stored DEF IPv4, IPv6, Only
    <3> QED
      BY <3>1, <3>2
  <2>2. ToIPv6Mapped(held) = held.network
    BY DEF ToIPv6Mapped
  <2>3. Addrs(ToCanonical(held)) # Addrs(held) => ToCanonical(held) # held
    OBVIOUS
  <2> QED
    BY <2>1, <2>2, <2>3, PrefixReadsBack, AddrsReadBack, CanonicalReadsBack DEF ViewsReadBack
<1> QED
  BY <1>1, StorageInvariant, PTL
=============================================================================
