-------------------------- MODULE NetworkTheorems --------------------------
(***************************************************************************)
(* The mask algebra for words of every width: what Contains, Intersection  *)
(* and Merge say of the address sets of normalized networks, how they are  *)
(* ordered, what CIDR masks and prefix lengths have to do with one         *)
(* another, how the bits of a mask are counted through, and which integers *)
(* the words stand for.  At the end, what the proofs about slices share:   *)
(* functions that ask themselves about something smaller, and sequences of *)
(* the same entries in one order.                                          *)
(***************************************************************************)
EXTENDS Networks, FiniteSetTheorems, WellFoundedInduction, TLAPS

(* A set of naturals that is not empty has a least element, and a bounded  *)
(* one a greatest.                                                         *)
LEMMA LeastNatural ==
  ASSUME NEW S, S \subseteq Nat, S # {}
  PROVE  \E i \in S : \A j \in S : i <= j
<1>1. PICK i \in S : \A j \in S : ~(<<j, i>> \in OpToRel(<, Nat))
  BY NatLessThanWellFounded, WFMin
<1>2. \A j \in S : ~(j < i)
  BY <1>1 DEF OpToRel
<1> QED
  BY <1>2

(* The greatest element: the least distance from the bound.                *)
LEMMA GreatestNatural ==
  ASSUME NEW n \in Nat, NEW S, S \subseteq 0 .. n, S # {}
  PROVE  \E i \in S : \A j \in S : j <= i
<1> DEFINE T == {n - i : i \in S}
<1>a. \A i \in S : i \in Nat /\ n - i \in Nat
  OBVIOUS
<1>1. T \subseteq Nat /\ T # {}
  BY <1>a
<1>2. PICK t \in T : \A u \in T : t <= u
  BY <1>1, LeastNatural
<1>3. PICK i \in S : t = n - i
  BY <1>2
<1>4. \A j \in S : n - i <= n - j
  BY <1>2, <1>3
<1>5. \A j \in S : j <= i
  BY <1>3, <1>4
<1> QED
  BY <1>5


(* w & (w - 1) keeps the bits of w that have a lower one below them        *)
(* (net4.go:719).                                                          *)
LEMMA ClearLowestIsNotLowest ==
  ASSUME NEW w \in Word
  PROVE  ClearLowestSetBit(w) = {i \in w : \E j \in w : j < i}
<1>1. \A i \in w : i \in Bits /\ i \in Nat
  BY WAssumption DEF Word, Bits
<1>2. ASSUME NEW i \in w
      PROVE  (\A j \in 0 .. (i - 1) : j \notin w) <=> ~(\E j \in w : j < i)
  BY <1>1, <1>2
<1>3. \A i \in w : i \in SubOne(w) <=> \E j \in w : j < i
  BY <1>1, <1>2 DEF SubOne
<1> QED
  BY <1>3 DEF ClearLowestSetBit

(* diff & (diff - 1) is zero exactly when diff has at most one bit, the    *)
(* test of Merge and adjacentBit (net4.go:719, 746).                       *)
LEMMA ClearLowestEmpty ==
  ASSUME NEW w \in Word
  PROVE  ClearLowestSetBit(w) = {} <=> \A i, j \in w : i = j
<1>1. \A i \in w : i \in Int
  BY WAssumption DEF Word, Bits
<1>2. \A i, j \in w : i # j => i < j \/ j < i
  BY <1>1
<1>3. \A i \in w : ~(i < i)
  BY <1>1
<1>4. ClearLowestSetBit(w) = {i \in w : \E j \in w : j < i}
  BY ClearLowestIsNotLowest
<1> QED
  BY <1>2, <1>3, <1>4

(* The fields of a network are words, its address inside its mask.         *)
LEMMA NetworkFields ==
  ASSUME NEW n \in Network
  PROVE  /\ n.addr \in Word
         /\ n.mask \in Word
         /\ n.addr \subseteq n.mask
         /\ n = [addr |-> n.addr, mask |-> n.mask]
BY DEF Network, Pair

(* An address inside the mask needs no masking AND.                        *)
LEMMA NetworkMake ==
  ASSUME NEW a \in Word, NEW m \in Word, a \subseteq m
  PROVE  [addr |-> a, mask |-> m] \in Network
BY DEF Network, Pair

(* Every network names its own address, so none is empty.                  *)
LEMMA AddrOfItself ==
  ASSUME NEW n \in Network
  PROVE  n.addr \in Addrs(n)
BY NetworkFields DEF Addrs

(* Contains (net4.go:494), a test of two words, is inclusion of address    *)
(* sets for every shape of mask.                                           *)
LEMMA ContainsIsInclusion ==
  ASSUME NEW m \in Network, NEW o \in Network
  PROVE  Contains(m, o) <=> Addrs(o) \subseteq Addrs(m)
<1>1. ASSUME Contains(m, o) PROVE Addrs(o) \subseteq Addrs(m)
  BY <1>1, NetworkFields DEF Contains, Addrs
<1>2. ASSUME Addrs(o) \subseteq Addrs(m) PROVE Contains(m, o)
  <2>1. o.addr \cap m.mask = m.addr
    BY <1>2, AddrOfItself DEF Addrs
  <2>2. ASSUME NEW i \in m.mask, i \notin o.mask PROVE FALSE
    <3> DEFINE x == o.addr \cup {i}
    <3>1. x \in Word /\ x \cap o.mask = o.addr /\ i \notin o.addr
      BY <2>2, NetworkFields DEF Word
    <3>2. x \in Addrs(m)
      BY <3>1, <1>2 DEF Addrs
    <3>3. x \cap m.mask = m.addr
      BY <3>2 DEF Addrs
    <3>4. i \in m.addr
      BY <3>3, <2>2
    <3> QED
      BY <3>4, <3>1, <2>1
  <2> QED
    BY <2>1, <2>2 DEF Contains
<1> QED
  BY <1>1, <1>2

(* Two networks naming the same addresses are equal: the representation is *)
(* canonical because the address is normalized (net4.go:42).               *)
THEOREM AddrsInjective ==
  ASSUME NEW m \in Network, NEW o \in Network, Addrs(m) = Addrs(o)
  PROVE  m = o
<1>1. Contains(m, o) /\ Contains(o, m)
  BY ContainsIsInclusion
<1>2. m.mask = o.mask
  BY <1>1 DEF Contains
<1>3. m.addr = o.addr
  BY <1>1, <1>2, NetworkFields DEF Contains
<1> QED
  BY <1>2, <1>3, NetworkFields

(* Intersection (net4.go:547): false exactly when the operands share no    *)
(* address, otherwise a normalized network of exactly the common ones.     *)
THEOREM IntersectionIsExact ==
  ASSUME NEW m \in Network, NEW o \in Network
  PROVE  /\ \A u \in Intersection(m, o) :
              u \in Network /\ Addrs(u) = Addrs(m) \cap Addrs(o)
         /\ Intersection(m, o) = {} <=> Addrs(m) \cap Addrs(o) = {}
<1> DEFINE agree == m.addr \cap o.mask = o.addr \cap m.mask
           u == [addr |-> m.addr \cup o.addr, mask |-> m.mask \cup o.mask]
<1>1. Intersection(m, o) = IF agree THEN {u} ELSE {}
  BY DEF Intersection, Only
<1>2. u \in Network
  BY NetworkFields DEF Network, Pair, Word
<1>3. ASSUME agree PROVE Addrs(u) = Addrs(m) \cap Addrs(o)
  BY <1>3, NetworkFields DEF Addrs
<1>4. ASSUME NEW x \in Addrs(m) \cap Addrs(o) PROVE agree
  BY <1>4 DEF Addrs
<1>5. u.addr \in Addrs(u)
  BY <1>2, AddrOfItself
<1> HIDE DEF agree, u
<1> QED
  BY <1>1, <1>2, <1>3, <1>4, <1>5

-----------------------------------------------------------------------------
(* Merge by cases, with the bit trick of the code read as a statement      *)
(* about bits.                                                             *)
LEMMA MergeCases ==
  ASSUME NEW m \in Network, NEW o \in Network, NEW u
  PROVE  u \in Merge(m, o) <=>
           \/ /\ m.mask = o.mask
              /\ \A i, j \in Xor(m.addr, o.addr) : i = j
              /\ u = [addr |-> m.addr \cap o.addr, mask |-> m.mask \ Xor(m.addr, o.addr)]
           \/ m.mask # o.mask /\ Contains(o, m) /\ u = o
           \/ m.mask # o.mask /\ Contains(m, o) /\ u = m
<1> DEFINE diff == Xor(m.addr, o.addr)
           s == [addr |-> m.addr \cap Xor(m.mask, diff), mask |-> Xor(m.mask, diff)]
           t == [addr |-> m.addr \cap o.addr, mask |-> m.mask \ diff]
<1>1. diff \in Word
  BY NetworkFields DEF Xor, Word
<1>2. ClearLowestSetBit(diff) = {} <=> \A i, j \in diff : i = j
  BY <1>1, ClearLowestEmpty
<1>3. CASE m.mask = o.mask
  <2>1. s = t
    BY <1>3, NetworkFields DEF Xor
  <2>2. Merge(m, o) = IF ClearLowestSetBit(diff) = {} THEN {s} ELSE {}
    BY <1>3 DEF Merge, Only
  <2> HIDE DEF diff, s, t
  <2>3. u \in Merge(m, o) <=> (\A i, j \in diff : i = j) /\ u = t
    BY <1>2, <2>1, <2>2
  <2> QED
    BY <1>3, <2>3 DEF diff, t
<1>4. CASE m.mask # o.mask
  <2>1. Contains(o, m) <=> m.addr \cap o.mask = o.addr /\ m.mask \cap o.mask = o.mask
    BY DEF Contains
  <2>2. Contains(m, o) <=> o.addr \cap m.mask = m.addr /\ m.mask \cap o.mask = m.mask
    BY DEF Contains
  <2>3. CASE m.mask \cap o.mask = o.mask
    <3>1. Merge(m, o) = IF m.addr \cap o.mask = o.addr THEN {o} ELSE {}
      BY <1>4, <2>3 DEF Merge, Only
    <3> QED
      BY <1>4, <2>1, <2>2, <2>3, <3>1
  <2>4. CASE m.mask \cap o.mask = m.mask
    <3>1. Merge(m, o) = IF o.addr \cap m.mask = m.addr THEN {m} ELSE {}
      BY <1>4, <2>4 DEF Merge, Only
    <3> QED
      BY <1>4, <2>1, <2>2, <2>4, <3>1
  <2>5. CASE m.mask \cap o.mask # o.mask /\ m.mask \cap o.mask # m.mask
    <3>1. Merge(m, o) = {}
      BY <1>4, <2>5 DEF Merge
    <3> QED
      BY <1>4, <2>1, <2>2, <2>5, <3>1
  <2> QED
    BY <2>3, <2>4, <2>5
<1> QED
  BY <1>3, <1>4

(* The first case of Merge seen from the caller: it succeeds.              *)
LEMMA SameMaskMerges ==
  ASSUME NEW m \in Network, NEW o \in Network, m.mask = o.mask,
         \A i, j \in Xor(m.addr, o.addr) : i = j
  PROVE  Merge(m, o) # {}
<1> DEFINE u == [addr |-> m.addr \cap o.addr, mask |-> m.mask \ Xor(m.addr, o.addr)]
<1>1. u \in Merge(m, o)
  BY MergeCases
<1> QED
  BY <1>1

(* Whether two networks merge does not depend on which is the receiver.    *)
LEMMA MergeSymmetric ==
  ASSUME NEW m \in Network, NEW o \in Network
  PROVE  Merge(m, o) = Merge(o, m)
<1>1. Xor(m.addr, o.addr) = Xor(o.addr, m.addr)
  BY DEF Xor
<1>2. \A u : u \in Merge(m, o) <=> u \in Merge(o, m)
  BY <1>1, MergeCases
<1> QED
  BY <1>2

(* Merge (net4.go:725) returns a normalized network of exactly the union   *)
(* of the operands, although only one of its branches masks the address.   *)
THEOREM MergeIsUnion ==
  ASSUME NEW m \in Network, NEW o \in Network, NEW u \in Merge(m, o)
  PROVE  u \in Network /\ Addrs(u) = Addrs(m) \cup Addrs(o)
<1>1. CASE /\ m.mask = o.mask
           /\ \A i, j \in Xor(m.addr, o.addr) : i = j
           /\ u = [addr |-> m.addr \cap o.addr, mask |-> m.mask \ Xor(m.addr, o.addr)]
  <2> DEFINE diff == Xor(m.addr, o.addr)
  <2>1. u \in Network
    BY <1>1, NetworkFields DEF Xor, Word, Network, Pair
  <2>2. u.addr = m.addr \cap o.addr /\ u.mask = m.mask \ diff
    BY <1>1
  <2>3. ASSUME NEW x \in Word, x \cap m.mask = m.addr PROVE x \cap u.mask = u.addr
    BY <1>1, <2>2, <2>3, NetworkFields DEF Xor
  <2>4. ASSUME NEW x \in Word, x \cap o.mask = o.addr PROVE x \cap u.mask = u.addr
    BY <1>1, <2>2, <2>4, NetworkFields DEF Xor
  <2>5. ASSUME NEW x \in Word, x \cap u.mask = u.addr
        PROVE  x \cap m.mask = m.addr \/ x \cap o.mask = o.addr
    <3>1. CASE diff = {}
      BY <1>1, <2>2, <2>5, <3>1, NetworkFields DEF Xor
    <3>2. CASE diff # {}
      <4>1. PICK d : diff = {d}
        BY <1>1, <3>2
      <4>2. d \in m.mask /\ (d \in m.addr <=> d \notin o.addr)
        BY <4>1, <1>1, NetworkFields DEF Xor
      <4>3. m.mask \ diff = m.mask \ {d}
        BY <4>1
      <4>4. \A i \in m.mask \ {d} : i \in x <=> (i \in m.addr /\ i \in o.addr)
        BY <2>2, <2>5, <4>3
      <4>5. \A i \in m.mask \ {d} : i \in m.addr <=> i \in o.addr
        BY <4>1 DEF Xor
      <4>6. m.addr \subseteq m.mask /\ o.addr \subseteq m.mask
        BY <1>1, NetworkFields
      <4>7. CASE d \in x <=> d \in m.addr
        <5>1. \A i \in m.mask : i \in x <=> i \in m.addr
          BY <4>4, <4>5, <4>7
        <5> QED
          BY <5>1, <4>6
      <4>8. CASE d \in x <=> d \in o.addr
        <5>1. \A i \in m.mask : i \in x <=> i \in o.addr
          BY <4>4, <4>5, <4>8
        <5> QED
          BY <5>1, <4>6, <1>1
      <4> QED
        BY <4>2, <4>7, <4>8
    <3> QED
      BY <3>1, <3>2
  <2> HIDE DEF diff
  <2> QED
    BY <2>1, <2>3, <2>4, <2>5 DEF Addrs
<1>2. CASE m.mask # o.mask /\ Contains(o, m) /\ u = o
  BY <1>2, ContainsIsInclusion
<1>3. CASE m.mask # o.mask /\ Contains(m, o) /\ u = m
  BY <1>3, ContainsIsInclusion
<1> QED
  BY <1>1, <1>2, <1>3, MergeCases

(* A bit that a part of a network fixes and the network leaves free.       *)
LEMMA FreedBit ==
  ASSUME NEW m \in Network, NEW u \in Network,
         Addrs(m) \subseteq Addrs(u), Addrs(m) # Addrs(u)
  PROVE  \E i \in m.mask : i \notin u.mask
<1> SUFFICES ASSUME m.mask \subseteq u.mask PROVE FALSE
  OBVIOUS
<1>1. Contains(u, m)
  BY ContainsIsInclusion
<1>2. m.mask = u.mask
  BY <1>1 DEF Contains
<1>3. m.addr = u.addr
  BY <1>1, <1>2, NetworkFields DEF Contains
<1> QED
  BY <1>2, <1>3, NetworkFields

(* Merge (net4.go:725) misses nothing: whenever the union of two networks  *)
(* is the address set of a single network, Merge finds it.  Were it not    *)
(* one of the two cases of the code, an address of the union could be      *)
(* built that disagrees with each operand on a bit of its own.             *)
THEOREM MergeIsComplete ==
  ASSUME NEW m \in Network, NEW o \in Network, NEW u \in Network,
         Addrs(u) = Addrs(m) \cup Addrs(o)
  PROVE  Merge(m, o) # {}
<1>1. CASE Addrs(o) \subseteq Addrs(m) \/ Addrs(m) \subseteq Addrs(o)
  <2>1. CASE m.mask = o.mask
    <3>1. Contains(m, o) \/ Contains(o, m)
      BY <1>1, ContainsIsInclusion
    <3>2. m.addr = o.addr
      BY <2>1, <3>1, NetworkFields DEF Contains
    <3>3. Xor(m.addr, o.addr) = {}
      BY <3>2 DEF Xor
    <3> QED
      BY <2>1, <3>3, SameMaskMerges
  <2>2. CASE m.mask # o.mask
    BY <1>1, <2>2, ContainsIsInclusion, MergeCases
  <2> QED
    BY <2>1, <2>2
<1>2. CASE ~(Addrs(o) \subseteq Addrs(m)) /\ ~(Addrs(m) \subseteq Addrs(o))
  <2>1. /\ Addrs(m) \subseteq Addrs(u) /\ Addrs(m) # Addrs(u)
        /\ Addrs(o) \subseteq Addrs(u) /\ Addrs(o) # Addrs(u)
    BY <1>2
  <2>2. Contains(u, m) /\ Contains(u, o)
    BY <2>1, ContainsIsInclusion
  <2>3. \E i \in m.mask : i \notin u.mask
    BY <2>1, FreedBit
  <2>4. \E i \in o.mask : i \notin u.mask
    BY <2>1, FreedBit
  <2>5. ASSUME NEW i \in m.mask \ u.mask, NEW j \in o.mask \ u.mask PROVE i = j
    <3> SUFFICES ASSUME i # j PROVE FALSE
      OBVIOUS
    (* An address of u that differs from m at i and from o at j.           *)
    <3> DEFINE x == u.addr \cup {b \in {i} : b \notin m.addr} \cup {b \in {j} : b \notin o.addr}
    <3>1. x \in Word /\ x \cap u.mask = u.addr
      BY NetworkFields DEF Word
    <3>2. x \in Addrs(m) \/ x \in Addrs(o)
      BY <3>1 DEF Addrs
    <3>3. i \notin u.addr /\ j \notin u.addr
      BY NetworkFields
    <3>4. i \in x <=> i \notin m.addr
      BY <3>3
    <3>5. j \in x <=> j \notin o.addr
      BY <3>3
    <3> HIDE DEF x
    <3>6. x \notin Addrs(m)
      BY <3>4 DEF Addrs
    <3>7. x \notin Addrs(o)
      BY <3>5 DEF Addrs
    <3> QED
      BY <3>2, <3>6, <3>7
  <2>6. PICK d : m.mask \ u.mask = {d} /\ o.mask \ u.mask = {d}
    BY <2>3, <2>4, <2>5
  <2>7. u.mask \subseteq m.mask /\ u.mask \subseteq o.mask
    BY <2>2 DEF Contains
  <2>8. m.mask = o.mask
    BY <2>6, <2>7
  <2>9. m.addr \cap u.mask = o.addr \cap u.mask
    BY <2>2 DEF Contains
  <2>10. Xor(m.addr, o.addr) \subseteq {d}
    BY <2>6, <2>9, NetworkFields DEF Xor
  <2> QED
    BY <2>8, <2>10, SameMaskMerges
<1> QED
  BY <1>1, <1>2

-----------------------------------------------------------------------------
(* Sets of at most one element                                             *)

AtMostOne(S) == \A x, y \in S : x = y

LEMMA AtMostOneIsFew ==
  ASSUME NEW S, AtMostOne(S)
  PROVE  Cardinality(S) <= 1
<1>1. CASE S = {}
  BY <1>1, FS_EmptySet
<1>2. CASE S # {}
  <2>1. PICK x \in S : TRUE
    BY <1>2
  <2>2. S = {x}
    BY <2>1 DEF AtMostOne
  <2>3. Cardinality({x}) = 1
    BY FS_Singleton
  <2> QED
    BY <2>2, <2>3
<1> QED
  BY <1>1, <1>2

LEMMA OnlyIsOne ==
  ASSUME NEW found, NEW n
  PROVE  AtMostOne(Only(found, n))
BY DEF AtMostOne, Only

-----------------------------------------------------------------------------
(* Masks                                                                   *)

(* Below the first bit a CIDR mask leaves free, it leaves all bits free.   *)
LEMMA ContiguousIsUpward ==
  ASSUME NEW w \in Word
  PROVE  w \cup SubOne(w) = Bits <=> \A i \in Bits \ w : \A j \in w : ~(j < i)
<1>1. \A i \in Bits : i \in Int /\ 0 <= i
  BY WAssumption DEF Bits
<1>2. w \subseteq Bits /\ SubOne(w) \subseteq Bits
  BY DEF Word, SubOne
<1>3. ASSUME NEW i \in Bits, i \notin w
      PROVE  i \in SubOne(w) <=> \A j \in w : ~(j < i)
  <2>1. i \in SubOne(w) <=> \A j \in 0 .. (i - 1) : j \notin w
    BY <1>3 DEF SubOne
  <2>2. (\A j \in 0 .. (i - 1) : j \notin w) <=> \A j \in w : ~(j < i)
    BY <1>1, <1>2
  <2> QED
    BY <2>1, <2>2
<1> QED
  BY <1>2, <1>3

(* Of two CIDR masks one includes the other.                               *)
LEMMA ContiguousNest ==
  ASSUME NEW a \in Word, NEW b \in Word,
         a \cup SubOne(a) = Bits, b \cup SubOne(b) = Bits
  PROVE  a \subseteq b \/ b \subseteq a
<1>1. /\ \A i \in Bits \ a : \A j \in a : ~(j < i)
      /\ \A i \in Bits \ b : \A j \in b : ~(j < i)
  BY ContiguousIsUpward
<1>2. SUFFICES ASSUME NEW i \in a, i \notin b, NEW k \in b, k \notin a PROVE FALSE
  OBVIOUS
<1>3. i \in Bits /\ k \in Bits /\ i \in Int /\ k \in Int
  BY WAssumption DEF Word, Bits
<1>4. i < k \/ k < i
  BY <1>2, <1>3
<1> QED
  BY <1>1, <1>2, <1>3, <1>4

(* Among CIDR masks the numeric order is inclusion.                        *)
LEMMA ContiguousOrder ==
  ASSUME NEW a \in Word, NEW b \in Word,
         a \cup SubOne(a) = Bits, b \cup SubOne(b) = Bits
  PROVE  Le(a, b) <=> a \subseteq b
<1>1. a \subseteq b \/ b \subseteq a
  BY ContiguousNest
<1>2. ASSUME a \subseteq b, a # b PROVE Lt(a, b)
  <2>1. PICK i : i \in b \ a
    BY <1>2
  <2> QED
    BY <1>2, <2>1 DEF Lt
<1>3. ASSUME Lt(a, b) PROVE a \subseteq b
  BY <1>1, <1>3 DEF Lt
<1> QED
  BY <1>2, <1>3 DEF Le

-----------------------------------------------------------------------------
(* Results                                                                 *)

(* Every constructor masks its address.                                    *)
LEMMA FromBitsInNetwork ==
  ASSUME NEW a \in Word, NEW m \in Word
  PROVE  /\ FromBits(a, m) \in Network
         /\ FromBits(a, m).addr = a \cap m
         /\ FromBits(a, m).mask = m
BY DEF FromBits, Network, Pair, Word

LEMMA IntersectionAtMostOne ==
  ASSUME NEW m, NEW o
  PROVE  AtMostOne(Intersection(m, o))
BY OnlyIsOne DEF Intersection

LEMMA MergeAtMostOne ==
  ASSUME NEW m \in Network, NEW o \in Network
  PROVE  AtMostOne(Merge(m, o))
<1>1. ASSUME NEW u \in Merge(m, o), NEW v \in Merge(m, o) PROVE u = v
  <2>1. /\ u \in Network /\ Addrs(u) = Addrs(m) \cup Addrs(o)
        /\ v \in Network /\ Addrs(v) = Addrs(m) \cup Addrs(o)
    BY <1>1, MergeIsUnion
  <2> QED
    BY <2>1, AddrsInjective
<1> QED
  BY <1>1 DEF AtMostOne

(* A sibling merge at the lowest masked bit is one Merge finds too.        *)
LEMMA LowestMerge ==
  ASSUME NEW m \in Network, NEW o \in Network
  PROVE  /\ AtMostOne(MergeByLowestMaskBit(m, o))
         /\ MergeByLowestMaskBit(m, o) \subseteq Merge(m, o)
<1>1. CASE m = o
  <2>1. MergeByLowestMaskBit(m, o) = {m}
    BY <1>1 DEF MergeByLowestMaskBit
  <2>2. Xor(m.addr, o.addr) = {}
    BY <1>1 DEF Xor
  <2>3. m = [addr |-> m.addr \cap o.addr, mask |-> m.mask \ Xor(m.addr, o.addr)]
    <3>1. m.addr \cap o.addr = m.addr /\ m.mask \ Xor(m.addr, o.addr) = m.mask
      BY <1>1, <2>2
    <3> QED
      BY <3>1, NetworkFields
  <2>4. m \in Merge(m, o)
    BY <1>1, <2>2, <2>3, MergeCases
  <2> QED
    BY <2>1, <2>4 DEF AtMostOne
<1>2. CASE m # o /\ m.mask = o.mask
  <2> DEFINE u == [addr |-> m.addr \cap o.addr, mask |-> ClearLowestSetBit(m.mask)]
  <2>1. MergeByLowestMaskBit(m, o) = Only(IsAdjacentByLowestMaskBit(m, o), u)
    BY <1>2 DEF MergeByLowestMaskBit
  <2>2. ASSUME IsAdjacentByLowestMaskBit(m, o) PROVE u \in Merge(m, o)
    <3>1. Xor(m.addr, o.addr) = LowestSetBit(m.mask)
      BY <2>2 DEF IsAdjacentByLowestMaskBit
    <3>2. m.mask \in Word /\ \A i \in m.mask : i \in Int
      BY WAssumption, NetworkFields DEF Word, Bits
    <3>3. \A i, j \in LowestSetBit(m.mask) : i = j
      BY <3>2 DEF LowestSetBit
    <3>4. ClearLowestSetBit(m.mask) = m.mask \ LowestSetBit(m.mask)
      <4>1. ClearLowestSetBit(m.mask) = {i \in m.mask : \E j \in m.mask : j < i}
        BY <3>2, ClearLowestIsNotLowest
      <4>2. \A i \in m.mask : (\E j \in m.mask : j < i) <=> ~(\A j \in m.mask : i <= j)
        BY <3>2
      <4> QED
        BY <4>1, <4>2 DEF LowestSetBit
    <3> QED
      BY <1>2, <3>1, <3>3, <3>4, MergeCases
  <2> HIDE DEF u
  <2> QED
    BY <2>1, <2>2 DEF Only, AtMostOne
<1>3. CASE m # o /\ m.mask # o.mask
  <2>1. MergeByLowestMaskBit(m, o) =
          IF Contains(m, o) THEN {m} ELSE Only(Contains(o, m), o)
    BY <1>3 DEF MergeByLowestMaskBit
  <2>2. \A u \in MergeByLowestMaskBit(m, o) :
          (Contains(m, o) /\ u = m) \/ (Contains(o, m) /\ u = o)
    BY <2>1 DEF Only
  <2>3. AtMostOne(MergeByLowestMaskBit(m, o))
    BY <2>1 DEF Only, AtMostOne
  <2> QED
    BY <1>3, <2>2, <2>3, MergeCases
<1> QED
  BY <1>1, <1>2, <1>3

(* A mask without a bit of its own is a CIDR mask again exactly when that  *)
(* bit is the lowest.                                                      *)
LEMMA LowestKeepsContiguous ==
  ASSUME NEW w \in Word, w \cup SubOne(w) = Bits, NEW b \in w
  PROVE  /\ w \ {b} \in Word
         /\ (w \ {b}) \cup SubOne(w \ {b}) = Bits <=> \A j \in w : b <= j
<1> DEFINE v == w \ {b}
<1>1. v \in Word /\ b \in Bits /\ \A i \in Bits : i \in Int
  BY WAssumption DEF Word, Bits
<1>2. \A i \in Bits \ w : \A j \in w : ~(j < i)
  BY ContiguousIsUpward
<1>3. v \cup SubOne(v) = Bits <=> \A i \in Bits \ v : \A j \in v : ~(j < i)
  BY <1>1, ContiguousIsUpward
<1>4. (\A i \in Bits \ v : \A j \in v : ~(j < i)) <=> \A j \in v : ~(j < b)
  BY <1>1, <1>2
<1>5. \A j \in w : j \in Int
  BY <1>1 DEF Word
<1>6. (\A j \in v : ~(j < b)) <=> \A j \in w : b <= j
  BY <1>1, <1>5
<1> QED
  BY <1>1, <1>3, <1>4, <1>6

(* Among CIDR blocks the typed merge misses no merge of its class.         *)
LEMMA LowestMergeOfBlocks ==
  ASSUME NEW m \in Network, NEW o \in Network, IsContiguous(m), IsContiguous(o),
         NEW u \in Merge(m, o), IsContiguous(u)
  PROVE  u \in MergeByLowestMaskBit(m, o)
<1> DEFINE diff == Xor(m.addr, o.addr)
<1>1. CASE m = o
  <2>1. Addrs(u) = Addrs(m) /\ u \in Network
    <3>1. Addrs(u) = Addrs(m) \cup Addrs(o) /\ u \in Network
      BY MergeIsUnion
    <3>2. Addrs(o) = Addrs(m)
      BY <1>1
    <3> QED
      BY <3>1, <3>2
  <2>2. u = m
    BY <2>1, AddrsInjective
  <2> QED
    BY <1>1, <2>2 DEF MergeByLowestMaskBit
<1>2. CASE m # o /\ m.mask = o.mask
  <2>1. /\ \A i, j \in diff : i = j
        /\ u = [addr |-> m.addr \cap o.addr, mask |-> m.mask \ diff]
    BY <1>2, MergeCases
  <2>2. diff # {}
    <3>1. m.addr # o.addr
      BY <1>2, NetworkFields
    <3> QED
      BY <3>1 DEF Xor
  <2>3. PICK b \in diff : diff = {b}
    BY <2>1, <2>2
  <2>4. b \in m.mask /\ m.mask \in Word
    BY <1>2, <2>3, NetworkFields DEF Xor
  <2>5. u.mask = m.mask \ {b}
    BY <2>1, <2>3
  <2>6. \A j \in m.mask : b <= j
    <3>1. m.mask \cup SubOne(m.mask) = Bits /\ u.mask \cup SubOne(u.mask) = Bits
      BY DEF IsContiguous
    <3> QED
      BY <2>4, <2>5, <3>1, LowestKeepsContiguous
  <2>7. \A j \in m.mask : j \in Int
    BY <2>4, WAssumption DEF Word, Bits
  <2>8. LowestSetBit(m.mask) = {b}
    BY <2>4, <2>6, <2>7 DEF LowestSetBit
  <2>9. IsAdjacentByLowestMaskBit(m, o)
    BY <1>2, <2>3, <2>4, <2>8 DEF IsAdjacentByLowestMaskBit
  <2>10. ClearLowestSetBit(m.mask) = m.mask \ {b}
    <3>1. ClearLowestSetBit(m.mask) = {i \in m.mask : \E j \in m.mask : j < i}
      BY <2>4, ClearLowestIsNotLowest
    <3> QED
      BY <2>4, <2>6, <2>7, <3>1
  <2>11. MergeByLowestMaskBit(m, o) =
           Only(IsAdjacentByLowestMaskBit(m, o),
                [addr |-> m.addr \cap o.addr, mask |-> ClearLowestSetBit(m.mask)])
    BY <1>2 DEF MergeByLowestMaskBit
  <2> QED
    BY <2>1, <2>3, <2>9, <2>10, <2>11 DEF Only
<1>3. CASE m # o /\ m.mask # o.mask
  <2>1. MergeByLowestMaskBit(m, o) =
          IF Contains(m, o) THEN {m} ELSE Only(Contains(o, m), o)
    BY <1>3 DEF MergeByLowestMaskBit
  <2>2. ~(Contains(m, o) /\ Contains(o, m))
    BY <1>3 DEF Contains
  <2> QED
    BY <1>3, <2>1, <2>2, MergeCases DEF Only
<1> QED
  BY <1>1, <1>2, <1>3

(* IsAdjacent (net4.go:699) holds exactly of the disjoint operands that    *)
(* merge.                                                                  *)
LEMMA AdjacentIsDisjointMerge ==
  ASSUME NEW m \in Network, NEW o \in Network
  PROVE  IsAdjacent(m, o) <=> (IsDisjoint(m, o) /\ Merge(m, o) # {})
<1> DEFINE diff == Xor(m.addr, o.addr)
<1>1. diff \in Word
  BY NetworkFields DEF Xor, Word
<1>2. IsAdjacent(m, o) <=> m.mask = o.mask /\ diff # {} /\ \A i, j \in diff : i = j
  <2>1. IsAdjacent(m, o) <=> m.mask = o.mask /\ diff # {} /\ ClearLowestSetBit(diff) = {}
    BY DEF IsAdjacent, AdjacentBit, Only
  <2> QED
    BY <1>1, <2>1, ClearLowestEmpty
<1>3. IsDisjoint(m, o) <=> m.addr \cap o.mask # o.addr \cap m.mask
  BY DEF IsDisjoint, Intersects, Intersection, Only
<1>4. CASE m.mask = o.mask
  <2>1. m.addr \cap o.mask = m.addr /\ o.addr \cap m.mask = o.addr
    BY <1>4, NetworkFields
  <2>2. diff # {} <=> m.addr # o.addr
    BY DEF Xor
  <2>3. Merge(m, o) # {} <=> \A i, j \in diff : i = j
    BY <1>4, MergeCases, SameMaskMerges
  <2> QED
    BY <1>2, <1>3, <1>4, <2>1, <2>2, <2>3
<1>5. CASE m.mask # o.mask
  <2>1. ~IsAdjacent(m, o)
    BY <1>2, <1>5
  <2>2. ASSUME Merge(m, o) # {} PROVE ~IsDisjoint(m, o)
    <3>1. Contains(m, o) \/ Contains(o, m)
      BY <1>5, <2>2, MergeCases
    <3>2. m.addr \cap o.mask = o.addr \cap m.mask
      BY <3>1, NetworkFields DEF Contains
    <3> QED
      BY <1>3, <3>2
  <2> QED
    BY <2>1, <2>2
<1> QED
  BY <1>4, <1>5

(* A network adjacent by its lowest masked bit is adjacent.                *)
LEMMA AdjacentByLowest ==
  ASSUME NEW m \in Network, NEW o \in Network, IsAdjacentByLowestMaskBit(m, o)
  PROVE  IsAdjacent(m, o)
<1> DEFINE diff == Xor(m.addr, o.addr)
<1>1. m.mask = o.mask /\ m.mask # {} /\ diff = LowestSetBit(m.mask)
  BY DEF IsAdjacentByLowestMaskBit
<1>2. m.mask \in Word /\ m.mask \subseteq Nat /\ \A i \in m.mask : i \in Int
  BY WAssumption, NetworkFields DEF Word, Bits
<1>3. diff # {}
  BY <1>1, <1>2, LeastNatural DEF LowestSetBit
<1>4. \A i, j \in diff : i = j
  BY <1>1, <1>2 DEF LowestSetBit
<1>5. diff \in Word
  BY <1>1, <1>2 DEF LowestSetBit, Word
<1>6. ClearLowestSetBit(diff) = {}
  BY <1>4, <1>5, ClearLowestEmpty
<1> QED
  BY <1>1, <1>3, <1>6 DEF IsAdjacent, AdjacentBit, Only

-----------------------------------------------------------------------------
(* Prefix lengths                                                          *)

Run(w) == {i \in Bits : i .. (W - 1) \subseteq w}

LEMMA RunIsInterval ==
  ASSUME NEW w \in Word
  PROVE  \E k \in 0 .. W : Run(w) = k .. (W - 1)
<1>0. W \in Nat /\ W # 0
  BY WAssumption
<1>1. CASE Run(w) = {}
  <2>1. Run(w) = W .. (W - 1)
    BY <1>0, <1>1
  <2> QED
    BY <1>0, <2>1
<1>2. CASE Run(w) # {}
  <2>1. Run(w) \subseteq Nat
    BY <1>0 DEF Run, Bits
  <2>2. PICK k \in Run(w) : \A i \in Run(w) : k <= i
    BY <1>2, <2>1, LeastNatural
  <2>3. k \in 0 .. (W - 1) /\ k .. (W - 1) \subseteq w
    BY <1>0, <2>2 DEF Run, Bits
  <2>4. Run(w) \subseteq k .. (W - 1)
    BY <1>0, <2>2, <2>3 DEF Run, Bits
  <2>5. ASSUME NEW i \in k .. (W - 1) PROVE i \in Run(w)
    <3>1. i \in Bits /\ i .. (W - 1) \subseteq k .. (W - 1)
      BY <1>0, <2>3, <2>5 DEF Bits
    <3> QED
      BY <2>3, <3>1 DEF Run
  <2>6. Run(w) = k .. (W - 1)
    BY <2>4, <2>5
  <2>7. k \in 0 .. W
    BY <1>0, <2>3
  <2> QED
    BY <2>6, <2>7
<1> QED
  BY <1>1, <1>2

(* The mask of the length of the leading run is that run.                  *)
LEMMA LeadingRun ==
  ASSUME NEW w \in Word
  PROVE  /\ LeadingOnes(w) \in 0 .. W
         /\ MaskFromPrefix(LeadingOnes(w)) = Run(w)
<1>0. W \in Nat /\ W # 0
  BY WAssumption
<1>1. PICK k \in 0 .. W : Run(w) = k .. (W - 1)
  BY RunIsInterval
<1>2. Cardinality(k .. (W - 1)) = W - k
  <2>1. k \in Int /\ W - 1 \in Int /\ (k > W - 1 => W - k = 0)
    BY <1>0
  <2>2. Cardinality(k .. (W - 1)) = IF k > W - 1 THEN 0 ELSE (W - 1) - k + 1
    BY <2>1, FS_Interval
  <2> QED
    BY <1>0, <2>1, <2>2
<1>3. LeadingOnes(w) = W - k
  BY <1>1, <1>2 DEF LeadingOnes, Run
<1>4. MaskFromPrefix(W - k) = k .. (W - 1)
  BY <1>0 DEF MaskFromPrefix, Bits
<1> QED
  BY <1>0, <1>1, <1>3, <1>4

LEMMA RunFacts ==
  ASSUME NEW w \in Word
  PROVE  /\ Run(w) \in Word
         /\ Run(w) \subseteq w
         /\ Run(w) \cup SubOne(Run(w)) = Bits
         /\ w \cup SubOne(w) = Bits <=> Run(w) = w
         /\ \A v \in Word : v \cup SubOne(v) = Bits /\ v \subseteq w => v \subseteq Run(w)
<1>0. W \in Nat /\ W # 0 /\ \A i \in Bits : i \in Int /\ 0 <= i /\ i < W
  BY WAssumption DEF Bits
<1>1. Run(w) \in Word
  BY DEF Run, Word
<1>2. ASSUME NEW i \in Run(w) PROVE i \in w
  <2>1. i \in Bits /\ i \in i .. (W - 1)
    BY <1>0, <1>2 DEF Run
  <2> QED
    BY <1>2, <2>1 DEF Run
<1>3. Run(w) \cup SubOne(Run(w)) = Bits
  <2>1. ASSUME NEW i \in Bits \ Run(w), NEW j \in Run(w), j < i PROVE FALSE
    <3>1. i .. (W - 1) \subseteq j .. (W - 1)
      BY <1>0, <2>1 DEF Run
    <3> QED
      BY <2>1, <3>1 DEF Run
  <2> QED
    BY <1>1, <2>1, ContiguousIsUpward
<1>4. ASSUME NEW v \in Word, v \cup SubOne(v) = Bits, v \subseteq w PROVE v \subseteq Run(w)
  <2>1. \A i \in Bits \ v : \A j \in v : ~(j < i)
    BY <1>4, ContiguousIsUpward
  <2>2. ASSUME NEW j \in v PROVE j .. (W - 1) \subseteq v
    <3>1. j \in Bits
      BY <2>2 DEF Word
    <3>2. ASSUME NEW i \in j .. (W - 1), i \notin v PROVE FALSE
      <4>1. i \in Bits /\ j < i
        BY <1>0, <2>2, <3>1, <3>2 DEF Bits
      <4> QED
        BY <2>1, <2>2, <3>2, <4>1
    <3> QED
      BY <3>2
  <2> QED
    BY <1>4, <2>2 DEF Run, Word
<1>5. w \cup SubOne(w) = Bits <=> Run(w) = w
  BY <1>2, <1>3, <1>4
<1> QED
  BY <1>1, <1>2, <1>3, <1>4, <1>5

(* Every length in range is read back from its mask.                       *)
LEMMA PrefixMask ==
  ASSUME NEW p \in 0 .. W
  PROVE  /\ MaskFromPrefix(p) \in Word
         /\ Run(MaskFromPrefix(p)) = MaskFromPrefix(p)
         /\ LeadingOnes(MaskFromPrefix(p)) = p
<1> DEFINE w == MaskFromPrefix(p)
<1>0. W \in Nat /\ W # 0 /\ p \in Int /\ 0 <= p /\ p <= W
  BY WAssumption
<1>1. w = (W - p) .. (W - 1)
  BY <1>0 DEF MaskFromPrefix, Bits
<1>2. w \in Word
  BY DEF MaskFromPrefix, Word
<1>3. ASSUME NEW i \in w PROVE i \in Run(w)
  <2>1. i \in Bits /\ i .. (W - 1) \subseteq (W - p) .. (W - 1)
    BY <1>0, <1>1, <1>3 DEF Bits
  <2> QED
    BY <1>1, <2>1 DEF Run
<1>4. Run(w) = w
  BY <1>2, <1>3, RunFacts
<1>5. MaskFromPrefix(LeadingOnes(w)) = MaskFromPrefix(p) /\ LeadingOnes(w) \in 0 .. W
  BY <1>2, <1>4, LeadingRun
<1>6. ASSUME NEW a \in 0 .. W, NEW b \in 0 .. W, a < b
      PROVE  MaskFromPrefix(a) # MaskFromPrefix(b)
  <2>1. W - b \in Bits /\ W - b >= W - b /\ ~(W - b >= W - a)
    BY <1>0, <1>6 DEF Bits
  <2> QED
    BY <2>1 DEF MaskFromPrefix
<1>7. LeadingOnes(w) = p
  BY <1>0, <1>5, <1>6
<1> QED
  BY <1>2, <1>4, <1>7
-----------------------------------------------------------------------------
(* What the operations return                                              *)

(* Every kernel returns at most one network, normalized, whether or not it *)
(* masks its result.                                                       *)
LEMMA ResultsAreNetworks ==
  ASSUME NEW m \in Network, NEW o \in Network
  PROVE  /\ Intersection(m, o) \subseteq Network /\ AtMostOne(Intersection(m, o))
         /\ Merge(m, o) \subseteq Network /\ AtMostOne(Merge(m, o))
         /\ MergeByLowestMaskBit(m, o) \subseteq Network
         /\ AtMostOne(MergeByLowestMaskBit(m, o))
BY IntersectionIsExact, IntersectionAtMostOne, MergeIsUnion, MergeAtMostOne, LowestMerge

LEMMA CoversAreNetworks ==
  ASSUME NEW m \in Network
  PROVE  /\ Supernet(m) \subseteq Network /\ AtMostOne(Supernet(m))
         /\ \A nets : SupernetFor(m, nets) \in Network
         /\ ToContiguous(m) \in Network
         /\ LastAddr(m) \in Word
         /\ \A x \in Word : \A p : FromCIDR(x, p) \subseteq Network /\ AtMostOne(FromCIDR(x, p))
<1>1. m.addr \in Word /\ m.mask \in Word
  BY NetworkFields
<1>2. ClearLowestSetBit(m.mask) \in Word /\ \A p : MaskFromPrefix(p) \in Word
  BY <1>1 DEF ClearLowestSetBit, MaskFromPrefix, Word
<1>3. Supernet(m) \subseteq Network /\ AtMostOne(Supernet(m))
  BY <1>1, <1>2, FromBitsInNetwork DEF Supernet, Only, AtMostOne
<1>4. ASSUME NEW nets PROVE SupernetFor(m, nets) \in Network
  <2>1. {i \in m.mask : \A n \in nets : i \in SupernetMask(n, m.addr, m.mask)} \in Word
    BY <1>1 DEF Word
  <2> QED
    BY <1>1, <2>1, FromBitsInNetwork DEF SupernetFor
<1>5. ToContiguous(m) \in Network
  BY <1>1, <1>2, FromBitsInNetwork DEF ToContiguous
<1>6. LastAddr(m) \in Word
  BY <1>1 DEF LastAddr, Not, Word
<1>7. ASSUME NEW x \in Word, NEW p
      PROVE  FromCIDR(x, p) \subseteq Network /\ AtMostOne(FromCIDR(x, p))
  BY <1>2, <1>7, FromBitsInNetwork DEF FromCIDR, Only, AtMostOne
<1> QED
  BY <1>3, <1>4, <1>5, <1>6, <1>7

(* The two merges of any two networks.                                     *)
LEMMA MergesAreExact ==
  ASSUME NEW m \in Network, NEW o \in Network
  PROVE  /\ Merge(m, o) = {n \in Network : Addrs(n) = Addrs(m) \cup Addrs(o)}
         /\ IsAdjacent(m, o) <=> (IsDisjoint(m, o) /\ Merge(m, o) # {})
         /\ MergeByLowestMaskBit(m, o) \subseteq Merge(m, o)
         /\ IsContiguous(m) /\ IsContiguous(o) =>
              MergeByLowestMaskBit(m, o) = {n \in Merge(m, o) : IsContiguous(n)}
         /\ IsAdjacentByLowestMaskBit(m, o) => IsAdjacent(m, o)
<1>1. \A u \in Merge(m, o) : u \in Network /\ Addrs(u) = Addrs(m) \cup Addrs(o)
  BY MergeIsUnion
<1>2. ASSUME NEW n \in Network, Addrs(n) = Addrs(m) \cup Addrs(o)
      PROVE  n \in Merge(m, o)
  <2>1. PICK u \in Merge(m, o) : TRUE
    BY <1>2, MergeIsComplete
  <2>2. n = u
    BY <1>1, <1>2, <2>1, AddrsInjective
  <2> QED
    BY <2>1, <2>2
<1>3. ASSUME IsContiguous(m), IsContiguous(o), NEW u \in MergeByLowestMaskBit(m, o)
      PROVE  IsContiguous(u)
  <2>1. CASE u = m \/ u = o
    BY <1>3, <2>1
  <2>2. CASE u # m /\ u # o
    <3>1. /\ m # o /\ m.mask = o.mask /\ IsAdjacentByLowestMaskBit(m, o)
          /\ u = [addr |-> m.addr \cap o.addr, mask |-> ClearLowestSetBit(m.mask)]
      BY <1>3, <2>2 DEF MergeByLowestMaskBit, Only
    <3>2. /\ m.mask \in Word /\ m.mask \cup SubOne(m.mask) = Bits
          /\ m.mask # {} /\ m.mask \subseteq Nat
      BY <1>3, <3>1, NetworkFields, WAssumption
      DEF IsContiguous, IsAdjacentByLowestMaskBit, Word, Bits
    <3>3. PICK b \in m.mask : \A j \in m.mask : b <= j
      BY <3>2, LeastNatural
    <3>4. ClearLowestSetBit(m.mask) = m.mask \ {b}
      <4>1. ClearLowestSetBit(m.mask) = {i \in m.mask : \E j \in m.mask : j < i}
        BY <3>2, ClearLowestIsNotLowest
      <4> QED
        BY <3>2, <3>3, <4>1
    <3> QED
      BY <3>1, <3>2, <3>3, <3>4, LowestKeepsContiguous DEF IsContiguous
  <2> QED
    BY <2>1, <2>2
<1> QED
  BY <1>1, <1>2, <1>3, LowestMerge, LowestMergeOfBlocks, AdjacentIsDisjointMerge,
     AdjacentByLowest

(* Parts of a difference are masked.                                       *)
LEMMA PartsAreNetworks ==
  ASSUME NEW m \in Network, NEW o \in Network
  PROVE  DifferenceParts(m, o) \subseteq Network
<1>1. /\ m.addr \in Word /\ m.mask \in Word /\ o.addr \in Word
      /\ Pending(m, o) \in Word
  BY NetworkFields DEF Pending, Word
<1>2. ASSUME NEW b \in Pending(m, o)
      PROVE  Part(m.addr \cup o.addr, {b}, m.mask \cup {j \in Pending(m, o) : j >= b}) \in Network
  <2>1. /\ Xor(m.addr \cup o.addr, {b}) \in Word
        /\ m.mask \cup {j \in Pending(m, o) : j >= b} \in Word
    BY <1>1 DEF Xor, Word
  <2> QED
    BY <2>1 DEF Part, Network, Pair, Word
<1> QED
  BY <1>2 DEF DifferenceParts

(* The operations of the wrapper stay among CIDR blocks.                   *)
LEMMA BlocksStayBlocks ==
  ASSUME NEW m \in Network, NEW o \in Network, IsContiguous(m), IsContiguous(o)
  PROVE  /\ \A u \in Intersection(m, o) : IsContiguous(u)
         /\ \A u \in MergeByLowestMaskBit(m, o) : IsContiguous(u)
         /\ \A u \in Supernet(m) : IsContiguous(u)
<1>1. /\ m.mask \in Word /\ o.mask \in Word
      /\ m.mask \cup SubOne(m.mask) = Bits /\ o.mask \cup SubOne(o.mask) = Bits
      /\ m.addr \in Word
  BY NetworkFields DEF IsContiguous
<1>2. ASSUME NEW u \in Intersection(m, o) PROVE IsContiguous(u)
  <2>1. u.mask = m.mask \cup o.mask
    BY <1>2 DEF Intersection, Only
  <2>2. u.mask = m.mask \/ u.mask = o.mask
    BY <1>1, <2>1, ContiguousNest
  <2> QED
    BY <1>1, <2>2 DEF IsContiguous
<1>3. \A u \in MergeByLowestMaskBit(m, o) : IsContiguous(u)
  BY MergesAreExact
<1>4. ASSUME NEW u \in Supernet(m) PROVE IsContiguous(u)
  <2>1. m.mask # {} /\ u = FromBits(m.addr, ClearLowestSetBit(m.mask))
    BY <1>4 DEF Supernet, Only
  <2>2. m.mask \subseteq Nat
    BY <1>1, WAssumption DEF Word, Bits
  <2>3. PICK b \in m.mask : \A j \in m.mask : b <= j
    BY <2>1, <2>2, LeastNatural
  <2>4. ClearLowestSetBit(m.mask) = m.mask \ {b}
    <3>1. ClearLowestSetBit(m.mask) = {i \in m.mask : \E j \in m.mask : j < i}
      BY <1>1, ClearLowestIsNotLowest
    <3> QED
      BY <2>2, <2>3, <3>1
  <2>5. u.mask = m.mask \ {b}
    BY <2>1, <2>4 DEF FromBits
  <2> QED
    BY <1>1, <2>3, <2>5, LowestKeepsContiguous DEF IsContiguous
<1> QED
  BY <1>2, <1>3, <1>4

LEMMA ConstructedBlocks ==
  ASSUME NEW m \in Network, NEW x \in Word
  PROVE  /\ IsContiguous(ToContiguous(m)) /\ ToContiguous(m).mask = Run(m.mask)
         /\ IsContiguous(FromAddr(x)) /\ FromAddr(x) \in Network
         /\ \A p \in Int : \A u \in FromCIDR(x, p) : IsContiguous(u)
<1>1. m.mask \in Word /\ m.addr \in Word
  BY NetworkFields
<1>2. ToContiguous(m) = FromBits(m.addr, Run(m.mask))
  BY <1>1, LeadingRun DEF ToContiguous
<1>3. IsContiguous(ToContiguous(m)) /\ ToContiguous(m).mask = Run(m.mask)
  BY <1>1, <1>2, RunFacts DEF FromBits, IsContiguous
<1>4. IsContiguous(FromAddr(x)) /\ FromAddr(x) \in Network
  BY DEF FromAddr, IsContiguous, SubOne, Network, Pair, Word
<1>5. ASSUME NEW p \in Int, NEW u \in FromCIDR(x, p) PROVE IsContiguous(u)
  <2>1. p \in 0 .. W /\ u.mask = MaskFromPrefix(p)
    BY <1>5, WAssumption DEF FromCIDR, Only, FromBits
  <2> QED
    BY <2>1, PrefixMask, RunFacts DEF IsContiguous
<1> QED
  BY <1>3, <1>4, <1>5

-----------------------------------------------------------------------------
(* The network order and the CIDR blocks: the order is total, blocks nest  *)
(* or lie apart, a block sorts after those that contain it, and what lies  *)
(* apart from the last of two blocks in order lies apart from the first.   *)
(* The contiguous aggregation rests on these facts (aggregate.go:91).      *)

Blocks == {n \in Network : IsContiguous(n)}

-----------------------------------------------------------------------------
(* The order of words                                                      *)

LEMMA LtAsymmetric ==
  ASSUME NEW a \in Word, NEW b \in Word, Lt(a, b)
  PROVE  ~Lt(b, a) /\ a # b
<1>1. Bits \subseteq Int /\ a \subseteq Bits /\ b \subseteq Bits
  BY WAssumption DEF Bits, Word
<1>2. PICK i \in b \ a : \A j \in a \ b : j < i
  BY DEF Lt
<1>3. ASSUME NEW k \in a \ b, \A j \in b \ a : j < k PROVE FALSE
  <2>1. k < i /\ i < k /\ i \in Int /\ k \in Int
    BY <1>1, <1>2, <1>3
  <2> QED
    BY <2>1
<1> QED
  BY <1>2, <1>3 DEF Lt

LEMMA LtTotal ==
  ASSUME NEW a \in Word, NEW b \in Word, a # b
  PROVE  Lt(a, b) \/ Lt(b, a)
<1> DEFINE diff == (a \ b) \cup (b \ a)
<1>1. diff \subseteq 0 .. (W - 1) /\ W - 1 \in Nat /\ diff # {}
  BY WAssumption DEF Bits, Word
<1>2. PICK h \in diff : \A j \in diff : j <= h
  BY <1>1, GreatestNatural
<1>3. \A j \in diff : j # h => j < h
  BY <1>1, <1>2
<1>4. CASE h \in b \ a
  BY <1>3, <1>4 DEF Lt
<1>5. CASE h \in a \ b
  BY <1>3, <1>5 DEF Lt
<1> QED
  BY <1>4, <1>5

LEMMA LtTransitive ==
  ASSUME NEW a \in Word, NEW b \in Word, NEW c \in Word, Lt(a, b), Lt(b, c)
  PROVE  Lt(a, c)
<1>1. Bits \subseteq Int /\ a \subseteq Bits /\ b \subseteq Bits /\ c \subseteq Bits
  BY WAssumption DEF Bits, Word
<1>2. PICK i \in b \ a : \A j \in a \ b : j < i
  BY DEF Lt
<1>3. PICK k \in c \ b : \A j \in b \ c : j < k
  BY DEF Lt
<1>4. i \in Int /\ k \in Int /\ \A j \in a \cup b : j \in Int
  BY <1>1, <1>2, <1>3
<1>5. CASE i < k
  <2>1. k \in c \ a
    BY <1>2, <1>3, <1>4, <1>5
  <2>2. ASSUME NEW j \in a \ c PROVE j < k
    <3>1. CASE j \in b
      BY <1>3, <2>2, <3>1
    <3>2. CASE j \notin b
      <4>1. j < i /\ j \in Int
        BY <1>2, <1>4, <2>2, <3>2
      <4> QED
        BY <1>4, <1>5, <4>1
    <3> QED
      BY <3>1, <3>2
  <2> QED
    BY <2>1, <2>2 DEF Lt
<1>6. CASE k < i
  <2>1. i \in c \ a
    BY <1>2, <1>3, <1>4, <1>6
  <2>2. ASSUME NEW j \in a \ c PROVE j < i
    <3>1. CASE j \in b
      <4>1. j < k /\ j \in Int
        BY <1>3, <1>4, <2>2, <3>1
      <4> QED
        BY <1>4, <1>6, <4>1
    <3>2. CASE j \notin b
      BY <1>2, <2>2, <3>2
    <3> QED
      BY <3>1, <3>2
  <2> QED
    BY <2>1, <2>2 DEF Lt
<1>7. i # k
  BY <1>2, <1>3
<1> QED
  BY <1>4, <1>5, <1>6, <1>7

(* A word with more bits is the greater one.                               *)
LEMMA SubsetIsLess ==
  ASSUME NEW a \in Word, NEW b \in Word, a \subseteq b
  PROVE  a = b \/ Lt(a, b)
BY DEF Lt

-----------------------------------------------------------------------------
(* The order of networks (net4.go:486)                                     *)

LEMMA BeforeAsymmetric ==
  ASSUME NEW m \in Network, NEW o \in Network, Before(m, o)
  PROVE  ~Before(o, m) /\ m # o
<1>1. m.addr \in Word /\ m.mask \in Word /\ o.addr \in Word /\ o.mask \in Word
  BY NetworkFields
<1> QED
  BY <1>1, LtAsymmetric DEF Before

LEMMA BeforeTotal ==
  ASSUME NEW m \in Network, NEW o \in Network, m # o
  PROVE  Before(m, o) \/ Before(o, m)
<1>1. /\ m.addr \in Word /\ m.mask \in Word /\ o.addr \in Word /\ o.mask \in Word
      /\ m.addr # o.addr \/ m.mask # o.mask
  BY NetworkFields
<1> QED
  BY <1>1, LtTotal DEF Before

LEMMA BeforeTransitive ==
  ASSUME NEW m \in Network, NEW n \in Network, NEW o \in Network, Before(m, n), Before(n, o)
  PROVE  Before(m, o)
<1>1. /\ m.addr \in Word /\ m.mask \in Word /\ n.addr \in Word /\ n.mask \in Word
      /\ o.addr \in Word /\ o.mask \in Word
  BY NetworkFields
<1>2. CASE m.addr = n.addr /\ n.addr = o.addr
  BY <1>1, <1>2, LtTransitive, LtAsymmetric DEF Before
<1>3. CASE m.addr = n.addr /\ n.addr # o.addr
  BY <1>1, <1>3 DEF Before
<1>4. CASE m.addr # n.addr /\ n.addr = o.addr
  BY <1>1, <1>4 DEF Before
<1>5. CASE m.addr # n.addr /\ n.addr # o.addr
  BY <1>1, <1>5, LtTransitive DEF Before
<1> QED
  BY <1>2, <1>3, <1>4, <1>5

(* Not sorting before is transitive too.                                   *)
LEMMA NotBeforeTransitive ==
  ASSUME NEW m \in Network, NEW n \in Network, NEW o \in Network, ~Before(n, m), ~Before(o, n)
  PROVE  ~Before(o, m)
BY BeforeTotal, BeforeTransitive

(* Addresses ascend.                                                       *)
LEMMA NotBeforeAddr ==
  ASSUME NEW m \in Network, NEW o \in Network, ~Before(o, m)
  PROVE  Le(m.addr, o.addr)
<1>1. m.addr \in Word /\ o.addr \in Word
  BY NetworkFields
<1> QED
  BY <1>1, LtTotal DEF Before, Le

(* A network sorts before those it contains, whatever its shape.           *)
LEMMA ContainerFirst ==
  ASSUME NEW m \in Network, NEW o \in Network, Contains(m, o)
  PROVE  m = o \/ Before(m, o)
<1>1. /\ m.addr \in Word /\ m.mask \in Word /\ o.addr \in Word /\ o.mask \in Word
      /\ m = [addr |-> m.addr, mask |-> m.mask] /\ o = [addr |-> o.addr, mask |-> o.mask]
  BY NetworkFields
<1>2. m.addr \subseteq o.addr /\ m.mask \subseteq o.mask
  BY DEF Contains
<1> QED
  BY <1>1, <1>2, SubsetIsLess DEF Before

LEMMA ContainsAntisymmetric ==
  ASSUME NEW m \in Network, NEW o \in Network, Contains(m, o), Contains(o, m)
  PROVE  m = o
BY ContainsIsInclusion, AddrsInjective

-----------------------------------------------------------------------------
(* Blocks                                                                  *)

LEMMA BlockFields ==
  ASSUME NEW m \in Blocks
  PROVE  /\ m \in Network /\ IsContiguous(m)
         /\ m.addr \in Word /\ m.mask \in Word /\ m.addr \subseteq m.mask
         /\ m.mask \cup SubOne(m.mask) = Bits
         /\ \A i \in Bits \ m.mask : \A j \in m.mask : ~(j < i)
<1>1. m \in Network /\ IsContiguous(m) /\ m.mask \in Word /\ m.mask \cup SubOne(m.mask) = Bits
  BY NetworkFields DEF Blocks, IsContiguous
<1> QED
  BY <1>1, NetworkFields, ContiguousIsUpward

LEMMA Overlapping ==
  ASSUME NEW m \in Network, NEW o \in Network
  PROVE  /\ IsDisjoint(m, o) <=> Addrs(m) \cap Addrs(o) = {}
         /\ IsDisjoint(m, o) <=> m.addr \cap o.mask # o.addr \cap m.mask
         /\ IsDisjoint(m, o) <=> IsDisjoint(o, m)
<1>1. IsDisjoint(m, o) <=> Addrs(m) \cap Addrs(o) = {}
  BY IntersectionIsExact DEF IsDisjoint, Intersects
<1>2. IsDisjoint(m, o) <=> m.addr \cap o.mask # o.addr \cap m.mask
  BY DEF IsDisjoint, Intersects, Intersection, Only
<1>3. IsDisjoint(o, m) <=> o.addr \cap m.mask # m.addr \cap o.mask
  BY DEF IsDisjoint, Intersects, Intersection, Only
<1> QED
  BY <1>1, <1>2, <1>3

(* Two blocks lie apart or one contains the other.                         *)
LEMMA BlocksNest ==
  ASSUME NEW m \in Blocks, NEW o \in Blocks
  PROVE  IsDisjoint(m, o) \/ Contains(m, o) \/ Contains(o, m)
<1> SUFFICES ASSUME ~IsDisjoint(m, o) PROVE Contains(m, o) \/ Contains(o, m)
  OBVIOUS
<1>1. m.addr \cap o.mask = o.addr \cap m.mask
  BY BlockFields, Overlapping
<1>2. m.addr \subseteq m.mask /\ o.addr \subseteq o.mask
  BY BlockFields
<1>3. m.mask \subseteq o.mask \/ o.mask \subseteq m.mask
  BY BlockFields, ContiguousNest
<1>4. CASE m.mask \subseteq o.mask
  BY <1>1, <1>2, <1>4 DEF Contains
<1>5. CASE o.mask \subseteq m.mask
  BY <1>1, <1>2, <1>5 DEF Contains
<1> QED
  BY <1>3, <1>4, <1>5

(* The addresses of a block are an interval: between two words that agree  *)
(* on the mask, every word agrees with them there.                         *)
LEMMA BlockIsInterval ==
  ASSUME NEW w \in Word, w \cup SubOne(w) = Bits,
         NEW x \in Word, NEW y \in Word, NEW z \in Word,
         Le(x, y), Le(y, z), x \cap w = z \cap w
  PROVE  y \cap w = x \cap w
<1> SUFFICES ASSUME y \cap w # x \cap w PROVE FALSE
  OBVIOUS
<1> DEFINE diff == {i \in w : ~(i \in x <=> i \in y)}
<1>1. /\ Bits \subseteq Int /\ w \subseteq Bits /\ x \subseteq Bits /\ y \subseteq Bits
      /\ z \subseteq Bits /\ \A i \in Bits \ w : \A j \in w : ~(j < i)
  BY WAssumption, ContiguousIsUpward DEF Bits, Word
<1>2. diff \subseteq 0 .. (W - 1) /\ W - 1 \in Nat /\ diff # {}
  BY <1>1, WAssumption DEF Bits
<1>3. PICK h \in diff : \A j \in diff : j <= h
  BY <1>2, GreatestNatural
<1>4. h \in w /\ h \in Int
  BY <1>1, <1>3
<1>5. \A j \in Bits : h < j => j \in w /\ j \notin diff
  BY <1>1, <1>3, <1>4
<1>6. \A i \in w : i \in x <=> i \in z
  OBVIOUS
<1>7. CASE h \in y /\ h \notin x
  <2>1. PICK i \in z \ y : \A j \in y \ z : j < i
    BY <1>3, <1>4, <1>6, <1>7 DEF Le, Lt
  <2>2. h < i /\ i \in Bits
    BY <1>1, <1>4, <1>6, <1>7, <2>1
  <2> QED
    BY <1>5, <1>6, <2>1, <2>2
<1>8. CASE h \in x /\ h \notin y
  <2>1. PICK i \in y \ x : \A j \in x \ y : j < i
    BY <1>8 DEF Le, Lt
  <2>2. h < i /\ i \in Bits
    BY <1>1, <1>8, <2>1
  <2> QED
    BY <1>5, <2>1, <2>2
<1> QED
  BY <1>3, <1>7, <1>8

-----------------------------------------------------------------------------
(* Three blocks in order                                                   *)

(* What lies apart from the second lies apart from the third.              *)
LEMMA ApartFromLater ==
  ASSUME NEW a \in Blocks, NEW t \in Blocks, NEW c \in Blocks,
         Before(a, t), IsDisjoint(a, t), ~Before(c, t)
  PROVE  IsDisjoint(a, c)
<1>1. a \in Network /\ t \in Network /\ c \in Network
  BY BlockFields
<1>2. ~Contains(c, a)
  <2> SUFFICES ASSUME Contains(c, a) PROVE FALSE
    OBVIOUS
  <2>1. c = a \/ Before(c, a)
    BY <1>1, ContainerFirst
  <2>2. Before(c, t)
    BY <1>1, <2>1, BeforeTransitive
  <2> QED
    BY <2>2
<1>3. ~Contains(a, c)
  <2> SUFFICES ASSUME Contains(a, c) PROVE FALSE
    OBVIOUS
  <2>1. /\ a.mask \in Word /\ a.mask \cup SubOne(a.mask) = Bits
        /\ a.addr \in Word /\ t.addr \in Word /\ c.addr \in Word
        /\ a.addr \subseteq a.mask
    BY BlockFields
  <2>2. Le(a.addr, t.addr) /\ Le(t.addr, c.addr)
    BY <1>1, NotBeforeAddr DEF Before, Le
  <2>3. a.addr \cap a.mask = c.addr \cap a.mask
    BY <2>1 DEF Contains
  <2>4. t.addr \cap a.mask = a.addr
    BY <2>1, <2>2, <2>3, BlockIsInterval
  <2>5. t.addr \in Addrs(a) /\ t.addr \in Addrs(t)
    BY <1>1, <2>1, <2>4, AddrOfItself DEF Addrs
  <2> QED
    BY <1>1, <2>5, Overlapping
<1> QED
  BY <1>2, <1>3, BlocksNest

(* MergeByLowestMaskBit (net4.go:795) of two blocks: one contains the      *)
(* other, or they differ in the lowest masked bit alone.                   *)
LEMMA BlockMerges ==
  ASSUME NEW m \in Blocks, NEW o \in Blocks
  PROVE  /\ Contains(m, o) => MergeByLowestMaskBit(m, o) = {m}
         /\ Contains(o, m) => MergeByLowestMaskBit(m, o) = {o}
         /\ ~Contains(m, o) /\ ~Contains(o, m) =>
              \A u : u \in MergeByLowestMaskBit(m, o) <=>
                /\ m.mask = o.mask
                /\ \E b \in m.mask :
                     /\ \A j \in m.mask : b <= j
                     /\ Xor(m.addr, o.addr) = {b}
                     /\ u = [addr |-> m.addr \cap o.addr, mask |-> m.mask \ {b}]
<1>1. /\ m \in Network /\ o \in Network /\ m.mask \in Word
      /\ m.addr \subseteq m.mask /\ o.addr \subseteq o.mask
  BY BlockFields
<1>2. m.mask \subseteq Nat /\ \A j \in m.mask : j \in Int
  BY <1>1, WAssumption DEF Word, Bits
<1>3. ASSUME Contains(m, o) PROVE MergeByLowestMaskBit(m, o) = {m}
  <2>1. m.mask = o.mask => m = o
    <3>1. m.mask = o.mask => m.addr = o.addr
      BY <1>1, <1>3 DEF Contains
    <3> QED
      BY <1>1, <3>1, NetworkFields
  <2> QED
    BY <1>3, <2>1 DEF MergeByLowestMaskBit
<1>4. ASSUME Contains(o, m) PROVE MergeByLowestMaskBit(m, o) = {o}
  <2>1. m.mask = o.mask => m = o
    <3>1. m.mask = o.mask => m.addr = o.addr
      BY <1>1, <1>4 DEF Contains
    <3> QED
      BY <1>1, <3>1, NetworkFields
  <2>2. Contains(m, o) => m = o
    BY <1>1, <1>4, ContainsAntisymmetric
  <2> QED
    BY <1>4, <2>1, <2>2 DEF MergeByLowestMaskBit, Only
<1>5. ASSUME ~Contains(m, o), ~Contains(o, m), NEW u
      PROVE  u \in MergeByLowestMaskBit(m, o) <=>
                /\ m.mask = o.mask
                /\ \E b \in m.mask :
                     /\ \A j \in m.mask : b <= j
                     /\ Xor(m.addr, o.addr) = {b}
                     /\ u = [addr |-> m.addr \cap o.addr, mask |-> m.mask \ {b}]
  <2>1. m # o
    BY <1>1, <1>5, ContainsIsInclusion
  <2>2. u \in MergeByLowestMaskBit(m, o) <=>
          /\ IsAdjacentByLowestMaskBit(m, o)
          /\ u = [addr |-> m.addr \cap o.addr, mask |-> ClearLowestSetBit(m.mask)]
    BY <1>5, <2>1 DEF MergeByLowestMaskBit, Only, IsAdjacentByLowestMaskBit
  <2>3. CASE m.mask = {}
    BY <2>2, <2>3 DEF IsAdjacentByLowestMaskBit
  <2>4. CASE m.mask # {}
    <3>1. PICK b \in m.mask : \A j \in m.mask : b <= j
      BY <1>2, <2>4, LeastNatural
    <3>2. \A j \in m.mask : j <= b => j = b
      BY <1>2, <3>1
    <3>3. LowestSetBit(m.mask) = {b}
      BY <1>2, <3>1, <3>2 DEF LowestSetBit
    <3>4. \A j \in m.mask : (\E k \in m.mask : k < j) <=> j # b
      BY <1>2, <3>1, <3>2
    <3>5. ClearLowestSetBit(m.mask) = m.mask \ {b}
      BY <1>1, <3>4, ClearLowestIsNotLowest
    <3>6. \A c \in m.mask : (\A j \in m.mask : c <= j) => c = b
      BY <3>1, <3>2
    <3> QED
      BY <2>2, <2>4, <3>1, <3>3, <3>5, <3>6 DEF IsAdjacentByLowestMaskBit
  <2> QED
    BY <2>3, <2>4
<1> QED
  BY <1>3, <1>4, <1>5

LEMMA LowestMergeTurns ==
  ASSUME NEW m \in Blocks, NEW o \in Blocks, MergeByLowestMaskBit(m, o) # {}
  PROVE  MergeByLowestMaskBit(o, m) # {}
<1>1. CASE Contains(m, o) \/ Contains(o, m)
  BY <1>1, BlockMerges
<1>2. CASE ~Contains(m, o) /\ ~Contains(o, m)
  <2>1. PICK u : u \in MergeByLowestMaskBit(m, o)
    OBVIOUS
  <2>2. /\ m.mask = o.mask
        /\ \E b \in m.mask :
             /\ \A j \in m.mask : b <= j
             /\ Xor(m.addr, o.addr) = {b}
             /\ u = [addr |-> m.addr \cap o.addr, mask |-> m.mask \ {b}]
    BY <1>2, <2>1, BlockMerges
  <2>3. PICK b \in m.mask : (\A j \in m.mask : b <= j) /\ Xor(m.addr, o.addr) = {b}
    BY <2>2
  <2>4. Xor(o.addr, m.addr) = {b} /\ b \in o.mask /\ \A j \in o.mask : b <= j
    BY <2>2, <2>3 DEF Xor
  <2>5. [addr |-> o.addr \cap m.addr, mask |-> o.mask \ {b}] \in MergeByLowestMaskBit(o, m)
    BY <1>2, <2>2, <2>4, BlockMerges
  <2> QED
    BY <2>5
<1> QED
  BY <1>1, <1>2

LEMMA LowestMergeSymmetric ==
  ASSUME NEW m \in Blocks, NEW o \in Blocks
  PROVE  MergeByLowestMaskBit(m, o) = {} <=> MergeByLowestMaskBit(o, m) = {}
BY LowestMergeTurns

(* So what neither meets nor merges with the second neither meets nor      *)
(* merges with the third: a sibling of the first is the second itself or   *)
(* inside it.                                                              *)
LEMMA UnmergedWithLater ==
  ASSUME NEW a \in Blocks, NEW t \in Blocks, NEW c \in Blocks,
         Before(a, t), IsDisjoint(a, t), ~Before(c, t), MergeByLowestMaskBit(a, t) = {}
  PROVE  MergeByLowestMaskBit(a, c) = {}
<1> SUFFICES ASSUME NEW u \in MergeByLowestMaskBit(a, c) PROVE FALSE
  OBVIOUS
<1>1. /\ a \in Network /\ t \in Network /\ c \in Network
      /\ a.addr \in Word /\ t.addr \in Word /\ c.addr \in Word
      /\ a.mask \in Word /\ t.mask \in Word
      /\ a.addr \subseteq a.mask /\ t.addr \subseteq t.mask /\ c.addr \subseteq c.mask
      /\ a.mask \cup SubOne(a.mask) = Bits /\ t.mask \cup SubOne(t.mask) = Bits
      /\ \A i \in Bits \ t.mask : \A j \in t.mask : ~(j < i)
  BY BlockFields
<1>2. IsDisjoint(a, c) /\ IsDisjoint(a, t)
  BY ApartFromLater
<1>3. ASSUME NEW m \in Blocks, NEW o \in Blocks, IsDisjoint(m, o)
      PROVE  ~Contains(m, o) /\ ~Contains(o, m)
  <2>1. m \in Network /\ o \in Network
    BY BlockFields
  <2> QED
    BY <1>3, <2>1, AddrOfItself, ContainsIsInclusion, Overlapping
<1>4. PICK b \in a.mask :
        /\ a.mask = c.mask
        /\ \A j \in a.mask : b <= j
        /\ Xor(a.addr, c.addr) = {b}
  BY <1>2, <1>3, BlockMerges
<1> DEFINE w == a.mask
           v == a.mask \ {b}
<1>5. v \in Word /\ v \cup SubOne(v) = Bits
  BY <1>1, <1>4, LowestKeepsContiguous
<1>6. a.addr \cap v = c.addr \cap v /\ (b \in a.addr <=> b \notin c.addr)
  BY <1>4 DEF Xor
<1>7. Le(a.addr, t.addr) /\ Le(t.addr, c.addr)
  BY <1>1, NotBeforeAddr DEF Before, Le
<1>8. t.addr \cap v = a.addr \cap v
  BY <1>1, <1>5, <1>6, <1>7, BlockIsInterval
<1>9. t.addr \cap w = c.addr
  <2>1. t.addr \cap w # a.addr
    <3>1. t.addr \cap w = a.addr => t.addr \in Addrs(a) /\ t.addr \in Addrs(t)
      BY <1>1, AddrOfItself DEF Addrs
    <3> QED
      BY <1>1, <1>2, <3>1, Overlapping
  <2>2. ~(b \in t.addr <=> b \in a.addr)
    BY <1>1, <1>8, <2>1
  <2> QED
    BY <1>1, <1>4, <1>6, <1>8, <2>2
<1>10. t.addr = c.addr
  <2>1. c.addr \subseteq t.addr
    BY <1>9
  <2>2. c.addr = t.addr \/ Lt(c.addr, t.addr)
    BY <1>1, <2>1, SubsetIsLess
  <2> QED
    BY <1>1, <1>7, <2>2, LtAsymmetric DEF Le
<1>11. t.mask \subseteq w
  <2>1. Le(t.mask, c.mask)
    BY <1>1, <1>4, <1>10, LtTotal DEF Before, Le
  <2> QED
    BY <1>1, <1>4, <2>1, ContiguousOrder
<1>12. CASE t.mask = w
  <2>1. t = c
    BY <1>1, <1>4, <1>10, <1>12, NetworkFields
  <2> QED
    BY <2>1
<1>13. CASE t.mask # w
  <2>1. b \notin t.mask
    <3> SUFFICES ASSUME b \in t.mask, NEW i \in w, i \notin t.mask PROVE FALSE
      BY <1>11, <1>13
    <3>1. i \in Bits \ t.mask /\ b \in Int /\ i \in Int
      BY <1>1, WAssumption DEF Word, Bits
    <3>2. ~(b < i) /\ b <= i
      BY <1>1, <1>4, <3>1
    <3>3. b = i
      BY <3>1, <3>2
    <3> QED
      BY <3>3
  <2>2. t.mask \subseteq v
    BY <1>11, <2>1
  <2>3. a.addr \cap t.mask = t.addr \cap a.mask
    BY <1>1, <1>8, <1>9, <1>10, <1>11, <2>2
  <2> QED
    BY <1>1, <1>2, <2>3, Overlapping
<1> QED
  BY <1>12, <1>13

-----------------------------------------------------------------------------
(* One merge of the cascade                                                *)

(* A merge of two blocks in order starts where the first does and sorts    *)
(* no later: it is the first or the block above both.                      *)
LEMMA MergeStartsAtFirst ==
  ASSUME NEW t \in Blocks, NEW c \in Blocks, ~Before(c, t),
         NEW u \in MergeByLowestMaskBit(t, c)
  PROVE  /\ u \in Blocks /\ Addrs(u) = Addrs(t) \cup Addrs(c)
         /\ u.addr = t.addr /\ (u = t \/ Before(u, t))
<1>1. /\ t \in Network /\ c \in Network /\ IsContiguous(t) /\ IsContiguous(c)
      /\ t.addr \in Word /\ c.addr \in Word /\ t.mask \in Word
      /\ t.addr \subseteq t.mask /\ c.addr \subseteq c.mask
  BY BlockFields
<1>2. u \in Network /\ Addrs(u) = Addrs(t) \cup Addrs(c)
  BY <1>1, LowestMerge, MergeIsUnion
<1>3. u \in Blocks
  BY <1>1, <1>2, BlocksStayBlocks DEF Blocks
<1>4. u.addr = t.addr
  <2>1. CASE Contains(t, c)
    BY <2>1, BlockMerges
  <2>2. CASE Contains(c, t)
    <3>1. u = c /\ (c = t \/ Before(c, t))
      BY <1>1, <2>2, BlockMerges, ContainerFirst
    <3> QED
      BY <3>1
  <2>3. CASE ~Contains(t, c) /\ ~Contains(c, t)
    <3>1. PICK b \in t.mask :
            /\ Xor(t.addr, c.addr) = {b}
            /\ u = [addr |-> t.addr \cap c.addr, mask |-> t.mask \ {b}]
      BY <2>3, BlockMerges
    <3>2. t.addr \subseteq c.addr \/ c.addr \subseteq t.addr
      BY <3>1 DEF Xor
    <3>3. ASSUME c.addr \subseteq t.addr PROVE t.addr \subseteq c.addr
      <4>1. c.addr = t.addr \/ Lt(c.addr, t.addr)
        BY <1>1, <3>3, SubsetIsLess
      <4> QED
        BY <4>1 DEF Before
    <3> QED
      BY <3>1, <3>2, <3>3
  <2> QED
    BY <2>1, <2>2, <2>3
<1>5. u = t \/ Before(u, t)
  <2>1. Contains(u, t)
    BY <1>1, <1>2, ContainsIsInclusion
  <2> QED
    BY <1>1, <1>2, <2>1, ContainerFirst
<1> QED
  BY <1>2, <1>3, <1>4, <1>5

(* What starts where the second block does sorts after a first block that  *)
(* lies apart from it.                                                     *)
LEMMA StartsAfter ==
  ASSUME NEW a \in Blocks, NEW t \in Blocks, NEW u \in Blocks,
         Before(a, t), IsDisjoint(a, t), u.addr = t.addr
  PROVE  Before(a, u) /\ ~Before(u, a)
<1>1. a \in Network /\ t \in Network /\ u \in Network
  BY BlockFields
<1>2. a.addr # t.addr
  BY <1>1, AddrOfItself, Overlapping DEF Addrs
<1>3. Before(a, u)
  BY <1>2 DEF Before
<1> QED
  BY <1>1, <1>3, BeforeAsymmetric

(* Two blocks in order that do not merge lie apart.                        *)
LEMMA UnmergedApart ==
  ASSUME NEW t \in Blocks, NEW c \in Blocks, ~Before(c, t), MergeByLowestMaskBit(t, c) = {}
  PROVE  IsDisjoint(t, c) /\ Before(t, c)
<1>1. t \in Network /\ c \in Network
  BY BlockFields
<1>2. ~Contains(t, c) /\ ~Contains(c, t)
  BY BlockMerges
<1>3. t # c
  BY <1>1, <1>2, ContainsIsInclusion
<1> QED
  BY <1>1, <1>2, <1>3, BlocksNest, BeforeTotal

-----------------------------------------------------------------------------
(* Minimal covers                                                          *)

(* Blocks that lie apart and do not merge with one another.                *)
Irreducible(K) ==
  \A k, l \in K : k # l => IsDisjoint(k, l) /\ MergeByLowestMaskBit(k, l) = {}

LEMMA LongestMask ==
  ASSUME NEW K, K \subseteq Blocks, K # {}
  PROVE  \E k \in K : \A l \in K : l.mask \subseteq k.mask
<1> DEFINE lengths == {LeadingOnes(k.mask) : k \in K}
<1>1. \A k \in K : /\ LeadingOnes(k.mask) \in 0 .. W
                   /\ k.mask = MaskFromPrefix(LeadingOnes(k.mask))
  BY BlockFields, LeadingRun, RunFacts
<1>2. W \in Nat /\ lengths \subseteq 0 .. W /\ lengths # {}
  BY <1>1, WAssumption
<1>3. PICK p \in lengths : \A q \in lengths : q <= p
  BY <1>2, GreatestNatural
<1>4. PICK k \in K : p = LeadingOnes(k.mask)
  BY <1>3
<1>5. ASSUME NEW l \in K PROVE l.mask \subseteq k.mask
  <2>1. LeadingOnes(l.mask) <= p /\ LeadingOnes(l.mask) \in Int /\ p \in Int
    BY <1>1, <1>2, <1>3
  <2>2. \A i \in Bits : i \in Int
    BY WAssumption DEF Bits
  <2>3. MaskFromPrefix(LeadingOnes(l.mask)) \subseteq MaskFromPrefix(p)
    BY <1>2, <2>1, <2>2 DEF MaskFromPrefix
  <2> QED
    BY <1>1, <1>4, <2>3
<1> QED
  BY <1>5

(* A block inside the union of an irreducible set is inside one of it:     *)
(* otherwise a smallest member inside the block would have its sibling     *)
(* covered, by the sibling itself or by a block that meets the member.     *)
LEMMA CoveredByOne ==
  ASSUME NEW K, K \subseteq Blocks, Irreducible(K), NEW n \in Blocks,
         Addrs(n) \subseteq UNION {Addrs(k) : k \in K}
  PROVE  \E k \in K : Contains(k, n)
<1> SUFFICES ASSUME \A k \in K : ~Contains(k, n) PROVE FALSE
  OBVIOUS
<1> DEFINE inner == {k \in K : Contains(n, k)}
<1>1. /\ n \in Network /\ n.addr \in Word /\ n.mask \in Word /\ n.addr \subseteq n.mask
      /\ \A i \in Bits \ n.mask : \A j \in n.mask : ~(j < i)
  BY BlockFields
<1>2. ASSUME NEW x \in Addrs(n) PROVE \E k \in inner : x \in Addrs(k)
  <2>1. PICK k \in K : x \in Addrs(k)
    BY <1>2
  <2>2. ~IsDisjoint(n, k)
    BY <1>1, <1>2, <2>1, Overlapping DEF Blocks
  <2>3. Contains(n, k)
    BY <2>2, BlocksNest
  <2> QED
    BY <2>1, <2>3
<1>3. inner # {} /\ inner \subseteq Blocks
  BY <1>1, <1>2, AddrOfItself
<1>4. PICK k \in inner : \A l \in inner : l.mask \subseteq k.mask
  BY <1>3, LongestMask
<1>5. /\ k \in Blocks /\ k \in Network /\ k.addr \in Word /\ k.mask \in Word
      /\ k.addr \subseteq k.mask /\ k \in K
      /\ k.addr \cap n.mask = n.addr /\ n.mask \subseteq k.mask
  BY <1>4, BlockFields DEF Contains
<1>6. n.mask # k.mask
  <2>1. n.mask = k.mask => Contains(k, n)
    BY <1>1, <1>5 DEF Contains
  <2> QED
    BY <1>5, <2>1
<1>7. k.mask \subseteq Nat /\ k.mask # {} /\ \A i \in Bits : i \in Int
  <2>1. Bits \subseteq Nat /\ \A i \in Bits : i \in Int
    BY WAssumption DEF Bits
  <2>2. k.mask \subseteq Bits
    BY <1>5 DEF Word
  <2> QED
    BY <1>5, <1>6, <2>1, <2>2
<1>8. PICK b \in k.mask : \A j \in k.mask : b <= j
  BY <1>7, LeastNatural
<1>9. ASSUME NEW l \in Blocks, l.mask \subseteq k.mask, l.mask # k.mask PROVE b \notin l.mask
  <2> SUFFICES ASSUME b \in l.mask, NEW i \in k.mask, i \notin l.mask PROVE FALSE
    BY <1>9
  <2>1. i \in Bits \ l.mask /\ b \in Int /\ i \in Int
    BY <1>5, <1>7 DEF Word
  <2>2. ~(b < i) /\ b <= i
    BY <1>8, <1>9, <2>1, BlockFields
  <2>3. b = i
    BY <2>1, <2>2
  <2> QED
    BY <2>3
<1> DEFINE s == [addr |-> Xor(k.addr, {b}), mask |-> k.mask]
<1>10. /\ s \in Blocks /\ s \in Network /\ s.addr = Xor(k.addr, {b}) /\ s.mask = k.mask
       /\ s.addr \in Word /\ s.addr \subseteq s.mask
  <2>1. Xor(k.addr, {b}) \in Word /\ Xor(k.addr, {b}) \subseteq k.mask
    BY <1>5, <1>8 DEF Xor, Word
  <2>2. s \in Network /\ s.addr = Xor(k.addr, {b}) /\ s.mask = k.mask
    BY <1>5, <2>1, NetworkMake
  <2>3. IsContiguous(k)
    BY <1>5, BlockFields
  <2>4. s \in Blocks
    BY <2>2, <2>3 DEF Blocks, IsContiguous
  <2> QED
    BY <2>1, <2>2, <2>4
<1>11. s.addr \in Addrs(n)
  <2>1. b \notin n.mask
    BY <1>5, <1>6, <1>9
  <2>2. s.addr \cap n.mask = n.addr
    BY <1>5, <1>10, <2>1 DEF Xor
  <2> QED
    BY <1>10, <2>2 DEF Addrs
<1>12. PICK l \in inner : s.addr \in Addrs(l)
  BY <1>2, <1>11
<1>13. /\ l \in Blocks /\ l \in Network /\ l \in K /\ l.mask \subseteq k.mask
       /\ s.addr \cap l.mask = l.addr
  BY <1>3, <1>4, <1>12, BlockFields DEF Addrs
<1>14. CASE l.mask = k.mask
  <2>1. l.addr = s.addr
    BY <1>10, <1>13, <1>14
  <2>2. ~(b \in k.addr <=> b \in l.addr) /\ Xor(k.addr, l.addr) = {b}
    BY <1>10, <2>1 DEF Xor
  <2>3. k # l /\ IsDisjoint(k, l)
    BY <1>5, <1>13, <2>2 DEF Irreducible
  <2>4. ~Contains(k, l) /\ ~Contains(l, k)
    BY <1>5, <1>13, <2>3, AddrOfItself, ContainsIsInclusion, Overlapping
  <2>5. [addr |-> k.addr \cap l.addr, mask |-> k.mask \ {b}] \in MergeByLowestMaskBit(k, l)
    BY <1>5, <1>8, <1>13, <1>14, <2>2, <2>4, BlockMerges
  <2> QED
    BY <1>5, <1>13, <2>3, <2>5 DEF Irreducible
<1>15. CASE l.mask # k.mask
  <2>1. b \notin l.mask
    BY <1>9, <1>13, <1>15
  <2>2. k.addr \cap l.mask = l.addr
    BY <1>10, <1>13, <2>1 DEF Xor
  <2>3. k.addr \in Addrs(l) /\ k.addr \in Addrs(k)
    BY <1>5, <2>2, AddrOfItself DEF Addrs
  <2> QED
    BY <1>5, <1>13, <1>15, <2>3, Overlapping DEF Irreducible
<1> QED
  BY <1>14, <1>15

(* So an irreducible set is the set of the maximal blocks in its union,    *)
(* and no other set of blocks with these addresses is irreducible.         *)
THEOREM MaximalBlocks ==
  ASSUME NEW K, K \subseteq Blocks, Irreducible(K)
  PROVE  LET covered == UNION {Addrs(k) : k \in K}
             inside  == {n \in Blocks : Addrs(n) \subseteq covered}
         IN  K = {n \in inside : \A x \in inside : Contains(x, n) => x = n}
<1> DEFINE covered == UNION {Addrs(k) : k \in K}
           inside == {n \in Blocks : Addrs(n) \subseteq covered}
<1>1. K \subseteq inside /\ \A n \in Blocks : n \in Network
  BY DEF Blocks
<1>2. ASSUME NEW k \in K, NEW x \in inside, Contains(x, k) PROVE x = k
  <2>1. PICK l \in K : Contains(l, x)
    BY CoveredByOne
  <2>2. Addrs(k) \subseteq Addrs(x) /\ Addrs(x) \subseteq Addrs(l)
    BY <1>1, <1>2, <2>1, ContainsIsInclusion
  <2>3. k = l
    <3>1. k.addr \in Addrs(k) /\ k.addr \in Addrs(l)
      BY <1>1, <2>2, AddrOfItself
    <3> QED
      BY <1>1, <3>1, Overlapping DEF Irreducible
  <2> QED
    BY <1>1, <1>2, <2>1, <2>3, ContainsAntisymmetric
<1>3. ASSUME NEW n \in inside, \A x \in inside : Contains(x, n) => x = n PROVE n \in K
  <2>1. PICK k \in K : Contains(k, n)
    BY CoveredByOne
  <2> QED
    BY <1>1, <1>3, <2>1
<1>4. K = {n \in inside : \A x \in inside : Contains(x, n) => x = n}
  BY <1>1, <1>2, <1>3
<1> QED
  BY <1>4

(* Bit by bit: two networks overlap exactly when they agree on the bits    *)
(* both fix.                                                               *)
LEMMA Overlap ==
  ASSUME NEW n \in Network, NEW o \in Network
  PROVE  /\ IsDisjoint(n, o) <=> Addrs(n) \cap Addrs(o) = {}
         /\ Intersects(n, o) <=> n.addr \cap o.mask = o.addr \cap n.mask
BY IntersectionIsExact DEF IsDisjoint, Intersects, Intersection, Only

(* The parts of a difference cover it: an address of the receiver outside  *)
(* the argument lies in the part of the highest pending bit at which it    *)
(* leaves the argument.                                                    *)
LEMMA DifferencePartsCover ==
  ASSUME NEW m \in Network, NEW o \in Network
  PROVE  UNION {Addrs(n) : n \in DifferenceParts(m, o)} = Addrs(m) \ Addrs(o)
<1>1. /\ m.addr \in Word /\ m.mask \in Word /\ m.addr \subseteq m.mask
      /\ o.addr \in Word /\ o.mask \in Word /\ o.addr \subseteq o.mask
  BY NetworkFields
<1>2. CASE IsDisjoint(m, o)
  <2>1. DifferenceParts(m, o) = {m}
    BY <1>2 DEF DifferenceParts
  <2>2. Addrs(m) \cap Addrs(o) = {}
    BY <1>2, Overlapping
  <2> QED
    BY <2>1, <2>2
<1>3. CASE ~IsDisjoint(m, o)
  <2> DEFINE S == Pending(m, o)
             P(b) == Part(m.addr \cup o.addr, {b}, m.mask \cup {j \in S : j >= b})
  <2>1. DifferenceParts(m, o) = {P(b) : b \in S}
    BY <1>3 DEF DifferenceParts
  <2>2. m.addr \cap o.mask = o.addr \cap m.mask
    BY <1>3, Overlapping
  <2>3. S \subseteq Bits /\ S = o.mask \ m.mask
    BY <1>1 DEF Pending, Word
  <2>4. W \in Nat /\ \A i \in S : i \in 0 .. W /\ i \in Int
    BY <2>3, WAssumption DEF Bits
  <2> HIDE DEF S
  <2>5. ASSUME NEW b \in S, NEW x \in Word
        PROVE  x \in Addrs(P(b)) <=> /\ x \cap m.mask = m.addr
                                     /\ \A i \in S : i > b => (i \in x <=> i \in o.addr)
                                     /\ ~(b \in x <=> b \in o.addr)
    <3> DEFINE fixed == m.mask \cup {j \in S : j >= b}
               flipped == Xor(m.addr \cup o.addr, {b})
    <3>1. P(b) = [addr |-> flipped \cap fixed, mask |-> fixed]
      BY DEF Part
    <3>2. x \in Addrs(P(b)) <=> \A i \in fixed : i \in x <=> i \in flipped
      <4> HIDE DEF fixed, flipped, P
      <4>1. P(b).addr = flipped \cap fixed /\ P(b).mask = fixed
        BY <3>1
      <4>2. x \in Addrs(P(b)) <=> x \cap fixed = flipped \cap fixed
        BY <4>1 DEF Addrs
      <4> QED
        BY <4>2
    <3>3. (\A i \in m.mask : i \in x <=> i \in flipped) <=> x \cap m.mask = m.addr
      <4>1. \A i \in m.mask : i \in flipped <=> i \in m.addr
        BY <1>1, <2>2, <2>3 DEF Xor
      <4> QED
        BY <1>1, <4>1
    <3>4. \A i \in S : i # b => (i \in flipped <=> i \in o.addr)
      BY <1>1, <2>3 DEF Xor
    <3>5. b \in flipped <=> b \notin o.addr
      BY <1>1, <2>3 DEF Xor
    <3>6. \A i \in S : i >= b <=> i > b \/ i = b
      BY <2>4
    <3> HIDE DEF flipped
    <3>7. (\A i \in fixed : i \in x <=> i \in flipped) <=>
            /\ \A i \in m.mask : i \in x <=> i \in flipped
            /\ \A i \in S : i > b => (i \in x <=> i \in flipped)
            /\ b \in x <=> b \in flipped
      BY <3>6
    <3>8. \A i \in S : i > b => i # b
      BY <2>4
    <3> HIDE DEF fixed
    <3> QED
      BY <3>2, <3>3, <3>4, <3>5, <3>7, <3>8
  <2> HIDE DEF P
  <2>6. ASSUME NEW b \in S, NEW x \in Addrs(P(b)) PROVE x \in Addrs(m) /\ x \notin Addrs(o)
    <3>1. x \in Word
      BY DEF Addrs
    <3>2. x \cap m.mask = m.addr /\ ~(b \in x <=> b \in o.addr)
      BY <2>5, <3>1
    <3>3. b \in o.mask
      BY <2>3
    <3>4. x \cap o.mask # o.addr
      BY <3>2, <3>3
    <3> QED
      BY <3>1, <3>2, <3>4 DEF Addrs
  <2>7. ASSUME NEW x \in Addrs(m), x \notin Addrs(o) PROVE \E b \in S : x \in Addrs(P(b))
    <3> DEFINE D == {i \in S : ~(i \in x <=> i \in o.addr)}
    <3>1. x \in Word /\ x \cap m.mask = m.addr /\ x \cap o.mask # o.addr
      BY <2>7 DEF Addrs
    <3>2. PICK i : ~(i \in x \cap o.mask <=> i \in o.addr)
      BY <3>1
    <3>3. i \in o.mask /\ ~(i \in x <=> i \in o.addr)
      BY <1>1, <3>2
    <3>4. i \notin m.mask
      BY <2>2, <3>1, <3>3
    <3>5. D # {} /\ D \subseteq 0 .. W
      BY <2>3, <2>4, <3>3, <3>4
    <3>6. PICK b \in D : \A j \in D : j <= b
      BY <2>4, <3>5, GreatestNatural
    <3>7. \A j \in S : j > b => (j \in x <=> j \in o.addr)
      BY <2>4, <3>6
    <3>8. x \in Addrs(P(b))
      BY <2>5, <3>1, <3>6, <3>7
    <3> QED
      BY <3>8
  <2>8. UNION {Addrs(n) : n \in {P(b) : b \in S}} = Addrs(m) \ Addrs(o)
    BY <2>6, <2>7
  <2> QED
    BY <2>1, <2>8, Zenon
<1> QED
  BY <1>2, <1>3

-----------------------------------------------------------------------------
(* The masks of CIDR blocks                                                *)

(* A contiguous mask is the mask of its own prefix length.                 *)
LEMMA ContiguousMask ==
  ASSUME NEW n \in Network, IsContiguous(n)
  PROVE  /\ LeadingOnes(n.mask) \in 0 .. W
         /\ n.mask = MaskFromPrefix(LeadingOnes(n.mask))
         /\ PrefixLen(n) = {LeadingOnes(n.mask)}
<1> DEFINE mk == n.mask
           run == {i \in Bits : i .. (W - 1) \subseteq mk}
<1>1. mk \subseteq Bits /\ W \in Nat \ {0} /\ \A i : i \in Bits <=> i \in Nat /\ i < W
  BY NetworkFields, WAssumption DEF Word, Bits
<1>2. ASSUME NEW i \in Bits, i \notin mk, NEW j \in mk, j < i PROVE FALSE
  <2>1. i \in SubOne(mk)
    BY <1>2 DEF IsContiguous
  <2>2. \A l \in 0 .. (i - 1) : l \notin mk
    BY <2>1, <1>2 DEF SubOne
  <2> QED
    BY <2>2, <1>1, <1>2
<1>3. run = mk
  <2>1. ASSUME NEW j \in mk PROVE j \in run
    <3>1. \A i \in j .. (W - 1) : i \in mk
      BY <1>1, <1>2
    <3> QED
      BY <3>1, <1>1
  <2>2. \A j \in run : j \in mk
    BY <1>1
  <2> QED
    BY <2>1, <2>2
<1>4. LeadingOnes(mk) = Cardinality(mk)
  BY <1>3 DEF LeadingOnes
<1>5. CASE mk = {}
  <2>1. LeadingOnes(mk) = 0
    BY <1>4, <1>5, FS_EmptySet
  <2>2. MaskFromPrefix(0) = {}
    BY <1>1 DEF MaskFromPrefix
  <2> QED
    BY <2>1, <2>2, <1>1, <1>5 DEF PrefixLen, Only
<1>6. CASE mk # {}
  <2>1. PICK l \in mk : \A j \in mk : l <= j
    BY <1>1, <1>6, LeastNatural
  <2>2. mk = l .. (W - 1)
    <3>1. ASSUME NEW i \in mk PROVE i \in l .. (W - 1)
      BY <1>1, <2>1
    <3>2. ASSUME NEW i \in l .. (W - 1) PROVE i \in mk
      <4>1. l \in Nat /\ i \in Bits
        BY <1>1, <2>1
      <4>2. l < i \/ l = i
        BY <4>1
      <4> QED
        BY <1>2, <2>1, <4>1, <4>2
    <3> QED
      BY <3>1, <3>2
  <2>3. Cardinality(mk) = W - l
    <3>1. l \in Nat /\ l < W /\ l \in Int /\ W - 1 \in Int
      BY <1>1, <2>1
    <3>2. Cardinality(l .. (W - 1)) = IF l > W - 1 THEN 0 ELSE (W - 1) - l + 1
      BY <3>1, FS_Interval
    <3>3. (IF l > W - 1 THEN 0 ELSE (W - 1) - l + 1) = W - l
      BY <1>1, <3>1
    <3>4. Cardinality(mk) = Cardinality(l .. (W - 1))
      BY <2>2, Zenon
    <3> QED
      BY <3>2, <3>3, <3>4, Zenon
  <2>4. MaskFromPrefix(W - l) = mk
    BY <1>1, <2>1, <2>2 DEF MaskFromPrefix
  <2> QED
    BY <1>1, <1>4, <2>1, <2>3, <2>4 DEF PrefixLen, Only
<1> QED
  BY <1>5, <1>6

(* Among such masks, the order of the numbers is the order of the lengths  *)
(* and inclusion, which is what the one-compare test relies on.            *)
LEMMA PrefixOrder ==
  ASSUME NEW p \in 0 .. W, NEW q \in 0 .. W
  PROVE  Le(MaskFromPrefix(p), MaskFromPrefix(q)) <=> p <= q
<1>1. W \in Nat /\ \A i : i \in Bits <=> i \in Nat /\ i < W
  BY WAssumption DEF Bits
<1>2. ASSUME p = q PROVE Le(MaskFromPrefix(p), MaskFromPrefix(q))
  BY <1>2 DEF Le
<1>3. ASSUME p < q PROVE Le(MaskFromPrefix(p), MaskFromPrefix(q))
  <2>1. W - q \in MaskFromPrefix(q) \ MaskFromPrefix(p)
    BY <1>1, <1>3 DEF MaskFromPrefix
  <2>2. MaskFromPrefix(p) \ MaskFromPrefix(q) = {}
    BY <1>1, <1>3 DEF MaskFromPrefix
  <2> QED
    BY <2>1, <2>2 DEF Le, Lt
<1>4. ASSUME q < p, Le(MaskFromPrefix(p), MaskFromPrefix(q)) PROVE FALSE
  <2>1. MaskFromPrefix(q) \ MaskFromPrefix(p) = {}
    BY <1>1, <1>4 DEF MaskFromPrefix
  <2>2. W - p \in MaskFromPrefix(p) /\ W - p \notin MaskFromPrefix(q)
    BY <1>1, <1>4 DEF MaskFromPrefix
  <2> QED
    BY <2>1, <2>2, <1>4 DEF Le, Lt
<1> QED
  BY <1>2, <1>3, <1>4

(* Among CIDR blocks the one-compare test finds nesting, and blocks that   *)
(* overlap are nested.                                                     *)
LEMMA Nested ==
  ASSUME NEW n \in Network, NEW o \in Network, IsContiguous(n), IsContiguous(o)
  PROVE  /\ ContainsContiguous(n, o) =>
              /\ Intersects(n, o)
              /\ LeadingOnes(n.mask) <= LeadingOnes(o.mask) /\ n.mask \subseteq o.mask
         /\ Intersects(n, o) => ContainsContiguous(n, o) \/ ContainsContiguous(o, n)
<1> DEFINE p == LeadingOnes(n.mask)
           q == LeadingOnes(o.mask)
<1>1. p \in 0 .. W /\ q \in 0 .. W /\ n.mask = MaskFromPrefix(p) /\ o.mask = MaskFromPrefix(q)
  BY ContiguousMask
<1>2. /\ n.addr \subseteq n.mask /\ o.addr \subseteq o.mask
      /\ W \in Nat /\ Bits \subseteq Int
  BY NetworkFields, WAssumption DEF Bits
<1> HIDE DEF p, q
<1>3. Le(n.mask, o.mask) <=> p <= q
  BY <1>1, PrefixOrder
<1>4. Le(o.mask, n.mask) <=> q <= p
  BY <1>1, PrefixOrder
<1>5. ASSUME p <= q PROVE n.mask \subseteq o.mask
  <2>1. \A i \in Bits : i >= W - p => i >= W - q
    <3>1. p \in Int /\ q \in Int /\ W \in Int /\ Bits \subseteq Int
      BY <1>1, <1>2
    <3> QED
      BY <3>1, <1>5
  <2> QED
    BY <1>1, <2>1 DEF MaskFromPrefix
<1>6. ASSUME q <= p PROVE o.mask \subseteq n.mask
  <2>1. \A i \in Bits : i >= W - q => i >= W - p
    <3>1. p \in Int /\ q \in Int /\ W \in Int /\ Bits \subseteq Int
      BY <1>1, <1>2
    <3> QED
      BY <3>1, <1>6
  <2> QED
    BY <1>1, <2>1 DEF MaskFromPrefix
<1>7. Intersects(n, o) <=> n.addr \cap o.mask = o.addr \cap n.mask
  BY Overlap
<1>8. p <= q \/ q <= p
  BY <1>1, <1>2
<1>9. ASSUME ContainsContiguous(n, o) PROVE Intersects(n, o) /\ p <= q /\ n.mask \subseteq o.mask
  BY <1>2, <1>3, <1>5, <1>7, <1>9 DEF ContainsContiguous
<1>10. ASSUME Intersects(n, o) PROVE ContainsContiguous(n, o) \/ ContainsContiguous(o, n)
  BY <1>2, <1>3, <1>4, <1>5, <1>6, <1>7, <1>8, <1>10 DEF ContainsContiguous
<1> QED
  BY <1>9, <1>10 DEF p, q

(* Each rung between two nested blocks is the part of one pending bit, and *)
(* every pending bit has its rung.                                         *)
LEMMA LadderRungs ==
  ASSUME NEW n \in Network, NEW o \in Network, IsContiguous(n), IsContiguous(o),
         ContainsContiguous(n, o)
  PROVE  /\ Pending(n, o) =
              {i \in Bits : W - LeadingOnes(o.mask) <= i /\ i < W - LeadingOnes(n.mask)}
         /\ \A rung \in (LeadingOnes(n.mask) + 1) .. LeadingOnes(o.mask) :
              /\ W - rung \in Pending(n, o)
              /\ ContiguousLadderPart(o, rung) =
                   Part(n.addr \cup o.addr, {W - rung},
                        n.mask \cup {i \in Pending(n, o) : i >= W - rung})
<1> DEFINE p == LeadingOnes(n.mask)
           q == LeadingOnes(o.mask)
<1>1. p \in 0 .. W /\ q \in 0 .. W /\ n.mask = MaskFromPrefix(p) /\ o.mask = MaskFromPrefix(q)
  BY ContiguousMask
<1>2. p <= q
  BY Nested
<1>3. W \in Nat /\ \A i : i \in Bits <=> i \in Nat /\ i < W
  BY WAssumption DEF Bits
<1>4. n.addr \subseteq o.addr
  BY NetworkFields DEF ContainsContiguous
<1> HIDE DEF p, q
<1>5. Pending(n, o) = {i \in Bits : W - q <= i /\ i < W - p}
  BY <1>1, <1>3 DEF Pending, MaskFromPrefix
<1>6. ASSUME NEW rung \in (p + 1) .. q
      PROVE  /\ W - rung \in Pending(n, o)
             /\ ContiguousLadderPart(o, rung) =
                  Part(n.addr \cup o.addr, {W - rung},
                       n.mask \cup {i \in Pending(n, o) : i >= W - rung})
  <2>1. W - rung \in Pending(n, o)
    BY <1>1, <1>3, <1>5
  <2>2. MaskFromPrefix(rung) = n.mask \cup {i \in Pending(n, o) : i >= W - rung}
    BY <1>1, <1>3, <1>5 DEF MaskFromPrefix
  <2>3. n.addr \cup o.addr = o.addr
    BY <1>4
  <2>4. ContiguousLadderPart(o, rung) = FromBits(Xor(o.addr, {W - rung}), MaskFromPrefix(rung))
    BY DEF ContiguousLadderPart
  <2>5. FromBits(Xor(o.addr, {W - rung}), MaskFromPrefix(rung)) =
          Part(o.addr, {W - rung}, MaskFromPrefix(rung))
    BY DEF FromBits, Part
  <2> QED
    BY <2>1, <2>2, <2>3, <2>4, <2>5, Zenon
<1> QED
  BY <1>5, <1>6 DEF p, q

(* The ladder of two blocks, its early returns with it, gives the parts of *)
(* the general difference.                                                 *)
LEMMA LadderParts ==
  ASSUME NEW n \in Network, NEW o \in Network, IsContiguous(n), IsContiguous(o)
  PROVE  DifferenceParts(n, o) =
           IF ContainsContiguous(o, n) THEN {}
           ELSE IF ~ContainsContiguous(n, o) THEN {n}
           ELSE {ContiguousLadderPart(o, bits) :
                   bits \in (LeadingOnes(n.mask) + 1) .. LeadingOnes(o.mask)}
<1>1. Intersects(n, o) <=> Intersects(o, n)
  BY Overlap
<1>2. CASE ContainsContiguous(o, n)
  <2>1. Intersects(n, o) /\ o.mask \subseteq n.mask
    BY <1>1, <1>2, Nested
  <2>2. Pending(n, o) = {} /\ ~IsDisjoint(n, o)
    BY <2>1 DEF Pending, IsDisjoint
  <2> QED
    BY <1>2, <2>2 DEF DifferenceParts
<1>3. CASE ~ContainsContiguous(o, n) /\ ~ContainsContiguous(n, o)
  <2>1. IsDisjoint(n, o)
    BY <1>3, Nested DEF IsDisjoint
  <2> QED
    BY <1>3, <2>1 DEF DifferenceParts
<1>4. CASE ~ContainsContiguous(o, n) /\ ContainsContiguous(n, o)
  <2> DEFINE p == LeadingOnes(n.mask)
             q == LeadingOnes(o.mask)
             P(b) == Part(n.addr \cup o.addr, {b}, n.mask \cup {i \in Pending(n, o) : i >= b})
  <2>1. ~IsDisjoint(n, o) /\ p \in 0 .. W /\ q \in 0 .. W /\ W \in Nat
    BY <1>4, Nested, ContiguousMask, WAssumption DEF IsDisjoint
  <2>2. Pending(n, o) = {i \in Bits : W - q <= i /\ i < W - p}
    BY <1>4, LadderRungs
  <2>3. \A rung \in (p + 1) .. q :
          W - rung \in Pending(n, o) /\ ContiguousLadderPart(o, rung) = P(W - rung)
    BY <1>4, LadderRungs
  <2>4. DifferenceParts(n, o) = {P(b) : b \in Pending(n, o)}
    BY <2>1 DEF DifferenceParts
  <2> HIDE DEF p, q, P
  <2>5. ASSUME NEW b \in Pending(n, o)
        PROVE  W - b \in (p + 1) .. q /\ ContiguousLadderPart(o, W - b) = P(b)
    <3>1. b \in Int /\ W - q <= b /\ b < W - p
      BY <2>1, <2>2 DEF Bits
    <3>2. W - b \in (p + 1) .. q /\ W - (W - b) = b
      BY <2>1, <3>1
    <3> QED
      BY <2>3, <3>2
  <2>6. {P(b) : b \in Pending(n, o)} = {ContiguousLadderPart(o, bits) : bits \in (p + 1) .. q}
    BY <2>3, <2>5
  <2> QED
    BY <1>4, <2>4, <2>6 DEF p, q
<1> QED
  BY <1>2, <1>3, <1>4

-----------------------------------------------------------------------------
(* Bags of networks                                                        *)

(* How often n occurs among the entries of a at the indices S.             *)
Copies(a, S, n) == Cardinality({x \in S : a[x] = n})

(* One index taken out.                                                    *)
LEMMA CountWithout ==
  ASSUME NEW S, IsFiniteSet(S), NEW a, NEW i \in S, NEW n, NEW T, T = S \ {i}
  PROVE  /\ Copies(a, S, n) \in Nat /\ Copies(a, T, n) \in Nat
         /\ Copies(a, S, n) = Copies(a, T, n) + IF a[i] = n THEN 1 ELSE 0
<1> DEFINE all == {x \in S : a[x] = n}
           rest == {x \in T : a[x] = n}
<1>1. IsFiniteSet(all) /\ IsFiniteSet(rest)
  BY FS_Subset
<1>2. rest = all \ {i} /\ (i \in all <=> a[i] = n)
  OBVIOUS
<1> HIDE DEF all, rest
<1>3. Cardinality(all) \in Nat /\ Cardinality(rest) \in Nat
  BY <1>1, FS_CardinalityType
<1>4. Cardinality(all \ {i}) = IF i \in all THEN Cardinality(all) - 1 ELSE Cardinality(all)
  BY <1>1, FS_RemoveElement
<1>5. Cardinality(all) = Cardinality(rest) + IF a[i] = n THEN 1 ELSE 0
  BY <1>2, <1>3, <1>4
<1> QED
  BY <1>3, <1>5 DEF all, rest, Copies

(* Entries renamed: every value occurs as often as before.                 *)
LEMMA CountReindexed ==
  ASSUME NEW S, IsFiniteSet(S), NEW T, NEW a, NEW b, NEW f \in [T -> S],
         \A s \in S : \E t \in T : f[t] = s,
         \A t, v \in T : f[t] = f[v] => t = v,
         \A t \in T : b[t] = a[f[t]]
  PROVE  /\ {b[t] : t \in T} = {a[s] : s \in S}
         /\ \A n : Copies(b, T, n) = Copies(a, S, n)
<1>1. {b[t] : t \in T} = {a[s] : s \in S}
  <2>1. \A t \in T : \E s \in S : b[t] = a[s]
    OBVIOUS
  <2>2. \A s \in S : \E t \in T : b[t] = a[s]
    OBVIOUS
  <2> QED
    BY <2>1, <2>2
<1>2. ASSUME NEW n
      PROVE  Copies(b, T, n) = Copies(a, S, n)
  <2> DEFINE P == {t \in T : b[t] = n}
             Q == {s \in S : a[s] = n}
             g == [t \in P |-> f[t]]
  <2>1. g \in [P -> Q]
    OBVIOUS
  <2>2. \A s \in Q : \E t \in P : g[t] = s
    <3> SUFFICES ASSUME NEW s \in Q PROVE \E t \in P : g[t] = s
      OBVIOUS
    <3>1. PICK t \in T : f[t] = s
      OBVIOUS
    <3>2. t \in P
      BY <3>1
    <3> QED
      BY <3>1, <3>2
  <2>3. \A t, v \in P : g[t] = g[v] => t = v
    OBVIOUS
  <2>4. \A t \in P : f[t] \in Q
    OBVIOUS
  <2> DEFINE h == [s \in Q |-> CHOOSE t \in P : f[t] = s]
  <2>5. \A s \in Q : h[s] \in P /\ f[h[s]] = s
    BY <2>2
  <2>6. h \in Bijection(Q, P)
    <3>1. h \in [Q -> P]
      BY <2>5
    <3>2. \A s, t \in Q : h[s] = h[t] => s = t
      BY <2>5
    <3>3. \A t \in P : \E s \in Q : h[s] = t
      BY <2>3, <2>4, <2>5
    <3> HIDE DEF h, P, Q
    <3> QED
      BY <3>1, <3>2, <3>3 DEF Bijection, Injection, Surjection, IsInjective
  <2>7. IsFiniteSet(Q)
    BY FS_Subset
  <2> HIDE DEF h, P, Q
  <2>8. ExistsBijection(Q, P)
    BY <2>6 DEF ExistsBijection
  <2>9. Cardinality(P) = Cardinality(Q)
    BY <2>7, <2>8, FS_Bijection
  <2> QED
    BY <2>9 DEF P, Q, Copies
<1> QED
  BY <1>1, <1>2

(* A value occurs when it occurs at least once, and at two indices when it *)
(* occurs more than once.                                                  *)
LEMMA CountPositive ==
  ASSUME NEW S, IsFiniteSet(S), NEW a
  PROVE  /\ \A n : /\ Copies(a, S, n) \in Nat
                   /\ n \in {a[x] : x \in S} <=> Copies(a, S, n) > 0
         /\ \A n : Copies(a, S, n) > 1
                     => \E x, y \in S : x # y /\ a[x] = n /\ a[y] = n
<1>1. ASSUME NEW n
      PROVE  /\ Copies(a, S, n) \in Nat
             /\ n \in {a[x] : x \in S} <=> Copies(a, S, n) > 0
             /\ Copies(a, S, n) > 1
                     => \E x, y \in S : x # y /\ a[x] = n /\ a[y] = n
  <2> DEFINE all == {x \in S : a[x] = n}
  <2>1. IsFiniteSet(all)
    BY FS_Subset
  <2>2. n \in {a[x] : x \in S} <=> all # {}
    OBVIOUS
  <2>3. \A x \in all : x \in S /\ a[x] = n
    OBVIOUS
  <2> HIDE DEF all
  <2>4. Cardinality(all) \in Nat /\ (Cardinality(all) = 0 <=> all = {})
    BY <2>1, FS_CardinalityType, FS_EmptySet
  <2>5. ASSUME Copies(a, S, n) > 1
        PROVE  \E x, y \in S : x # y /\ a[x] = n /\ a[y] = n
    <3>1. PICK x \in all : TRUE
      BY <2>4, <2>5 DEF all, Copies
    <3>2. all # {x}
      BY <2>1, <2>5, FS_Singleton DEF all, Copies
    <3>3. PICK y \in all : y # x
      BY <3>1, <3>2
    <3> QED
      BY <2>3, <3>1, <3>3
  <2> QED
    BY <2>2, <2>4, <2>5 DEF all, Copies
<1> QED
  BY <1>1

(* The only network that can name exactly the addresses of two is made of  *)
(* the bits both fix, and alike: a bit fixed otherwise leaves the union    *)
(* when turned.                                                            *)
LEMMA UnionIsHull ==
  ASSUME NEW a \in Network, NEW b \in Network, NEW u \in Network,
         Addrs(u) = Addrs(a) \cup Addrs(b)
  PROVE  u = FromBits(a.addr, {i \in a.mask \cap b.mask : i \in a.addr <=> i \in b.addr})
<1> DEFINE agreed == {i \in a.mask \cap b.mask : i \in a.addr <=> i \in b.addr}
<1>1. /\ a.addr \in Word /\ a.mask \in Word /\ a.addr \subseteq a.mask
      /\ b.addr \in Word /\ b.mask \in Word /\ b.addr \subseteq b.mask
      /\ u.addr \in Word /\ u.mask \in Word /\ u.addr \subseteq u.mask
  BY NetworkFields
<1>2. Contains(u, a) /\ Contains(u, b)
  BY ContainsIsInclusion
<1>3. u.mask \subseteq agreed /\ u.addr = a.addr \cap u.mask
  BY <1>1, <1>2 DEF Contains
<1>4. ASSUME NEW i \in agreed, i \notin u.mask PROVE FALSE
  <2> DEFINE x == IF i \in u.addr THEN u.addr \ {i} ELSE u.addr \cup {i}
             y == IF i \in a.addr THEN u.addr \ {i} ELSE u.addr \cup {i}
  <2>1. y \in Word /\ y \cap u.mask = u.addr /\ i \in Bits
    BY <1>1, <1>4 DEF Word
  <2>2. y \in Addrs(u)
    BY <2>1 DEF Addrs
  <2>3. y \in Addrs(a) \/ y \in Addrs(b)
    BY <2>2
  <2>4. y \cap a.mask = a.addr \/ y \cap b.mask = b.addr
    BY <2>3 DEF Addrs
  <2>5. i \in y <=> i \notin a.addr
    OBVIOUS
  <2> QED
    BY <1>4, <2>4, <2>5
<1>5. u.mask = agreed
  BY <1>3, <1>4
<1>6. u = [addr |-> u.addr, mask |-> u.mask]
  BY DEF Network, Pair
<1> QED
  BY <1>3, <1>5, <1>6 DEF FromBits

-----------------------------------------------------------------------------
(* Counting through scattered bits                                         *)

Up(E, x) == AddOne(x \cup Not(E)) \cap E
Down(E, x) == SubOne(x) \cap E

(* With the fixed bits set, adding one clears the free ones below the      *)
(* lowest free zero and sets that.                                         *)
LEMMA UpBits ==
  ASSUME NEW E \in Word, NEW x, x \subseteq E, x # E
  PROVE  \E z \in E :
           /\ z \notin x /\ \A i \in E : i < z => i \in x
           /\ \A i \in E : i \in Up(E, x) <=> (i = z \/ (i > z /\ i \in x))
<1>0. E \subseteq Bits /\ \A i \in Bits : i \in Nat
  BY WAssumption DEF Word, Bits
<1>1. E \subseteq Nat /\ E \ x # {} /\ E \ x \subseteq Nat /\ \A i \in Bits : i \in Int /\ 0 <= i
  BY <1>0
<1>2. PICK z \in E \ x : \A i \in E \ x : z <= i
  BY <1>1, LeastNatural
<1>3. \A i \in E : i < z => i \in x
  BY <1>1, <1>2
<1>4. ASSUME NEW i \in E PROVE i \in Up(E, x) <=> (i = z \/ (i > z /\ i \in x))
  <2> DEFINE below == \A j \in 0 .. (i - 1) : j \in x \cup Not(E)
  <2>1. i \in Bits /\ i \in Nat /\ z \in Nat
    BY <1>1, <1>2 DEF Word
  <2>2. i \in Up(E, x) <=> ~(i \in x <=> below)
    BY <2>1 DEF Up, AddOne, Not
  <2>3. CASE i <= z
    <3>1. \A j \in 0 .. (i - 1) : j \in Bits /\ j < z
      BY <2>1, <2>3, WAssumption DEF Bits
    <3>2. below
      BY <1>3, <3>1 DEF Not
    <3>3. i \in x <=> i # z
      BY <1>2, <1>3, <2>1, <2>3
    <3> QED
      BY <2>1, <2>2, <2>3, <3>2, <3>3
  <2>4. CASE i > z
    <3>1. z \in 0 .. (i - 1) /\ z \notin x \cup Not(E)
      BY <1>2, <2>1, <2>4 DEF Not
    <3> QED
      BY <2>1, <2>2, <2>4, <3>1
  <2> QED
    BY <2>1, <2>3, <2>4
<1> QED
  BY <1>2, <1>3, <1>4

(* So what sorts before the next is what does not sort after the current.  *)
LEMMA UpIsNext ==
  ASSUME NEW E \in Word, NEW x, x \subseteq E, x # E
  PROVE  /\ Up(E, x) \subseteq E
         /\ \A y \in SUBSET E : Lt(y, Up(E, x)) <=> Le(y, x)
<1> DEFINE s == Up(E, x)
<1>1. PICK z \in E :
        /\ z \notin x /\ \A i \in E : i < z => i \in x
        /\ \A i \in E : i \in s <=> (i = z \/ (i > z /\ i \in x))
  BY UpBits
<1>2. s \subseteq E
  BY DEF Up
<1>3. x \in Word /\ s \in Word /\ \A y \in SUBSET E : y \in Word
  BY <1>2 DEF Word
<1>4. \A i \in E : i \in Int
  BY WAssumption DEF Word, Bits
<1>5. Lt(x, s)
  <2>1. z \in s \ x
    BY <1>1, <1>4
  <2>2. \A j \in x \ s : j < z
    BY <1>1, <1>4
  <2> QED
    BY <2>1, <2>2 DEF Lt
<1> HIDE DEF s
<1>6. ASSUME NEW y \in SUBSET E, Le(y, x) PROVE Lt(y, s)
  BY <1>3, <1>5, <1>6, LtTransitive DEF Le
<1>7. ASSUME NEW y \in SUBSET E, Lt(y, s) PROVE Le(y, x)
  <2>1. PICK i \in s \ y : \A j \in y \ s : j < i
    BY <1>7 DEF Lt
  <2>2. i \in E /\ i \in Int /\ z \in Int /\ (i = z \/ (i > z /\ i \in x))
    BY <1>1, <1>2, <1>4, <2>1
  <2>3. CASE i = z
    <3>1. ASSUME NEW j \in y PROVE j \in x
      <4>1. j \in E /\ j \in Int /\ j # z
        BY <1>4, <2>1, <2>3, <3>1
      <4>2. CASE j \in s
        BY <1>1, <4>1, <4>2
      <4>3. CASE j \notin s
        <5>1. j < z
          BY <2>1, <2>3, <3>1, <4>3
        <5> QED
          BY <1>1, <4>1, <5>1
      <4> QED
        BY <4>2, <4>3
    <3> QED
      BY <1>3, <3>1, SubsetIsLess DEF Le
  <2>4. CASE i > z /\ i \in x
    <3>1. ASSUME NEW j \in y \ x PROVE j < i
      <4>1. j \in E /\ j \in Int
        BY <1>4, <3>1
      <4>2. CASE j \in s
        <5>1. j = z
          BY <1>1, <3>1, <4>1, <4>2
        <5> QED
          BY <2>2, <2>4, <5>1
      <4>3. CASE j \notin s
        BY <2>1, <3>1, <4>3
      <4> QED
        BY <4>2, <4>3
    <3>2. i \in x \ y
      BY <2>1, <2>4
    <3> QED
      BY <3>1, <3>2 DEF Le, Lt
  <2> QED
    BY <2>2, <2>3, <2>4
<1> QED
  BY <1>2, <1>6, <1>7 DEF s

(* Subtracting one borrows from the lowest one and sets the free bits      *)
(* below it.                                                               *)
LEMMA DownBits ==
  ASSUME NEW E \in Word, NEW x, x \subseteq E, x # {}
  PROVE  \E z \in x :
           /\ \A i \in x : z <= i
           /\ \A i \in E : i \in Down(E, x) <=> (i < z \/ (i > z /\ i \in x))
<1>1. x \subseteq Nat /\ \A i \in Bits : i \in Int /\ 0 <= i
  BY WAssumption DEF Word, Bits
<1>2. PICK z \in x : \A i \in x : z <= i
  BY <1>1, LeastNatural
<1>3. ASSUME NEW i \in E PROVE i \in Down(E, x) <=> (i < z \/ (i > z /\ i \in x))
  <2>1. i \in Bits /\ i \in Nat /\ z \in Nat
    BY <1>1, <1>2, <1>3 DEF Word
  <2>2. i \in Down(E, x) <=> ~(i \in x <=> \A j \in 0 .. (i - 1) : j \notin x)
    BY <2>1 DEF Down, SubOne
  <2>3. CASE i <= z
    <3>1. \A j \in 0 .. (i - 1) : j \notin x
      BY <1>2, <2>1, <2>3
    <3>2. i \in x <=> i = z
      BY <1>2, <2>1, <2>3
    <3> QED
      BY <2>1, <2>2, <2>3, <3>1, <3>2
  <2>4. CASE i > z
    <3>1. z \in 0 .. (i - 1)
      BY <2>1, <2>4
    <3> QED
      BY <1>2, <2>1, <2>2, <2>4, <3>1
  <2> QED
    BY <2>1, <2>3, <2>4
<1> QED
  BY <1>2, <1>3

(* Down undoes Up, so it is the next in the descending order.              *)
LEMMA DownIsNext ==
  ASSUME NEW E \in Word, NEW x, x \subseteq E, x # {}
  PROVE  /\ Down(E, x) \subseteq E
         /\ \A y \in SUBSET E : Lt(Down(E, x), y) <=> Le(x, y)
<1> DEFINE p == Down(E, x)
<1>1. PICK z \in x : /\ \A i \in x : z <= i
                     /\ \A i \in E : i \in p <=> (i < z \/ (i > z /\ i \in x))
  BY DownBits
<1>2. p \subseteq E
  BY DEF Down
<1>3. \A i \in E : i \in Int
  BY WAssumption DEF Word, Bits
<1>4. z \in E /\ z \notin p /\ \A i \in E : i < z => i \in p
  BY <1>1, <1>3
<1> HIDE DEF p
<1>5. Up(E, p) = x
  <2>1. PICK t \in E :
          /\ t \notin p /\ \A i \in E : i < t => i \in p
          /\ \A i \in E : i \in Up(E, p) <=> (i = t \/ (i > t /\ i \in p))
    BY <1>2, <1>4, UpBits
  <2>2. t = z
    BY <1>3, <1>4, <2>1
  <2>3. \A i \in E : i \in Up(E, p) <=> i \in x
    BY <1>1, <1>3, <1>4, <2>1, <2>2
  <2> QED
    BY <2>3 DEF Up
<1>6. p \in Word /\ x \in Word /\ \A y \in SUBSET E : y \in Word
  BY <1>2 DEF Word
<1>7. \A y \in SUBSET E : Lt(y, x) <=> Le(y, p)
  BY <1>2, <1>4, <1>5, UpIsNext
<1>8. ASSUME NEW y \in SUBSET E PROVE Lt(p, y) <=> Le(x, y)
  BY <1>6, <1>7, LtAsymmetric, LtTotal DEF Le
<1> QED
  BY <1>2, <1>8 DEF p

(* Where the host bits are all at the bottom, the plain successor of the   *)
(* whole address does the same: no carry reaches the fixed bits.           *)
LEMMA AdjacentCarry ==
  ASSUME NEW E \in Word, E \cap AddOne(E) = {}, NEW base \in Word, base \cap E = {},
         NEW x, x \subseteq E, NEW w, w = base \cup x
  PROVE  /\ x # E => AddOne(w) = base \cup Up(E, x)
         /\ x # {} => SubOne(w) = base \cup Down(E, x)
<1>1. \A i \in Bits : i \in Int /\ 0 <= i
  BY WAssumption DEF Bits
<1>2. E \subseteq Bits /\ base \subseteq Bits
  BY DEF Word
<1>3. ASSUME NEW i \in E, NEW j \in 0 .. (i - 1) PROVE j \in E
  <2>1. i \in Bits /\ i \notin AddOne(E)
    BY <1>2, <1>3
  <2> QED
    BY <1>3, <2>1 DEF AddOne
<1>4. ASSUME NEW i \in Bits \ E, NEW j \in E PROVE j \in 0 .. (i - 1)
  <2>1. i \in Int /\ 0 <= i /\ j \in Int /\ 0 <= j /\ i # j
    BY <1>1, <1>2, <1>4
  <2>2. CASE i < j
    BY <1>3, <1>4, <2>1, <2>2
  <2> QED
    BY <2>1, <2>2
<1>5. ASSUME x # E PROVE AddOne(base \cup x) = base \cup Up(E, x)
  <2>1. ASSUME NEW i \in Bits \ E PROVE i \in AddOne(base \cup x) <=> i \in base \cup Up(E, x)
    <3>1. PICK j \in E : j \notin x
      BY <1>5
    <3>2. j \in 0 .. (i - 1) /\ j \notin base \cup x
      BY <1>4, <2>1, <3>1
    <3>3. i \in AddOne(base \cup x) <=> i \in base
      BY <2>1, <3>2 DEF AddOne
    <3> QED
      BY <2>1, <3>3 DEF Up
  <2>2. ASSUME NEW i \in E PROVE i \in AddOne(base \cup x) <=> i \in base \cup Up(E, x)
    <3>1. i \in Bits /\ i \notin base /\ \A j \in 0 .. (i - 1) : j \in E /\ j \notin base
      BY <1>2, <1>3, <2>2
    <3>2. i \in AddOne(base \cup x) <=> ~(i \in x <=> \A j \in 0 .. (i - 1) : j \in x)
      BY <3>1 DEF AddOne
    <3>3. i \in Up(E, x) <=> ~(i \in x <=> \A j \in 0 .. (i - 1) : j \in x)
      BY <2>2, <3>1 DEF Up, AddOne, Not
    <3> QED
      BY <3>1, <3>2, <3>3
  <2>3. AddOne(base \cup x) \subseteq Bits /\ base \cup Up(E, x) \subseteq Bits
    BY <1>2 DEF AddOne, Up
  <2> QED
    BY <2>1, <2>2, <2>3
<1>6. ASSUME x # {} PROVE SubOne(base \cup x) = base \cup Down(E, x)
  <2>1. ASSUME NEW i \in Bits \ E PROVE i \in SubOne(base \cup x) <=> i \in base \cup Down(E, x)
    <3>1. PICK j \in E : j \in x
      BY <1>6
    <3>2. j \in 0 .. (i - 1) /\ j \in base \cup x
      BY <1>4, <2>1, <3>1
    <3>3. i \in SubOne(base \cup x) <=> i \in base
      BY <2>1, <3>2 DEF SubOne
    <3> QED
      BY <2>1, <3>3 DEF Down
  <2>2. ASSUME NEW i \in E PROVE i \in SubOne(base \cup x) <=> i \in base \cup Down(E, x)
    <3>1. i \in Bits /\ i \notin base /\ \A j \in 0 .. (i - 1) : j \in E /\ j \notin base
      BY <1>2, <1>3, <2>2
    <3>2. i \in SubOne(base \cup x) <=> ~(i \in x <=> \A j \in 0 .. (i - 1) : j \notin x)
      BY <3>1 DEF SubOne
    <3>3. i \in Down(E, x) <=> ~(i \in x <=> \A j \in 0 .. (i - 1) : j \notin x)
      BY <2>2, <3>1 DEF Down, SubOne
    <3> QED
      BY <3>1, <3>2, <3>3
  <2>3. SubOne(base \cup x) \subseteq Bits /\ base \cup Down(E, x) \subseteq Bits
    BY <1>2 DEF SubOne, Down
  <2> QED
    BY <2>1, <2>2, <2>3
<1> QED
  BY <1>5, <1>6

-----------------------------------------------------------------------------
(* The integers that words stand for                                       *)

(* 2^k counts the sets of k things, so it is a positive natural number     *)
(* and doubles with every one of them.                                     *)
LEMMA PowerDoubles ==
  ASSUME NEW k \in Nat
  PROVE  /\ 2 ^ k \in Nat \ {0}
         /\ 2 ^ (k + 1) = 2 ^ k + 2 ^ k
<1> DEFINE A == SUBSET (1 .. k)
           B == SUBSET (1 .. (k + 1))
           C == {x \cup {k + 1} : x \in A}
<1>1. IsFiniteSet(1 .. k) /\ Cardinality(1 .. k) = k
  BY FS_Interval
<1>2. IsFiniteSet(1 .. (k + 1)) /\ Cardinality(1 .. (k + 1)) = k + 1
  BY FS_Interval
<1>3. IsFiniteSet(A) /\ Cardinality(A) = 2 ^ k
  BY <1>1, FS_SUBSET
<1>4. Cardinality(B) = 2 ^ (k + 1)
  BY <1>2, FS_SUBSET, Zenon
<1>5. {} \in A
  OBVIOUS
<1>6. 2 ^ k \in Nat /\ 2 ^ k # 0
  <2>1. Cardinality(A) \in Nat
    BY <1>3, FS_CardinalityType
  <2>2. A # {}
    BY <1>5
  <2>3. Cardinality(A) # 0
    BY <1>3, <2>2, FS_EmptySet
  <2> QED
    BY <1>3, <2>1, <2>3
<1>7. B = A \cup C
  <2>1. 1 .. (k + 1) = (1 .. k) \cup {k + 1}
    OBVIOUS
  <2>2. ASSUME NEW x \in B PROVE x \in A \cup C
    <3>1. CASE k + 1 \in x
      <4>1. x \ {k + 1} \in A /\ x = (x \ {k + 1}) \cup {k + 1}
        BY <2>1, <2>2, <3>1
      <4> QED
        BY <4>1
    <3>2. CASE k + 1 \notin x
      BY <2>1, <2>2, <3>2
    <3> QED
      BY <3>1, <3>2
  <2>3. \A x \in A \cup C : x \in B
    BY <2>1
  <2> QED
    BY <2>2, <2>3
<1>8. A \cap C = {}
  <2>1. k + 1 \notin 1 .. k
    OBVIOUS
  <2> QED
    BY <2>1
<1>9. IsFiniteSet(C) /\ Cardinality(C) = Cardinality(A)
  <2> DEFINE f == [x \in A |-> x \cup {k + 1}]
  <2>1. \A x \in A : k + 1 \notin x
    OBVIOUS
  <2>2. \A x, y \in A : f[x] = f[y] => x = y
    <3> SUFFICES ASSUME NEW x \in A, NEW y \in A, f[x] = f[y] PROVE x = y
      OBVIOUS
    <3>1. x \cup {k + 1} = y \cup {k + 1} /\ k + 1 \notin x /\ k + 1 \notin y
      BY <2>1
    <3> QED
      BY <3>1
  <2>3. f \in [A -> C] /\ \A c \in C : \E x \in A : f[x] = c
    OBVIOUS
  <2>4. f \in Bijection(A, C)
    BY <2>2, <2>3 DEF Bijection, Injection, Surjection, IsInjective
  <2> HIDE DEF f, A, C
  <2>5. ExistsBijection(A, C)
    BY <2>4 DEF ExistsBijection
  <2> QED
    BY <1>3, <2>5, FS_Bijection
<1> HIDE DEF A, B, C
<1>10. Cardinality(B) = Cardinality(A) + Cardinality(C)
  <2>1. Cardinality(A \cup C) = Cardinality(A) + Cardinality(C) - Cardinality(A \cap C)
    BY <1>3, <1>9, FS_Union
  <2>2. Cardinality(A) \in Nat /\ Cardinality(A \cap C) = 0
    BY <1>3, <1>8, FS_CardinalityType, FS_EmptySet
  <2> QED
    BY <1>7, <1>9, <2>1, <2>2
<1> QED
  BY <1>3, <1>4, <1>6, <1>9, <1>10

(* The sums of the terms g[0], g[1], ... below every position.             *)
IsSum(g, f, n) ==
  /\ f \in [0 .. n -> Nat]
  /\ f = [i \in 0 .. n |-> IF i = 0 THEN 0 ELSE f[i - 1] + g[i - 1]]

(* A sum over the positions of a word, given by its terms.                 *)
LEMMA SumExists ==
  ASSUME NEW g \in [0 .. (W - 1) -> Nat]
  PROVE  \E f \in [0 .. W -> Nat] :
           f = [i \in 0 .. W |-> IF i = 0 THEN 0 ELSE f[i - 1] + g[i - 1]]
<1> DEFINE Bad == {n \in 0 .. W : ~\E f : IsSum(g, f, n)}
<1>0. W \in Nat /\ W > 0
  BY WAssumption
<1>1. Bad = {}
  <2> SUFFICES ASSUME Bad # {} PROVE FALSE
    OBVIOUS
  <2>1. PICK n \in Bad : \A k \in Bad : n <= k
    <3>1. Bad \subseteq Nat
      BY <1>0
    <3> HIDE DEF Bad
    <3> QED
      BY <3>1, LeastNatural
  <2>2. n \in 0 .. W /\ n \in Nat /\ ~\E f : IsSum(g, f, n)
    BY <1>0, <2>1
  <2>3. CASE n = 0
    <3>1. IsSum(g, [i \in 0 .. 0 |-> 0], 0)
      BY DEF IsSum
    <3> QED
      BY <2>2, <2>3, <3>1
  <2>4. CASE n # 0
    <3>1. n - 1 \in 0 .. W /\ n - 1 \in Nat /\ ~(n <= n - 1)
      BY <1>0, <2>2, <2>4
    <3>2. PICK f : IsSum(g, f, n - 1)
      BY <2>1, <3>1
    <3> DEFINE h == [i \in 0 .. n |-> IF i = n THEN f[n - 1] + g[n - 1] ELSE f[i]]
    <3>3. f \in [0 .. (n - 1) -> Nat]
          /\ \A i \in 0 .. (n - 1) : f[i] = IF i = 0 THEN 0 ELSE f[i - 1] + g[i - 1]
      BY <3>2 DEF IsSum
    <3>4. g[n - 1] \in Nat /\ f[n - 1] \in Nat
      BY <1>0, <2>2, <2>4, <3>1, <3>3
    <3>5. \A i \in 0 .. n : h[i] \in Nat
      BY <2>2, <3>3, <3>4
    <3>6. ASSUME NEW i \in 0 .. n PROVE h[i] = IF i = 0 THEN 0 ELSE h[i - 1] + g[i - 1]
      <4>1. CASE i = n
        BY <2>2, <2>4, <4>1
      <4>2. CASE i # n
        <5>1. i \in 0 .. (n - 1) /\ h[i] = f[i]
          BY <2>2, <4>2
        <5>2. i # 0 => i - 1 \in 0 .. (n - 1) /\ i - 1 \in 0 .. n /\ i - 1 # n
          BY <2>2, <5>1
        <5> QED
          BY <3>3, <5>1, <5>2
      <4> QED
        BY <4>1, <4>2
    <3>7. IsSum(g, h, n)
      BY <3>5, <3>6 DEF IsSum
    <3> QED
      BY <2>2, <3>7
  <2> QED
    BY <2>3, <2>4
<1>2. W \in 0 .. W /\ W \notin Bad
  BY <1>0, <1>1
<1>3. PICK f : IsSum(g, f, W)
  BY <1>2
<1> QED
  BY <1>3 DEF IsSum

(* Induction over the positions of a word and the one after them.          *)
LEMMA Upwards ==
  ASSUME NEW P, 0 \in P, \A i \in 0 .. (W - 1) : i \in P => i + 1 \in P
  PROVE  \A i \in 0 .. W : i \in P
<1> DEFINE Bad == {i \in 0 .. W : i \notin P}
<1>0. W \in Nat /\ W > 0
  BY WAssumption
<1>1. SUFFICES ASSUME Bad # {} PROVE FALSE
  BY <1>0
<1>2. PICK n \in Bad : \A k \in Bad : n <= k
  <2>1. Bad \subseteq Nat
    BY <1>0
  <2> HIDE DEF Bad
  <2> QED
    BY <1>1, <2>1, LeastNatural
<1>3. n \in 0 .. W /\ n \in Nat /\ n \notin P /\ n # 0
  BY <1>0, <1>2
<1>4. n - 1 \in 0 .. (W - 1) /\ n - 1 \in 0 .. W /\ ~(n <= n - 1) /\ (n - 1) + 1 = n
  BY <1>0, <1>3
<1>5. n - 1 \in P
  BY <1>2, <1>4
<1> QED
  BY <1>3, <1>4, <1>5

(* How many positions of S lie below i.                                    *)
Rank(S, i) == Cardinality({q \in S : q < i})

(* Going up the positions, the rank counts those of S as they pass.        *)
LEMMA RankSteps ==
  ASSUME NEW S \in Word
  PROVE  /\ \A i \in 0 .. W : Rank(S, i) \in Nat
         /\ Rank(S, 0) = 0
         /\ \A i \in 0 .. (W - 1) : Rank(S, i + 1) = Rank(S, i) + IF i \in S THEN 1 ELSE 0
         /\ Rank(S, W) = Cardinality(S)
         /\ IsFiniteSet(S)
<1>0. W \in Nat /\ W > 0 /\ \A q \in S : q \in 0 .. (W - 1)
  BY WAssumption DEF Word, Bits
<1>1. IsFiniteSet(S)
  <2>1. IsFiniteSet(Bits)
    BY <1>0, FS_Interval DEF Bits
  <2> QED
    BY <2>1, FS_Subset DEF Word
<1>2. \A i : IsFiniteSet({q \in S : q < i})
  <2>1. \A i : {q \in S : q < i} \in SUBSET S
    OBVIOUS
  <2> QED
    BY <1>1, <2>1, FS_Subset
<1>3. \A i \in 0 .. W : Rank(S, i) \in Nat
  BY <1>2, FS_CardinalityType DEF Rank
<1>4. Rank(S, 0) = 0
  <2>1. {q \in S : q < 0} = {}
    BY <1>0
  <2> QED
    BY <2>1, FS_EmptySet DEF Rank
<1>5. ASSUME NEW i \in 0 .. (W - 1)
      PROVE  Rank(S, i + 1) = Rank(S, i) + IF i \in S THEN 1 ELSE 0
  <2> DEFINE low == {q \in S : q < i}
             up == {q \in S : q < i + 1}
  <2>1. IsFiniteSet(low) /\ Cardinality(low) = Rank(S, i) /\ Cardinality(up) = Rank(S, i + 1)
    BY <1>2 DEF Rank
  <2>2. i \notin low
    BY <1>0
  <2>3. CASE i \in S
    <3>0. \A q \in S : q < i + 1 <=> (q < i \/ q = i)
      BY <1>0
    <3>1. up = low \cup {i}
      BY <2>3, <3>0
    <3> HIDE DEF up, low
    <3>2. Cardinality(up) = Cardinality(low) + 1
      BY <2>1, <2>2, <3>1, FS_AddElement
    <3> QED
      BY <2>1, <2>3, <3>2
  <2>4. CASE i \notin S
    <3>1. up = low
      BY <1>0, <2>4
    <3>2. Rank(S, i) \in Nat
      <4>1. i \in 0 .. W
        BY <1>0
      <4> QED
        BY <1>3, <4>1
    <3> HIDE DEF up, low
    <3> QED
      BY <2>1, <2>4, <3>1, <3>2
  <2> QED
    BY <2>3, <2>4
<1>6. Rank(S, W) = Cardinality(S)
  <2>1. {q \in S : q < W} = S
    BY <1>0
  <2> QED
    BY <2>1 DEF Rank
<1> QED
  BY <1>1, <1>3, <1>4, <1>5, <1>6

(* Where every position counts, the rank is the position.                  *)
LEMMA RankOfBits ==
  ASSUME NEW i \in 0 .. W
  PROVE  Rank(Bits, i) = i
<1> DEFINE P == {j \in 0 .. W : Rank(Bits, j) = j}
<1>0. W \in Nat /\ W > 0 /\ Bits \in Word
  BY WAssumption DEF Word
<1>1. 0 \in P
  BY <1>0, RankSteps
<1>2. ASSUME NEW j \in 0 .. (W - 1), j \in P PROVE j + 1 \in P
  <2>1. j \in Bits /\ j \in Int
    BY <1>0 DEF Bits
  <2>2. Rank(Bits, j + 1) = Rank(Bits, j) + 1
    BY <1>0, <2>1, RankSteps
  <2> QED
    BY <1>0, <1>2, <2>1, <2>2
<1> HIDE DEF P
<1>3. i \in P
  BY <1>1, <1>2, Upwards
<1> QED
  BY <1>3 DEF P

-----------------------------------------------------------------------------
(* The number that the bits of w at the positions of S make, as if no      *)
(* other position were there, and the sums it is made of.                  *)
Terms(S, w) == [i \in 0 .. (W - 1) |-> IF i \in S \cap w THEN 2 ^ Rank(S, i) ELSE 0]
Partial(S, w) == CHOOSE f : IsSum(Terms(S, w), f, W)
Value(S, w) == Partial(S, w)[W]

(* The sums are natural numbers, and each adds one term to the one before. *)
LEMMA PartialSteps ==
  ASSUME NEW S \in Word, NEW w
  PROVE  /\ Partial(S, w) \in [0 .. W -> Nat]
         /\ Partial(S, w)[0] = 0
         /\ \A i \in 0 .. (W - 1) :
              Partial(S, w)[i + 1] = Partial(S, w)[i] + IF i \in S \cap w THEN 2 ^ Rank(S, i) ELSE 0
         /\ Value(S, w) \in Nat
<1>0. W \in Nat /\ W > 0
  BY WAssumption
<1> DEFINE g == Terms(S, w)
<1>1. g \in [0 .. (W - 1) -> Nat]
  <2>1. \A i \in 0 .. (W - 1) : i \in 0 .. W
    BY <1>0
  <2>2. \A i \in 0 .. (W - 1) : 2 ^ Rank(S, i) \in Nat
    BY <2>1, RankSteps, PowerDoubles
  <2> QED
    BY <2>2 DEF Terms
<1>2. \E f : IsSum(g, f, W)
  BY <1>1, SumExists DEF IsSum
<1>3. IsSum(g, Partial(S, w), W)
  BY <1>2 DEF Partial
<1> DEFINE p == Partial(S, w)
<1>4. p \in [0 .. W -> Nat] /\ p = [i \in 0 .. W |-> IF i = 0 THEN 0 ELSE p[i - 1] + g[i - 1]]
  BY <1>3 DEF IsSum
<1>5. \A i \in 0 .. (W - 1) : g[i] = IF i \in S \cap w THEN 2 ^ Rank(S, i) ELSE 0
  BY DEF Terms
<1> HIDE DEF p, g
<1>6. p[0] = 0
  BY <1>0, <1>4
<1>7. ASSUME NEW i \in 0 .. (W - 1) PROVE p[i + 1] = p[i] + g[i]
  <2>1. i + 1 \in 0 .. W /\ i + 1 # 0 /\ (i + 1) - 1 = i
    BY <1>0
  <2> QED
    BY <1>4, <2>1
<1>8. p[W] \in Nat
  BY <1>0, <1>4
<1> QED
  BY <1>4, <1>5, <1>6, <1>7, <1>8 DEF p, Value

(* Below a position of S no sum reaches the weight of that position.       *)
LEMMA PartialBounded ==
  ASSUME NEW S \in Word, NEW w, NEW i \in 0 .. W
  PROVE  Partial(S, w)[i] < 2 ^ Rank(S, i)
<1> DEFINE p == Partial(S, w)
           P == {j \in 0 .. W : p[j] < 2 ^ Rank(S, j)}
<1>0. W \in Nat /\ W > 0
  BY WAssumption
<1>1. 0 \in P
  BY <1>0, RankSteps, PartialSteps, PowerDoubles
<1>2. ASSUME NEW j \in 0 .. (W - 1), j \in P PROVE j + 1 \in P
  <2>1. j \in 0 .. W /\ j + 1 \in 0 .. W
    BY <1>0
  <2>2. Rank(S, j) \in Nat /\ Rank(S, j + 1) = Rank(S, j) + IF j \in S THEN 1 ELSE 0
    BY <2>1, RankSteps
  <2>3. 2 ^ Rank(S, j) \in Nat \ {0} /\ 2 ^ (Rank(S, j) + 1) = 2 ^ Rank(S, j) + 2 ^ Rank(S, j)
    BY <2>2, PowerDoubles
  <2>a. p \in [0 .. W -> Nat]
        /\ p[j + 1] = p[j] + IF j \in S \cap w THEN 2 ^ Rank(S, j) ELSE 0
    BY <1>2, PartialSteps
  <2>4. p[j] \in Nat /\ p[j] < 2 ^ Rank(S, j)
        /\ p[j + 1] = p[j] + IF j \in S \cap w THEN 2 ^ Rank(S, j) ELSE 0
    BY <1>2, <2>1, <2>a
  <2> HIDE DEF p
  <2>5. CASE j \in S
    <3>1. 2 ^ Rank(S, j + 1) = 2 ^ Rank(S, j) + 2 ^ Rank(S, j)
      BY <2>2, <2>3, <2>5
    <3> QED
      BY <2>1, <2>3, <2>4, <3>1
  <2>6. CASE j \notin S
    <3>1. Rank(S, j + 1) = Rank(S, j)
      BY <2>2, <2>6
    <3> QED
      BY <2>1, <2>3, <2>4, <2>6, <3>1
  <2> QED
    BY <2>5, <2>6
<1> HIDE DEF P
<1>3. i \in P
  BY <1>1, <1>2, Upwards
<1> QED
  BY <1>3 DEF P

(* The integer a word stands for is its value over all positions.          *)
LEMMA ToNatIsValue ==
  ASSUME NEW w \in Word
  PROVE  ToNat(w) = Value(Bits, w)
<1>0. W \in Nat /\ W > 0 /\ Bits \in Word /\ w \subseteq Bits
  BY WAssumption DEF Word
<1> DEFINE Sums(f) == f = [i \in 0 .. W |-> IF i = 0 THEN 0
                             ELSE f[i - 1] + (IF i - 1 \in w THEN 2 ^ (i - 1) ELSE 0)]
           s == CHOOSE f : Sums(f)
           p == Partial(Bits, w)
<1>1. ToNat(w) = s[W]
  BY DEF ToNat
<1>2. p \in [0 .. W -> Nat] /\ p[0] = 0
      /\ \A i \in 0 .. (W - 1) : p[i + 1] = p[i] + IF i \in w THEN 2 ^ i ELSE 0
  <2>1. \A i \in 0 .. (W - 1) : i \in 0 .. W /\ Rank(Bits, i) = i
    BY <1>0, RankOfBits
  <2> QED
    BY <1>0, <2>1, PartialSteps
<1> HIDE DEF p
<1>3. Sums(p)
  <2>1. ASSUME NEW i \in 0 .. W
        PROVE  p[i] = IF i = 0 THEN 0 ELSE p[i - 1] + (IF i - 1 \in w THEN 2 ^ (i - 1) ELSE 0)
    <3>1. CASE i # 0
      <4>1. i - 1 \in 0 .. (W - 1) /\ (i - 1) + 1 = i
        BY <1>0, <3>1
      <4>2. p[(i - 1) + 1] = p[i - 1] + (IF i - 1 \in w THEN 2 ^ (i - 1) ELSE 0)
        BY <1>2, <4>1
      <4> QED
        BY <3>1, <4>1, <4>2
    <3> QED
      BY <1>2, <3>1
  <2> QED
    BY <1>2, <2>1
<1>4. Sums(s)
  BY <1>3
<1>5. s[0] = 0 /\ \A i \in 0 .. (W - 1) : s[i + 1] = s[i] + IF i \in w THEN 2 ^ i ELSE 0
  <2> HIDE DEF s
  <2>1. s = [i \in 0 .. W |-> IF i = 0 THEN 0
                  ELSE s[i - 1] + (IF i - 1 \in w THEN 2 ^ (i - 1) ELSE 0)]
    BY <1>4
  <2>2. s[0] = 0
    BY <1>0, <2>1
  <2>3. ASSUME NEW i \in 0 .. (W - 1) PROVE s[i + 1] = s[i] + IF i \in w THEN 2 ^ i ELSE 0
    <3>1. i + 1 \in 0 .. W /\ i + 1 # 0 /\ (i + 1) - 1 = i
      BY <1>0
    <3> QED
      BY <2>1, <3>1
  <2> QED
    BY <2>2, <2>3
<1> HIDE DEF s
<1> DEFINE P == {j \in 0 .. W : s[j] = p[j]}
<1>6. 0 \in P
  BY <1>0, <1>2, <1>5
<1>7. ASSUME NEW j \in 0 .. (W - 1), j \in P PROVE j + 1 \in P
  <2>1. j + 1 \in 0 .. W
    BY <1>0
  <2> QED
    BY <1>2, <1>5, <1>7, <2>1
<1> HIDE DEF P
<1>8. W \in 0 .. W /\ \A i \in 0 .. W : i \in P
  BY <1>0, <1>6, <1>7, Upwards
<1>9. s[W] = p[W]
  BY <1>8 DEF P
<1> QED
  BY <1>1, <1>9 DEF Value, p

(* The highest bit of S in which two words differ decides which has the    *)
(* greater value.                                                          *)
LEMMA ValueOrder ==
  ASSUME NEW S \in Word, NEW x \in Word, NEW y \in Word, Lt(x \cap S, y \cap S)
  PROVE  Value(S, x) < Value(S, y)
<1>0. W \in Nat /\ W > 0 /\ \A i \in Bits : i \in 0 .. (W - 1)
  BY WAssumption DEF Bits
<1>1. PICK i \in (y \cap S) \ (x \cap S) : \A j \in (x \cap S) \ (y \cap S) : j < i
  BY DEF Lt
<1>2. i \in 0 .. (W - 1) /\ i \in S /\ i \in y /\ i \notin x
  BY <1>0, <1>1 DEF Word
<1> DEFINE p == Partial(S, x)
           q == Partial(S, y)
           P == {j \in 0 .. W : j <= i \/ p[j] < q[j]}
<1>3. /\ \A j \in 0 .. W : p[j] \in Nat /\ q[j] \in Nat
      /\ \A j \in 0 .. (W - 1) :
           /\ p[j + 1] = p[j] + IF j \in S \cap x THEN 2 ^ Rank(S, j) ELSE 0
           /\ q[j + 1] = q[j] + IF j \in S \cap y THEN 2 ^ Rank(S, j) ELSE 0
  <2>1. /\ p \in [0 .. W -> Nat]
        /\ \A j \in 0 .. (W - 1) :
             p[j + 1] = p[j] + IF j \in S \cap x THEN 2 ^ Rank(S, j) ELSE 0
    BY PartialSteps
  <2>2. /\ q \in [0 .. W -> Nat]
        /\ \A j \in 0 .. (W - 1) :
             q[j + 1] = q[j] + IF j \in S \cap y THEN 2 ^ Rank(S, j) ELSE 0
    BY PartialSteps
  <2> HIDE DEF p, q
  <2> QED
    BY <2>1, <2>2
<1>4. p[i] < 2 ^ Rank(S, i)
  BY <1>0, <1>2, PartialBounded
<1>5. \A j \in 0 .. (W - 1) : j \in 0 .. W /\ j + 1 \in 0 .. W
  BY <1>0
<1>6. \A j \in 0 .. (W - 1) : 2 ^ Rank(S, j) \in Nat \ {0}
  BY <1>5, RankSteps, PowerDoubles
<1> HIDE DEF p, q
<1>7. 0 \in P
  BY <1>0, <1>2
<1>8. ASSUME NEW j \in 0 .. (W - 1), j \in P PROVE j + 1 \in P
  <2>1. p[j] \in Nat /\ q[j] \in Nat /\ j + 1 \in 0 .. W /\ 2 ^ Rank(S, j) \in Nat \ {0}
    BY <1>3, <1>5, <1>6
  <2>2. /\ p[j + 1] = p[j] + IF j \in S \cap x THEN 2 ^ Rank(S, j) ELSE 0
        /\ q[j + 1] = q[j] + IF j \in S \cap y THEN 2 ^ Rank(S, j) ELSE 0
    BY <1>3
  <2>3. CASE j < i
    BY <1>2, <2>1, <2>3
  <2>4. CASE j = i
    BY <1>2, <1>4, <2>1, <2>2, <2>4
  <2>5. CASE j > i
    <3>1. j \in S \cap x => j \in S \cap y
      BY <1>1, <1>2, <2>5
    <3>2. p[j] < q[j]
      BY <1>2, <1>8, <2>5
    <3> QED
      BY <2>1, <2>2, <3>1, <3>2
  <2> QED
    BY <1>2, <2>3, <2>4, <2>5
<1> HIDE DEF P
<1>9. \A j \in 0 .. W : j \in P
  BY <1>7, <1>8, Upwards
<1>10. p[W] < q[W]
  BY <1>0, <1>2, <1>9 DEF P
<1> QED
  BY <1>10 DEF p, q, Value

(* So values are ordered as the words are, read at the positions of S      *)
(* only.                                                                   *)
LEMMA ValueCompares ==
  ASSUME NEW S \in Word, NEW x \in Word, NEW y \in Word
  PROVE  /\ Value(S, x) < Value(S, y) <=> Lt(x \cap S, y \cap S)
         /\ Value(S, x) <= Value(S, y) <=> Le(x \cap S, y \cap S)
         /\ Value(S, x) = Value(S, y) <=> x \cap S = y \cap S
<1>1. Value(S, x) \in Nat /\ Value(S, y) \in Nat
  BY PartialSteps
<1>2. x \cap S \in Word /\ y \cap S \in Word
  BY DEF Word
<1>3. ASSUME x \cap S = y \cap S PROVE Value(S, x) = Value(S, y)
  <2>1. Terms(S, x) = Terms(S, y)
    <3>1. \A i : i \in S \cap x <=> i \in S \cap y
      BY <1>3
    <3> QED
      BY <3>1 DEF Terms
  <2> QED
    BY <2>1, Zenon DEF Value, Partial
<1>4. x \cap S = y \cap S \/ Lt(x \cap S, y \cap S) \/ Lt(y \cap S, x \cap S)
  BY <1>2, LtTotal
<1>5. Lt(x \cap S, y \cap S) => Value(S, x) < Value(S, y)
  BY ValueOrder
<1>6. Lt(y \cap S, x \cap S) => Value(S, y) < Value(S, x)
  BY ValueOrder
<1>7. Lt(x \cap S, y \cap S) => ~Lt(y \cap S, x \cap S) /\ x \cap S # y \cap S
  BY <1>2, LtAsymmetric
<1>8. Lt(y \cap S, x \cap S) => x \cap S # y \cap S
  BY <1>2, LtAsymmetric
<1>9. Le(x \cap S, y \cap S) <=> x \cap S = y \cap S \/ Lt(x \cap S, y \cap S)
  BY DEF Le
<1> DEFINE u == Value(S, x)
           v == Value(S, y)
           eq == x \cap S = y \cap S
           lt == Lt(x \cap S, y \cap S)
           gt == Lt(y \cap S, x \cap S)
<1> HIDE DEF u, v
<1> SUFFICES /\ u < v <=> lt
             /\ u <= v <=> Le(x \cap S, y \cap S)
             /\ u = v <=> eq
  BY DEF u, v
<1>10. u \in Nat /\ v \in Nat /\ (eq => u = v) /\ (lt => u < v) /\ (gt => v < u)
  BY <1>1, <1>3, <1>5, <1>6 DEF u, v
<1>11. (eq \/ lt \/ gt) /\ (Le(x \cap S, y \cap S) <=> eq \/ lt)
  BY <1>4, <1>9
<1> HIDE DEF eq, lt, gt
<1> QED
  BY <1>10, <1>11

(* Every number short of 2^|S| is the value of one set of positions.       *)
LEMMA ValueOnto ==
  ASSUME NEW S \in Word
  PROVE  /\ 2 ^ Cardinality(S) \in Nat \ {0}
         /\ \A w : Value(S, w) \in 0 .. (2 ^ Cardinality(S) - 1)
         /\ \A n \in 0 .. (2 ^ Cardinality(S) - 1) : \E x \in SUBSET S : Value(S, x) = n
<1> DEFINE size == 2 ^ Cardinality(S)
           N == 0 .. (size - 1)
           f == [x \in SUBSET S |-> Value(S, x)]
<1>0. W \in 0 .. W
  BY WAssumption
<1>1. IsFiniteSet(S) /\ Rank(S, W) = Cardinality(S) /\ Cardinality(S) \in Nat
  BY <1>0, RankSteps
<1>2. size \in Nat \ {0}
  BY <1>1, PowerDoubles
<1>3. IsFiniteSet(SUBSET S) /\ Cardinality(SUBSET S) = size
  BY <1>1, FS_SUBSET
<1>4. ASSUME NEW w PROVE Value(S, w) \in N
  <2>1. Value(S, w) \in Nat
    BY PartialSteps
  <2>2. Value(S, w) < size
    BY <1>0, <1>1, PartialBounded DEF Value
  <2> QED
    BY <1>2, <2>1, <2>2
<1>5. IsFiniteSet(N) /\ Cardinality(N) = size
  <2>1. size - 1 \in Int /\ ~(0 > size - 1) /\ (size - 1) - 0 + 1 = size
    BY <1>2
  <2> QED
    BY <2>1, FS_Interval
<1>6. f \in Injection(SUBSET S, N)
  <2>1. f \in [SUBSET S -> N]
    BY <1>4
  <2>2. \A x, y \in SUBSET S : f[x] = f[y] => x = y
    <3> SUFFICES ASSUME NEW x \in SUBSET S, NEW y \in SUBSET S, Value(S, x) = Value(S, y)
                 PROVE  x = y
      OBVIOUS
    <3>1. x \in Word /\ y \in Word /\ x \cap S = x /\ y \cap S = y
      BY DEF Word
    <3> QED
      BY <3>1, ValueCompares
  <2> HIDE DEF f, N
  <2> QED
    BY <2>1, <2>2 DEF Injection, IsInjective
<1> HIDE DEF f, N, size
<1>7. f \in Surjection(SUBSET S, N)
  BY <1>3, <1>5, <1>6, FS_Injection
<1>8. \A n \in N : \E x \in SUBSET S : f[x] = n
  BY <1>7 DEF Surjection
<1> QED
  BY <1>2, <1>4, <1>8 DEF f, N, size

(* The next set of positions of S has the next value.                      *)
LEMMA ValueUp ==
  ASSUME NEW S \in Word, NEW x, x \subseteq S, x # S
  PROVE  Up(S, x) \subseteq S /\ Value(S, Up(S, x)) = Value(S, x) + 1
<1>1. /\ Up(S, x) \subseteq S
      /\ \A y \in SUBSET S : Lt(y, Up(S, x)) <=> Le(y, x)
  BY UpIsNext
<1>2. x \in Word /\ x \in SUBSET S /\ x \cap S = x /\ S \cap S = S
      /\ Up(S, x) \in Word /\ Up(S, x) \cap S = Up(S, x)
  BY <1>1 DEF Word
<1> DEFINE u == Up(S, x)
           a == Value(S, x)
           b == Value(S, u)
<1>3. a \in Nat /\ b \in Nat /\ a \in 0 .. (2 ^ Cardinality(S) - 1)
      /\ b \in 0 .. (2 ^ Cardinality(S) - 1) /\ 2 ^ Cardinality(S) \in Nat
  BY ValueOnto, PartialSteps
<1> HIDE DEF u
<1>4. a < b
  <2>1. Lt(x, u)
    BY <1>1, <1>2 DEF Le, u
  <2> QED
    BY <1>2, <2>1, ValueCompares DEF u
<1>5. ~(a + 1 < b)
  <2> SUFFICES ASSUME a + 1 < b PROVE FALSE
    OBVIOUS
  <2>1. a + 1 \in 0 .. (2 ^ Cardinality(S) - 1)
    BY <1>3
  <2>2. PICK y \in SUBSET S : Value(S, y) = a + 1
    BY <2>1, ValueOnto
  <2>3. y \in Word /\ y \cap S = y
    BY DEF Word
  <2>4. Lt(y, u)
    BY <1>2, <2>2, <2>3, ValueCompares DEF u
  <2>5. Le(y, x)
    BY <1>1, <2>4 DEF u
  <2>6. Value(S, y) <= a
    <3>1. Le(y \cap S, x \cap S)
      BY <1>2, <2>3, <2>5, Zenon
    <3> QED
      BY <1>2, <2>3, <3>1, ValueCompares
  <2> HIDE DEF a
  <2> QED
    BY <1>3, <2>2, <2>6
<1> HIDE DEF a, b
<1>6. b = a + 1
  BY <1>3, <1>4, <1>5
<1> QED
  BY <1>1, <1>6 DEF a, b, u

(* And the set of positions before it has the value before.                *)
LEMMA ValueDown ==
  ASSUME NEW S \in Word, NEW x, x \subseteq S, x # {}
  PROVE  Down(S, x) \subseteq S /\ Value(S, Down(S, x)) + 1 = Value(S, x)
<1>1. /\ Down(S, x) \subseteq S
      /\ \A y \in SUBSET S : Lt(Down(S, x), y) <=> Le(x, y)
  BY DownIsNext
<1>2. x \in Word /\ x \in SUBSET S /\ x \cap S = x
      /\ Down(S, x) \in Word /\ Down(S, x) \cap S = Down(S, x)
  BY <1>1 DEF Word
<1> DEFINE u == Down(S, x)
           a == Value(S, x)
           b == Value(S, u)
<1>3. a \in Nat /\ b \in Nat /\ a \in 0 .. (2 ^ Cardinality(S) - 1) /\ 2 ^ Cardinality(S) \in Nat
  BY ValueOnto, PartialSteps
<1> HIDE DEF u
<1>4. b < a
  <2>1. Lt(u, x)
    BY <1>1, <1>2 DEF Le, u
  <2> QED
    BY <1>2, <2>1, ValueCompares DEF u
<1>5. ~(b + 1 < a)
  <2> SUFFICES ASSUME b + 1 < a PROVE FALSE
    OBVIOUS
  <2>1. b + 1 \in 0 .. (2 ^ Cardinality(S) - 1)
    BY <1>3
  <2>2. PICK y \in SUBSET S : Value(S, y) = b + 1
    BY <2>1, ValueOnto
  <2>3. y \in Word /\ y \cap S = y
    BY DEF Word
  <2>4. Lt(u, y)
    <3>1. b < Value(S, y)
      BY <1>3, <2>2
    <3> QED
      BY <1>2, <2>3, <3>1, ValueCompares DEF u
  <2>5. Le(x, y)
    BY <1>1, <2>4 DEF u
  <2>6. a <= Value(S, y)
    <3>1. Le(x \cap S, y \cap S)
      BY <1>2, <2>3, <2>5, Zenon
    <3> QED
      BY <1>2, <2>3, <3>1, ValueCompares
  <2> HIDE DEF a, b
  <2> QED
    BY <1>3, <2>2, <2>6
<1> HIDE DEF a, b
<1>6. b + 1 = a
  BY <1>3, <1>4, <1>5
<1> QED
  BY <1>1, <1>6 DEF a, b, u

(* A lower power of two divides a higher one.                              *)
LEMMA PowerSplits ==
  ASSUME NEW i \in 0 .. W, NEW j \in 0 .. W, i <= j
  PROVE  \E m \in Nat \ {0} : 2 ^ j = 2 ^ i * m
<1> DEFINE P == {l \in 0 .. W : i <= l => \E m \in Nat \ {0} : 2 ^ l = 2 ^ i * m}
<1>0. W \in Nat /\ W > 0 /\ 2 ^ i \in Nat \ {0}
  BY WAssumption, PowerDoubles
<1>1. 2 ^ i = 2 ^ i * 1
  BY <1>0
<1>2. 0 \in P
  <2>1. i <= 0 => 2 ^ 0 = 2 ^ i * 1
    <3>1. i <= 0 => i = 0
      BY <1>0
    <3> QED
      BY <1>1, <3>1
  <2>2. 1 \in Nat \ {0}
    OBVIOUS
  <2>3. i <= 0 => \E m \in Nat \ {0} : 2 ^ 0 = 2 ^ i * m
    BY <2>1, <2>2
  <2> QED
    BY <1>0, <2>3
<1>3. ASSUME NEW l \in 0 .. (W - 1), l \in P PROVE l + 1 \in P
  <2>0. l \in Nat /\ l + 1 \in 0 .. W
    BY <1>0
  <2>1. CASE i <= l
    <3>1. PICK m \in Nat \ {0} : 2 ^ l = 2 ^ i * m
      BY <1>3, <2>1
    <3>2. 2 ^ (l + 1) = 2 ^ l + 2 ^ l
      BY <2>0, PowerDoubles
    <3>3. 2 ^ i * (m + m) = 2 ^ i * m + 2 ^ i * m
      BY <1>0
    <3>4. 2 ^ (l + 1) = 2 ^ i * (m + m) /\ m + m \in Nat \ {0}
      BY <3>1, <3>2, <3>3
    <3> QED
      BY <2>0, <3>4
  <2>2. CASE l + 1 = i
    BY <1>1, <2>0, <2>2
  <2>3. CASE l + 1 < i
    BY <2>0, <2>3
  <2> QED
    BY <2>0, <2>1, <2>2, <2>3
<1> HIDE DEF P
<1>4. j \in P
  BY <1>2, <1>3, Upwards
<1> QED
  BY <1>4 DEF P

(* Reading a bit of the number gives back the bit of the word it came      *)
(* from.                                                                   *)
LEMMA BitOfSum ==
  ASSUME NEW x \in Word, NEW i \in Bits
  PROVE  (Value(Bits, x) \div 2 ^ i) % 2 = IF i \in x THEN 1 ELSE 0
<1>0. /\ W \in Nat /\ W > 0 /\ Bits \in Word /\ i \in 0 .. (W - 1) /\ i \in 0 .. W /\ i + 1 \in 0 .. W
      /\ i \in Nat
  BY WAssumption DEF Bits, Word
<1> DEFINE p == Partial(Bits, x)
           d == 2 ^ i
           b == IF i \in x THEN 1 ELSE 0
           P == {j \in 0 .. W : i + 1 <= j => \E k \in Nat : p[j] = p[i + 1] + (d + d) * k}
<1>1. d \in Nat \ {0} /\ 2 ^ (i + 1) = d + d
  BY <1>0, PowerDoubles
<1>2. \A j \in 0 .. W : p[j] \in Nat
  BY <1>0, PartialSteps
<1>3. ASSUME NEW j \in 0 .. (W - 1)
      PROVE  p[j + 1] = p[j] + IF j \in x THEN 2 ^ j ELSE 0
  <2>1. j \in 0 .. W /\ j \in Bits
    BY <1>0 DEF Bits
  <2>2. Rank(Bits, j) = j
    BY <2>1, RankOfBits
  <2>3. p[j + 1] = p[j] + IF j \in Bits \cap x THEN 2 ^ Rank(Bits, j) ELSE 0
    BY <1>0, PartialSteps
  <2> QED
    BY <2>1, <2>2, <2>3
<1>4. p[i] < d
  BY <1>0, RankOfBits, PartialBounded
<1> HIDE DEF p, d
<1>5. 0 \in P
  BY <1>0
<1>6. ASSUME NEW j \in 0 .. (W - 1), j \in P PROVE j + 1 \in P
  <2>0. j \in Nat /\ j + 1 \in 0 .. W /\ j \in 0 .. W
    BY <1>0
  <2>1. CASE i + 1 <= j
    <3>1. PICK k \in Nat : p[j] = p[i + 1] + (d + d) * k
      BY <1>6, <2>1
    <3>2. PICK m \in Nat \ {0} : 2 ^ j = 2 ^ (i + 1) * m
      BY <1>0, <2>0, <2>1, PowerSplits
    <3>3. 2 ^ j = (d + d) * m
      BY <1>1, <3>2
    <3>4. p[j] \in Nat /\ p[i + 1] \in Nat /\ p[j + 1] = p[j] + IF j \in x THEN 2 ^ j ELSE 0
      BY <1>0, <1>2, <1>3, <2>0
    <3>5. (d + d) * (k + m) = (d + d) * k + (d + d) * m /\ (d + d) * k \in Nat /\ (d + d) * m \in Nat
      BY <1>1
    <3>6. CASE j \in x
      <4>1. p[j + 1] = p[i + 1] + (d + d) * (k + m)
        BY <3>1, <3>3, <3>4, <3>5, <3>6
      <4>2. k + m \in Nat
        OBVIOUS
      <4> QED
        BY <2>0, <4>1, <4>2
    <3>7. CASE j \notin x
      BY <2>0, <3>1, <3>4, <3>7
    <3> QED
      BY <3>6, <3>7
  <2>2. CASE j = i
    <3>1. p[i + 1] = p[i + 1] + (d + d) * 0
      BY <1>0, <1>1, <1>2
    <3> QED
      BY <2>0, <2>2, <3>1
  <2>3. CASE j < i
    BY <1>0, <2>0, <2>3
  <2> QED
    BY <1>0, <2>0, <2>1, <2>2, <2>3
<1> HIDE DEF P
<1>7. W \in P /\ W \in 0 .. W /\ i + 1 <= W
  BY <1>0, <1>5, <1>6, Upwards
<1>8. PICK k \in Nat : p[W] = p[i + 1] + (d + d) * k
  BY <1>7 DEF P
<1>9. p[i + 1] = p[i] + b * d /\ b \in {0, 1} /\ p[i] \in Nat
  BY <1>0, <1>1, <1>2, <1>3 DEF d
<1> HIDE DEF b
<1>10. p[W] = d * (b + 2 * k) + p[i]
  <2>1. d * (b + 2 * k) = d * b + d * (2 * k)
    BY <1>1, <1>9
  <2>2. (d + d) * k = d * (2 * k) /\ b * d = d * b
    BY <1>1, <1>9
  <2>3. d * b \in Nat /\ d * (2 * k) \in Nat
    BY <1>1, <1>9
  <2> QED
    BY <1>8, <1>9, <2>1, <2>2, <2>3
<1>11. b + 2 * k \in Nat /\ p[W] \in Nat
  BY <1>2, <1>7, <1>9
<1>12. p[W] \div d = b + 2 * k
  BY <1>1, <1>4, <1>9, <1>10, <1>11
<1>13. (b + 2 * k) % 2 = b
  BY <1>9
<1> QED
  BY <1>12, <1>13 DEF p, d, b, Value

(* Words and the integers below 2^W correspond one to one.                 *)
LEMMA NumberOfWord ==
  ASSUME NEW x \in Word
  PROVE  /\ ToNat(x) \in 0 .. (2 ^ W - 1)
         /\ FromNat(ToNat(x)) = x
         /\ ToNat(x) = Value(Bits, x)
<1>0. Bits \in Word /\ W \in Nat /\ W \in 0 .. W
  BY WAssumption DEF Word
<1>1. ToNat(x) = Value(Bits, x)
  BY ToNatIsValue
<1>2. Rank(Bits, W) = W
  BY <1>0, RankOfBits
<1>3. Cardinality(Bits) = W
  BY <1>0, <1>2, RankSteps
<1>4. ToNat(x) \in 0 .. (2 ^ W - 1)
  <2>1. Value(Bits, x) \in 0 .. (2 ^ Cardinality(Bits) - 1)
    BY <1>0, ValueOnto
  <2> QED
    BY <1>1, <1>3, <2>1
<1>5. FromNat(ToNat(x)) = x
  <2>1. \A i \in Bits : (ToNat(x) \div 2 ^ i) % 2 = 1 <=> i \in x
    BY <1>1, BitOfSum
  <2> QED
    BY <2>1 DEF FromNat, Word
<1> QED
  BY <1>1, <1>4, <1>5

(* And every number below 2^W is the number of the word FromNat makes of   *)
(* it.                                                                     *)
LEMMA WordOfNumber ==
  /\ 2 ^ W \in Nat \ {0}
  /\ Cardinality(Bits) = W /\ Bits \in Word
  /\ \A n \in 0 .. (2 ^ W - 1) : FromNat(n) \in Word /\ ToNat(FromNat(n)) = n
<1>0. Bits \in Word /\ W \in Nat /\ W \in 0 .. W
  BY WAssumption DEF Word
<1>1. Cardinality(Bits) = W
  BY <1>0, RankOfBits, RankSteps
<1>2. 2 ^ W \in Nat \ {0}
  BY <1>0, PowerDoubles
<1>3. ASSUME NEW n \in 0 .. (2 ^ W - 1) PROVE FromNat(n) \in Word /\ ToNat(FromNat(n)) = n
  <2>1. \E x \in SUBSET Bits : Value(Bits, x) = n
    BY <1>0, <1>1, ValueOnto
  <2>2. PICK x \in Word : Value(Bits, x) = n
    BY <2>1 DEF Word
  <2>3. ToNat(x) = n /\ FromNat(ToNat(x)) = x
    BY <2>2, NumberOfWord
  <2> QED
    BY <2>3
<1> QED
  BY <1>0, <1>1, <1>2, <1>3

-----------------------------------------------------------------------------
(* Sums that wrap, read over any positions S: where S skips a position,    *)
(* the carry must run across it (addr_iterator.go, the scattered branches  *)
(* of Nth and NthBack).                                                    *)

(* The weight of a final carry c.                                          *)
Wrapped(c, w) == IF c = 1 THEN w ELSE 0

(* One position of an addition: two sums of digits that agree with a carry *)
(* out agree, one digit lower, with some carry in.                         *)
LEMMA CarryArithmetic ==
  ASSUME NEW d \in Nat \ {0}, NEW p \in Nat, NEW q \in Nat, NEW r \in Nat,
         p < d, q < d, r < d,
         NEW u \in {0, 1}, NEW v \in {0, 1}, NEW w \in {0, 1}, NEW c \in {0, 1},
         p + (IF u = 1 THEN d ELSE 0) + q + (IF v = 1 THEN d ELSE 0)
           = r + (IF w = 1 THEN d ELSE 0) + IF c = 1 THEN d + d ELSE 0
  PROVE  \E e \in {0, 1} : p + q = r + (IF e = 1 THEN d ELSE 0) /\ u + v + e = w + 2 * c
<1>1. \/ p + q = r /\ u + v + 0 = w + 2 * c
      \/ p + q = r + d /\ u + v + 1 = w + 2 * c
  OBVIOUS
<1>2. CASE p + q = r /\ u + v + 0 = w + 2 * c
  BY <1>2
<1>3. CASE p + q = r + d /\ u + v + 1 = w + 2 * c
  BY <1>3
<1> QED
  BY <1>1, <1>2, <1>3

(* The carry into a position, found from the carry out of it.              *)
LEMMA CarryRunsDown ==
  ASSUME NEW a \in Word, NEW b \in Word, NEW s \in Word, NEW i \in 0 .. (W - 1), NEW c \in {0, 1},
         Partial(Bits, a)[i + 1] + Partial(Bits, b)[i + 1]
           = Partial(Bits, s)[i + 1] + Wrapped(c, 2 ^ (i + 1))
  PROVE  \E d \in {0, 1} :
           /\ Partial(Bits, a)[i] + Partial(Bits, b)[i] = Partial(Bits, s)[i] + Wrapped(d, 2 ^ i)
           /\ (IF i \in a THEN 1 ELSE 0) + (IF i \in b THEN 1 ELSE 0) + d
                = (IF i \in s THEN 1 ELSE 0) + 2 * c
<1>0. /\ W \in Nat /\ W > 0 /\ Bits \in Word /\ i \in 0 .. W /\ i + 1 \in 0 .. W /\ i \in Nat
      /\ i \in Bits
  BY WAssumption DEF Bits, Word
<1> DEFINE p == Partial(Bits, a)
           q == Partial(Bits, b)
           r == Partial(Bits, s)
           d == 2 ^ i
<1>1. d \in Nat \ {0} /\ 2 ^ (i + 1) = d + d
  BY <1>0, PowerDoubles
<1>2. Rank(Bits, i) = i
  BY <1>0, RankOfBits
<1>3. ASSUME NEW x \in Word
      PROVE  /\ Partial(Bits, x)[i] \in Nat /\ Partial(Bits, x)[i] < d
             /\ Partial(Bits, x)[i + 1] = Partial(Bits, x)[i] + IF i \in x THEN d ELSE 0
  <2>a. Partial(Bits, x) \in [0 .. W -> Nat]
    BY <1>0, PartialSteps
  <2>b. Bits \in Word
    BY <1>0
  <2>1. Partial(Bits, x)[i + 1] = Partial(Bits, x)[i] + IF i \in Bits \cap x THEN 2 ^ Rank(Bits, i) ELSE 0
    <3> HIDE DEF p, q, r, d
    <3>1. \A j \in 0 .. (W - 1) :
            Partial(Bits, x)[j + 1] = Partial(Bits, x)[j] + IF j \in Bits \cap x THEN 2 ^ Rank(Bits, j) ELSE 0
      BY <2>b, PartialSteps
    <3> QED
      BY <3>1
  <2>2. Partial(Bits, x)[i] < d
    BY <1>0, <1>2, PartialBounded
  <2> QED
    BY <1>0, <1>2, <2>1, <2>2, <2>a
<1>4. /\ p[i] \in Nat /\ p[i] < d /\ p[i + 1] = p[i] + IF i \in a THEN d ELSE 0
      /\ q[i] \in Nat /\ q[i] < d /\ q[i + 1] = q[i] + IF i \in b THEN d ELSE 0
      /\ r[i] \in Nat /\ r[i] < d /\ r[i + 1] = r[i] + IF i \in s THEN d ELSE 0
  BY <1>3
<1>5. p[i + 1] + q[i + 1] = r[i + 1] + IF c = 1 THEN d + d ELSE 0
  BY <1>1 DEF Wrapped
<1>6. \E e \in {0, 1} :
        /\ p[i] + q[i] = r[i] + IF e = 1 THEN d ELSE 0
        /\ (IF i \in a THEN 1 ELSE 0) + (IF i \in b THEN 1 ELSE 0) + e
             = (IF i \in s THEN 1 ELSE 0) + 2 * c
  <2> DEFINE u == IF i \in a THEN 1 ELSE 0
             v == IF i \in b THEN 1 ELSE 0
             w == IF i \in s THEN 1 ELSE 0
  <2>1. /\ u \in {0, 1} /\ v \in {0, 1} /\ w \in {0, 1}
        /\ (i \in a <=> u = 1) /\ (i \in b <=> v = 1) /\ (i \in s <=> w = 1)
    OBVIOUS
  <2> HIDE DEF p, q, r, d, u, v, w
  <2>2. p[i] + (IF u = 1 THEN d ELSE 0) + q[i] + (IF v = 1 THEN d ELSE 0)
          = r[i] + (IF w = 1 THEN d ELSE 0) + IF c = 1 THEN d + d ELSE 0
    BY <1>1, <1>4, <1>5, <2>1
  <2>3. \E e \in {0, 1} : p[i] + q[i] = r[i] + (IF e = 1 THEN d ELSE 0) /\ u + v + e = w + 2 * c
    BY <1>1, <1>4, <2>1, <2>2, CarryArithmetic
  <2> QED
    BY <2>3 DEF u, v, w
<1> QED
  BY <1>6 DEF Wrapped

(* At a skipped position the carry in is the carry out, so the sum over S  *)
(* is the sum of the words with the same final carry.                      *)
LEMMA SumTransfers ==
  ASSUME NEW S \in Word, NEW a \in Word, NEW b \in Word, NEW s \in Word, NEW c \in {0, 1},
         ToNat(a) + ToNat(b) = ToNat(s) + Wrapped(c, 2 ^ W),
         \A i \in Bits \ S : i \notin b /\ (i \in a \/ i \notin s)
  PROVE  Value(S, a) + Value(S, b) = Value(S, s) + Wrapped(c, 2 ^ Cardinality(S))
<1>0. W \in Nat /\ W > 0 /\ Bits \in Word
  BY WAssumption DEF Word
<1> DEFINE p == Partial(Bits, a)
           q == Partial(Bits, b)
           r == Partial(Bits, s)
           Here(i, e) == p[i] + q[i] = r[i] + Wrapped(e, 2 ^ i)
           There(i, e) == Partial(S, a)[i] + Partial(S, b)[i]
                            = Partial(S, s)[i] + Wrapped(e, 2 ^ Rank(S, i))
           P == {i \in 0 .. W : \A e \in {0, 1} : Here(i, e) => There(i, e)}
<1>1. 0 \in P
  <2>1. p[0] = 0 /\ q[0] = 0 /\ r[0] = 0
    BY <1>0, PartialSteps
  <2>2. 2 ^ 0 = 1
    OBVIOUS
  <2>3. ASSUME NEW e \in {0, 1}, Here(0, e) PROVE e = 0
    BY <2>1, <2>2, <2>3 DEF Wrapped
  <2>4. There(0, 0)
    BY PartialSteps DEF Wrapped
  <2> HIDE DEF Here, There
  <2> QED
    BY <1>0, <2>3, <2>4
<1>2. ASSUME NEW i \in 0 .. (W - 1), i \in P PROVE i + 1 \in P
  <2>0. i \in 0 .. W /\ i + 1 \in 0 .. W /\ i \in Bits /\ i \in Nat
    BY <1>0 DEF Bits
  <2>1. SUFFICES ASSUME NEW e \in {0, 1}, Here(i + 1, e) PROVE There(i + 1, e)
    BY <2>0
  <2>2. PICK d \in {0, 1} :
          /\ Here(i, d)
          /\ (IF i \in a THEN 1 ELSE 0) + (IF i \in b THEN 1 ELSE 0) + d
               = (IF i \in s THEN 1 ELSE 0) + 2 * e
    BY <2>1, CarryRunsDown
  <2>3. There(i, d)
    BY <1>2, <2>2
  <2> DEFINE f == Partial(S, a)
             g == Partial(S, b)
             h == Partial(S, s)
             k == 2 ^ Rank(S, i)
  <2>4. Rank(S, i) \in Nat /\ Rank(S, i + 1) = Rank(S, i) + IF i \in S THEN 1 ELSE 0
    BY <2>0, RankSteps
  <2>5. k \in Nat \ {0} /\ 2 ^ (Rank(S, i) + 1) = k + k
    BY <2>4, PowerDoubles
  <2>6. ASSUME NEW x \in Word
        PROVE  /\ Partial(S, x)[i] \in Nat
               /\ Partial(S, x)[i + 1] = Partial(S, x)[i] + IF i \in S \cap x THEN k ELSE 0
    <3>1. Partial(S, x) \in [0 .. W -> Nat]
      BY PartialSteps
    <3>2. Partial(S, x)[i + 1] = Partial(S, x)[i] + IF i \in S \cap x THEN k ELSE 0
      BY PartialSteps
    <3> QED
      BY <2>0, <3>1, <3>2
  <2>7. /\ f[i] \in Nat /\ f[i + 1] = f[i] + IF i \in S \cap a THEN k ELSE 0
        /\ g[i] \in Nat /\ g[i + 1] = g[i] + IF i \in S \cap b THEN k ELSE 0
        /\ h[i] \in Nat /\ h[i + 1] = h[i] + IF i \in S \cap s THEN k ELSE 0
    BY <2>6
  <2>8. f[i] + g[i] = h[i] + IF d = 1 THEN k ELSE 0
    BY <2>3 DEF Wrapped
  <2>9. CASE i \in S
    <3>1. 2 ^ Rank(S, i + 1) = k + k
      <4>1. Rank(S, i + 1) = Rank(S, i) + 1
        BY <2>4, <2>9
      <4> QED
        BY <2>5, <4>1
    <3>2. /\ f[i + 1] = f[i] + IF i \in a THEN k ELSE 0
          /\ g[i + 1] = g[i] + IF i \in b THEN k ELSE 0
          /\ h[i + 1] = h[i] + IF i \in s THEN k ELSE 0
      BY <2>7, <2>9
    <3>3. f[i + 1] + g[i + 1] = h[i + 1] + IF e = 1 THEN k + k ELSE 0
      <4> HIDE DEF f, g, h, k
      <4>1. d = 0 \/ d = 1
        OBVIOUS
      <4>2. e = 0 \/ e = 1
        OBVIOUS
      <4> QED
        BY <2>2, <2>5, <2>7, <2>8, <3>2, <4>1, <4>2
    <3> QED
      BY <3>1, <3>3 DEF Wrapped
  <2>10. CASE i \notin S
    <3>1. 2 ^ Rank(S, i + 1) = k
      <4>1. Rank(S, i + 1) = Rank(S, i)
        BY <2>4, <2>10
      <4> QED
        BY <4>1
    <3>2. f[i + 1] = f[i] /\ g[i + 1] = g[i] /\ h[i + 1] = h[i]
      BY <2>7, <2>10
    <3>3. d = e
      <4>1. i \notin b /\ (i \in a \/ i \notin s)
        BY <2>0, <2>10
      <4> QED
        BY <2>2, <4>1
    <3> QED
      BY <2>8, <3>1, <3>2, <3>3 DEF Wrapped
  <2> QED
    BY <2>9, <2>10
<1>3. Here(W, c)
  BY NumberOfWord DEF Value
<1> HIDE DEF P, Here, There
<1>4. W \in P
  BY <1>0, <1>1, <1>2, Upwards
<1>5. There(W, c)
  BY <1>3, <1>4 DEF P
<1>6. Rank(S, W) = Cardinality(S)
  BY RankSteps
<1> QED
  BY <1>5, <1>6 DEF There, Value

(* Words with no bit in common add without a carry.                        *)
LEMMA DisjointSum ==
  ASSUME NEW x \in Word, NEW y \in Word, x \cap y = {}
  PROVE  x \cup y \in Word /\ ToNat(x \cup y) = ToNat(x) + ToNat(y)
<1>0. W \in Nat /\ W > 0 /\ Bits \in Word /\ x \cup y \in Word
  BY WAssumption DEF Word
<1> DEFINE p == Partial(Bits, x)
           q == Partial(Bits, y)
           r == Partial(Bits, x \cup y)
           P == {i \in 0 .. W : r[i] = p[i] + q[i]}
<1>1. \A i \in 0 .. (W - 1) : 2 ^ Rank(Bits, i) \in Nat
  <2>1. \A i \in 0 .. (W - 1) : i \in 0 .. W
    BY <1>0
  <2> QED
    BY <1>0, <2>1, RankSteps, PowerDoubles
<1>2. /\ p \in [0 .. W -> Nat] /\ p[0] = 0
      /\ \A i \in 0 .. (W - 1) :
           p[i + 1] = p[i] + IF i \in Bits \cap x THEN 2 ^ Rank(Bits, i) ELSE 0
  BY <1>0, PartialSteps
<1>3. /\ q \in [0 .. W -> Nat] /\ q[0] = 0
      /\ \A i \in 0 .. (W - 1) :
           q[i + 1] = q[i] + IF i \in Bits \cap y THEN 2 ^ Rank(Bits, i) ELSE 0
  BY <1>0, PartialSteps
<1>4. /\ r \in [0 .. W -> Nat] /\ r[0] = 0
      /\ \A i \in 0 .. (W - 1) :
           r[i + 1] = r[i] + IF i \in Bits \cap (x \cup y) THEN 2 ^ Rank(Bits, i) ELSE 0
  BY <1>0, PartialSteps
<1> HIDE DEF p, q, r
<1>5. 0 \in P
  BY <1>0, <1>2, <1>3, <1>4
<1>6. ASSUME NEW i \in 0 .. (W - 1), i \in P PROVE i + 1 \in P
  <2>1. i \in 0 .. W /\ i + 1 \in 0 .. W /\ r[i] = p[i] + q[i]
    BY <1>0, <1>6
  <2> DEFINE d == 2 ^ Rank(Bits, i)
  <2>2. /\ p[i + 1] = p[i] + IF i \in Bits \cap x THEN d ELSE 0
        /\ q[i + 1] = q[i] + IF i \in Bits \cap y THEN d ELSE 0
        /\ r[i + 1] = r[i] + IF i \in Bits \cap (x \cup y) THEN d ELSE 0
    BY <1>2, <1>3, <1>4
  <2>3. d \in Nat /\ p[i] \in Nat /\ q[i] \in Nat
    BY <1>1, <1>2, <1>3, <2>1
  <2>4. i \in x => i \notin y
    OBVIOUS
  <2> HIDE DEF d
  <2>5. r[i + 1] = p[i + 1] + q[i + 1]
    BY <2>1, <2>2, <2>3, <2>4
  <2> QED
    BY <2>1, <2>5
<1> HIDE DEF P
<1>7. W \in P
  BY <1>0, <1>5, <1>6, Upwards
<1>8. r[W] = p[W] + q[W]
  BY <1>7 DEF P
<1> QED
  BY <1>0, <1>8, ToNatIsValue DEF Value, p, q, r

(* Where the positions are the lowest ones, the value is the number.       *)
LEMMA LowRunValue ==
  ASSUME NEW S \in Word, \A i \in S : \A j \in 0 .. (i - 1) : j \in S
  PROVE  /\ \A x \in SUBSET S : Value(S, x) = ToNat(x)
         /\ \A n \in 0 .. (2 ^ Cardinality(S) - 1) :
              /\ FromNat(n) \in SUBSET S
              /\ Value(S, FromNat(n)) = n
<1>0. W \in Nat /\ W > 0 /\ Bits \in Word /\ W \in 0 .. W
  BY WAssumption DEF Word
<1>1. ASSUME NEW x \in SUBSET S PROVE Value(S, x) = ToNat(x)
  <2> DEFINE p == Partial(S, x)
             q == Partial(Bits, x)
             P == {i \in 0 .. W : p[i] = q[i]}
  <2>0. x \in Word
    BY DEF Word
  <2>1. /\ p[0] = 0
        /\ \A i \in 0 .. (W - 1) :
             p[i + 1] = p[i] + IF i \in S \cap x THEN 2 ^ Rank(S, i) ELSE 0
    BY PartialSteps
  <2>2. /\ q[0] = 0
        /\ \A i \in 0 .. (W - 1) :
             q[i + 1] = q[i] + IF i \in Bits \cap x THEN 2 ^ Rank(Bits, i) ELSE 0
    BY <1>0, PartialSteps
  <2> HIDE DEF p, q
  <2>3. 0 \in P
    BY <1>0, <2>1, <2>2
  <2>4. ASSUME NEW i \in 0 .. (W - 1), i \in P PROVE i + 1 \in P
    <3>1. i \in 0 .. W /\ i + 1 \in 0 .. W /\ i \in Bits /\ p[i] = q[i]
      BY <1>0, <2>4 DEF Bits
    <3>2. CASE i \in x
      <4>1. {j \in S : j < i} = {j \in Bits : j < i}
        <5>1. i \in S
          BY <3>2
        <5>2. S \subseteq Bits /\ \A j \in Bits : j \in Int /\ 0 <= j
          BY <1>0 DEF Word, Bits
        <5>3. \A j \in Bits : j < i => j \in 0 .. (i - 1)
          BY <3>1, <5>2
        <5> QED
          BY <5>1, <5>2, <5>3
      <4>2. Rank(S, i) = Rank(Bits, i)
        BY <4>1 DEF Rank
      <4>3. i \in S \cap x /\ i \in Bits \cap x
        BY <3>1, <3>2
      <4> QED
        BY <2>1, <2>2, <3>1, <4>2, <4>3
    <3>3. CASE i \notin x
      <4>1. p[i + 1] = p[i] + 0 /\ q[i + 1] = q[i] + 0
        BY <2>1, <2>2, <3>3
      <4> QED
        BY <3>1, <4>1
    <3> QED
      BY <3>2, <3>3
  <2> HIDE DEF P
  <2>5. W \in P
    BY <1>0, <2>3, <2>4, Upwards
  <2>6. p[W] = q[W]
    BY <2>5 DEF P
  <2> QED
    BY <2>0, <2>6, ToNatIsValue DEF Value, p, q
<1>2. ASSUME NEW n \in 0 .. (2 ^ Cardinality(S) - 1)
      PROVE  FromNat(n) \in SUBSET S /\ Value(S, FromNat(n)) = n
  <2>1. PICK x \in SUBSET S : Value(S, x) = n
    BY ValueOnto
  <2>2. x \in Word /\ ToNat(x) = n
    BY <1>1, <2>1 DEF Word
  <2>3. FromNat(n) = x
    BY <2>2, NumberOfWord
  <2> QED
    BY <2>1, <2>3
<1> QED
  BY <1>1, <1>2

(* Bit k of an index goes to the k-th position of S (depositHostIndex).    *)
LEMMA DepositValue ==
  ASSUME NEW S \in Word, NEW n \in 0 .. (2 ^ Cardinality(S) - 1),
         NEW D, D = {p \in S : Rank(S, p) \in FromNat(n)}
  PROVE  D \subseteq S /\ Value(S, D) = n
<1>0. W \in Nat /\ W > 0 /\ Bits \in Word /\ W \in 0 .. W /\ \A i \in S : i \in 0 .. (W - 1)
  BY WAssumption DEF Word, Bits
<1> DEFINE k == Cardinality(S)
           K == 0 .. (k - 1)
           x == FromNat(n)
           p == Partial(S, D)
           q == Partial(Bits, x)
<1>1. k \in 0 .. W
  <2>1. IsFiniteSet(Bits) /\ Cardinality(Bits) = W
    BY <1>0, RankSteps, WordOfNumber
  <2>2. S \in SUBSET Bits
    BY DEF Word
  <2>3. Cardinality(S) <= W
    BY <2>1, <2>2, FS_Subset
  <2>4. Cardinality(S) \in Nat
    BY <1>0, RankSteps
  <2> QED
    BY <1>0, <2>3, <2>4
<1>2. K \in Word /\ Cardinality(K) = k
  <2>1. K \in Word
    BY <1>0, <1>1 DEF Word, Bits
  <2>2. Cardinality(K) = IF 0 > k - 1 THEN 0 ELSE (k - 1) - 0 + 1
    <3>1. k - 1 \in Int
      BY <1>0, <1>1
    <3> HIDE DEF k
    <3> QED
      BY <3>1, FS_Interval
  <2> QED
    BY <1>0, <1>1, <2>1, <2>2
<1>3. x \in SUBSET K /\ Value(K, x) = n
  <2>1. \A i \in K : \A j \in 0 .. (i - 1) : j \in K
    BY <1>1
  <2>2. n \in 0 .. (2 ^ Cardinality(K) - 1)
    BY <1>2
  <2> HIDE DEF k, K, x
  <2> QED
    BY <1>2, <2>1, <2>2, LowRunValue DEF x
<1>4. ToNat(x) = n /\ x \in Word
  <2>1. \A i \in K : \A j \in 0 .. (i - 1) : j \in K
    BY <1>1
  <2> HIDE DEF k, K, x
  <2>2. Value(K, x) = ToNat(x)
    BY <1>2, <1>3, <2>1, LowRunValue
  <2> QED
    BY <1>2, <1>3, <2>2 DEF Word
<1>5. /\ p[0] = 0
      /\ \A i \in 0 .. (W - 1) :
           p[i + 1] = p[i] + IF i \in S \cap D THEN 2 ^ Rank(S, i) ELSE 0
  BY PartialSteps
<1>6. /\ q \in [0 .. W -> Nat] /\ q[0] = 0
      /\ \A i \in 0 .. (W - 1) :
           q[i + 1] = q[i] + IF i \in Bits \cap x THEN 2 ^ Rank(Bits, i) ELSE 0
  BY <1>0, PartialSteps
<1>7. /\ \A i \in 0 .. W : Rank(S, i) \in Nat
      /\ Rank(S, 0) = 0
      /\ \A i \in 0 .. (W - 1) : Rank(S, i + 1) = Rank(S, i) + IF i \in S THEN 1 ELSE 0
      /\ Rank(S, W) = k
  BY RankSteps
<1> HIDE DEF p, q, x, k, K
<1>8. \A i \in 0 .. W : Rank(S, i) <= i
  <2> DEFINE P == {i \in 0 .. W : Rank(S, i) <= i}
  <2>1. 0 \in P
    BY <1>0, <1>7
  <2>2. ASSUME NEW i \in 0 .. (W - 1), i \in P PROVE i + 1 \in P
    <3>1. i + 1 \in 0 .. W /\ i \in 0 .. W
      BY <1>0
    <3> QED
      BY <1>7, <2>2, <3>1
  <2> HIDE DEF P
  <2>3. \A i \in 0 .. W : i \in P
    BY <2>1, <2>2, Upwards
  <2> QED
    BY <2>3 DEF P
<1>9. p[W] = q[Rank(S, W)]
  <2> DEFINE P == {i \in 0 .. W : p[i] = q[Rank(S, i)]}
  <2>1. 0 \in P
    BY <1>0, <1>5, <1>6, <1>7
  <2>2. ASSUME NEW i \in 0 .. (W - 1), i \in P PROVE i + 1 \in P
    <3>1. i + 1 \in 0 .. W /\ i \in 0 .. W /\ p[i] = q[Rank(S, i)] /\ i \in Bits
      BY <1>0, <2>2 DEF Bits
    <3>2. Rank(S, i) \in Nat /\ Rank(S, i) <= i /\ Rank(S, i) \in 0 .. (W - 1) /\ Rank(S, i) \in 0 .. W
      BY <1>0, <1>7, <1>8, <3>1
    <3>3. CASE i \in S
      <4>1. i \in S \cap D <=> Rank(S, i) \in x
        BY <3>3 DEF x
      <4>2. Rank(S, i + 1) = Rank(S, i) + 1
        BY <1>7, <3>3
      <4>3. Rank(Bits, Rank(S, i)) = Rank(S, i)
        BY <3>2, RankOfBits
      <4>4. Rank(S, i) \in Bits \cap x <=> Rank(S, i) \in x
        BY <3>2 DEF Bits
      <4>5. q[Rank(S, i) + 1] = q[Rank(S, i)] + IF Rank(S, i) \in x THEN 2 ^ Rank(S, i) ELSE 0
        BY <1>6, <3>2, <4>3, <4>4
      <4>6. p[i + 1] = p[i] + IF Rank(S, i) \in x THEN 2 ^ Rank(S, i) ELSE 0
        BY <1>5, <4>1
      <4> QED
        BY <3>1, <4>2, <4>5, <4>6
    <3>4. CASE i \notin S
      <4>1. Rank(S, i + 1) = Rank(S, i)
        BY <1>7, <3>2, <3>4
      <4>2. q[Rank(S, i)] \in Nat
        BY <1>6, <3>2
      <4>3. p[i + 1] = p[i]
        BY <1>5, <3>1, <3>4, <4>2
      <4> QED
        BY <3>1, <4>1, <4>3
    <3> QED
      BY <3>3, <3>4
  <2> HIDE DEF P
  <2>3. W \in P
    BY <1>0, <2>1, <2>2, Upwards
  <2> QED
    BY <2>3 DEF P
<1>10. q[W] = q[k]
  <2> DEFINE P == {i \in 0 .. W : k <= i => q[i] = q[k]}
  <2>1. 0 \in P
    BY <1>0, <1>1
  <2>2. ASSUME NEW i \in 0 .. (W - 1), i \in P PROVE i + 1 \in P
    <3>1. i + 1 \in 0 .. W /\ i \in 0 .. W /\ i \in Int
      BY <1>0
    <3>2. CASE k <= i
      <4>1. i \notin x
        BY <1>1, <1>3, <3>1, <3>2 DEF K
      <4>2. q[i + 1] = q[i] + 0 /\ q[i] \in Nat
        BY <1>6, <3>1, <4>1
      <4> QED
        BY <2>2, <3>1, <3>2, <4>2
    <3>3. CASE k > i
      BY <1>1, <3>1, <3>3
    <3> QED
      BY <1>1, <3>1, <3>2, <3>3
  <2> HIDE DEF P
  <2>3. W \in P
    BY <1>0, <2>1, <2>2, Upwards
  <2> QED
    BY <1>1, <2>3 DEF P
<1>11. q[W] = n
  BY <1>4, ToNatIsValue DEF Value, q
<1>12. p[W] = n
  BY <1>7, <1>9, <1>10, <1>11
<1> QED
  BY <1>12 DEF Value, p

(* Sums and differences that do not wrap.                                  *)
LEMMA AddIs ==
  ASSUME NEW a \in Word, NEW b \in Word, ToNat(a) + ToNat(b) < 2 ^ W
  PROVE  Add(a, b) \in Word /\ ToNat(Add(a, b)) = ToNat(a) + ToNat(b)
<1>1. ToNat(a) \in Nat /\ ToNat(b) \in Nat /\ 2 ^ W \in Nat \ {0}
  BY NumberOfWord, WordOfNumber
<1>2. (ToNat(a) + ToNat(b)) % 2 ^ W = ToNat(a) + ToNat(b)
  BY <1>1
<1>3. ToNat(a) + ToNat(b) \in 0 .. (2 ^ W - 1)
  BY <1>1
<1> QED
  BY <1>2, <1>3, WordOfNumber DEF Add

(* The difference, when it is not negative.                                *)
LEMMA SubIs ==
  ASSUME NEW a \in Word, NEW b \in Word, ToNat(b) <= ToNat(a)
  PROVE  Sub(a, b) \in Word /\ ToNat(Sub(a, b)) = ToNat(a) - ToNat(b)
<1>1. ToNat(a) \in 0 .. (2 ^ W - 1) /\ ToNat(b) \in Nat /\ 2 ^ W \in Nat \ {0}
  BY NumberOfWord, WordOfNumber
<1>3. ToNat(a) - ToNat(b) \in 0 .. (2 ^ W - 1)
  BY <1>1
<1>2. (ToNat(a) - ToNat(b)) % 2 ^ W = ToNat(a) - ToNat(b)
  BY <1>1, <1>3
<1> QED
  BY <1>2, <1>3, WordOfNumber DEF Sub

(* A sum of any two words is the sum of the numbers, less 2^W when it      *)
(* wraps.                                                                  *)
LEMMA AddWraps ==
  ASSUME NEW a \in Word, NEW b \in Word
  PROVE  /\ Add(a, b) \in Word
         /\ \E c \in {0, 1} : ToNat(a) + ToNat(b) = ToNat(Add(a, b)) + Wrapped(c, 2 ^ W)
<1> DEFINE M == 2 ^ W
           x == ToNat(a)
           y == ToNat(b)
<1>1. M \in Nat \ {0} /\ x \in 0 .. (M - 1) /\ y \in 0 .. (M - 1)
  BY NumberOfWord, WordOfNumber
<1> HIDE DEF M, x, y
<1>2. (x + y) % M \in 0 .. (M - 1)
  BY <1>1
<1>3. FromNat((x + y) % M) \in Word /\ ToNat(FromNat((x + y) % M)) = (x + y) % M
  BY <1>2, WordOfNumber DEF M
<1>4. x + y < M => (x + y) % M = x + y
  BY <1>1
<1>5. x + y >= M => (x + y) % M = (x + y) - M
  <2> SUFFICES ASSUME x + y >= M PROVE (x + y) % M = (x + y) - M
    OBVIOUS
  <2>1. x + y - M \in Nat /\ x + y - M < M /\ x + y = M * 1 + (x + y - M)
    BY <1>1
  <2> QED
    BY <1>1, <2>1
<1>6. x + y = ((x + y) % M) + Wrapped(0, M) \/ x + y = ((x + y) % M) + Wrapped(1, M)
  BY <1>1, <1>4, <1>5 DEF Wrapped
<1>7. Add(a, b) = FromNat((x + y) % M)
  BY DEF Add, x, y, M
<1>8. ToNat(Add(a, b)) = (x + y) % M
  BY <1>3, <1>7
<1> QED
  BY <1>3, <1>6, <1>7, <1>8 DEF x, y, M

(* The bit operations of words are the arithmetic of unsigned integers     *)
(* modulo 2^W, at every width: what WordsReference has TLC evaluate        *)
(* (addr4.go, addr6.go).                                                   *)
THEOREM WordsAreModularIntegers ==
  ASSUME NEW a \in Word, NEW b \in Word
  PROVE  /\ FromNat(ToNat(a)) = a
         /\ ToNat(a) \in 0 .. (2 ^ W - 1)
         /\ ToNat(AddOne(a)) = (ToNat(a) + 1) % 2 ^ W
         /\ ToNat(SubOne(a)) = (ToNat(a) - 1) % 2 ^ W
         /\ ToNat(Not(a)) = 2 ^ W - 1 - ToNat(a)
         /\ Lt(a, b) <=> ToNat(a) < ToNat(b)
         /\ Le(a, b) <=> ToNat(a) <= ToNat(b)
<1>0. /\ Bits \in Word /\ W \in Nat /\ a \subseteq Bits /\ b \subseteq Bits
      /\ 2 ^ W \in Nat \ {0} /\ Cardinality(Bits) = W
      /\ \A i \in Bits : i \in Nat
  BY WordOfNumber, WAssumption DEF Word, Bits
<1> DEFINE M == 2 ^ W
           x == ToNat(a)
<1>1. x \in 0 .. (M - 1) /\ FromNat(x) = a /\ x = Value(Bits, a)
  BY NumberOfWord
<1>2. a \cap Bits = a /\ b \cap Bits = b
  BY <1>0
<1>3. /\ Lt(a, b) <=> ToNat(a) < ToNat(b)
      /\ Le(a, b) <=> ToNat(a) <= ToNat(b)
  <2>1. /\ Value(Bits, a) < Value(Bits, b) <=> Lt(a \cap Bits, b \cap Bits)
        /\ Value(Bits, a) <= Value(Bits, b) <=> Le(a \cap Bits, b \cap Bits)
    BY <1>0, ValueCompares
  <2>2. ToNat(a) = Value(Bits, a) /\ ToNat(b) = Value(Bits, b)
    BY NumberOfWord
  <2> QED
    BY <1>2, <2>1, <2>2, Zenon
<1>4. ToNat(Bits) = M - 1 /\ ToNat({}) = 0
  <2>1. {} \in Word
    BY DEF Word
  <2>2. ToNat({} \cup {}) = ToNat({}) + ToNat({}) /\ ToNat({}) \in Nat
    BY <2>1, DisjointSum, NumberOfWord
  <2>3. ToNat({}) = 0
    BY <2>2
  <2>4. FromNat(M - 1) \in Word /\ ToNat(FromNat(M - 1)) = M - 1
    BY <1>0, WordOfNumber
  <2> DEFINE y == FromNat(M - 1)
             z == Bits \ y
  <2>5. z \in Word /\ z \cap y = {} /\ z \cup y = Bits
    BY <2>4 DEF Word
  <2>6. ToNat(z \cup y) = ToNat(z) + ToNat(y)
    BY <2>4, <2>5, DisjointSum
  <2>7. ToNat(Bits) \in 0 .. (M - 1) /\ ToNat(z) \in Nat
    BY <1>0, <2>5, NumberOfWord
  <2> HIDE DEF y, z
  <2>8. ToNat(Bits) = ToNat(z) + (M - 1)
    BY <2>4, <2>5, <2>6 DEF y
  <2>9. ToNat(Bits) = M - 1
    BY <1>0, <2>7, <2>8
  <2> QED
    BY <2>3, <2>9
<1>5. ToNat(Not(a)) = M - 1 - x
  <2>1. Not(a) \in Word /\ Not(a) \cap a = {} /\ Not(a) \cup a = Bits
    BY <1>0 DEF Not, Word
  <2>2. ToNat(Not(a) \cup a) = ToNat(Not(a)) + x
    BY <2>1, DisjointSum
  <2>3. ToNat(Not(a)) \in Nat
    BY <2>1, NumberOfWord
  <2> QED
    BY <1>0, <1>1, <1>4, <2>1, <2>2, <2>3
<1>6. ToNat(AddOne(a)) = (x + 1) % M
  <2>1. CASE a = Bits
    <3>1. ASSUME NEW i \in Bits PROVE i \notin AddOne(a)
      <4>1. \A j \in 0 .. (i - 1) : j \in a
        BY <2>1, WAssumption DEF Bits
      <4> QED
        BY <2>1, <4>1 DEF AddOne
    <3>2. AddOne(a) = {}
      BY <3>1 DEF AddOne
    <3>3. x + 1 = M /\ M % M = 0
      BY <1>0, <1>4, <2>1
    <3> QED
      BY <1>4, <3>2, <3>3
  <2>2. CASE a # Bits
    <3>1. Up(Bits, a) = AddOne(a)
      <4>1. a \cup Not(Bits) = a
        BY DEF Not
      <4>2. AddOne(a) \cap Bits = AddOne(a)
        BY DEF AddOne
      <4> QED
        BY <4>1, <4>2, Zenon DEF Up
    <3>2. Up(Bits, a) \subseteq Bits /\ Value(Bits, Up(Bits, a)) = Value(Bits, a) + 1
      BY <1>0, <2>2, ValueUp
    <3>3. AddOne(a) \in Word
      BY <3>1, <3>2 DEF Word
    <3>4. ToNat(AddOne(a)) = x + 1 /\ ToNat(AddOne(a)) \in 0 .. (M - 1)
      BY <1>1, <3>1, <3>2, <3>3, NumberOfWord
    <3> HIDE DEF M, x
    <3> QED
      BY <1>0, <1>1, <3>4 DEF M
  <2> QED
    BY <2>1, <2>2
<1>7. ToNat(SubOne(a)) = (x - 1) % M
  <2>1. CASE a = {}
    <3>1. SubOne(a) = Bits
      BY <2>1 DEF SubOne
    <3>2. (0 - 1) % M = M - 1
      <4>1. 0 - 1 = M * (-1) + (M - 1) /\ 0 <= M - 1 /\ M - 1 < M
        BY <1>0
      <4> HIDE DEF M
      <4> QED
        BY <1>0, <4>1 DEF M
    <3> QED
      BY <1>4, <2>1, <3>1, <3>2
  <2>2. CASE a # {}
    <3>1. Down(Bits, a) = SubOne(a)
      BY DEF Down, SubOne
    <3>2. Down(Bits, a) \subseteq Bits /\ Value(Bits, Down(Bits, a)) + 1 = Value(Bits, a)
      BY <1>0, <2>2, ValueDown
    <3>3. SubOne(a) \in Word
      BY <3>1, <3>2 DEF Word
    <3>4. ToNat(SubOne(a)) + 1 = x /\ ToNat(SubOne(a)) \in 0 .. (M - 1)
      BY <1>1, <3>1, <3>2, <3>3, NumberOfWord
    <3> HIDE DEF M, x
    <3> QED
      BY <1>0, <1>1, <3>4 DEF M
  <2> QED
    BY <2>1, <2>2
<1> QED
  BY <1>1, <1>3, <1>5, <1>6, <1>7

-----------------------------------------------------------------------------
(* Recursion                                                               *)

(* What holds of an element when it holds of all smaller ones holds of     *)
(* every element.                                                          *)
LEMMA InductOnSize ==
  ASSUME NEW D, NEW size \in [D -> Nat], NEW good,
         \A d \in D : (\A e \in D : size[e] < size[d] => e \in good) => d \in good
  PROVE  \A d \in D : d \in good
<1> DEFINE bad == {size[d] : d \in D \ good}
<1>1. bad = {}
  <2> SUFFICES ASSUME bad # {} PROVE FALSE
    OBVIOUS
  <2>0. bad \subseteq Nat
    OBVIOUS
  <2>1. PICK k \in bad : \A j \in bad : k <= j
    <3> HIDE DEF bad
    <3> QED
      BY <2>0, LeastNatural
  <2>2. PICK d \in D : d \notin good /\ size[d] = k
    OBVIOUS
  <2>3. ASSUME NEW e \in D, size[e] < size[d] PROVE e \in good
    <3>1. size[e] \in Nat /\ size[d] \in Nat
      OBVIOUS
    <3>2. ~(k <= size[e])
      BY <2>2, <2>3, <3>1
    <3>3. size[e] \notin bad
      <4> HIDE DEF bad
      <4> QED
        BY <2>1, <3>2
    <3> QED
      BY <3>3
  <2> QED
    BY <2>2, <2>3
<1> QED
  BY <1>1

(* A function that asks itself about one smaller element, if any.          *)
AsksSmaller(D, leaf, base, next, h, f) ==
  f = [d \in D |-> IF d \in leaf THEN base[d] ELSE h[<<d, f[next[d]]>>]]

(* Such a function exists: the approximations below each size agree where  *)
(* they are both defined.                                                  *)
LEMMA RecursionExists ==
  ASSUME NEW D, NEW R, NEW size \in [D -> Nat], NEW leaf, NEW base \in [D -> R],
         NEW next, NEW h \in [D \X R -> R],
         \A d \in D \ leaf : next[d] \in D /\ size[next[d]] < size[d]
  PROVE  \E f \in [D -> R] : AsksSmaller(D, leaf, base, next, h, f)
<1> DEFINE Below(n) == {d \in D : size[d] < n}
           Portion(n, f) == /\ f \in [Below(n) -> R]
                         /\ \A d \in Below(n) :
                              f[d] = IF d \in leaf THEN base[d] ELSE h[<<d, f[next[d]]>>]
<1>1. ASSUME NEW n \in Nat, NEW m \in Nat, NEW f, NEW g, Portion(n, f), Portion(m, g)
      PROVE  \A d \in D : d \in Below(n) /\ d \in Below(m) => f[d] = g[d]
  <2> DEFINE good == {d \in D : d \in Below(n) /\ d \in Below(m) => f[d] = g[d]}
  <2>1. ASSUME NEW d \in D, \A e \in D : size[e] < size[d] => e \in good
        PROVE  d \in good
    <3> SUFFICES ASSUME d \in Below(n), d \in Below(m) PROVE f[d] = g[d]
      OBVIOUS
    <3>1. CASE d \in leaf
      BY <1>1, <3>1
    <3>2. CASE d \notin leaf
      <4>1. next[d] \in D /\ size[next[d]] < size[d]
        BY <3>2
      <4>2. size[next[d]] \in Nat /\ size[d] \in Nat
        BY <4>1
      <4>3. next[d] \in Below(n) /\ next[d] \in Below(m)
        BY <4>1, <4>2
      <4>4. f[next[d]] = g[next[d]]
        BY <2>1, <4>1, <4>3
      <4>5. f[d] = h[<<d, f[next[d]]>>] /\ g[d] = h[<<d, g[next[d]]>>]
        BY <1>1, <3>2
      <4> QED
        BY <4>4, <4>5
    <3> QED
      BY <3>1, <3>2
  <2> HIDE DEF good
  <2>2. \A d \in D : d \in good
    BY <2>1, InductOnSize
  <2> QED
    BY <2>2 DEF good
<1>2. \A n \in Nat : \E f : Portion(n, f)
  <2> DEFINE without == {n \in Nat : ~\E f : Portion(n, f)}
  <2> SUFFICES ASSUME without # {} PROVE FALSE
    OBVIOUS
  <2>1. PICK n \in without : \A j \in without : n <= j
    BY LeastNatural
  <2>2. n \in Nat /\ ~\E f : Portion(n, f)
    OBVIOUS
  <2>3. n # 0
    <3>1. ASSUME n = 0 PROVE Below(n) = {}
      BY <3>1
    <3>2. n = 0 => Portion(n, [d \in {} |-> d])
      BY <3>1
    <3> QED
      BY <2>2, <3>2
  <2>4. n - 1 \in Nat /\ n - 1 \notin without
    <3>1. n - 1 \in Nat /\ ~(n <= n - 1)
      BY <2>2, <2>3
    <3> HIDE DEF without
    <3> QED
      BY <2>1, <3>1
  <2>5. PICK g : Portion(n - 1, g)
    BY <2>4
  <2> DEFINE f == [d \in Below(n) |-> IF d \in leaf THEN base[d] ELSE h[<<d, g[next[d]]>>]]
  <2>6. ASSUME NEW d \in Below(n), d \notin leaf
        PROVE  next[d] \in Below(n - 1) /\ next[d] \in Below(n)
    <3>1. next[d] \in D /\ size[next[d]] < size[d] /\ size[d] \in Nat /\ size[d] < n
      BY <2>6
    <3>2. size[next[d]] \in Nat
      BY <3>1
    <3> QED
      BY <2>2, <3>1, <3>2
  <2>7. f \in [Below(n) -> R]
    <3>1. ASSUME NEW d \in Below(n), d \notin leaf PROVE h[<<d, g[next[d]]>>] \in R
      <4>1. g[next[d]] \in R
        BY <2>5, <2>6, <3>1
      <4> QED
        BY <4>1
    <3> QED
      BY <3>1
  <2>8. ASSUME NEW d \in Below(n), d \notin leaf PROVE f[next[d]] = g[next[d]]
    <3>1. next[d] \in Below(n - 1) /\ next[d] \in Below(n)
      BY <2>6, <2>8
    <3> QED
      BY <2>5, <3>1
  <2>9. Portion(n, f)
    BY <2>7, <2>8
  <2> QED
    BY <2>2, <2>9
<1> DEFINE upTo(n) == CHOOSE f : Portion(n, f)
           all == [d \in D |-> upTo(size[d] + 1)[d]]
<1>3. \A n \in Nat : Portion(n, upTo(n))
  BY <1>2
<1> HIDE DEF upTo, Portion
<1>4. \A d \in D : size[d] + 1 \in Nat /\ d \in Below(size[d] + 1) /\ Portion(size[d] + 1, upTo(size[d] + 1))
  BY <1>3
<1>5. all \in [D -> R]
  <2>1. \A d \in D : upTo(size[d] + 1)[d] \in R
    BY <1>4 DEF Portion
  <2> QED
    BY <2>1
<1>6. ASSUME NEW d \in D
      PROVE  all[d] = IF d \in leaf THEN base[d] ELSE h[<<d, all[next[d]]>>]
  <2>1. CASE d \in leaf
    BY <1>4, <2>1 DEF Portion
  <2>2. CASE d \notin leaf
    <3>1. next[d] \in D /\ size[next[d]] < size[d] /\ size[next[d]] \in Nat /\ size[d] \in Nat
      BY <2>2
    <3>2. next[d] \in Below(size[d] + 1) /\ next[d] \in Below(size[next[d]] + 1)
      BY <3>1
    <3>3. upTo(size[next[d]] + 1)[next[d]] = upTo(size[d] + 1)[next[d]]
      <4> HIDE DEF Below
      <4> QED
        BY <1>1, <1>4, <3>1, <3>2
    <3>4. upTo(size[d] + 1)[d] = h[<<d, upTo(size[d] + 1)[next[d]]>>]
      BY <1>4, <2>2 DEF Portion
    <3>5. all[next[d]] = upTo(size[next[d]] + 1)[next[d]] /\ all[d] = upTo(size[d] + 1)[d]
      BY <3>1
    <3> QED
      BY <2>2, <3>3, <3>4, <3>5
  <2> QED
    BY <2>1, <2>2
<1> HIDE DEF all
<1>7. all = [d \in D |-> IF d \in leaf THEN base[d] ELSE h[<<d, all[next[d]]>>]]
  BY <1>5, <1>6
<1> QED
  BY <1>5, <1>7 DEF AsksSmaller

(* The pairs of bounds of a bisection, and where it looks.                 *)
Bounds(from, to) == (from .. to) \X (from .. to)
Midway(p) == (p[1] + p[2]) \div 2

(* What holds of bounds when it holds of all that lie to either side of a  *)
(* position between them holds of every pair of bounds.                    *)
LEMMA InductOnBounds ==
  ASSUME NEW from \in Nat, NEW to \in Nat, NEW good,
         \A a, b \in from .. to :
           (a < b => \A m \in a .. (b - 1) : <<m + 1, b>> \in good /\ <<a, m>> \in good)
             => <<a, b>> \in good
  PROVE  \A p \in Bounds(from, to) : p \in good
<1> DEFINE D == Bounds(from, to)
           size == [p \in D |-> IF p[1] >= p[2] THEN 0 ELSE p[2] - p[1]]
<1>1. ASSUME NEW p \in D
      PROVE  p[1] \in from .. to /\ p[2] \in from .. to /\ p = <<p[1], p[2]>>
  BY DEF Bounds
<1>2. ASSUME NEW a \in from .. to, NEW b \in from .. to
      PROVE  <<a, b>> \in D /\ size[<<a, b>>] = IF a >= b THEN 0 ELSE b - a
  <2>1. <<a, b>> \in D
    BY DEF Bounds
  <2> HIDE DEF D
  <2> QED
    BY <2>1
<1>3. size \in [D -> Nat]
  BY <1>1
<1>4. ASSUME NEW p \in D, \A e \in D : size[e] < size[p] => e \in good
      PROVE  p \in good
  <2> DEFINE a == p[1]
             b == p[2]
  <2>1. a \in from .. to /\ b \in from .. to /\ p = <<a, b>>
    BY <1>1
  <2> HIDE DEF a, b, D, size
  <2>2. ASSUME a < b, NEW m \in a .. (b - 1) PROVE <<m + 1, b>> \in good /\ <<a, m>> \in good
    <3>1. m \in from .. to /\ m + 1 \in from .. to /\ a \in Int /\ b \in Int /\ m \in Int
      BY <2>1, <2>2
    <3>2. size[p] = b - a
      BY <1>2, <2>1, <2>2, <3>1
    <3>3. size[<<m + 1, b>>] < b - a /\ <<m + 1, b>> \in D
      BY <1>2, <2>1, <2>2, <3>1
    <3>4. size[<<a, m>>] < b - a /\ <<a, m>> \in D
      BY <1>2, <2>1, <2>2, <3>1
    <3> QED
      BY <1>4, <3>2, <3>3, <3>4
  <2> QED
    BY <2>1, <2>2
<1> HIDE DEF D, size
<1> QED
  BY <1>3, <1>4, InductOnSize DEF D

(* A bisection that ends at a leaf, and goes up from the middles in up.    *)
Bisects(f, D, leaf, base, up) ==
  \A p \in D : f[p] = IF p \in leaf THEN base[p]
                      ELSE IF Midway(p) \in up THEN f[<<Midway(p) + 1, p[2]>>]
                      ELSE f[<<p[1], Midway(p)>>]

LEMMA BisectionExists ==
  ASSUME NEW from \in Nat, NEW to \in Nat, NEW R, NEW leaf, NEW up,
         NEW base \in [Bounds(from, to) -> R],
         \A p \in Bounds(from, to) : p[1] >= p[2] => p \in leaf
  PROVE  \E f \in [Bounds(from, to) -> R] : Bisects(f, Bounds(from, to), leaf, base, up)
<1> DEFINE D == Bounds(from, to)
           next == [p \in D |-> IF Midway(p) \in up THEN <<Midway(p) + 1, p[2]>>
                                                    ELSE <<p[1], Midway(p)>>]
           size == [p \in D |-> IF p[1] >= p[2] THEN 0 ELSE p[2] - p[1]]
           h == [x \in D \X R |-> x[2]]
<1>1. ASSUME NEW p \in D
      PROVE  p[1] \in from .. to /\ p[2] \in from .. to /\ p = <<p[1], p[2]>>
  BY DEF Bounds
<1>2. ASSUME NEW a \in from .. to, NEW b \in from .. to
      PROVE  <<a, b>> \in D /\ size[<<a, b>>] = IF a >= b THEN 0 ELSE b - a
  <2>1. <<a, b>> \in D
    BY DEF Bounds
  <2> HIDE DEF D
  <2> QED
    BY <2>1
<1>3. size \in [D -> Nat]
  BY <1>1
<1>4. h \in [D \X R -> R] /\ \A p \in D, r \in R : h[<<p, r>>] = r
  OBVIOUS
<1>5. ASSUME NEW p \in D \ leaf PROVE next[p] \in D /\ size[next[p]] < size[p]
  <2> DEFINE a == p[1]
             b == p[2]
             m == Midway(p)
  <2>1. a \in from .. to /\ b \in from .. to /\ p = <<a, b>> /\ a < b
    BY <1>1
  <2>2. m \in a .. (b - 1)
    BY <2>1 DEF Midway
  <2>3. next[p] = IF m \in up THEN <<m + 1, b>> ELSE <<a, m>>
    OBVIOUS
  <2> HIDE DEF a, b, m, D, size, next
  <2>4. m \in from .. to /\ m + 1 \in from .. to /\ a \in Int /\ b \in Int /\ m \in Int
    BY <2>1, <2>2
  <2>5. size[p] = b - a
    BY <1>2, <2>1
  <2>6. size[<<m + 1, b>>] < b - a /\ <<m + 1, b>> \in D
    BY <1>2, <2>1, <2>2, <2>4
  <2>7. size[<<a, m>>] < b - a /\ <<a, m>> \in D
    BY <1>2, <2>1, <2>2, <2>4
  <2> QED
    BY <2>3, <2>5, <2>6, <2>7
<1>6. PICK f \in [D -> R] : AsksSmaller(D, leaf, base, next, h, f)
  <2>1. base \in [D -> R]
    OBVIOUS
  <2> HIDE DEF D, next, size, h
  <2> QED
    BY <1>3, <1>4, <1>5, <2>1, RecursionExists
<1>7. Bisects(f, D, leaf, base, up)
  <2> SUFFICES ASSUME NEW p \in D
               PROVE  f[p] = IF p \in leaf THEN base[p]
                             ELSE IF Midway(p) \in up THEN f[<<Midway(p) + 1, p[2]>>]
                             ELSE f[<<p[1], Midway(p)>>]
    BY DEF Bisects
  <2>1. next[p] = IF Midway(p) \in up THEN <<Midway(p) + 1, p[2]>> ELSE <<p[1], Midway(p)>>
    OBVIOUS
  <2> HIDE DEF D, next, h
  <2>2. f[p] = IF p \in leaf THEN base[p] ELSE h[<<p, f[next[p]]>>]
    BY <1>6, Zenon DEF AsksSmaller
  <2>3. p \notin leaf => f[next[p]] \in R
    BY <1>5, <1>6
  <2> QED
    BY <1>4, <2>1, <2>2, <2>3
<1> QED
  BY <1>6, <1>7 DEF D

-----------------------------------------------------------------------------
(* Two ascending sequences of the same entries                             *)

(* Positions of two sequences matched in order and without a gap are the   *)
(* same positions.                                                         *)
LEMMA MatchedInOrder ==
  ASSUME NEW a \in Nat, NEW b \in Nat, NEW M \in SUBSET ((1 .. a) \X (1 .. b)),
         \A i \in 1 .. a : \E j \in 1 .. b : <<i, j>> \in M,
         \A h, i \in 1 .. a : \A j, k \in 1 .. b :
           <<h, j>> \in M /\ <<i, k>> \in M /\ h < i => j < k
  PROVE  \A i \in 1 .. a : \A j \in 1 .. b : <<i, j>> \in M => i <= j
<1> DEFINE bad == {i \in 1 .. a : \E j \in 1 .. b : <<i, j>> \in M /\ j < i}
<1> SUFFICES ASSUME bad # {} PROVE FALSE
  OBVIOUS
<1>1. bad \subseteq Nat
  OBVIOUS
<1>2. PICK i \in bad : \A h \in bad : i <= h
  <2> HIDE DEF bad
  <2> QED
    BY <1>1, LeastNatural
<1>3. PICK j \in 1 .. b : <<i, j>> \in M /\ j < i
  OBVIOUS
<1>4. i \in 1 .. a /\ i - 1 \in 1 .. a
  BY <1>3
<1>5. PICK k \in 1 .. b : <<i - 1, k>> \in M
  BY <1>4
<1>6. k < j
  BY <1>3, <1>4, <1>5
<1>7. i - 1 \in bad
  BY <1>3, <1>4, <1>5, <1>6
<1>8. i <= i - 1
  <2> HIDE DEF bad
  <2> QED
    BY <1>2, <1>7
<1> QED
  BY <1>4, <1>8

LEMMA MatchedBothWays ==
  ASSUME NEW a \in Nat, NEW b \in Nat, NEW M \in SUBSET ((1 .. a) \X (1 .. b)),
         \A i \in 1 .. a : \E j \in 1 .. b : <<i, j>> \in M,
         \A j \in 1 .. b : \E i \in 1 .. a : <<i, j>> \in M,
         \A h, i \in 1 .. a : \A j, k \in 1 .. b :
           <<h, j>> \in M /\ <<i, k>> \in M => (h < i <=> j < k)
  PROVE  a = b /\ \A i \in 1 .. a : <<i, i>> \in M
<1> DEFINE N == {m \in (1 .. b) \X (1 .. a) : <<m[2], m[1]>> \in M}
<1>0. \A i \in 1 .. a : \A j \in 1 .. b : <<j, i>> \in N <=> <<i, j>> \in M
  OBVIOUS
<1>1. \A i \in 1 .. a : \A j \in 1 .. b : <<i, j>> \in M => i <= j
  BY MatchedInOrder
<1>2. \A j \in 1 .. b : \A i \in 1 .. a : <<j, i>> \in N => j <= i
  <2>1. N \in SUBSET ((1 .. b) \X (1 .. a))
    OBVIOUS
  <2> HIDE DEF N
  <2>2. \A j \in 1 .. b : \E i \in 1 .. a : <<j, i>> \in N
    BY <1>0
  <2>3. \A h, i \in 1 .. b : \A j, k \in 1 .. a :
          <<h, j>> \in N /\ <<i, k>> \in N /\ h < i => j < k
    BY <1>0
  <2> QED
    BY <2>1, <2>2, <2>3, MatchedInOrder
<1> HIDE DEF N
<1>3. ASSUME NEW i \in 1 .. a, NEW j \in 1 .. b, <<i, j>> \in M PROVE i = j
  <2>1. i <= j
    BY <1>1, <1>3
  <2>2. <<j, i>> \in N
    BY <1>0, <1>3
  <2>3. j <= i
    BY <1>2, <2>2
  <2> QED
    BY <2>1, <2>3
<1>4. ASSUME NEW i \in 1 .. a PROVE i \in 1 .. b /\ <<i, i>> \in M
  <2>1. PICK j \in 1 .. b : <<i, j>> \in M
    OBVIOUS
  <2>2. i = j
    BY <1>3, <2>1
  <2> QED
    BY <2>1, <2>2
<1>5. ASSUME NEW j \in 1 .. b PROVE j \in 1 .. a
  <2>1. PICK i \in 1 .. a : <<i, j>> \in M
    OBVIOUS
  <2>2. i = j
    BY <1>3, <2>1
  <2> QED
    BY <2>1, <2>2
<1>6. a <= b
  <2>1. CASE a = 0
    BY <2>1
  <2>2. CASE a # 0
    <3>1. a \in 1 .. a
      BY <2>2
    <3>2. a \in 1 .. b
      BY <1>4, <3>1
    <3> QED
      BY <3>2
  <2> QED
    BY <2>1, <2>2
<1>7. b <= a
  <2>1. CASE b = 0
    BY <2>1
  <2>2. CASE b # 0
    <3>1. b \in 1 .. b
      BY <2>2
    <3>2. b \in 1 .. a
      BY <1>5, <3>1
    <3> QED
      BY <3>2
  <2> QED
    BY <2>1, <2>2
<1> QED
  BY <1>4, <1>6, <1>7

-----------------------------------------------------------------------------
(* Words, greatest and in a row                                            *)

(* The greatest of some words.                                             *)
LEMMA GreatestWord ==
  ASSUME NEW T, T \subseteq Word, T # {}
  PROVE  \E x \in T : \A y \in T : Le(y, x)
<1> DEFINE V == {ToNat(x) : x \in T}
<1>1. 2 ^ W \in Nat \ {0}
  BY WordOfNumber
<1>2. \A x \in T : ToNat(x) \in 0 .. (2 ^ W - 1)
  BY NumberOfWord
<1>3. V \subseteq 0 .. (2 ^ W - 1) /\ V # {} /\ 2 ^ W - 1 \in Nat
  BY <1>1, <1>2
<1>4. PICK v \in V : \A u \in V : u <= v
  <2> HIDE DEF V
  <2> QED
    BY <1>3, GreatestNatural
<1>5. PICK x \in T : v = ToNat(x)
  OBVIOUS
<1>6. ASSUME NEW y \in T PROVE Le(y, x)
  <2>1. ToNat(y) <= ToNat(x)
    BY <1>4, <1>5
  <2>2. x \in Word /\ y \in Word /\ Bits \in Word /\ x \cap Bits = x /\ y \cap Bits = y
    BY WordOfNumber DEF Word
  <2>3. ToNat(x) = Value(Bits, x) /\ ToNat(y) = Value(Bits, y)
    BY <2>2, ToNatIsValue
  <2>4. Value(Bits, y) <= Value(Bits, x) <=> Le(y \cap Bits, x \cap Bits)
    BY <2>2, ValueCompares
  <2> QED
    BY <2>1, <2>2, <2>3, <2>4
<1> QED
  BY <1>6

(* A word is smaller by the number it stands for.                          *)
LEMMA LessInNumber ==
  ASSUME NEW x \in Word, NEW y \in Word, Lt(x, y)
  PROVE  ToNat(x) \in Nat /\ ToNat(y) \in Nat /\ ToNat(x) < ToNat(y)
<1>1. Bits \in Word /\ x \cap Bits = x /\ y \cap Bits = y /\ 2 ^ W \in Nat \ {0}
  BY WordOfNumber DEF Word
<1>2. ToNat(x) \in 0 .. (2 ^ W - 1) /\ ToNat(y) \in 0 .. (2 ^ W - 1)
  BY NumberOfWord
<1>3. ToNat(x) = Value(Bits, x) /\ ToNat(y) = Value(Bits, y)
  BY ToNatIsValue
<1>4. Value(Bits, x) < Value(Bits, y)
  BY <1>1, ValueOrder
<1> QED
  BY <1>1, <1>2, <1>3, <1>4

(* No greater, one step after another.                                     *)
LEMMA LeTransitive ==
  ASSUME NEW a \in Word, NEW b \in Word, NEW c \in Word, ~Lt(b, a), ~Lt(c, b)
  PROVE  ~Lt(c, a)
<1> SUFFICES ASSUME Lt(c, a) PROVE FALSE
  OBVIOUS
<1>1. b = c \/ Lt(b, c)
  BY LtTotal
<1>2. CASE b = c
  BY <1>2
<1>3. CASE Lt(b, c)
  BY <1>3, LtTransitive
<1> QED
  BY <1>1, <1>2, <1>3

(* Words that differ in one bit.                                           *)
LEMMA OneBitApart ==
  ASSUME NEW a, NEW c, NEW b, Xor(a, c) = {b}
  PROVE  (b \notin a /\ c = a \cup {b}) \/ (b \notin c /\ a = c \cup {b})
BY DEF Xor
=============================================================================
