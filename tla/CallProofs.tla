----------------------------- MODULE CallProofs -----------------------------
(***************************************************************************)
(* The calls a caller makes on one network, the cursor over its addresses  *)
(* and the sequences of its subnets and addresses, for words of every      *)
(* width and sequences of calls of every length: what the runs             *)
(* network_calls, addr_cursor and walks check over a few bits.             *)
(***************************************************************************)
EXTENDS NetworkCalls, AddrCursor, SubnetWalk, NetworkTheorems, SequenceTheorems

-----------------------------------------------------------------------------
(* Least covers                                                            *)

LEMMA LeastIsOne ==
  ASSUME NEW nets, nets \subseteq Network, NEW s \in nets, \A x \in nets : Contains(x, s)
  PROVE  Least(nets) = {s}
<1>1. s \in Least(nets)
  BY DEF Least
<1>2. ASSUME NEW t \in Least(nets) PROVE t = s
  <2>1. t \in Network /\ s \in Network /\ Contains(s, t) /\ Contains(t, s)
    BY <1>2 DEF Least
  <2>2. Addrs(s) = Addrs(t)
    BY <2>1, ContainsIsInclusion
  <2> QED
    BY <2>1, <2>2, AddrsInjective
<1> QED
  BY <1>1, <1>2

LEMMA SupernetForIsLeast ==
  ASSUME NEW m \in Network, NEW nets, nets \subseteq Network
  PROVE  {SupernetFor(m, nets)} = Least({n \in Network : Covers(n, nets \cup {m})})
<1> DEFINE kept == {i \in m.mask : \A n \in nets : i \in SupernetMask(n, m.addr, m.mask)}
           s == SupernetFor(m, nets)
           covers == {n \in Network : Covers(n, nets \cup {m})}
<1>1. kept \in Word /\ m.addr \in Word
  BY NetworkFields DEF Word
<1>2. s \in Network /\ s.addr = m.addr \cap kept /\ s.mask = kept
  BY <1>1, FromBitsInNetwork DEF SupernetFor
<1>3. \A i \in kept : \A n \in nets : i \in n.mask /\ (i \in n.addr <=> i \in m.addr)
  BY DEF SupernetMask, Xor
<1>4. ASSUME NEW x \in nets \cup {m} PROVE Contains(s, x)
  <2>1. CASE x = m
    BY <1>2, <2>1, NetworkFields DEF Contains
  <2>2. CASE x \in nets
    <3>1. x.addr \cap kept = m.addr \cap kept /\ kept \subseteq x.mask
      BY <1>3, <2>2
    <3> QED
      BY <1>2, <3>1 DEF Contains
  <2> QED
    BY <2>1, <2>2
<1>5. s \in covers
  BY <1>2, <1>4, ContainsIsInclusion DEF Covers
<1>6. ASSUME NEW n \in covers PROVE Contains(n, s)
  <2>1. n \in Network /\ \A x \in nets \cup {m} : x \in Network /\ Contains(n, x)
    BY ContainsIsInclusion DEF Covers
  <2>2. /\ m.addr \cap n.mask = n.addr /\ m.mask \cap n.mask = n.mask
        /\ \A x \in nets : x.addr \cap n.mask = n.addr /\ x.mask \cap n.mask = n.mask
    BY <2>1 DEF Contains
  <2>3. ASSUME NEW i \in n.mask PROVE i \in kept
    <3>1. i \in m.mask
      BY <2>2, <2>3
    <3>2. ASSUME NEW x \in nets PROVE i \in m.mask \cap (x.mask \ Xor(m.addr, x.addr))
      <4>1. i \in x.mask /\ (i \in x.addr <=> i \in n.addr) /\ (i \in m.addr <=> i \in n.addr)
        BY <2>2, <2>3
      <4> QED
        BY <3>1, <4>1 DEF Xor
    <3> QED
      BY <3>1, <3>2 DEF SupernetMask
  <2>4. s.addr \cap n.mask = n.addr /\ s.mask \cap n.mask = n.mask
    BY <1>2, <2>2, <2>3
  <2> QED
    BY <2>4 DEF Contains
<1> HIDE DEF covers, s
<1>7. Least(covers) = {s}
  BY <1>5, <1>6, LeastIsOne DEF covers
<1> QED
  BY <1>7 DEF covers, s

BlocksAround(m) == {n \in Network : IsContiguous(n) /\ Contains(n, m)}

LEMMA SupernetIsLeast ==
  ASSUME NEW m \in Network, IsContiguous(m)
  PROVE  Supernet(m) = Least(BlocksAround(m) \ {m})
<1> DEFINE w == m.mask
<1>0. w \in Word /\ w \cup SubOne(w) = Bits /\ \A i \in Bits : i \in Int
  BY NetworkFields, WAssumption DEF IsContiguous, Bits
<1>1. CASE w = {}
  <2>1. ASSUME NEW n \in BlocksAround(m) PROVE n = m
    <3>1. n \in Network /\ n.mask = {} /\ n.addr = {} /\ m.addr = {}
      BY <1>1, NetworkFields DEF BlocksAround, Contains
    <3>2. n = [addr |-> n.addr, mask |-> n.mask] /\ m = [addr |-> m.addr, mask |-> m.mask]
      BY <3>1, NetworkFields
    <3> QED
      BY <1>1, <3>1, <3>2
  <2>2. Least(BlocksAround(m) \ {m}) = {}
    BY <2>1 DEF Least
  <2>3. Supernet(m) = {}
    BY <1>1 DEF Supernet, Only
  <2> QED
    BY <2>2, <2>3
<1>2. CASE w # {}
  <2> DEFINE s == FromBits(m.addr, ClearLowestSetBit(w))
  <2>1. w \subseteq Nat
    BY <1>0, WAssumption DEF Word, Bits
  <2>2. PICK b \in w : \A j \in w : b <= j
    BY <1>2, <2>1, LeastNatural
  <2>3. ClearLowestSetBit(w) = w \ {b}
    <3>1. ClearLowestSetBit(w) = {i \in w : \E j \in w : j < i}
      BY <1>0, ClearLowestIsNotLowest
    <3> QED
      BY <2>1, <2>2, <3>1
  <2>4. w \ {b} \in Word /\ (w \ {b}) \cup SubOne(w \ {b}) = Bits
    BY <1>0, <2>2, LowestKeepsContiguous
  <2>5. /\ s \in Network /\ s.mask = w \ {b} /\ s.addr = m.addr \cap (w \ {b})
        /\ m.addr \subseteq w
    <3>1. m.addr \in Word /\ m.addr \subseteq w /\ s = FromBits(m.addr, w \ {b})
      BY <2>3, NetworkFields
    <3> QED
      BY <2>4, <3>1, FromBitsInNetwork
  <2>6. s \in BlocksAround(m) \ {m}
    <3>1. Contains(s, m)
      BY <2>5 DEF Contains
    <3>2. IsContiguous(s)
      BY <2>4, <2>5 DEF IsContiguous
    <3>3. s # m
      BY <2>2, <2>5
    <3> QED
      BY <2>5, <3>1, <3>2, <3>3 DEF BlocksAround
  <2>7. ASSUME NEW n \in BlocksAround(m) \ {m} PROVE Contains(n, s)
    <3>1. /\ n \in Network /\ n # m
          /\ m.addr \cap n.mask = n.addr /\ w \cap n.mask = n.mask
          /\ n.mask \cup SubOne(n.mask) = Bits
      BY <2>7 DEF BlocksAround, Contains, IsContiguous
    <3>2. b \notin n.mask
      <4>1. SUFFICES ASSUME b \in n.mask PROVE FALSE
        OBVIOUS
      <4>2. n.mask \in Word /\ \A i \in Bits \ n.mask : \A j \in n.mask : ~(j < i)
        BY <3>1, NetworkFields, ContiguousIsUpward
      <4>3. ASSUME NEW i \in w PROVE i \in n.mask
        <5>1. i \in Bits /\ i \in Int /\ b \in Int /\ b <= i
          BY <1>0, <2>1, <2>2 DEF Word
        <5>2. i = b \/ b < i
          BY <5>1
        <5> QED
          BY <4>1, <4>2, <5>1, <5>2
      <4>4. n.mask = w /\ n.addr = m.addr
        BY <2>5, <3>1, <4>3
      <4> QED
        BY <3>1, <4>4, NetworkFields
    <3>3. s.addr \cap n.mask = n.addr /\ s.mask \cap n.mask = n.mask
      BY <2>5, <3>1, <3>2
    <3> QED
      BY <3>3 DEF Contains
  <2>8. Supernet(m) = {s}
    BY <1>2 DEF Supernet, Only
  <2> HIDE DEF s
  <2>9. Least(BlocksAround(m) \ {m}) = {s}
    BY <2>6, <2>7, LeastIsOne DEF BlocksAround
  <2> QED
    BY <2>8, <2>9
<1> QED
  BY <1>1, <1>2

LEMMA ToContiguousIsLeast ==
  ASSUME NEW m \in Network
  PROVE  {ToContiguous(m)} = Least(BlocksAround(m))
<1> DEFINE s == ToContiguous(m)
<1>1. m.mask \in Word /\ m.addr \in Word /\ m.addr \subseteq m.mask
  BY NetworkFields
<1>2. s = FromBits(m.addr, Run(m.mask))
  BY <1>1, LeadingRun DEF ToContiguous
<1>3. /\ s \in Network /\ s.addr = m.addr \cap Run(m.mask) /\ s.mask = Run(m.mask)
      /\ Run(m.mask) \subseteq m.mask
  BY <1>1, <1>2, RunFacts, FromBitsInNetwork
<1>4. s \in BlocksAround(m)
  <2>1. IsContiguous(s)
    BY <1>1, <1>3, RunFacts DEF IsContiguous
  <2>2. Contains(s, m)
    BY <1>3 DEF Contains
  <2> QED
    BY <1>3, <2>1, <2>2 DEF BlocksAround
<1>5. ASSUME NEW n \in BlocksAround(m) PROVE Contains(n, s)
  <2>1. /\ n \in Network /\ n.mask \cup SubOne(n.mask) = Bits
        /\ m.addr \cap n.mask = n.addr /\ m.mask \cap n.mask = n.mask
    BY <1>5 DEF BlocksAround, Contains, IsContiguous
  <2>2. n.mask \in Word /\ n.mask \subseteq m.mask
    BY <2>1, NetworkFields
  <2>3. n.mask \subseteq Run(m.mask)
    BY <1>1, <2>1, <2>2, RunFacts
  <2>4. s.addr \cap n.mask = n.addr /\ s.mask \cap n.mask = n.mask
    BY <1>3, <2>1, <2>3
  <2> QED
    BY <2>4 DEF Contains
<1> HIDE DEF s
<1>6. Least(BlocksAround(m)) = {s}
  BY <1>4, <1>5, LeastIsOne DEF BlocksAround
<1> QED
  BY <1>6 DEF s

LEMMA FromCIDRIsRead ==
  ASSUME NEW x \in Word, NEW p \in Int
  PROVE  FromCIDR(x, p) = {n \in Network : PrefixLen(n) = {p} /\ ContainsAddr(n, x)}
<1>0. W \in Nat
  BY WAssumption
<1>1. ASSUME NEW n \in Network
      PROVE  PrefixLen(n) = {p} <=> IsContiguous(n) /\ LeadingOnes(n.mask) = p
  BY DEF PrefixLen, Only
<1>2. ASSUME NEW n \in Network, PrefixLen(n) = {p}
      PROVE  p \in 0 .. W /\ n.mask = MaskFromPrefix(p)
  <2>1. n.mask \in Word /\ n.mask \cup SubOne(n.mask) = Bits /\ LeadingOnes(n.mask) = p
    BY <1>1, <1>2, NetworkFields DEF IsContiguous
  <2> QED
    BY <2>1, LeadingRun, RunFacts
<1>3. CASE p \in 0 .. W
  <2> DEFINE s == FromBits(x, MaskFromPrefix(p))
  <2>1. MaskFromPrefix(p) \in Word /\ Run(MaskFromPrefix(p)) = MaskFromPrefix(p)
        /\ LeadingOnes(MaskFromPrefix(p)) = p
    BY <1>3, PrefixMask
  <2>2. s \in Network /\ s.addr = x \cap MaskFromPrefix(p) /\ s.mask = MaskFromPrefix(p)
    BY <2>1, FromBitsInNetwork
  <2>3. PrefixLen(s) = {p} /\ ContainsAddr(s, x)
    BY <1>1, <2>1, <2>2, RunFacts DEF IsContiguous, ContainsAddr
  <2>4. ASSUME NEW n \in Network, PrefixLen(n) = {p}, ContainsAddr(n, x) PROVE n = s
    <3>1. n.mask = s.mask /\ n.addr = s.addr
      BY <1>2, <2>2, <2>4 DEF ContainsAddr
    <3> QED
      BY <2>2, <3>1, NetworkFields
  <2>5. FromCIDR(x, p) = {s}
    BY <1>0, <1>3 DEF FromCIDR, Only
  <2> HIDE DEF s
  <2> QED
    BY <2>2, <2>3, <2>4, <2>5
<1>4. CASE p \notin 0 .. W
  <2>1. FromCIDR(x, p) = {}
    BY <1>0, <1>4 DEF FromCIDR, Only
  <2> QED
    BY <1>2, <1>4, <2>1
<1> QED
  BY <1>3, <1>4

-----------------------------------------------------------------------------
(* The theorems of the specification                                       *)

(* A call that returns at most one network keeps the types.                *)
LEMMA ReturnKeepsTypes ==
  ASSUME TypeOK, NEW name \in Ops, NEW operands, operands \subseteq Network,
         NEW results, results \subseteq Network, AtMostOne(results),
         Return(name, operands, results), prefix' \in -1 .. (W + 1)
  PROVE  TypeOK'
<1>1. held' \in Network /\ recv' \in Network
  BY DEF TypeOK, Return
<1>2. Cardinality(results) <= 1
  BY AtMostOneIsFew
<1> QED
  BY <1>1, <1>2 DEF TypeOK, Return

(* TypeOK (net4.go:565): no sequence of calls leads to a network that is   *)
(* not normalized, and no call returns two.                                *)
THEOREM CallsStayNormalized == Spec => []TypeOK
<1>0. W \in Nat /\ 0 \in -1 .. (W + 1)
  BY WAssumption
<1>1. Init => TypeOK
  <2> SUFFICES ASSUME Init PROVE TypeOK
    OBVIOUS
  <2>1. out = {} /\ Cardinality(out) = 0
    BY FS_EmptySet DEF Init
  <2> QED
    BY <1>0, <2>1 DEF Init, TypeOK, Ops
<1>2. TypeOK /\ [Next]_vars => TypeOK'
  <2> SUFFICES ASSUME TypeOK, [Next]_vars PROVE TypeOK'
    OBVIOUS
  <2>0. held \in Network
    BY DEF TypeOK
  <2>a. \A x \in Network : {x} \subseteq Network /\ AtMostOne({x})
    BY DEF AtMostOne
  <2>1. CASE CallIntersection
    <3>1. PICK o \in Network : Call("Intersection", {o}, Intersection(held, o))
      BY <2>1 DEF CallIntersection
    <3>2. Intersection(held, o) \subseteq Network /\ AtMostOne(Intersection(held, o))
      BY <2>0, ResultsAreNetworks
    <3> QED
      BY <1>0, <3>1, <3>2, ReturnKeepsTypes DEF Call, Ops
  <2>2. CASE CallMerge
    <3>1. PICK o \in Network : Call("Merge", {o}, Merge(held, o))
      BY <2>2 DEF CallMerge
    <3>2. Merge(held, o) \subseteq Network /\ AtMostOne(Merge(held, o))
      BY <2>0, ResultsAreNetworks
    <3> QED
      BY <1>0, <3>1, <3>2, ReturnKeepsTypes DEF Call, Ops
  <2>3. CASE CallMergeByLowestMaskBit
    <3>1. PICK o \in Network :
            Call("MergeByLowestMaskBit", {o}, MergeByLowestMaskBit(held, o))
      BY <2>3 DEF CallMergeByLowestMaskBit
    <3>2. /\ MergeByLowestMaskBit(held, o) \subseteq Network
          /\ AtMostOne(MergeByLowestMaskBit(held, o))
      BY <2>0, ResultsAreNetworks
    <3> QED
      BY <1>0, <3>1, <3>2, ReturnKeepsTypes DEF Call, Ops
  <2>4. CASE CallSupernet
    <3>1. Supernet(held) \subseteq Network /\ AtMostOne(Supernet(held))
      BY <2>0, CoversAreNetworks
    <3> QED
      BY <1>0, <2>4, <3>1, ReturnKeepsTypes DEF CallSupernet, Call, Ops
  <2>5. CASE CallSupernetFor
    <3>1. PICK o1, o2 \in Network :
            Call("SupernetFor", {o1, o2}, {SupernetFor(held, {o1, o2})})
      BY <2>5 DEF CallSupernetFor
    <3>2. SupernetFor(held, {o1, o2}) \in Network
      BY <2>0, CoversAreNetworks
    <3> QED
      BY <1>0, <2>a, <3>1, <3>2, ReturnKeepsTypes DEF Call, Ops
  <2>6. CASE CallToContiguous
    <3>1. ToContiguous(held) \in Network
      BY <2>0, CoversAreNetworks
    <3> QED
      BY <1>0, <2>a, <2>6, <3>1, ReturnKeepsTypes DEF CallToContiguous, Call, Ops
  <2>7. CASE CallFromCIDR
    <3>1. PICK p \in -1 .. (W + 1) :
            Return("FromCIDR", {}, FromCIDR(LastAddr(held), p)) /\ prefix' = p
      BY <2>7 DEF CallFromCIDR
    <3>2. /\ FromCIDR(LastAddr(held), p) \subseteq Network
          /\ AtMostOne(FromCIDR(LastAddr(held), p))
      BY <2>0, CoversAreNetworks
    <3> QED
      BY <3>1, <3>2, ReturnKeepsTypes DEF Ops
  <2>8. CASE UNCHANGED vars
    BY <2>8 DEF TypeOK, vars
  <2> QED
    BY <2>1, <2>2, <2>3, <2>4, <2>5, <2>6, <2>7, <2>8 DEF Next
<1> QED
  BY <1>1, <1>2, PTL DEF Spec

(* The name of the last call tells which it was.                           *)
LEMMA WhichCall ==
  ASSUME Next
  PROVE  /\ op' = "Intersection" => CallIntersection
         /\ op' = "Merge" => CallMerge
         /\ op' = "MergeByLowestMaskBit" => CallMergeByLowestMaskBit
         /\ op' = "Supernet" => CallSupernet
         /\ op' = "SupernetFor" => CallSupernetFor
         /\ op' = "ToContiguous" => CallToContiguous
         /\ op' = "FromCIDR" => CallFromCIDR
BY DEF Next, CallIntersection, CallMerge, CallMergeByLowestMaskBit, CallSupernet,
       CallSupernetFor, CallToContiguous, CallFromCIDR, Call, Return

(* IntersectionExact (net4.go:547): after every call of Intersection the   *)
(* result names exactly the common addresses, false when there are none.   *)
THEOREM IntersectionAlwaysExact == Spec => []IntersectionExact
<1>1. Init => IntersectionExact
  BY DEF Init, IntersectionExact
<1>2. TypeOK /\ IntersectionExact /\ [Next]_vars => IntersectionExact'
  <2> SUFFICES ASSUME TypeOK, IntersectionExact, [Next]_vars PROVE IntersectionExact'
    OBVIOUS
  <2>1. CASE UNCHANGED vars
    BY <2>1 DEF IntersectionExact, vars
  <2>2. CASE Next
    <3>1. SUFFICES ASSUME op' = "Intersection", NEW o \in args'
                   PROVE  Union(out') = Addrs(recv') \cap Addrs(o)
      BY DEF IntersectionExact
    <3>2. PICK x \in Network : Call("Intersection", {x}, Intersection(held, x))
      BY <2>2, <3>1, WhichCall DEF CallIntersection
    <3>3. recv' = held /\ o = x /\ out' = Intersection(held, x) /\ held \in Network
      BY <3>1, <3>2 DEF Call, Return, TypeOK
    <3>4. Union(Intersection(held, x)) = Addrs(held) \cap Addrs(x)
      <4>1. /\ \A u \in Intersection(held, x) : Addrs(u) = Addrs(held) \cap Addrs(x)
            /\ Intersection(held, x) = {} <=> Addrs(held) \cap Addrs(x) = {}
        BY <3>3, IntersectionIsExact
      <4> QED
        BY <4>1 DEF Union
    <3> QED
      BY <3>3, <3>4
  <2> QED
    BY <2>1, <2>2
<1> QED
  BY <1>1, <1>2, CallsStayNormalized, PTL DEF Spec

(* MergeExact (net4.go:725, 787, 795): Merge succeeds exactly when the     *)
(* union is a network; the typed merge misses none of its class.           *)
THEOREM MergeAlwaysExact == Spec => []MergeExact
<1>1. Init => MergeExact
  BY DEF Init, MergeExact
<1>2. TypeOK /\ MergeExact /\ [Next]_vars => MergeExact'
  <2> SUFFICES ASSUME TypeOK, MergeExact, [Next]_vars PROVE MergeExact'
    OBVIOUS
  <2>0. held \in Network
    BY DEF TypeOK
  <2>1. CASE UNCHANGED vars
    BY <2>1 DEF MergeExact, vars
  <2>2. CASE Next
    <3>1. ASSUME op' = "Merge", NEW o \in args'
          PROVE  /\ out' = {n \in Network : Addrs(n) = Addrs(recv') \cup Addrs(o)}
                 /\ IsAdjacent(recv', o) <=> (IsDisjoint(recv', o) /\ out' # {})
      <4>1. PICK x \in Network : Call("Merge", {x}, Merge(held, x))
        BY <2>2, <3>1, WhichCall DEF CallMerge
      <4>2. recv' = held /\ o = x /\ out' = Merge(held, x)
        BY <3>1, <4>1 DEF Call, Return
      <4> QED
        BY <2>0, <4>2, MergesAreExact
    <3>2. ASSUME op' = "MergeByLowestMaskBit", NEW o \in args'
          PROVE  /\ out' \subseteq Merge(recv', o)
                 /\ IsContiguous(recv') /\ IsContiguous(o) =>
                      out' = {n \in Merge(recv', o) : IsContiguous(n)}
                 /\ IsAdjacentByLowestMaskBit(recv', o) => IsAdjacent(recv', o)
      <4>1. PICK x \in Network :
              Call("MergeByLowestMaskBit", {x}, MergeByLowestMaskBit(held, x))
        BY <2>2, <3>2, WhichCall DEF CallMergeByLowestMaskBit
      <4>2. recv' = held /\ o = x /\ out' = MergeByLowestMaskBit(held, x)
        BY <3>2, <4>1 DEF Call, Return
      <4> QED
        BY <2>0, <4>2, MergesAreExact
    <3> QED
      BY <3>1, <3>2 DEF MergeExact
  <2> QED
    BY <2>1, <2>2
<1> QED
  BY <1>1, <1>2, CallsStayNormalized, PTL DEF Spec

(* CoversLeast (net4.go:80, 839, 854, 925): the supernets and the block    *)
(* constructors return the least network or block that covers.             *)
THEOREM CoversAlwaysLeast == Spec => []CoversLeast
<1>1. Init => CoversLeast
  BY DEF Init, CoversLeast
<1>2. TypeOK /\ CoversLeast /\ [Next]_vars => CoversLeast'
  <2> SUFFICES ASSUME TypeOK, CoversLeast, [Next]_vars PROVE CoversLeast'
    OBVIOUS
  <2>0. held \in Network
    BY DEF TypeOK
  <2>1. CASE UNCHANGED vars
    BY <2>1 DEF CoversLeast, vars
  <2>2. CASE Next
    <3>1. ASSUME op' = "SupernetFor"
          PROVE  out' = Least({n \in Network : Covers(n, args' \cup {recv'})})
      <4>1. PICK o1, o2 \in Network :
              Call("SupernetFor", {o1, o2}, {SupernetFor(held, {o1, o2})})
        BY <2>2, <3>1, WhichCall DEF CallSupernetFor
      <4>2. recv' = held /\ args' = {o1, o2} /\ out' = {SupernetFor(held, {o1, o2})}
        BY <4>1 DEF Call, Return
      <4>3. {SupernetFor(held, {o1, o2})} =
              Least({n \in Network : Covers(n, {o1, o2} \cup {held})})
        <5>1. {o1, o2} \subseteq Network
          OBVIOUS
        <5> QED
          BY <2>0, <5>1, SupernetForIsLeast
      <4> QED
        BY <4>2, <4>3
    <3>2. ASSUME op' = "Supernet", IsContiguous(recv')
          PROVE  out' = Least(BlocksAround(recv') \ {recv'})
      <4>1. recv' = held /\ out' = Supernet(held)
        BY <2>2, <3>2, WhichCall DEF CallSupernet, Call, Return
      <4> QED
        BY <2>0, <3>2, <4>1, SupernetIsLeast
    <3>3. ASSUME op' = "ToContiguous" PROVE out' = Least(BlocksAround(recv'))
      <4>1. recv' = held /\ out' = {ToContiguous(held)}
        BY <2>2, <3>3, WhichCall DEF CallToContiguous, Call, Return
      <4> QED
        BY <2>0, <4>1, ToContiguousIsLeast
    <3>4. ASSUME op' = "FromCIDR"
          PROVE  out' = {n \in Network : PrefixLen(n) = {prefix'}
                                         /\ ContainsAddr(n, LastAddr(recv'))}
      <4>1. PICK p \in -1 .. (W + 1) :
              Return("FromCIDR", {}, FromCIDR(LastAddr(held), p)) /\ prefix' = p
        BY <2>2, <3>4, WhichCall DEF CallFromCIDR
      <4>2. recv' = held /\ out' = FromCIDR(LastAddr(held), p) /\ prefix' = p
        BY <4>1 DEF Return
      <4>3. LastAddr(held) \in Word /\ p \in Int
        BY <2>0, CoversAreNetworks
      <4> QED
        BY <4>2, <4>3, FromCIDRIsRead
    <3> QED
      BY <3>1, <3>2, <3>3, <3>4 DEF CoversLeast, BlocksAround
  <2> QED
    BY <2>1, <2>2
<1> QED
  BY <1>1, <1>2, CallsStayNormalized, PTL DEF Spec

(* ContainsExact (net4.go:494, 526): whatever network is reached, Contains *)
(* is inclusion, and on CIDR blocks one compare of masks decides it.       *)
THEOREM ContainsAlwaysExact == Spec => []ContainsExact
<1>1. TypeOK => ContainsExact
  <2> SUFFICES ASSUME TypeOK, NEW o \in Network
               PROVE  /\ Contains(held, o) <=> Addrs(o) \subseteq Addrs(held)
                      /\ IsContiguous(held) /\ IsContiguous(o) =>
                           (ContainsContiguous(held, o) <=> Contains(held, o))
    BY DEF ContainsExact
  <2>1. held \in Network
    BY DEF TypeOK
  <2>2. ASSUME IsContiguous(held), IsContiguous(o)
        PROVE  Le(held.mask, o.mask) <=> o.mask \cap held.mask = held.mask
    <3>1. /\ held.mask \in Word /\ o.mask \in Word
          /\ held.mask \cup SubOne(held.mask) = Bits /\ o.mask \cup SubOne(o.mask) = Bits
      BY <2>1, <2>2, NetworkFields DEF IsContiguous
    <3> QED
      BY <3>1, ContiguousOrder
  <2> QED
    BY <2>1, <2>2, ContainsIsInclusion DEF Contains, ContainsContiguous
<1> QED
  BY <1>1, CallsStayNormalized, PTL

-----------------------------------------------------------------------------
(* The positions of the addresses of a network                             *)

(* The numbers at the ends of the range.                                   *)
LEMMA ValueEnds ==
  ASSUME NEW S \in Word
  PROVE  Value(S, {}) = 0 /\ Value(S, S) = 2 ^ Cardinality(S) - 1
<1> DEFINE M == 2 ^ Cardinality(S)
<1>1. /\ M \in Nat \ {0}
      /\ \A w : Value(S, w) \in 0 .. (M - 1)
      /\ \A n \in 0 .. (M - 1) : \E x \in SUBSET S : Value(S, x) = n
  BY ValueOnto
<1> HIDE DEF M
<1>2. PICK x \in SUBSET S : Value(S, x) = 0
  BY <1>1
<1>3. PICK y \in SUBSET S : Value(S, y) = M - 1
  BY <1>1
<1>4. x = {}
  <2>1. SUFFICES ASSUME x # {} PROVE FALSE
    OBVIOUS
  <2>2. Value(S, Down(S, x)) + 1 = Value(S, x)
    BY <2>1, ValueDown
  <2> QED
    BY <1>1, <1>2, <2>2
<1>5. y = S
  <2>1. SUFFICES ASSUME y # S PROVE FALSE
    OBVIOUS
  <2>2. Value(S, Up(S, y)) = Value(S, y) + 1
    BY <2>1, ValueUp
  <2> QED
    BY <1>1, <1>3, <2>2
<1> QED
  BY <1>2, <1>3, <1>4, <1>5 DEF M

(* Only the bits at the positions of S are read.                           *)
LEMMA ValueReads ==
  ASSUME NEW S \in Word, NEW x \in Word, NEW y \in Word, x \cap S = y \cap S
  PROVE  Value(S, x) = Value(S, y)
  BY ValueCompares

(* The host bits of an address, read as a number: its position among the   *)
(* addresses of the network; how many positions there are; and the address *)
(* at a position.                                                          *)
Position(n, x) == Value(Not(n.mask), x)
Room(n) == 2 ^ Cardinality(Not(n.mask))
At(n, i) == CHOOSE x \in Addrs(n) : Position(n, x) = i

(* The addresses of a network are its own address with any host bits, and  *)
(* their host bits, read as a number, order them.                          *)
LEMMA AddrsArePositions ==
  ASSUME NEW n \in Network
  PROVE  /\ Not(n.mask) \in Word /\ Room(n) \in Nat \ {0}
         /\ n.addr \in Word /\ n.addr \cap Not(n.mask) = {} /\ n.mask = Not(Not(n.mask))
         /\ \A v \in SUBSET Not(n.mask) :
              v \cup n.addr \in Addrs(n) /\ Position(n, v \cup n.addr) = Value(Not(n.mask), v)
         /\ \A x \in Addrs(n) :
              /\ x \in Word /\ x = (x \cap Not(n.mask)) \cup n.addr
              /\ Value(Not(n.mask), x \cap Not(n.mask)) = Position(n, x)
              /\ Position(n, x) \in 0 .. (Room(n) - 1)
         /\ \A x, y \in Addrs(n) :
              /\ Le(x, y) <=> Position(n, x) <= Position(n, y)
              /\ x = y <=> Position(n, x) = Position(n, y)
<1> DEFINE E == Not(n.mask)
<1>1. n.addr \in Word /\ n.mask \in Word /\ n.addr \subseteq n.mask
  BY NetworkFields
<1>2. E \in Word /\ n.addr \cap E = {} /\ n.mask = Not(E)
  BY <1>1 DEF Not, Word
<1> HIDE DEF E
<1>3. ASSUME NEW x \in Word, NEW y \in Word, x \cap E = y \cap E PROVE Value(E, x) = Value(E, y)
  BY <1>2, <1>3, ValueCompares
<1>4. ASSUME NEW v \in SUBSET E
      PROVE  v \cup n.addr \in Addrs(n) /\ Value(E, v \cup n.addr) = Value(E, v)
  <2>1. v \cup n.addr \in Word /\ v \in Word
    BY <1>1, <1>2 DEF Word
  <2>2. (v \cup n.addr) \cap n.mask = n.addr /\ (v \cup n.addr) \cap E = v \cap E
    BY <1>1, <1>2 DEF Not
  <2> QED
    BY <1>3, <2>1, <2>2 DEF Addrs
<1>5. ASSUME NEW x \in Addrs(n)
      PROVE  /\ x \in Word /\ x \cap E \in SUBSET E /\ x = (x \cap E) \cup n.addr
             /\ Value(E, x \cap E) = Value(E, x)
             /\ Value(E, x) \in 0 .. (2 ^ Cardinality(E) - 1)
  <2>1. x \in Word /\ x \cap n.mask = n.addr
    BY DEF Addrs
  <2>2. x = (x \cap E) \cup n.addr
    BY <1>2, <2>1 DEF Not, Word
  <2>3. x \cap E \in Word /\ (x \cap E) \cap E = x \cap E
    BY <2>1 DEF Word
  <2>4. Value(E, x \cap E) = Value(E, x)
    BY <1>3, <2>1, <2>3
  <2> QED
    BY <1>2, <2>1, <2>2, <2>4, ValueOnto
<1>6. ASSUME NEW x \in Addrs(n), NEW y \in Addrs(n)
      PROVE  /\ Le(x, y) <=> Value(E, x) <= Value(E, y)
             /\ x = y <=> Value(E, x) = Value(E, y)
  <2>1. x \in Word /\ y \in Word /\ x = (x \cap E) \cup n.addr /\ y = (y \cap E) \cup n.addr
    BY <1>5
  <2>2. x = y <=> x \cap E = y \cap E
    BY <2>1
  <2>3. Lt(x, y) <=> Lt(x \cap E, y \cap E)
    <3>1. y \ x = (y \cap E) \ (x \cap E) /\ x \ y = (x \cap E) \ (y \cap E)
      BY <2>1
    <3> QED
      BY <3>1, Zenon DEF Lt
  <2>4. Le(x, y) <=> Le(x \cap E, y \cap E)
    BY <2>2, <2>3 DEF Le
  <2>5. /\ Value(E, x) <= Value(E, y) <=> Le(x \cap E, y \cap E)
        /\ Value(E, x) = Value(E, y) <=> x \cap E = y \cap E
    BY <1>2, <2>1, ValueCompares
  <2> QED
    BY <2>2, <2>4, <2>5
<1>7. Room(n) \in Nat \ {0}
  BY <1>2, ValueOnto DEF Room, E
<1> QED
  BY <1>1, <1>2, <1>4, <1>5, <1>6, <1>7 DEF Position, Room, E

(* Every position holds exactly one address.                               *)
LEMMA AtPosition ==
  ASSUME NEW n \in Network
  PROVE  /\ \A i \in 0 .. (Room(n) - 1) : At(n, i) \in Addrs(n) /\ Position(n, At(n, i)) = i
         /\ \A x \in Addrs(n) : x = At(n, Position(n, x))
<1>1. Not(n.mask) \in Word
  BY AddrsArePositions
<1>2. ASSUME NEW i \in 0 .. (Room(n) - 1)
      PROVE  At(n, i) \in Addrs(n) /\ Position(n, At(n, i)) = i
  <2>1. PICK v \in SUBSET Not(n.mask) : Value(Not(n.mask), v) = i
    BY <1>1, ValueOnto DEF Room
  <2>2. v \cup n.addr \in Addrs(n) /\ Position(n, v \cup n.addr) = i
    BY <2>1, AddrsArePositions
  <2> QED
    BY <2>2 DEF At
<1>3. ASSUME NEW x \in Addrs(n) PROVE x = At(n, Position(n, x))
  <2>1. Position(n, x) \in 0 .. (Room(n) - 1)
    BY AddrsArePositions
  <2> QED
    BY <1>2, <2>1, AddrsArePositions
<1> QED
  BY <1>2, <1>3

(* The addresses from one position to another.                             *)
Stretch(n, p, q) == {x \in Addrs(n) : p <= Position(n, x) /\ Position(n, x) <= q}

(* There are as many of them as there are positions.                       *)
LEMMA StretchCount ==
  ASSUME NEW n \in Network, NEW p \in 0 .. Room(n), NEW q \in -1 .. (Room(n) - 1), p <= q + 1
  PROVE  IsFiniteSet(Stretch(n, p, q)) /\ Cardinality(Stretch(n, p, q)) = (q + 1) - p
<1> DEFINE f == [i \in p .. q |-> At(n, i)]
<1>0. Room(n) \in Nat \ {0}
  BY AddrsArePositions
<1>1. \A i \in p .. q : i \in 0 .. (Room(n) - 1)
  BY <1>0
<1>2. \A i \in p .. q : f[i] \in Stretch(n, p, q) /\ Position(n, f[i]) = i
  BY <1>1, AtPosition DEF Stretch
<1>3. ASSUME NEW x \in Stretch(n, p, q) PROVE Position(n, x) \in p .. q /\ f[Position(n, x)] = x
  <2>1. x \in Addrs(n) /\ p <= Position(n, x) /\ Position(n, x) <= q
    BY DEF Stretch
  <2>2. Position(n, x) \in 0 .. (Room(n) - 1)
    BY <2>1, AddrsArePositions
  <2>3. x = At(n, Position(n, x))
    BY <2>1, AtPosition
  <2>4. Position(n, x) \in p .. q
    BY <1>0, <2>1, <2>2
  <2> QED
    BY <2>3, <2>4
<1>4. \A i, j \in p .. q : f[i] = f[j] => i = j
  BY <1>2
<1>5. f \in [p .. q -> Stretch(n, p, q)]
  BY <1>2
<1>6. \A x \in Stretch(n, p, q) : \E i \in p .. q : f[i] = x
  BY <1>3
<1> HIDE DEF f
<1>7. f \in Bijection(p .. q, Stretch(n, p, q))
  BY <1>4, <1>5, <1>6 DEF Bijection, Injection, Surjection, IsInjective
<1>8. ExistsBijection(p .. q, Stretch(n, p, q))
  BY <1>7 DEF ExistsBijection
<1>9. IsFiniteSet(p .. q) /\ Cardinality(p .. q) = IF p > q THEN 0 ELSE (q - p) + 1
  BY <1>0, FS_Interval
<1> QED
  BY <1>0, <1>8, <1>9, FS_Bijection
(* In ascending order, a stretch is the addresses at its positions.        *)
LEMMA AscendingIsRow ==
  ASSUME NEW n \in Network, NEW p \in 0 .. Room(n), NEW q \in -1 .. (Room(n) - 1), p <= q + 1
  PROVE  Ascending(Stretch(n, p, q)) = [k \in 1 .. ((q + 1) - p) |-> At(n, (p + k) - 1)]
<1> DEFINE S == Stretch(n, p, q)
           Upto(x) == {y \in S : Le(y, x)}
<1>0. Room(n) \in Nat \ {0}
  BY AddrsArePositions
<1>1. Cardinality(S) = (q + 1) - p
  BY StretchCount
<1>2. ASSUME NEW x \in S
      PROVE  /\ x \in Addrs(n) /\ Position(n, x) \in p .. q /\ Position(n, x) \in 0 .. (Room(n) - 1)
             /\ Cardinality({y \in S : Le(y, x)}) = (Position(n, x) + 1) - p
  <2>1. x \in Addrs(n) /\ p <= Position(n, x) /\ Position(n, x) <= q
    BY DEF Stretch
  <2>2. Position(n, x) \in 0 .. (Room(n) - 1)
    BY <2>1, AddrsArePositions
  <2>3. {y \in S : Le(y, x)} = Stretch(n, p, Position(n, x))
    <3>1. ASSUME NEW y \in Addrs(n)
          PROVE  (p <= Position(n, y) /\ Position(n, y) <= q /\ Le(y, x))
                   <=> (p <= Position(n, y) /\ Position(n, y) <= Position(n, x))
      <4>1. Position(n, y) \in 0 .. (Room(n) - 1) /\ (Le(y, x) <=> Position(n, y) <= Position(n, x))
        BY <2>1, AddrsArePositions
      <4> QED
        BY <1>0, <2>1, <2>2, <4>1
    <3> QED
      BY <3>1 DEF Stretch
  <2>4. Cardinality(Stretch(n, p, Position(n, x))) = (Position(n, x) + 1) - p
    <3>1. Position(n, x) \in -1 .. (Room(n) - 1) /\ p <= Position(n, x) + 1
      BY <1>0, <2>1, <2>2
    <3> QED
      BY <3>1, StretchCount
  <2> QED
    BY <1>0, <2>1, <2>2, <2>3, <2>4
<1>3. ASSUME NEW k \in 1 .. ((q + 1) - p)
      PROVE  (CHOOSE x \in S : k = Cardinality({y \in S : Le(y, x)})) = At(n, (p + k) - 1)
  <2> DEFINE a == At(n, (p + k) - 1)
  <2>1. (p + k) - 1 \in 0 .. (Room(n) - 1) /\ (p + k) - 1 \in p .. q
    BY <1>0
  <2>2. a \in Addrs(n) /\ Position(n, a) = (p + k) - 1
    BY <2>1, AtPosition
  <2>3. a \in S
    BY <1>0, <2>1, <2>2 DEF Stretch
  <2>4. k = Cardinality({y \in S : Le(y, a)})
    BY <1>0, <1>2, <2>2, <2>3
  <2>5. ASSUME NEW x \in S, k = Cardinality({y \in S : Le(y, x)}) PROVE x = a
    <3>1. Position(n, x) = (p + k) - 1 /\ x \in Addrs(n)
      BY <1>0, <1>2, <2>5
    <3> QED
      BY <2>2, <3>1, AtPosition
  <2> HIDE DEF a, S
  <2>6. (CHOOSE x \in S : k = Cardinality({y \in S : Le(y, x)})) = a
    BY <2>3, <2>4, <2>5
  <2> QED
    BY <2>6 DEF a
<1> HIDE DEF S
<1>4. Ascending(S) = [k \in 1 .. ((q + 1) - p) |-> At(n, (p + k) - 1)]
  BY <1>1, <1>3, Zenon DEF Ascending
<1> QED
  BY <1>4 DEF S

-----------------------------------------------------------------------------
(* The cursor                                                              *)

Net == [addr |-> base, mask |-> mask]

(* The network the cursor walks, and its host bits.                        *)
LEMMA NetIsNetwork ==
  ASSUME CursorTypeOK
  PROVE  /\ Net \in Network /\ Net.addr = base /\ Net.mask = mask
         /\ Addrs(Net) = Addrs([addr |-> base, mask |-> mask])
         /\ HostMask = Not(Net.mask) /\ HostMask \in Word /\ Room(Net) \in Nat \ {0}
         /\ base \in Word /\ mask \in Word /\ base \cap HostMask = {} /\ mask = Not(HostMask)
<1>1. base \in Word /\ mask \in Word /\ base \subseteq mask
  BY DEF CursorTypeOK, Word
<1>2. Net \in Network /\ Net.addr = base /\ Net.mask = mask
  BY <1>1 DEF Net, Network, Pair
<1> QED
  BY <1>1, <1>2, AddrsArePositions DEF Net, HostMask

(* One step from an address that is not the last reaches the next one, and *)
(* one step back from one that is not the first the previous one.          *)
LEMMA StepsByOne ==
  ASSUME CursorTypeOK, NEW x \in Addrs(Net)
  PROVE  /\ After(x) \in Word /\ Beforehand(x) \in Word
         /\ Position(Net, x) + 1 < Room(Net) =>
              After(x) \in Addrs(Net) /\ Position(Net, After(x)) = Position(Net, x) + 1
         /\ Position(Net, x) > 0 =>
              Beforehand(x) \in Addrs(Net) /\ Position(Net, Beforehand(x)) + 1 = Position(Net, x)
<1> DEFINE E == HostMask
           v == x \cap E
<1>1. /\ Net \in Network /\ Net.addr = base /\ Net.mask = mask
      /\ E = Not(Net.mask) /\ E \in Word /\ Room(Net) \in Nat \ {0}
      /\ base \in Word /\ mask \in Word /\ base \cap E = {} /\ mask = Not(E)
  BY NetIsNetwork
<1>2. x \in Word /\ x = v \cup base /\ Value(E, v) = Position(Net, x) /\ Position(Net, x) \in Nat
  <2>1. /\ x \in Word /\ x = (x \cap Not(Net.mask)) \cup Net.addr
        /\ Value(Not(Net.mask), x \cap Not(Net.mask)) = Position(Net, x)
        /\ Position(Net, x) \in 0 .. (Room(Net) - 1)
    BY <1>1, AddrsArePositions
  <2>2. Position(Net, x) \in Nat
    BY <1>1, <2>1
  <2>3. x = v \cup base /\ Value(E, v) = Position(Net, x)
    BY <1>1, <2>1, Zenon
  <2> QED
    BY <2>1, <2>2, <2>3
<1>3. v \subseteq E /\ x = base \cup v
  BY <1>2
<1>4. Value(E, {}) = 0 /\ Value(E, E) = Room(Net) - 1
  BY <1>1, ValueEnds DEF Room
<1>5. After(x) \in Word /\ Beforehand(x) \in Word
  BY <1>1 DEF After, Beforehand, AddOne, SubOne, Word
<1> HIDE DEF E, v
<1>6. x \cup mask = v \cup Not(E)
  <2>1. base \subseteq mask
    BY DEF CursorTypeOK
  <2> QED
    BY <1>1, <1>2, <2>1
<1>7. ASSUME v # E PROVE After(x) = Up(E, v) \cup base
  <2>1. CASE Contiguous
    <3>1. AddOne(x) = base \cup Up(E, v)
      <4>1. E \cap AddOne(E) = {}
        BY <2>1 DEF Contiguous, E
      <4> QED
        BY <1>1, <1>3, <1>7, <4>1, AdjacentCarry
    <3> QED
      BY <2>1, <3>1 DEF After
  <2>2. CASE ~Contiguous
    BY <1>6, <2>2, Zenon DEF After, Up, E
  <2> QED
    BY <2>1, <2>2
<1>8. ASSUME v # {} PROVE Beforehand(x) = Down(E, v) \cup base
  <2>1. CASE Contiguous
    <3>1. SubOne(x) = base \cup Down(E, v)
      <4>1. E \cap AddOne(E) = {}
        BY <2>1 DEF Contiguous, E
      <4> QED
        BY <1>1, <1>3, <1>8, <4>1, AdjacentCarry
    <3> QED
      BY <2>1, <3>1 DEF Beforehand
  <2>2. CASE ~Contiguous
    BY <2>2, Zenon DEF Beforehand, Down, E, v
  <2> QED
    BY <2>1, <2>2
<1>9. ASSUME Position(Net, x) + 1 < Room(Net)
      PROVE  After(x) \in Addrs(Net) /\ Position(Net, After(x)) = Position(Net, x) + 1
  <2>1. v # E
    <3>1. SUFFICES ASSUME v = E PROVE FALSE
      OBVIOUS
    <3>2. Value(E, v) = Room(Net) - 1
      BY <1>4, <3>1, Zenon
    <3> QED
      BY <1>1, <1>2, <1>9, <3>2
  <2>2. Up(E, v) \subseteq E /\ Value(E, Up(E, v)) = Value(E, v) + 1
    BY <1>1, <1>3, <2>1, ValueUp
  <2>3. Up(E, v) \cup base \in Addrs(Net) /\ Position(Net, Up(E, v) \cup base) = Value(E, Up(E, v))
    BY <1>1, <2>2, AddrsArePositions
  <2> QED
    BY <1>2, <1>7, <2>1, <2>2, <2>3
<1>10. ASSUME Position(Net, x) > 0
       PROVE  Beforehand(x) \in Addrs(Net) /\ Position(Net, Beforehand(x)) + 1 = Position(Net, x)
  <2>1. v # {}
    <3>1. SUFFICES ASSUME v = {} PROVE FALSE
      OBVIOUS
    <3>2. Value(E, v) = 0
      BY <1>4, <3>1, Zenon
    <3> QED
      BY <1>2, <1>10, <3>2
  <2>2. Down(E, v) \subseteq E /\ Value(E, Down(E, v)) + 1 = Value(E, v)
    BY <1>1, <1>3, <2>1, ValueDown
  <2>3. Down(E, v) \cup base \in Addrs(Net) /\ Position(Net, Down(E, v) \cup base) = Value(E, Down(E, v))
    BY <1>1, <2>2, AddrsArePositions
  <2> QED
    BY <1>2, <1>8, <2>1, <2>2, <2>3
<1> QED
  BY <1>5, <1>9, <1>10

(* A mask whose successor meets none of its bits has them all at the       *)
(* bottom.                                                                 *)
LEMMA NoCarryMeansLowest ==
  ASSUME NEW E \in Word, E \cap AddOne(E) = {}
  PROVE  \A i \in E : \A j \in 0 .. (i - 1) : j \in E
<1>1. SUFFICES ASSUME NEW i \in E PROVE \A j \in 0 .. (i - 1) : j \in E
  OBVIOUS
<1>2. i \in Bits /\ i \notin AddOne(E)
  BY DEF Word
<1> QED
  BY <1>2 DEF AddOne

(* With the host bits at the bottom, positions are added to and subtracted *)
(* from as the addresses themselves.                                       *)
LEMMA PlainSkips ==
  ASSUME CursorTypeOK, Contiguous, NEW x \in Addrs(Net), NEW n \in Nat
  PROVE  /\ Position(Net, x) + n < Room(Net) =>
              /\ Add(x, FromNat(n)) \in Addrs(Net)
              /\ Position(Net, Add(x, FromNat(n))) = Position(Net, x) + n
         /\ n <= Position(Net, x) =>
              /\ Sub(x, FromNat(n)) \in Addrs(Net)
              /\ Position(Net, Sub(x, FromNat(n))) + n = Position(Net, x)
<1> DEFINE E == HostMask
           M == 2 ^ W
<1>1. /\ Net \in Network /\ Net.addr = base /\ Net.mask = mask
      /\ E = Not(Net.mask) /\ E \in Word /\ Room(Net) \in Nat \ {0}
      /\ base \in Word /\ mask \in Word /\ base \cap E = {} /\ mask = Not(E)
  BY NetIsNetwork
<1>room. Room(Net) \in Nat \ {0}
  BY <1>1
<1>2. \A i \in E : \A j \in 0 .. (i - 1) : j \in E
  BY <1>1, NoCarryMeansLowest DEF Contiguous
<1>3. M \in Nat \ {0}
  BY WordOfNumber
<1>4. ToNat(base) \in Nat
  BY <1>1, <1>3, NumberOfWord
<1>5. Room(Net) = 2 ^ Cardinality(E)
  BY <1>1 DEF Room
<1> HIDE DEF E
<1>6. ASSUME NEW y \in Addrs(Net)
      PROVE  /\ y \in Word /\ ToNat(y) = ToNat(base) + Position(Net, y)
             /\ ToNat(y) \in 0 .. (M - 1) /\ Position(Net, y) \in 0 .. (Room(Net) - 1)
             /\ FromNat(ToNat(y)) = y
  <2> DEFINE v == y \cap E
  <2>1. /\ y \in Word /\ y = v \cup base
        /\ Value(E, v) = Position(Net, y) /\ Position(Net, y) \in 0 .. (Room(Net) - 1)
    <3>1. /\ y \in Word /\ y = (y \cap Not(Net.mask)) \cup Net.addr
          /\ Value(Not(Net.mask), y \cap Not(Net.mask)) = Position(Net, y)
          /\ Position(Net, y) \in 0 .. (Room(Net) - 1)
      BY <1>1, AddrsArePositions
    <3> QED
      BY <1>1, <3>1, Zenon
  <2>2. v \in SUBSET E /\ v \in Word /\ v \cap base = {}
    BY <1>1, <2>1 DEF Word
  <2>3. Value(E, v) = ToNat(v)
    BY <1>1, <1>2, <2>2, LowRunValue
  <2> HIDE DEF v
  <2>4. ToNat(v \cup base) = ToNat(v) + ToNat(base)
    BY <1>1, <2>2, DisjointSum
  <2>5. ToNat(y) = ToNat(v) + ToNat(base)
    BY <2>1, <2>4, Zenon
  <2>6. ToNat(y) \in 0 .. (M - 1) /\ FromNat(ToNat(y)) = y
    BY <2>1, NumberOfWord
  <2>7. Position(Net, y) \in 0 .. (Room(Net) - 1)
    BY <2>1
  <2>8. ToNat(v) = Position(Net, y)
    BY <2>1, <2>3
  <2>9. ToNat(y) = ToNat(base) + Position(Net, y)
    BY <1>room, <1>4, <2>5, <2>7, <2>8
  <2> QED
    BY <2>1, <2>6, <2>7, <2>9
<1>7. n < Room(Net) => FromNat(n) \in Word /\ ToNat(FromNat(n)) = n
  <2>1. SUFFICES ASSUME n < Room(Net) PROVE FromNat(n) \in Word /\ ToNat(FromNat(n)) = n
    OBVIOUS
  <2>0. n \in 0 .. (Room(Net) - 1)
    BY <1>room, <2>1
  <2>2. n \in 0 .. (2 ^ Cardinality(E) - 1)
    BY <1>5, <2>0, Zenon
  <2>3. FromNat(n) \in SUBSET E /\ Value(E, FromNat(n)) = n
    BY <1>1, <1>2, <2>2, LowRunValue
  <2>4. Value(E, FromNat(n)) = ToNat(FromNat(n))
    BY <1>1, <1>2, <2>3, LowRunValue
  <2> QED
    BY <1>1, <2>3, <2>4 DEF Word
<1>8. ASSUME NEW z \in Word, NEW y \in Addrs(Net), ToNat(z) = ToNat(y) PROVE z = y
  BY <1>6, <1>8, NumberOfWord
<1> DEFINE p == Position(Net, x)
<1>9. p \in 0 .. (Room(Net) - 1)
  BY <1>6
<1>10. ASSUME p + n < Room(Net)
       PROVE  /\ Add(x, FromNat(n)) \in Addrs(Net)
              /\ Position(Net, Add(x, FromNat(n))) = p + n
  <2> DEFINE y == At(Net, p + n)
  <2>1. y \in Addrs(Net) /\ Position(Net, y) = p + n
    BY <1>1, <1>9, <1>10, AtPosition
  <2> HIDE DEF y, p
  <2>2. FromNat(n) \in Word /\ ToNat(FromNat(n)) = n
    BY <1>1, <1>7, <1>9, <1>10
  <2>3. x \in Word /\ ToNat(x) = ToNat(base) + p /\ ToNat(y) = ToNat(base) + (p + n) /\ ToNat(y) < M
    BY <1>3, <1>6, <2>1 DEF p
  <2>4. ToNat(x) + ToNat(FromNat(n)) = ToNat(y)
    BY <1>1, <1>4, <1>9, <2>2, <2>3
  <2>5. ToNat(x) + ToNat(FromNat(n)) < 2 ^ W
    BY <2>3, <2>4
  <2>6. Add(x, FromNat(n)) \in Word /\ ToNat(Add(x, FromNat(n))) = ToNat(y)
    BY <2>2, <2>3, <2>4, <2>5, AddIs
  <2>7. Add(x, FromNat(n)) = y
    BY <1>8, <2>1, <2>6
  <2> QED
    BY <2>1, <2>7 DEF p
<1>11. ASSUME n <= p
       PROVE  /\ Sub(x, FromNat(n)) \in Addrs(Net)
              /\ Position(Net, Sub(x, FromNat(n))) + n = p
  <2> DEFINE y == At(Net, p - n)
  <2>1. y \in Addrs(Net) /\ Position(Net, y) = p - n
    BY <1>1, <1>9, <1>11, AtPosition
  <2> HIDE DEF y, p
  <2>2. FromNat(n) \in Word /\ ToNat(FromNat(n)) = n
    BY <1>1, <1>7, <1>9, <1>11
  <2>3. x \in Word /\ ToNat(x) = ToNat(base) + p /\ ToNat(y) = ToNat(base) + (p - n)
    BY <1>6, <2>1 DEF p
  <2>4. ToNat(x) - ToNat(FromNat(n)) = ToNat(y) /\ ToNat(FromNat(n)) <= ToNat(x)
    BY <1>1, <1>4, <1>9, <1>11, <2>2, <2>3
  <2>5. Sub(x, FromNat(n)) \in Word /\ ToNat(Sub(x, FromNat(n))) = ToNat(y)
    BY <2>2, <2>3, <2>4, SubIs
  <2>6. Sub(x, FromNat(n)) = y
    BY <1>8, <2>1, <2>5
  <2> QED
    BY <1>9, <2>1, <2>6 DEF p
<1> QED
  BY <1>10, <1>11

(* With scattered host bits, the index is spread over them first; the mask *)
(* bits, all ones for the sum and all zeros for the difference, carry from *)
(* one to the next.                                                        *)
LEMMA ScatteredSkips ==
  ASSUME CursorTypeOK, NEW x \in Addrs(Net), NEW n \in Nat
  PROVE  /\ Position(Net, x) + n < Room(Net) =>
              LET y == (Add(x \cup mask, Deposit(n)) \cap HostMask) \cup base
              IN  y \in Addrs(Net) /\ Position(Net, y) = Position(Net, x) + n
         /\ n <= Position(Net, x) =>
              LET y == (Sub(x \cap HostMask, Deposit(n)) \cap HostMask) \cup base
              IN  y \in Addrs(Net) /\ Position(Net, y) + n = Position(Net, x)
<1> DEFINE E == HostMask
           D == Deposit(n)
           p == Position(Net, x)
           v == x \cap E
<1>1. /\ Net \in Network /\ Net.addr = base /\ Net.mask = mask
      /\ E = Not(Net.mask) /\ E \in Word /\ Room(Net) \in Nat \ {0}
      /\ base \in Word /\ mask \in Word /\ base \cap E = {} /\ mask = Not(E)
  BY NetIsNetwork
<1>room. Room(Net) \in Nat \ {0}
  BY <1>1
<1>2. x \in Word /\ Value(E, v) = p /\ p \in 0 .. (Room(Net) - 1)
  <2>1. /\ x \in Word /\ Value(Not(Net.mask), x \cap Not(Net.mask)) = Position(Net, x)
        /\ Position(Net, x) \in 0 .. (Room(Net) - 1)
    BY <1>1, AddrsArePositions
  <2> QED
    BY <1>1, <2>1, Zenon
<1>3. Room(Net) = 2 ^ Cardinality(E)
  BY <1>1 DEF Room
<1>4. D = {q \in E : Rank(E, q) \in FromNat(n)}
  BY DEF Deposit, Rank
<1> HIDE DEF E, D
<1>5. ASSUME n < Room(Net) PROVE D \subseteq E /\ D \in Word /\ Value(E, D) = n
  <2>1. n \in 0 .. (Room(Net) - 1)
    BY <1>room, <1>5
  <2>2. n \in 0 .. (2 ^ Cardinality(E) - 1)
    BY <1>3, <2>1, Zenon
  <2>3. D \subseteq E /\ Value(E, D) = n
    BY <1>1, <1>4, <2>2, DepositValue
  <2> QED
    BY <1>1, <2>3 DEF Word
<1>6. v \in Word /\ v \subseteq E
  BY <1>1 DEF Word
<1> HIDE DEF v, p
<1>7. ASSUME NEW s \in Word
      PROVE  /\ (s \cap E) \cup base \in Addrs(Net)
             /\ Position(Net, (s \cap E) \cup base) = Value(E, s)
             /\ Value(E, s) \in 0 .. (Room(Net) - 1)
  <2>1. s \cap E \in SUBSET Not(Net.mask)
    BY <1>1
  <2>2. /\ (s \cap E) \cup Net.addr \in Addrs(Net)
        /\ Position(Net, (s \cap E) \cup Net.addr) = Value(Not(Net.mask), s \cap E)
    BY <1>1, <2>1, AddrsArePositions
  <2>3. s \cap E \in Word /\ (s \cap E) \cap E = s \cap E
    BY <1>1 DEF Word
  <2>4. Value(E, s \cap E) = Value(E, s)
    <3>1. E \in Word
      BY <1>1
    <3> QED
      BY <2>3, <3>1, ValueReads, Zenon
  <2>5. Value(E, s) \in 0 .. (2 ^ Cardinality(E) - 1)
    BY <1>1, ValueOnto
  <2> QED
    BY <1>1, <1>3, <2>2, <2>4, <2>5, Zenon
<1>8. ASSUME p + n < Room(Net)
      PROVE  /\ (Add(x \cup mask, D) \cap E) \cup base \in Addrs(Net)
             /\ Position(Net, (Add(x \cup mask, D) \cap E) \cup base) = p + n
  <2> DEFINE a == x \cup mask
             s == Add(a, D)
  <2>1. D \subseteq E /\ D \in Word /\ Value(E, D) = n
    BY <1>room, <1>2, <1>5, <1>8
  <2>2. a \in Word
    BY <1>1, <1>2 DEF Word
  <2>3. \A i \in Bits \ E : i \notin D /\ (i \in a \/ i \notin s)
    BY <1>1, <2>1 DEF Not
  <2>4. a \cap E = v /\ v \cap E = v
    BY <1>1, <1>6 DEF Not, v
  <2>5. Value(E, a) = p
    <3>1. Value(E, a) = Value(E, v)
      <4>1. E \in Word /\ v \in Word /\ a \in Word /\ a \cap E = v \cap E
        BY <1>1, <1>6, <2>2, <2>4, Zenon
      <4> QED
        BY <4>1, ValueReads, Zenon
    <3> QED
      BY <1>2, <3>1
  <2> HIDE DEF a
  <2>6. s \in Word
    BY <2>1, <2>2, AddWraps
  <2>7. PICK c \in {0, 1} : ToNat(a) + ToNat(D) = ToNat(s) + Wrapped(c, 2 ^ W)
    BY <2>1, <2>2, AddWraps
  <2> HIDE DEF s
  <2>8. Value(E, a) + Value(E, D) = Value(E, s) + Wrapped(c, 2 ^ Cardinality(E))
    BY <1>1, <2>1, <2>2, <2>3, <2>6, <2>7, SumTransfers
  <2>9. p + n = Value(E, s) + Wrapped(c, Room(Net))
    BY <1>3, <2>1, <2>5, <2>8, Zenon
  <2>10. /\ (s \cap E) \cup base \in Addrs(Net)
         /\ Position(Net, (s \cap E) \cup base) = Value(E, s)
         /\ Value(E, s) \in 0 .. (Room(Net) - 1)
    BY <1>7, <2>6
  <2>11. Value(E, s) = p + n
    <3>1. Value(E, s) \in 0 .. (Room(Net) - 1)
      BY <2>10
    <3> QED
      BY <1>room, <1>2, <1>8, <2>9, <3>1 DEF Wrapped
  <2> QED
    BY <2>10, <2>11 DEF s, a
<1>9. ASSUME n <= p
      PROVE  /\ (Sub(v, D) \cap E) \cup base \in Addrs(Net)
             /\ Position(Net, (Sub(v, D) \cap E) \cup base) + n = p
  <2> DEFINE r == Sub(v, D)
  <2>1. D \subseteq E /\ D \in Word /\ Value(E, D) = n
    BY <1>room, <1>2, <1>5, <1>9
  <2>2. ToNat(D) <= ToNat(v)
    <3>1. Value(E, D) <= Value(E, v)
      BY <1>2, <1>9, <2>1
    <3>2. D \cap E = D /\ v \cap E = v
      BY <1>6, <2>1
    <3>3. Le(D \cap E, v \cap E)
      BY <1>1, <1>6, <2>1, <3>1, ValueCompares
    <3>4. Le(D, v)
      BY <3>2, <3>3, Zenon
    <3> QED
      BY <1>6, <2>1, <3>4, WordsAreModularIntegers
  <2>3. r \in Word /\ ToNat(r) = ToNat(v) - ToNat(D)
    BY <1>6, <2>1, <2>2, SubIs
  <2> HIDE DEF r
  <2>4. ToNat(r) \in Nat /\ ToNat(v) \in Nat /\ ToNat(D) \in Nat
    BY <1>6, <2>1, <2>3, NumberOfWord, WordOfNumber
  <2>5. ToNat(r) + ToNat(D) = ToNat(v) + Wrapped(0, 2 ^ W)
    BY <2>3, <2>4 DEF Wrapped
  <2>6. \A i \in Bits \ E : i \notin D /\ (i \in r \/ i \notin v)
    BY <1>6, <2>1
  <2>7. Value(E, r) + Value(E, D) = Value(E, v) + Wrapped(0, 2 ^ Cardinality(E))
    BY <1>1, <1>6, <2>1, <2>3, <2>5, <2>6, SumTransfers
  <2>8. /\ (r \cap E) \cup base \in Addrs(Net)
        /\ Position(Net, (r \cap E) \cup base) = Value(E, r)
        /\ Value(E, r) \in 0 .. (Room(Net) - 1)
    BY <1>7, <2>3
  <2>9. Value(E, r) + n = p
    <3>1. Wrapped(0, 2 ^ Cardinality(E)) = 0
      BY DEF Wrapped
    <3>2. Value(E, r) + n = p + 0
      BY <1>2, <2>1, <2>7, <3>1, Zenon
    <3> QED
      BY <1>room, <1>2, <3>2
  <2> QED
    BY <2>8, <2>9 DEF r
<1> QED
  BY <1>8, <1>9 DEF E, D, v, p

-----------------------------------------------------------------------------
(* What is left                                                            *)

(* len addresses in order, from position p on.                             *)
Row(n, p, len) == [k \in 1 .. len |-> At(n, (p + k) - 1)]

(* Cutting a row leaves a row.                                             *)
LEMMA RowParts ==
  ASSUME NEW n, NEW p \in Nat, NEW len \in Nat
  PROVE  /\ Len(Row(n, p, len)) = len
         /\ \A k \in 1 .. len : Row(n, p, len)[k] = At(n, (p + k) - 1)
         /\ \A k \in 0 .. len :
              /\ SubSeq(Row(n, p, len), k + 1, len) = Row(n, p + k, len - k)
              /\ SubSeq(Row(n, p, len), 1, k) = Row(n, p, k)
         /\ Row(n, p, 0) = << >>
<1> DEFINE S == {At(n, (p + k) - 1) : k \in 1 .. len}
           s == Row(n, p, len)
<1>1. s \in Seq(S) /\ Len(s) = len /\ \A k \in 1 .. len : s[k] = At(n, (p + k) - 1)
  <2>1. s \in [1 .. len -> S] /\ \A k \in 1 .. len : s[k] = At(n, (p + k) - 1)
    BY DEF Row
  <2> HIDE DEF s, S
  <2>2. s \in Seq(S) /\ Len(s) = len
    BY <2>1
  <2> QED
    BY <2>1, <2>2
<1> HIDE DEF s, S
<1>2. ASSUME NEW k \in 0 .. len PROVE SubSeq(s, k + 1, len) = Row(n, p + k, len - k)
  <2> DEFINE t == SubSeq(s, k + 1, len)
             r == Row(n, p + k, len - k)
  <2>1. /\ t \in Seq(S) /\ Len(t) = len - k
        /\ \A i \in 1 .. (len - k) : t[i] = s[(k + 1) + i - 1]
    BY <1>1, SubSeqProperties
  <2>2. r = [i \in 1 .. (len - k) |-> At(n, ((p + k) + i) - 1)]
    BY DEF Row
  <2>3. ASSUME NEW i \in 1 .. (len - k) PROVE t[i] = r[i]
    <3>1. k + i \in 1 .. len /\ (k + 1) + i - 1 = k + i /\ ((p + k) + i) - 1 = (p + (k + i)) - 1
      OBVIOUS
    <3>2. t[i] = s[k + i]
      BY <2>1, <3>1
    <3>3. s[k + i] = At(n, (p + (k + i)) - 1)
      BY <1>1, <3>1
    <3> QED
      BY <2>2, <3>1, <3>2, <3>3
  <2> HIDE DEF t, r
  <2>4. t = [i \in 1 .. (len - k) |-> t[i]]
    BY <2>1
  <2>5. r = [i \in 1 .. (len - k) |-> r[i]]
    BY <2>2
  <2>6. t = r
    BY <2>3, <2>4, <2>5
  <2> QED
    BY <2>6 DEF t, r
<1>3. ASSUME NEW k \in 0 .. len PROVE SubSeq(s, 1, k) = Row(n, p, k)
  <2> DEFINE t == SubSeq(s, 1, k)
             r == Row(n, p, k)
  <2>1. /\ t \in Seq(S) /\ Len(t) = k
        /\ \A i \in 1 .. k : t[i] = s[1 + i - 1]
    BY <1>1, SubSeqProperties
  <2>2. r = [i \in 1 .. k |-> At(n, (p + i) - 1)]
    BY DEF Row
  <2>3. ASSUME NEW i \in 1 .. k PROVE t[i] = r[i]
    <3>1. i \in 1 .. len /\ 1 + i - 1 = i
      OBVIOUS
    <3> QED
      BY <1>1, <2>1, <2>2, <3>1
  <2> HIDE DEF t, r
  <2>4. t = [i \in 1 .. k |-> t[i]]
    BY <2>1
  <2>5. r = [i \in 1 .. k |-> r[i]]
    BY <2>2
  <2>6. t = r
    BY <2>3, <2>4, <2>5
  <2> QED
    BY <2>6 DEF t, r
<1>4. Row(n, p, 0) = << >>
  BY DEF Row
<1> QED
  BY <1>1, <1>2, <1>3, <1>4 DEF s

(* While something is left, the ends stand on addresses of the network and *)
(* the count is the distance between their positions.                      *)
CursorInv ==
  /\ CursorTypeOK
  /\ active =>
       /\ front \in Addrs(Net) /\ back \in Addrs(Net)
       /\ Position(Net, back) = Position(Net, front) + ToNat(remainingLast)

LeftFacts ==
  /\ ~active => Left = << >>
  /\ active =>
       /\ Position(Net, front) \in Nat /\ Position(Net, back) < Room(Net)
       /\ ToNat(remainingLast) \in Nat
       /\ IsFiniteSet(Between) /\ Cardinality(Between) = ToNat(remainingLast) + 1
       /\ {front, back} \subseteq Between
       /\ Left = Row(Net, Position(Net, front), ToNat(remainingLast) + 1)

(* What is between the ends is then a stretch of the network, and what is  *)
(* left the row of its addresses.                                          *)
LEMMA LeftIsRow == CursorInv => LeftFacts
<1>1. SUFFICES ASSUME CursorInv, active
      PROVE  /\ Position(Net, front) \in Nat /\ Position(Net, back) < Room(Net)
             /\ ToNat(remainingLast) \in Nat
             /\ IsFiniteSet(Between) /\ Cardinality(Between) = ToNat(remainingLast) + 1
             /\ {front, back} \subseteq Between
             /\ Left = Row(Net, Position(Net, front), ToNat(remainingLast) + 1)
  BY DEF Left, LeftFacts
<1> DEFINE p == Position(Net, front)
           q == Position(Net, back)
           d == ToNat(remainingLast)
<1>2. CursorTypeOK /\ front \in Addrs(Net) /\ back \in Addrs(Net) /\ q = p + d
  BY <1>1 DEF CursorInv
<1>3. Net \in Network /\ Room(Net) \in Nat \ {0}
  BY <1>2, NetIsNetwork
<1>4. p \in 0 .. (Room(Net) - 1) /\ q \in 0 .. (Room(Net) - 1)
  BY <1>2, <1>3, AddrsArePositions
<1>5. d \in Nat
  BY <1>2, NumberOfWord, WordOfNumber DEF CursorTypeOK
<1>6. Between = Stretch(Net, p, q)
  <2>1. ASSUME NEW x \in Addrs(Net)
        PROVE  (Le(front, x) /\ Le(x, back)) <=> (p <= Position(Net, x) /\ Position(Net, x) <= q)
    BY <1>2, <1>3, AddrsArePositions
  <2>2. Between = {x \in Addrs(Net) : Le(front, x) /\ Le(x, back)}
    BY DEF Between, Net
  <2> HIDE DEF p, q
  <2> QED
    BY <2>1, <2>2 DEF Stretch
<1> HIDE DEF p, q, d
<1>7. (q + 1) - p = d + 1 /\ p \in 0 .. Room(Net) /\ q \in -1 .. (Room(Net) - 1) /\ p <= q + 1
  BY <1>2, <1>3, <1>4, <1>5
<1>8. IsFiniteSet(Between) /\ Cardinality(Between) = d + 1
  BY <1>3, <1>6, <1>7, StretchCount
<1>9. front \in Between /\ back \in Between
  BY <1>2, <1>4, <1>5, <1>6 DEF Stretch, p, q
<1>10. Left = Row(Net, p, d + 1)
  <2>1. Ascending(Stretch(Net, p, q)) = [k \in 1 .. ((q + 1) - p) |-> At(Net, (p + k) - 1)]
    BY <1>3, <1>7, AscendingIsRow
  <2>2. Left = Ascending(Between)
    BY <1>1 DEF Left
  <2> QED
    BY <1>6, <1>7, <2>1, <2>2, Zenon DEF Row
<1> QED
  BY <1>3, <1>4, <1>5, <1>8, <1>9, <1>10 DEF p, q, d

(* The count minus one, one less.                                          *)
LEMMA CountsDown ==
  ASSUME NEW l \in Word
  PROVE  /\ ToNat(l) \in Nat /\ SubOne(l) \in Word
         /\ l = {} <=> ToNat(l) = 0
         /\ l # {} => ToNat(SubOne(l)) + 1 = ToNat(l)
<1> DEFINE M == 2 ^ W
<1>1. /\ M \in Nat \ {0} /\ ToNat(l) \in 0 .. (M - 1)
      /\ ToNat(SubOne(l)) = (ToNat(l) - 1) % M
  BY WordOfNumber, WordsAreModularIntegers
<1>2. Bits \in Word /\ {} \in Word /\ SubOne(l) \in Word
  BY DEF SubOne, Word
<1>3. ToNat({}) = 0
  BY <1>2, ValueEnds, ToNatIsValue
<1> HIDE DEF M
<1>4. l = {} <=> ToNat(l) = 0
  <2>1. l = {} => ToNat(l) = 0
    BY <1>3, Zenon
  <2>2. ASSUME ToNat(l) = 0 PROVE l = {}
    <3>1. FromNat(ToNat(l)) = l /\ FromNat(ToNat({})) = {}
      BY <1>2, NumberOfWord
    <3> QED
      BY <1>3, <2>2, <3>1, Zenon
  <2> QED
    BY <2>1, <2>2
<1>5. ASSUME l # {} PROVE ToNat(SubOne(l)) + 1 = ToNat(l)
  <2>1. ToNat(l) - 1 \in 0 .. (M - 1)
    BY <1>1, <1>4, <1>5
  <2>2. (ToNat(l) - 1) % M = ToNat(l) - 1
    BY <1>1, <2>1
  <2> QED
    BY <1>1, <2>1, <2>2
<1> QED
  BY <1>1, <1>2, <1>4, <1>5

(* A row cut from the shared count by a skip.                              *)
LEMMA CountSkips ==
  ASSUME NEW l \in Word, NEW n \in Nat, n <= ToNat(l)
  PROVE  Sub(l, FromNat(n)) \in Word /\ ToNat(Sub(l, FromNat(n))) + n = ToNat(l)
<1> DEFINE M == 2 ^ W
<1>1. M \in Nat \ {0} /\ ToNat(l) \in 0 .. (M - 1)
  BY WordOfNumber, NumberOfWord
<1>2. n \in 0 .. (2 ^ W - 1)
  BY <1>1
<1>3. FromNat(n) \in Word /\ ToNat(FromNat(n)) = n
  BY <1>2, WordOfNumber
<1>4. Sub(l, FromNat(n)) \in Word /\ ToNat(Sub(l, FromNat(n))) = ToNat(l) - ToNat(FromNat(n))
  BY <1>3, SubIs
<1> QED
  BY <1>1, <1>3, <1>4

-----------------------------------------------------------------------------
(* The steps                                                               *)

(* Newly opened, the cursor has the whole network before it.               *)
THEOREM OpensWhole ==
  CursorInit =>
    /\ CursorInv
    /\ active => Left = Row(Net, 0, Room(Net)) /\ Between = Addrs(Net)
<1>1. ASSUME Zero, got = {} PROVE CursorInv /\ ~active
  <2>1. {} \in Word
    BY DEF Word
  <2>2. Cardinality({}) <= 1
    BY FS_EmptySet
  <2> QED
    BY <1>1, <2>1, <2>2 DEF Zero, CursorInv, CursorTypeOK
<1>2. ASSUME NEW n \in Network, Open(n), got = {}
      PROVE  CursorInv /\ Left = Row(Net, 0, Room(Net)) /\ Between = Addrs(Net)
  <2>1. /\ n.addr \in Word /\ n.mask \in Word /\ n.addr \subseteq n.mask
        /\ base = n.addr /\ mask = n.mask /\ front = n.addr /\ back = LastAddr(n)
        /\ remainingLast = {i \in Bits : i < NumHostBits(n)} /\ active = TRUE
    BY <1>2, NetworkFields DEF Open
  <2>2. back \in Word /\ remainingLast \in Word
    BY <2>1 DEF LastAddr, Not, Word
  <2>3. CursorTypeOK
    <3>1. Cardinality({}) <= 1
      BY FS_EmptySet
    <3> QED
      BY <1>2, <2>1, <2>2, <3>1 DEF CursorTypeOK
  <2> DEFINE E == Not(Net.mask)
             R == remainingLast
  <2>4. /\ Net \in Network /\ Net.addr = base /\ Net.mask = mask /\ E \in Word
        /\ Room(Net) \in Nat \ {0} /\ base \cap E = {}
    BY <2>3, NetIsNetwork
  <2>5. Value(E, {}) = 0 /\ Value(E, E) = Room(Net) - 1
    BY <2>4, ValueEnds DEF Room
  <2>6. front \in Addrs(Net) /\ Position(Net, front) = 0
    <3>1. {} \cup Net.addr \in Addrs(Net) /\ Position(Net, {} \cup Net.addr) = Value(E, {})
      BY <2>4, AddrsArePositions
    <3>2. {} \cup Net.addr = front
      BY <2>1, <2>4
    <3> QED
      BY <2>5, <3>1, <3>2, Zenon
  <2>7. back \in Addrs(Net) /\ Position(Net, back) = Room(Net) - 1
    <3>1. E \cup Net.addr \in Addrs(Net) /\ Position(Net, E \cup Net.addr) = Value(E, E)
      BY <2>4, AddrsArePositions
    <3>2. E \cup Net.addr = back
      BY <2>1, <2>4 DEF LastAddr
    <3> QED
      BY <2>5, <3>1, <3>2, Zenon
  <2>8. ToNat(remainingLast) = Room(Net) - 1
    <3> DEFINE k == Cardinality(E)
    <3>1. k \in Nat /\ k <= W /\ W \in Nat
      <4>1. IsFiniteSet(Bits) /\ Cardinality(Bits) = W /\ W \in Nat
        BY WAssumption, FS_Interval DEF Bits
      <4>2. E \subseteq Bits
        BY <2>4 DEF Word
      <4> QED
        BY <4>1, <4>2, FS_Subset, FS_CardinalityType
    <3>2. NumHostBits(n) = k
      BY <2>1, <2>4 DEF NumHostBits
    <3> HIDE DEF k
    <3>3. R = 0 .. (k - 1)
      BY <2>1, <3>1, <3>2 DEF Bits
    <3>4. Cardinality(R) = k
      BY <3>1, <3>3, FS_Interval
    <3>5. \A i \in R : \A j \in 0 .. (i - 1) : j \in R
      BY <3>1, <3>3
    <3> HIDE DEF R
    <3>6. R \in Word
      BY <2>2 DEF R
    <3>7. Value(R, R) = 2 ^ Cardinality(R) - 1
      BY <3>6, ValueEnds
    <3>8. Value(R, R) = ToNat(R)
      BY <3>5, <3>6, LowRunValue
    <3>9. 2 ^ Cardinality(R) = Room(Net)
      BY <3>4, Zenon DEF Room, k
    <3> QED
      BY <3>7, <3>8, <3>9, Zenon DEF R
  <2>9. CursorInv
    BY <2>3, <2>4, <2>6, <2>7, <2>8 DEF CursorInv
  <2>10. Left = Row(Net, Position(Net, front), ToNat(remainingLast) + 1)
    BY <2>1, <2>9, LeftIsRow DEF LeftFacts
  <2>11. ToNat(remainingLast) + 1 = Room(Net)
    BY <2>4, <2>8
  <2>12. Between = Addrs(Net)
    <3>1. ASSUME NEW x \in Addrs(Net) PROVE Le(front, x) /\ Le(x, back)
      <4>1. Position(Net, x) \in 0 .. (Room(Net) - 1)
        BY <2>4, AddrsArePositions
      <4>2. Position(Net, front) <= Position(Net, x) /\ Position(Net, x) <= Position(Net, back)
        BY <2>4, <2>6, <2>7, <4>1
      <4> QED
        BY <2>4, <2>6, <2>7, <4>2, AddrsArePositions
    <3>2. Between = {x \in Addrs(Net) : Le(front, x) /\ Le(x, back)}
      BY DEF Between, Net
    <3> QED
      BY <3>1, <3>2
  <2> QED
    BY <2>6, <2>9, <2>10, <2>11, <2>12, Zenon
<1> QED
  BY <1>1, <1>2 DEF CursorInit

(* What taking an address from the front, after a skip, leaves.            *)
LEMMA TakesFront ==
  ASSUME CursorInv, active, NEW x \in Addrs(Net), NEW l \in Word,
         Position(Net, back) = Position(Net, x) + ToNat(l),
         TakeFront(x, l), UNCHANGED <<base, mask, back>>
  PROVE  /\ CursorInv'
         /\ active' <=> l # {}
         /\ active' => /\ Position(Net, front)' = Position(Net, x) + 1
                       /\ ToNat(remainingLast)' + 1 = ToNat(l)
<1>1. CursorTypeOK /\ back \in Addrs(Net)
  BY DEF CursorInv
<1>2. Net \in Network /\ Room(Net) \in Nat \ {0}
  BY <1>1, NetIsNetwork
<1>3. Position(Net, back) \in 0 .. (Room(Net) - 1) /\ Position(Net, x) \in 0 .. (Room(Net) - 1)
  BY <1>1, <1>2, AddrsArePositions
<1>4. /\ ToNat(l) \in Nat /\ SubOne(l) \in Word
      /\ l = {} <=> ToNat(l) = 0
      /\ l # {} => ToNat(SubOne(l)) + 1 = ToNat(l)
  BY CountsDown
<1>5. /\ After(x) \in Word
      /\ Position(Net, x) + 1 < Room(Net) =>
           After(x) \in Addrs(Net) /\ Position(Net, After(x)) = Position(Net, x) + 1
  BY <1>1, StepsByOne
<1>6. /\ got' = {x} /\ front' = After(x) /\ base' = base /\ mask' = mask /\ back' = back
      /\ active' = (l # {})
      /\ remainingLast' = IF l = {} THEN l ELSE SubOne(l)
  BY DEF TakeFront, Consume
<1>7. Net' = Net
  BY <1>6 DEF Net
<1>8. CursorTypeOK'
  <2>1. Cardinality({x}) <= 1
    BY FS_Singleton
  <2>2. x \in Addrs([addr |-> base, mask |-> mask])
    BY DEF Net
  <2> QED
    BY <1>1, <1>4, <1>5, <1>6, <2>1, <2>2 DEF CursorTypeOK
<1>9. ASSUME l # {}
      PROVE  /\ front' \in Addrs(Net) /\ Position(Net, front') = Position(Net, x) + 1
             /\ ToNat(remainingLast') + 1 = ToNat(l) /\ ToNat(remainingLast') \in Nat
  <2>1. Position(Net, x) + 1 < Room(Net)
    BY <1>2, <1>3, <1>4, <1>9
  <2>2. remainingLast' = SubOne(l)
    BY <1>6, <1>9
  <2>3. ToNat(SubOne(l)) \in Nat
    BY <1>4, CountsDown
  <2>4. ToNat(remainingLast') = ToNat(SubOne(l))
    BY <2>2, Zenon
  <2> QED
    BY <1>4, <1>5, <1>6, <1>9, <2>1, <2>3, <2>4
<1>10. ASSUME l # {} PROVE Position(Net, back) = Position(Net, front') + ToNat(remainingLast')
  <2>1. Position(Net, x) \in Nat
    BY <1>2, <1>3
  <2> QED
    BY <1>4, <1>9, <1>10, <2>1
<1>11. ASSUME active'
       PROVE  /\ (front \in Addrs(Net))' /\ (back \in Addrs(Net))'
              /\ Position(Net, back)' = Position(Net, front)' + ToNat(remainingLast)'
              /\ Position(Net, front)' = Position(Net, x) + 1
              /\ ToNat(remainingLast)' + 1 = ToNat(l)
  BY <1>1, <1>6, <1>7, <1>9, <1>10, <1>11, Zenon
<1> QED
  BY <1>6, <1>8, <1>11, Zenon DEF CursorInv

(* And from the back.                                                      *)
LEMMA TakesBack ==
  ASSUME CursorInv, active, NEW x \in Addrs(Net), NEW l \in Word,
         Position(Net, x) = Position(Net, front) + ToNat(l),
         TakeBack(x, l), UNCHANGED <<base, mask, front>>
  PROVE  /\ CursorInv'
         /\ active' <=> l # {}
         /\ active' => /\ Position(Net, front)' = Position(Net, front)
                       /\ ToNat(remainingLast)' + 1 = ToNat(l)
<1>1. CursorTypeOK /\ front \in Addrs(Net)
  BY DEF CursorInv
<1>2. Net \in Network /\ Room(Net) \in Nat \ {0}
  BY <1>1, NetIsNetwork
<1>3. Position(Net, front) \in 0 .. (Room(Net) - 1) /\ Position(Net, x) \in 0 .. (Room(Net) - 1)
  BY <1>1, <1>2, AddrsArePositions
<1>4. /\ ToNat(l) \in Nat /\ SubOne(l) \in Word
      /\ l = {} <=> ToNat(l) = 0
      /\ l # {} => ToNat(SubOne(l)) + 1 = ToNat(l)
  BY CountsDown
<1>5. /\ Beforehand(x) \in Word
      /\ Position(Net, x) > 0 =>
           Beforehand(x) \in Addrs(Net) /\ Position(Net, Beforehand(x)) + 1 = Position(Net, x)
  BY <1>1, StepsByOne
<1>6. /\ got' = {x} /\ back' = Beforehand(x) /\ base' = base /\ mask' = mask /\ front' = front
      /\ active' = (l # {})
      /\ remainingLast' = IF l = {} THEN l ELSE SubOne(l)
  BY DEF TakeBack, Consume
<1>7. Net' = Net
  BY <1>6 DEF Net
<1>8. CursorTypeOK'
  <2>1. Cardinality({x}) <= 1
    BY FS_Singleton
  <2>2. x \in Addrs([addr |-> base, mask |-> mask])
    BY DEF Net
  <2> QED
    BY <1>1, <1>4, <1>5, <1>6, <2>1, <2>2 DEF CursorTypeOK
<1>9. ASSUME l # {}
      PROVE  /\ back' \in Addrs(Net) /\ Position(Net, back') + 1 = Position(Net, x)
             /\ ToNat(remainingLast') + 1 = ToNat(l) /\ ToNat(remainingLast') \in Nat
  <2>1. Position(Net, x) > 0
    BY <1>2, <1>3, <1>4, <1>9
  <2>2. remainingLast' = SubOne(l)
    BY <1>6, <1>9
  <2>3. ToNat(SubOne(l)) \in Nat
    BY <1>4, CountsDown
  <2>4. ToNat(remainingLast') = ToNat(SubOne(l))
    BY <2>2, Zenon
  <2> QED
    BY <1>4, <1>5, <1>6, <1>9, <2>1, <2>3, <2>4
<1>10. ASSUME l # {} PROVE Position(Net, back') = Position(Net, front) + ToNat(remainingLast')
  <2>1. Position(Net, front) \in Nat
    BY <1>2, <1>3
  <2>2. Position(Net, back') \in Nat
    <3>1. Position(Net, back') \in 0 .. (Room(Net) - 1)
      BY <1>2, <1>9, <1>10, AddrsArePositions
    <3> QED
      BY <1>2, <3>1
  <2> QED
    BY <1>4, <1>9, <1>10, <2>1, <2>2
<1>11. ASSUME active'
       PROVE  /\ (front \in Addrs(Net))' /\ (back \in Addrs(Net))'
              /\ Position(Net, back)' = Position(Net, front)' + ToNat(remainingLast)'
              /\ Position(Net, front)' = Position(Net, front)
              /\ ToNat(remainingLast)' + 1 = ToNat(l)
  BY <1>1, <1>6, <1>7, <1>9, <1>10, <1>11, Zenon
<1> QED
  BY <1>6, <1>8, <1>11, Zenon DEF CursorInv

(* A skip that does not reach past what is left lands as many positions    *)
(* further.                                                                *)
LEMMA SkipsLand ==
  ASSUME CursorInv, active, NEW n \in Nat, n <= ToNat(remainingLast)
  PROVE  /\ FrontAfter(n) \in Addrs(Net)
         /\ Position(Net, FrontAfter(n)) = Position(Net, front) + n
         /\ BackBefore(n) \in Addrs(Net)
         /\ Position(Net, BackBefore(n)) + n = Position(Net, back)
<1> DEFINE p == Position(Net, front)
           q == Position(Net, back)
           d == ToNat(remainingLast)
<1>1. CursorTypeOK /\ front \in Addrs(Net) /\ back \in Addrs(Net) /\ q = p + d
  BY DEF CursorInv
<1>2. p \in Nat /\ q < Room(Net) /\ d \in Nat
  BY LeftIsRow DEF LeftFacts
<1>3. Net \in Network /\ Room(Net) \in Nat
  BY <1>1, NetIsNetwork
<1>4. q \in 0 .. (Room(Net) - 1)
  BY <1>1, <1>3, AddrsArePositions
<1> HIDE DEF p, q, d
<1>5. p + n < Room(Net) /\ n <= q
  BY <1>1, <1>2, <1>3 DEF d
<1>6. CASE Contiguous
  <2>1. FrontAfter(n) = Add(front, FromNat(n)) /\ BackBefore(n) = Sub(back, FromNat(n))
    BY <1>6 DEF FrontAfter, BackBefore
  <2>2. /\ Add(front, FromNat(n)) \in Addrs(Net)
        /\ Position(Net, Add(front, FromNat(n))) = Position(Net, front) + n
    BY <1>1, <1>5, <1>6, PlainSkips DEF p
  <2>3. /\ Sub(back, FromNat(n)) \in Addrs(Net)
        /\ Position(Net, Sub(back, FromNat(n))) + n = Position(Net, back)
    BY <1>1, <1>5, <1>6, PlainSkips DEF q
  <2> QED
    BY <2>1, <2>2, <2>3
<1>7. CASE ~Contiguous
  <2>1. /\ FrontAfter(n) = (Add(front \cup mask, Deposit(n)) \cap HostMask) \cup base
        /\ BackBefore(n) = (Sub(back \cap HostMask, Deposit(n)) \cap HostMask) \cup base
    BY <1>7 DEF FrontAfter, BackBefore
  <2>2. LET y == (Add(front \cup mask, Deposit(n)) \cap HostMask) \cup base
        IN  y \in Addrs(Net) /\ Position(Net, y) = Position(Net, front) + n
    BY <1>1, <1>5, ScatteredSkips DEF p
  <2>3. LET y == (Sub(back \cap HostMask, Deposit(n)) \cap HostMask) \cup base
        IN  y \in Addrs(Net) /\ Position(Net, y) + n = Position(Net, back)
    BY <1>1, <1>5, ScatteredSkips DEF q
  <2> QED
    BY <2>1, <2>2, <2>3, Zenon
<1> QED
  BY <1>6, <1>7

(* Every call keeps the invariant and is a step of the queue.              *)
LEMMA CursorSteps == CursorInv /\ CursorNext => CursorInv' /\ Abstract!Next
<1>1. (CursorInv => LeftFacts)'
  BY LeftIsRow, PTL
<1>2. SUFFICES ASSUME CursorInv, CursorNext PROVE CursorInv' /\ Abstract!Next
  OBVIOUS
<1> DEFINE p == Position(Net, front)
           q == Position(Net, back)
           d == ToNat(remainingLast)
<1>3. 2 ^ IndexW - 1 \in Nat
  BY IndexAssumption, PowerDoubles
<1>4. /\ CursorTypeOK
      /\ active => front \in Addrs(Net) /\ back \in Addrs(Net) /\ q = p + d
  BY <1>2 DEF CursorInv
<1>5. remainingLast \in Word /\ d \in Nat
  BY <1>4, CountsDown DEF CursorTypeOK
<1>6. Net \in Network
  BY <1>4, NetIsNetwork
<1>7. active => p \in Nat /\ Left = Row(Net, p, d + 1)
  BY <1>2, LeftIsRow DEF LeftFacts
<1>8. Len(Left) = IF active THEN d + 1 ELSE 0
  <2>1. CASE active
    <3>1. p \in Nat /\ d + 1 \in Nat /\ Left = Row(Net, p, d + 1)
      BY <1>5, <1>7, <2>1
    <3> HIDE DEF p, d
    <3>2. Len(Row(Net, p, d + 1)) = d + 1
      BY <3>1, RowParts
    <3> QED
      BY <2>1, <3>1, <3>2
  <2>2. CASE ~active
    BY <2>2 DEF Left
  <2> QED
    BY <2>1, <2>2
<1> HIDE DEF p, q, d
<1>9. ASSUME NEW n \in Skips, Beyond(n), Exhausted,
             UNCHANGED <<base, mask, front, back, remainingLast>>
      PROVE  CursorInv' /\ Abstract!TakeFront(n) /\ Abstract!TakeBack(n)
  <2>1. got' = {} /\ active' = FALSE
    BY <1>9 DEF Exhausted
  <2>2. CursorTypeOK'
    <3>1. Cardinality({}) <= 1
      BY FS_EmptySet
    <3> QED
      BY <1>4, <1>9, <2>1, <3>1 DEF CursorTypeOK
  <2>3. CursorInv'
    BY <2>1, <2>2 DEF CursorInv
  <2>4. Left' = << >>
    BY <2>1 DEF Left
  <2>5. ~(n < Len(Left))
    BY <1>3, <1>5, <1>8, <1>9 DEF Beyond, Skips, d
  <2> QED
    BY <2>1, <2>3, <2>4, <2>5 DEF Abstract!TakeFront, Abstract!TakeBack
<1>10. ASSUME active, NEW n \in Nat, n <= d, NEW x \in Addrs(Net), Position(Net, x) = p + n,
              NEW l \in Word, ToNat(l) + n = d, TakeFront(x, l), UNCHANGED <<base, mask, back>>
       PROVE  CursorInv' /\ Abstract!TakeFront(n)
  <2>1. p \in Nat /\ q = p + d /\ Left = Row(Net, p, d + 1) /\ Len(Left) = d + 1
    BY <1>4, <1>7, <1>8, <1>10
  <2>2. /\ ToNat(l) \in Nat
        /\ l = {} <=> ToNat(l) = 0
    BY CountsDown
  <2>3. Position(Net, back) = Position(Net, x) + ToNat(l)
    BY <1>5, <1>10, <2>1, <2>2 DEF q
  <2>4. /\ CursorInv'
        /\ active' <=> l # {}
        /\ active' => /\ Position(Net, front)' = Position(Net, x) + 1
                      /\ ToNat(remainingLast)' + 1 = ToNat(l)
    BY <1>2, <1>10, <2>3, TakesFront
  <2>5. got' = {x} /\ Net' = Net
    BY <1>10 DEF TakeFront, Net
  <2>6. x = Left[n + 1]
    <3>1. x = At(Net, p + n)
      BY <1>6, <1>10, AtPosition
    <3>2. n + 1 \in 1 .. (d + 1) /\ (p + (n + 1)) - 1 = p + n
      BY <1>5, <1>10, <2>1
    <3>3. Row(Net, p, d + 1)[n + 1] = At(Net, (p + (n + 1)) - 1)
      <4>1. d + 1 \in Nat
        BY <1>5
      <4>2. \A k \in 1 .. (d + 1) : Row(Net, p, d + 1)[k] = At(Net, (p + k) - 1)
        BY <2>1, <4>1, RowParts
      <4> QED
        BY <3>2, <4>2, Zenon
    <3> QED
      BY <2>1, <3>1, <3>2, <3>3
  <2>7. SubSeq(Left, n + 2, Len(Left)) = Row(Net, p + (n + 1), (d + 1) - (n + 1))
    <3>1. n + 1 \in 0 .. (d + 1) /\ n + 2 = (n + 1) + 1 /\ d + 1 \in Nat
      BY <1>5, <1>10
    <3>2. SubSeq(Row(Net, p, d + 1), (n + 1) + 1, d + 1) = Row(Net, p + (n + 1), (d + 1) - (n + 1))
      BY <2>1, <3>1, RowParts
    <3> QED
      BY <2>1, <3>1, <3>2
  <2>8. (d + 1) - (n + 1) = ToNat(l)
    BY <1>5, <1>10, <2>2
  <2>9. Left' = Row(Net, p + (n + 1), ToNat(l))
    <3>1. CASE l = {}
      <4>1. Left' = << >>
        BY <2>4, <3>1 DEF Left
      <4>2. Row(Net, p + (n + 1), 0) = << >>
        BY <2>1, RowParts
      <4> QED
        BY <2>2, <3>1, <4>1, <4>2
    <3>2. CASE l # {}
      <4>1. Left' = Row(Net, Position(Net, front)', ToNat(remainingLast)' + 1)
        BY <1>1, <2>4, <2>5, <3>2 DEF LeftFacts
      <4>2. Position(Net, front)' = p + (n + 1) /\ ToNat(remainingLast)' + 1 = ToNat(l)
        BY <1>10, <2>1, <2>4, <3>2
      <4> QED
        BY <4>1, <4>2
    <3> QED
      BY <3>1, <3>2
  <2>10. n < Len(Left)
    BY <1>5, <1>10, <2>1
  <2>11. got' = {Left[n + 1]} /\ Left' = SubSeq(Left, n + 2, Len(Left))
    BY <2>5, <2>6, <2>7, <2>8, <2>9, Zenon
  <2> QED
    BY <2>4, <2>10, <2>11, Zenon DEF Abstract!TakeFront
<1>11. ASSUME active, NEW n \in Nat, n <= d, NEW x \in Addrs(Net), Position(Net, x) + n = q,
              NEW l \in Word, ToNat(l) + n = d, TakeBack(x, l), UNCHANGED <<base, mask, front>>
       PROVE  CursorInv' /\ Abstract!TakeBack(n)
  <2>1. p \in Nat /\ q = p + d /\ Left = Row(Net, p, d + 1) /\ Len(Left) = d + 1
    BY <1>4, <1>7, <1>8, <1>11
  <2>2. /\ ToNat(l) \in Nat
        /\ l = {} <=> ToNat(l) = 0
    BY CountsDown
  <2>x. Position(Net, x) \in Nat
    <3>1. Position(Net, x) \in 0 .. (Room(Net) - 1) /\ Room(Net) \in Nat
      BY <1>6, <1>11, AddrsArePositions
    <3> QED
      BY <3>1
  <2>3. Position(Net, x) = p + ToNat(l)
    BY <1>5, <1>11, <2>1, <2>2, <2>x
  <2>4. /\ CursorInv'
        /\ active' <=> l # {}
        /\ active' => /\ Position(Net, front)' = Position(Net, front)
                      /\ ToNat(remainingLast)' + 1 = ToNat(l)
    BY <1>2, <1>11, <2>3, TakesBack DEF p
  <2>5. got' = {x} /\ Net' = Net
    BY <1>11 DEF TakeBack, Net
  <2>6. x = Left[Len(Left) - n]
    <3>1. x = At(Net, p + ToNat(l))
      BY <1>6, <2>3, AtPosition
    <3>2. (d + 1) - n \in 1 .. (d + 1) /\ (p + ((d + 1) - n)) - 1 = p + ToNat(l)
      BY <1>5, <1>11, <2>1, <2>2
    <3>3. Row(Net, p, d + 1)[(d + 1) - n] = At(Net, (p + ((d + 1) - n)) - 1)
      <4>1. d + 1 \in Nat
        BY <1>5
      <4>2. \A k \in 1 .. (d + 1) : Row(Net, p, d + 1)[k] = At(Net, (p + k) - 1)
        BY <2>1, <4>1, RowParts
      <4> QED
        BY <3>2, <4>2, Zenon
    <3> QED
      BY <2>1, <3>1, <3>2, <3>3
  <2>7. SubSeq(Left, 1, Len(Left) - n - 1) = Row(Net, p, ToNat(l))
    <3>1. ToNat(l) \in 0 .. (d + 1) /\ (d + 1) - n - 1 = ToNat(l) /\ d + 1 \in Nat
      BY <1>5, <1>11, <2>2
    <3>2. SubSeq(Row(Net, p, d + 1), 1, ToNat(l)) = Row(Net, p, ToNat(l))
      BY <2>1, <3>1, RowParts
    <3> QED
      BY <2>1, <3>1, <3>2
  <2>8. Left' = Row(Net, p, ToNat(l))
    <3>1. CASE l = {}
      <4>1. Left' = << >>
        BY <2>4, <3>1 DEF Left
      <4>2. Row(Net, p, 0) = << >>
        BY <2>1, RowParts
      <4> QED
        BY <2>2, <3>1, <4>1, <4>2
    <3>2. CASE l # {}
      <4>1. Left' = Row(Net, Position(Net, front)', ToNat(remainingLast)' + 1)
        BY <1>1, <2>4, <2>5, <3>2 DEF LeftFacts
      <4>2. Position(Net, front)' = p /\ ToNat(remainingLast)' + 1 = ToNat(l)
        BY <2>4, <3>2 DEF p
      <4> QED
        BY <4>1, <4>2
    <3> QED
      BY <3>1, <3>2
  <2>9. n < Len(Left)
    BY <1>5, <1>11, <2>1
  <2>10. got' = {Left[Len(Left) - n]} /\ Left' = SubSeq(Left, 1, Len(Left) - n - 1)
    BY <2>5, <2>6, <2>7, <2>8, Zenon
  <2> QED
    BY <2>4, <2>9, <2>10, Zenon DEF Abstract!TakeBack
<1>12. 0 \in Skips /\ \A n \in Skips : n \in Nat /\ n \in 0 .. (2 ^ IndexW - 1)
  BY <1>3 DEF Skips
<1>13. ASSUME NEW n \in Skips, CursorInv' /\ (Abstract!TakeFront(n) \/ Abstract!TakeBack(n))
       PROVE  CursorInv' /\ Abstract!Next
  BY <1>12, <1>13 DEF Abstract!Next
<1>14. CASE NextAddr
  <2>1. CASE active
    <3>1. /\ front \in Addrs(Net) /\ Position(Net, front) = p + 0 /\ ToNat(remainingLast) + 0 = d
          /\ TakeFront(front, remainingLast) /\ UNCHANGED <<base, mask, back>> /\ 0 <= d
      BY <1>4, <1>5, <1>7, <1>14, <2>1 DEF NextAddr, p, d
    <3> QED
      BY <1>5, <1>10, <1>12, <1>13, <2>1, <3>1
  <2>2. CASE ~active
    <3>1. Exhausted /\ UNCHANGED <<base, mask, front, back, remainingLast>> /\ Beyond(0)
      BY <1>14, <2>2 DEF NextAddr, Beyond
    <3> QED
      BY <1>9, <1>12, <1>13, <3>1
  <2> QED
    BY <2>1, <2>2
<1>15. CASE NextBack
  <2>1. CASE active
    <3>1. /\ back \in Addrs(Net) /\ Position(Net, back) + 0 = q /\ ToNat(remainingLast) + 0 = d
          /\ TakeBack(back, remainingLast) /\ UNCHANGED <<base, mask, front>> /\ 0 <= d
      BY <1>4, <1>5, <1>7, <1>15, <2>1 DEF NextBack, q, d
    <3> QED
      BY <1>5, <1>11, <1>12, <1>13, <2>1, <3>1
  <2>2. CASE ~active
    <3>1. Exhausted /\ UNCHANGED <<base, mask, front, back, remainingLast>> /\ Beyond(0)
      BY <1>15, <2>2 DEF NextBack, Beyond
    <3> QED
      BY <1>9, <1>12, <1>13, <3>1
  <2> QED
    BY <2>1, <2>2
<1>16. CASE Nth
  <2>1. PICK n \in Skips :
          /\ IF Beyond(n) THEN Exhausted /\ UNCHANGED <<front, remainingLast>>
             ELSE TakeFront(FrontAfter(n), Sub(remainingLast, FromNat(n)))
          /\ UNCHANGED <<base, mask, back>>
    BY <1>16 DEF Nth
  <2>2. CASE Beyond(n)
    BY <1>9, <1>13, <2>1, <2>2
  <2>3. CASE ~Beyond(n)
    <3> DEFINE x == FrontAfter(n)
               l == Sub(remainingLast, FromNat(n))
    <3>1. active /\ n \in Nat /\ n <= d
      BY <1>5, <1>12, <2>3 DEF Beyond, d
    <3>2. x \in Addrs(Net) /\ Position(Net, x) = p + n
      BY <1>2, <3>1, SkipsLand DEF p, d
    <3>3. l \in Word /\ ToNat(l) + n = d
      BY <1>5, <3>1, CountSkips DEF d
    <3>4. TakeFront(x, l) /\ UNCHANGED <<base, mask, back>>
      BY <2>1, <2>3
    <3> HIDE DEF x, l
    <3>5. CursorInv' /\ Abstract!TakeFront(n)
      BY <1>10, <3>1, <3>2, <3>3, <3>4
    <3> QED
      BY <1>13, <3>5
  <2> QED
    BY <2>2, <2>3
<1>17. CASE NthBack
  <2>1. PICK n \in Skips :
          /\ IF Beyond(n) THEN Exhausted /\ UNCHANGED <<back, remainingLast>>
             ELSE TakeBack(BackBefore(n), Sub(remainingLast, FromNat(n)))
          /\ UNCHANGED <<base, mask, front>>
    BY <1>17 DEF NthBack
  <2>2. CASE Beyond(n)
    BY <1>9, <1>13, <2>1, <2>2
  <2>3. CASE ~Beyond(n)
    <3> DEFINE x == BackBefore(n)
               l == Sub(remainingLast, FromNat(n))
    <3>1. active /\ n \in Nat /\ n <= d
      BY <1>5, <1>12, <2>3 DEF Beyond, d
    <3>2. x \in Addrs(Net) /\ Position(Net, x) + n = q
      BY <1>2, <3>1, SkipsLand DEF q, d
    <3>3. l \in Word /\ ToNat(l) + n = d
      BY <1>5, <3>1, CountSkips DEF d
    <3>4. TakeBack(x, l) /\ UNCHANGED <<base, mask, front>>
      BY <2>1, <2>3
    <3> HIDE DEF x, l
    <3>5. CursorInv' /\ Abstract!TakeBack(n)
      BY <1>11, <3>1, <3>2, <3>3, <3>4
    <3> QED
      BY <1>13, <3>5
  <2> QED
    BY <2>2, <2>3
<1> QED
  BY <1>2, <1>14, <1>15, <1>16, <1>17 DEF CursorNext

(* The invariant gives the count, and SizeHint's two answers.              *)
LEMMA InvGivesCount == CursorInv => CountExact
<1>1. SUFFICES ASSUME CursorInv PROVE CountExact
  OBVIOUS
<1> DEFINE M == 2 ^ IndexW
           d == ToNat(remainingLast)
           count == IF active THEN Cardinality(Between) ELSE 0
<1>2. M \in Nat \ {0}
  BY IndexAssumption, PowerDoubles
<1>3. CursorTypeOK
  BY <1>1 DEF CursorInv
<1>4. active => d \in Nat /\ Cardinality(Between) = d + 1 /\ {front, back} \subseteq Between
  BY <1>1, LeftIsRow DEF LeftFacts
<1> HIDE DEF M, d
<1>5. SizeHint = IF ~active THEN <<0, TRUE>>
                 ELSE IF d >= M - 1 THEN <<M - 1, FALSE>> ELSE <<d + 1, TRUE>>
  BY DEF SizeHint, M, d
<1>6. /\ SizeHint[2] <=> count < M
      /\ SizeHint[2] => SizeHint[1] = count
      /\ ~SizeHint[2] => SizeHint[1] = M - 1
  <2>1. CASE ~active
    BY <1>2, <1>5, <2>1
  <2>2. CASE active /\ d >= M - 1
    BY <1>2, <1>4, <1>5, <2>2
  <2>3. CASE active /\ ~(d >= M - 1)
    BY <1>2, <1>4, <1>5, <2>3
  <2> QED
    BY <2>1, <2>2, <2>3
<1> QED
  BY <1>3, <1>4, <1>6 DEF CountExact, M, d

(* For every network, every address width and every sequence of calls, the *)
(* shared count is what lies between the two ends, and SizeHint tells it   *)
(* (addr_iterator.go:26, 61, 152).                                         *)
THEOREM CursorCounts == CursorSpec => []CountExact
<1>1. CursorInit => CursorInv
  BY OpensWhole
<1>2. CursorInv /\ [CursorNext]_cursorVars => CursorInv'
  <2>1. CursorInv /\ UNCHANGED cursorVars => CursorInv'
    BY DEF CursorInv, CursorTypeOK, cursorVars, Net
  <2> QED
    BY <2>1, CursorSteps
<1> QED
  BY <1>1, <1>2, InvGivesCount, PTL DEF CursorSpec

(* The cursor implements the queue of addresses: nothing comes twice or    *)
(* out of order, whichever ends the calls take from and however far they   *)
(* skip (addr_iterator.go:8, 44, 79).                                      *)
THEOREM CursorIsQueue == CursorSpec => Implements
<1>1. CursorInit => CursorInv /\ Abstract!Init
  BY OpensWhole DEF CursorInit, Abstract!Init
<1>2. CursorInv /\ [CursorNext]_cursorVars => CursorInv' /\ [Abstract!Next]_(Abstract!vars)
  <2>1. CursorInv /\ UNCHANGED cursorVars => CursorInv'
    BY DEF CursorInv, CursorTypeOK, cursorVars, Net
  <2>2. UNCHANGED cursorVars => UNCHANGED Abstract!vars
    BY DEF cursorVars, Abstract!vars, Left, Between
  <2> QED
    BY <2>1, <2>2, CursorSteps
<1> QED
  BY <1>1, <1>2, PTL DEF CursorSpec, Implements, Abstract!Spec

-----------------------------------------------------------------------------
(* The subnets and addresses of a network: the list that is asked for      *)

(* A walk is the sequence that its promise lists.                          *)
Promised == INSTANCE YieldSequence WITH over <- (pc = "done")

Methods == SubnetOps \cup BackwardSubnetOps \cup AddrOps

(* A call as the caller makes it.                                          *)
Called ==
  /\ method \in Methods
  /\ receiver \in Network
  /\ arg \in IF method \in AddrOps THEN {0}
             ELSE IF method \in {"Subnets", "SubnetsBackward"} THEN Word
             ELSE -1 .. (W + 1)

(* What is asked for is one network for every choice of the bits that the  *)
(* mask fixes and the receiver leaves free; nothing, if the argument is    *)
(* refused.                                                                *)
LEMMA InsideIs ==
  ASSUME Called
  PROVE  /\ \A M \in Requested :
              /\ M \in Word /\ receiver.mask \subseteq M
              /\ Inside = {[addr |-> receiver.addr \cup x, mask |-> M] :
                              x \in SUBSET (M \ receiver.mask)}
              /\ method \in AddrOps => M = Bits
         /\ Requested = {} => Inside = {}
<1>0. /\ receiver \in Network /\ receiver.addr \in Word /\ receiver.mask \in Word
      /\ receiver.addr \subseteq receiver.mask
      /\ Bits \in Word
  BY NetworkFields DEF Called, Word
<1> DEFINE IsMask(M) == M \in Word /\ receiver.mask \subseteq M /\ \A n \in Network :
                          receiver.mask \subseteq n.mask => (Asked(n) <=> n.mask = M)
<1>1. ASSUME NEW M, IsMask(M)
      PROVE  Inside = {[addr |-> receiver.addr \cup x, mask |-> M] :
                           x \in SUBSET (M \ receiver.mask)}
  <2>1. ASSUME NEW n \in Inside
        PROVE  \E x \in SUBSET (M \ receiver.mask) :
                 n = [addr |-> receiver.addr \cup x, mask |-> M]
    <3>1. /\ n \in Network /\ Asked(n) /\ n.addr \cap receiver.mask = receiver.addr
          /\ receiver.mask \subseteq n.mask
          /\ n = [addr |-> n.addr, mask |-> n.mask] /\ n.addr \subseteq n.mask
      BY NetworkFields DEF Inside, Contains
    <3>2. n.mask = M
      BY <1>1, <3>1
    <3>3. /\ n.addr = receiver.addr \cup (n.addr \ receiver.mask)
          /\ n.addr \ receiver.mask \subseteq M \ receiver.mask
      BY <3>1, <3>2
    <3>4. n = [addr |-> receiver.addr \cup (n.addr \ receiver.mask), mask |-> M]
      BY <3>1, <3>2, <3>3
    <3> QED
      BY <3>3, <3>4
  <2>2. ASSUME NEW x \in SUBSET (M \ receiver.mask)
        PROVE  [addr |-> receiver.addr \cup x, mask |-> M] \in Inside
    <3> DEFINE n == [addr |-> receiver.addr \cup x, mask |-> M]
    <3>1. receiver.addr \cup x \in Word /\ receiver.addr \cup x \subseteq M /\ M \in Word
      BY <1>0, <1>1, <2>2 DEF Word
    <3>2. n \in Network
      BY <3>1, NetworkMake
    <3>3. Contains(receiver, n) /\ receiver.mask \subseteq n.mask /\ n.mask = M
      BY <1>0, <1>1, <2>2 DEF Contains
    <3>4. Asked(n)
      BY <1>1, <3>2, <3>3
    <3> QED
      BY <3>2, <3>3, <3>4 DEF Inside
  <2> QED
    BY <2>1, <2>2
<1>2. CASE method \in AddrOps
  <2>1. Requested = {Bits} /\ \A n \in Network : Asked(n) <=> n.mask = Bits
    BY <1>2 DEF Requested, Asked, AddrOps
  <2>2. IsMask(Bits)
    BY <1>0, <2>1 DEF Word
  <2> QED
    BY <1>1, <2>1, <2>2
<1>3. CASE method \in {"Subnets", "SubnetsBackward"}
  <2>1. arg \in Word /\ method \notin AddrOps
    BY <1>3 DEF Called, AddrOps
  <2>2. \A n \in Network : Asked(n) <=> n.mask = arg
    BY <1>3, <2>1 DEF Asked
  <2>3. Requested = Only(arg \cap receiver.mask = receiver.mask, arg)
    BY <1>3, <2>1 DEF Requested, SubnetMask
  <2>4. CASE receiver.mask \subseteq arg
    <3>1. IsMask(arg) /\ Requested = {arg}
      BY <2>1, <2>2, <2>3, <2>4 DEF Only
    <3> QED
      BY <1>1, <2>1, <3>1
  <2>5. CASE ~(receiver.mask \subseteq arg)
    <3>1. Requested = {}
      BY <2>3, <2>5 DEF Only
    <3>2. Inside = {}
      BY <2>2, <2>5 DEF Inside, Contains
    <3> QED
      BY <3>1, <3>2
  <2> QED
    BY <2>4, <2>5
<1>4. CASE method \in {"SubnetsWithPrefix", "SubnetsWithPrefixBackward"}
  <2> DEFINE M == MaskFromPrefix(arg)
  <2>1. /\ arg \in Int /\ W \in Int /\ method \notin AddrOps
        /\ method \notin {"Subnets", "SubnetsBackward"}
    BY <1>4, WAssumption DEF Called, AddrOps
  <2>2. \A n \in Network : Asked(n) <=> PrefixLen(n) = {arg}
    BY <1>4, <2>1 DEF Asked
  <2>3. Requested = Only(0 <= arg /\ arg <= W /\ M \cap receiver.mask = receiver.mask, M)
    BY <2>1 DEF Requested, SubnetPrefixMask
  <2>4. ASSUME NEW n \in Network, Asked(n) PROVE arg \in 0 .. W /\ n.mask = M
    <3>1. IsContiguous(n) /\ LeadingOnes(n.mask) = arg /\ n.mask \in Word
      BY <2>2, <2>4, NetworkFields DEF PrefixLen, Only
    <3>2. n.mask \cup SubOne(n.mask) = Bits
      BY <3>1 DEF IsContiguous
    <3> QED
      BY <3>1, <3>2, LeadingRun, RunFacts
  <2>5. ASSUME arg \in 0 .. W, NEW n \in Network, n.mask = M PROVE Asked(n)
    <3>1. M \in Word /\ M \cup SubOne(M) = Bits /\ LeadingOnes(M) = arg
      BY <2>5, PrefixMask, RunFacts
    <3> QED
      BY <2>2, <2>5, <3>1 DEF PrefixLen, Only, IsContiguous
  <2>6. arg \in 0 .. W => M \in Word
    BY PrefixMask
  <2> HIDE DEF M
  <2>7. CASE arg \in 0 .. W /\ receiver.mask \subseteq M
    <3>1. IsMask(M)
      BY <2>4, <2>5, <2>6, <2>7
    <3>2. Requested = {M}
      BY <2>1, <2>3, <2>7 DEF Only
    <3> QED
      BY <1>1, <2>1, <3>1, <3>2
  <2>8. CASE ~(arg \in 0 .. W /\ receiver.mask \subseteq M)
    <3>1. Requested = {}
      BY <2>1, <2>3, <2>8 DEF Only
    <3>2. Inside = {}
      BY <2>4, <2>8 DEF Inside, Contains
    <3> QED
      BY <3>1, <3>2
  <2> QED
    BY <2>7, <2>8
<1> QED
  BY <1>2, <1>3, <1>4 DEF Called, Methods, SubnetOps, BackwardSubnetOps

(* The mask is one the argument asks for.                                  *)
Walking == Called /\ yieldMask \in Requested

(* The bits counted through, and the element of each offset.               *)
Free == yieldMask \ receiver.mask
Elem(x) == [addr |-> receiver.addr \cup x, mask |-> yieldMask]

(* What comes no later than one element.                                   *)
Reached(n) ==
  {x \in Inside : IF Descends THEN Le(n.addr, x.addr) ELSE Le(x.addr, n.addr)}

FirstOffset == IF Descends THEN Free ELSE {}
LastOffset == IF Descends THEN {} ELSE Free
NextOffset(x) == IF Descends THEN Down(Free, x) ELSE Up(Free, x)

LEMMA WalkingFacts ==
  ASSUME Walking
  PROVE  /\ receiver \in Network /\ receiver.addr \in Word /\ receiver.mask \in Word
         /\ receiver.addr \subseteq receiver.mask
         /\ yieldMask \in Word /\ receiver.mask \subseteq yieldMask /\ Free \in Word
         /\ receiver.addr \cap Free = {} /\ yieldMask = receiver.mask \cup Free
         /\ Inside = {Elem(x) : x \in SUBSET Free}
         /\ method \in AddrOps => yieldMask = Bits
<1>1. /\ receiver \in Network /\ receiver.addr \in Word /\ receiver.mask \in Word
      /\ receiver.addr \subseteq receiver.mask
  BY NetworkFields DEF Walking, Called
<1>2. /\ yieldMask \in Word /\ receiver.mask \subseteq yieldMask
      /\ Inside = {[addr |-> receiver.addr \cup x, mask |-> yieldMask] :
                      x \in SUBSET (yieldMask \ receiver.mask)}
      /\ method \in AddrOps => yieldMask = Bits
  BY InsideIs DEF Walking
<1> QED
  BY <1>1, <1>2 DEF Free, Elem, Word

LEMMA InsideFinite ==
  ASSUME Called
  PROVE  IsFiniteSet(Inside)
<1>1. CASE Requested = {}
  BY <1>1, InsideIs, FS_EmptySet
<1>2. ASSUME NEW M \in Requested PROVE IsFiniteSet(Inside)
  <2> DEFINE f == [n \in Inside |-> n.addr]
  <2>1. \A n \in Inside : n \in Network /\ n.mask = M
    BY <1>2, InsideIs DEF Inside
  <2>2. \A n \in Inside : n.addr \in Word /\ n = [addr |-> n.addr, mask |-> M]
    BY <2>1, NetworkFields
  <2>3. f \in Injection(Inside, Word)
    BY <2>2 DEF Injection, IsInjective
  <2>4. IsFiniteSet(Bits)
    BY WAssumption, FS_Interval DEF Bits
  <2>5. IsFiniteSet(Word)
    BY <2>4, FS_SUBSET DEF Word
  <2> QED
    BY <2>3, <2>5, FS_Injection
<1> QED
  BY <1>1, <1>2

(* The promised list has each element where the number of those up to it   *)
(* says.                                                                   *)
LEMMA WantIs ==
  ASSUME Walking, NEW n \in Inside
  PROVE  /\ IsFiniteSet(Reached(n))
         /\ Cardinality(Reached(n)) \in 1 .. Cardinality(Inside)
         /\ Cardinality(Inside) \in Nat
         /\ Want[Cardinality(Reached(n))] = n
<1>1. IsFiniteSet(Inside)
  BY InsideFinite DEF Walking
<1>2. \A o \in Inside :
        o \in Network /\ o.addr \in Word /\ o = [addr |-> o.addr, mask |-> yieldMask]
  <2>1. \A o \in Inside : o.mask = yieldMask /\ o \in Network
    BY WalkingFacts DEF Elem, Inside
  <2> QED
    BY <2>1, NetworkFields
<1>3. \A o \in Inside : Reached(o) \subseteq Inside /\ o \in Reached(o)
  BY DEF Reached, Le
<1>4. ASSUME NEW o \in Inside, NEW p \in Inside,
             IF Descends THEN Lt(p.addr, o.addr) ELSE Lt(o.addr, p.addr)
      PROVE  Cardinality(Reached(o)) # Cardinality(Reached(p))
  <2>1. o.addr \in Word /\ p.addr \in Word
    BY <1>2
  <2>2. p \notin Reached(o)
    BY <1>4, <2>1, LtAsymmetric DEF Reached, Le
  <2>3. ASSUME NEW x \in Reached(o) PROVE x \in Reached(p)
    <3>1. x \in Inside /\ x.addr \in Word
      BY <1>2, <1>3, <2>3
    <3> QED
      BY <1>4, <2>1, <2>3, <3>1, LtTransitive DEF Reached, Le
  <2>4. IsFiniteSet(Reached(p))
    BY <1>1, <1>3, FS_Subset
  <2>5. Reached(o) \in SUBSET Reached(p) /\ Reached(o) # Reached(p)
    BY <1>3, <2>2, <2>3
  <2> QED
    BY <2>4, <2>5, FS_Subset
<1>5. ASSUME NEW o \in Inside, NEW p \in Inside, o # p
      PROVE  Cardinality(Reached(o)) # Cardinality(Reached(p))
  <2>1. o.addr # p.addr /\ o.addr \in Word /\ p.addr \in Word
    BY <1>2, <1>5
  <2>2. Lt(o.addr, p.addr) \/ Lt(p.addr, o.addr)
    BY <2>1, LtTotal
  <2> QED
    BY <1>4, <2>2
<1>6. /\ IsFiniteSet(Reached(n)) /\ Cardinality(Reached(n)) \in Nat
      /\ Cardinality(Inside) \in Nat
      /\ Cardinality(Reached(n)) <= Cardinality(Inside) /\ Cardinality(Reached(n)) # 0
  BY <1>1, <1>3, FS_Subset, FS_CardinalityType, FS_EmptySet
<1>7. Cardinality(Reached(n)) \in 1 .. Cardinality(Inside)
  BY <1>6
<1>8. Want[Cardinality(Reached(n))] =
        CHOOSE o \in Inside : Cardinality(Reached(n)) = Cardinality(Reached(o))
  BY <1>7 DEF Want, Reached
<1> QED
  BY <1>5, <1>6, <1>7, <1>8

(* Offsets are counted in the order of the elements.                       *)
LEMMA ReachedIs ==
  ASSUME Walking, NEW x \in SUBSET Free
  PROVE  /\ Elem(x) \in Inside
         /\ \A y \in SUBSET Free :
              /\ Elem(y) \in Inside
              /\ Elem(y) \in Reached(Elem(x)) <=> IF Descends THEN Le(x, y) ELSE Le(y, x)
<1>1. \A y \in SUBSET Free : Elem(y) \in Inside /\ Elem(y).addr = receiver.addr \cup y
  BY WalkingFacts DEF Elem
<1>2. ASSUME NEW y \in SUBSET Free, NEW z \in SUBSET Free
      PROVE  Le(receiver.addr \cup y, receiver.addr \cup z) <=> Le(y, z)
  <2>1. receiver.addr \cap Free = {}
    BY WalkingFacts
  <2>2. /\ (receiver.addr \cup z) \ (receiver.addr \cup y) = z \ y
        /\ (receiver.addr \cup y) \ (receiver.addr \cup z) = y \ z
        /\ receiver.addr \cup y = receiver.addr \cup z <=> y = z
    BY <2>1
  <2> QED
    BY <2>2 DEF Le, Lt
<1> QED
  BY <1>1, <1>2 DEF Reached

LEMMA Counting ==
  ASSUME Walking
  PROVE  /\ FirstOffset \in SUBSET Free /\ Cardinality(Reached(Elem(FirstOffset))) = 1
         /\ LastOffset \in SUBSET Free /\ Reached(Elem(LastOffset)) = Inside
         /\ \A x \in SUBSET Free : x # LastOffset =>
              /\ NextOffset(x) \in SUBSET Free
              /\ Cardinality(Reached(Elem(NextOffset(x)))) = Cardinality(Reached(Elem(x))) + 1
<1>1. /\ Free \in Word /\ {} \in Word /\ \A y \in SUBSET Free : y \in Word
      /\ Inside = {Elem(x) : x \in SUBSET Free}
  BY WalkingFacts DEF Word
<1>2. FirstOffset \in SUBSET Free /\ LastOffset \in SUBSET Free
  BY DEF FirstOffset, LastOffset
<1>3. Reached(Elem(FirstOffset)) = {Elem(FirstOffset)}
  <2>1. ASSUME NEW y \in SUBSET Free, Elem(y) \in Reached(Elem(FirstOffset))
        PROVE y = FirstOffset
    <3>1. IF Descends THEN Le(FirstOffset, y) ELSE Le(y, FirstOffset)
      BY <1>2, <2>1, ReachedIs
    <3>2. CASE Descends
      BY <1>1, <2>1, <3>1, <3>2, SubsetIsLess, LtAsymmetric DEF FirstOffset, Le
    <3>3. CASE ~Descends
      BY <1>1, <2>1, <3>1, <3>3, SubsetIsLess, LtAsymmetric DEF FirstOffset, Le
    <3> QED
      BY <3>2, <3>3
  <2>2. Elem(FirstOffset) \in Reached(Elem(FirstOffset))
    BY <1>2, ReachedIs DEF Le
  <2>3. Reached(Elem(FirstOffset)) \subseteq Inside
    BY DEF Reached
  <2> QED
    BY <1>1, <2>1, <2>2, <2>3
<1>4. Reached(Elem(LastOffset)) = Inside
  <2>1. ASSUME NEW y \in SUBSET Free PROVE Elem(y) \in Reached(Elem(LastOffset))
    <3>1. IF Descends THEN Le(LastOffset, y) ELSE Le(y, LastOffset)
      BY <1>1, <2>1, SubsetIsLess DEF LastOffset, Le
    <3> QED
      BY <1>2, <2>1, <3>1, ReachedIs
  <2> QED
    BY <1>1, <2>1 DEF Reached
<1>5. ASSUME NEW x \in SUBSET Free, x # LastOffset
      PROVE  /\ NextOffset(x) \in SUBSET Free
             /\ Cardinality(Reached(Elem(NextOffset(x)))) = Cardinality(Reached(Elem(x))) + 1
  <2> DEFINE s == NextOffset(x)
  <2>1. /\ s \in SUBSET Free
        /\ \A y \in SUBSET Free :
             IF Descends THEN Lt(s, y) <=> Le(x, y) ELSE Lt(y, s) <=> Le(y, x)
    <3>1. CASE Descends
      BY <1>1, <1>5, <3>1, DownIsNext DEF NextOffset, LastOffset
    <3>2. CASE ~Descends
      BY <1>1, <1>5, <3>2, UpIsNext DEF NextOffset, LastOffset
    <3> QED
      BY <3>1, <3>2
  <2> HIDE DEF s
  <2>2. ASSUME NEW y \in SUBSET Free
        PROVE  Elem(y) \in Reached(Elem(s)) <=> (y = s \/ Elem(y) \in Reached(Elem(x)))
    BY <1>5, <2>1, <2>2, ReachedIs DEF Le
  <2>3. Elem(s) \notin Reached(Elem(x))
    <3>1. ~Lt(s, s)
      BY DEF Lt
    <3> QED
      BY <1>5, <2>1, <3>1, ReachedIs
  <2>4. \A y \in SUBSET Free : Elem(y) = Elem(s) <=> y = s
    <3>1. receiver.addr \cap Free = {}
      BY WalkingFacts
    <3>2. \A y \in SUBSET Free : receiver.addr \cup y = receiver.addr \cup s => y = s
      BY <2>1, <3>1
    <3>3. \A y \in SUBSET Free : Elem(y) = Elem(s) => receiver.addr \cup y = receiver.addr \cup s
      BY DEF Elem
    <3> QED
      BY <3>2, <3>3
  <2>5. Reached(Elem(s)) = Reached(Elem(x)) \cup {Elem(s)}
    <3>1. /\ Reached(Elem(s)) \subseteq Inside /\ Reached(Elem(x)) \subseteq Inside
          /\ Elem(s) \in Inside
      BY <2>1, ReachedIs DEF Reached
    <3>2. \A n \in Inside : n \in Reached(Elem(s)) <=> n \in Reached(Elem(x)) \cup {Elem(s)}
      BY <1>1, <2>2, <2>4
    <3> QED
      BY <3>1, <3>2
  <2>6. IsFiniteSet(Reached(Elem(x)))
    BY <1>5, ReachedIs, WantIs
  <2> QED
    BY <2>1, <2>3, <2>5, <2>6, FS_AddElement DEF s
<1> QED
  BY <1>2, <1>3, <1>4, <1>5, FS_Singleton

-----------------------------------------------------------------------------
(* The walk through the list                                               *)

(* The offset the cursor stands at.                                        *)
ElementAt(x) == cursor = IF method \in BackwardSubnetOps THEN x ELSE receiver.addr \cup x

(* What has been yielded is the promised list up to the offset.            *)
Yielded(x) ==
  /\ Len(given) + 1 = Cardinality(Reached(Elem(x)))
  /\ \A k \in 1 .. Len(given) : given[k] = want[k]

(* The inductive invariant.                                                *)
SInv ==
  /\ Called
  /\ want = Want
  /\ given \in Seq(Network)
  /\ pc = "start" => given = <<>>
  /\ pc = "walk" =>
       /\ yieldMask \in Requested
       /\ \E x \in SUBSET Free : ElementAt(x) /\ Yielded(x)

(* The promised list is a list, as long as there are elements.             *)
LEMMA WantIsSeq ==
  ASSUME Called
  PROVE  /\ \E S : Want \in Seq(S)
         /\ Len(Want) = Cardinality(Inside)
         /\ Inside = {} => Want = <<>>
<1> DEFINE N == Cardinality(Inside)
           S == {Want[k] : k \in 1 .. N}
<1>1. N \in Nat
  BY InsideFinite, FS_CardinalityType
<1>2. Want \in [1 .. N -> S] /\ DOMAIN Want = 1 .. N
  BY DEF Want
<1>3. Want \in Seq(S)
  BY <1>1, <1>2
<1>4. Len(Want) = N
  <2>1. Len(Want) \in Nat /\ 1 .. Len(Want) = 1 .. N
    BY <1>2, <1>3, LenProperties
  <2> QED
    BY <1>1, <2>1
<1>5. Inside = {} => Want = <<>>
  BY <1>3, <1>4, FS_EmptySet, EmptySeq
<1> QED
  BY <1>3, <1>4, <1>5

(* The element at an offset is the next one promised, and the one at the   *)
(* last offset completes the list.                                         *)
LEMMA YieldNext ==
  ASSUME Walking, want = Want, given \in Seq(Network), NEW x \in SUBSET Free, Yielded(x)
  PROVE  LET more == Append(given, Elem(x))
         IN  /\ more \in Seq(Network) /\ Len(more) = Len(given) + 1
             /\ Len(given) < Len(want) /\ more = Append(given, want[Len(given) + 1])
             /\ \A k \in 1 .. Len(more) : more[k] = want[k]
             /\ x = LastOffset => more = want
<1> DEFINE more == Append(given, Elem(x))
<1>1. Elem(x) \in Inside /\ Elem(x) \in Network /\ Len(given) \in Nat
  <2>1. Elem(x) \in Inside
    BY ReachedIs
  <2> QED
    BY <2>1, LenProperties DEF Inside
<1>2. /\ want[Len(given) + 1] = Elem(x) /\ Len(given) + 1 \in 1 .. Len(want)
      /\ Len(want) = Cardinality(Inside) /\ Len(want) \in Nat
  BY <1>1, WantIs, WantIsSeq DEF Yielded, Walking
<1>3. /\ more \in Seq(Network) /\ Len(more) = Len(given) + 1
      /\ \A k \in 1 .. Len(more) : more[k] = want[k]
  <2>1. more \in Seq(Network) /\ Len(more) = Len(given) + 1
    BY <1>1
  <2>2. ASSUME NEW k \in 1 .. Len(more) PROVE more[k] = want[k]
    <3>1. CASE k = Len(given) + 1
      BY <1>1, <1>2, <3>1
    <3>2. CASE k # Len(given) + 1
      <4>1. k \in 1 .. Len(given)
        BY <1>1, <2>1, <2>2, <3>2
      <4> QED
        BY <1>1, <4>1 DEF Yielded
    <3> QED
      BY <3>1, <3>2
  <2> QED
    BY <2>1, <2>2
<1>4. ASSUME x = LastOffset PROVE more = want
  <2>1. Len(given) + 1 = Len(want)
    BY <1>2, <1>4, Counting DEF Yielded
  <2>2. PICK S : want \in Seq(S)
    BY WantIsSeq DEF Walking
  <2>3. want \in Seq(S \cup Network) /\ more \in Seq(S \cup Network)
    BY <1>3, <2>2, SeqMonotonic
  <2> HIDE DEF more
  <2> QED
    BY <1>3, <2>1, <2>3, SeqEqual
<1> QED
  BY <1>2, <1>3, <1>4

(* Every method yields the element at its offset and moves the cursor to   *)
(* the next one.                                                           *)
LEMMA YieldIs ==
  ASSUME Walking, NEW x \in SUBSET Free, ElementAt(x), pc = "walk",
         YieldSubnet \/ YieldSubnetBackward \/ YieldAddr \/ YieldAddrBackward
  PROVE  /\ Yield(Elem(x), x = LastOffset)
         /\ UNCHANGED <<method, receiver, arg, want, yieldMask>>
         /\ x # LastOffset =>
              cursor' = IF method \in BackwardSubnetOps THEN NextOffset(x)
                                                        ELSE receiver.addr \cup NextOffset(x)
<1>0. /\ receiver.addr \in Word /\ receiver.mask \in Word
      /\ receiver.addr \subseteq receiver.mask
      /\ Free \in Word /\ receiver.addr \cap Free = {}
      /\ yieldMask = receiver.mask \cup Free
      /\ yieldMask \in Word /\ receiver.mask \subseteq yieldMask /\ x \subseteq Free
      /\ method \in AddrOps => yieldMask = Bits
  BY WalkingFacts
<1>1. CASE YieldSubnet
  <2>1. /\ method \in SubnetOps /\ ~Descends /\ method \notin BackwardSubnetOps
        /\ cursor = receiver.addr \cup x
    BY <1>1 DEF YieldSubnet, ElementAt, Descends, SubnetOps, BackwardSubnetOps
  <2>2. Extra = Free
    BY DEF Extra, Free
  <2>3. cursor = receiver.addr \cup Extra <=> x = LastOffset
    BY <1>0, <2>1, <2>2 DEF LastOffset
  <2>4. Yield(Elem(x), x = LastOffset)
    BY <1>1, <2>1, <2>3 DEF YieldSubnet, Elem
  <2>5. cursor \cup Not(Free) = x \cup Not(Free)
    BY <1>0, <2>1 DEF Not, Word
  <2>6. cursor' = receiver.addr \cup NextOffset(x)
    BY <1>1, <2>1, <2>2, <2>5 DEF YieldSubnet, NextOffset, Up
  <2> QED
    BY <1>1, <2>1, <2>4, <2>6 DEF YieldSubnet
<1>2. CASE YieldSubnetBackward
  <2>1. method \in BackwardSubnetOps /\ Descends /\ cursor = x
    BY <1>2 DEF YieldSubnetBackward, ElementAt, Descends
  <2>2. Extra = Free
    BY DEF Extra, Free
  <2>3. Yield(Elem(x), x = LastOffset)
    BY <1>2, <2>1 DEF YieldSubnetBackward, Elem, LastOffset
  <2>4. cursor' = NextOffset(x)
    BY <1>2, <2>1, <2>2 DEF YieldSubnetBackward, NextOffset, Down
  <2> QED
    BY <1>2, <2>1, <2>3, <2>4 DEF YieldSubnetBackward
<1>3. CASE YieldAddr
  <2>1. /\ method \in AddrOps /\ ~Descends /\ method \notin BackwardSubnetOps
        /\ cursor = receiver.addr \cup x
    BY <1>3 DEF YieldAddr, ElementAt, Descends, AddrOps, BackwardSubnetOps
  <2>2. yieldMask = Bits /\ Free = FreeBits /\ receiver.mask = Not(Free)
    BY <1>0, <2>1 DEF Free, FreeBits, Not, Word
  <2>3. cursor = LastAddr(receiver) <=> x = LastOffset
    BY <1>0, <2>1, <2>2 DEF LastOffset, LastAddr, FreeBits
  <2>4. Yield(Elem(x), x = LastOffset)
    BY <1>3, <2>1, <2>2, <2>3 DEF YieldAddr, Elem, FromAddr
  <2>5. ASSUME x # LastOffset PROVE cursor' = receiver.addr \cup NextOffset(x)
    <3>1. x # Free /\ NextOffset(x) = Up(Free, x)
      BY <2>1, <2>5 DEF LastOffset, NextOffset
    <3>2. CASE Adjacent
      <4>1. Free \cap AddOne(Free) = {}
        BY <2>2, <3>2 DEF Adjacent
      <4>2. AddOne(cursor) = receiver.addr \cup Up(Free, x)
        BY <1>0, <2>1, <3>1, <4>1, AdjacentCarry
      <4> QED
        BY <1>3, <2>1, <3>1, <3>2, <4>2 DEF YieldAddr
    <3>3. CASE ~Adjacent
      <4>1. cursor \cup receiver.mask = x \cup Not(Free)
        BY <1>0, <2>1, <2>2
      <4> QED
        BY <1>3, <2>2, <3>1, <3>3, <4>1 DEF YieldAddr, Up
    <3> QED
      BY <3>2, <3>3
  <2> QED
    BY <1>3, <2>1, <2>4, <2>5 DEF YieldAddr
<1>4. CASE YieldAddrBackward
  <2>1. /\ method \in AddrOps /\ Descends /\ method \notin BackwardSubnetOps
        /\ cursor = receiver.addr \cup x
    BY <1>4 DEF YieldAddrBackward, ElementAt, Descends, AddrOps, BackwardSubnetOps
  <2>2. yieldMask = Bits /\ Free = FreeBits
    BY <1>0, <2>1 DEF Free, FreeBits, Not, Word
  <2>3. cursor = receiver.addr <=> x = LastOffset
    BY <1>0, <2>1 DEF LastOffset
  <2>4. Yield(Elem(x), x = LastOffset)
    BY <1>4, <2>1, <2>2, <2>3 DEF YieldAddrBackward, Elem, FromAddr
  <2>5. ASSUME x # LastOffset PROVE cursor' = receiver.addr \cup NextOffset(x)
    <3>1. x # {} /\ NextOffset(x) = Down(Free, x)
      BY <2>1, <2>5 DEF LastOffset, NextOffset
    <3>2. CASE Adjacent
      <4>1. Free \cap AddOne(Free) = {}
        BY <2>2, <3>2 DEF Adjacent
      <4>2. SubOne(cursor) = receiver.addr \cup Down(Free, x)
        BY <1>0, <2>1, <3>1, <4>1, AdjacentCarry
      <4> QED
        BY <1>4, <2>1, <3>1, <3>2, <4>2 DEF YieldAddrBackward
    <3>3. CASE ~Adjacent
      <4>1. cursor \cap FreeBits = x
        BY <1>0, <2>1, <2>2
      <4> QED
        BY <1>4, <2>2, <3>1, <3>3, <4>1 DEF YieldAddrBackward, Down
    <3> QED
      BY <3>2, <3>3
  <2> QED
    BY <1>4, <2>1, <2>4, <2>5 DEF YieldAddrBackward
<1> QED
  BY <1>1, <1>2, <1>3, <1>4

(* The count for the mask a walk starts with.                              *)
LEMMA FirstIs ==
  Walking =>
    /\ FirstOffset \in SUBSET Free /\ Cardinality(Reached(Elem(FirstOffset))) = 1
BY Counting

(* Every step keeps the invariant and is a step of the promise.            *)
LEMMA StepKeeps ==
  ASSUME SInv, [WalkNext]_walkVars
  PROVE  SInv' /\ [Promised!Next]_(Promised!vars)
<1>0. Called /\ want = Want /\ given \in Seq(Network)
  BY DEF SInv
<1>1. ASSUME UNCHANGED <<method, receiver, arg>>
      PROVE  Called' /\ Want' = Want /\ Requested' = Requested
  <2>1. Called'
    BY <1>0, <1>1 DEF Called
  <2>2. Inside' = Inside /\ Descends' = Descends
    BY <1>1 DEF Inside, Asked, Descends
  <2>3. Want' = Want
    BY <2>2 DEF Want
  <2>4. Requested' = Requested
    BY <1>1 DEF Requested
  <2> QED
    BY <2>1, <2>3, <2>4
<1>2. CASE Refuse
  <2>1. given = <<>> /\ want = <<>> /\ pc = "start"
    <3>1. Inside = {}
      BY <1>0, <1>2, InsideIs DEF Refuse
    <3> QED
      BY <1>0, <1>2, <3>1, WantIsSeq DEF Refuse, SInv
  <2>2. SInv'
    BY <1>0, <1>1, <1>2 DEF Refuse, SInv
  <2>3. Promised!End
    BY <1>2, <2>1 DEF Refuse, Promised!End
  <2> QED
    BY <2>2, <2>3 DEF Promised!Next
<1>3. CASE Start
  <2>1. /\ given = <<>> /\ pc = "start" /\ pc' = "walk" /\ yieldMask' \in Requested
        /\ UNCHANGED <<method, receiver, arg, want, given, broken>>
    BY <1>3 DEF Start, SInv
  <2>2. Walking'
    BY <1>1, <2>1 DEF Walking
  <2>3. (FirstOffset \in SUBSET Free /\ Cardinality(Reached(Elem(FirstOffset))) = 1)'
    BY <2>2, FirstIs, PTL
  <2>4. ElementAt(FirstOffset)'
    <3>1. FirstOffset' = IF Descends THEN yieldMask' \ receiver.mask ELSE {}
      BY <2>1 DEF FirstOffset, Free, Descends
    <3>2. CASE method \in SubnetOps \cup {"Addrs"}
      <4>1. ~Descends /\ method \notin BackwardSubnetOps /\ method # "AddrsBackward"
        BY <3>2 DEF Descends, SubnetOps, BackwardSubnetOps
      <4>2. cursor' = receiver.addr
        BY <1>3, <3>2, <4>1 DEF Start
      <4> QED
        BY <2>1, <3>1, <4>1, <4>2 DEF ElementAt
    <3>3. CASE method \in BackwardSubnetOps
      <4>1. Descends /\ method \notin SubnetOps \cup {"Addrs"} /\ method # "AddrsBackward"
        BY <3>3 DEF Descends, SubnetOps, BackwardSubnetOps
      <4>2. cursor' = yieldMask' \ receiver.mask
        BY <1>3, <3>3, <4>1 DEF Start
      <4> QED
        BY <2>1, <3>1, <3>3, <4>1, <4>2 DEF ElementAt
    <3>4. CASE method = "AddrsBackward"
      <4>1. /\ Descends /\ method \notin SubnetOps \cup {"Addrs"}
            /\ method \notin BackwardSubnetOps /\ method \in AddrOps
        BY <3>4 DEF Descends, SubnetOps, BackwardSubnetOps, AddrOps
      <4>2. cursor' = receiver.addr \cup FreeBits
        BY <1>3, <3>4, <4>1 DEF Start
      <4>3. yieldMask' \ receiver.mask = FreeBits
        BY <1>0, <2>1, <4>1, InsideIs DEF FreeBits, Not
      <4> QED
        BY <2>1, <3>1, <4>1, <4>2, <4>3 DEF ElementAt
    <3> QED
      BY <1>0, <3>2, <3>3, <3>4 DEF Called, Methods, AddrOps
  <2>5. Yielded(FirstOffset)'
    BY <2>1, <2>3, EmptySeq DEF Yielded
  <2>6. SInv'
    BY <1>0, <1>1, <2>1, <2>2, <2>3, <2>4, <2>5 DEF SInv, Walking
  <2>7. UNCHANGED Promised!vars
    BY <2>1 DEF Promised!vars
  <2> QED
    BY <2>6, <2>7
<1>4. CASE YieldSubnet \/ YieldSubnetBackward \/ YieldAddr \/ YieldAddrBackward
  <2>1. pc = "walk" /\ Walking
    BY <1>0, <1>4 DEF YieldSubnet, YieldSubnetBackward, YieldAddr, YieldAddrBackward, SInv, Walking
  <2>2. PICK x \in SUBSET Free : ElementAt(x) /\ Yielded(x)
    BY <2>1 DEF SInv
  <2> DEFINE more == Append(given, Elem(x))
  <2>3. /\ Yield(Elem(x), x = LastOffset)
        /\ UNCHANGED <<method, receiver, arg, want, yieldMask>>
        /\ x # LastOffset =>
             cursor' = IF method \in BackwardSubnetOps THEN NextOffset(x)
                                                       ELSE receiver.addr \cup NextOffset(x)
    BY <1>4, <2>1, <2>2, YieldIs
  <2>4. /\ more \in Seq(Network) /\ Len(more) = Len(given) + 1
        /\ Len(given) < Len(want) /\ more = Append(given, want[Len(given) + 1])
        /\ \A k \in 1 .. Len(more) : more[k] = want[k]
        /\ x = LastOffset => more = want
    BY <1>0, <2>1, <2>2, YieldNext
  <2>5. given' = more
    BY <2>3 DEF Yield
  <2> HIDE DEF more
  <2>6. Promised!Yield
    BY <2>1, <2>3, <2>4, <2>5 DEF Yield, Promised!Yield
  <2>7. ASSUME pc' = "walk" PROVE (\E y \in SUBSET Free : ElementAt(y) /\ Yielded(y))'
    <3>1. x # LastOffset
      BY <2>3, <2>7 DEF Yield
    <3> DEFINE s == NextOffset(x)
    <3>2. /\ s \in SUBSET Free
          /\ Cardinality(Reached(Elem(s))) = Cardinality(Reached(Elem(x))) + 1
      BY <2>1, <2>2, <3>1, Counting
    <3>3. PICK y : y = s
      OBVIOUS
    <3>4. Free' = Free /\ Reached(Elem(y))' = Reached(Elem(y))
      BY <2>3 DEF Free, Reached, Elem, Inside, Asked, Descends
    <3>5. cursor' = IF method' \in BackwardSubnetOps THEN y ELSE receiver'.addr \cup y
      BY <2>3, <3>1, <3>3
    <3>6. /\ Len(given') + 1 = Cardinality(Reached(Elem(y)))
          /\ \A k \in 1 .. Len(given') : given'[k] = want'[k]
      BY <2>2, <2>3, <2>4, <2>5, <3>2, <3>3 DEF Yielded
    <3>7. ElementAt(y)' /\ Yielded(y)'
      BY <3>4, <3>5, <3>6 DEF ElementAt, Yielded
    <3> QED
      BY <3>2, <3>3, <3>4, <3>7
  <2>8. SInv'
    <3>1. Called' /\ Want' = Want /\ Requested' = Requested
      BY <1>1, <2>3
    <3>2. pc' # "start"
      BY <2>3 DEF Yield
    <3> QED
      BY <1>0, <2>1, <2>3, <2>4, <2>5, <2>7, <3>1, <3>2 DEF SInv, Walking
  <2> QED
    BY <2>6, <2>8 DEF Promised!Next
<1>5. CASE UNCHANGED walkVars
  <2>1. UNCHANGED Promised!vars
    BY <1>5 DEF walkVars, Promised!vars
  <2>2. SInv'
    <3>1. Called' /\ Want' = Want /\ Requested' = Requested
      BY <1>1, <1>5 DEF walkVars
    <3>2. pc = "walk" => (\E x \in SUBSET Free : ElementAt(x) /\ Yielded(x))'
      BY <1>5 DEF walkVars, SInv, Free, ElementAt, Yielded, Reached, Elem, Inside, Asked, Descends
    <3> QED
      BY <1>0, <1>5, <3>1, <3>2 DEF walkVars, SInv
  <2> QED
    BY <2>1, <2>2
<1> QED
  BY <1>2, <1>3, <1>4, <1>5 DEF WalkNext

(* The safety half of Implements (net4.go:281, 318, 412, 447): for every   *)
(* width, receiver and argument, refused ones included, every step of a    *)
(* walk yields the next element of the promised list, in its order, or     *)
(* nothing, and the walk returns after the last one and never before,      *)
(* unless the consumer broke.                                              *)
THEOREM WalksYieldTheList ==
  WalkSpec => Promised!Init /\ [][Promised!Next]_(Promised!vars)
<1>1. WalkInit => SInv /\ Promised!Init
  <2> SUFFICES ASSUME WalkInit PROVE SInv /\ Promised!Init
    OBVIOUS
  <2>1. Called
    BY DEF WalkInit, Called, Methods
  <2>2. given \in Seq(Network)
    BY EmptySeq DEF WalkInit
  <2> QED
    BY <2>1, <2>2 DEF WalkInit, SInv, Promised!Init
<1>2. SInv /\ [WalkNext]_walkVars => SInv' /\ [Promised!Next]_(Promised!vars)
  BY StepKeeps
<1> QED
  BY <1>1, <1>2, PTL DEF WalkSpec
=============================================================================
