----------------------------- MODULE DualCalls -----------------------------
(***************************************************************************)
(* A program that holds one network of either family, plain or wrapped as  *)
(* a Contiguous, and replaces it by the result of one call after another.  *)
(* The stored form of an IPv4 network is never revalidated, nor is the     *)
(* class of a wrapped one: both rest on every call before.                 *)
(***************************************************************************)
EXTENDS DualNetworks, Sequences

CONSTANT Slices   \* the slices SupernetFor is called with

ASSUME SlicesAssumption == Slices \subseteq Seq(Network)

VARIABLES
  held,     \* the network the program holds
  typed,    \* it is wrapped as Contiguous[Network]
  op,       \* the last call, its receiver, arguments and results
  recv,
  args,
  prefix,
  out

vars == <<held, typed, op, recv, args, prefix, out>>

Ops == {"none", "Intersection", "Merge", "MergeByLowestMaskBit", "Supernet",
        "SupernetFor", "Difference", "ToContiguous", "ContiguousFrom", "Network",
        "NetworkFrom", "FromCIDR", "FromAddr", "ToIPv6Mapped", "ToCanonical", "Ask"}

(* Every value is stored as its flag says, however it was reached, and a   *)
(* wrapped one is a CIDR block: neither is checked again by any call       *)
(* (net.go:224, contiguous.go:15).                                         *)
TypeOK ==
  /\ held \in Network
  /\ typed \in BOOLEAN
  /\ typed => IsContiguous(held)
  /\ op \in Ops
  /\ recv \in Network
  /\ args \in Seq(Network)
  /\ prefix \in -1 .. (W6 + 1)
  /\ out \subseteq Network

Init ==
  /\ held \in Network
  /\ typed = FALSE
  /\ op = "none"
  /\ recv = held
  /\ args = <<>>
  /\ prefix = 0
  /\ out = {}

-----------------------------------------------------------------------------
(* A false result leaves the program with the network it had; of several   *)
(* it keeps any one.                                                       *)
Return(name, operands, results) ==
  /\ op = "none"
  /\ op' = name
  /\ recv' = held
  /\ args' = operands
  /\ out' = results
  /\ held' \in IF results = {} THEN {held} ELSE results

Call(name, operands, results) ==
  Return(name, operands, results) /\ prefix' = 0

(* The program goes on with what it holds.                                 *)
Continue ==
  /\ op # "none"
  /\ op' = "none"
  /\ recv' = held
  /\ args' = <<>>
  /\ prefix' = 0
  /\ out' = {}
  /\ UNCHANGED <<held, typed>>

(* The wrapper's methods take wrapped arguments.                           *)
Others == {o \in Network : typed => IsContiguous(o)}

CallIntersection ==
  /\ \E o \in Others : Call("Intersection", <<o>>, Intersection(held, o))
  /\ UNCHANGED typed

CallMergeByLowestMaskBit ==
  /\ \E o \in Others : Call("MergeByLowestMaskBit", <<o>>, MergeByLowestMaskBit(held, o))
  /\ UNCHANGED typed

CallSupernet ==
  /\ Call("Supernet", <<>>, Supernet(held))
  /\ UNCHANGED typed

CallDifference ==
  /\ ~typed
  /\ \E o \in Others : Call("Difference", <<o>>, Difference(held, o))
  /\ UNCHANGED typed

CallContiguousDifference ==
  /\ typed
  /\ \E o \in Others : Call("Difference", <<o>>, ContiguousDifference(held, o))
  /\ UNCHANGED typed

(* These exist for plain networks only.                                    *)
CallMerge ==
  /\ ~typed
  /\ \E o \in Others : Call("Merge", <<o>>, Merge(held, o))
  /\ UNCHANGED typed

CallSupernetFor ==
  /\ ~typed
  /\ \E nets \in Slices : Call("SupernetFor", nets, SupernetFor(held, {nets[k] : k \in DOMAIN nets}))
  /\ UNCHANGED typed

CallToCanonical ==
  /\ ~typed
  /\ Call("ToCanonical", <<>>, {ToCanonical(held)})
  /\ UNCHANGED typed

(* Lifting an operand into IPv6.                                           *)
CallToIPv6Mapped ==
  /\ ~typed
  /\ Call("ToIPv6Mapped", <<>>, {NetworkFrom6(ToIPv6Mapped(held))})
  /\ UNCHANGED typed

(* Into the wrapper and out of it.                                         *)
CallToContiguous ==
  /\ ~typed
  /\ Call("ToContiguous", <<>>, {ToContiguous(held)})
  /\ typed' = TRUE

CallContiguousFrom ==
  /\ ~typed
  /\ Call("ContiguousFrom", <<>>, Only(IsContiguous(held), held))
  /\ typed' = IsContiguous(held)

CallNetwork ==
  /\ typed
  /\ Call("Network", <<>>, {held})
  /\ typed' = FALSE

(* New networks over the last address of the held one: the mask of any     *)
(* network, of the other family too, or the invalid zero address.          *)
CallNetworkFrom ==
  /\ ~typed
  /\ \/ \E o \in Others : Call("NetworkFrom", <<o>>, NetworkFrom(LastAddr(held), Mask(o)))
     \/ Call("NetworkFrom", <<>>, NetworkFrom(LastAddr(held), NoNetip))
  /\ UNCHANGED typed

CallFromAddr ==
  /\ ~typed
  /\ \E a \in {LastAddr(held), NoNetip} : Call("FromAddr", <<>>, NetworkFromAddr(a))
  /\ UNCHANGED typed

(* NetworkFromCIDR and ContiguousFromCIDR.                                 *)
CallFromCIDR ==
  /\ \E p \in -1 .. (W6 + 1) :
       Return("FromCIDR", <<>>, NetworkFromCIDR(LastAddr(held), p)) /\ prefix' = p
  /\ UNCHANGED typed

(* The questions, which change nothing.                                    *)
Ask ==
  /\ \E o \in Others : Call("Ask", <<o>>, {})
  /\ UNCHANGED typed

Next ==
  \/ CallIntersection
  \/ CallMergeByLowestMaskBit
  \/ CallSupernet
  \/ CallDifference
  \/ CallContiguousDifference
  \/ CallMerge
  \/ CallSupernetFor
  \/ CallToCanonical
  \/ CallToIPv6Mapped
  \/ CallToContiguous
  \/ CallContiguousFrom
  \/ CallNetwork
  \/ CallNetworkFrom
  \/ CallFromAddr
  \/ CallFromCIDR
  \/ Ask
  \/ Continue

Spec == Init /\ [][Next]_vars

-----------------------------------------------------------------------------
Family(d) == IF d.is4 THEN 4 ELSE 6
Value(d) == IF d.is4 THEN Unwrap4(d) ELSE d.network
Values(ds) == {<<Family(d), Value(d)>> : d \in ds}

(* What the receiver's family gives.                                       *)
Own(four, six) == IF recv.is4 THEN four ELSE six
Results(four, six) == Values(out) = {<<Family(recv), n>> : n \in Own(four, six)}

Foreign(o) == o.is4 # recv.is4

(* Results are networks of the receiver's family, with the same value the  *)
(* family's own algorithm gives, although the kernel worked on 128-bit     *)
(* forms; across families nothing intersects or merges, no network covers  *)
(* both, and a difference is the receiver (net.go:448, 502, 612, 641, 695).*)
ResultsOfFamily ==
  LET v == Value(recv)
      last == LastAddr(recv).bits
  IN  /\ op = "Supernet" => Results(F4!Supernet(v), F6!Supernet(v))
      /\ op = "ToContiguous" => Results({F4!ToContiguous(v)}, {F6!ToContiguous(v)})
      /\ op = "FromAddr" => out = {} \/ Results({F4!FromAddr(last)}, {F6!FromAddr(last)})
      /\ op = "FromCIDR" => Results(F4!FromCIDR(last, prefix), F6!FromCIDR(last, prefix))
      /\ op = "SupernetFor" =>
           LET nets == {args[k] : k \in DOMAIN args}
               us   == {Value(d) : d \in nets}
           IN  IF \E d \in nets : Foreign(d) THEN out = {}
               ELSE Results({F4!SupernetFor(v, us)}, {F6!SupernetFor(v, us)})
      /\ op \in {"Intersection", "Merge", "MergeByLowestMaskBit", "NetworkFrom", "Difference"} =>
           \A k \in DOMAIN args :
             LET u == Value(args[k])
             IN  IF Foreign(args[k])
                 THEN out = IF op = "Difference" THEN {recv} ELSE {}
                 ELSE /\ op = "Intersection" => Results(F4!Intersection(v, u), F6!Intersection(v, u))
                      /\ op = "Merge" => Results(F4!Merge(v, u), F6!Merge(v, u))
                      /\ op = "MergeByLowestMaskBit" =>
                           Results(F4!MergeByLowestMaskBit(v, u), F6!MergeByLowestMaskBit(v, u))
                      /\ op = "Difference" => Results(F4!DifferenceParts(v, u), F6!DifferenceParts(v, u))
                      /\ op = "NetworkFrom" =>
                           Results({F4!FromBits(last, u.mask)}, {F6!FromBits(last, u.mask)})

(* So are the answers to questions: IPv4 sorts before IPv6, and across     *)
(* families nothing contains, meets or touches anything.  The /96 that     *)
(* stands for 0.0.0.0/0 answers as the empty mask it stands for            *)
(* (net.go:373, 393, 414, 426, 473, 576, 593, 725, 746).                   *)
AnswersOfFamily ==
  op = "Ask" =>
    \A k \in DOMAIN args :
      LET o == args[k]
          v == Value(recv)
          u == Value(o)
          Is(answer, four, six) == answer <=> (~Foreign(o) /\ Own(four, six))
      IN  /\ Before(recv, o) <=>
               IF Foreign(o) THEN recv.is4 ELSE Own(F4!Before(v, u), F6!Before(v, u))
          /\ Is(Contains(recv, o), F4!Contains(v, u), F6!Contains(v, u))
          /\ IsContiguous(recv) /\ IsContiguous(o) =>
               (ContainsContiguous(recv, o) <=> Contains(recv, o))
          /\ Is(Intersects(recv, o), F4!Intersects(v, u), F6!Intersects(v, u))
          /\ Is(IsAdjacent(recv, o), F4!IsAdjacent(v, u), F6!IsAdjacent(v, u))
          /\ Is(IsAdjacentByLowestMaskBit(recv, o),
                F4!IsAdjacentByLowestMaskBit(v, u), F6!IsAdjacentByLowestMaskBit(v, u))
          /\ \A a \in Addrs(o) : ContainsAddr(recv, a) <=> a \in Addrs(recv)
          /\ IsContiguous(recv) <=> Own(F4!IsContiguous(v), F6!IsContiguous(v))
          /\ NumHostBits(recv) = Own(F4!NumHostBits(v), F6!NumHostBits(v))
          /\ PrefixLen(recv) = Own(F4!PrefixLen(v), F6!PrefixLen(v))

(* Every view of a network leads back to it: the family's own type, the    *)
(* address and mask, the prefix, the addresses of sequence and cursor.     *)
(* The IPv6 image names the image of each address, and ToCanonical undoes  *)
(* it for the networks inside the mapped range and changes no other        *)
(* (net.go:213, 315, 763, 854, 867; net6.go:1038, 1050).                   *)
ViewsReadBack ==
  op = "none" =>
  LET image  == ToIPv6Mapped(held)
      lifted == NetworkFrom6(image)
      range  == ToIPv6Mapped4([addr |-> {}, mask |-> {}])
  IN  /\ {NetworkFrom4(n) : n \in IPv4(held)} \cup {NetworkFrom6(n) : n \in IPv6(held)} = {held}
      /\ NetworkFrom(Addr(held), Mask(held)) = {held}
      /\ UNION {NetworkFromPrefix(p) : p \in Prefix(held)} = Only(IsContiguous(held), held)
      /\ {p.bits : p \in Prefix(held)} = PrefixLen(held)
      /\ AddrIterator(held) = Addrs(held)
      /\ LastAddr(held) \in Addrs(held)
      /\ F6!Addrs(image) = {IF held.is4 THEN a.bits \cup Mapped ELSE a.bits : a \in Addrs(held)}
      /\ ToCanonical(lifted).is4 <=> F6!Contains(range, image)
      /\ held.is4 => ToCanonical(lifted) = held /\ ToIPv4Mapped(image) = IPv4(held)
      /\ Addrs(ToCanonical(held)) # Addrs(held) => ~held.is4 /\ F6!Contains(range, image)
=============================================================================
