---------------------------- MODULE NetworkCalls ----------------------------
(***************************************************************************)
(* A program that holds one network and replaces it by the result of one   *)
(* call after another.  Several kernels build their result raw, without    *)
(* the masking AND of FromBits, because their operands are normalized: the *)
(* long sequences of calls explored here are what that argument rests on.  *)
(***************************************************************************)
EXTENDS Networks

VARIABLES
  held,     \* the network the program holds
  op,       \* the last call, its receiver, arguments and results
  recv,
  args,
  prefix,
  out

vars == <<held, op, recv, args, prefix, out>>

Ops == {"none", "Intersection", "Merge", "MergeByLowestMaskBit",
        "Supernet", "SupernetFor", "ToContiguous", "FromCIDR"}

TypeOK ==
  /\ held \in Network
  /\ op \in Ops
  /\ recv \in Network
  /\ args \subseteq Network
  /\ prefix \in -1 .. (W + 1)
  /\ out \subseteq Network
  /\ Cardinality(out) <= 1

Init ==
  /\ held \in Network
  /\ op = "none"
  /\ recv = held
  /\ args = {}
  /\ prefix = 0
  /\ out = {}

(* A false result leaves the program with the network it had.              *)
Return(name, operands, results) ==
  /\ op' = name
  /\ recv' = held
  /\ args' = operands
  /\ out' = results
  /\ held' \in IF results = {} THEN {held} ELSE results

Call(name, operands, results) ==
  Return(name, operands, results) /\ prefix' = 0

CallIntersection == \E o \in Network : Call("Intersection", {o}, Intersection(held, o))

CallMerge == \E o \in Network : Call("Merge", {o}, Merge(held, o))

CallMergeByLowestMaskBit ==
  \E o \in Network : Call("MergeByLowestMaskBit", {o}, MergeByLowestMaskBit(held, o))

CallSupernet == Call("Supernet", {}, Supernet(held))

CallSupernetFor ==
  \E o1, o2 \in Network : Call("SupernetFor", {o1, o2}, {SupernetFor(held, {o1, o2})})

CallToContiguous == Call("ToContiguous", {}, {ToContiguous(held)})

(* A new block over an address of the held network, for any length the     *)
(* caller passes, those just outside the range included.                   *)
CallFromCIDR ==
  \E p \in -1 .. (W + 1) :
    Return("FromCIDR", {}, FromCIDR(LastAddr(held), p)) /\ prefix' = p

Next ==
  \/ CallIntersection
  \/ CallMerge
  \/ CallMergeByLowestMaskBit
  \/ CallSupernet
  \/ CallSupernetFor
  \/ CallToContiguous
  \/ CallFromCIDR

Spec == Init /\ [][Next]_vars

-----------------------------------------------------------------------------
Union(nets) == UNION {Addrs(n) : n \in nets}
Covers(n, nets) == \A x \in nets : Addrs(x) \subseteq Addrs(n)

(* Intersection (net4.go:547) returns one network naming exactly the       *)
(* addresses common to both operands, and false exactly when there are     *)
(* none, although it builds its result without a masking AND.              *)
IntersectionExact ==
  op = "Intersection" =>
    \A o \in args : Union(out) = Addrs(recv) \cap Addrs(o)

(* Merge (net4.go:725) succeeds exactly when the union of the operands is  *)
(* the address set of a single network, and then returns that network:     *)
(* the two cases its comment names are all there are.  IsAdjacent          *)
(* (net4.go:699) holds exactly of the disjoint operands that merge.        *)
(* MergeByLowestMaskBit (net4.go:795) is Merge restricted so that CIDR     *)
(* blocks stay CIDR blocks; among CIDR blocks it refuses a merge only when *)
(* the union is no CIDR block.  Its test for adjacency (net4.go:787) finds *)
(* no network adjacent to itself.                                          *)
MergeExact ==
  /\ op = "Merge" =>
       \A o \in args :
         /\ out = {n \in Network : Addrs(n) = Addrs(recv) \cup Addrs(o)}
         /\ IsAdjacent(recv, o) <=> (IsDisjoint(recv, o) /\ out # {})
  /\ op = "MergeByLowestMaskBit" =>
       \A o \in args :
         /\ out \subseteq Merge(recv, o)
         /\ IsContiguous(recv) /\ IsContiguous(o) =>
              out = {n \in Merge(recv, o) : IsContiguous(n)}
         /\ IsAdjacentByLowestMaskBit(recv, o) => IsAdjacent(recv, o)

Least(nets) == {n \in nets : \A x \in nets : Contains(x, n)}

(* SupernetFor (net4.go:854) returns the least network, over all shapes of *)
(* mask, that covers its operands; Supernet (net4.go:839) of a CIDR block  *)
(* the least wider block; ToContiguous (net4.go:925) the least block that  *)
(* contains its receiver; and FromCIDR (net4.go:80) the block around its   *)
(* address from which PrefixLen reads the length back, and nothing for a   *)
(* length outside 0..W.                                                    *)
CoversLeast ==
  LET blocks == {n \in Network : IsContiguous(n) /\ Contains(n, recv)}
  IN  /\ op = "SupernetFor" => out = Least({n \in Network : Covers(n, args \cup {recv})})
      /\ op = "Supernet" /\ IsContiguous(recv) => out = Least(blocks \ {recv})
      /\ op = "ToContiguous" => out = Least(blocks)
      /\ op = "FromCIDR" =>
           out = {n \in Network : PrefixLen(n) = {prefix} /\ ContainsAddr(n, LastAddr(recv))}

(* Contains (net4.go:494) is inclusion of address sets, for every shape of *)
(* mask; the one-compare form (net4.go:526) agrees with it on CIDR blocks. *)
ContainsExact ==
  \A o \in Network :
    /\ Contains(held, o) <=> Addrs(o) \subseteq Addrs(held)
    /\ IsContiguous(held) /\ IsContiguous(o) =>
         (ContainsContiguous(held, o) <=> Contains(held, o))
=============================================================================
