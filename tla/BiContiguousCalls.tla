------------------------- MODULE BiContiguousCalls -------------------------
(***************************************************************************)
(* A program that holds one bi-contiguous network (bicontiguous.go) and    *)
(* replaces it by the result of one call after another.  The IPv6 kernels  *)
(* (net6.go) run on words in two halves; the typed wrapper wraps their     *)
(* results WITHOUT asking again whether they are in the class, and its own *)
(* Contains compares the halves of masks as numbers.                       *)
(***************************************************************************)
EXTENDS Uint128

(* The same algebra over words that are not in pieces.                     *)
N == INSTANCE Networks WITH W <- 2 * H

VARIABLES
  held,    \* the network the program holds
  op,      \* the last call, its receiver, argument and results
  recv,
  arg,
  out

vars == <<held, op, recv, arg, out>>

Pair == [addr : Uint128, mask : Uint128]
Network6 == {n \in Pair : AndNot(n.addr, n.mask) = Zero}

Only(found, n) == IF found THEN {n} ELSE {}

-----------------------------------------------------------------------------
(* Kernels of net6.go                                                      *)

FromBits6(addr, mask) == [addr |-> And(addr, mask), mask |-> mask]

Contains6(m, o) == And(o.addr, m.mask) = m.addr /\ And(o.mask, m.mask) = m.mask

Intersection6(m, o) ==
  Only(And(m.addr, o.mask) = And(o.addr, m.mask),
       [addr |-> Or(m.addr, o.addr), mask |-> Or(m.mask, o.mask)])

IsAdjacentByLowestMaskBit6(m, o) ==
  /\ m.mask = o.mask
  /\ ~IsZero(m.mask)
  /\ Xor(m.addr, o.addr) = LowestSetBit(m.mask)

(* Mutant: adjacency at any masked bit accepted.                           *)
MergeByAnyMaskBit6(m, o) ==
  CASE m = o -> {m}
    [] m.mask = o.mask /\ m # o ->
         Only(IsPowerOfTwo(Xor(m.addr, o.addr)),
              [addr |-> And(m.addr, o.addr), mask |-> AndNot(m.mask, Xor(m.addr, o.addr))])
    [] m.mask # o.mask /\ Contains6(m, o) -> {m}
    [] m.mask # o.mask /\ ~Contains6(m, o) -> Only(Contains6(o, m), o)
MergeByLowestMaskBit6(m, o) ==
  CASE m = o -> {m}
    [] m.mask = o.mask /\ m # o ->
         Only(IsAdjacentByLowestMaskBit6(m, o),
              [addr |-> And(m.addr, o.addr), mask |-> ClearLowestSetBit(m.mask)])
    [] m.mask # o.mask /\ Contains6(m, o) -> {m}
    [] m.mask # o.mask /\ ~Contains6(m, o) -> Only(Contains6(o, m), o)

Supernet6(m) == Only(~IsZero(m.mask), FromBits6(m.addr, ClearLowestSetBit(m.mask)))

(* The peel from the highest pending bit: one part for every bit left.     *)
Peel(addr, mask, remaining) ==
  LET peel[at \in [left : Uint128, fixed : Uint128]] ==
        IF IsZero(at.left) THEN {}
        ELSE LET bit   == Bit(2 * H - 1 - LeadingZeros(at.left))
                 wider == Or(at.fixed, bit)
             IN  {[addr |-> And(Xor(addr, bit), wider), mask |-> wider]}
                   \cup peel[[left |-> Xor(at.left, bit), fixed |-> wider]]
  IN  peel[[left |-> remaining, fixed |-> mask]]

(* The same from the lowest: the mask holds every bit not peeled yet.      *)
PeelBackward(addr, mask, remaining) ==
  LET peel[left \in Uint128] ==
        IF IsZero(left) THEN {}
        ELSE LET bit   == LowestSetBit(left)
                 wider == Or(mask, left)
             IN  {[addr |-> And(Xor(addr, bit), wider), mask |-> wider]}
                   \cup peel[Xor(left, bit)]
  IN  peel[remaining]

(* The parts as a set; DifferenceWalk has their order.                     *)
Parts(m, o, peeled) == IF Intersection6(m, o) = {} THEN {m} ELSE peeled

Difference6(m, o) ==
  Parts(m, o, UNION {Peel(i.addr, m.mask, AndNot(i.mask, m.mask)) : i \in Intersection6(m, o)})
DifferenceBackward6(m, o) ==
  Parts(m, o, UNION {PeelBackward(i.addr, m.mask, AndNot(i.mask, m.mask)) :
                       i \in Intersection6(m, o)})

-----------------------------------------------------------------------------
(* The class                                                               *)

(* A one whose upper neighbour is zero tops a run; every run must top a    *)
(* half.                                                                   *)
IsBicontiguous(n) ==
  IsZero(AndNot(AndNot(n.mask, Shr(n.mask, 1)), FromHalves({H - 1}, {H - 1})))

BiContiguous == {n \in Network6 : IsBicontiguous(n)}

HalfPrefixMask(prefix) == Lsh(U!Bits, H - prefix)

HighPrefixLen(n) == LeadingZeros64(U!Not(n.mask.hi))
LowPrefixLen(n) == LeadingZeros64(U!Not(n.mask.lo))

(* Mutant: the ones of a half counted, not its leading run.                *)
ToBiContiguousByCount(n) ==
  FromBits6(n.addr, FromHalves(HalfPrefixMask(Cardinality(n.mask.hi)),
                               HalfPrefixMask(Cardinality(n.mask.lo))))
ToBiContiguous(n) ==
  FromBits6(n.addr, FromHalves(HalfPrefixMask(HighPrefixLen(n)),
                               HalfPrefixMask(LowPrefixLen(n))))

BiContiguousFrom6(n) == Only(IsBicontiguous(n), n)

(* Of two addresses; those of another family are refused before.           *)
BiContiguousFrom(addr, mask) == BiContiguousFrom6(FromBits6(addr, mask))

(* Mutant: the halves compared as one number.                              *)
ContainsWhole(m, o) ==
  /\ Compare(m.mask, o.mask) <= 0
  /\ And(o.addr, m.mask) = m.addr

(* In each half a shorter run of ones is a smaller number.                 *)
Contains(m, o) ==
  /\ U!Le(m.mask.hi, o.mask.hi) /\ U!Le(m.mask.lo, o.mask.lo)
  /\ And(o.addr, m.mask) = m.addr

-----------------------------------------------------------------------------
Init == held \in BiContiguous /\ op = "none" /\ recv = held /\ arg = held /\ out = {}

(* A false result leaves the program with the network it had; of several   *)
(* results it keeps one.                                                   *)
Return(operand, results) ==
  /\ recv' = held
  /\ arg' = operand
  /\ out' = results
  /\ held' \in IF results = {} THEN {held} ELSE results

With(name, Result(_)) ==
  op = "none" /\ op' = name /\ \E o \in BiContiguous : Return(o, Result(o))

CallIntersection == With("Intersection", LAMBDA o : Intersection6(held, o))
CallMergeByLowestMaskBit ==
  With("MergeByLowestMaskBit", LAMBDA o : MergeByLowestMaskBit6(held, o))
CallDifference == With("Difference", LAMBDA o : Difference6(held, o))
CallDifferenceBackward ==
  With("DifferenceBackward", LAMBDA o : DifferenceBackward6(held, o))
CallSupernet == op = "none" /\ op' = "Supernet" /\ Return(held, Supernet6(held))

(* A network of any mask, made bi-contiguous by a check or by widening; a  *)
(* block (BiContiguousFromContiguous) is wrapped without the check.        *)
Convert(name, nets, Result(_)) ==
  op = "none" /\ op' = name /\ \E n \in nets : Return(n, Result(n))

CallBiContiguousFrom ==
  Convert("BiContiguousFrom", Pair, LAMBDA n : BiContiguousFrom(n.addr, n.mask))
CallBiContiguousFrom6 == Convert("BiContiguousFrom6", Network6, BiContiguousFrom6)
CallToBiContiguous == Convert("ToBiContiguous", Network6, LAMBDA n : {ToBiContiguous(n)})
CallBiContiguousFromContiguous ==
  Convert("BiContiguousFromContiguous", {n \in Network6 : IsContiguousMask(n.mask)},
          LAMBDA n : {n})

(* The program goes on with the network it has.                            *)
Continue ==
  /\ op # "none" /\ op' = "none"
  /\ recv' = held /\ arg' = held /\ out' = {}
  /\ UNCHANGED held

Next ==
  \/ CallIntersection
  \/ CallMergeByLowestMaskBit
  \/ CallDifference
  \/ CallDifferenceBackward
  \/ CallSupernet
  \/ CallBiContiguousFrom
  \/ CallBiContiguousFrom6
  \/ CallToBiContiguous
  \/ CallBiContiguousFromContiguous
  \/ Continue

Spec == Init /\ [][Next]_vars

-----------------------------------------------------------------------------
WholeNet(n) == [addr |-> Whole(n.addr), mask |-> Whole(n.mask)]
Wholes(nets) == {WholeNet(n) : n \in nets}

(* One leading run of ones in each half, told by its length.               *)
InClass(n) ==
  \E p, q \in 0 .. H : n.mask = FromHalves(U!MaskFromPrefix(p), U!MaskFromPrefix(q))

(* Every network a wrapper holds is normalized and in its class, although  *)
(* only BiContiguousFrom6 looks (bicontiguous.go:104, 180, 197, 213, 231). *)
TypeOK ==
  /\ held \in Network6 /\ InClass(held)
  /\ \A n \in out : n \in Network6 /\ InClass(n)

(* On words in two halves each kernel computes what it computes on a word  *)
(* in one piece; the check for the class accepts the class and nothing     *)
(* else, and ToBiContiguous (net6.go:968) is the least widening into it.   *)
(* Between calls, comparing the halves of masks as numbers decides         *)
(* inclusion for every pair of the class, and the two prefix lengths tell  *)
(* the mask (bicontiguous.go:135, 161).                                    *)
KernelsAgree ==
  LET m == WholeNet(recv)  o == WholeNet(arg)
  IN  CASE op = "Intersection" -> Wholes(out) = N!Intersection(m, o)
        [] op = "MergeByLowestMaskBit" -> Wholes(out) = N!MergeByLowestMaskBit(m, o)
        [] op = "Supernet" -> Wholes(out) = N!Supernet(m)
        [] op \in {"Difference", "DifferenceBackward"} ->
             /\ Wholes(out) = N!DifferenceParts(m, o)
             /\ UNION {N!Addrs(n) : n \in Wholes(out)} = N!Addrs(m) \ N!Addrs(o)
        [] op = "BiContiguousFrom6" -> out = Only(InClass(arg), arg)
        [] op = "BiContiguousFrom" ->
             out = {n \in BiContiguous : n.mask = arg.mask /\ And(arg.addr, n.mask) = n.addr}
        [] op = "ToBiContiguous" ->
             out = {n \in BiContiguous : N!Contains(WholeNet(n), o) /\
                      \A x \in BiContiguous : N!Contains(WholeNet(x), o) =>
                                                N!Contains(WholeNet(x), WholeNet(n))}
        [] op = "none" ->
             /\ held.mask = FromHalves(U!MaskFromPrefix(HighPrefixLen(held)),
                                       U!MaskFromPrefix(LowPrefixLen(held)))
             /\ \A x \in BiContiguous :
                  Contains(held, x) <=> N!Addrs(WholeNet(x)) \subseteq N!Addrs(m)
        [] OTHER -> TRUE
=============================================================================
