--------------------------- MODULE DifferenceWalk ---------------------------
(***************************************************************************)
(* Network4/6.Difference and DifferenceBackward, which peel one bit per    *)
(* part, and the prefix ladder that Contiguous.Difference and its reverse  *)
(* climb instead.  A sequence is lazy: each step yields one part, and the  *)
(* consumer may break after any of them.  BiContiguous.Difference wraps    *)
(* the parts of the general peel one by one.                               *)
(***************************************************************************)
EXTENDS Halves, Sequences

VARIABLES
  op,          \* the method called
  m, other,    \* its receiver and argument
  addr,        \* address of the intersection
  mask,        \* mask grown so far (peeling from the top)
  remaining,   \* bits still to be peeled
  bits,        \* prefix length the ladder has reached
  given,       \* parts yielded so far
  broken,      \* the consumer broke
  pc

vars == <<op, m, other, addr, mask, remaining, bits, given, broken, pc>>

PeelOps == {"Difference", "DifferenceBackward"}
LadderOps == {"ContiguousDifference", "ContiguousDifferenceBackward"}

Init ==
  /\ op \in PeelOps \cup LadderOps
  /\ m \in Network /\ other \in Network
  /\ op \in LadderOps => IsContiguous(m) /\ IsContiguous(other)
  /\ addr = {} /\ mask = {} /\ remaining = {} /\ bits = 0
  /\ given = <<>>
  /\ broken = FALSE
  /\ pc = "start"

(* yield(part); a FALSE result of yield returns at once, and the locals    *)
(* are dead then.                                                          *)
Yield(part) ==
  /\ given' = Append(given, part)
  /\ \/ broken' = TRUE /\ pc' = "done"
     \/ broken' = FALSE /\ pc' = pc

Return == pc' = "done" /\ UNCHANGED <<addr, mask, remaining, bits, given, broken>>

-----------------------------------------------------------------------------
(* The general peel                                                        *)

Intersecting == op \in PeelOps /\ pc = "start" /\ Intersects(m, other)

(* Nothing in common: the receiver is yielded as it is.                    *)
YieldReceiver ==
  /\ pc = "start"
  /\ \/ op \in PeelOps /\ IsDisjoint(m, other)
     \/ /\ op \in LadderOps
        /\ ~ContainsContiguous(other, m)
        /\ ~ContainsContiguous(m, other)
  /\ given' = <<m>>
  /\ pc' = "done"
  /\ UNCHANGED <<op, m, other, addr, mask, remaining, bits, broken>>

StartPeel ==
  /\ Intersecting
  /\ \E intersected \in Intersection(m, other) :
       /\ addr' = intersected.addr
       /\ remaining' = Pending(m, other)
  /\ mask' = m.mask
  /\ pc' = "peel"
  /\ UNCHANGED <<op, m, other, bits, given, broken>>

(* Mutant: the bit enters the mask only after its part.                    *)
PeelHighestLate ==
  /\ pc = "peel" /\ op = "Difference" /\ remaining # {}
  /\ mask' = mask \cup HighestSetBit(remaining)
  /\ Yield(Part(addr, HighestSetBit(remaining), mask))
  /\ remaining' = remaining \ HighestSetBit(remaining)
  /\ UNCHANGED <<op, m, other, addr, bits>>

PeelHighest ==
  /\ pc = "peel" /\ op = "Difference" /\ remaining # {}
  /\ mask' = mask \cup HighestSetBit(remaining)
  /\ Yield(Part(addr, HighestSetBit(remaining), mask'))
  /\ remaining' = remaining \ HighestSetBit(remaining)
  /\ UNCHANGED <<op, m, other, addr, bits>>

(* Mutant: the mask accumulates the bits peeled below.                     *)
PeelLowestAccumulating ==
  /\ pc = "peel" /\ op = "DifferenceBackward" /\ remaining # {}
  /\ mask' = mask \cup LowestSetBit(remaining)
  /\ Yield(Part(addr, LowestSetBit(remaining), mask'))
  /\ remaining' = remaining \ LowestSetBit(remaining)
  /\ UNCHANGED <<op, m, other, addr, bits>>

(* From the bottom, the mask of a part holds every bit not peeled yet.     *)
PeelLowest ==
  /\ pc = "peel" /\ op = "DifferenceBackward" /\ remaining # {}
  /\ Yield(Part(addr, LowestSetBit(remaining), m.mask \cup remaining))
  /\ remaining' = remaining \ LowestSetBit(remaining)
  /\ UNCHANGED <<op, m, other, addr, mask, bits>>

ReturnPeeled ==
  /\ pc = "peel" /\ remaining = {}
  /\ Return
  /\ UNCHANGED <<op, m, other>>

-----------------------------------------------------------------------------
(* The ladder between two nested CIDR blocks                               *)

ReturnContained ==
  /\ pc = "start" /\ op \in LadderOps
  /\ ContainsContiguous(other, m)
  /\ Return
  /\ UNCHANGED <<op, m, other>>

StartLadder ==
  /\ pc = "start" /\ op \in LadderOps
  /\ ~ContainsContiguous(other, m)
  /\ ContainsContiguous(m, other)
  /\ bits' \in PrefixLen(IF op = "ContiguousDifference" THEN m ELSE other)
  /\ pc' = "ladder"
  /\ UNCHANGED <<op, m, other, addr, mask, remaining, given, broken>>

(* Mutant: the ladder runs one rung past the exclusion.                    *)
ClimbPast ==
  /\ pc = "ladder" /\ op = "ContiguousDifference"
  /\ \E last \in PrefixLen(other) : bits <= last /\ bits < W
  /\ Yield(ContiguousLadderPart(other, bits + 1))
  /\ bits' = bits + 1
  /\ UNCHANGED <<op, m, other, addr, mask, remaining>>

Climb ==
  /\ pc = "ladder" /\ op = "ContiguousDifference"
  /\ \E last \in PrefixLen(other) : bits < last
  /\ Yield(ContiguousLadderPart(other, bits + 1))
  /\ bits' = bits + 1
  /\ UNCHANGED <<op, m, other, addr, mask, remaining>>

Descend ==
  /\ pc = "ladder" /\ op = "ContiguousDifferenceBackward"
  /\ \E first \in PrefixLen(m) : bits > first
  /\ Yield(ContiguousLadderPart(other, bits))
  /\ bits' = bits - 1
  /\ UNCHANGED <<op, m, other, addr, mask, remaining>>

ReturnLadder ==
  /\ pc = "ladder"
  /\ bits \in PrefixLen(IF op = "ContiguousDifference" THEN other ELSE m)
  /\ Return
  /\ UNCHANGED <<op, m, other>>

Next ==
  \/ YieldReceiver
  \/ StartPeel
  \/ PeelHighest
  \/ PeelLowest
  \/ ReturnPeeled
  \/ ReturnContained
  \/ StartLadder
  \/ Climb
  \/ Descend
  \/ ReturnLadder

(* A consumer's body returns to the sequence, which then runs on.          *)
Spec == Init /\ [][Next]_vars /\ WF_vars(Next)

-----------------------------------------------------------------------------
(* The part of one pending bit agrees with the overlap on the receiver's   *)
(* mask and on the pending bits above it, and differs from it there.       *)
PartOf(n, o, b) ==
  FromBits(Xor(n.addr \cup o.addr, {b}), n.mask \cup {i \in Pending(n, o) : i >= b})

(* The pending bits from the highest down, or from the lowest up.          *)
Peeled ==
  LET d == Pending(m, other)
  IN  [k \in 1 .. Cardinality(d) |->
         CHOOSE b \in d :
           k = Cardinality({c \in d : IF op \in {"Difference", "ContiguousDifference"}
                                        THEN c >= b ELSE c <= b})]

Want == IF IsDisjoint(m, other) THEN <<m>> ELSE [k \in DOMAIN Peeled |-> PartOf(m, other, Peeled[k])]

Abstract == INSTANCE YieldSequence WITH want <- Want, over <- (pc = "done")

Left == Addrs(m) \ Addrs(other)

TypeOK ==
  /\ op \in PeelOps \cup LadderOps
  /\ m \in Network /\ other \in Network
  /\ addr \in Word /\ mask \in Word /\ remaining \in Word
  /\ bits \in 0 .. W
  /\ given \in Seq(Network)
  /\ broken \in BOOLEAN
  /\ pc \in {"start", "peel", "ladder", "done"}

(* Whatever has been yielded lies in the receiver and outside the          *)
(* argument, and no address is in two parts (net4.go:603).                 *)
PartsDisjoint ==
  /\ \A k \in DOMAIN given : Addrs(given[k]) \subseteq Left
  /\ \A j, k \in DOMAIN given : j # k => IsDisjoint(given[j], given[k])

(* A sequence the consumer did not break off yields every address of the   *)
(* difference (net4.go:600).                                               *)
DifferenceComplete ==
  pc = "done" /\ ~broken => UNION {Addrs(given[k]) : k \in DOMAIN given} = Left

(* The difference is represented by the fewest networks that can do it,    *)
(* of any shape: what is yielded is no more than any cover has             *)
(* (net4.go:607).                                                          *)
FewestParts ==
  pc = "done" =>
    \A cover \in {S \in SUBSET {n \in Network : Addrs(n) \subseteq Left} :
                    Cardinality(S) < Len(given)} :
      UNION {Addrs(n) : n \in cover} # Left

(* The parts of CIDR blocks are CIDR blocks and the parts of bi-contiguous *)
(* networks are bi-contiguous: each step lengthens a leading run           *)
(* (contiguous.go:441, bicontiguous.go:228).                               *)
PartsStayInClass ==
  /\ TypeOK
  /\ \A k \in DOMAIN given :
       /\ IsContiguous(m) /\ IsContiguous(other) => IsContiguous(given[k])
       /\ IsBicontiguous(m) /\ IsBicontiguous(other) => IsBicontiguous(given[k])

(* Peel and ladder yield the same parts in the same order, one of them the *)
(* reverse of the other, and end (net4.go:648, contiguous.go:449).         *)
Implements == Abstract!Spec
=============================================================================
