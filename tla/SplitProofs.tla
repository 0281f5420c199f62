---------------------------- MODULE SplitProofs ----------------------------
(***************************************************************************)
(* Cutting a network and cutting a slice, for words of every width.        *)
(*                                                                         *)
(* Difference and DifferenceBackward (net4.go, contiguous.go) yield        *)
(* disjoint parts of the receiver outside the argument, whenever the       *)
(* consumer breaks, and all of the difference when it does not, in as few  *)
(* parts as any cover has.  The prefix ladder of CIDR blocks yields the    *)
(* same parts in the same order.                                           *)
(*                                                                         *)
(* BinarySplit4 and BinarySplit6 (binary_split.go), for every slice.  The  *)
(* counters of the sliding window are those of its pairs (CountsPairs), so *)
(* that its word holds what some pair kills and a candidate fixes exactly  *)
(* the bits that the window's networks share (WindowMask): it is their     *)
(* common supernet (SupernetOf).  The recursion of Gather has a solution   *)
(* (GatherUnfolds), and what it returns is the stable partition of an      *)
(* ascending sequence (GatherIsStable).                                    *)
(***************************************************************************)
EXTENDS DifferenceWalk, BinarySplit, NetworkTheorems, SequenceTheorems

(* A list of parts of n \ o: those of the bits in S, each of them once.    *)
ListsParts(n, o, seq, S) ==
  /\ \A k \in DOMAIN seq : \E b \in S : seq[k] = PartOf(n, o, b)
  /\ \A b \in S : \E k \in DOMAIN seq : seq[k] = PartOf(n, o, b)
  /\ \A j, k \in DOMAIN seq : j # k => seq[j] # seq[k]

-----------------------------------------------------------------------------
(* The address and the mask of one part are normalized, and an address     *)
(* lies in it exactly when it lies in the receiver, agrees with the        *)
(* argument on the pending bits above and differs from it at the bit.      *)
LEMMA InPart ==
  ASSUME NEW n \in Network, NEW o \in Network, Intersects(n, o), NEW b \in Pending(n, o)
  PROVE  /\ PartOf(n, o, b) \in Network
         /\ \A x \in Word : x \in Addrs(PartOf(n, o, b)) <=>
              /\ x \cap n.mask = n.addr
              /\ \A i \in Pending(n, o) : i > b => (i \in x <=> i \in o.addr)
              /\ ~(b \in x <=> b \in o.addr)
<1> DEFINE fixed == n.mask \cup {i \in Pending(n, o) : i >= b}
           flipped == Xor(n.addr \cup o.addr, {b})
<1>1. /\ n.addr \in Word /\ n.mask \in Word /\ n.addr \subseteq n.mask
      /\ o.addr \in Word /\ o.mask \in Word /\ o.addr \subseteq o.mask
  BY NetworkFields
<1>2. /\ Pending(n, o) \subseteq Bits /\ b \in Bits
      /\ Pending(n, o) \cap n.mask = {} /\ Pending(n, o) \subseteq o.mask
  BY <1>1 DEF Pending, Word
<1>3. \A i \in Bits : i \in Int
  BY WAssumption DEF Bits
<1>4. fixed \in Word /\ flipped \in Word
  BY <1>1, <1>2 DEF Word, Xor
<1>5. PartOf(n, o, b) = [addr |-> flipped \cap fixed, mask |-> fixed]
  BY DEF PartOf, FromBits
<1>6. PartOf(n, o, b) \in Network
  BY <1>4, <1>5, NetworkMake DEF Word
<1>7. n.addr \cap o.mask = o.addr \cap n.mask
  BY Overlap
<1>8. \A i \in n.mask : i \in flipped <=> i \in n.addr
  BY <1>1, <1>2, <1>7 DEF Xor
<1>9. \A i \in Pending(n, o) : i # b => (i \in flipped <=> i \in o.addr)
  BY <1>1, <1>2 DEF Xor
<1>10. b \in flipped <=> b \notin o.addr
  BY <1>1, <1>2 DEF Xor
<1>11. ASSUME NEW x \in Word
       PROVE  x \in Addrs(PartOf(n, o, b)) <=>
                /\ x \cap n.mask = n.addr
                /\ \A i \in Pending(n, o) : i > b => (i \in x <=> i \in o.addr)
                /\ ~(b \in x <=> b \in o.addr)
  <2>1. x \in Addrs(PartOf(n, o, b)) <=> \A i \in fixed : i \in x <=> i \in flipped
    BY <1>5 DEF Addrs
  <2>2. (x \cap n.mask = n.addr) <=> \A i \in n.mask : i \in x <=> i \in flipped
    BY <1>1, <1>8
  <2>3. fixed = n.mask \cup {i \in Pending(n, o) : i > b} \cup {b}
    <3>1. \A i \in Pending(n, o) : i >= b <=> i > b \/ i = b
      BY <1>2, <1>3
    <3> QED
      BY <3>1
  <2>4. \A i \in Pending(n, o) : i > b => (i \in x <=> i \in flipped) = (i \in x <=> i \in o.addr)
    BY <1>2, <1>3, <1>9
  <2>5. (b \in x <=> b \in flipped) <=> ~(b \in x <=> b \in o.addr)
    BY <1>10
  <2> HIDE DEF fixed, flipped
  <2>6. x \in Addrs(PartOf(n, o, b)) <=>
          /\ \A i \in n.mask : i \in x <=> i \in flipped
          /\ \A i \in Pending(n, o) : i > b => (i \in x <=> i \in flipped)
          /\ b \in x <=> b \in flipped
    BY <2>1, <2>3
  <2> QED
    BY <2>2, <2>4, <2>5, <2>6
<1> QED
  BY <1>6, <1>11

(* The addresses left are those of the receiver that disagree with the     *)
(* argument on some pending bit.                                           *)
LEMMA InLeft ==
  ASSUME NEW n \in Network, NEW o \in Network, Intersects(n, o), NEW x \in Word
  PROVE  x \in (Addrs(n) \ Addrs(o)) <=>
           /\ x \cap n.mask = n.addr
           /\ \E i \in Pending(n, o) : ~(i \in x <=> i \in o.addr)
<1>1. /\ n.addr \in Word /\ n.mask \in Word /\ n.addr \subseteq n.mask
      /\ o.addr \in Word /\ o.mask \in Word /\ o.addr \subseteq o.mask
  BY NetworkFields
<1>2. n.addr \cap o.mask = o.addr \cap n.mask
  BY Overlap
<1>3. Pending(n, o) = o.mask \ n.mask
  BY DEF Pending
<1>4. x \in (Addrs(n) \ Addrs(o)) <=> x \cap n.mask = n.addr /\ ~(x \cap o.mask = o.addr)
  BY DEF Addrs
<1>5. ASSUME x \cap n.mask = n.addr
      PROVE  x \cap o.mask = o.addr <=> \A i \in Pending(n, o) : i \in x <=> i \in o.addr
  <2>1. \A i \in o.mask : i \in n.mask => (i \in x <=> i \in o.addr)
    BY <1>1, <1>2, <1>5
  <2> QED
    BY <1>1, <1>3, <2>1
<1> QED
  BY <1>4, <1>5

(* Every part lies in what is left.                                        *)
LEMMA PartInLeft ==
  ASSUME NEW n \in Network, NEW o \in Network, Intersects(n, o), NEW b \in Pending(n, o)
  PROVE  Addrs(PartOf(n, o, b)) \subseteq (Addrs(n) \ Addrs(o))
<1>1. Addrs(PartOf(n, o, b)) \subseteq Word
  BY DEF Addrs
<1> QED
  BY <1>1, InPart, InLeft

(* The parts of two bits share no address: at the higher bit one of them   *)
(* agrees with the argument and the other does not.                        *)
LEMMA PartsApart ==
  ASSUME NEW n \in Network, NEW o \in Network, Intersects(n, o),
         NEW b \in Pending(n, o), NEW c \in Pending(n, o), b # c
  PROVE  /\ IsDisjoint(PartOf(n, o, b), PartOf(n, o, c))
         /\ PartOf(n, o, b) # PartOf(n, o, c)
<1>1. Addrs(PartOf(n, o, b)) \subseteq Word /\ Addrs(PartOf(n, o, c)) \subseteq Word
  BY DEF Addrs
<1>2. b \in Int /\ c \in Int
  BY NetworkFields, WAssumption DEF Pending, Word, Bits
<1>3. b > c \/ c > b
  BY <1>2
<1>4. Addrs(PartOf(n, o, b)) \cap Addrs(PartOf(n, o, c)) = {}
  BY <1>1, <1>3, InPart
<1>5. PartOf(n, o, b) \in Network /\ PartOf(n, o, c) \in Network
  BY InPart
<1>6. PartOf(n, o, b) # PartOf(n, o, c)
  BY <1>4, <1>5, AddrOfItself
<1> QED
  BY <1>4, <1>5, <1>6, Overlap

(* What is left is covered: an address of it lies in the part of the       *)
(* highest pending bit on which it disagrees.                              *)
LEMMA PartsCover ==
  ASSUME NEW n \in Network, NEW o \in Network, Intersects(n, o), NEW x \in (Addrs(n) \ Addrs(o))
  PROVE  \E b \in Pending(n, o) : x \in Addrs(PartOf(n, o, b))
<1> DEFINE differ == {i \in Pending(n, o) : ~(i \in x <=> i \in o.addr)}
<1>1. x \in Word
  BY DEF Addrs
<1>2. x \cap n.mask = n.addr /\ differ # {}
  BY <1>1, InLeft
<1>3. differ \subseteq 0 .. (W - 1) /\ W - 1 \in Nat
  BY NetworkFields, WAssumption DEF Pending, Word, Bits
<1>4. PICK b \in differ : \A j \in differ : j <= b
  BY <1>2, <1>3, GreatestNatural
<1>5. \A i \in Pending(n, o) : i > b => (i \in x <=> i \in o.addr)
  <2>1. \A i \in differ : ~(i > b)
    BY <1>3, <1>4
  <2> QED
    BY <2>1
<1> QED
  BY <1>1, <1>2, <1>4, <1>5, InPart

(* Each rung between two nested blocks is the part of one pending bit, and *)
(* every pending bit has its rung.                                         *)
LEMMA Rungs ==
  ASSUME NEW n \in Network, NEW o \in Network, IsContiguous(n), IsContiguous(o),
         ContainsContiguous(n, o)
  PROVE  /\ Pending(n, o) =
              {i \in Bits : W - LeadingOnes(o.mask) <= i /\ i < W - LeadingOnes(n.mask)}
         /\ \A rung \in (LeadingOnes(n.mask) + 1) .. LeadingOnes(o.mask) :
              /\ W - rung \in Pending(n, o)
              /\ ContiguousLadderPart(o, rung) = PartOf(n, o, W - rung)
BY LadderRungs DEF PartOf, Part, FromBits

-----------------------------------------------------------------------------
(* Lists of parts                                                          *)

(* One part more.                                                          *)
LEMMA OnePartMore ==
  ASSUME NEW n \in Network, NEW o \in Network, Intersects(n, o),
         NEW seq \in Seq(Network), NEW S, S \subseteq Pending(n, o), ListsParts(n, o, seq, S),
         NEW b \in Pending(n, o), b \notin S
  PROVE  /\ Append(seq, PartOf(n, o, b)) \in Seq(Network)
         /\ ListsParts(n, o, Append(seq, PartOf(n, o, b)), S \cup {b})
<1> DEFINE part == PartOf(n, o, b)
           more == Append(seq, part)
<1>1. part \in Network
  BY InPart
<1>2. \A c \in S : PartOf(n, o, c) # part
  BY PartsApart
<1> HIDE DEF part
<1>3. /\ Len(seq) \in Nat /\ DOMAIN seq = 1 .. Len(seq)
      /\ more \in Seq(Network) /\ DOMAIN more = 1 .. (Len(seq) + 1)
      /\ \A k \in DOMAIN seq : k \in DOMAIN more /\ more[k] = seq[k]
      /\ Len(seq) + 1 \in DOMAIN more /\ more[Len(seq) + 1] = part
      /\ \A k \in DOMAIN more : k \in DOMAIN seq \/ k = Len(seq) + 1
  BY <1>1
<1> HIDE DEF more
<1>4. \A k \in DOMAIN seq : seq[k] # part
  BY <1>2 DEF ListsParts
<1>5. \A k \in DOMAIN more : \E c \in S \cup {b} : more[k] = PartOf(n, o, c)
  BY <1>3 DEF ListsParts, part
<1>6. \A c \in S \cup {b} : \E k \in DOMAIN more : more[k] = PartOf(n, o, c)
  BY <1>3 DEF ListsParts, part
<1>7. \A j, k \in DOMAIN more : j # k => more[j] # more[k]
  BY <1>3, <1>4 DEF ListsParts
<1> QED
  BY <1>3, <1>5, <1>6, <1>7 DEF ListsParts, more, part

(* Parts in a list stay inside the difference and apart, and all of them   *)
(* together are the difference.                                            *)
LEMMA ListedParts ==
  ASSUME NEW n \in Network, NEW o \in Network, Intersects(n, o),
         NEW seq \in Seq(Network), NEW S, S \subseteq Pending(n, o), ListsParts(n, o, seq, S)
  PROVE  /\ \A k \in DOMAIN seq : Addrs(seq[k]) \subseteq Addrs(n) \ Addrs(o)
         /\ \A j, k \in DOMAIN seq : j # k => IsDisjoint(seq[j], seq[k])
         /\ S = Pending(n, o) =>
              UNION {Addrs(seq[k]) : k \in DOMAIN seq} = Addrs(n) \ Addrs(o)
<1>1. \A k \in DOMAIN seq : Addrs(seq[k]) \subseteq Addrs(n) \ Addrs(o)
  BY PartInLeft DEF ListsParts
<1>2. \A j, k \in DOMAIN seq : j # k => IsDisjoint(seq[j], seq[k])
  BY PartsApart DEF ListsParts
<1>3. ASSUME S = Pending(n, o), NEW x \in Addrs(n) \ Addrs(o)
      PROVE  \E k \in DOMAIN seq : x \in Addrs(seq[k])
  <2>1. PICK b \in S : x \in Addrs(PartOf(n, o, b))
    BY <1>3, PartsCover
  <2>2. PICK k \in DOMAIN seq : seq[k] = PartOf(n, o, b)
    BY DEF ListsParts
  <2> QED
    BY <2>1, <2>2
<1> QED
  BY <1>1, <1>2, <1>3

(* Peeling from the top: the bits already peeled lie above the rest, so    *)
(* the grown mask is the mask of the highest bit's part.                   *)
LEMMA TopPart ==
  ASSUME NEW n \in Network, NEW o \in Network,
         NEW R, R \subseteq Pending(n, o), R # {},
         \A i \in Pending(n, o) \ R, j \in R : j < i
  PROVE  \E b \in R :
           /\ HighestSetBit(R) = {b}
           /\ \A j \in R : j <= b
           /\ Part(n.addr \cup o.addr, {b}, (n.mask \cup (Pending(n, o) \ R)) \cup {b}) =
                PartOf(n, o, b)
<1>1. R \subseteq 0 .. (W - 1) /\ W - 1 \in Nat /\ Pending(n, o) \subseteq Int
  BY NetworkFields, WAssumption DEF Pending, Word, Bits
<1>2. PICK b \in R : \A j \in R : j <= b
  BY <1>1, GreatestNatural
<1>3. HighestSetBit(R) = {b}
  <2>1. \A i \in R : b <= i => i = b
    BY <1>1, <1>2
  <2> QED
    BY <1>1, <1>2, <2>1 DEF HighestSetBit
<1>4. (n.mask \cup (Pending(n, o) \ R)) \cup {b} = n.mask \cup {i \in Pending(n, o) : i >= b}
  <2>1. \A i \in Pending(n, o) : i >= b <=> i \notin R \/ i = b
    BY <1>1, <1>2
  <2> QED
    BY <2>1
<1>5. Part(n.addr \cup o.addr, {b}, (n.mask \cup (Pending(n, o) \ R)) \cup {b}) = PartOf(n, o, b)
  BY <1>4 DEF Part, PartOf, FromBits
<1> QED
  BY <1>2, <1>3, <1>5

(* Peeling from the bottom: the bits not yet peeled lie above the peeled.  *)
LEMMA BottomPart ==
  ASSUME NEW n \in Network, NEW o \in Network,
         NEW R, R \subseteq Pending(n, o), R # {},
         \A i \in Pending(n, o) \ R, j \in R : i < j
  PROVE  \E b \in R :
           /\ LowestSetBit(R) = {b}
           /\ \A j \in R : b <= j
           /\ Part(n.addr \cup o.addr, {b}, n.mask \cup R) = PartOf(n, o, b)
<1>1. R \subseteq Nat /\ Pending(n, o) \subseteq Int
  BY NetworkFields, WAssumption DEF Pending, Word, Bits
<1>2. PICK b \in R : \A j \in R : b <= j
  BY <1>1, LeastNatural
<1>3. LowestSetBit(R) = {b}
  <2>1. \A i \in R : i <= b => i = b
    BY <1>1, <1>2
  <2> QED
    BY <1>1, <1>2, <2>1 DEF LowestSetBit
<1>4. n.mask \cup R = n.mask \cup {i \in Pending(n, o) : i >= b}
  <2>1. \A i \in Pending(n, o) : i >= b <=> i \in R
    BY <1>1, <1>2
  <2> QED
    BY <2>1
<1>5. Part(n.addr \cup o.addr, {b}, n.mask \cup R) = PartOf(n, o, b)
  BY <1>4 DEF Part, PartOf, FromBits
<1> QED
  BY <1>2, <1>3, <1>5

-----------------------------------------------------------------------------
(* The inductive invariant: what has been yielded is, in every phase, the  *)
(* parts of a set of pending bits the locals determine.                    *)

Ahead == Pending(m, other)

Climbed ==
  IF op = "ContiguousDifference" THEN {i \in Ahead : i >= W - bits} ELSE {i \in Ahead : i < W - bits}

CalledOnBlocks == op \in LadderOps => IsContiguous(m) /\ IsContiguous(other)

NotStarted == pc = "start" => given = <<>> /\ ~broken

Peeling ==
  pc = "peel" =>
    /\ op \in PeelOps /\ Intersects(m, other) /\ ~broken
    /\ addr = m.addr \cup other.addr
    /\ remaining \subseteq Ahead
    /\ ListsParts(m, other, given, Ahead \ remaining)
    /\ op = "Difference" =>
         /\ mask = m.mask \cup (Ahead \ remaining)
         /\ \A i \in Ahead \ remaining, j \in remaining : j < i
    /\ op = "DifferenceBackward" => \A i \in Ahead \ remaining, j \in remaining : i < j

Climbing ==
  pc = "ladder" =>
    /\ op \in LadderOps /\ ContainsContiguous(m, other) /\ ~broken
    /\ bits \in LeadingOnes(m.mask) .. LeadingOnes(other.mask)
    /\ ListsParts(m, other, given, Climbed)

Ended ==
  pc = "done" =>
    \/ IsDisjoint(m, other) /\ given = <<m>>
    \/ /\ Intersects(m, other)
       /\ \E S \in SUBSET Ahead : ListsParts(m, other, given, S) /\ (broken \/ S = Ahead)

DInv == TypeOK /\ CalledOnBlocks /\ NotStarted /\ Peeling /\ Climbing /\ Ended

(* The bits whose parts have been yielded, and a step that yields one      *)
(* more: the first of the rest in the order of the method.                 *)
Behind == IF op \in PeelOps THEN Ahead \ remaining ELSE Climbed

TopFirst == op \in {"Difference", "ContiguousDifference"}

OneMore ==
  \E b \in Ahead \ Behind :
    /\ \A j \in Ahead \ Behind : IF TopFirst THEN j <= b ELSE b <= j
    /\ Yield(PartOf(m, other, b))
    /\ Behind' = Behind \cup {b}
    /\ UNCHANGED <<op, m, other>>

(* What every yield of a further part leaves behind.                       *)
LEMMA YieldsPart ==
  ASSUME TypeOK, Intersects(m, other), m' = m, other' = other,
         NEW S, S \subseteq Ahead, ListsParts(m, other, given, S),
         NEW b \in Ahead, b \notin S, Yield(PartOf(m, other, b))
  PROVE  /\ given' \in Seq(Network)
         /\ ListsParts(m', other', given', S \cup {b})
         /\ (broken' = TRUE /\ pc' = "done") \/ (broken' = FALSE /\ pc' = pc)
BY OnePartMore DEF Yield, Ahead, TypeOK

(* The peel from the top yields the part of its highest bit (net4.go:634). *)
LEMMA PeelHighestKeeps == ASSUME DInv, PeelHighest PROVE DInv' /\ OneMore
<1> USE DEF PeelHighest
<1>1. /\ TypeOK /\ CalledOnBlocks /\ pc = "peel" /\ op = "Difference"
      /\ m \in Network /\ other \in Network
      /\ m' = m /\ other' = other /\ op' = op /\ addr' = addr /\ bits' = bits
  BY DEF DInv, TypeOK
<1>2. /\ Intersects(m, other) /\ ~broken /\ addr = m.addr \cup other.addr
      /\ remaining \subseteq Ahead /\ remaining # {}
      /\ ListsParts(m, other, given, Ahead \ remaining)
      /\ mask = m.mask \cup (Ahead \ remaining)
      /\ \A i \in Ahead \ remaining, j \in remaining : j < i
  BY <1>1 DEF DInv, Peeling
<1>3. PICK b \in remaining :
        /\ HighestSetBit(remaining) = {b}
        /\ \A j \in remaining : j <= b
        /\ Part(addr, {b}, mask \cup {b}) = PartOf(m, other, b)
  <2>1. PICK b \in remaining :
          /\ HighestSetBit(remaining) = {b}
          /\ \A j \in remaining : j <= b
          /\ Part(m.addr \cup other.addr, {b}, (m.mask \cup (Ahead \ remaining)) \cup {b}) =
               PartOf(m, other, b)
    <3>1. /\ m \in Network /\ other \in Network
          /\ remaining \subseteq Ahead /\ remaining # {}
          /\ \A i \in Ahead \ remaining, j \in remaining : j < i
      BY <1>1, <1>2
    <3> QED
      BY <3>1, TopPart, Zenon DEF Ahead
  <2> QED
    BY <1>2, <2>1, Zenon
<1>4. mask' = mask \cup {b} /\ remaining' = remaining \ {b} /\ Yield(PartOf(m, other, b))
  BY <1>3
<1>5. /\ given' \in Seq(Network)
      /\ ListsParts(m', other', given', (Ahead \ remaining) \cup {b})
      /\ (broken' = TRUE /\ pc' = "done") \/ (broken' = FALSE /\ pc' = pc)
  BY <1>1, <1>2, <1>4, YieldsPart
<1>6. Ahead' = Ahead /\ (Ahead \ remaining) \cup {b} = Ahead \ remaining'
  BY <1>1, <1>2, <1>4 DEF Ahead
<1>7. remaining \in Word /\ mask \in Word /\ \A i \in remaining : i \in Int
  BY <1>1, WAssumption DEF TypeOK, Word, Bits
<1>8. TypeOK'
  BY <1>1, <1>4, <1>5, <1>7 DEF TypeOK, Word
<1>9. Peeling'
  <2>1. mask' = m.mask \cup (Ahead \ remaining')
    BY <1>2, <1>4, <1>6
  <2>2. \A i \in Ahead \ remaining', j \in remaining' : j < i
    BY <1>2, <1>3, <1>4, <1>7
  <2>3. op' \in PeelOps /\ Intersects(m', other')
    BY <1>1, <1>2 DEF PeelOps
  <2> QED
    BY <1>1, <1>2, <1>4, <1>5, <1>6, <2>1, <2>2, <2>3 DEF Peeling
<1>10. Ended'
  BY <1>1, <1>2, <1>4, <1>5, <1>6 DEF Ended
<1>11. OneMore
  <2>1. Behind = Ahead \ remaining /\ Behind' = Ahead \ remaining'
    BY <1>1, <1>6 DEF Behind, PeelOps
  <2>2. b \in Ahead \ Behind /\ \A j \in Ahead \ Behind : IF TopFirst THEN j <= b ELSE b <= j
    BY <1>1, <1>2, <1>3, <2>1 DEF TopFirst
  <2> QED
    BY <1>1, <1>4, <1>6, <2>1, <2>2 DEF OneMore
<1> QED
  BY <1>1, <1>5, <1>8, <1>9, <1>10, <1>11 DEF DInv, CalledOnBlocks, NotStarted, Climbing

(* The peel from the bottom yields the part of its lowest bit              *)
(* (net4.go:669).                                                          *)
LEMMA PeelLowestKeeps == ASSUME DInv, PeelLowest PROVE DInv' /\ OneMore
<1> USE DEF PeelLowest
<1>1. /\ TypeOK /\ CalledOnBlocks /\ pc = "peel" /\ op = "DifferenceBackward"
      /\ m \in Network /\ other \in Network
      /\ m' = m /\ other' = other /\ op' = op /\ addr' = addr /\ mask' = mask /\ bits' = bits
  BY DEF DInv, TypeOK
<1>2. /\ Intersects(m, other) /\ ~broken /\ addr = m.addr \cup other.addr
      /\ remaining \subseteq Ahead /\ remaining # {}
      /\ ListsParts(m, other, given, Ahead \ remaining)
      /\ \A i \in Ahead \ remaining, j \in remaining : i < j
  BY <1>1 DEF DInv, Peeling
<1>3. PICK b \in remaining :
        /\ LowestSetBit(remaining) = {b}
        /\ \A j \in remaining : b <= j
        /\ Part(addr, {b}, m.mask \cup remaining) = PartOf(m, other, b)
  <2>1. PICK b \in remaining :
          /\ LowestSetBit(remaining) = {b}
          /\ \A j \in remaining : b <= j
          /\ Part(m.addr \cup other.addr, {b}, m.mask \cup remaining) = PartOf(m, other, b)
    <3>1. /\ m \in Network /\ other \in Network
          /\ remaining \subseteq Ahead /\ remaining # {}
          /\ \A i \in Ahead \ remaining, j \in remaining : i < j
      BY <1>1, <1>2
    <3> QED
      BY <3>1, BottomPart, Zenon DEF Ahead
  <2> QED
    BY <1>2, <2>1, Zenon
<1>4. remaining' = remaining \ {b} /\ Yield(PartOf(m, other, b))
  BY <1>3
<1>5. /\ given' \in Seq(Network)
      /\ ListsParts(m', other', given', (Ahead \ remaining) \cup {b})
      /\ (broken' = TRUE /\ pc' = "done") \/ (broken' = FALSE /\ pc' = pc)
  BY <1>1, <1>2, <1>4, YieldsPart
<1>6. Ahead' = Ahead /\ (Ahead \ remaining) \cup {b} = Ahead \ remaining'
  BY <1>1, <1>2, <1>4 DEF Ahead
<1>7. remaining \in Word /\ \A i \in remaining : i \in Int
  BY <1>1, WAssumption DEF TypeOK, Word, Bits
<1>8. TypeOK'
  BY <1>1, <1>4, <1>5, <1>7 DEF TypeOK, Word
<1>9. Peeling'
  <2>1. \A i \in Ahead \ remaining', j \in remaining' : i < j
    BY <1>2, <1>3, <1>4, <1>7
  <2>2. op' \in PeelOps /\ Intersects(m', other')
    BY <1>1, <1>2 DEF PeelOps
  <2> QED
    BY <1>1, <1>2, <1>4, <1>5, <1>6, <2>1, <2>2 DEF Peeling
<1>10. Ended'
  BY <1>1, <1>2, <1>4, <1>5, <1>6 DEF Ended
<1>11. OneMore
  <2>1. Behind = Ahead \ remaining /\ Behind' = Ahead \ remaining'
    BY <1>1, <1>6 DEF Behind, PeelOps
  <2>2. b \in Ahead \ Behind /\ \A j \in Ahead \ Behind : IF TopFirst THEN j <= b ELSE b <= j
    BY <1>1, <1>2, <1>3, <2>1 DEF TopFirst
  <2> QED
    BY <1>1, <1>4, <1>6, <2>1, <2>2 DEF OneMore
<1> QED
  BY <1>1, <1>5, <1>8, <1>9, <1>10, <1>11 DEF DInv, CalledOnBlocks, NotStarted, Climbing

(* Before the first yield nothing is listed.                               *)
LEMMA NothingListed ==
  ASSUME NEW n, NEW o
  PROVE  ListsParts(n, o, <<>>, {})
BY DEF ListsParts

(* The peel starts from the intersection, with every pending bit ahead.    *)
LEMMA StartPeelKeeps == ASSUME DInv, StartPeel PROVE DInv'
<1> USE DEF StartPeel, Intersecting
<1>1. /\ TypeOK /\ CalledOnBlocks /\ pc = "start" /\ op \in PeelOps /\ Intersects(m, other)
      /\ given = <<>> /\ ~broken /\ m \in Network /\ other \in Network
      /\ m' = m /\ other' = other /\ op' = op /\ bits' = bits /\ pc' = "peel"
      /\ given' = given /\ broken' = broken /\ mask' = m.mask /\ remaining' = Ahead
  BY DEF DInv, TypeOK, NotStarted, Ahead
<1>2. addr' = m.addr \cup other.addr
  BY DEF Intersection, Only
<1>3. m.addr \in Word /\ m.mask \in Word /\ other.addr \in Word /\ other.mask \in Word
  BY <1>1, NetworkFields
<1>4. TypeOK'
  BY <1>1, <1>2, <1>3 DEF TypeOK, Ahead, Pending, Word
<1>5. Ahead' = Ahead /\ Ahead \ remaining' = {}
  BY <1>1 DEF Ahead
<1>6. ListsParts(m', other', given', Ahead' \ remaining')
  BY <1>1, <1>5, NothingListed
<1>7. Peeling'
  BY <1>1, <1>2, <1>5, <1>6 DEF Peeling
<1> QED
  BY <1>1, <1>4, <1>7 DEF DInv, CalledOnBlocks, NotStarted, Climbing, Ended

(* When no bit is left to peel, all the parts have been yielded.           *)
LEMMA ReturnPeeledKeeps == ASSUME DInv, ReturnPeeled PROVE DInv'
<1> USE DEF ReturnPeeled, Return
<1>1. /\ TypeOK /\ CalledOnBlocks /\ pc = "peel" /\ pc' = "done"
      /\ UNCHANGED <<op, m, other, addr, mask, remaining, bits, given, broken>>
  BY DEF DInv
<1>2. Intersects(m, other) /\ ListsParts(m, other, given, Ahead)
  <2>1. ListsParts(m, other, given, Ahead \ remaining) /\ Intersects(m, other)
    BY <1>1 DEF DInv, Peeling
  <2>2. Ahead \ remaining = Ahead
    OBVIOUS
  <2> QED
    BY <2>1, <2>2
<1>3. TypeOK'
  BY <1>1 DEF TypeOK
<1>4. Ended'
  BY <1>1, <1>2 DEF Ended, Ahead
<1> QED
  BY <1>1, <1>3, <1>4 DEF DInv, CalledOnBlocks, NotStarted, Peeling, Climbing

(* The receiver is yielded only when nothing is taken from it: CIDR blocks *)
(* of which neither contains the other do not overlap.                     *)
LEMMA YieldReceiverKeeps == ASSUME DInv, YieldReceiver PROVE DInv'
<1> USE DEF YieldReceiver
<1>1. /\ TypeOK /\ CalledOnBlocks /\ pc = "start" /\ m \in Network /\ other \in Network
      /\ UNCHANGED <<op, m, other, addr, mask, remaining, bits, broken>>
      /\ given' = <<m>> /\ pc' = "done"
  BY DEF DInv, TypeOK
<1>2. IsDisjoint(m, other)
  BY <1>1, Nested DEF CalledOnBlocks, IsDisjoint
<1>3. TypeOK'
  BY <1>1 DEF TypeOK
<1>4. Ended'
  BY <1>1, <1>2 DEF Ended
<1> QED
  BY <1>1, <1>3, <1>4 DEF DInv, CalledOnBlocks, NotStarted, Peeling, Climbing

-----------------------------------------------------------------------------
(* The ladder                                                              *)

(* A block inside the argument has no pending bit: nothing is yielded.     *)
LEMMA ReturnContainedKeeps == ASSUME DInv, ReturnContained PROVE DInv'
<1> USE DEF ReturnContained, Return
<1>1. /\ TypeOK /\ CalledOnBlocks /\ pc = "start" /\ pc' = "done"
      /\ m \in Network /\ other \in Network /\ given = <<>>
      /\ IsContiguous(m) /\ IsContiguous(other)
      /\ UNCHANGED <<op, m, other, addr, mask, remaining, bits, given, broken>>
  BY DEF DInv, TypeOK, CalledOnBlocks, NotStarted
<1>2. Intersects(other, m) /\ other.mask \subseteq m.mask
  BY <1>1, Nested
<1>3. Intersects(m, other)
  BY <1>1, <1>2, Overlap
<1>4. Ahead = {}
  BY <1>2 DEF Ahead, Pending
<1>5. ListsParts(m, other, given, Ahead)
  BY <1>1, <1>4, NothingListed
<1>6. TypeOK'
  BY <1>1 DEF TypeOK
<1>7. Ended'
  BY <1>1, <1>3, <1>5 DEF Ended, Ahead
<1> QED
  BY <1>1, <1>6, <1>7 DEF DInv, CalledOnBlocks, NotStarted, Peeling, Climbing

(* The ladder starts at the end of the pending bits its direction needs.   *)
LEMMA StartLadderKeeps == ASSUME DInv, StartLadder PROVE DInv' /\ Climbed' = {}
<1> USE DEF StartLadder
<1>1. /\ TypeOK /\ CalledOnBlocks /\ pc = "start" /\ pc' = "ladder" /\ op \in LadderOps
      /\ m \in Network /\ other \in Network /\ given = <<>> /\ ~broken
      /\ IsContiguous(m) /\ IsContiguous(other) /\ ContainsContiguous(m, other)
      /\ UNCHANGED <<op, m, other, addr, mask, remaining, given, broken>>
  BY DEF DInv, TypeOK, CalledOnBlocks, NotStarted
<1>2. /\ LeadingOnes(m.mask) \in 0 .. W /\ LeadingOnes(other.mask) \in 0 .. W
      /\ PrefixLen(m) = {LeadingOnes(m.mask)} /\ PrefixLen(other) = {LeadingOnes(other.mask)}
      /\ LeadingOnes(m.mask) <= LeadingOnes(other.mask)
  BY <1>1, ContiguousMask, Nested
<1>3. bits' = IF op = "ContiguousDifference" THEN LeadingOnes(m.mask) ELSE LeadingOnes(other.mask)
  BY <1>2
<1>4. bits' \in 0 .. W /\ bits' \in LeadingOnes(m.mask) .. LeadingOnes(other.mask)
  BY <1>2, <1>3
<1>5. Climbed' = {}
  <2>1. Ahead = {i \in Bits : W - LeadingOnes(other.mask) <= i /\ i < W - LeadingOnes(m.mask)}
    BY <1>1, Rungs DEF Ahead
  <2>2. /\ W - LeadingOnes(other.mask) \in Int /\ W - LeadingOnes(m.mask) \in Int
        /\ \A i \in Ahead : i \in Int
        /\ \A i \in Ahead : ~(i >= W - LeadingOnes(m.mask)) /\ ~(i < W - LeadingOnes(other.mask))
    BY <1>2, <2>1, WAssumption DEF Bits
  <2>3. Ahead' = Ahead
    BY <1>1 DEF Ahead
  <2>4. CASE op = "ContiguousDifference"
    BY <1>1, <1>3, <2>2, <2>3, <2>4 DEF Climbed
  <2>5. CASE op # "ContiguousDifference"
    BY <1>1, <1>3, <2>2, <2>3, <2>5 DEF Climbed
  <2> QED
    BY <2>4, <2>5
<1>6. ListsParts(m', other', given', Climbed')
  BY <1>1, <1>5, NothingListed
<1>7. TypeOK'
  BY <1>1, <1>4 DEF TypeOK
<1>8. Climbing'
  BY <1>1, <1>4, <1>6 DEF Climbing
<1> QED
  BY <1>1, <1>5, <1>7, <1>8 DEF DInv, CalledOnBlocks, NotStarted, Peeling, Ended

(* What the invariant says while the ladder is climbed.                    *)
LEMMA OnLadder ==
  ASSUME DInv, pc = "ladder"
  PROVE  /\ TypeOK /\ CalledOnBlocks /\ op \in LadderOps
         /\ m \in Network /\ other \in Network
         /\ IsContiguous(m) /\ IsContiguous(other) /\ ContainsContiguous(m, other)
         /\ Intersects(m, other) /\ ~broken
         /\ LeadingOnes(m.mask) \in 0 .. W /\ LeadingOnes(other.mask) \in 0 .. W
         /\ PrefixLen(m) = {LeadingOnes(m.mask)} /\ PrefixLen(other) = {LeadingOnes(other.mask)}
         /\ bits \in Int /\ LeadingOnes(m.mask) <= bits /\ bits <= LeadingOnes(other.mask)
         /\ ListsParts(m, other, given, Climbed) /\ Climbed \subseteq Ahead
         /\ Ahead = {i \in Bits : W - LeadingOnes(other.mask) <= i /\ i < W - LeadingOnes(m.mask)}
         /\ \A rung \in (LeadingOnes(m.mask) + 1) .. LeadingOnes(other.mask) :
              /\ W - rung \in Ahead
              /\ ContiguousLadderPart(other, rung) = PartOf(m, other, W - rung)
<1>1. /\ TypeOK /\ CalledOnBlocks /\ op \in LadderOps /\ m \in Network /\ other \in Network
      /\ IsContiguous(m) /\ IsContiguous(other) /\ ContainsContiguous(m, other) /\ ~broken
      /\ bits \in LeadingOnes(m.mask) .. LeadingOnes(other.mask)
      /\ ListsParts(m, other, given, Climbed)
  BY DEF DInv, TypeOK, CalledOnBlocks, Climbing
<1>2. /\ LeadingOnes(m.mask) \in 0 .. W /\ LeadingOnes(other.mask) \in 0 .. W
      /\ PrefixLen(m) = {LeadingOnes(m.mask)} /\ PrefixLen(other) = {LeadingOnes(other.mask)}
      /\ Intersects(m, other)
  BY <1>1, ContiguousMask, Nested
<1>3. bits \in Int /\ LeadingOnes(m.mask) <= bits /\ bits <= LeadingOnes(other.mask)
  BY <1>1, <1>2
<1>4. Climbed \subseteq Ahead
  BY DEF Climbed
<1>5. /\ Ahead = {i \in Bits : W - LeadingOnes(other.mask) <= i /\ i < W - LeadingOnes(m.mask)}
      /\ \A rung \in (LeadingOnes(m.mask) + 1) .. LeadingOnes(other.mask) :
           /\ W - rung \in Ahead
           /\ ContiguousLadderPart(other, rung) = PartOf(m, other, W - rung)
  BY <1>1, Rungs DEF Ahead
<1> QED
  BY <1>1, <1>2, <1>3, <1>4, <1>5

(* A rung up yields the part of the next lower bit.                        *)
LEMMA ClimbKeeps == ASSUME DInv, Climb PROVE DInv' /\ OneMore
<1> USE DEF Climb
<1> DEFINE p == LeadingOnes(m.mask)
           q == LeadingOnes(other.mask)
           b == W - (bits + 1)
<1>1. /\ TypeOK /\ CalledOnBlocks /\ pc = "ladder" /\ op = "ContiguousDifference" /\ op \in LadderOps
      /\ m \in Network /\ other \in Network /\ IsContiguous(m) /\ IsContiguous(other)
      /\ ContainsContiguous(m, other) /\ Intersects(m, other) /\ ~broken
      /\ PrefixLen(m) = {p} /\ PrefixLen(other) = {q}
      /\ p \in 0 .. W /\ q \in 0 .. W /\ bits \in Int /\ p <= bits /\ bits <= q
      /\ ListsParts(m, other, given, Climbed) /\ Climbed \subseteq Ahead
      /\ Ahead = {i \in Bits : W - q <= i /\ i < W - p}
      /\ UNCHANGED <<op, m, other, addr, mask, remaining>>
  BY OnLadder
<1>2. \A rung \in (p + 1) .. q :
        W - rung \in Ahead /\ ContiguousLadderPart(other, rung) = PartOf(m, other, W - rung)
  BY OnLadder
<1> HIDE DEF p, q
<1>3. bits < q
  BY <1>1
<1>4. W \in Int /\ \A i \in Ahead : i \in Int
  BY <1>1, WAssumption DEF Bits
<1>5. bits + 1 \in (p + 1) .. q /\ b = W - (bits + 1)
  BY <1>1, <1>3, <1>4
<1>6. b \in Ahead /\ Yield(PartOf(m, other, b))
  BY <1>2, <1>5
<1>7. b \notin Climbed
  BY <1>1, <1>4, <1>5 DEF Climbed
<1> HIDE DEF b
<1>8. /\ given' \in Seq(Network)
      /\ ListsParts(m', other', given', Climbed \cup {b})
      /\ (broken' = TRUE /\ pc' = "done") \/ (broken' = FALSE /\ pc' = pc)
  BY <1>1, <1>6, <1>7, YieldsPart
<1>9. Ahead' = Ahead /\ LeadingOnes(m'.mask) = p /\ LeadingOnes(other'.mask) = q
  BY <1>1 DEF Ahead, p, q
<1>10. bits' = bits + 1 /\ bits' \in p .. q /\ bits' \in 0 .. W
  BY <1>1, <1>3, <1>4
<1>11. Climbed' = Climbed \cup {b}
  <2>1. Climbed = {i \in Ahead : i >= W - bits}
    BY <1>1 DEF Climbed
  <2>2. Climbed' = {i \in Ahead : i >= W - (bits + 1)}
    BY <1>1, <1>9, <1>10 DEF Climbed
  <2>3. \A i \in Ahead : i >= W - (bits + 1) <=> i >= W - bits \/ i = b
    BY <1>1, <1>4, <1>5
  <2> QED
    BY <1>6, <2>1, <2>2, <2>3
<1>12. TypeOK'
  BY <1>1, <1>8, <1>10 DEF TypeOK
<1>13. Climbing'
  BY <1>1, <1>8, <1>9, <1>10, <1>11 DEF Climbing
<1>14. Ended'
  <2>1. Climbed \cup {b} \in SUBSET Ahead'
    BY <1>1, <1>6, <1>9
  <2> QED
    BY <1>1, <1>8, <2>1 DEF Ended
<1>15. OneMore
  <2>1. Behind = Climbed /\ Behind' = Climbed'
    BY <1>1 DEF Behind, PeelOps, LadderOps
  <2>2. \A j \in Ahead \ Climbed : IF TopFirst THEN j <= b ELSE b <= j
    BY <1>1, <1>4, <1>5 DEF TopFirst, Climbed
  <2> QED
    BY <1>1, <1>6, <1>7, <1>11, <2>1, <2>2 DEF OneMore
<1> QED
  BY <1>1, <1>8, <1>12, <1>13, <1>14, <1>15 DEF DInv, CalledOnBlocks, NotStarted, Peeling

(* A rung down yields the part of the next higher bit.                     *)
LEMMA DescendKeeps == ASSUME DInv, Descend PROVE DInv' /\ OneMore
<1> USE DEF Descend
<1> DEFINE p == LeadingOnes(m.mask)
           q == LeadingOnes(other.mask)
           b == W - bits
<1>1. /\ TypeOK /\ CalledOnBlocks /\ pc = "ladder" /\ op = "ContiguousDifferenceBackward" /\ op \in LadderOps
      /\ m \in Network /\ other \in Network /\ IsContiguous(m) /\ IsContiguous(other)
      /\ ContainsContiguous(m, other) /\ Intersects(m, other) /\ ~broken
      /\ PrefixLen(m) = {p} /\ PrefixLen(other) = {q}
      /\ p \in 0 .. W /\ q \in 0 .. W /\ bits \in Int /\ p <= bits /\ bits <= q
      /\ ListsParts(m, other, given, Climbed) /\ Climbed \subseteq Ahead
      /\ Ahead = {i \in Bits : W - q <= i /\ i < W - p}
      /\ UNCHANGED <<op, m, other, addr, mask, remaining>>
  BY OnLadder
<1>2. \A rung \in (p + 1) .. q :
        W - rung \in Ahead /\ ContiguousLadderPart(other, rung) = PartOf(m, other, W - rung)
  BY OnLadder
<1> HIDE DEF p, q
<1>3. bits > p
  BY <1>1
<1>4. W \in Int /\ \A i \in Ahead : i \in Int
  BY <1>1, WAssumption DEF Bits
<1>5. bits \in (p + 1) .. q /\ b = W - (bits)
  BY <1>1, <1>3, <1>4
<1>6. b \in Ahead /\ Yield(PartOf(m, other, b))
  BY <1>2, <1>5
<1>7. b \notin Climbed
  BY <1>1, <1>4, <1>5 DEF Climbed
<1> HIDE DEF b
<1>8. /\ given' \in Seq(Network)
      /\ ListsParts(m', other', given', Climbed \cup {b})
      /\ (broken' = TRUE /\ pc' = "done") \/ (broken' = FALSE /\ pc' = pc)
  BY <1>1, <1>6, <1>7, YieldsPart
<1>9. Ahead' = Ahead /\ LeadingOnes(m'.mask) = p /\ LeadingOnes(other'.mask) = q
  BY <1>1 DEF Ahead, p, q
<1>10. bits' = bits - 1 /\ bits' \in p .. q /\ bits' \in 0 .. W
  BY <1>1, <1>3, <1>4
<1>11. Climbed' = Climbed \cup {b}
  <2>1. Climbed = {i \in Ahead : i < W - bits}
    BY <1>1 DEF Climbed
  <2>2. Climbed' = {i \in Ahead : i < W - (bits - 1)}
    BY <1>1, <1>9, <1>10 DEF Climbed
  <2>3. \A i \in Ahead : i < W - (bits - 1) <=> i < W - bits \/ i = b
    BY <1>1, <1>4, <1>5
  <2> QED
    BY <1>6, <2>1, <2>2, <2>3
<1>12. TypeOK'
  BY <1>1, <1>8, <1>10 DEF TypeOK
<1>13. Climbing'
  BY <1>1, <1>8, <1>9, <1>10, <1>11 DEF Climbing
<1>14. Ended'
  <2>1. Climbed \cup {b} \in SUBSET Ahead'
    BY <1>1, <1>6, <1>9
  <2> QED
    BY <1>1, <1>8, <2>1 DEF Ended
<1>15. OneMore
  <2>1. Behind = Climbed /\ Behind' = Climbed'
    BY <1>1 DEF Behind, PeelOps, LadderOps
  <2>2. \A j \in Ahead \ Climbed : IF TopFirst THEN j <= b ELSE b <= j
    BY <1>1, <1>4, <1>5 DEF TopFirst, Climbed
  <2> QED
    BY <1>1, <1>6, <1>7, <1>11, <2>1, <2>2 DEF OneMore
<1> QED
  BY <1>1, <1>8, <1>12, <1>13, <1>14, <1>15 DEF DInv, CalledOnBlocks, NotStarted, Peeling

(* At the other end of the ladder every pending bit has had its rung.      *)
LEMMA ReturnLadderKeeps == ASSUME DInv, ReturnLadder PROVE DInv' /\ Climbed = Ahead
<1> USE DEF ReturnLadder, Return
<1> DEFINE p == LeadingOnes(m.mask)
           q == LeadingOnes(other.mask)
<1>1. /\ TypeOK /\ CalledOnBlocks /\ pc = "ladder" /\ pc' = "done"
      /\ Intersects(m, other)
      /\ PrefixLen(m) = {p} /\ PrefixLen(other) = {q}
      /\ p \in 0 .. W /\ q \in 0 .. W
      /\ ListsParts(m, other, given, Climbed)
      /\ Ahead = {i \in Bits : W - q <= i /\ i < W - p}
      /\ UNCHANGED <<op, m, other, addr, mask, remaining, bits, given, broken>>
  BY OnLadder
<1> HIDE DEF p, q
<1>2. bits = IF op = "ContiguousDifference" THEN q ELSE p
  BY <1>1
<1>3. Climbed = Ahead
  BY <1>1, <1>2, WAssumption DEF Climbed, Bits
<1>4. TypeOK'
  BY <1>1 DEF TypeOK
<1>5. Ended'
  BY <1>1, <1>3 DEF Ended, Ahead
<1> QED
  BY <1>1, <1>3, <1>4, <1>5 DEF DInv, CalledOnBlocks, NotStarted, Peeling, Climbing

-----------------------------------------------------------------------------
(* Whatever the method, the phase and the consumer's breaks, the list      *)
(* yielded is the parts of the bits behind, each once (net4.go:600,        *)
(* contiguous.go:441).                                                     *)
THEOREM YieldsFollowThePhase == Spec => []DInv
<1>1. Init => DInv
  <2> SUFFICES ASSUME Init PROVE DInv
    OBVIOUS
  <2>1. TypeOK
    <3>1. {} \in Word /\ 0 \in 0 .. W
      BY WAssumption DEF Word
    <3>2. <<>> \in Seq(Network)
      OBVIOUS
    <3>3. given = <<>> /\ broken = FALSE /\ pc = "start"
      BY DEF Init
    <3>4. given \in Seq(Network) /\ broken \in BOOLEAN /\ pc \in {"start", "peel", "ladder", "done"}
      BY <3>2, <3>3, Zenon
    <3> QED
      BY <3>1, <3>4, Zenon DEF Init, TypeOK
  <2>2. CalledOnBlocks /\ NotStarted
    BY DEF Init, CalledOnBlocks, NotStarted
  <2>3. Peeling /\ Climbing /\ Ended
    BY DEF Init, Peeling, Climbing, Ended
  <2> QED
    BY <2>1, <2>2, <2>3 DEF DInv
<1>2. DInv /\ [Next]_vars => DInv'
  <2> SUFFICES ASSUME DInv, [Next]_vars PROVE DInv'
    OBVIOUS
  <2>1. CASE YieldReceiver
    BY <2>1, YieldReceiverKeeps
  <2>2. CASE StartPeel
    BY <2>2, StartPeelKeeps
  <2>3. CASE PeelHighest
    BY <2>3, PeelHighestKeeps
  <2>4. CASE PeelLowest
    BY <2>4, PeelLowestKeeps
  <2>5. CASE ReturnPeeled
    BY <2>5, ReturnPeeledKeeps
  <2>6. CASE ReturnContained
    BY <2>6, ReturnContainedKeeps
  <2>7. CASE StartLadder
    BY <2>7, StartLadderKeeps
  <2>8. CASE Climb
    BY <2>8, ClimbKeeps
  <2>9. CASE Descend
    BY <2>9, DescendKeeps
  <2>10. CASE ReturnLadder
    BY <2>10, ReturnLadderKeeps
  <2>11. CASE UNCHANGED vars
    BY <2>11 DEF vars, DInv, TypeOK, CalledOnBlocks, NotStarted, Peeling, Climbing, Ended, Climbed, Ahead
  <2> QED
    BY <2>1, <2>2, <2>3, <2>4, <2>5, <2>6, <2>7, <2>8, <2>9, <2>10, <2>11 DEF Next
<1> QED
  BY <1>1, <1>2, PTL DEF Spec

(* The receiver itself, yielded when nothing is taken from it.             *)
LEMMA ReceiverKept ==
  ASSUME NEW n \in Network, NEW o \in Network, IsDisjoint(n, o)
  PROVE  Addrs(n) = Addrs(n) \ Addrs(o)
BY Overlap

(* In every state, in whatever phase and whether the consumer broke or     *)
(* not, what has been yielded is disjoint and inside the difference        *)
(* (net4.go:603).                                                          *)
THEOREM PartsStayDisjoint == Spec => []PartsDisjoint
<1>1. DInv => PartsDisjoint
  <2> SUFFICES ASSUME DInv PROVE PartsDisjoint
    OBVIOUS
  <2>1. m \in Network /\ other \in Network /\ given \in Seq(Network) /\ TypeOK
    BY DEF DInv, TypeOK
  <2>2. CASE given = <<>>
    BY <2>2 DEF PartsDisjoint
  <2>3. CASE IsDisjoint(m, other) /\ given = <<m>>
    BY <2>1, <2>3, ReceiverKept DEF PartsDisjoint, Left
  <2>4. CASE Intersects(m, other) /\ \E S \in SUBSET Ahead : ListsParts(m, other, given, S)
    BY <2>1, <2>4, ListedParts DEF PartsDisjoint, Left, Ahead
  <2>5. CASE pc = "ladder"
    BY <2>4, <2>5, OnLadder
  <2>6. CASE pc = "peel"
    <3>1. Intersects(m, other) /\ ListsParts(m, other, given, Ahead \ remaining)
      BY <2>6 DEF DInv, Peeling
    <3>2. Ahead \ remaining \in SUBSET Ahead
      OBVIOUS
    <3> QED
      BY <2>4, <3>1, <3>2
  <2> QED
    BY <2>1, <2>2, <2>3, <2>4, <2>5, <2>6 DEF DInv, TypeOK, NotStarted, Ended
<1> QED
  BY <1>1, YieldsFollowThePhase, PTL

(* A sequence that was not broken off has yielded all of the difference    *)
(* (net4.go:600).                                                          *)
THEOREM DifferenceIsComplete == Spec => []DifferenceComplete
<1>1. DInv => DifferenceComplete
  <2> SUFFICES ASSUME DInv, pc = "done", ~broken
               PROVE  UNION {Addrs(given[k]) : k \in DOMAIN given} = Left
    BY DEF DifferenceComplete
  <2>1. m \in Network /\ other \in Network /\ given \in Seq(Network)
    BY DEF DInv, TypeOK
  <2>2. CASE IsDisjoint(m, other) /\ given = <<m>>
    BY <2>1, <2>2, ReceiverKept DEF Left
  <2>3. CASE Intersects(m, other) /\ ListsParts(m, other, given, Ahead)
    BY <2>1, <2>3, ListedParts DEF Left, Ahead
  <2> QED
    BY <2>2, <2>3 DEF DInv, Ended
<1> QED
  BY <1>1, YieldsFollowThePhase, PTL

-----------------------------------------------------------------------------
(* The class of the parts                                                  *)

(* The mask of a part is the receiver's, grown by the pending bits down to *)
(* its own.  Above a bit of a CIDR mask all bits are fixed, so the grown   *)
(* mask is a leading run again; in each half of a bi-contiguous mask the   *)
(* same holds up to the top of the half.                                   *)
LEMMA PartKeepsClass ==
  ASSUME NEW n \in Network, NEW o \in Network, NEW b \in Pending(n, o)
  PROVE  /\ IsContiguous(n) /\ IsContiguous(o) => IsContiguous(PartOf(n, o, b))
         /\ IsBicontiguous(n) /\ IsBicontiguous(o) => IsBicontiguous(PartOf(n, o, b))
<1> DEFINE fixed == n.mask \cup {i \in Pending(n, o) : i >= b}
<1>1. /\ n.mask \in Word /\ o.mask \in Word
      /\ \A i : i \in Pending(n, o) <=> i \in o.mask /\ i \notin n.mask
  BY NetworkFields DEF Pending
<1>2. Bits \subseteq Int /\ n.mask \subseteq Bits /\ o.mask \subseteq Bits
  BY <1>1, WAssumption DEF Bits, Word
<1>3. fixed \in Word /\ PartOf(n, o, b).mask = fixed /\ b \in Int
  BY <1>1, <1>2 DEF Word, PartOf, FromBits
<1>4. ASSUME IsContiguous(n), IsContiguous(o) PROVE IsContiguous(PartOf(n, o, b))
  <2>1. /\ \A i \in Bits \ n.mask : \A j \in n.mask : ~(j < i)
        /\ \A i \in Bits \ o.mask : \A j \in o.mask : ~(j < i)
    BY <1>1, <1>4, ContiguousIsUpward DEF IsContiguous
  <2>2. ASSUME NEW i \in Bits \ fixed, NEW j \in fixed, j < i PROVE FALSE
    <3>1. i \in Bits /\ i \notin n.mask /\ j < i
      BY <2>2
    <3>2. j \notin n.mask
      BY <2>1, <3>1
    <3>3. j \in o.mask /\ j >= b
      BY <1>1, <2>2, <3>2
    <3>4. i \in Pending(n, o)
      BY <1>1, <2>1, <3>1, <3>3
    <3>5. i \in Int /\ j \in Int /\ b \in Int
      BY <1>2, <1>3, <3>1, <3>3
    <3>6. i >= b
      BY <3>1, <3>3, <3>5
    <3> QED
      BY <2>2, <3>4, <3>6
  <2>3. fixed \cup SubOne(fixed) = Bits
    BY <1>3, <2>2, ContiguousIsUpward
  <2> QED
    BY <1>3, <2>3 DEF IsContiguous
<1>5. ASSUME IsBicontiguous(n), IsBicontiguous(o) PROVE IsBicontiguous(PartOf(n, o, b))
  <2>1. ASSUME NEW i \in fixed, i + 1 \notin fixed PROVE i \in {W - 1, LowW - 1}
    <3>1. CASE i \in n.mask
      BY <1>5, <2>1, <3>1 DEF IsBicontiguous
    <3>2. CASE i \notin n.mask
      <4>1. i \in o.mask /\ i >= b /\ i \in Int
        BY <1>1, <1>2, <2>1, <3>2
      <4>2. i + 1 >= b
        BY <1>3, <4>1
      <4>3. i + 1 \notin o.mask
        BY <1>1, <2>1, <4>2
      <4> QED
        BY <1>5, <4>1, <4>3 DEF IsBicontiguous
    <3> QED
      BY <3>1, <3>2
  <2> QED
    BY <1>3, <2>1 DEF IsBicontiguous
<1> QED
  BY <1>4, <1>5

(* Every yield of every method stays in the class both operands share,     *)
(* which the wrappers rely on when they wrap a part unchecked              *)
(* (contiguous.go:441, bicontiguous.go:228).                               *)
THEOREM PartsStayBlocks == Spec => []PartsStayInClass
<1>1. DInv => PartsStayInClass
  <2> SUFFICES ASSUME DInv PROVE PartsStayInClass
    OBVIOUS
  <2>1. m \in Network /\ other \in Network /\ given \in Seq(Network) /\ TypeOK
    BY DEF DInv, TypeOK
  <2>2. CASE given = <<>>
    BY <2>1, <2>2 DEF PartsStayInClass
  <2>3. CASE given = <<m>>
    BY <2>1, <2>3 DEF PartsStayInClass
  <2>4. CASE \E S \in SUBSET Ahead : ListsParts(m, other, given, S)
    BY <2>1, <2>4, PartKeepsClass DEF PartsStayInClass, ListsParts, Ahead
  <2>5. CASE pc = "ladder"
    <3>1. Climbed \in SUBSET Ahead /\ ListsParts(m, other, given, Climbed)
      BY <2>5, OnLadder
    <3> QED
      BY <2>4, <3>1
  <2>6. CASE pc = "peel"
    <3>1. ListsParts(m, other, given, Ahead \ remaining)
      BY <2>6 DEF DInv, Peeling
    <3> QED
      BY <2>4, <3>1
  <2> QED
    BY <2>1, <2>2, <2>3, <2>4, <2>5, <2>6 DEF DInv, TypeOK, NotStarted, Ended
<1> QED
  BY <1>1, YieldsFollowThePhase, PTL
-----------------------------------------------------------------------------
(* No cover has fewer networks than there are parts                        *)

LEMMA NetworksAreFinite == IsFiniteSet(Network)
<1> DEFINE f == [n \in Network |-> <<n.addr, n.mask>>]
<1>1. IsFiniteSet(Word)
  <2>1. IsFiniteSet(Bits)
    BY WAssumption, FS_Interval DEF Bits
  <2> QED
    BY <2>1, FS_SUBSET DEF Word
<1>2. IsFiniteSet(Word \X Word)
  BY <1>1, FS_Product
<1>3. \A n \in Network : n.addr \in Word /\ n.mask \in Word /\ n = [addr |-> n.addr, mask |-> n.mask]
  BY NetworkFields
<1>4. f \in [Network -> Word \X Word]
  BY <1>3
<1>5. ASSUME NEW n \in Network, NEW o \in Network, f[n] = f[o] PROVE n = o
  <2>1. n.addr = o.addr /\ n.mask = o.mask
    BY <1>5
  <2> QED
    BY <1>3, <2>1, Zenon
<1> HIDE DEF f
<1>6. f \in Injection(Network, Word \X Word)
  BY <1>4, <1>5 DEF Injection, IsInjective
<1> QED
  BY <1>2, <1>6, FS_Injection

(* The address of the overlap with one pending bit turned is left over,    *)
(* and a network that names two of these names the overlap too.            *)
LEMMA WitnessLeft ==
  ASSUME NEW n \in Network, NEW o \in Network, Intersects(n, o)
  PROVE  /\ \A b \in Pending(n, o) : Xor(n.addr \cup o.addr, {b}) \in Addrs(n) \ Addrs(o)
         /\ \A u \in Network : \A b, c \in Pending(n, o) :
              /\ b # c
              /\ Xor(n.addr \cup o.addr, {b}) \in Addrs(u)
              /\ Xor(n.addr \cup o.addr, {c}) \in Addrs(u)
              => ~(Addrs(u) \subseteq Addrs(n) \ Addrs(o))
<1> DEFINE x == n.addr \cup o.addr
<1>1. /\ n.addr \in Word /\ n.mask \in Word /\ n.addr \subseteq n.mask
      /\ o.addr \in Word /\ o.mask \in Word /\ o.addr \subseteq o.mask
  BY NetworkFields
<1>2. n.addr \cap o.mask = o.addr \cap n.mask
  BY Overlap
<1>3. x \in Word /\ x \cap n.mask = n.addr /\ x \cap o.mask = o.addr
  BY <1>1, <1>2 DEF Word
<1>4. Pending(n, o) = o.mask \ n.mask
  BY DEF Pending
<1> HIDE DEF x
<1>5. ASSUME NEW b \in Pending(n, o) PROVE Xor(x, {b}) \in Addrs(n) \ Addrs(o)
  <2>1. Xor(x, {b}) \in Word
    BY <1>1, <1>3, <1>4 DEF Word, Xor
  <2>2. Xor(x, {b}) \cap n.mask = n.addr
    BY <1>3, <1>4 DEF Xor
  <2>3. ~(b \in Xor(x, {b}) <=> b \in o.addr)
    BY <1>3, <1>4 DEF Xor
  <2> DEFINE w == Xor(x, {b})
  <2> HIDE DEF w
  <2>4. w \in Word /\ w \cap n.mask = n.addr /\ ~(b \in w <=> b \in o.addr)
    BY <2>1, <2>2, <2>3 DEF w
  <2>5. w \in Addrs(n) \ Addrs(o)
    BY <2>4, InLeft
  <2> QED
    BY <2>5 DEF w
<1>6. ASSUME NEW u \in Network, NEW b \in Pending(n, o), NEW c \in Pending(n, o), b # c,
             Xor(x, {b}) \in Addrs(u), Xor(x, {c}) \in Addrs(u),
             Addrs(u) \subseteq Addrs(n) \ Addrs(o)
      PROVE  FALSE
  <2>1. Xor(x, {b}) \cap u.mask = u.addr /\ Xor(x, {c}) \cap u.mask = u.addr
    BY <1>6 DEF Addrs
  <2>2. b \notin u.mask
    BY <1>6, <2>1 DEF Xor
  <2>3. x \cap u.mask = u.addr
    BY <2>1, <2>2 DEF Xor
  <2>4. x \in Addrs(u) /\ x \in Addrs(o)
    BY <1>3, <2>3 DEF Addrs
  <2> QED
    BY <1>6, <2>4
<1> QED
  BY <1>5, <1>6 DEF x

(* FewestParts of DifferenceWalk (net4.go:607): the parts a sequence has   *)
(* yielded when it returns are no more than any set of networks, of any    *)
(* shape, whose union is the difference.                                   *)
THEOREM PartsAreFewest == Spec => []FewestParts
<1>1. DInv => FewestParts
  <2> SUFFICES ASSUME DInv, pc = "done",
                      NEW cover \in SUBSET {n \in Network : Addrs(n) \subseteq Left},
                      Cardinality(cover) < Len(given),
                      UNION {Addrs(n) : n \in cover} = Left
               PROVE  FALSE
    BY DEF FewestParts
  <2>1. m \in Network /\ other \in Network /\ given \in Seq(Network)
    BY DEF DInv, TypeOK
  <2>2. IsFiniteSet(cover) /\ Cardinality(cover) \in Nat
    BY NetworksAreFinite, FS_Subset, FS_CardinalityType
  <2>3. CASE IsDisjoint(m, other) /\ given = <<m>>
    <3>1. Cardinality(cover) = 0
      BY <2>2, <2>3
    <3>2. cover = {}
      BY <2>2, <3>1, FS_EmptySet
    <3>3. m.addr \in Addrs(m) /\ m.addr \notin Addrs(other)
      BY <2>1, <2>3, AddrOfItself, Overlap
    <3> QED
      BY <3>2, <3>3 DEF Left
  <2>4. ASSUME Intersects(m, other), NEW S \in SUBSET Ahead, ListsParts(m, other, given, S)
        PROVE  FALSE
    <3> DEFINE bit == [k \in DOMAIN given |->
                         CHOOSE b \in S : given[k] = PartOf(m, other, b)]
               witness(b) == Xor(m.addr \cup other.addr, {b})
               f == [k \in DOMAIN given |-> CHOOSE n \in cover : witness(bit[k]) \in Addrs(n)]
    <3>1. \A k \in DOMAIN given :
            bit[k] \in Pending(m, other) /\ given[k] = PartOf(m, other, bit[k])
      BY <2>4 DEF ListsParts, Ahead
    <3>2. \A j, k \in DOMAIN given : j # k => bit[j] # bit[k]
      <4> HIDE DEF bit
      <4> QED
        BY <2>4, <3>1 DEF ListsParts
    <3> HIDE DEF bit
    <3>3. ASSUME NEW k \in DOMAIN given
          PROVE  f[k] \in cover /\ witness(bit[k]) \in Addrs(f[k])
      <4>1. witness(bit[k]) \in Left
        BY <2>1, <2>4, <3>1, WitnessLeft DEF Left
      <4>2. \E n \in cover : witness(bit[k]) \in Addrs(n)
        BY <4>1
      <4> HIDE DEF witness
      <4> QED
        BY <4>2
    <3>4. f \in [DOMAIN given -> cover]
      BY <3>3
    <3> HIDE DEF f
    <3>5. IsFiniteSet(DOMAIN given) /\ Cardinality(DOMAIN given) = Len(given)
      <4>1. DOMAIN given = 1 .. Len(given) /\ Len(given) \in Nat
        BY <2>1
      <4>2. \A len \in Nat : IsFiniteSet(1 .. len) /\ Cardinality(1 .. len) = len
        BY FS_Interval
      <4> QED
        BY <4>1, <4>2
    <3>6. PICK j, k \in DOMAIN given : j # k /\ f[j] = f[k]
      BY <2>2, <3>4, <3>5, FS_PigeonHole
    <3>7. f[j] \in Network /\ Addrs(f[j]) \subseteq Addrs(m) \ Addrs(other)
      BY <3>3 DEF Left
    <3>8. /\ bit[j] \in Pending(m, other) /\ bit[k] \in Pending(m, other) /\ bit[j] # bit[k]
          /\ Xor(m.addr \cup other.addr, {bit[j]}) \in Addrs(f[j])
          /\ Xor(m.addr \cup other.addr, {bit[k]}) \in Addrs(f[j])
      BY <3>1, <3>2, <3>3, <3>6, Zenon
    <3> QED
      BY <2>1, <2>4, <3>7, <3>8, WitnessLeft, Zenon
  <2> QED
    BY <2>3, <2>4 DEF DInv, Ended
<1> QED
  BY <1>1, YieldsFollowThePhase, PTL
-----------------------------------------------------------------------------
(* The order of the yields                                                 *)

(* The pending bits yielded up to and with b.                              *)
UpTo(b) == {c \in Ahead : IF TopFirst THEN c >= b ELSE c <= b}

(* In the order of the method, all of S comes before the rest.             *)
ComeFirst(S) ==
  S \subseteq Ahead /\ \A i \in S, j \in Ahead \ S : IF TopFirst THEN j < i ELSE i < j

LEMMA AheadFinite ==
  ASSUME TypeOK
  PROVE  Ahead \subseteq Nat /\ IsFiniteSet(Ahead) /\ Cardinality(Ahead) \in Nat
<1>1. m.mask \in Word /\ other.mask \in Word
  BY NetworkFields DEF TypeOK
<1>2. Ahead \subseteq 0 .. (W - 1) /\ IsFiniteSet(0 .. (W - 1))
  BY <1>1, WAssumption, FS_Interval DEF Ahead, Pending, Word, Bits
<1>3. IsFiniteSet(Ahead)
  BY <1>2, FS_Subset
<1> QED
  BY <1>2, <1>3, FS_CardinalityType

(* A bit stands where the number of bits up to it says.                    *)
LEMMA PeeledIs ==
  ASSUME TypeOK
  PROVE  /\ Peeled \in Seq(Ahead) /\ Len(Peeled) = Cardinality(Ahead)
         /\ \A b \in Ahead : /\ Cardinality(UpTo(b)) \in 1 .. Cardinality(Ahead)
                             /\ Peeled[Cardinality(UpTo(b))] = b
<1> DEFINE N == Cardinality(Ahead)
<1>1. Ahead \subseteq Nat /\ IsFiniteSet(Ahead) /\ N \in Nat
  BY AheadFinite
<1>2. \A b \in Ahead : b \in UpTo(b) /\ UpTo(b) \in SUBSET Ahead
  BY <1>1 DEF UpTo
<1>3. ASSUME NEW b \in Ahead
      PROVE  IsFiniteSet(UpTo(b)) /\ Cardinality(UpTo(b)) \in 1 .. N
  <2>1. IsFiniteSet(UpTo(b)) /\ Cardinality(UpTo(b)) <= N
    BY <1>1, <1>2, FS_Subset
  <2>2. Cardinality(UpTo(b)) \in Nat /\ Cardinality(UpTo(b)) # 0
    BY <1>2, <2>1, FS_CardinalityType, FS_EmptySet
  <2> QED
    BY <1>1, <2>1, <2>2
<1>4. ASSUME NEW b \in Ahead, NEW c \in Ahead, IF TopFirst THEN b > c ELSE b < c
      PROVE  Cardinality(UpTo(b)) # Cardinality(UpTo(c))
  <2>1. b \in Nat /\ c \in Nat
    BY <1>1
  <2>2. c \notin UpTo(b)
    BY <1>4, <2>1 DEF UpTo
  <2>3. ASSUME NEW i \in UpTo(b) PROVE i \in UpTo(c)
    <3>1. i \in Nat /\ i \in Ahead
      BY <1>1, <2>3 DEF UpTo
    <3>2. CASE TopFirst
      BY <1>4, <2>1, <2>3, <3>1, <3>2 DEF UpTo
    <3>3. CASE ~TopFirst
      BY <1>4, <2>1, <2>3, <3>1, <3>3 DEF UpTo
    <3> QED
      BY <3>2, <3>3
  <2> QED
    BY <1>2, <1>3, <2>2, <2>3, FS_Subset
<1>5. ASSUME NEW b \in Ahead, NEW c \in Ahead, b # c
      PROVE  Cardinality(UpTo(b)) # Cardinality(UpTo(c))
  <2>1. b > c \/ b < c
    BY <1>1, <1>5
  <2> QED
    BY <1>4, <2>1
<1>6. Peeled = [k \in 1 .. N |-> CHOOSE b \in Ahead : k = Cardinality(UpTo(b))]
  BY DEF Peeled, Ahead, UpTo, TopFirst
<1> HIDE DEF N
<1>7. ASSUME NEW b \in Ahead PROVE Peeled[Cardinality(UpTo(b))] = b
  <2>1. Cardinality(UpTo(b)) \in 1 .. N
    BY <1>3
  <2>2. Peeled[Cardinality(UpTo(b))] =
          CHOOSE c \in Ahead : Cardinality(UpTo(b)) = Cardinality(UpTo(c))
    BY <1>6, <2>1
  <2> QED
    BY <1>5, <2>2
<1>8. \A k \in 1 .. N : Peeled[k] \in Ahead
  <2> DEFINE count == [b \in Ahead |-> Cardinality(UpTo(b))]
  <2>1. count \in Injection(Ahead, 1 .. N)
    <3>1. count \in [Ahead -> 1 .. N]
      BY <1>3
    <3>2. \A b, c \in Ahead : count[b] = count[c] => b = c
      BY <1>5
    <3> QED
      BY <3>1, <3>2 DEF Injection, IsInjective
  <2>2. IsFiniteSet(1 .. N) /\ Cardinality(1 .. N) = N
    <3>1. \A k \in Nat : IsFiniteSet(1 .. k) /\ Cardinality(1 .. k) = k
      BY FS_Interval
    <3> QED
      BY <1>1, <3>1
  <2>3. count \in Surjection(Ahead, 1 .. N)
    BY <2>1, <2>2, FS_Injection DEF N
  <2>4. ASSUME NEW k \in 1 .. N PROVE \E b \in Ahead : k = Cardinality(UpTo(b))
    BY <2>3 DEF Surjection
  <2> HIDE DEF count
  <2>5. ASSUME NEW k \in 1 .. N PROVE Peeled[k] \in Ahead
    <3>1. Peeled[k] = CHOOSE b \in Ahead : k = Cardinality(UpTo(b))
      BY <1>6
    <3> QED
      BY <2>4, <3>1
  <2> QED
    BY <2>5
<1>9. Peeled \in Seq(Ahead) /\ Len(Peeled) = N
  BY <1>1, <1>6, <1>8
<1> QED
  BY <1>3, <1>7, <1>9 DEF N

(* The parts, in that order.                                               *)
LEMMA WantIs ==
  ASSUME TypeOK, Intersects(m, other)
  PROVE  /\ Want \in Seq(Network) /\ Len(Want) = Cardinality(Ahead)
         /\ \A b \in Ahead : /\ Cardinality(UpTo(b)) \in 1 .. Len(Want)
                             /\ Want[Cardinality(UpTo(b))] = PartOf(m, other, b)
<1>1. m \in Network /\ other \in Network /\ ~IsDisjoint(m, other)
  BY DEF TypeOK, IsDisjoint
<1>2. /\ Peeled \in Seq(Ahead) /\ Len(Peeled) = Cardinality(Ahead) /\ Cardinality(Ahead) \in Nat
      /\ \A b \in Ahead : /\ Cardinality(UpTo(b)) \in 1 .. Cardinality(Ahead)
                          /\ Peeled[Cardinality(UpTo(b))] = b
  BY PeeledIs, AheadFinite
<1>3. Want = [k \in DOMAIN Peeled |-> PartOf(m, other, Peeled[k])]
  BY <1>1 DEF Want
<1>4. DOMAIN Peeled = 1 .. Cardinality(Ahead) /\ \A k \in DOMAIN Peeled : Peeled[k] \in Ahead
  BY <1>2
<1>5. \A b \in Ahead : PartOf(m, other, b) \in Network
  BY <1>1, InPart DEF Ahead
<1>6. Want \in Seq(Network) /\ Len(Want) = Cardinality(Ahead)
  BY <1>2, <1>3, <1>4, <1>5
<1>7. ASSUME NEW b \in Ahead PROVE Want[Cardinality(UpTo(b))] = PartOf(m, other, b)
  BY <1>2, <1>3, <1>4
<1> QED
  BY <1>2, <1>6, <1>7

(* The first bit of the rest is the next one of the order.                 *)
LEMMA NextBit ==
  ASSUME TypeOK, NEW S, ComeFirst(S), NEW b \in Ahead \ S, ComeFirst(S \cup {b})
  PROVE  UpTo(b) = S \cup {b} /\ Cardinality(UpTo(b)) = Cardinality(S) + 1
<1>1. Ahead \subseteq Nat /\ IsFiniteSet(Ahead)
  BY AheadFinite
<1>2. UpTo(b) = S \cup {b}
  <2>1. ASSUME NEW c \in Ahead PROVE c \in UpTo(b) <=> c \in S \cup {b}
    <3>1. b \in Nat /\ c \in Nat
      BY <1>1
    <3>2. c \in S => IF TopFirst THEN b < c ELSE c < b
      BY DEF ComeFirst
    <3>3. c \notin S \cup {b} => IF TopFirst THEN c < b ELSE b < c
      BY DEF ComeFirst
    <3> QED
      BY <3>1, <3>2, <3>3 DEF UpTo
  <2> QED
    BY <2>1 DEF UpTo, ComeFirst
<1>3. IsFiniteSet(S)
  BY <1>1, FS_Subset DEF ComeFirst
<1> QED
  BY <1>2, <1>3, FS_AddElement

(* What has been yielded is the promised list as far as it goes.           *)
SoFar(S) ==
  /\ Len(given) = Cardinality(S)
  /\ \A k \in 1 .. Len(given) : given[k] = Want[k]

(* The inductive invariant of the refinement.                              *)
OInv == DInv /\ (pc \in {"peel", "ladder"} => SoFar(Behind))

LEMMA BehindComesFirst ==
  ASSUME DInv, pc \in {"peel", "ladder"}
  PROVE  ComeFirst(Behind) /\ Intersects(m, other) /\ TypeOK
<1>1. TypeOK
  BY DEF DInv
<1>2. CASE pc = "peel"
  <2>1. /\ op \in PeelOps /\ Intersects(m, other) /\ remaining \subseteq Ahead
        /\ op = "Difference" => \A i \in Ahead \ remaining, j \in remaining : j < i
        /\ op = "DifferenceBackward" => \A i \in Ahead \ remaining, j \in remaining : i < j
    BY <1>2 DEF DInv, Peeling
  <2>2. Behind = Ahead \ remaining /\ Ahead \ Behind = remaining
    BY <2>1 DEF Behind
  <2>3. CASE op = "Difference"
    BY <1>1, <2>1, <2>2, <2>3 DEF ComeFirst, TopFirst
  <2>4. CASE op = "DifferenceBackward"
    BY <1>1, <2>1, <2>2, <2>4 DEF ComeFirst, TopFirst
  <2> QED
    BY <1>1, <2>1, <2>3, <2>4 DEF PeelOps
<1>3. CASE pc = "ladder"
  <2>1. op \in LadderOps /\ Intersects(m, other) /\ bits \in Int
    BY <1>3, OnLadder
  <2>2. Behind = Climbed /\ W \in Int /\ Ahead \subseteq Nat
    BY <1>1, <2>1, WAssumption, AheadFinite DEF Behind, PeelOps, LadderOps
  <2>3. CASE op = "ContiguousDifference"
    BY <1>1, <2>1, <2>2, <2>3 DEF ComeFirst, TopFirst, Climbed
  <2>4. CASE op = "ContiguousDifferenceBackward"
    BY <1>1, <2>1, <2>2, <2>4 DEF ComeFirst, TopFirst, Climbed
  <2> QED
    BY <1>1, <2>1, <2>3, <2>4 DEF LadderOps
<1> QED
  BY <1>2, <1>3

(* A further part is the next one promised.                                *)
LEMMA YieldNext ==
  ASSUME OInv, pc \in {"peel", "ladder"}, OneMore
  PROVE  Abstract!Yield /\ SoFar(Behind)'
<1>1. /\ TypeOK /\ DInv /\ Intersects(m, other) /\ ComeFirst(Behind) /\ SoFar(Behind)
      /\ given \in Seq(Network)
  BY BehindComesFirst DEF OInv, TypeOK
<1>2. PICK b \in Ahead \ Behind :
        /\ \A j \in Ahead \ Behind : IF TopFirst THEN j <= b ELSE b <= j
        /\ Yield(PartOf(m, other, b)) /\ Behind' = Behind \cup {b} /\ UNCHANGED <<op, m, other>>
  BY DEF OneMore
<1> DEFINE part == PartOf(m, other, b)
<1>3. Want' = Want
  BY <1>2 DEF Want, Peeled
<1>4. ComeFirst(Behind \cup {b})
  <2>1. Ahead \subseteq Nat
    BY <1>1, AheadFinite
  <2> QED
    BY <1>1, <1>2, <2>1 DEF ComeFirst
<1>5. Abstract!Yield /\ SoFar(Behind)'
  <2>1. Cardinality(UpTo(b)) = Cardinality(Behind) + 1 /\ UpTo(b) = Behind \cup {b}
    BY <1>1, <1>2, <1>4, NextBit
  <2>2. /\ Want[Len(given) + 1] = part /\ Len(given) + 1 \in 1 .. Len(Want)
        /\ Want \in Seq(Network)
    BY <1>1, <1>2, <2>1, WantIs DEF SoFar
  <2>3. part \in Network /\ Len(given) \in Nat /\ Len(Want) \in Nat
    BY <1>1, <1>2, <2>2, InPart DEF TypeOK, Ahead
  <2>4. given' = Append(given, part)
    BY <1>2 DEF Yield
  <2> HIDE DEF part
  <2>5. Abstract!Yield
    <3>1. (broken' = TRUE /\ pc' = "done") \/ (broken' = FALSE /\ pc' = pc)
      BY <1>2 DEF Yield
    <3>2. pc # "done"
      OBVIOUS
    <3>3. Len(given) < Len(Want) /\ given' = Append(given, Want[Len(given) + 1])
      BY <2>2, <2>3, <2>4
    <3> QED
      BY <1>3, <3>1, <3>2, <3>3 DEF Abstract!Yield
  <2>6. /\ Len(given') = Cardinality(Behind \cup {b})
        /\ \A k \in 1 .. Len(given') : given'[k] = Want[k]
    <3>1. Len(given') = Len(given) + 1
      BY <1>1, <2>3, <2>4
    <3>2. ASSUME NEW k \in 1 .. Len(given') PROVE given'[k] = Want[k]
      <4>1. CASE k = Len(given) + 1
        BY <1>1, <2>2, <2>3, <2>4, <4>1
      <4>2. CASE k # Len(given) + 1
        <5>1. k \in 1 .. Len(given)
          BY <2>3, <3>1, <3>2, <4>2
        <5> QED
          BY <1>1, <2>3, <2>4, <5>1 DEF SoFar
      <4> QED
        BY <4>1, <4>2
    <3> QED
      BY <1>1, <2>1, <3>1, <3>2 DEF SoFar
  <2> QED
    BY <1>2, <1>3, <2>5, <2>6 DEF SoFar
<1> QED
  BY <1>5

(* Equal lists.                                                            *)
LEMMA AllYielded ==
  ASSUME TypeOK, Intersects(m, other), SoFar(Ahead)
  PROVE  given = Want
<1>1. given \in Seq(Network) /\ Want \in Seq(Network) /\ Len(given) = Len(Want)
  BY WantIs DEF SoFar, TypeOK
<1> QED
  BY <1>1, SeqEqual DEF SoFar

(* A method called on one of two nested blocks, or on what has no pending  *)
(* bit, starts with nothing behind.                                        *)
LEMMA NothingSoFar == given = <<>> => SoFar({})
<1> SUFFICES ASSUME given = <<>> PROVE SoFar({})
  OBVIOUS
<1>1. Len(given) = 0 /\ Cardinality({}) = 0
  BY FS_EmptySet
<1>2. \A k \in 1 .. 0 : FALSE
  OBVIOUS
<1> QED
  BY <1>1, <1>2 DEF SoFar

(* Every step keeps the invariant and is a step of the promise.            *)
LEMMA StepKeeps ==
  ASSUME OInv, [Next]_vars
  PROVE  OInv' /\ [Abstract!Next]_(Abstract!vars)
<1>0. TypeOK /\ DInv /\ m \in Network /\ other \in Network
  BY DEF OInv, DInv, TypeOK
<1>1. ASSUME UNCHANGED <<op, m, other>> PROVE Want' = Want /\ Ahead' = Ahead
  BY <1>1 DEF Want, Peeled, Ahead
<1>2. CASE YieldReceiver
  <2>1. DInv' /\ given = <<>> /\ pc = "start" /\ pc' = "done" /\ given' = <<m>>
    BY <1>0, <1>2, YieldReceiverKeeps DEF YieldReceiver, DInv, NotStarted
  <2>2. IsDisjoint(m, other)
    BY <1>0, <1>2, Nested DEF YieldReceiver, DInv, CalledOnBlocks, IsDisjoint
  <2>3. Want = <<m>> /\ Want' = Want
    BY <1>1, <1>2, <2>2 DEF Want, YieldReceiver
  <2>4. Abstract!Yield
    <3>1. Len(given) = 0 /\ Len(Want) = 1 /\ Want[1] = m /\ Append(given, m) = <<m>>
      BY <2>1, <2>3
    <3>2. broken' = broken /\ ~broken
      BY <1>0, <1>2, <2>1 DEF YieldReceiver, DInv, NotStarted
    <3>3. broken' = FALSE
      BY <1>0, <3>2 DEF TypeOK
    <3> QED
      BY <2>1, <2>3, <3>1, <3>3 DEF Abstract!Yield
  <2> QED
    BY <2>1, <2>4 DEF OInv, Abstract!Next
<1>3. CASE StartPeel
  <2>1. /\ DInv' /\ given' = <<>> /\ pc = "start" /\ pc' = "peel"
        /\ UNCHANGED <<op, m, other, given, broken>>
    BY <1>0, <1>3, StartPeelKeeps DEF StartPeel, Intersecting, DInv, NotStarted
  <2>2. Behind' = {}
    <3>1. op' \in PeelOps /\ remaining' = Ahead /\ Ahead' = Ahead
      BY <1>1, <1>3, <2>1 DEF StartPeel, Intersecting, Ahead
    <3> QED
      BY <3>1 DEF Behind
  <2>3. SoFar({})'
    <3>1. (given = <<>>)'
      BY <2>1
    <3> QED
      BY <3>1, NothingSoFar, PTL
  <2>4. UNCHANGED Abstract!vars
    BY <1>1, <2>1 DEF Abstract!vars
  <2> QED
    BY <2>1, <2>2, <2>3, <2>4 DEF OInv, SoFar
<1>4. CASE PeelHighest \/ PeelLowest \/ Climb \/ Descend
  <2>1. DInv' /\ OneMore
    BY <1>0, <1>4, PeelHighestKeeps, PeelLowestKeeps, ClimbKeeps, DescendKeeps
  <2>2. pc \in {"peel", "ladder"}
    BY <1>4 DEF PeelHighest, PeelLowest, Climb, Descend
  <2>3. Abstract!Yield /\ SoFar(Behind)'
    BY <2>1, <2>2, YieldNext
  <2> QED
    BY <2>1, <2>3 DEF OInv, Abstract!Next
<1>5. CASE ReturnPeeled
  <2>1. /\ DInv' /\ pc = "peel" /\ pc' = "done" /\ remaining = {} /\ op \in PeelOps
        /\ UNCHANGED <<op, m, other, given, broken>>
    BY <1>0, <1>5, ReturnPeeledKeeps DEF ReturnPeeled, Return, DInv, Peeling
  <2>2. Behind = Ahead
    BY <2>1 DEF Behind
  <2>3. given = Want
    BY <1>0, <2>1, <2>2, BehindComesFirst, AllYielded DEF OInv
  <2>4. Abstract!End
    BY <1>1, <2>1, <2>3 DEF Abstract!End
  <2> QED
    BY <2>1, <2>4 DEF OInv, Abstract!Next
<1>6. CASE ReturnContained
  <2>1. /\ DInv' /\ pc = "start" /\ pc' = "done" /\ given = <<>>
        /\ IsContiguous(m) /\ IsContiguous(other) /\ ContainsContiguous(other, m)
        /\ UNCHANGED <<op, m, other, given, broken>>
    BY <1>0, <1>6, ReturnContainedKeeps DEF ReturnContained, Return, DInv, NotStarted, CalledOnBlocks
  <2>2. Intersects(m, other) /\ Ahead = {}
    <3>1. Intersects(other, m) /\ other.mask \subseteq m.mask
      BY <1>0, <2>1, Nested
    <3> QED
      BY <1>0, <3>1, Overlap DEF Ahead, Pending
  <2>3. given = Want
    BY <1>0, <2>1, <2>2, NothingSoFar, AllYielded, Zenon
  <2>4. Abstract!End
    BY <1>1, <2>1, <2>3 DEF Abstract!End
  <2> QED
    BY <2>1, <2>4 DEF OInv, Abstract!Next
<1>7. CASE StartLadder
  <2>1. /\ DInv' /\ given' = <<>> /\ pc = "start" /\ pc' = "ladder" /\ op \in LadderOps
        /\ UNCHANGED <<op, m, other, given, broken>>
    BY <1>0, <1>7, StartLadderKeeps DEF StartLadder, DInv, NotStarted
  <2>2. Behind' = {}
    <3>1. Climbed' = {}
      BY <1>0, <1>7, StartLadderKeeps
    <3>2. op' \notin PeelOps
      BY <2>1 DEF PeelOps, LadderOps
    <3> QED
      BY <3>1, <3>2 DEF Behind
  <2>3. SoFar({})'
    <3>1. (given = <<>>)'
      BY <2>1
    <3> QED
      BY <3>1, NothingSoFar, PTL
  <2>4. UNCHANGED Abstract!vars
    BY <1>1, <2>1 DEF Abstract!vars
  <2> QED
    BY <2>1, <2>2, <2>3, <2>4 DEF OInv, SoFar
<1>8. CASE ReturnLadder
  <2>1. /\ DInv' /\ pc = "ladder" /\ pc' = "done" /\ op \in LadderOps
        /\ UNCHANGED <<op, m, other, given, broken>>
    BY <1>0, <1>8, ReturnLadderKeeps, OnLadder DEF ReturnLadder, Return
  <2>2. Behind = Ahead
    <3>1. Climbed = Ahead
      BY <1>0, <1>8, ReturnLadderKeeps
    <3> QED
      BY <2>1, <3>1 DEF Behind, PeelOps, LadderOps
  <2>3. given = Want
    BY <1>0, <2>1, <2>2, BehindComesFirst, AllYielded DEF OInv
  <2>4. Abstract!End
    BY <1>1, <2>1, <2>3 DEF Abstract!End
  <2> QED
    BY <2>1, <2>4 DEF OInv, Abstract!Next
<1>9. CASE UNCHANGED vars
  <2>1. UNCHANGED Abstract!vars
    BY <1>1, <1>9 DEF vars, Abstract!vars
  <2>2. OInv'
    <3>1. DInv'
      BY <1>0, <1>9 DEF vars, DInv, TypeOK, CalledOnBlocks, NotStarted, Peeling, Climbing, Ended,
                        Climbed, Ahead
    <3>2. Behind' = Behind /\ Want' = Want
      BY <1>1, <1>9 DEF vars, Behind, Climbed, Ahead
    <3> QED
      BY <1>9, <3>1, <3>2 DEF OInv, SoFar, vars
  <2> QED
    BY <2>1, <2>2
<1> QED
  BY <1>2, <1>3, <1>4, <1>5, <1>6, <1>7, <1>8, <1>9 DEF Next

(* The safety half of Implements (net4.go:600, 648; contiguous.go:449):    *)
(* for every width, receiver and argument, every step of a difference      *)
(* yields the next part in the order of its pending bits, from the top or  *)
(* from the bottom, and the sequence returns after the last one and never  *)
(* before, unless the consumer broke: the ladder yields what the peel does *)
(* and the reverses yield the same parts backwards.                        *)
THEOREM PartsComeInOrder ==
  Spec => Abstract!Init /\ [][Abstract!Next]_(Abstract!vars)
<1>1. Init => Abstract!Init /\ (DInv => OInv)
  BY DEF Init, Abstract!Init, OInv
<1>2. OInv /\ [Next]_vars => OInv' /\ [Abstract!Next]_(Abstract!vars)
  BY StepKeeps
<1> QED
  BY <1>1, <1>2, YieldsFollowThePhase, PTL DEF Spec

-----------------------------------------------------------------------------
(* Common supernets                                                        *)

(* The bits all networks from lo to hi fix, and alike.                     *)
Fixed(s, lo, hi) ==
  {b \in Bits : \A i \in lo .. hi : b \in s[i].mask /\ (b \in s[i].addr <=> b \in s[lo].addr)}

(* KillWord with the elements where the caller put them.                   *)
Kill(s, i) == Not(s[i].mask) \cup Xor(s[i].addr, s[i + 1].addr)

(* A bit no pair of neighbours kills is alike from the first on: the first *)
(* position where it differs would be the second of a pair that kills it.  *)
LEMMA FixedByPairs ==
  ASSUME NEW s \in Seq(Network), NEW lo \in 1 .. Len(s), NEW hi \in lo .. Len(s)
  PROVE  s[hi].mask \ {b \in Bits : \E i \in lo .. (hi - 1) : b \in Kill(s, i)} = Fixed(s, lo, hi)
<1> DEFINE killed == {b \in Bits : \E i \in lo .. (hi - 1) : b \in Kill(s, i)}
<1>1. \A i \in lo .. hi : s[i] \in Network /\ s[i].mask \subseteq Bits /\ i \in Nat
  <2>1. \A i \in lo .. hi : s[i] \in Network /\ i \in Nat
    OBVIOUS
  <2> QED
    BY <2>1, NetworkFields DEF Word
<1>2. ASSUME NEW b \in Fixed(s, lo, hi) PROVE b \in s[hi].mask \ killed
  <2>1. b \in Bits /\ \A i \in lo .. hi : b \in s[i].mask /\ (b \in s[i].addr <=> b \in s[lo].addr)
    BY <1>2 DEF Fixed
  <2>2. ASSUME NEW i \in lo .. (hi - 1) PROVE b \notin Kill(s, i)
    <3>1. i \in lo .. hi /\ i + 1 \in lo .. hi
      OBVIOUS
    <3> QED
      BY <2>1, <3>1 DEF Kill, Not, Xor
  <2> QED
    BY <2>1, <2>2
<1>3. ASSUME NEW b \in s[hi].mask \ killed PROVE b \in Fixed(s, lo, hi)
  <2>1. b \in Bits /\ b \in s[hi].mask /\ \A i \in lo .. (hi - 1) : b \notin Kill(s, i)
    BY <1>1, <1>3
  <2>2. \A i \in lo .. (hi - 1) : b \in s[i].mask /\ (b \in s[i].addr <=> b \in s[i + 1].addr)
    BY <2>1 DEF Kill, Not, Xor
  <2>3. \A i \in lo .. hi : b \in s[i].mask
    BY <2>1, <2>2
  <2> DEFINE odd == {i \in lo .. hi : ~(b \in s[i].addr <=> b \in s[lo].addr)}
  <2>4. odd = {}
    <3> SUFFICES ASSUME odd # {} PROVE FALSE
      OBVIOUS
    <3>1. odd \subseteq Nat
      BY <1>1
    <3>2. PICK i \in odd : \A j \in odd : i <= j
      BY <3>1, LeastNatural
    <3>3. i - 1 \in lo .. (hi - 1) /\ i - 1 \in lo .. hi /\ i - 1 + 1 = i
      <4>1. i # lo
        OBVIOUS
      <4> QED
        BY <4>1
    <3>4. i - 1 \notin odd
      BY <3>2, <3>3
    <3>5. b \in s[i - 1].addr <=> b \in s[i].addr
      BY <2>2, <3>3
    <3> QED
      BY <3>3, <3>4, <3>5
  <2> QED
    BY <2>1, <2>3, <2>4 DEF Fixed
<1> QED
  BY <1>2, <1>3

(* The common supernet fixes exactly those bits.                           *)
LEMMA SupernetOf ==
  ASSUME NEW s \in Seq(Network), NEW lo \in 1 .. Len(s), NEW hi \in lo .. Len(s)
  PROVE  /\ FromBits(s[lo].addr, Fixed(s, lo, hi)) \in Network
         /\ CommonSupernet({s[i] : i \in lo .. hi}) = FromBits(s[lo].addr, Fixed(s, lo, hi))
         /\ \A i \in lo .. hi : Contains(FromBits(s[lo].addr, Fixed(s, lo, hi)), s[i])
<1> DEFINE hull == FromBits(s[lo].addr, Fixed(s, lo, hi))
           members == {s[i] : i \in lo .. hi}
           least(n) == /\ \A x \in members : Contains(n, x)
                       /\ \A e \in Network : (\A x \in members : Contains(e, x)) => Contains(e, n)
<1>1. \A i \in lo .. hi : /\ s[i] \in Network /\ s[i].addr \in Word /\ s[i].mask \in Word
                          /\ s[i].addr \subseteq s[i].mask
  <2>1. \A i \in lo .. hi : s[i] \in Network
    OBVIOUS
  <2> QED
    BY <2>1, NetworkFields
<1>2. lo \in lo .. hi
  OBVIOUS
<1>3. hull \in Network /\ hull.addr = s[lo].addr \cap Fixed(s, lo, hi) /\ hull.mask = Fixed(s, lo, hi)
  <2>1. Fixed(s, lo, hi) \in Word
    BY DEF Fixed, Word
  <2> QED
    BY <1>1, <1>2, <2>1, FromBitsInNetwork DEF FromBits
<1>4. ASSUME NEW i \in lo .. hi PROVE Contains(hull, s[i])
  <2>1. \A b \in Fixed(s, lo, hi) : b \in s[i].mask /\ (b \in s[i].addr <=> b \in s[lo].addr)
    BY DEF Fixed
  <2> HIDE DEF hull
  <2> QED
    BY <1>3, <2>1 DEF Contains
<1>5. ASSUME NEW e \in Network, \A x \in members : Contains(e, x) PROVE Contains(e, hull)
  <2>1. \A i \in lo .. hi : s[i].addr \cap e.mask = e.addr /\ s[i].mask \cap e.mask = e.mask
    BY <1>5 DEF Contains
  <2>2. e.mask \in Word /\ e.addr \subseteq e.mask
    BY NetworkFields
  <2>3. e.mask \subseteq Fixed(s, lo, hi)
    <3> SUFFICES ASSUME NEW b \in e.mask PROVE b \in Fixed(s, lo, hi)
      OBVIOUS
    <3>1. \A i \in lo .. hi : b \in s[i].mask /\ (b \in s[i].addr <=> b \in e.addr)
      BY <2>1
    <3> QED
      BY <1>2, <2>2, <3>1 DEF Fixed, Word
  <2>4. s[lo].addr \cap e.mask = e.addr
    BY <1>2, <2>1
  <2> HIDE DEF hull
  <2> QED
    BY <1>3, <2>3, <2>4 DEF Contains
<1>6. least(hull)
  BY <1>4, <1>5
<1>7. CommonSupernet(members) = CHOOSE n \in Network : least(n)
  BY DEF CommonSupernet
<1> HIDE DEF hull
<1>8. \A n \in Network : least(n) => n = hull
  BY <1>3, <1>6, ContainsAntisymmetric
<1> HIDE DEF least, members
<1>9. CommonSupernet(members) = hull
  BY <1>3, <1>6, <1>7, <1>8
<1> QED
  BY <1>3, <1>4, <1>9 DEF hull, members
-----------------------------------------------------------------------------
(* Pairs of the window, counted                                            *)

(* How many pairs from lo to hi kill a bit.                                *)
KillCount(s, lo, hi, b) == Cardinality({i \in lo .. hi : b \in Kill(s, i)})

(* The pair at the end enters the count, the one at the start leaves it.   *)
LEMMA CountPairs ==
  ASSUME NEW s, NEW b, NEW lo \in Int, NEW hi \in Int, lo <= hi
  PROVE  /\ KillCount(s, lo, hi, b) =
              KillCount(s, lo, hi - 1, b) + IF b \in Kill(s, hi) THEN 1 ELSE 0
         /\ KillCount(s, lo, hi, b) =
              KillCount(s, lo + 1, hi, b) + IF b \in Kill(s, lo) THEN 1 ELSE 0
<1> DEFINE killed(p, q) == {i \in p .. q : b \in Kill(s, i)}
<1>1. ASSUME NEW p \in Int, NEW q \in Int PROVE IsFiniteSet(killed(p, q))
  <2>1. IsFiniteSet(p .. q)
    BY FS_Interval
  <2> QED
    BY <2>1, FS_Subset
<1>2. killed(lo, hi - 1) = killed(lo, hi) \ {hi} /\ (hi \in killed(lo, hi) <=> b \in Kill(s, hi))
  OBVIOUS
<1>3. killed(lo + 1, hi) = killed(lo, hi) \ {lo} /\ (lo \in killed(lo, hi) <=> b \in Kill(s, lo))
  OBVIOUS
<1>4. IsFiniteSet(killed(lo, hi))
  BY <1>1
<1> DEFINE all == killed(lo, hi)
<1> HIDE DEF killed
<1>5. \A x : Cardinality(all \ {x}) = IF x \in all THEN Cardinality(all) - 1 ELSE Cardinality(all)
  BY <1>4, FS_RemoveElement
<1>6. Cardinality(all) \in Nat
  BY <1>4, FS_CardinalityType
<1>7. Cardinality(all) = Cardinality(killed(lo, hi - 1)) + IF b \in Kill(s, hi) THEN 1 ELSE 0
  BY <1>2, <1>5, <1>6
<1>8. Cardinality(all) = Cardinality(killed(lo + 1, hi)) + IF b \in Kill(s, lo) THEN 1 ELSE 0
  BY <1>3, <1>5, <1>6
<1> QED
  BY <1>7, <1>8 DEF KillCount, killed

(* The count is positive when some pair kills the bit, and never more than *)
(* the pairs.                                                              *)
LEMMA CountBounds ==
  ASSUME NEW s, NEW b, NEW lo \in Int, NEW hi \in Int, lo <= hi + 1
  PROVE  /\ KillCount(s, lo, hi, b) \in 0 .. (hi - lo + 1)
         /\ KillCount(s, lo, hi, b) > 0 <=> \E i \in lo .. hi : b \in Kill(s, i)
<1> DEFINE killed == {i \in lo .. hi : b \in Kill(s, i)}
<1>1. IsFiniteSet(lo .. hi) /\ Cardinality(lo .. hi) = hi - lo + 1
  BY FS_Interval
<1>2. IsFiniteSet(killed) /\ Cardinality(killed) <= Cardinality(lo .. hi)
  BY <1>1, FS_Subset
<1>3. killed # {} <=> \E i \in lo .. hi : b \in Kill(s, i)
  OBVIOUS
<1> HIDE DEF killed
<1>4. Cardinality(killed) \in Nat /\ (Cardinality(killed) = 0 <=> killed = {})
  BY <1>2, FS_CardinalityType, FS_EmptySet
<1>5. Cardinality(killed) \in 0 .. (hi - lo + 1)
  BY <1>1, <1>2, <1>4
<1>6. Cardinality(killed) > 0 <=> killed # {}
  BY <1>4
<1> QED
  BY <1>3, <1>5, <1>6 DEF KillCount, killed
-----------------------------------------------------------------------------
(* The recursion of Gather                                                 *)

(* What Gather makes of a sequence, given what it makes of its halves.     *)
Joined(left, right, middle) ==
  LET l == Accepted(left)
      r == Accepted(right)
  IN  IF l < middle /\ r > 0
        THEN SubSeq(left, 1, l)
               \o Rotate(SubSeq(left, l + 1, middle), SubSeq(right, 1, r))
               \o SubSeq(right, r + 1, Len(right))
        ELSE left \o right

GatherStep(f, s) ==
  IF Len(s) <= 1 THEN s
  ELSE Joined(f[SubSeq(s, 1, Len(s) \div 2)], f[SubSeq(s, (Len(s) \div 2) + 1, Len(s))], Len(s) \div 2)

(* The halves are sequences of the same elements, and shorter.             *)
LEMMA HalvesAreShorter ==
  ASSUME NEW S, NEW s \in Seq(S), Len(s) > 1
  PROVE  LET middle == Len(s) \div 2
             left   == SubSeq(s, 1, middle)
             right  == SubSeq(s, middle + 1, Len(s))
         IN  /\ middle \in 1 .. (Len(s) - 1)
             /\ left \in Seq(S) /\ Len(left) = middle
             /\ \A i \in 1 .. middle : left[i] = s[i]
             /\ right \in Seq(S) /\ Len(right) = Len(s) - middle
             /\ \A i \in 1 .. (Len(s) - middle) : right[i] = s[middle + i]
<1> DEFINE middle == Len(s) \div 2
           left == SubSeq(s, 1, middle)
           right == SubSeq(s, middle + 1, Len(s))
<1>1. Len(s) \in Nat /\ \A i \in 1 .. Len(s) : s[i] \in S
  BY ElementOfSeq, LenProperties
<1>2. middle \in 1 .. (Len(s) - 1)
  BY <1>1
<1> HIDE DEF middle
<1>3. \A i \in 1 .. middle : s[i] \in S
  BY <1>1, <1>2
<1>4. /\ left \in Seq(S) /\ Len(left) = (IF 1 <= middle THEN middle - 1 + 1 ELSE 0)
      /\ \A i \in 1 .. (middle - 1 + 1) : left[i] = s[1 + i - 1]
  BY <1>2, <1>3, SubSeqProperties
<1>5. middle + 1 \in Int /\ Len(s) \in Int /\ \A i \in (middle + 1) .. Len(s) : s[i] \in S
  BY <1>1, <1>2
<1>6. /\ right \in Seq(S)
      /\ Len(right) = (IF middle + 1 <= Len(s) THEN Len(s) - (middle + 1) + 1 ELSE 0)
      /\ \A i \in 1 .. (Len(s) - (middle + 1) + 1) : right[i] = s[middle + 1 + i - 1]
  BY <1>5, SubSeqProperties
<1> HIDE DEF left, right
<1>7. Len(left) = middle /\ \A i \in 1 .. middle : left[i] = s[i]
  BY <1>2, <1>4
<1>8. Len(right) = Len(s) - middle /\ \A i \in 1 .. (Len(s) - middle) : right[i] = s[middle + i]
  <2>1. Len(right) = Len(s) - middle
    BY <1>1, <1>2, <1>6
  <2>2. \A i \in 1 .. (Len(s) - middle) : right[i] = s[middle + i]
    <3> SUFFICES ASSUME NEW i \in 1 .. (Len(s) - middle) PROVE right[i] = s[middle + i]
      OBVIOUS
    <3>1. i \in 1 .. (Len(s) - (middle + 1) + 1) /\ middle + 1 + i - 1 = middle + i
      BY <1>1, <1>2
    <3> QED
      BY <1>6, <3>1
  <2> QED
    BY <2>1, <2>2
<1> QED
  BY <1>2, <1>4, <1>6, <1>7, <1>8 DEF middle, left, right

(* A step looks at shorter sequences alone.                                *)
LEMMA StepIsLocal ==
  ASSUME NEW S, NEW s \in Seq(S), NEW f, NEW g,
         \A t \in Seq(S) : Len(t) < Len(s) => f[t] = g[t]
  PROVE  GatherStep(f, s) = GatherStep(g, s)
<1>1. CASE Len(s) <= 1
  BY <1>1 DEF GatherStep
<1>2. CASE Len(s) > 1
  <2> DEFINE middle == Len(s) \div 2
             left == SubSeq(s, 1, middle)
             right == SubSeq(s, middle + 1, Len(s))
  <2>1. /\ middle \in 1 .. (Len(s) - 1) /\ left \in Seq(S) /\ Len(left) = middle
        /\ right \in Seq(S) /\ Len(right) = Len(s) - middle
    BY <1>2, HalvesAreShorter
  <2>2. Len(s) \in Nat
    BY LenProperties
  <2> HIDE DEF middle, left, right
  <2>3. Len(left) < Len(s) /\ Len(right) < Len(s)
    BY <2>1, <2>2
  <2>4. f[left] = g[left] /\ f[right] = g[right]
    BY <2>1, <2>3
  <2>5. ~(Len(s) <= 1)
    BY <1>2, <2>2
  <2>6. GatherStep(f, s) = Joined(f[left], f[right], middle)
    BY <2>5, Zenon DEF GatherStep, left, right, middle
  <2>7. GatherStep(g, s) = Joined(g[left], g[right], middle)
    BY <2>5, Zenon DEF GatherStep, left, right, middle
  <2> QED
    BY <2>4, <2>6, <2>7, Zenon
<1> QED
  BY <1>1, <1>2, LenProperties

(* The recursion has a solution on the sequences of every length, the same *)
(* for all lengths, and so one on all sequences.                           *)
Solves(S, n, f) ==
  f = [s \in {t \in Seq(S) : Len(t) <= n} |-> GatherStep(f, s)]

(* Two solutions are the same wherever both are defined.                   *)
LEMMA SolutionsAgree ==
  ASSUME NEW S, NEW n \in Nat, NEW e \in Nat, NEW f, NEW g, Solves(S, n, f), Solves(S, e, g)
  PROVE  \A s \in Seq(S) : Len(s) <= n /\ Len(s) <= e => f[s] = g[s]
<1> DEFINE apart == {k \in Nat : \E s \in Seq(S) : Len(s) = k /\ k <= n /\ k <= e /\ f[s] # g[s]}
<1>1. apart = {}
  <2> SUFFICES ASSUME apart # {} PROVE FALSE
    OBVIOUS
  <2>1. PICK k \in apart : \A j \in apart : k <= j
    BY LeastNatural
  <2>2. PICK s \in Seq(S) : Len(s) = k /\ k <= n /\ k <= e /\ f[s] # g[s]
    OBVIOUS
  <2>3. ASSUME NEW t \in Seq(S), Len(t) < Len(s) PROVE f[t] = g[t]
    <3>1. Len(t) \in Nat /\ Len(t) \notin apart /\ Len(t) <= n /\ Len(t) <= e
      BY <2>1, <2>2, <2>3, LenProperties
    <3> QED
      BY <3>1
  <2> HIDE DEF apart
  <2>4. GatherStep(f, s) = GatherStep(g, s)
    BY <2>3, StepIsLocal
  <2>5. f[s] = GatherStep(f, s) /\ g[s] = GatherStep(g, s)
    BY <2>2 DEF Solves
  <2> QED
    BY <2>2, <2>4, <2>5
<1> QED
  BY <1>1, LenProperties

(* There is a solution for every length.                                   *)
LEMMA SolutionsExist ==
  ASSUME NEW S
  PROVE  \A n \in Nat : \E f : Solves(S, n, f)
<1> DEFINE without == {n \in Nat : ~\E f : Solves(S, n, f)}
<1>1. without = {}
  <2> SUFFICES ASSUME without # {} PROVE FALSE
    OBVIOUS
  <2>1. PICK n \in without : \A j \in without : n <= j
    BY LeastNatural
  <2>2. n \in Nat /\ ~\E f : Solves(S, n, f)
    OBVIOUS
  <2>3. n > 0 => n - 1 \notin without
    BY <2>1
  <2>4. n > 0 => \E f : Solves(S, n - 1, f)
    BY <2>2, <2>3
  <2> HIDE DEF without
  <2> DEFINE f == CHOOSE h : Solves(S, n - 1, h)
             g == [s \in {t \in Seq(S) : Len(t) <= n} |-> GatherStep(f, s)]
  <2>5. n > 0 => Solves(S, n - 1, f)
    BY <2>4
  <2> HIDE DEF f
  <2>6. ASSUME NEW s \in Seq(S), Len(s) <= n PROVE GatherStep(g, s) = GatherStep(f, s)
    <3>1. ASSUME NEW t \in Seq(S), Len(t) < Len(s) PROVE g[t] = f[t]
      <4>1. Len(t) \in Nat /\ Len(s) \in Nat
        BY LenProperties
      <4>2. n > 0 /\ Len(t) <= n - 1 /\ Len(t) <= n
        BY <2>2, <2>6, <3>1, <4>1
      <4>3. g[t] = GatherStep(f, t)
        BY <4>2
      <4>4. f[t] = GatherStep(f, t)
        BY <2>5, <4>2 DEF Solves
      <4> QED
        BY <4>3, <4>4
    <3> HIDE DEF g
    <3> QED
      BY <3>1, StepIsLocal
  <2>7. g = [s \in {t \in Seq(S) : Len(t) <= n} |-> GatherStep(g, s)]
    <3> DEFINE short == {t \in Seq(S) : Len(t) <= n}
    <3>1. \A s \in short : GatherStep(g, s) = GatherStep(f, s)
      BY <2>6
    <3>2. g = [s \in short |-> GatherStep(f, s)]
      OBVIOUS
    <3> HIDE DEF g, short
    <3>3. g = [s \in short |-> GatherStep(g, s)]
      BY <3>1, <3>2
    <3> QED
      BY <3>3 DEF short
  <2> QED
    BY <2>2, <2>7 DEF Solves
<1> QED
  BY <1>1

(* So Gather is what its definition says.                                  *)
LEMMA GatherUnfolds ==
  \A s \in Seq(1 .. Length) : Gather[s] = GatherStep(Gather, s)
<1> DEFINE S == 1 .. Length
           upTo(n) == CHOOSE f : Solves(S, n, f)
           all == [s \in Seq(S) |-> upTo(Len(s))[s]]
<1>1. \A n \in Nat : Solves(S, n, upTo(n))
  BY SolutionsExist
<1> HIDE DEF upTo
<1>2. ASSUME NEW s \in Seq(S) PROVE all[s] = GatherStep(all, s)
  <2>1. Len(s) \in Nat
    BY LenProperties
  <2>2. ASSUME NEW t \in Seq(S), Len(t) < Len(s) PROVE all[t] = upTo(Len(s))[t]
    <3>1. Len(t) \in Nat
      BY LenProperties
    <3>2. Solves(S, Len(s), upTo(Len(s))) /\ Solves(S, Len(t), upTo(Len(t)))
      BY <1>1, <2>1, <3>1
    <3>3. upTo(Len(t))[t] = upTo(Len(s))[t]
      <4>1. Len(t) <= Len(t) /\ Len(t) <= Len(s)
        BY <2>1, <2>2, <3>1
      <4> HIDE DEF S
      <4> QED
        BY <2>1, <3>1, <3>2, <4>1, SolutionsAgree
    <3> QED
      BY <3>3
  <2>3. all[s] = upTo(Len(s))[s]
    OBVIOUS
  <2>4. upTo(Len(s))[s] = GatherStep(upTo(Len(s)), s)
    <3>1. Solves(S, Len(s), upTo(Len(s)))
      BY <1>1, <2>1
    <3> DEFINE g == upTo(Len(s))
    <3> HIDE DEF g, S
    <3>2. g = [r \in {t \in Seq(S) : Len(t) <= Len(s)} |-> GatherStep(g, r)]
      BY <3>1 DEF Solves, g
    <3>3. Len(s) <= Len(s)
      BY <2>1
    <3>4. g[s] = GatherStep(g, s)
      BY <3>2, <3>3
    <3> QED
      BY <3>4 DEF g
  <2> HIDE DEF all, S
  <2>5. GatherStep(all, s) = GatherStep(upTo(Len(s)), s)
    BY <2>2, StepIsLocal
  <2> QED
    BY <2>3, <2>4, <2>5
<1>3. all = [s \in Seq(S) |-> GatherStep(all, s)]
  <2>1. all = [s \in Seq(S) |-> all[s]]
    OBVIOUS
  <2> HIDE DEF all, S
  <2> QED
    BY <1>2, <2>1
<1>4. Gather = CHOOSE f : f = [s \in Seq(S) |-> GatherStep(f, s)]
  BY DEF Gather, GatherStep, Joined
<1> HIDE DEF all
<1>5. Gather = [s \in Seq(S) |-> GatherStep(Gather, s)]
  <2> HIDE DEF S
  <2> QED
    BY <1>3, <1>4
<1> HIDE DEF S
<1>6. \A s \in Seq(S) : Gather[s] = GatherStep(Gather, s)
  BY <1>5
<1> QED
  BY <1>6 DEF S
-----------------------------------------------------------------------------
(* Rotating                                                                *)

(* Reversed(s) is s from its end.                                          *)
LEMMA ReversedIsASequence ==
  ASSUME NEW S, NEW s \in Seq(S)
  PROVE  /\ Reversed(s) \in Seq(S) /\ Len(Reversed(s)) = Len(s)
         /\ \A i \in 1 .. Len(s) : Reversed(s)[i] = s[Len(s) + 1 - i]
<1>1. Len(s) \in Nat /\ DOMAIN s = 1 .. Len(s) /\ \A i \in 1 .. Len(s) : s[i] \in S
  BY LenProperties, ElementOfSeq
<1>2. Reversed(s) = [i \in 1 .. Len(s) |-> s[Len(s) + 1 - i]]
  BY <1>1 DEF Reversed
<1>3. \A i \in 1 .. Len(s) : Len(s) + 1 - i \in 1 .. Len(s)
  BY <1>1
<1>4. Reversed(s) \in [1 .. Len(s) -> S]
  BY <1>1, <1>2, <1>3
<1>5. Reversed(s) \in Seq(S)
  BY <1>1, <1>4
<1>6. Len(Reversed(s)) = Len(s)
  BY <1>1, <1>4, <1>5
<1> QED
  BY <1>2, <1>5, <1>6

(* Three reversals swap the parts.                                         *)
LEMMA RotateSwaps ==
  ASSUME NEW S, NEW a \in Seq(S), NEW b \in Seq(S)
  PROVE  Rotate(a, b) = b \o a
<1> DEFINE x == Reversed(a)
           y == Reversed(b)
           z == x \o y
           u == b \o a
<1>1. Len(a) \in Nat /\ Len(b) \in Nat
  BY LenProperties
<1>2. x \in Seq(S) /\ Len(x) = Len(a) /\ \A i \in 1 .. Len(a) : x[i] = a[Len(a) + 1 - i]
  BY ReversedIsASequence
<1>3. y \in Seq(S) /\ Len(y) = Len(b) /\ \A i \in 1 .. Len(b) : y[i] = b[Len(b) + 1 - i]
  BY ReversedIsASequence
<1> HIDE DEF x, y
<1>4. /\ z \in Seq(S) /\ Len(z) = Len(x) + Len(y)
      /\ \A i \in 1 .. (Len(x) + Len(y)) : z[i] = IF i <= Len(x) THEN x[i] ELSE y[i - Len(x)]
  <2>1. x \in Seq(S) /\ y \in Seq(S)
    BY <1>2, <1>3
  <2> QED
    BY <2>1, ConcatProperties
<1>5. /\ u \in Seq(S) /\ Len(u) = Len(b) + Len(a)
      /\ \A i \in 1 .. (Len(b) + Len(a)) : u[i] = IF i <= Len(b) THEN b[i] ELSE a[i - Len(b)]
  BY ConcatProperties
<1> HIDE DEF z, u
<1>6. /\ Reversed(z) \in Seq(S) /\ Len(Reversed(z)) = Len(z)
      /\ \A i \in 1 .. Len(z) : Reversed(z)[i] = z[Len(z) + 1 - i]
  BY <1>4, ReversedIsASequence
<1>7. ASSUME NEW i \in 1 .. (Len(a) + Len(b)) PROVE Reversed(z)[i] = u[i]
  <2> DEFINE j == Len(a) + Len(b) + 1 - i
  <2>1. j \in 1 .. (Len(a) + Len(b)) /\ i \in 1 .. Len(z) /\ Len(z) + 1 - i = j
    BY <1>1, <1>2, <1>3, <1>4
  <2>2. Reversed(z)[i] = z[j]
    BY <1>6, <2>1
  <2>3. CASE i <= Len(b)
    <3>1. ~(j <= Len(a)) /\ j - Len(a) \in 1 .. Len(b) /\ Len(b) + 1 - (j - Len(a)) = i
      BY <1>1, <2>3
    <3>2. z[j] = y[j - Len(a)]
      BY <1>2, <1>3, <1>4, <2>1, <3>1
    <3>3. y[j - Len(a)] = b[i]
      BY <1>3, <3>1
    <3>4. u[i] = b[i]
      BY <1>1, <1>5, <2>3
    <3> QED
      BY <2>2, <3>2, <3>3, <3>4
  <2>4. CASE i > Len(b)
    <3>1. j <= Len(a) /\ j \in 1 .. Len(a) /\ Len(a) + 1 - j = i - Len(b)
      BY <1>1, <2>4
    <3>2. z[j] = x[j]
      BY <1>2, <1>3, <1>4, <2>1, <3>1
    <3>3. x[j] = a[i - Len(b)]
      BY <1>2, <3>1
    <3>4. u[i] = a[i - Len(b)]
      BY <1>1, <1>5, <2>4
    <3> QED
      BY <2>2, <3>2, <3>3, <3>4
  <2> QED
    BY <1>1, <2>3, <2>4
<1>8. Len(Reversed(z)) = Len(u) /\ Len(u) = Len(a) + Len(b)
  BY <1>1, <1>2, <1>3, <1>4, <1>5, <1>6
<1>9. \A i \in 1 .. Len(Reversed(z)) : Reversed(z)[i] = u[i]
  BY <1>7, <1>8
<1>10. Reversed(z) = u
  BY <1>5, <1>6, <1>8, <1>9, SeqEqual
<1>11. Rotate(a, b) = Reversed(z)
  BY DEF Rotate, z, x, y
<1> QED
  BY <1>10, <1>11 DEF u

(* The halves joined: the accepted of both, then the rejected of both.     *)
LEMMA JoinedEntries ==
  ASSUME NEW S, NEW left \in Seq(S), NEW right \in Seq(S),
         Accepted(left) \in 0 .. Len(left), Accepted(right) \in 0 .. Len(right)
  PROVE  LET e == Len(left)
             l == Accepted(left)
             r == Accepted(right)
             u == Joined(left, right, e)
         IN  /\ u \in Seq(S) /\ Len(u) = e + Len(right)
             /\ \A i \in 1 .. (e + Len(right)) :
                  u[i] = IF i <= l THEN left[i]
                         ELSE IF i <= l + r THEN right[i - l]
                         ELSE IF i <= e + r THEN left[i - r]
                         ELSE right[i - e]
<1> DEFINE e == Len(left)
           n == Len(right)
           l == Accepted(left)
           r == Accepted(right)
           u == Joined(left, right, e)
           entry(i) == IF i <= l THEN left[i]
                       ELSE IF i <= l + r THEN right[i - l]
                       ELSE IF i <= e + r THEN left[i - r]
                       ELSE right[i - e]
<1>1. e \in Nat /\ n \in Nat /\ l \in 0 .. e /\ r \in 0 .. n
  BY LenProperties
<1>2. (\A i \in 1 .. e : left[i] \in S) /\ (\A i \in 1 .. n : right[i] \in S)
  BY ElementOfSeq
<1>3. u = IF l < e /\ r > 0
            THEN SubSeq(left, 1, l) \o Rotate(SubSeq(left, l + 1, e), SubSeq(right, 1, r))
                   \o SubSeq(right, r + 1, n)
            ELSE left \o right
  BY DEF Joined
<1> HIDE DEF u, l, r, e, n
<1>4. CASE ~(l < e /\ r > 0)
  <2>1. u = left \o right
    BY <1>3, <1>4
  <2>2. /\ u \in Seq(S) /\ Len(u) = e + n
        /\ \A i \in 1 .. (e + n) : u[i] = IF i <= e THEN left[i] ELSE right[i - e]
    BY <2>1, ConcatProperties DEF e, n
  <2>3. ASSUME NEW i \in 1 .. (e + n) PROVE u[i] = entry(i)
    <3>1. l = e \/ r = 0
      BY <1>1, <1>4
    <3>2. CASE l = e
      BY <1>1, <2>2, <3>2
    <3>3. CASE r = 0
      <4>1. i - r = i /\ e + r = e /\ l + r = l
        BY <1>1, <3>3
      <4> QED
        BY <1>1, <2>2, <4>1
    <3> QED
      BY <3>1, <3>2, <3>3
  <2> QED
    BY <2>2, <2>3 DEF u, l, r, e, n
<1>5. CASE l < e /\ r > 0
  <2> DEFINE la == SubSeq(left, 1, l)
             lr == SubSeq(left, l + 1, e)
             ra == SubSeq(right, 1, r)
             rr == SubSeq(right, r + 1, n)
  <2>1. /\ la \in Seq(S) /\ Len(la) = l
        /\ \A i \in 1 .. l : la[i] = left[i]
    <3>1. 1 \in Int /\ l \in Int /\ \A i \in 1 .. l : left[i] \in S
      BY <1>1, <1>2
    <3>2. /\ la \in Seq(S) /\ Len(la) = (IF 1 <= l THEN l - 1 + 1 ELSE 0)
          /\ \A i \in 1 .. (l - 1 + 1) : la[i] = left[1 + i - 1]
      BY <3>1, SubSeqProperties
    <3> HIDE DEF la
    <3> QED
      BY <1>1, <3>2
  <2>2. /\ lr \in Seq(S) /\ Len(lr) = e - l
        /\ \A i \in 1 .. (e - l) : lr[i] = left[l + i]
    <3>1. l + 1 \in Int /\ e \in Int /\ \A i \in (l + 1) .. e : left[i] \in S
      BY <1>1, <1>2
    <3>2. /\ lr \in Seq(S) /\ Len(lr) = (IF l + 1 <= e THEN e - (l + 1) + 1 ELSE 0)
          /\ \A i \in 1 .. (e - (l + 1) + 1) : lr[i] = left[l + 1 + i - 1]
      BY <3>1, SubSeqProperties
    <3> HIDE DEF lr
    <3>3. Len(lr) = e - l
      BY <1>1, <3>2
    <3>4. \A i \in 1 .. (e - l) : i \in 1 .. (e - (l + 1) + 1) /\ l + 1 + i - 1 = l + i
      BY <1>1
    <3> QED
      BY <3>2, <3>3, <3>4
  <2>3. /\ ra \in Seq(S) /\ Len(ra) = r
        /\ \A i \in 1 .. r : ra[i] = right[i]
    <3>1. 1 \in Int /\ r \in Int /\ \A i \in 1 .. r : right[i] \in S
      BY <1>1, <1>2
    <3>2. /\ ra \in Seq(S) /\ Len(ra) = (IF 1 <= r THEN r - 1 + 1 ELSE 0)
          /\ \A i \in 1 .. (r - 1 + 1) : ra[i] = right[1 + i - 1]
      BY <3>1, SubSeqProperties
    <3> HIDE DEF ra
    <3> QED
      BY <1>1, <3>2
  <2>4. /\ rr \in Seq(S) /\ Len(rr) = n - r
        /\ \A i \in 1 .. (n - r) : rr[i] = right[r + i]
    <3>1. r + 1 \in Int /\ n \in Int /\ \A i \in (r + 1) .. n : right[i] \in S
      BY <1>1, <1>2
    <3>2. /\ rr \in Seq(S) /\ Len(rr) = (IF r + 1 <= n THEN n - (r + 1) + 1 ELSE 0)
          /\ \A i \in 1 .. (n - (r + 1) + 1) : rr[i] = right[r + 1 + i - 1]
      BY <3>1, SubSeqProperties
    <3> HIDE DEF rr
    <3>3. Len(rr) = n - r
      BY <1>1, <3>2
    <3>4. \A i \in 1 .. (n - r) : i \in 1 .. (n - (r + 1) + 1) /\ r + 1 + i - 1 = r + i
      BY <1>1
    <3> QED
      BY <3>2, <3>3, <3>4
  <2> HIDE DEF la, lr, ra, rr
  <2>5. u = la \o (ra \o lr) \o rr
    <3>1. Rotate(lr, ra) = ra \o lr
      BY <2>2, <2>3, RotateSwaps
    <3>2. u = la \o Rotate(lr, ra) \o rr
      BY <1>3, <1>5 DEF la, lr, ra, rr
    <3> QED
      BY <3>1, <3>2
  <2> DEFINE mid == ra \o lr
             most == la \o mid
  <2>6. /\ mid \in Seq(S) /\ Len(mid) = Len(ra) + Len(lr)
        /\ \A i \in 1 .. (Len(ra) + Len(lr)) : mid[i] = IF i <= Len(ra) THEN ra[i] ELSE lr[i - Len(ra)]
    BY <2>2, <2>3, ConcatProperties
  <2> HIDE DEF mid
  <2>7. /\ most \in Seq(S) /\ Len(most) = Len(la) + Len(mid)
        /\ \A i \in 1 .. (Len(la) + Len(mid)) : most[i] = IF i <= Len(la) THEN la[i] ELSE mid[i - Len(la)]
    <3>1. la \in Seq(S) /\ mid \in Seq(S)
      BY <2>1, <2>6
    <3> QED
      BY <3>1, ConcatProperties
  <2> HIDE DEF most
  <2>8. u = most \o rr
    BY <2>5 DEF most, mid
  <2>9. /\ u \in Seq(S) /\ Len(u) = Len(most) + Len(rr)
        /\ \A i \in 1 .. (Len(most) + Len(rr)) : u[i] = IF i <= Len(most) THEN most[i] ELSE rr[i - Len(most)]
    BY <2>4, <2>7, <2>8, ConcatProperties
  <2>10. Len(mid) = r + e - l /\ Len(most) = e + r /\ Len(u) = e + n
    BY <1>1, <2>1, <2>2, <2>3, <2>4, <2>6, <2>7, <2>9
  <2>11. ASSUME NEW i \in 1 .. (e + n) PROVE u[i] = entry(i)
    <3>1. CASE i <= l
      <4>1. i \in 1 .. (Len(most) + Len(rr)) /\ i <= Len(most) /\ i <= Len(la)
            /\ i \in 1 .. (Len(la) + Len(mid)) /\ i \in 1 .. l
        BY <1>1, <2>1, <2>4, <2>10, <3>1
      <4>2. u[i] = most[i] /\ most[i] = la[i] /\ la[i] = left[i]
        BY <2>1, <2>7, <2>9, <4>1
      <4> QED
        BY <3>1, <4>2
    <3>2. CASE i > l /\ i <= l + r
      <4>1. /\ i \in 1 .. (Len(most) + Len(rr)) /\ i <= Len(most) /\ ~(i <= Len(la))
            /\ i \in 1 .. (Len(la) + Len(mid)) /\ i - Len(la) = i - l
            /\ i - l \in 1 .. (Len(ra) + Len(lr)) /\ i - l <= Len(ra) /\ i - l \in 1 .. r
        BY <1>1, <2>1, <2>2, <2>3, <2>4, <2>10, <3>2
      <4>2. u[i] = most[i] /\ most[i] = mid[i - l] /\ mid[i - l] = ra[i - l] /\ ra[i - l] = right[i - l]
        BY <2>3, <2>6, <2>7, <2>9, <4>1
      <4>3. ~(i <= l)
        BY <1>1, <3>2
      <4> QED
        BY <3>2, <4>2, <4>3
    <3>3. CASE i > l + r /\ i <= e + r
      <4>1. /\ i \in 1 .. (Len(most) + Len(rr)) /\ i <= Len(most) /\ ~(i <= Len(la))
            /\ i \in 1 .. (Len(la) + Len(mid)) /\ i - Len(la) = i - l
            /\ i - l \in 1 .. (Len(ra) + Len(lr)) /\ ~(i - l <= Len(ra))
            /\ i - l - Len(ra) \in 1 .. (e - l) /\ l + (i - l - Len(ra)) = i - r
        BY <1>1, <2>1, <2>2, <2>3, <2>4, <2>10, <3>3
      <4>2. u[i] = most[i] /\ most[i] = mid[i - l] /\ mid[i - l] = lr[i - l - Len(ra)]
        BY <2>6, <2>7, <2>9, <4>1
      <4>3. lr[i - l - Len(ra)] = left[i - r]
        BY <2>2, <4>1
      <4>4. ~(i <= l) /\ ~(i <= l + r)
        BY <1>1, <3>3
      <4> QED
        BY <3>3, <4>2, <4>3, <4>4
    <3>4. CASE i > e + r
      <4>1. /\ i \in 1 .. (Len(most) + Len(rr)) /\ ~(i <= Len(most))
            /\ i - Len(most) \in 1 .. (n - r) /\ r + (i - Len(most)) = i - e
        BY <1>1, <2>4, <2>10, <3>4
      <4>2. u[i] = rr[i - Len(most)] /\ rr[i - Len(most)] = right[i - e]
        BY <2>4, <2>9, <4>1
      <4>3. ~(i <= l) /\ ~(i <= l + r) /\ ~(i <= e + r)
        BY <1>1, <3>4
      <4> QED
        BY <4>2, <4>3
    <3> QED
      BY <1>1, <3>1, <3>2, <3>3, <3>4
  <2> QED
    BY <2>9, <2>10, <2>11 DEF u, l, r, e, n
<1> QED
  BY <1>4, <1>5 DEF u, l, r, e, n
-----------------------------------------------------------------------------
(* What Gather returns                                                     *)

Holds(x) == Contains(Candidate, slice[x])

Ascending(s) == \A i, j \in 1 .. Len(s) : i < j => s[i] < s[j]

(* t has the entries of s, those the candidate contains in the first a     *)
(* places, and in each part they ascend.                                   *)
Gathered(s, t, a) ==
  /\ a \in 0 .. Len(s)
  /\ t \in Seq(1 .. Length) /\ Len(t) = Len(s)
  /\ \A i \in 1 .. Len(s) : Holds(t[i]) <=> i <= a
  /\ \A i, j \in 1 .. Len(s) : i < j /\ (i <= a <=> j <= a) => t[i] < t[j]
  /\ \A i \in 1 .. Len(s) : \E j \in 1 .. Len(s) : t[j] = s[i]
  /\ \A j \in 1 .. Len(s) : \E i \in 1 .. Len(s) : s[i] = t[j]

(* Accepted counts the networks that the interval gathers first.           *)
LEMMA AcceptedFirst ==
  ASSUME NEW s \in Seq(1 .. Length), NEW t, NEW a, Gathered(s, t, a)
  PROVE  Accepted(t) = a
<1>1. Len(s) \in Nat
  BY LenProperties
<1>2. a \in 0 .. Len(s) /\ t \in Seq(1 .. Length) /\ Len(t) = Len(s)
  BY DEF Gathered
<1>3. \A i \in 1 .. Len(s) : Holds(t[i]) <=> i <= a
  BY DEF Gathered
<1>4. DOMAIN t = 1 .. Len(s)
  BY <1>2, LenProperties
<1>5. {i \in DOMAIN t : Holds(t[i])} = 1 .. a
  BY <1>1, <1>2, <1>3, <1>4
<1>6. Cardinality(1 .. a) = a
  <2>1. 1 \in Int /\ a \in Int
    BY <1>1, <1>2
  <2>2. Cardinality(1 .. a) = IF 1 > a THEN 0 ELSE a - 1 + 1
    BY <2>1, FS_Interval
  <2> QED
    BY <1>1, <1>2, <2>2
<1>7. Accepted(t) = Cardinality({i \in DOMAIN t : Holds(t[i])})
  BY DEF Accepted, Holds
<1> QED
  BY <1>5, <1>6, <1>7

(* Entries renamed: as many are marked.                                    *)
LEMMA MarkedAlike ==
  ASSUME NEW S, IsFiniteSet(S), NEW T, NEW a, NEW b, NEW f \in [T -> S],
         \A s \in S : \E t \in T : f[t] = s,
         \A t, v \in T : f[t] = f[v] => t = v,
         \A t \in T : b[t] = a[f[t]]
  PROVE  Copies(b, T, 1) = Copies(a, S, 1)
<1>1. /\ {b[t] : t \in T} = {a[s] : s \in S}
      /\ \A n : Copies(b, T, n) = Copies(a, S, n)
  BY CountReindexed
<1> QED
  BY <1>1

(* As many entries of s are contained: the two differ by their order.      *)
LEMMA AcceptedKept ==
  ASSUME Length \in Nat,
         NEW s \in Seq(1 .. Length), NEW t, NEW a, Gathered(s, t, a), Ascending(s)
  PROVE  Accepted(s) = a
<1>1. Len(s) \in Nat /\ DOMAIN s = 1 .. Len(s)
  BY LenProperties
<1>2. a \in 0 .. Len(s) /\ t \in Seq(1 .. Length) /\ Len(t) = Len(s)
  BY DEF Gathered
<1>3. DOMAIN t = 1 .. Len(s)
  BY <1>2, LenProperties
<1>4. /\ \A i \in 1 .. Len(s) : \E j \in 1 .. Len(s) : t[j] = s[i]
      /\ \A j \in 1 .. Len(s) : \E i \in 1 .. Len(s) : s[i] = t[j]
  BY DEF Gathered
<1>5. \A i \in 1 .. Len(s) : s[i] \in Nat /\ t[i] \in Nat
  <2>1. \A i \in 1 .. Len(s) : s[i] \in 1 .. Length /\ t[i] \in 1 .. Length
    BY <1>2, ElementOfSeq
  <2> QED
    BY <2>1
<1>6. \A i, j \in 1 .. Len(s) : s[i] = s[j] => i = j
  <2> SUFFICES ASSUME NEW i \in 1 .. Len(s), NEW j \in 1 .. Len(s), s[i] = s[j], i # j PROVE FALSE
    OBVIOUS
  <2>1. i < j \/ j < i
    BY <1>1
  <2>2. s[i] < s[j] \/ s[j] < s[i]
    BY <2>1 DEF Ascending
  <2> QED
    BY <1>5, <2>2
<1>7. \A i, j \in 1 .. Len(s) : t[i] = t[j] => i = j
  <2> SUFFICES ASSUME NEW i \in 1 .. Len(s), NEW j \in 1 .. Len(s), t[i] = t[j], i # j PROVE FALSE
    OBVIOUS
  <2>1. \A k \in 1 .. Len(s) : Holds(t[k]) <=> k <= a
    BY DEF Gathered
  <2>2. i <= a <=> j <= a
    BY <2>1
  <2>3. \A k, l \in 1 .. Len(s) : k < l /\ (k <= a <=> l <= a) => t[k] < t[l]
    BY DEF Gathered
  <2>4. i < j \/ j < i
    BY <1>1
  <2>5. t[i] < t[j] \/ t[j] < t[i]
    BY <2>2, <2>3, <2>4
  <2> QED
    BY <1>5, <2>5
<1> DEFINE P == 1 .. Len(s)
           f == [j \in P |-> CHOOSE i \in P : s[i] = t[j]]
           mark(r) == [i \in P |-> IF Holds(r[i]) THEN 1 ELSE 0]
           ofS == mark(s)
           ofT == mark(t)
<1>8. \A j \in P : f[j] \in P /\ s[f[j]] = t[j]
  BY <1>4
<1>9. f \in [P -> P]
  BY <1>8
<1>10. \A i \in P : \E j \in P : f[j] = i
  <2> SUFFICES ASSUME NEW i \in P PROVE \E j \in P : f[j] = i
    OBVIOUS
  <2>1. PICK j \in P : t[j] = s[i]
    BY <1>4
  <2>2. f[j] \in P /\ s[f[j]] = s[i]
    BY <1>8, <2>1
  <2>3. f[j] = i
    BY <1>6, <2>2
  <2> QED
    BY <2>3
<1>11. \A i, j \in P : f[i] = f[j] => i = j
  BY <1>7, <1>8
<1>12. \A j \in P : ofT[j] = ofS[f[j]]
  BY <1>8
<1>13. IsFiniteSet(P)
  BY <1>1, FS_Interval
<1>14. \A r : Copies(mark(r), P, 1) = Cardinality({i \in P : Holds(r[i])})
  <2> SUFFICES ASSUME NEW r PROVE Copies(mark(r), P, 1) = Cardinality({i \in P : Holds(r[i])})
    OBVIOUS
  <2>1. {i \in P : mark(r)[i] = 1} = {i \in P : Holds(r[i])}
    OBVIOUS
  <2> QED
    BY <2>1 DEF Copies
<1>15. Copies(ofT, P, 1) = Copies(ofS, P, 1)
  <2> HIDE DEF f, ofS, ofT, P
  <2> QED
    BY <1>9, <1>10, <1>11, <1>12, <1>13, MarkedAlike
<1>16. Accepted(s) = Cardinality({i \in P : Holds(s[i])}) /\ Accepted(t) = Cardinality({i \in P : Holds(t[i])})
  BY <1>1, <1>3 DEF Accepted, Holds
<1>17. Accepted(s) = Accepted(t)
  <2>1. Copies(ofT, P, 1) = Cardinality({i \in P : Holds(t[i])})
    BY <1>14
  <2>2. Copies(ofS, P, 1) = Cardinality({i \in P : Holds(s[i])})
    BY <1>14
  <2> HIDE DEF P, ofS, ofT
  <2> QED
    BY <1>15, <1>16, <2>1, <2>2
<1> QED
  BY <1>17, AcceptedFirst

(* Gathered halves of an ascending sequence, joined, are gathered.         *)
LEMMA JoinedIsGathered ==
  ASSUME NEW s \in Seq(1 .. Length), Ascending(s),
         NEW e \in 1 .. (Len(s) - 1), NEW x \in Seq(1 .. Length), NEW y \in Seq(1 .. Length),
         Len(x) = e, Len(y) = Len(s) - e,
         \A i \in 1 .. e : x[i] = s[i], \A i \in 1 .. (Len(s) - e) : y[i] = s[e + i],
         NEW left, NEW l, Gathered(x, left, l), NEW right, NEW r, Gathered(y, right, r)
  PROVE  Gathered(s, Joined(left, right, e), l + r)
<1> DEFINE n == Len(s) - e
           u == Joined(left, right, e)
<1>1. Len(s) \in Nat /\ e \in Nat /\ n \in Nat /\ Len(s) = e + n
  BY LenProperties
<1>2. /\ l \in 0 .. e /\ left \in Seq(1 .. Length) /\ Len(left) = e
      /\ r \in 0 .. n /\ right \in Seq(1 .. Length) /\ Len(right) = n
  BY DEF Gathered
<1>3. (\A i \in 1 .. e : Holds(left[i]) <=> i <= l) /\ (\A i \in 1 .. n : Holds(right[i]) <=> i <= r)
  BY DEF Gathered
<1>4. \A i, j \in 1 .. e : i < j /\ (i <= l <=> j <= l) => left[i] < left[j]
  BY DEF Gathered
<1>5. \A i, j \in 1 .. n : i < j /\ (i <= r <=> j <= r) => right[i] < right[j]
  BY DEF Gathered
<1>6. /\ \A i \in 1 .. e : \E j \in 1 .. e : left[j] = x[i]
      /\ \A j \in 1 .. e : \E i \in 1 .. e : x[i] = left[j]
      /\ \A i \in 1 .. n : \E j \in 1 .. n : right[j] = y[i]
      /\ \A j \in 1 .. n : \E i \in 1 .. n : y[i] = right[j]
  BY DEF Gathered
<1>7. \A i \in 1 .. e, j \in 1 .. n : left[i] < right[j]
  <2> SUFFICES ASSUME NEW i \in 1 .. e, NEW j \in 1 .. n PROVE left[i] < right[j]
    OBVIOUS
  <2>1. PICK p \in 1 .. e : x[p] = left[i]
    BY <1>6
  <2>2. PICK q \in 1 .. n : y[q] = right[j]
    BY <1>6
  <2>3. p \in 1 .. Len(s) /\ e + q \in 1 .. Len(s) /\ p < e + q
    BY <1>1
  <2>4. s[p] < s[e + q]
    BY <2>3 DEF Ascending
  <2> QED
    BY <2>1, <2>2, <2>4
<1>8. Accepted(left) = l /\ Accepted(right) = r
  BY AcceptedFirst
<1>9. /\ u \in Seq(1 .. Length) /\ Len(u) = e + n
      /\ \A i \in 1 .. (e + n) : u[i] = IF i <= l THEN left[i]
                                        ELSE IF i <= l + r THEN right[i - l]
                                        ELSE IF i <= e + r THEN left[i - r]
                                        ELSE right[i - e]
  <2>1. Accepted(left) \in 0 .. Len(left) /\ Accepted(right) \in 0 .. Len(right)
    BY <1>2, <1>8
  <2>2. left \in Seq(1 .. Length) /\ right \in Seq(1 .. Length)
    BY <1>2
  <2> DEFINE v == Joined(left, right, Len(left))
  <2>3. /\ v \in Seq(1 .. Length) /\ Len(v) = Len(left) + Len(right)
        /\ \A i \in 1 .. (Len(left) + Len(right)) :
             v[i] = IF i <= Accepted(left) THEN left[i]
                    ELSE IF i <= Accepted(left) + Accepted(right) THEN right[i - Accepted(left)]
                    ELSE IF i <= Len(left) + Accepted(right) THEN left[i - Accepted(right)]
                    ELSE right[i - Len(left)]
    BY <2>1, <2>2, JoinedEntries
  <2>4. v = u
    BY <1>2
  <2> HIDE DEF u, v, n
  <2> QED
    BY <1>2, <1>8, <2>3, <2>4
<1> HIDE DEF u, n
<1>10. \A i \in 1 .. l : i \in 1 .. e /\ u[i] = left[i]
  BY <1>1, <1>2, <1>9
<1>11. \A i \in (l + 1) .. (l + r) : i - l \in 1 .. n /\ i - l <= r /\ u[i] = right[i - l]
  BY <1>1, <1>2, <1>9
<1>12. \A i \in (l + r + 1) .. (e + r) : i - r \in 1 .. e /\ ~(i - r <= l) /\ u[i] = left[i - r]
  BY <1>1, <1>2, <1>9
<1>13. \A i \in (e + r + 1) .. (e + n) : i - e \in 1 .. n /\ ~(i - e <= r) /\ u[i] = right[i - e]
  BY <1>1, <1>2, <1>9
<1>14. \A i \in 1 .. (e + n) : \/ i \in 1 .. l
                               \/ i \in (l + 1) .. (l + r)
                               \/ i \in (l + r + 1) .. (e + r)
                               \/ i \in (e + r + 1) .. (e + n)
  BY <1>1, <1>2
<1>15. \A i \in 1 .. (e + n) : Holds(u[i]) <=> i <= l + r
  <2> SUFFICES ASSUME NEW i \in 1 .. (e + n) PROVE Holds(u[i]) <=> i <= l + r
    OBVIOUS
  <2>1. CASE i \in 1 .. l
    <3>1. Holds(u[i]) /\ i <= l + r
      BY <1>1, <1>2, <1>3, <1>10, <2>1
    <3> QED
      BY <3>1
  <2>2. CASE i \in (l + 1) .. (l + r)
    <3>1. Holds(u[i]) /\ i <= l + r
      BY <1>1, <1>2, <1>3, <1>11, <2>2
    <3> QED
      BY <3>1
  <2>3. CASE i \in (l + r + 1) .. (e + r)
    <3>1. ~Holds(u[i]) /\ ~(i <= l + r)
      BY <1>1, <1>2, <1>3, <1>12, <2>3
    <3> QED
      BY <3>1
  <2>4. CASE i \in (e + r + 1) .. (e + n)
    <3>1. ~Holds(u[i]) /\ ~(i <= l + r)
      BY <1>1, <1>2, <1>3, <1>13, <2>4
    <3> QED
      BY <3>1
  <2> QED
    BY <1>14, <2>1, <2>2, <2>3, <2>4
<1>16. \A i, j \in 1 .. (e + n) : i < j /\ (i <= l + r <=> j <= l + r) => u[i] < u[j]
  <2> SUFFICES ASSUME NEW i \in 1 .. (e + n), NEW j \in 1 .. (e + n), i < j,
                      i <= l + r <=> j <= l + r
               PROVE  u[i] < u[j]
    OBVIOUS
  <2>1. CASE i \in 1 .. l /\ j \in 1 .. l
    <3>1. left[i] < left[j]
      BY <1>2, <1>4, <1>10, <2>1
    <3> QED
      BY <1>10, <2>1, <3>1
  <2>2. CASE i \in 1 .. l /\ j \in (l + 1) .. (l + r)
    BY <1>7, <1>10, <1>11, <2>2
  <2>3. CASE i \in (l + 1) .. (l + r) /\ j \in (l + 1) .. (l + r)
    <3>1. i - l < j - l
      BY <1>1, <1>2
    <3>2. right[i - l] < right[j - l]
      BY <1>5, <1>11, <2>3, <3>1
    <3> QED
      BY <1>11, <2>3, <3>2
  <2>4. CASE i \in (l + r + 1) .. (e + r) /\ j \in (l + r + 1) .. (e + r)
    <3>1. i - r < j - r
      BY <1>1, <1>2
    <3>2. left[i - r] < left[j - r]
      BY <1>4, <1>12, <2>4, <3>1
    <3> QED
      BY <1>12, <2>4, <3>2
  <2>5. CASE i \in (l + r + 1) .. (e + r) /\ j \in (e + r + 1) .. (e + n)
    BY <1>7, <1>12, <1>13, <2>5
  <2>6. CASE i \in (e + r + 1) .. (e + n) /\ j \in (e + r + 1) .. (e + n)
    <3>1. i - e < j - e
      BY <1>1, <1>2
    <3>2. right[i - e] < right[j - e]
      BY <1>5, <1>13, <2>6, <3>1
    <3> QED
      BY <1>13, <2>6, <3>2
  <2>7. \/ i \in 1 .. l /\ j \in 1 .. l
        \/ i \in 1 .. l /\ j \in (l + 1) .. (l + r)
        \/ i \in (l + 1) .. (l + r) /\ j \in (l + 1) .. (l + r)
        \/ i \in (l + r + 1) .. (e + r) /\ j \in (l + r + 1) .. (e + r)
        \/ i \in (l + r + 1) .. (e + r) /\ j \in (e + r + 1) .. (e + n)
        \/ i \in (e + r + 1) .. (e + n) /\ j \in (e + r + 1) .. (e + n)
    BY <1>1, <1>2
  <2> QED
    BY <2>1, <2>2, <2>3, <2>4, <2>5, <2>6, <2>7
<1>17. \A i \in 1 .. e : \E j \in 1 .. (e + n) : u[j] = left[i]
  <2> SUFFICES ASSUME NEW i \in 1 .. e PROVE \E j \in 1 .. (e + n) : u[j] = left[i]
    OBVIOUS
  <2>1. CASE i <= l
    <3>1. i \in 1 .. l /\ i \in 1 .. (e + n)
      BY <1>1, <1>2, <2>1
    <3> QED
      BY <1>10, <3>1
  <2>2. CASE i > l
    <3>1. i + r \in (l + r + 1) .. (e + r) /\ i + r \in 1 .. (e + n) /\ i + r - r = i
      BY <1>1, <1>2, <2>2
    <3>2. u[i + r] = left[i]
      BY <1>1, <1>2, <1>12, <3>1
    <3> QED
      BY <3>1, <3>2
  <2> QED
    BY <1>1, <1>2, <2>1, <2>2
<1>18. \A i \in 1 .. n : \E j \in 1 .. (e + n) : u[j] = right[i]
  <2> SUFFICES ASSUME NEW i \in 1 .. n PROVE \E j \in 1 .. (e + n) : u[j] = right[i]
    OBVIOUS
  <2>1. CASE i <= r
    <3>1. i + l \in (l + 1) .. (l + r) /\ i + l \in 1 .. (e + n) /\ i + l - l = i
      BY <1>1, <1>2, <2>1
    <3>2. u[i + l] = right[i]
      BY <1>1, <1>2, <1>11, <3>1
    <3> QED
      BY <3>1, <3>2
  <2>2. CASE i > r
    <3>1. i + e \in (e + r + 1) .. (e + n) /\ i + e \in 1 .. (e + n) /\ i + e - e = i
      BY <1>1, <1>2, <2>2
    <3>2. u[i + e] = right[i]
      BY <1>1, <1>2, <1>13, <3>1
    <3> QED
      BY <3>1, <3>2
  <2> QED
    BY <1>1, <1>2, <2>1, <2>2
<1>19. \A i \in 1 .. Len(s) : \E j \in 1 .. Len(s) : u[j] = s[i]
  <2> SUFFICES ASSUME NEW i \in 1 .. Len(s) PROVE \E j \in 1 .. Len(s) : u[j] = s[i]
    OBVIOUS
  <2>1. CASE i <= e
    <3>1. i \in 1 .. e
      BY <1>1, <2>1
    <3>2. PICK j \in 1 .. e : left[j] = x[i]
      BY <1>6, <3>1
    <3>3. x[i] = s[i]
      BY <3>1
    <3> QED
      BY <1>1, <1>17, <3>2, <3>3
  <2>2. CASE i > e
    <3>1. i - e \in 1 .. n /\ e + (i - e) = i
      BY <1>1, <2>2
    <3>2. PICK j \in 1 .. n : right[j] = y[i - e]
      BY <1>6, <3>1
    <3>3. y[i - e] = s[i]
      BY <3>1 DEF n
    <3> QED
      BY <1>1, <1>18, <3>2, <3>3
  <2> QED
    BY <1>1, <2>1, <2>2
<1>20. \A k \in 1 .. e : \E i \in 1 .. Len(s) : s[i] = left[k]
  <2> SUFFICES ASSUME NEW k \in 1 .. e PROVE \E i \in 1 .. Len(s) : s[i] = left[k]
    OBVIOUS
  <2>1. PICK i \in 1 .. e : x[i] = left[k]
    BY <1>6
  <2>2. i \in 1 .. Len(s) /\ x[i] = s[i]
    BY <1>1
  <2> QED
    BY <2>1, <2>2
<1>21. \A k \in 1 .. n : \E i \in 1 .. Len(s) : s[i] = right[k]
  <2> SUFFICES ASSUME NEW k \in 1 .. n PROVE \E i \in 1 .. Len(s) : s[i] = right[k]
    OBVIOUS
  <2>1. PICK i \in 1 .. n : y[i] = right[k]
    BY <1>6
  <2>2. e + i \in 1 .. Len(s) /\ y[i] = s[e + i]
    BY <1>1 DEF n
  <2> QED
    BY <2>1, <2>2
<1>22. \A j \in 1 .. Len(s) : \E i \in 1 .. Len(s) : s[i] = u[j]
  <2> SUFFICES ASSUME NEW j \in 1 .. Len(s) PROVE \E i \in 1 .. Len(s) : s[i] = u[j]
    OBVIOUS
  <2>1. (\E k \in 1 .. e : u[j] = left[k]) \/ (\E k \in 1 .. n : u[j] = right[k])
    BY <1>1, <1>10, <1>11, <1>12, <1>13, <1>14
  <2>2. CASE \E k \in 1 .. e : u[j] = left[k]
    BY <1>20, <2>2
  <2>3. CASE \E k \in 1 .. n : u[j] = right[k]
    BY <1>21, <2>3
  <2> QED
    BY <2>1, <2>2, <2>3
<1>23. l + r \in 0 .. Len(s)
  BY <1>1, <1>2
<1>24. u \in Seq(1 .. Length) /\ Len(u) = Len(s)
  BY <1>1, <1>9
<1>25. /\ \A i \in 1 .. Len(s) : Holds(u[i]) <=> i <= l + r
       /\ \A i, j \in 1 .. Len(s) : i < j /\ (i <= l + r <=> j <= l + r) => u[i] < u[j]
  BY <1>1, <1>15, <1>16
<1>26. Gathered(s, u, l + r)
  BY <1>19, <1>22, <1>23, <1>24, <1>25 DEF Gathered
<1> QED
  BY <1>26 DEF u
(* Every ascending sequence is gathered.                                   *)
LEMMA GatherIsStable ==
  \A s \in Seq(1 .. Length) : Ascending(s) => \E a : Gathered(s, Gather[s], a)
<1> DEFINE S == 1 .. Length
           Fine(s) == \E a : Gathered(s, Gather[s], a)
           bad == {n \in Nat : \E s \in Seq(S) : Len(s) = n /\ Ascending(s) /\ ~Fine(s)}
<1>1. bad = {}
  <2> SUFFICES ASSUME bad # {} PROVE FALSE
    OBVIOUS
  <2>1. PICK n \in bad : \A j \in bad : n <= j
    BY LeastNatural
  <2>2. PICK s \in Seq(S) : Len(s) = n /\ Ascending(s) /\ ~Fine(s)
    OBVIOUS
  <2>3. n \in Nat /\ Len(s) \in Nat /\ DOMAIN s = 1 .. Len(s) /\ \A i \in 1 .. Len(s) : s[i] \in S
    BY LenProperties, ElementOfSeq
  <2>4. \A t \in Seq(S) : Len(t) < n /\ Ascending(t) => Fine(t)
    <3> SUFFICES ASSUME NEW t \in Seq(S), Len(t) < n, Ascending(t) PROVE Fine(t)
      OBVIOUS
    <3>1. Len(t) \in Nat /\ Len(t) \notin bad
      BY <2>1, <2>3, LenProperties
    <3> QED
      BY <3>1
  <2> HIDE DEF bad
  <2>5. Gather[s] = GatherStep(Gather, s)
    BY GatherUnfolds
  <2>6. CASE Len(s) <= 1
    <3>1. Gather[s] = s
      BY <2>5, <2>6 DEF GatherStep
    <3>2. Accepted(s) \in 0 .. Len(s) /\ \A i \in 1 .. Len(s) : Holds(s[i]) <=> i <= Accepted(s)
      <4> DEFINE held == {i \in 1 .. Len(s) : Holds(s[i])}
      <4>1. Accepted(s) = Cardinality(held)
        BY <2>3 DEF Accepted, Holds
      <4>2. CASE held = {}
        <5>1. Accepted(s) = 0
          BY <4>1, <4>2, FS_EmptySet
        <5> QED
          BY <2>3, <4>2, <5>1
      <4>3. CASE held # {}
        <5>1. Len(s) = 1 /\ held = {1}
          BY <2>3, <2>6, <4>3
        <5>2. Accepted(s) = 1
          BY <4>1, <5>1, FS_Singleton
        <5> QED
          BY <5>1, <5>2
      <4> QED
        BY <4>2, <4>3
    <3>3. \A i, j \in 1 .. Len(s) : ~(i < j)
      BY <2>3, <2>6
    <3>4. Gathered(s, s, Accepted(s))
      BY <3>2, <3>3 DEF Gathered
    <3> QED
      BY <2>2, <3>1, <3>4
  <2>7. CASE Len(s) > 1
    <3> DEFINE e == Len(s) \div 2
               x == SubSeq(s, 1, e)
               y == SubSeq(s, e + 1, Len(s))
    <3>1. /\ e \in 1 .. (Len(s) - 1)
          /\ x \in Seq(S) /\ Len(x) = e
          /\ \A i \in 1 .. e : x[i] = s[i]
          /\ y \in Seq(S) /\ Len(y) = Len(s) - e
          /\ \A i \in 1 .. (Len(s) - e) : y[i] = s[e + i]
      BY <2>7, HalvesAreShorter
    <3>2. ~(Len(s) <= 1)
      BY <2>3, <2>7
    <3>3. GatherStep(Gather, s) = Joined(Gather[x], Gather[y], e)
      BY <3>2, Zenon DEF GatherStep
    <3> HIDE DEF e, x, y
    <3>4. Ascending(x)
      <4>1. \A i \in 1 .. e : i \in 1 .. Len(s)
        BY <2>3, <3>1
      <4> QED
        BY <2>2, <3>1, <4>1 DEF Ascending
    <3>5. Ascending(y)
      <4> SUFFICES ASSUME NEW i \in 1 .. Len(y), NEW j \in 1 .. Len(y), i < j PROVE y[i] < y[j]
        BY DEF Ascending
      <4>1. e + i \in 1 .. Len(s) /\ e + j \in 1 .. Len(s) /\ e + i < e + j
        BY <2>3, <3>1
      <4>2. s[e + i] < s[e + j]
        BY <2>2, <4>1 DEF Ascending
      <4>3. y[i] = s[e + i] /\ y[j] = s[e + j]
        BY <3>1
      <4> QED
        BY <4>2, <4>3
    <3>6. PICK l : Gathered(x, Gather[x], l)
      <4>1. x \in Seq(S) /\ Len(x) < n
        BY <2>2, <2>3, <3>1
      <4>2. Fine(x)
        BY <2>4, <3>4, <4>1
      <4> QED
        BY <4>2
    <3>7. PICK r : Gathered(y, Gather[y], r)
      <4>1. y \in Seq(S) /\ Len(y) < n
        BY <2>2, <2>3, <3>1
      <4>2. Fine(y)
        BY <2>4, <3>5, <4>1
      <4> QED
        BY <4>2
    <3>8. Gathered(s, Joined(Gather[x], Gather[y], e), l + r)
      <4>1. x \in Seq(1 .. Length) /\ y \in Seq(1 .. Length)
        BY <3>1
      <4>2. Ascending(s) /\ e \in 1 .. (Len(s) - 1) /\ Len(x) = e /\ Len(y) = Len(s) - e
        BY <2>2, <3>1
      <4> QED
        BY <3>1, <3>6, <3>7, <4>1, <4>2, JoinedIsGathered
    <3>9. Gathered(s, Gather[s], l + r)
      BY <2>5, <3>3, <3>8
    <3> QED
      BY <2>2, <3>9
  <2> QED
    BY <2>3, <2>6, <2>7
<1> QED
  BY <1>1, LenProperties
-----------------------------------------------------------------------------
(* The sliding window                                                      *)

(* The counters say how many pairs from lo to hi kill each bit, and the    *)
(* word which bits any does.                                               *)
CountsPairs(c, or, s, lo, hi) ==
  /\ c \in [Bits -> Nat] /\ or \in Word
  /\ \A b \in Bits : c[b] = KillCount(s, lo, hi, b) /\ (b \in or <=> c[b] > 0)

(* The next pair counted into the window.                                  *)
LEMMA PairEnters ==
  ASSUME NEW s, NEW lo \in Int, NEW hi \in Int, lo <= hi, Kill(s, hi) \in Word,
         NEW c, NEW or, CountsPairs(c, or, s, lo, hi - 1)
  PROVE  CountsPairs(Add1(c, Kill(s, hi)), or \cup Kill(s, hi), s, lo, hi)
<1> DEFINE kill == Kill(s, hi)
           d == Add1(c, kill)
<1>1. c \in [Bits -> Nat] /\ or \in Word /\ kill \in Word
  BY DEF CountsPairs
<1>2. d \in [Bits -> Nat] /\ \A b \in Bits : d[b] = IF b \in kill THEN c[b] + 1 ELSE c[b]
  BY <1>1 DEF Add1
<1>3. or \cup kill \in Word
  BY <1>1 DEF Word
<1> HIDE DEF d
<1>4. ASSUME NEW b \in Bits
      PROVE  d[b] = KillCount(s, lo, hi, b) /\ (b \in or \cup kill <=> d[b] > 0)
  <2>1. c[b] = KillCount(s, lo, hi - 1, b) /\ (b \in or <=> c[b] > 0) /\ c[b] \in Nat
    BY <1>1 DEF CountsPairs
  <2>2. KillCount(s, lo, hi, b) = KillCount(s, lo, hi - 1, b) + IF b \in Kill(s, hi) THEN 1 ELSE 0
    BY CountPairs
  <2>3. d[b] = IF b \in kill THEN c[b] + 1 ELSE c[b]
    BY <1>2
  <2> QED
    BY <2>1, <2>2, <2>3
<1>5. CountsPairs(d, or \cup kill, s, lo, hi)
  BY <1>2, <1>3, <1>4 DEF CountsPairs
<1> QED
  BY <1>5 DEF d

(* The lowest pair of the window counted out of it.                        *)
LEMMA PairLeaves ==
  ASSUME NEW s, NEW lo \in Int, NEW hi \in Int, lo <= hi,
         NEW c, NEW or, CountsPairs(c, or, s, lo, hi),
         NEW d, d = Remove1(c, Kill(s, lo))
  PROVE  CountsPairs(d, StillKilled(or, d, Kill(s, lo)), s, lo + 1, hi)
<1> DEFINE kill == Kill(s, lo)
           left == StillKilled(or, d, kill)
<1>1. c \in [Bits -> Nat] /\ or \in Word
  BY DEF CountsPairs
<1>2. d = [b \in Bits |-> IF b \in kill THEN c[b] - 1 ELSE c[b]]
  BY DEF Remove1
<1>3. left \in Word
  BY <1>1 DEF Word, StillKilled
<1>4. ASSUME NEW b \in Bits
      PROVE  d[b] \in Nat /\ d[b] = KillCount(s, lo + 1, hi, b) /\ (b \in left <=> d[b] > 0)
  <2>1. c[b] = KillCount(s, lo, hi, b) /\ (b \in or <=> c[b] > 0) /\ c[b] \in Nat
    BY <1>1 DEF CountsPairs
  <2>2. KillCount(s, lo, hi, b) = KillCount(s, lo + 1, hi, b) + IF b \in Kill(s, lo) THEN 1 ELSE 0
    BY CountPairs
  <2>3. KillCount(s, lo + 1, hi, b) \in 0 .. (hi - (lo + 1) + 1)
    <3>1. lo + 1 \in Int /\ lo + 1 <= hi + 1
      OBVIOUS
    <3> QED
      BY <3>1, CountBounds
  <2>4. d[b] = IF b \in kill THEN c[b] - 1 ELSE c[b]
    BY <1>2
  <2>5. d[b] \in Nat /\ d[b] = KillCount(s, lo + 1, hi, b)
    BY <2>1, <2>2, <2>3, <2>4
  <2>6. b \in left <=> b \in or /\ ~(b \in kill /\ d[b] = 0)
    BY DEF StillKilled
  <2> QED
    BY <2>1, <2>4, <2>5, <2>6
<1>5. d \in [Bits -> Nat]
  BY <1>2, <1>4
<1> QED
  BY <1>3, <1>4, <1>5 DEF CountsPairs

(* What is left of the last mask is what the window's networks share.      *)
LEMMA WindowMask ==
  ASSUME NEW s \in Seq(Network), NEW lo \in 1 .. Len(s), NEW hi \in lo .. Len(s),
         NEW c, NEW or, CountsPairs(c, or, s, lo, hi - 1)
  PROVE  s[hi].mask \ or = Fixed(s, lo, hi)
<1> DEFINE killed == {b \in Bits : \E i \in lo .. (hi - 1) : b \in Kill(s, i)}
<1>1. Len(s) \in Nat
  BY LenProperties
<1>2. lo \in Int /\ hi - 1 \in Int /\ lo <= (hi - 1) + 1
  BY <1>1
<1>3. \A b \in Bits : KillCount(s, lo, hi - 1, b) > 0 <=> \E i \in lo .. (hi - 1) : b \in Kill(s, i)
  BY <1>2, CountBounds
<1>4. or \in Word /\ \A b \in Bits : b \in or <=> KillCount(s, lo, hi - 1, b) > 0
  BY DEF CountsPairs
<1>5. or = killed
  BY <1>3, <1>4 DEF Word
<1>6. s[hi].mask \ killed = Fixed(s, lo, hi)
  BY FixedByPairs
<1> QED
  BY <1>5, <1>6

-----------------------------------------------------------------------------
(* The candidates                                                          *)

Lo(w) == IF w = 1 THEN 1 ELSE w - 1
Hi(w) == IF w = 1 THEN Length ELSE w + Width - 2
MaskOf(w) == Fixed(slice, Lo(w), Hi(w))

(* A window is shorter than the slice, and no shorter than half of it.     *)
LEMMA WidthFacts ==
  ASSUME Length \in Nat, Length >= 3
  PROVE  Width \in 2 .. (Length - 1) /\ 2 * Width >= Length
  BY DEF Width

(* A window's candidate fixes the bits its networks share, and contains    *)
(* them.                                                                   *)
LEMMA CandidatesAre ==
  ASSUME slice \in Seq(Network), Length >= 3
  PROVE  /\ DOMAIN Candidates = 1 .. (Length - Width + 2)
         /\ \A w \in 1 .. (Length - Width + 2) :
              /\ Lo(w) \in 1 .. Length /\ Hi(w) \in Lo(w) .. Length
              /\ 2 * (Hi(w) - Lo(w) + 1) >= Length
              /\ Candidates[w] = FromBits(slice[Lo(w)].addr, MaskOf(w))
              /\ Candidates[w] \in Network /\ Candidates[w].mask = MaskOf(w)
              /\ \A i \in Lo(w) .. Hi(w) : Contains(Candidates[w], slice[i])
<1>1. Length \in Nat /\ Length = Len(slice)
  BY LenProperties DEF Length
<1>2. Width \in 2 .. (Length - 1) /\ 2 * Width >= Length
  BY <1>1, WidthFacts
<1> DEFINE k == Length - Width + 1
           whole == <<1 .. Length>>
           halves == [i \in 1 .. k |-> i .. (i + Width - 1)]
<1>3. k \in Nat
  BY <1>1, <1>2
<1>4. whole \in Seq(SUBSET Int) /\ Len(whole) = 1 /\ whole[1] = 1 .. Length
  BY <1>1
<1>5. halves \in Seq(SUBSET Int) /\ Len(halves) = k /\ \A i \in 1 .. k : halves[i] = i .. (i + Width - 1)
  <2>1. halves \in [1 .. k -> SUBSET Int]
    BY <1>1, <1>2
  <2>2. \A i \in 1 .. k : halves[i] = i .. (i + Width - 1)
    OBVIOUS
  <2> HIDE DEF halves, k
  <2>3. halves \in Seq(SUBSET Int) /\ Len(halves) = k
    BY <1>3, <2>1
  <2> QED
    BY <2>2, <2>3
<1>6. Windows = whole \o halves
  BY DEF Windows
<1> HIDE DEF whole, halves
<1>7. /\ Windows \in Seq(SUBSET Int) /\ Len(Windows) = 1 + k
      /\ \A w \in 1 .. (1 + k) : Windows[w] = IF w <= 1 THEN whole[w] ELSE halves[w - 1]
  <2>1. /\ whole \o halves \in Seq(SUBSET Int) /\ Len(whole \o halves) = Len(whole) + Len(halves)
        /\ \A w \in 1 .. (Len(whole) + Len(halves)) :
             (whole \o halves)[w] = IF w <= Len(whole) THEN whole[w] ELSE halves[w - Len(whole)]
    <3>1. whole \in Seq(SUBSET Int) /\ halves \in Seq(SUBSET Int)
      BY <1>4, <1>5
    <3> QED
      BY <3>1, ConcatProperties
  <2> QED
    BY <1>4, <1>5, <1>6, <2>1
<1>8. 1 + k = Length - Width + 2
  BY <1>1, <1>2
<1>9. DOMAIN Windows = 1 .. (Length - Width + 2)
  BY <1>7, <1>8, LenProperties
<1>10. /\ DOMAIN Candidates = 1 .. (Length - Width + 2)
       /\ \A w \in 1 .. (Length - Width + 2) : Candidates[w] = CommonSupernet({slice[i] : i \in Windows[w]})
  BY <1>9 DEF Candidates
<1> HIDE DEF k
<1>11. ASSUME NEW w \in 1 .. (Length - Width + 2)
       PROVE  /\ Lo(w) \in 1 .. Length /\ Hi(w) \in Lo(w) .. Length
              /\ 2 * (Hi(w) - Lo(w) + 1) >= Length
              /\ Windows[w] = Lo(w) .. Hi(w)
  <2>1. CASE w = 1
    <3>1. Lo(w) = 1 /\ Hi(w) = Length /\ Windows[w] = 1 .. Length
      BY <1>1, <1>3, <1>4, <1>7, <2>1 DEF Lo, Hi
    <3> QED
      BY <1>1, <3>1
  <2>2. CASE w # 1
    <3>1. Lo(w) = w - 1 /\ Hi(w) = w + Width - 2 /\ ~(w <= 1) /\ w \in 1 .. (1 + k)
      BY <1>1, <1>2, <1>8, <2>2 DEF Lo, Hi
    <3>2. w - 1 \in 1 .. k /\ (w - 1) + Width - 1 = w + Width - 2
      BY <1>1, <1>2, <1>3, <1>8, <3>1
    <3>3. Windows[w] = (w - 1) .. (w + Width - 2)
      BY <1>5, <1>7, <3>1, <3>2
    <3> QED
      BY <1>1, <1>2, <3>1, <3>3
  <2> QED
    BY <2>1, <2>2
<1>12. ASSUME NEW w \in 1 .. (Length - Width + 2)
       PROVE  /\ Candidates[w] = FromBits(slice[Lo(w)].addr, MaskOf(w))
              /\ Candidates[w] \in Network
              /\ \A i \in Lo(w) .. Hi(w) : Contains(Candidates[w], slice[i])
  <2> DEFINE lo == Lo(w)
             hi == Hi(w)
  <2>1. lo \in 1 .. Len(slice) /\ hi \in lo .. Len(slice)
    BY <1>1, <1>11
  <2>2. Candidates[w] = CommonSupernet({slice[i] : i \in lo .. hi})
    BY <1>10, <1>11
  <2>3. MaskOf(w) = Fixed(slice, lo, hi)
    BY DEF MaskOf
  <2> HIDE DEF lo, hi
  <2>4. /\ FromBits(slice[lo].addr, Fixed(slice, lo, hi)) \in Network
        /\ CommonSupernet({slice[i] : i \in lo .. hi}) = FromBits(slice[lo].addr, Fixed(slice, lo, hi))
        /\ \A i \in lo .. hi : Contains(FromBits(slice[lo].addr, Fixed(slice, lo, hi)), slice[i])
    BY <2>1, SupernetOf
  <2>5. Candidates[w] = FromBits(slice[lo].addr, MaskOf(w))
    BY <2>2, <2>3, <2>4
  <2>6. Candidates[w] = FromBits(slice[lo].addr, Fixed(slice, lo, hi))
    BY <2>3, <2>5
  <2> QED
    BY <2>4, <2>5, <2>6 DEF lo, hi
<1>13. \A w \in 1 .. (Length - Width + 2) : Candidates[w].mask = MaskOf(w)
  <2> SUFFICES ASSUME NEW w \in 1 .. (Length - Width + 2) PROVE Candidates[w].mask = MaskOf(w)
    OBVIOUS
  <2>1. Candidates[w] = FromBits(slice[Lo(w)].addr, MaskOf(w))
    BY <1>12
  <2>2. FromBits(slice[Lo(w)].addr, MaskOf(w)).mask = MaskOf(w)
    BY DEF FromBits
  <2> QED
    BY <2>1, <2>2
<1> QED
  BY <1>10, <1>11, <1>12, <1>13
-----------------------------------------------------------------------------
(* The inductive invariant                                                 *)

(* Before the selection nothing has moved.                                 *)
Untouched == phase # "done" => elements = [i \in 1 .. Length |-> i] /\ out = {}

Fresh ==
  phase = "start" => /\ idx = 1 /\ fullOR = {}
                  /\ CountsPairs(counters, windowOR, slice, 1, 0)

(* The pairs before idx are in fullOR, those of the first window counted.  *)
PairsScanned ==
  phase = "pairs" =>
    /\ Length >= 3 /\ idx <= Length
    /\ fullOR = {b \in Bits : \E i \in 1 .. (idx - 1) : b \in Kill(slice, i)}
    /\ CountsPairs(counters, windowOR, slice, 1, IF idx < Width THEN idx - 1 ELSE Width - 1)

(* The pairs of the window before idx are counted, of the first at the     *)
(* start.                                                                  *)
WindowCounted ==
  phase = "windows" =>
    /\ Length >= 3 /\ idx <= Length - Width + 2
    /\ CountsPairs(counters, windowOR, slice, Lo(idx), Lo(idx) + Width - 2)

(* The candidate is the first of the greatest among the first n.           *)
IsBest(n) ==
  \E w \in 1 .. n :
    /\ best = [addr |-> slice[Lo(w)].addr, mask |-> MaskOf(w)]
    /\ \A x \in 1 .. n : Le(MaskOf(x), MaskOf(w))
    /\ \A x \in 1 .. (w - 1) : Lt(MaskOf(x), MaskOf(w))

BestKept == phase = "windows" => IsBest(idx)

BInv ==
  /\ SplitTypeOK
  /\ Untouched
  /\ Fresh
  /\ PairsScanned
  /\ WindowCounted
  /\ BestKept
  /\ FirstGreatestWins
  /\ GatheredInOrder

(* The slice never moves, and every entry is a network.                    *)
LEMMA InputFacts ==
  ASSUME slice \in Seq(Network)
  PROVE  /\ Length \in Nat /\ Length = Len(slice)
         /\ \A i \in 1 .. Length : /\ slice[i] \in Network
                                   /\ slice[i].addr \in Word /\ slice[i].mask \in Word
<1>1. Length \in Nat /\ Length = Len(slice)
  BY LenProperties DEF Length
<1>2. \A i \in 1 .. Length : slice[i] \in Network
  BY <1>1, ElementOfSeq
<1> QED
  BY <1>1, <1>2, NetworkFields

(* Where nothing has moved, a pair's word is that of the slice.            *)
LEMMA KillWordIs ==
  ASSUME slice \in Seq(Network), elements = [i \in 1 .. Length |-> i],
         NEW i \in 1 .. (Length - 1)
  PROVE  KillWord(i) = Kill(slice, i) /\ Kill(slice, i) \in Word
<1>1. Length \in Nat
  BY InputFacts
<1>2. i \in 1 .. Length /\ i + 1 \in 1 .. Length
  BY <1>1
<1>3. Net(i) = slice[i] /\ Net(i + 1) = slice[i + 1]
  BY <1>2 DEF Net
<1>4. /\ slice[i].addr \in Word /\ slice[i].mask \in Word
      /\ slice[i + 1].addr \in Word
  BY <1>2, InputFacts
<1> QED
  BY <1>3, <1>4 DEF KillWord, Kill, Not, Xor, Word

(* Counts never exceed the length.                                         *)
LEMMA CountsFit ==
  ASSUME NEW s, NEW n \in Nat, NEW lo \in Int, NEW hi \in Int, lo <= hi + 1, hi - lo + 1 <= n,
         NEW c, NEW or, CountsPairs(c, or, s, lo, hi)
  PROVE  c \in [Bits -> 0 .. n]
<1>1. c \in [Bits -> Nat] /\ \A b \in Bits : c[b] = KillCount(s, lo, hi, b)
  BY DEF CountsPairs
<1>2. \A b \in Bits : KillCount(s, lo, hi, b) \in 0 .. (hi - lo + 1)
  BY CountBounds
<1>3. \A b \in Bits : c[b] \in 0 .. n
  <2> SUFFICES ASSUME NEW b \in Bits PROVE c[b] \in 0 .. n
    OBVIOUS
  <2>1. c[b] \in 0 .. (hi - lo + 1)
    BY <1>1, <1>2
  <2> QED
    BY <2>1
<1> QED
  BY <1>1, <1>3

(* The invariant holds at first.                                           *)
LEMMA InitHolds == SplitInit => BInv
<1> SUFFICES ASSUME SplitInit PROVE BInv
  OBVIOUS
<1>1. slice \in Seq(Network)
  BY SplitInputsAssumption DEF SplitInit
<1>2. Length \in Nat /\ Length = Len(slice)
  BY <1>1, InputFacts
<1>3. CountsPairs(counters, windowOR, slice, 1, 0)
  <2>1. \A b \in Bits : KillCount(slice, 1, 0, b) \in 0 .. (0 - 1 + 1)
    BY CountBounds
  <2>2. \A b \in Bits : KillCount(slice, 1, 0, b) = 0
    BY <2>1
  <2> QED
    BY <2>2 DEF SplitInit, CountsPairs, Word
<1>4. SplitTypeOK
  BY <1>1, <1>2 DEF SplitInit, SplitTypeOK, Word, Pair
<1> QED
  BY <1>2, <1>3, <1>4 DEF SplitInit, BInv, Untouched, Fresh, PairsScanned, WindowCounted, BestKept,
                          FirstGreatestWins, GatheredInOrder

(* A slice too short is refused untouched.                                 *)
LEMMA RefuseKeeps ==
  ASSUME BInv, Refuse
  PROVE  BInv'
<1>1. /\ phase' = "done" /\ out' = {} /\ Length < 3
      /\ UNCHANGED <<slice, elements, idx, counters, windowOR, fullOR, best, out>>
  BY DEF BInv, Untouched, Refuse
<1>2. Length' = Length /\ Length \in Nat
  BY <1>1, InputFacts DEF Length, BInv, SplitTypeOK
<1>3. SplitTypeOK'
  BY <1>1, <1>2 DEF BInv, SplitTypeOK
<1>4. FirstGreatestWins' /\ GatheredInOrder'
  <2>1. ~(Length' >= 3)
    BY <1>1, <1>2
  <2> QED
    BY <1>1, <2>1 DEF FirstGreatestWins, GatheredInOrder
<1> QED
  BY <1>1, <1>3, <1>4 DEF BInv, Untouched, Fresh, PairsScanned, WindowCounted, BestKept

(* The scan starts at the first pair.                                      *)
LEMMA StartKeeps ==
  ASSUME BInv, BeginScan
  PROVE  BInv'
<1>1. /\ phase = "start" /\ phase' = "pairs" /\ Length >= 3
      /\ UNCHANGED <<slice, elements, idx, counters, windowOR, fullOR, best, out>>
  BY DEF BeginScan
<1>2. slice \in Seq(Network) /\ Length \in Nat /\ Length' = Length /\ Width' = Width
  BY <1>1, InputFacts DEF Length, Width, BInv, SplitTypeOK
<1>3. Width \in 2 .. (Length - 1)
  BY <1>1, <1>2, WidthFacts
<1>4. SplitTypeOK'
  BY <1>1, <1>2 DEF BInv, SplitTypeOK
<1>5. Untouched'
  BY <1>1, <1>2 DEF BInv, Untouched
<1>6. PairsScanned'
  <2>1. idx = 1 /\ fullOR = {} /\ CountsPairs(counters, windowOR, slice, 1, 0)
    BY <1>1 DEF BInv, Fresh
  <2>2. (IF idx < Width THEN idx - 1 ELSE Width - 1) = 0
    BY <1>3, <2>1
  <2>3. {b \in Bits : \E i \in 1 .. (idx - 1) : b \in Kill(slice, i)} = {}
    BY <2>1
  <2>4. /\ idx' <= Length'
        /\ fullOR' = {b \in Bits : \E i \in 1 .. (idx' - 1) : b \in Kill(slice', i)}
    BY <1>1, <1>2, <2>1, <2>3
  <2>5. (IF idx' < Width' THEN idx' - 1 ELSE Width' - 1) = 0
    BY <1>1, <1>2, <2>2
  <2>6. CountsPairs(counters', windowOR', slice', 1, 0)
    BY <1>1, <2>1
  <2> QED
    BY <1>1, <1>2, <2>4, <2>5, <2>6 DEF PairsScanned
<1> QED
  BY <1>1, <1>4, <1>5, <1>6 DEF BInv, Fresh, WindowCounted, BestKept, FirstGreatestWins, GatheredInOrder

(* A pair is scanned.                                                      *)
LEMMA ScanPairKeeps ==
  ASSUME BInv, ScanPair
  PROVE  BInv'
<1> DEFINE kill == KillWord(idx)
           upTo == IF idx < Width THEN idx - 1 ELSE Width - 1
           upToNext == IF idx + 1 < Width THEN idx ELSE Width - 1
<1>1. /\ phase = "pairs" /\ phase' = "pairs" /\ idx < Length /\ idx' = idx + 1
      /\ fullOR' = fullOR \cup kill
      /\ UNCHANGED <<slice, elements, best, out, phase>>
  BY DEF ScanPair
<1>2. slice \in Seq(Network) /\ Length \in Nat /\ Length' = Length /\ Width' = Width /\ Length >= 3
  BY <1>1, InputFacts DEF Length, Width, BInv, SplitTypeOK, PairsScanned
<1>3. Width \in 2 .. (Length - 1) /\ idx \in 1 .. (Length - 1)
  BY <1>1, <1>2, WidthFacts DEF BInv, SplitTypeOK
<1>4. kill = Kill(slice, idx) /\ Kill(slice, idx) \in Word
  BY <1>1, <1>2, <1>3, KillWordIs DEF BInv, Untouched
<1>5. CountsPairs(counters, windowOR, slice, 1, upTo)
  BY <1>1 DEF BInv, PairsScanned
<1>6. CountsPairs(counters', windowOR', slice, 1, upToNext)
  <2>1. CASE idx < Width
    <3>1. windowOR' = windowOR \cup Kill(slice, idx) /\ counters' = Add1(counters, Kill(slice, idx))
      BY <1>4, <2>1 DEF ScanPair
    <3>2. upTo = idx - 1 /\ upToNext = idx
      BY <1>3, <2>1
    <3>3. CountsPairs(counters, windowOR, slice, 1, idx - 1)
      BY <1>5, <3>2
    <3>4. 1 \in Int /\ idx \in Int /\ 1 <= idx
      BY <1>3
    <3>5. CountsPairs(Add1(counters, Kill(slice, idx)), windowOR \cup Kill(slice, idx), slice, 1, idx)
      BY <1>4, <3>3, <3>4, PairEnters
    <3> QED
      BY <3>1, <3>2, <3>5
  <2>2. CASE ~(idx < Width)
    <3>1. counters' = counters /\ windowOR' = windowOR
      BY <2>2 DEF ScanPair
    <3>2. upTo = Width - 1 /\ upToNext = Width - 1
      BY <1>3, <2>2
    <3> QED
      BY <1>5, <3>1, <3>2
  <2> QED
    BY <2>1, <2>2
<1>7. counters' \in [Bits -> 0 .. Length]
  <2>1. /\ 1 \in Int /\ upToNext \in Int /\ 1 <= upToNext + 1 /\ upToNext - 1 + 1 <= Length
    BY <1>2, <1>3
  <2> HIDE DEF upToNext
  <2> QED
    BY <1>2, <1>6, <2>1, CountsFit
<1>8. SplitTypeOK'
  <2>1. windowOR' \in Word
    BY <1>6 DEF CountsPairs
  <2>2. fullOR' \in Word
    BY <1>1, <1>4 DEF BInv, SplitTypeOK, Word
  <2>3. idx' \in 1 .. (Length + 1)
    BY <1>1, <1>2, <1>3
  <2> QED
    BY <1>1, <1>2, <1>7, <2>1, <2>2, <2>3 DEF BInv, SplitTypeOK
<1>9. Untouched'
  BY <1>1, <1>2 DEF BInv, Untouched
<1>10. PairsScanned'
  <2>1. fullOR = {b \in Bits : \E i \in 1 .. (idx - 1) : b \in Kill(slice, i)}
    BY <1>1 DEF BInv, PairsScanned
  <2>2. \A i \in Int : i \in 1 .. idx <=> i \in 1 .. (idx - 1) \/ i = idx
    BY <1>3
  <2>3. fullOR \cup Kill(slice, idx) = {b \in Bits : \E i \in 1 .. idx : b \in Kill(slice, i)}
    <3>1. ASSUME NEW b \in Bits
          PROVE  (\E i \in 1 .. idx : b \in Kill(slice, i))
                   <=> (\E i \in 1 .. (idx - 1) : b \in Kill(slice, i)) \/ b \in Kill(slice, idx)
      BY <1>3, <2>2
    <3>2. \A b \in Kill(slice, idx) : b \in Bits
      BY <1>4 DEF Word
    <3> QED
      BY <2>1, <3>1, <3>2
  <2>4. idx' - 1 = idx /\ idx' <= Length'
    BY <1>1, <1>2, <1>3
  <2>5. fullOR' = {b \in Bits : \E i \in 1 .. (idx' - 1) : b \in Kill(slice', i)}
    BY <1>1, <1>4, <2>3, <2>4
  <2>6. (IF idx' < Width' THEN idx' - 1 ELSE Width' - 1) = upToNext
    BY <1>1, <1>2, <1>3
  <2>7. CountsPairs(counters', windowOR', slice', 1, IF idx' < Width' THEN idx' - 1 ELSE Width' - 1)
    <3> HIDE DEF upToNext
    <3> QED
      BY <1>1, <1>6, <2>6
  <2> QED
    BY <1>1, <1>2, <2>4, <2>5, <2>7 DEF PairsScanned
<1> QED
  BY <1>1, <1>8, <1>9, <1>10 DEF BInv, Fresh, WindowCounted, BestKept, FirstGreatestWins, GatheredInOrder
(* The supernet of the whole slice is the first candidate.                 *)
LEMMA TakeFullKeeps ==
  ASSUME BInv, TakeFull
  PROVE  BInv'
<1>1. /\ phase = "pairs" /\ phase' = "windows" /\ idx = Length /\ idx' = 1
      /\ best' = [addr |-> Net(1).addr, mask |-> Net(Length).mask \ fullOR]
      /\ UNCHANGED <<slice, elements, counters, windowOR, fullOR, out>>
  BY DEF TakeFull
<1>2. slice \in Seq(Network) /\ Length \in Nat /\ Length' = Length /\ Width' = Width /\ Length >= 3
      /\ Length = Len(slice)
  BY <1>1, InputFacts DEF Length, Width, BInv, SplitTypeOK, PairsScanned
<1>3. Width \in 2 .. (Length - 1)
  BY <1>2, WidthFacts
<1>4. \A w : MaskOf(w)' = MaskOf(w)
  BY <1>1, <1>2 DEF MaskOf, Hi
<1>5. Net(1) = slice[1] /\ Net(Length) = slice[Length]
  BY <1>1, <1>2 DEF Net, BInv, Untouched
<1>6. best' = [addr |-> slice[1].addr, mask |-> Fixed(slice, 1, Length)]
  <2>1. fullOR = {b \in Bits : \E i \in 1 .. (Length - 1) : b \in Kill(slice, i)}
    BY <1>1 DEF BInv, PairsScanned
  <2>2. 1 \in 1 .. Len(slice) /\ Length \in 1 .. Len(slice)
    BY <1>2
  <2>3. slice[Length].mask \ {b \in Bits : \E i \in 1 .. (Length - 1) : b \in Kill(slice, i)}
          = Fixed(slice, 1, Length)
    BY <1>2, <2>2, FixedByPairs
  <2> QED
    BY <1>1, <1>5, <2>1, <2>3
<1>7. Fixed(slice, 1, Length) \in Word /\ slice[1].addr \in Word
  BY <1>2, InputFacts DEF Fixed, Word
<1>8. SplitTypeOK'
  <2>1. best' \in Pair
    BY <1>6, <1>7 DEF Pair
  <2>2. 1 \in 1 .. (Length + 1)
    BY <1>2
  <2> QED
    BY <1>1, <1>2, <2>1, <2>2 DEF BInv, SplitTypeOK
<1>9. Untouched'
  BY <1>1, <1>2 DEF BInv, Untouched
<1>10. WindowCounted'
  <2>1. CountsPairs(counters, windowOR, slice, 1, Width - 1)
    <3>1. (IF idx < Width THEN idx - 1 ELSE Width - 1) = Width - 1
      BY <1>1, <1>2, <1>3
    <3> QED
      BY <1>1, <3>1 DEF BInv, PairsScanned
  <2>2. Lo(idx') = 1 /\ Lo(idx') + Width' - 2 = Width - 1
    BY <1>1, <1>2, <1>3 DEF Lo
  <2>3. CountsPairs(counters', windowOR', slice', Lo(idx'), Lo(idx') + Width' - 2)
    BY <1>1, <2>1, <2>2
  <2>4. idx' <= Length' - Width' + 2
    BY <1>1, <1>2, <1>3
  <2> QED
    BY <1>1, <1>2, <2>3, <2>4 DEF WindowCounted
<1>11. BestKept'
  <2>1. MaskOf(1) = Fixed(slice, 1, Length) /\ Lo(1) = 1
    BY DEF MaskOf, Lo, Hi
  <2>2. best' = [addr |-> slice'[Lo(1)].addr, mask |-> MaskOf(1)']
    BY <1>1, <1>4, <1>6, <2>1
  <2>3. \A x \in 1 .. 1 : Le(MaskOf(x)', MaskOf(1)')
    BY DEF Le
  <2>4. \A x \in 1 .. (1 - 1) : Lt(MaskOf(x)', MaskOf(1)')
    OBVIOUS
  <2>5. IsBest(1)'
    BY <2>2, <2>3, <2>4 DEF IsBest
  <2> QED
    BY <1>1, <2>5 DEF BestKept, IsBest
<1> QED
  BY <1>1, <1>8, <1>9, <1>10, <1>11 DEF BInv, Fresh, PairsScanned, FirstGreatestWins, GatheredInOrder

(* The greater of two keeps the order of the first of the greatest.        *)
LEMMA BestAdvances ==
  ASSUME NEW n \in Nat \ {0}, IsBest(n),
         \A x \in 1 .. (n + 1) : MaskOf(x) \in Word,
         NEW b,
         b = IF Lt(best.mask, MaskOf(n + 1))
               THEN [addr |-> slice[Lo(n + 1)].addr, mask |-> MaskOf(n + 1)]
               ELSE best
  PROVE  \E w \in 1 .. (n + 1) :
           /\ b = [addr |-> slice[Lo(w)].addr, mask |-> MaskOf(w)]
           /\ \A x \in 1 .. (n + 1) : Le(MaskOf(x), MaskOf(w))
           /\ \A x \in 1 .. (w - 1) : Lt(MaskOf(x), MaskOf(w))
<1>1. PICK w \in 1 .. n : /\ best = [addr |-> slice[Lo(w)].addr, mask |-> MaskOf(w)]
                          /\ \A x \in 1 .. n : Le(MaskOf(x), MaskOf(w))
                          /\ \A x \in 1 .. (w - 1) : Lt(MaskOf(x), MaskOf(w))
  BY DEF IsBest
<1>2. best.mask = MaskOf(w) /\ w \in 1 .. (n + 1) /\ n + 1 \in 1 .. (n + 1)
  BY <1>1
<1>3. \A x \in 1 .. (n + 1) : x \in 1 .. n \/ x = n + 1
  OBVIOUS
<1>4. MaskOf(w) \in Word /\ MaskOf(n + 1) \in Word
  BY <1>2
<1>5. CASE Lt(MaskOf(w), MaskOf(n + 1))
  <2>1. ASSUME NEW x \in 1 .. n PROVE Lt(MaskOf(x), MaskOf(n + 1))
    <3>1. MaskOf(x) = MaskOf(w) \/ Lt(MaskOf(x), MaskOf(w))
      BY <1>1 DEF Le
    <3>2. MaskOf(x) \in Word
      BY <2>1
    <3> QED
      BY <1>4, <1>5, <3>1, <3>2, LtTransitive
  <2>2. \A x \in 1 .. (n + 1) : Le(MaskOf(x), MaskOf(n + 1))
    BY <1>3, <2>1 DEF Le
  <2>3. \A x \in 1 .. (n + 1 - 1) : Lt(MaskOf(x), MaskOf(n + 1))
    BY <2>1
  <2>4. b = [addr |-> slice[Lo(n + 1)].addr, mask |-> MaskOf(n + 1)]
    BY <1>2, <1>5
  <2> QED
    BY <1>2, <2>2, <2>3, <2>4
<1>6. CASE ~Lt(MaskOf(w), MaskOf(n + 1))
  <2>1. Le(MaskOf(n + 1), MaskOf(w))
    BY <1>4, <1>6, LtTotal DEF Le
  <2>2. \A x \in 1 .. (n + 1) : Le(MaskOf(x), MaskOf(w))
    BY <1>1, <1>3, <2>1
  <2>3. b = best
    BY <1>2, <1>6
  <2> QED
    BY <1>1, <1>2, <2>2, <2>3
<1> QED
  BY <1>5, <1>6

(* The window slides by one network, and its candidate is compared.        *)
LEMMA SlideWindowKeeps ==
  ASSUME BInv, SlideWindow
  PROVE  BInv'
<1> DEFINE last == idx + Width - 1
           common == Net(last).mask \ windowOR'
<1>1. /\ phase = "windows" /\ phase' = "windows" /\ idx <= Length - Width + 1 /\ idx' = idx + 1
      /\ best' = IF Lt(best.mask, common) THEN [addr |-> Net(idx).addr, mask |-> common] ELSE best
      /\ UNCHANGED <<slice, elements, fullOR, out>>
  BY DEF SlideWindow, Better
<1>2. slice \in Seq(Network) /\ Length \in Nat /\ Length' = Length /\ Width' = Width /\ Length >= 3
      /\ Length = Len(slice)
  BY <1>1, InputFacts DEF Length, Width, BInv, SplitTypeOK, WindowCounted
<1>3. Width \in 2 .. (Length - 1) /\ idx \in 1 .. Length
  BY <1>1, <1>2, WidthFacts DEF BInv, SplitTypeOK
<1>4. last \in idx .. Length /\ last \in 1 .. Length
  BY <1>1, <1>2, <1>3
<1>5. \A w : MaskOf(w)' = MaskOf(w)
  BY <1>1, <1>2 DEF MaskOf, Hi
<1>6. elements = [i \in 1 .. Length |-> i]
  BY <1>1 DEF BInv, Untouched
<1>7. Net(idx) = slice[idx] /\ Net(last) = slice[last]
  BY <1>3, <1>4, <1>6 DEF Net
<1>8. CountsPairs(counters', windowOR', slice, idx, idx + Width - 2)
  <2>1. CASE idx = 1
    <3>1. counters' = counters /\ windowOR' = windowOR
      BY <2>1 DEF SlideWindow
    <3>2. Lo(idx) = idx /\ Lo(idx) + Width - 2 = idx + Width - 2
      BY <2>1 DEF Lo
    <3>3. CountsPairs(counters, windowOR, slice, Lo(idx), Lo(idx) + Width - 2)
      BY <1>1 DEF BInv, WindowCounted
    <3> QED
      BY <3>1, <3>2, <3>3
  <2>2. CASE idx # 1
    <3> DEFINE p == idx - 1
               q == idx + Width - 2
               d == Remove1(counters, Kill(slice, p))
               x == StillKilled(windowOR, d, Kill(slice, p))
    <3>1. p \in 1 .. (Length - 1) /\ q \in 1 .. (Length - 1) /\ p <= q - 1 /\ idx > 1
          /\ p + 1 = idx /\ idx <= q
      BY <1>1, <1>2, <1>3, <2>2
    <3>2. Lo(idx) = p /\ Lo(idx) + Width - 2 = q - 1
      BY <1>3, <2>2 DEF Lo
    <3>3. CountsPairs(counters, windowOR, slice, p, q - 1)
      <4>1. CountsPairs(counters, windowOR, slice, Lo(idx), Lo(idx) + Width - 2)
        BY <1>1 DEF BInv, WindowCounted
      <4> QED
        BY <3>2, <4>1
    <3>4. KillWord(p) = Kill(slice, p) /\ KillWord(q) = Kill(slice, q) /\ Kill(slice, q) \in Word
      <4> HIDE DEF p, q
      <4> QED
        BY <1>2, <1>6, <3>1, KillWordIs
    <3>5. counters' = Add1(d, Kill(slice, q)) /\ windowOR' = x \cup Kill(slice, q)
      BY <3>1, <3>4 DEF SlideWindow
    <3> HIDE DEF p, q, d
    <3>6. CountsPairs(d, x, slice, p + 1, q - 1)
      <4>1. p \in Int /\ q - 1 \in Int /\ p <= q - 1
        BY <3>1
      <4>2. d = Remove1(counters, Kill(slice, p))
        BY DEF d
      <4> QED
        BY <3>3, <4>1, <4>2, PairLeaves
    <3>7. CountsPairs(d, x, slice, idx, q - 1)
      BY <3>1, <3>6
    <3>8. CountsPairs(Add1(d, Kill(slice, q)), x \cup Kill(slice, q), slice, idx, q)
      <4>1. idx \in Int /\ q \in Int /\ idx <= q
        BY <1>3, <3>1
      <4> HIDE DEF x
      <4> QED
        BY <3>4, <3>7, <4>1, PairEnters
    <3> QED
      BY <3>5, <3>8 DEF q
  <2> QED
    BY <2>1, <2>2
<1>9. common = MaskOf(idx + 1) /\ Lo(idx + 1) = idx
  <2>1. Lo(idx + 1) = idx /\ Hi(idx + 1) = last
    BY <1>2, <1>3 DEF Lo, Hi
  <2>2. last - 1 = idx + Width - 2
    BY <1>2, <1>3
  <2>3. CountsPairs(counters', windowOR', slice, idx, last - 1)
    BY <1>8, <2>2
  <2>4. idx \in 1 .. Len(slice) /\ last \in idx .. Len(slice)
    BY <1>2, <1>3, <1>4
  <2>5. slice[last].mask \ windowOR' = Fixed(slice, idx, last)
    <3> HIDE DEF last
    <3> QED
      BY <1>2, <2>3, <2>4, WindowMask
  <2> QED
    BY <1>7, <2>1, <2>5 DEF MaskOf
<1>10. \A w : MaskOf(w) \in Word
  BY DEF MaskOf, Fixed, Word
<1>11. best' = IF Lt(best.mask, MaskOf(idx + 1))
                 THEN [addr |-> slice[Lo(idx + 1)].addr, mask |-> MaskOf(idx + 1)]
                 ELSE best
  BY <1>1, <1>7, <1>9
<1>12. counters' \in [Bits -> 0 .. Length]
  <2> DEFINE q == idx + Width - 2
  <2>1. idx \in Int /\ q \in Int /\ idx <= q + 1 /\ q - idx + 1 <= Length
    BY <1>2, <1>3
  <2>2. CountsPairs(counters', windowOR', slice, idx, q)
    BY <1>8
  <2> HIDE DEF q
  <2> QED
    BY <1>2, <2>1, <2>2, CountsFit
<1>13. SplitTypeOK'
  <2>1. windowOR' \in Word
    BY <1>8 DEF CountsPairs
  <2>2. best' \in Pair
    <3>1. slice[idx].addr \in Word /\ best \in Pair
      BY <1>2, <1>3, InputFacts DEF BInv, SplitTypeOK
    <3> QED
      BY <1>9, <1>10, <1>11, <3>1 DEF Pair
  <2>3. idx' \in 1 .. (Length + 1)
    BY <1>1, <1>2, <1>3
  <2> QED
    BY <1>1, <1>2, <1>12, <2>1, <2>2, <2>3 DEF BInv, SplitTypeOK
<1>14. Untouched'
  BY <1>1, <1>2 DEF BInv, Untouched
<1>15. WindowCounted'
  <2>1. Lo(idx') = idx /\ Lo(idx') + Width' - 2 = idx + Width - 2
    BY <1>1, <1>2, <1>9
  <2>2. CountsPairs(counters', windowOR', slice', Lo(idx'), Lo(idx') + Width' - 2)
    BY <1>1, <1>8, <2>1
  <2>3. idx' <= Length' - Width' + 2
    BY <1>1, <1>2, <1>3
  <2> QED
    BY <1>1, <1>2, <2>2, <2>3 DEF WindowCounted
<1>16. BestKept'
  <2>1. IsBest(idx)
    BY <1>1 DEF BInv, BestKept
  <2>2. idx \in Nat \ {0}
    BY <1>3
  <2>3. PICK w \in 1 .. (idx + 1) :
           /\ best' = [addr |-> slice[Lo(w)].addr, mask |-> MaskOf(w)]
           /\ \A x \in 1 .. (idx + 1) : Le(MaskOf(x), MaskOf(w))
           /\ \A x \in 1 .. (w - 1) : Lt(MaskOf(x), MaskOf(w))
    BY <1>10, <1>11, <2>1, <2>2, BestAdvances
  <2>4. \E v \in 1 .. idx' :
           /\ best' = [addr |-> slice'[Lo(v)].addr, mask |-> MaskOf(v)']
           /\ \A x \in 1 .. idx' : Le(MaskOf(x)', MaskOf(v)')
           /\ \A x \in 1 .. (v - 1) : Lt(MaskOf(x)', MaskOf(v)')
    BY <1>1, <1>5, <2>3
  <2> QED
    BY <2>4 DEF BestKept, IsBest
<1> QED
  BY <1>1, <1>13, <1>14, <1>15, <1>16 DEF BInv, Fresh, PairsScanned, FirstGreatestWins, GatheredInOrder
(* What the selection finds and where it puts it.                          *)
LEMMA Selection ==
  ASSUME BInv, Select
  PROVE  \E w \in 1 .. (Length - Width + 2), start \in 1 .. Length, a \in 1 .. Length :
           /\ Candidate = Candidates[w]
           /\ \A x \in 1 .. (Length - Width + 2) : Le(Candidates[x].mask, Candidates[w].mask)
           /\ \A x \in 1 .. (w - 1) : Lt(Candidates[x].mask, Candidates[w].mask)
           /\ out' = {[network |-> Candidate, start |-> start, end |-> start + a]}
           /\ start + a <= Length + 1
           /\ \A i \in 1 .. Length : Holds(i) => start <= i
           /\ elements' \in [1 .. Length -> 1 .. Length]
           /\ \A p \in 1 .. Length : Holds(elements'[p]) <=> p \in start .. (start + a - 1)
           /\ \A p, q \in 1 .. Length :
                p < q /\ (Holds(elements'[p]) <=> Holds(elements'[q])) => elements'[p] < elements'[q]
           /\ \A i \in 1 .. Length : \E p \in 1 .. Length : elements'[p] = i
<1> DEFINE last == Length - Width + 2
<1>1. phase = "windows" /\ idx > Length - Width + 1
  BY DEF Select
<1>2. slice \in Seq(Network) /\ Length \in Nat /\ Length >= 3 /\ idx \in Nat
  BY <1>1, InputFacts DEF BInv, SplitTypeOK, WindowCounted
<1>3. Width \in 2 .. (Length - 1)
  BY <1>2, WidthFacts
<1>4. idx = last
  BY <1>1, <1>2, <1>3 DEF BInv, WindowCounted
<1>5. IsBest(last)
  BY <1>1, <1>4 DEF BInv, BestKept
<1>6. elements = [i \in 1 .. Length |-> i]
  BY <1>1 DEF BInv, Untouched
<1>7. PICK w \in 1 .. last :
        /\ best = [addr |-> slice[Lo(w)].addr, mask |-> MaskOf(w)]
        /\ \A x \in 1 .. last : Le(MaskOf(x), MaskOf(w))
        /\ \A x \in 1 .. (w - 1) : Lt(MaskOf(x), MaskOf(w))
  BY <1>5 DEF IsBest
<1>8. \A x \in 1 .. last : /\ Lo(x) \in 1 .. Length /\ Hi(x) \in Lo(x) .. Length
                           /\ Candidates[x] = FromBits(slice[Lo(x)].addr, MaskOf(x))
                           /\ Candidates[x].mask = MaskOf(x)
                           /\ \A i \in Lo(x) .. Hi(x) : Contains(Candidates[x], slice[i])
  BY <1>2, CandidatesAre
<1>9. Candidate = Candidates[w]
  BY <1>7, <1>8 DEF Candidate
<1>10. /\ \A x \in 1 .. last : Le(Candidates[x].mask, Candidates[w].mask)
       /\ \A x \in 1 .. (w - 1) : Lt(Candidates[x].mask, Candidates[w].mask)
  <2>1. \A x \in 1 .. (w - 1) : x \in 1 .. last
    BY <1>2, <1>3
  <2> QED
    BY <1>7, <1>8, <2>1
<1> DEFINE inside == {i \in 1 .. Length : Holds(i)}
           start == CHOOSE i \in inside : \A j \in inside : i <= j
           rest == SubSeq(elements, start, Length)
           g == Gather[rest]
           n == Length - start + 1
<1>11. inside = {i \in 1 .. Length : Contains(Candidate, Net(i))}
  BY <1>6 DEF Net, Holds
<1>12. inside # {}
  <2>1. Lo(w) \in 1 .. Length /\ Lo(w) \in Lo(w) .. Hi(w)
    BY <1>8
  <2>2. Contains(Candidate, slice[Lo(w)])
    BY <1>8, <1>9, <2>1
  <2> QED
    BY <2>1, <2>2 DEF Holds
<1>13. start \in inside /\ \A j \in inside : start <= j
  <2>1. inside \subseteq Nat
    BY <1>2
  <2>2. \E i \in inside : \A j \in inside : i <= j
    BY <1>12, <2>1, LeastNatural
  <2> QED
    BY <2>2
<1>14. /\ elements' = SubSeq(elements, 1, start - 1) \o g
       /\ out' = {[network |-> Candidate, start |-> start, end |-> start + Accepted(rest)]}
  BY <1>11, <1>12 DEF Select
<1> HIDE DEF start
<1>15. start \in 1 .. Length /\ Holds(start) /\ \A i \in 1 .. Length : Holds(i) => start <= i
  BY <1>13
<1> HIDE DEF inside
<1>16. n \in 1 .. Length /\ start + n = Length + 1
  BY <1>2, <1>15
<1>17. /\ rest \in Seq(1 .. Length) /\ Len(rest) = n
       /\ \A i \in 1 .. n : rest[i] = start + i - 1
  <2>1. start \in Int /\ Length \in Int /\ \A i \in start .. Length : elements[i] \in 1 .. Length
    BY <1>2, <1>6, <1>15
  <2>2. /\ rest \in Seq(1 .. Length) /\ Len(rest) = (IF start <= Length THEN Length - start + 1 ELSE 0)
        /\ \A i \in 1 .. (Length - start + 1) : rest[i] = elements[start + i - 1]
    BY <2>1, SubSeqProperties
  <2> HIDE DEF rest
  <2>3. Len(rest) = n
    BY <1>2, <1>15, <2>2
  <2>4. \A i \in 1 .. n : start + i - 1 \in 1 .. Length
    BY <1>2, <1>15
  <2> QED
    BY <1>6, <2>2, <2>3, <2>4
<1> HIDE DEF rest, n
<1>18. Ascending(rest)
  <2>1. \A i, j \in 1 .. n : i < j => start + i - 1 < start + j - 1
    BY <1>2, <1>15, <1>16
  <2> QED
    BY <1>17, <2>1 DEF Ascending
<1>19. PICK a : Gathered(rest, g, a)
  BY <1>17, <1>18, GatherIsStable
<1> HIDE DEF g
<1>20. Accepted(rest) = a
  BY <1>2, <1>17, <1>18, <1>19, AcceptedKept
<1>21. a \in 0 .. n /\ g \in Seq(1 .. Length) /\ Len(g) = n
  BY <1>17, <1>19 DEF Gathered
<1>22. /\ \A i \in 1 .. n : Holds(g[i]) <=> i <= a
       /\ \A i, j \in 1 .. n : i < j /\ (i <= a <=> j <= a) => g[i] < g[j]
       /\ \A i \in 1 .. n : \E j \in 1 .. n : g[j] = rest[i]
       /\ \A j \in 1 .. n : \E i \in 1 .. n : rest[i] = g[j]
  BY <1>17, <1>19 DEF Gathered
<1>23. /\ elements' \in Seq(1 .. Length) /\ Len(elements') = Length
       /\ \A p \in 1 .. Length : elements'[p] = IF p < start THEN p ELSE g[p - start + 1]
  <2> DEFINE head == SubSeq(elements, 1, start - 1)
  <2>1. 1 \in Int /\ start - 1 \in Int /\ \A i \in 1 .. (start - 1) : elements[i] \in 1 .. Length
    BY <1>2, <1>6, <1>15
  <2>2. /\ head \in Seq(1 .. Length) /\ Len(head) = (IF 1 <= start - 1 THEN start - 1 - 1 + 1 ELSE 0)
        /\ \A i \in 1 .. (start - 1 - 1 + 1) : head[i] = elements[1 + i - 1]
    BY <2>1, SubSeqProperties
  <2> HIDE DEF head
  <2>3. Len(head) = start - 1
    BY <1>15, <2>2
  <2>4. \A i \in 1 .. (start - 1) : head[i] = i
    <3> SUFFICES ASSUME NEW i \in 1 .. (start - 1) PROVE head[i] = i
      OBVIOUS
    <3>1. i \in 1 .. (start - 1 - 1 + 1) /\ 1 + i - 1 = i /\ i \in 1 .. Length
      BY <1>2, <1>15
    <3> QED
      BY <1>6, <2>2, <3>1
  <2>5. /\ head \o g \in Seq(1 .. Length) /\ Len(head \o g) = Len(head) + Len(g)
        /\ \A i \in 1 .. (Len(head) + Len(g)) : (head \o g)[i] = IF i <= Len(head) THEN head[i] ELSE g[i - Len(head)]
    <3>1. head \in Seq(1 .. Length) /\ g \in Seq(1 .. Length)
      BY <1>21, <2>2
    <3> QED
      BY <3>1, ConcatProperties
  <2>6. elements' = head \o g
    BY <1>14 DEF head
  <2>7. Len(head) + Len(g) = Length
    BY <1>2, <1>15, <1>16, <1>21, <2>3
  <2>8. ASSUME NEW p \in 1 .. Length
        PROVE  elements'[p] = IF p < start THEN p ELSE g[p - start + 1]
    <3>1. elements'[p] = IF p <= start - 1 THEN head[p] ELSE g[p - (start - 1)]
      BY <2>3, <2>5, <2>6, <2>7
    <3>2. (p <= start - 1 <=> p < start) /\ p - (start - 1) = p - start + 1
      BY <1>2, <1>15
    <3>3. p < start => head[p] = p
      BY <1>2, <1>15, <2>4
    <3> QED
      BY <3>1, <3>2, <3>3
  <2> QED
    BY <2>5, <2>6, <2>7, <2>8
<1>24. /\ \A p \in 1 .. (start - 1) : p \in 1 .. Length /\ elements'[p] = p /\ ~Holds(p)
       /\ \A p \in start .. Length : /\ p \in 1 .. Length /\ elements'[p] = g[p - start + 1]
                                     /\ p - start + 1 \in 1 .. n
  <2>1. ASSUME NEW p \in 1 .. (start - 1)
        PROVE  p \in 1 .. Length /\ elements'[p] = p /\ ~Holds(p)
    <3>1. p \in 1 .. Length /\ p < start /\ ~(start <= p)
      BY <1>2, <1>15
    <3> QED
      BY <1>15, <1>23, <3>1
  <2>2. ASSUME NEW p \in start .. Length
        PROVE  /\ p \in 1 .. Length /\ elements'[p] = g[p - start + 1]
               /\ p - start + 1 \in 1 .. n
    <3>1. p \in 1 .. Length /\ ~(p < start) /\ p - start + 1 \in 1 .. n
      BY <1>2, <1>15, <1>16
    <3> QED
      BY <1>23, <3>1
  <2> QED
    BY <2>1, <2>2
<1>25. \A p \in 1 .. Length : p \in 1 .. (start - 1) \/ p \in start .. Length
  BY <1>2, <1>15
<1>26. elements' \in [1 .. Length -> 1 .. Length]
  BY <1>2, <1>23, ElementOfSeq, LenProperties
<1>27. \A j \in 1 .. n : start <= g[j] /\ g[j] \in Int
  <2> SUFFICES ASSUME NEW j \in 1 .. n PROVE start <= g[j] /\ g[j] \in Int
    OBVIOUS
  <2>1. PICK i \in 1 .. n : rest[i] = g[j]
    BY <1>22
  <2>2. g[j] = start + i - 1
    BY <1>17, <2>1
  <2> QED
    BY <1>15, <2>2
<1>28. ASSUME NEW p \in 1 .. Length
       PROVE  Holds(elements'[p]) <=> p \in start .. (start + a - 1)
  <2>1. CASE p \in 1 .. (start - 1)
    <3>1. ~Holds(elements'[p]) /\ ~(p \in start .. (start + a - 1))
      BY <1>15, <1>24, <2>1
    <3> QED
      BY <3>1
  <2>2. CASE p \in start .. Length
    <3>1. Holds(elements'[p]) <=> p - start + 1 <= a
      BY <1>22, <1>24, <2>2
    <3>2. p - start + 1 <= a <=> p \in start .. (start + a - 1)
      BY <1>2, <1>15, <1>16, <1>21, <2>2
    <3> QED
      BY <3>1, <3>2
  <2> QED
    BY <1>25, <2>1, <2>2
<1>29. ASSUME NEW p \in 1 .. Length, NEW q \in 1 .. Length, p < q,
              Holds(elements'[p]) <=> Holds(elements'[q])
       PROVE  elements'[p] < elements'[q]
  <2>1. CASE p \in 1 .. (start - 1) /\ q \in 1 .. (start - 1)
    BY <1>24, <1>29, <2>1
  <2>2. CASE p \in 1 .. (start - 1) /\ q \in start .. Length
    <3>1. elements'[p] = p /\ p < start /\ start <= elements'[q] /\ elements'[q] \in Int
      BY <1>15, <1>24, <1>27, <2>2
    <3> QED
      BY <1>15, <3>1
  <2>3. CASE p \in start .. Length /\ q \in start .. Length
    <3> DEFINE i == p - start + 1
               j == q - start + 1
    <3>1. i \in 1 .. n /\ j \in 1 .. n /\ elements'[p] = g[i] /\ elements'[q] = g[j]
      BY <1>24, <2>3
    <3>2. i < j
      BY <1>15, <1>29
    <3> HIDE DEF i, j
    <3>3. i <= a <=> j <= a
      BY <1>22, <1>29, <3>1
    <3> QED
      BY <1>22, <3>1, <3>2, <3>3
  <2>4. q \in 1 .. (start - 1) => p \in 1 .. (start - 1)
    BY <1>15, <1>29
  <2> QED
    BY <1>25, <2>1, <2>2, <2>3, <2>4
<1>30. \A i \in 1 .. Length : \E p \in 1 .. Length : elements'[p] = i
  <2> SUFFICES ASSUME NEW i \in 1 .. Length PROVE \E p \in 1 .. Length : elements'[p] = i
    OBVIOUS
  <2>1. CASE i \in 1 .. (start - 1)
    BY <1>24, <2>1
  <2>2. CASE i \in start .. Length
    <3>1. i - start + 1 \in 1 .. n /\ start + (i - start + 1) - 1 = i
      BY <1>2, <1>15, <1>16, <2>2
    <3>2. rest[i - start + 1] = i
      BY <1>17, <3>1
    <3>3. PICK j \in 1 .. n : g[j] = i
      BY <1>22, <3>1, <3>2
    <3>4. start + j - 1 \in start .. Length /\ start + j - 1 - start + 1 = j
      BY <1>2, <1>15, <1>16
    <3>5. elements'[start + j - 1] = g[j]
      BY <1>2, <1>15, <1>16, <1>24, <3>4
    <3> QED
      BY <1>24, <3>3, <3>4, <3>5
  <2> QED
    BY <1>25, <2>1, <2>2
<1>31. a \in 1 .. Length /\ start + a <= Length + 1
  <2>1. PICK p \in 1 .. Length : elements'[p] = start
    BY <1>15, <1>30
  <2>2. p \in start .. (start + a - 1)
    BY <1>15, <1>28, <2>1
  <2>3. a >= 1
    BY <1>15, <1>21, <2>2
  <2> QED
    BY <1>2, <1>15, <1>16, <1>21, <2>3
<1>32. out' = {[network |-> Candidate, start |-> start, end |-> start + a]}
  BY <1>14, <1>20
<1> QED
  <2> HIDE DEF last
  <2>1. w \in 1 .. last /\ start \in 1 .. Length
    BY <1>15
  <2>2. \A p, q \in 1 .. Length :
          p < q /\ (Holds(elements'[p]) <=> Holds(elements'[q])) => elements'[p] < elements'[q]
    BY <1>29
  <2> QED
    BY <1>9, <1>10, <1>15, <1>26, <1>28, <1>30, <1>31, <1>32, <2>1, <2>2 DEF last
(* What GatheredInOrder says of the selected interval o, of n elements.    *)
Stable(n, members, positions, o) ==
  LET inside == {i \in 1 .. n : Contains(o.network, members[i])}
  IN  /\ {positions[p] : p \in o.start .. (o.end - 1)} = inside
      /\ \A i \in inside : o.start <= i
      /\ 2 * Cardinality(inside) >= n
      /\ \A p, q \in 1 .. n :
           p < q /\ (positions[p] \in inside <=> positions[q] \in inside)
             => positions[p] < positions[q]

(* The property, by the definition of what is stable.                      *)
LEMMA GatheredInOrderIs ==
  GatheredInOrder
    <=> (phase = "done" /\ Length >= 3 => \E o \in out : Stable(Length, slice, elements, o))
BY Zenon DEF GatheredInOrder, Stable

(* The chosen networks are gathered.                                       *)
LEMMA SelectKeeps ==
  ASSUME BInv, Select
  PROVE  BInv'
<1>1. /\ phase = "windows" /\ phase' = "done"
      /\ UNCHANGED <<slice, idx, counters, windowOR, fullOR, best>>
  BY DEF Select
<1>2. slice \in Seq(Network) /\ Length \in Nat /\ Length' = Length /\ Width' = Width /\ Length >= 3
      /\ Length = Len(slice)
  BY <1>1, InputFacts DEF Length, Width, BInv, SplitTypeOK, WindowCounted
<1>3. Candidates' = Candidates
  BY <1>1, <1>2 DEF Candidates, Windows
<1> DEFINE last == Length - Width + 2
<1>4. PICK w \in 1 .. last, start \in 1 .. Length, a \in 1 .. Length :
        /\ Candidate = Candidates[w]
        /\ \A x \in 1 .. last : Le(Candidates[x].mask, Candidates[w].mask)
        /\ \A x \in 1 .. (w - 1) : Lt(Candidates[x].mask, Candidates[w].mask)
        /\ out' = {[network |-> Candidate, start |-> start, end |-> start + a]}
        /\ start + a <= Length + 1
        /\ \A i \in 1 .. Length : Holds(i) => start <= i
        /\ elements' \in [1 .. Length -> 1 .. Length]
        /\ \A p \in 1 .. Length : Holds(elements'[p]) <=> p \in start .. (start + a - 1)
        /\ \A p, q \in 1 .. Length :
             p < q /\ (Holds(elements'[p]) <=> Holds(elements'[q])) => elements'[p] < elements'[q]
        /\ \A i \in 1 .. Length : \E p \in 1 .. Length : elements'[p] = i
  BY Selection
<1>5. /\ DOMAIN Candidates = 1 .. last
      /\ Lo(w) \in 1 .. Length /\ Hi(w) \in Lo(w) .. Length
      /\ 2 * (Hi(w) - Lo(w) + 1) >= Length
      /\ Candidates[w] \in Network
      /\ \A i \in Lo(w) .. Hi(w) : Contains(Candidates[w], slice[i])
  BY <1>2, CandidatesAre
<1> DEFINE found == [network |-> Candidate, start |-> start, end |-> start + a]
<1>6. out' = {found} /\ found.start = start /\ found.end = start + a /\ found.network = Candidate
  BY <1>4
<1> HIDE DEF found
<1>7. SplitTypeOK'
  <2>1. \A s \in out' : /\ s.network \in Network /\ s.start \in 1 .. Length
                        /\ s.end \in 2 .. (Length + 1)
    <3>1. Candidate \in Network /\ start + a \in 2 .. (Length + 1)
      BY <1>2, <1>4, <1>5
    <3>2. found.network \in Network /\ found.start \in 1 .. Length /\ found.end \in 2 .. (Length + 1)
      BY <1>6, <3>1
    <3> QED
      BY <1>6, <3>2
  <2> QED
    BY <1>1, <1>2, <1>4, <2>1 DEF BInv, SplitTypeOK
<1>8. FirstGreatestWins'
  <2>1. /\ w \in DOMAIN Candidates
        /\ \A s \in out' : s.network = Candidates[w]
        /\ \A x \in DOMAIN Candidates : Le(Candidates[x].mask, Candidates[w].mask)
        /\ \A x \in 1 .. (w - 1) : Lt(Candidates[x].mask, Candidates[w].mask)
    <3>1. found.network = Candidates[w]
      BY <1>4, <1>6
    <3>2. \A s \in out' : s.network = Candidates[w]
      BY <1>6, <3>1
    <3> QED
      BY <1>4, <1>5, <3>2
  <2> HIDE DEF last
  <2>2. \E v \in DOMAIN Candidates' :
          /\ \A s \in out' : s.network = Candidates'[v]
          /\ \A x \in DOMAIN Candidates' : Le(Candidates'[x].mask, Candidates'[v].mask)
          /\ \A x \in 1 .. (v - 1) : Lt(Candidates'[x].mask, Candidates'[v].mask)
    BY <1>3, <2>1
  <2> QED
    BY <2>2 DEF FirstGreatestWins
<1>9. GatheredInOrder'
  <2> DEFINE inside == {i \in 1 .. Length : Holds(i)}
  <2>1. found \in out' /\ found.start = start /\ found.end = start + a /\ found.network = Candidate
    BY <1>6
  <2>2. inside = {i \in 1 .. Length : Contains(found.network, slice[i])}
    BY <2>1 DEF Holds
  <2>3. {elements'[p] : p \in start .. (start + a - 1)} = inside
    <3>1. \A p \in start .. (start + a - 1) : p \in 1 .. Length /\ elements'[p] \in inside
      <4>1. \A p \in start .. (start + a - 1) : p \in 1 .. Length
        BY <1>2, <1>4
      <4> QED
        BY <1>4, <4>1
    <3>2. \A i \in inside : \E p \in start .. (start + a - 1) : elements'[p] = i
      <4> SUFFICES ASSUME NEW i \in inside PROVE \E p \in start .. (start + a - 1) : elements'[p] = i
        OBVIOUS
      <4>1. i \in 1 .. Length /\ Holds(i)
        OBVIOUS
      <4>2. PICK p \in 1 .. Length : elements'[p] = i
        BY <1>4, <4>1
      <4>3. p \in start .. (start + a - 1)
        BY <1>4, <4>1, <4>2
      <4> QED
        BY <4>2, <4>3
    <3> HIDE DEF inside
    <3> QED
      BY <3>1, <3>2
  <2>4. \A i \in inside : start <= i
    BY <1>4
  <2>5. 2 * Cardinality(inside) >= Length
    <3>1. Lo(w) .. Hi(w) \subseteq inside
      <4> SUFFICES ASSUME NEW i \in Lo(w) .. Hi(w) PROVE i \in 1 .. Length /\ Holds(i)
        OBVIOUS
      <4>1. i \in 1 .. Length
        BY <1>2, <1>5
      <4>2. Contains(Candidate, slice[i])
        BY <1>4, <1>5
      <4> QED
        BY <4>1, <4>2 DEF Holds
    <3>2. IsFiniteSet(inside)
      <4>1. IsFiniteSet(1 .. Length)
        BY <1>2, FS_Interval
      <4> QED
        BY <4>1, FS_Subset
    <3> HIDE DEF inside
    <3>3. Cardinality(Lo(w) .. Hi(w)) <= Cardinality(inside)
      BY <3>1, <3>2, FS_Subset
    <3>4. Cardinality(Lo(w) .. Hi(w)) = Hi(w) - Lo(w) + 1
      <4>1. Lo(w) \in Int /\ Hi(w) \in Int /\ ~(Lo(w) > Hi(w))
        BY <1>2, <1>5
      <4>2. Cardinality(Lo(w) .. Hi(w)) = IF Lo(w) > Hi(w) THEN 0 ELSE Hi(w) - Lo(w) + 1
        BY <4>1, FS_Interval
      <4> QED
        BY <4>1, <4>2
    <3>5. Cardinality(inside) \in Nat
      BY <3>2, FS_CardinalityType
    <3>6. Lo(w) \in Int /\ Hi(w) \in Int
      BY <1>2, <1>5
    <3> QED
      BY <1>2, <1>5, <3>3, <3>4, <3>5, <3>6
  <2>6. \A p, q \in 1 .. Length :
          p < q /\ (elements'[p] \in inside <=> elements'[q] \in inside)
            => elements'[p] < elements'[q]
    <3>1. \A p \in 1 .. Length : elements'[p] \in inside <=> Holds(elements'[p])
      BY <1>4
    <3> HIDE DEF inside
    <3> QED
      BY <1>4, <3>1
  <2> HIDE DEF inside
  <2>7. {elements'[p] : p \in found.start .. (found.end - 1)} = inside
    BY <2>1, <2>3
  <2>8. \A i \in inside : found.start <= i
    BY <2>1, <2>4
  <2>9. Stable(Length, slice, elements', found)
    BY <2>2, <2>5, <2>6, <2>7, <2>8, Zenon DEF Stable
  <2>10. \E o \in out' : Stable(Length', slice', elements', o)
    BY <1>1, <1>2, <2>1, <2>9
  <2>11. (phase = "done" /\ Length >= 3 => \E o \in out : Stable(Length, slice, elements, o))'
    BY <2>10
  <2> QED
    BY <2>11, Zenon DEF GatheredInOrder, Stable
<1> QED
  BY <1>1, <1>7, <1>8, <1>9 DEF BInv, Untouched, Fresh, PairsScanned, WindowCounted, BestKept

(* Every step keeps the invariant.                                         *)
LEMMA StepsKeep ==
  ASSUME BInv, [SplitNext]_splitVars
  PROVE  BInv'
<1>1. CASE Refuse
  BY <1>1, RefuseKeeps
<1>2. CASE BeginScan
  BY <1>2, StartKeeps
<1>3. CASE ScanPair
  BY <1>3, ScanPairKeeps
<1>4. CASE TakeFull
  BY <1>4, TakeFullKeeps
<1>5. CASE SlideWindow
  BY <1>5, SlideWindowKeeps
<1>6. CASE Select
  BY <1>6, SelectKeeps
<1>7. CASE UNCHANGED splitVars
  <2>1. UNCHANGED <<slice, elements, idx, counters, windowOR, fullOR, best, out, phase>>
    BY <1>7 DEF splitVars
  <2>2. Length' = Length /\ Width' = Width
    BY <2>1 DEF Length, Width
  <2>3. Candidates' = Candidates /\ \A w : MaskOf(w)' = MaskOf(w)
    BY <2>1, <2>2 DEF Candidates, Windows, MaskOf, Hi
  <2>4. SplitTypeOK' /\ Untouched' /\ Fresh' /\ PairsScanned' /\ WindowCounted'
    BY <2>1, <2>2 DEF BInv, SplitTypeOK, Untouched, Fresh, PairsScanned, WindowCounted
  <2>5. BestKept'
    BY <2>1, <2>2, <2>3 DEF BInv, BestKept, IsBest
  <2>6. FirstGreatestWins'
    BY <2>1, <2>3 DEF BInv, FirstGreatestWins
  <2>7. GatheredInOrder'
    <3>1. phase = "done" /\ Length >= 3 => \E o \in out : Stable(Length, slice, elements, o)
      BY GatheredInOrderIs DEF BInv
    <3>2. (phase = "done" /\ Length >= 3 => \E o \in out : Stable(Length, slice, elements, o))'
      BY <2>1, <2>2, <3>1
    <3> QED
      BY <3>2, GatheredInOrderIs, PTL
  <2> QED
    BY <2>4, <2>5, <2>6, <2>7 DEF BInv
<1> QED
  BY <1>1, <1>2, <1>3, <1>4, <1>5, <1>6, <1>7 DEF SplitNext

(* The invariant always holds.                                             *)
LEMMA BInvAlways == SplitSpec => []BInv
<1>1. BInv /\ [SplitNext]_splitVars => BInv'
  BY StepsKeep
<1> QED
  BY <1>1, InitHolds, PTL DEF SplitSpec

(* BinarySplit: while the window slides its counters say exactly how many  *)
(* of its pairs kill each bit, and its word which bits any kills           *)
(* (binary_split.go:73, 100), for every width and every slice.             *)
THEOREM SplitCountsExactly == SplitSpec => []CountersExact
<1>1. BInv => CountersExact
  <2> SUFFICES ASSUME BInv PROVE CountersExact
    OBVIOUS
  <2>1. SplitTypeOK
    BY DEF BInv
  <2>2. ASSUME phase = "windows", NEW b \in Bits
        PROVE  /\ counters[b] = Cardinality({i \in Lo(idx) .. (Lo(idx) + Width - 2) : b \in KillWord(i)})
               /\ b \in windowOR <=> counters[b] > 0
    <3>1. /\ Length >= 3 /\ idx <= Length - Width + 2
          /\ CountsPairs(counters, windowOR, slice, Lo(idx), Lo(idx) + Width - 2)
      BY <2>2 DEF BInv, WindowCounted
    <3>2. slice \in Seq(Network) /\ Length \in Nat /\ idx \in Nat \ {0}
      BY <2>1, InputFacts DEF SplitTypeOK
    <3>3. Width \in 2 .. (Length - 1)
      BY <3>1, <3>2, WidthFacts
    <3>4. elements = [i \in 1 .. Length |-> i]
      BY <2>2 DEF BInv, Untouched
    <3>5. Lo(idx) \in Int /\ Lo(idx) >= 1 /\ Lo(idx) + Width - 2 <= Length - 1
      BY <3>1, <3>2, <3>3 DEF Lo
    <3>6. \A i \in Lo(idx) .. (Lo(idx) + Width - 2) : i \in 1 .. (Length - 1)
      BY <3>2, <3>3, <3>5
    <3>7. \A i \in Lo(idx) .. (Lo(idx) + Width - 2) : KillWord(i) = Kill(slice, i)
      BY <3>2, <3>4, <3>6, KillWordIs
    <3>8. {i \in Lo(idx) .. (Lo(idx) + Width - 2) : b \in KillWord(i)}
            = {i \in Lo(idx) .. (Lo(idx) + Width - 2) : b \in Kill(slice, i)}
      BY <3>7
    <3>9. counters[b] = KillCount(slice, Lo(idx), Lo(idx) + Width - 2, b) /\ (b \in windowOR <=> counters[b] > 0)
      BY <3>1 DEF CountsPairs
    <3> QED
      BY <3>8, <3>9 DEF KillCount
  <2> QED
    BY <2>1, <2>2 DEF CountersExact, Lo
<1> QED
  BY <1>1, BInvAlways, PTL

(* BinarySplit: what is returned is the common supernet of the whole slice *)
(* or of a window of half of it, and of those the first with the greatest  *)
(* mask (binary_split.go:24).                                              *)
THEOREM SplitTakesFirstGreatest == SplitSpec => []FirstGreatestWins
<1>1. BInv => FirstGreatestWins
  BY DEF BInv
<1> QED
  BY <1>1, BInvAlways, PTL

(* BinarySplit: the interval returned holds exactly the elements the       *)
(* candidate contains, at least half of all, from the place of the first   *)
(* of them on, and neither they nor the others have changed their order    *)
(* (binary_split.go:28).                                                   *)
THEOREM SplitGathersInOrder == SplitSpec => []GatheredInOrder
<1>1. BInv => GatheredInOrder
  BY DEF BInv
<1> QED
  BY <1>1, BInvAlways, PTL
=============================================================================
