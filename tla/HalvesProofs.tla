---------------------------- MODULE HalvesProofs ----------------------------
(***************************************************************************)
(* Words in two halves, and the bi-contiguous networks made of them, for   *)
(* halves of every width: a program over uint128 is a program over words   *)
(* in one piece, the IPv6 kernels compute on halves what the algebra       *)
(* computes on words, and a wrapper never leaves its class.                *)
(*                                                                         *)
(* T and TU hold the theorems on networks for words and for halves; the    *)
(* sum of two halves with a carry is the sum of the integers they encode,  *)
(* and everything else is bit by bit.                                      *)
(***************************************************************************)
EXTENDS Uint128Calls, BiContiguousCalls, FiniteSetTheorems, SequenceTheorems, TLAPS

T == INSTANCE NetworkTheorems WITH W <- 2 * H
TU == INSTANCE NetworkTheorems WITH W <- H

-----------------------------------------------------------------------------
(* Halves and the words they make                                          *)

LEMMA Widths ==
  /\ H \in Nat \ {0} /\ 2 * H \in Nat \ {0} /\ H + H = 2 * H
  /\ U!Bits = 0 .. (H - 1) /\ TU!Bits = 0 .. (H - 1)
  /\ T!Bits = 0 .. (2 * H - 1) /\ Abstract!Bits = 0 .. (2 * H - 1)
  /\ N!Bits = 0 .. (2 * H - 1)
BY HalfAssumption DEF U!Bits, TU!Bits, Abstract!Bits, T!Bits, N!Bits

LEMMA WordSets ==
  /\ U!Word = SUBSET (0 .. (H - 1)) /\ TU!Word = SUBSET (0 .. (H - 1))
  /\ T!Word = SUBSET (0 .. (2 * H - 1)) /\ Abstract!Word = SUBSET (0 .. (2 * H - 1))
  /\ N!Word = SUBSET (0 .. (2 * H - 1))
BY Widths DEF U!Word, TU!Word, Abstract!Word, T!Word, N!Word

LEMMA HalfFields ==
  ASSUME NEW m \in Uint128
  PROVE  /\ m.hi \subseteq 0 .. (H - 1) /\ m.lo \subseteq 0 .. (H - 1)
         /\ m.hi \in U!Word /\ m.lo \in U!Word
         /\ m = FromHalves(m.hi, m.lo)
BY WordSets DEF Uint128, FromHalves

LEMMA FromHalvesIs ==
  ASSUME NEW hi, NEW lo, hi \subseteq 0 .. (H - 1), lo \subseteq 0 .. (H - 1)
  PROVE  /\ FromHalves(hi, lo) \in Uint128 /\ FromHalves(hi, lo).hi = hi
         /\ FromHalves(hi, lo).lo = lo
BY WordSets DEF Uint128, FromHalves

(* A bit of the whole word is one of either half.                          *)
LEMMA WholeBits ==
  ASSUME NEW m \in Uint128
  PROVE  /\ Whole(m) \subseteq 0 .. (2 * H - 1)
         /\ Whole(m) \in T!Word /\ Whole(m) \in Abstract!Word /\ Whole(m) \in N!Word
         /\ \A i \in 0 .. (2 * H - 1) : i \in Whole(m) <=> (i \in m.lo \/ i - H \in m.hi)
         /\ \A i \in 0 .. (H - 1) : /\ i \in Whole(m) <=> i \in m.lo
                                    /\ i + H \in Whole(m) <=> i \in m.hi
         /\ \A i \in m.lo : i < H
         /\ \A i \in m.hi : i < H
<1>1. H \in Nat \ {0} /\ m.hi \subseteq 0 .. (H - 1) /\ m.lo \subseteq 0 .. (H - 1)
  BY Widths, HalfFields
<1>2. Whole(m) \subseteq 0 .. (2 * H - 1)
  BY <1>1 DEF Whole
<1>3. \A i \in 0 .. (2 * H - 1) : i \in Whole(m) <=> (i \in m.lo \/ i - H \in m.hi)
  BY <1>1 DEF Whole
<1>4. \A i \in 0 .. (H - 1) : /\ i \in Whole(m) <=> i \in m.lo
                              /\ i + H \in Whole(m) <=> i \in m.hi
  BY <1>1 DEF Whole
<1>5. (\A i \in m.lo : i < H) /\ (\A i \in m.hi : i < H)
  BY <1>1
<1> QED
  BY <1>2, <1>3, <1>4, <1>5, WordSets

LEMMA WholeTells ==
  ASSUME NEW m \in Uint128, NEW o \in Uint128
  PROVE  /\ Whole(m) = Whole(o) <=> m = o
         /\ Whole(m) \subseteq Whole(o) <=> m.hi \subseteq o.hi /\ m.lo \subseteq o.lo
         /\ Whole(m) = {} <=> IsZero(m)
<1>1. /\ m.hi \subseteq 0 .. (H - 1) /\ m.lo \subseteq 0 .. (H - 1)
      /\ o.hi \subseteq 0 .. (H - 1) /\ o.lo \subseteq 0 .. (H - 1)
      /\ m = FromHalves(m.hi, m.lo) /\ o = FromHalves(o.hi, o.lo)
  BY HalfFields
<1>2. Whole(m) \subseteq Whole(o) => m.hi \subseteq o.hi /\ m.lo \subseteq o.lo
  BY <1>1, WholeBits
<1>3. Whole(o) \subseteq Whole(m) => o.hi \subseteq m.hi /\ o.lo \subseteq m.lo
  BY <1>1, WholeBits
<1>4. m.hi \subseteq o.hi /\ m.lo \subseteq o.lo => Whole(m) \subseteq Whole(o)
  BY DEF Whole
<1>5. Whole(m) = {} <=> IsZero(m)
  BY DEF Whole, IsZero
<1>6. Whole(m) = Whole(o) => m.hi = o.hi /\ m.lo = o.lo
  BY <1>2, <1>3
<1> QED
  BY <1>1, <1>2, <1>4, <1>5, <1>6

(* The whole word by its bits: the low half, then the high one.            *)
LEMMA WholeIs ==
  \A m \in Uint128 : \A i :
    i \in Whole(m) <=> i \in 0 .. (2 * H - 1) /\ IF i < H THEN i \in m.lo ELSE i - H \in m.hi
<1> SUFFICES ASSUME NEW m \in Uint128, NEW i
             PROVE  i \in Whole(m) <=>
                      i \in 0 .. (2 * H - 1) /\ IF i < H THEN i \in m.lo ELSE i - H \in m.hi
  OBVIOUS
<1>1. H \in Nat \ {0} /\ m.hi \subseteq 0 .. (H - 1) /\ m.lo \subseteq 0 .. (H - 1)
  BY Widths, HalfFields
<1> QED
  BY <1>1 DEF Whole

(* What is bit by bit in each half is bit by bit in the word.              *)
LEMMA BitwiseIs ==
  ASSUME NEW m \in Uint128, NEW o \in Uint128
  PROVE  /\ And(m, o) \in Uint128 /\ Whole(And(m, o)) = Whole(m) \cap Whole(o)
         /\ Or(m, o) \in Uint128 /\ Whole(Or(m, o)) = Whole(m) \cup Whole(o)
         /\ Xor(m, o) \in Uint128 /\ Whole(Xor(m, o)) = T!Xor(Whole(m), Whole(o))
         /\ AndNot(m, o) \in Uint128 /\ Whole(AndNot(m, o)) = Whole(m) \ Whole(o)
         /\ Not(m) \in Uint128 /\ Whole(Not(m)) = T!Not(Whole(m))
         /\ Zero \in Uint128 /\ Whole(Zero) = {}
<1>1. /\ m.hi \subseteq 0 .. (H - 1) /\ m.lo \subseteq 0 .. (H - 1)
      /\ o.hi \subseteq 0 .. (H - 1) /\ o.lo \subseteq 0 .. (H - 1)
  BY HalfFields
<1>2. /\ And(m, o) \in Uint128 /\ And(m, o).hi = m.hi \cap o.hi
      /\ And(m, o).lo = m.lo \cap o.lo
  BY <1>1, FromHalvesIs DEF And
<1>3. Or(m, o) \in Uint128 /\ Or(m, o).hi = m.hi \cup o.hi /\ Or(m, o).lo = m.lo \cup o.lo
  BY <1>1, FromHalvesIs DEF Or
<1>4. /\ Xor(m, o) \in Uint128
      /\ Xor(m, o).hi = (m.hi \ o.hi) \cup (o.hi \ m.hi)
      /\ Xor(m, o).lo = (m.lo \ o.lo) \cup (o.lo \ m.lo)
  BY <1>1, FromHalvesIs DEF Xor, U!Xor
<1>5. /\ AndNot(m, o) \in Uint128 /\ AndNot(m, o).hi = m.hi \ o.hi
      /\ AndNot(m, o).lo = m.lo \ o.lo
  BY <1>1, FromHalvesIs DEF AndNot
<1>6. /\ Not(m) \in Uint128
      /\ Not(m).hi = (0 .. (H - 1)) \ m.hi /\ Not(m).lo = (0 .. (H - 1)) \ m.lo
  BY <1>1, FromHalvesIs, Widths DEF Not, U!Not
<1>7. Zero \in Uint128 /\ Whole(Zero) = {}
  BY FromHalvesIs DEF Zero, FromHalves, Whole
<1>8. Whole(And(m, o)) = Whole(m) \cap Whole(o)
  BY <1>2, WholeIs
<1>9. Whole(Or(m, o)) = Whole(m) \cup Whole(o)
  BY <1>3, WholeIs
<1>10. Whole(Xor(m, o)) = T!Xor(Whole(m), Whole(o))
  BY <1>4, WholeIs DEF T!Xor
<1>11. Whole(AndNot(m, o)) = Whole(m) \ Whole(o)
  BY <1>5, WholeIs
<1>12. Whole(Not(m)) = T!Not(Whole(m))
  <2>1. \A i \in 0 .. (2 * H - 1) : /\ i \in Int
                                    /\ i < H => i \in 0 .. (H - 1)
                                    /\ ~(i < H) => i - H \in 0 .. (H - 1)
    BY Widths
  <2>2. T!Bits = 0 .. (2 * H - 1)
    BY Widths
  <2> QED
    BY <1>6, <2>1, <2>2, WholeIs DEF T!Not
<1> QED
  BY <1>2, <1>3, <1>4, <1>5, <1>6, <1>7, <1>8, <1>9, <1>10, <1>11, <1>12

-----------------------------------------------------------------------------
(* The integers of halves and of words                                     *)

LEMMA SameHalf ==
  \A x : /\ U!ToNat(x) = TU!ToNat(x) /\ U!FromNat(x) = TU!FromNat(x)
BY DEF U!ToNat, TU!ToNat, U!FromNat, TU!FromNat, U!Bits, TU!Bits

LEMMA Doubling ==
  \A k \in Nat : 2 ^ k \in Nat \ {0} /\ 2 ^ (k + 1) = 2 ^ k + 2 ^ k
BY Widths, T!PowerDoubles

LEMMA PowerOfBoth ==
  \A i \in 0 .. H : 2 ^ (H + i) = 2 ^ H * 2 ^ i
<1> DEFINE P == {i \in 0 .. H : 2 ^ (H + i) = 2 ^ H * 2 ^ i}
<1>0. H \in Nat \ {0} /\ 2 ^ H \in Nat \ {0}
  BY Widths, Doubling
<1>1. 0 \in P
  BY <1>0
<1>2. ASSUME NEW i \in 0 .. (H - 1), i \in P PROVE i + 1 \in P
  <2>1. H + i \in Nat /\ i \in Nat /\ H + (i + 1) = (H + i) + 1 /\ i + 1 \in 0 .. H
    BY <1>0
  <2>2. /\ 2 ^ ((H + i) + 1) = 2 ^ (H + i) + 2 ^ (H + i)
        /\ 2 ^ (i + 1) = 2 ^ i + 2 ^ i /\ 2 ^ i \in Nat
    BY <2>1, Doubling
  <2>3. 2 ^ (H + (i + 1)) = 2 ^ H * 2 ^ (i + 1)
    BY <1>0, <1>2, <2>1, <2>2
  <2> QED
    BY <2>1, <2>3
<1> HIDE DEF P
<1>3. \A i \in 0 .. H : i \in P
  BY <1>0, <1>1, <1>2, TU!Upwards
<1> QED
  BY <1>3 DEF P

LEMMA WholeNumber ==
  ASSUME NEW m \in Uint128
  PROVE  /\ U!ToNat(m.lo) \in 0 .. (2 ^ H - 1) /\ U!ToNat(m.hi) \in 0 .. (2 ^ H - 1)
         /\ 2 ^ H \in Nat \ {0} /\ 2 ^ (2 * H) = 2 ^ H * 2 ^ H
         /\ T!ToNat(Whole(m)) = U!ToNat(m.lo) + 2 ^ H * U!ToNat(m.hi)
<1> DEFINE p == T!Partial(T!Bits, Whole(m))
           q == TU!Partial(TU!Bits, m.lo)
           r == TU!Partial(TU!Bits, m.hi)
<1>1. /\ H \in Nat \ {0} /\ 2 * H \in Nat \ {0} /\ H + H = 2 * H
      /\ TU!Bits = 0 .. (H - 1) /\ T!Bits = 0 .. (2 * H - 1)
      /\ T!Bits \in T!Word /\ TU!Bits \in TU!Word
      /\ m.lo \in TU!Word /\ m.hi \in TU!Word /\ Whole(m) \in T!Word
      /\ 2 ^ H \in Nat \ {0}
  BY Widths, WordSets, HalfFields, WholeBits, Doubling
<1>2. /\ p \in [0 .. (2 * H) -> Nat] /\ p[0] = 0
      /\ \A i \in 0 .. (2 * H - 1) : p[i + 1] = p[i] + IF i \in Whole(m) THEN 2 ^ i ELSE 0
  <2>1. /\ p \in [0 .. (2 * H) -> Nat] /\ p[0] = 0
        /\ \A i \in 0 .. (2 * H - 1) :
             p[i + 1] = p[i] + IF i \in T!Bits \cap Whole(m) THEN 2 ^ T!Rank(T!Bits, i) ELSE 0
    <3>1. 2 * H \in Nat \ {0} /\ T!Bits \in T!Word
      BY <1>1
    <3> QED
      BY <3>1, T!PartialSteps
  <2>2. \A i \in 0 .. (2 * H - 1) : i \in 0 .. (2 * H) /\ i \in T!Bits
    BY <1>1
  <2>3. \A i \in 0 .. (2 * H - 1) : T!Rank(T!Bits, i) = i
    BY <1>1, <2>2, T!RankOfBits
  <2> QED
    BY <2>1, <2>2, <2>3
<1>3. ASSUME NEW x \in TU!Word
      PROVE  LET s == TU!Partial(TU!Bits, x)
             IN  /\ s \in [0 .. H -> Nat] /\ s[0] = 0
                 /\ \A i \in 0 .. (H - 1) : s[i + 1] = s[i] + IF i \in x THEN 2 ^ i ELSE 0
                 /\ U!ToNat(x) = s[H] /\ U!ToNat(x) \in 0 .. (2 ^ H - 1)
  <2> DEFINE s == TU!Partial(TU!Bits, x)
  <2>1. /\ s \in [0 .. H -> Nat] /\ s[0] = 0
        /\ \A i \in 0 .. (H - 1) :
             s[i + 1] = s[i] + IF i \in TU!Bits \cap x THEN 2 ^ TU!Rank(TU!Bits, i) ELSE 0
    <3>1. H \in Nat \ {0} /\ TU!Bits \in TU!Word
      BY <1>1
    <3> QED
      BY <3>1, TU!PartialSteps
  <2>2. \A i \in 0 .. (H - 1) : i \in 0 .. H /\ i \in TU!Bits
    BY <1>1
  <2>3. \A i \in 0 .. (H - 1) : TU!Rank(TU!Bits, i) = i
    BY <1>1, <2>2, TU!RankOfBits
  <2>4. U!ToNat(x) = s[H]
    BY <1>1, <1>3, SameHalf, TU!ToNatIsValue DEF TU!Value
  <2>5. U!ToNat(x) \in 0 .. (2 ^ H - 1)
    BY <1>1, <1>3, SameHalf, TU!NumberOfWord
  <2> QED
    BY <2>1, <2>2, <2>3, <2>4, <2>5
<1>4. /\ q \in [0 .. H -> Nat] /\ q[0] = 0
      /\ \A i \in 0 .. (H - 1) : q[i + 1] = q[i] + IF i \in m.lo THEN 2 ^ i ELSE 0
      /\ U!ToNat(m.lo) = q[H] /\ U!ToNat(m.lo) \in 0 .. (2 ^ H - 1)
  BY <1>1, <1>3
<1>5. /\ r \in [0 .. H -> Nat] /\ r[0] = 0
      /\ \A i \in 0 .. (H - 1) : r[i + 1] = r[i] + IF i \in m.hi THEN 2 ^ i ELSE 0
      /\ U!ToNat(m.hi) = r[H] /\ U!ToNat(m.hi) \in 0 .. (2 ^ H - 1)
  BY <1>1, <1>3
<1>6. T!ToNat(Whole(m)) = p[2 * H]
  BY <1>1, T!ToNatIsValue DEF T!Value
<1>7. \A i \in 0 .. (H - 1) : /\ i \in Whole(m) <=> i \in m.lo
                              /\ i + H \in Whole(m) <=> i \in m.hi
  BY WholeBits
<1> HIDE DEF p, q, r
<1>8. p[H] = q[H]
  <2> DEFINE P == {i \in 0 .. H : p[i] = q[i]}
  <2>1. 0 \in P
    BY <1>1, <1>2, <1>4
  <2>2. ASSUME NEW i \in 0 .. (H - 1), i \in P PROVE i + 1 \in P
    <3>1. i \in 0 .. (2 * H - 1) /\ i + 1 \in 0 .. H
      BY <1>1
    <3>2. /\ p[i + 1] = p[i] + IF i \in Whole(m) THEN 2 ^ i ELSE 0
          /\ q[i + 1] = q[i] + IF i \in m.lo THEN 2 ^ i ELSE 0
      BY <1>2, <1>4, <3>1
    <3>3. p[i + 1] = q[i + 1]
      BY <1>7, <2>2, <3>2
    <3> QED
      BY <3>1, <3>3
  <2> HIDE DEF P
  <2>3. H \in P
    BY <1>1, <2>1, <2>2, TU!Upwards
  <2> QED
    BY <2>3 DEF P
<1>9. p[2 * H] = p[H] + 2 ^ H * r[H]
  <2> DEFINE P == {i \in 0 .. H : p[H + i] = p[H] + 2 ^ H * r[i]}
  <2>0. p[H] \in Nat
    BY <1>1, <1>2
  <2>1. 0 \in P
    <3>1. 2 ^ H * r[0] = 0 /\ H + 0 = H
      BY <1>1, <1>5
    <3> QED
      BY <1>1, <2>0, <3>1
  <2>2. ASSUME NEW i \in 0 .. (H - 1), i \in P PROVE i + 1 \in P
    <3>1. /\ H + i \in 0 .. (2 * H - 1) /\ i + 1 \in 0 .. H /\ i \in 0 .. H
          /\ H + (i + 1) = (H + i) + 1
          /\ H + i = i + H /\ i \in Nat
      BY <1>1
    <3>2. /\ p[(H + i) + 1] = p[H + i] + IF H + i \in Whole(m) THEN 2 ^ (H + i) ELSE 0
          /\ r[i + 1] = r[i] + IF i \in m.hi THEN 2 ^ i ELSE 0
          /\ r[i] \in Nat
      BY <1>2, <1>5, <3>1
    <3>3. H + i \in Whole(m) <=> i \in m.hi
      BY <1>7, <3>1
    <3>4. 2 ^ (H + i) = 2 ^ H * 2 ^ i /\ 2 ^ i \in Nat
      BY <3>1, PowerOfBoth, Doubling
    <3>5. p[H + i] = p[H] + 2 ^ H * r[i]
      BY <2>2
    <3>6. p[H + (i + 1)] = p[H] + 2 ^ H * r[i + 1]
      <4>1. CASE i \in m.hi
        BY <1>1, <2>0, <3>1, <3>2, <3>3, <3>4, <3>5, <4>1
      <4>2. CASE i \notin m.hi
        BY <1>1, <2>0, <3>1, <3>2, <3>3, <3>5, <4>2
      <4> QED
        BY <4>1, <4>2
    <3> QED
      BY <3>1, <3>6
  <2> HIDE DEF P
  <2>3. H \in P
    BY <1>1, <2>1, <2>2, TU!Upwards
  <2> QED
    BY <1>1, <2>3 DEF P
<1>10. 2 ^ (2 * H) = 2 ^ H * 2 ^ H
  BY <1>1, PowerOfBoth
<1> QED
  BY <1>1, <1>4, <1>5, <1>6, <1>8, <1>9, <1>10
LEMMA SmallNumbers ==
  /\ U!ToNat({}) = 0 /\ U!ToNat({0}) = 1 /\ {0} \in U!Word /\ {} \in U!Word
  /\ 2 ^ H >= 2 /\ 2 ^ H \in Nat
<1>1. H \in Nat \ {0} /\ TU!Bits = 0 .. (H - 1) /\ 2 ^ H \in Nat \ {0}
  BY Widths, Doubling
<1>2. 2 ^ H >= 2
  <2>1. H - 1 \in Nat /\ (H - 1) + 1 = H
    BY <1>1
  <2>2. 2 ^ (H - 1) \in Nat \ {0} /\ 2 ^ H = 2 ^ (H - 1) + 2 ^ (H - 1)
    BY <2>1, Doubling
  <2> QED
    BY <2>2
<1>3. {} \in TU!Word /\ {0} \in TU!Word /\ {} \in U!Word /\ {0} \in U!Word
  BY <1>1, WordSets
<1>4. TU!ToNat({}) = 0
  <2>1. \A i \in 0 .. (H - 1) : 0 \div 2 ^ i = 0
    BY <1>1, Doubling
  <2>2. TU!FromNat(0) = {}
    BY <1>1, <2>1 DEF TU!FromNat
  <2>3. TU!ToNat(TU!FromNat(0)) = 0
    BY <1>1, <1>2, TU!WordOfNumber
  <2> QED
    BY <2>2, <2>3
<1>5. TU!ToNat({0}) = 1
  <2>1. TU!AddOne({}) = {0}
    BY <1>1 DEF TU!AddOne
  <2>2. TU!ToNat(TU!AddOne({})) = (TU!ToNat({}) + 1) % 2 ^ H
    BY <1>1, <1>3, TU!WordsAreModularIntegers
  <2>3. ASSUME NEW d \in Nat, d >= 2 PROVE (0 + 1) % d = 1
    BY <2>3
  <2> QED
    BY <1>1, <1>2, <1>4, <2>1, <2>2, <2>3
<1> QED
  BY <1>1, <1>2, <1>3, <1>4, <1>5, SameHalf

LEMMA HalfNumber ==
  ASSUME NEW x \in U!Word
  PROVE  /\ U!ToNat(x) \in 0 .. (2 ^ H - 1)
         /\ U!FromNat(U!ToNat(x)) = x
<1>1. H \in Nat \ {0} /\ x \in TU!Word
  BY Widths, WordSets
<1> QED
  BY <1>1, SameHalf, TU!NumberOfWord

LEMMA HalfOfNumber ==
  ASSUME NEW n \in 0 .. (2 ^ H - 1)
  PROVE  U!FromNat(n) \in U!Word /\ U!ToNat(U!FromNat(n)) = n
<1>1. H \in Nat \ {0}
  BY Widths
<1> QED
  BY <1>1, SameHalf, WordSets, TU!WordOfNumber

(* The sum of two halves, and its carry.                                   *)
LEMMA Add64Is ==
  ASSUME NEW x \in U!Word, NEW y \in U!Word, NEW c \in {0, 1}
  PROVE  /\ Add64(x, y, c).word \in U!Word /\ Add64(x, y, c).carry \in {0, 1}
         /\ U!ToNat(Add64(x, y, c).word) + 2 ^ H * Add64(x, y, c).carry
              = U!ToNat(x) + U!ToNat(y) + c
<1> DEFINE sum == U!ToNat(x) + U!ToNat(y) + c
           d == 2 ^ H
<1>1. /\ d \in Nat \ {0} /\ U!ToNat(x) \in 0 .. (d - 1) /\ U!ToNat(y) \in 0 .. (d - 1)
      /\ sum \in Nat /\ sum < d + d
  BY SmallNumbers, HalfNumber
<1>2. /\ Add64(x, y, c).word = U!FromNat(sum % d)
      /\ Add64(x, y, c).carry = sum \div d
  BY DEF Add64
<1> HIDE DEF sum, d
<1>3. /\ sum % d \in 0 .. (d - 1) /\ sum \div d \in {0, 1}
      /\ (sum % d) + d * (sum \div d) = sum
  <2>1. CASE sum < d
    <3>1. sum \div d = 0 /\ sum % d = sum
      BY <1>1, <2>1
    <3> QED
      BY <1>1, <2>1, <3>1
  <2>2. CASE sum >= d
    <3>1. sum \div d = 1 /\ sum % d = sum - d
      BY <1>1, <2>2
    <3> QED
      BY <1>1, <2>2, <3>1
  <2> QED
    BY <1>1, <2>1, <2>2
<1>4. U!FromNat(sum % d) \in U!Word /\ U!ToNat(U!FromNat(sum % d)) = sum % d
  BY <1>3, HalfOfNumber DEF d
<1> QED
  BY <1>2, <1>3, <1>4 DEF sum, d

LEMMA Sub64Is ==
  ASSUME NEW x \in U!Word, NEW y \in U!Word, NEW c \in {0, 1}
  PROVE  /\ Sub64(x, y, c).word \in U!Word /\ Sub64(x, y, c).borrow \in {0, 1}
         /\ U!ToNat(Sub64(x, y, c).word) - 2 ^ H * Sub64(x, y, c).borrow
              = U!ToNat(x) - U!ToNat(y) - c
<1> DEFINE diff == U!ToNat(x) - U!ToNat(y) - c
           d == 2 ^ H
           borrow == IF diff < 0 THEN 1 ELSE 0
<1>1. /\ d \in Nat \ {0} /\ U!ToNat(x) \in 0 .. (d - 1) /\ U!ToNat(y) \in 0 .. (d - 1)
      /\ diff \in Int /\ -d <= diff /\ diff < d
  BY SmallNumbers, HalfNumber
<1>2. /\ Sub64(x, y, c).word = U!FromNat(diff % d)
      /\ Sub64(x, y, c).borrow = borrow
  BY DEF Sub64
<1> HIDE DEF diff, d
<1>3. diff % d \in 0 .. (d - 1) /\ (diff % d) - d * borrow = diff
  <2>1. CASE diff < 0
    <3>1. diff % d = diff + d
      BY <1>1, <2>1
    <3> QED
      BY <1>1, <2>1, <3>1
  <2>2. CASE diff >= 0
    <3>1. diff % d = diff
      BY <1>1, <2>2
    <3> QED
      BY <1>1, <2>2, <3>1
  <2> QED
    BY <1>1, <2>1, <2>2
<1>4. U!FromNat(diff % d) \in U!Word /\ U!ToNat(U!FromNat(diff % d)) = diff % d
  BY <1>3, HalfOfNumber DEF d
<1> QED
  BY <1>2, <1>3, <1>4 DEF diff, d

(* A word whose integer is a sum up to a wrap is the wrapped sum.          *)
LEMMA WholeOfNumber ==
  ASSUME NEW m \in Uint128, NEW x \in Int, NEW q \in {-1, 0, 1},
         T!ToNat(Whole(m)) + 2 ^ (2 * H) * q = x
  PROVE  Whole(m) = T!FromNat(x % 2 ^ (2 * H))
<1> DEFINE d == 2 ^ (2 * H)
           v == T!ToNat(Whole(m))
<1>1. 2 * H \in Nat \ {0} /\ Whole(m) \in T!Word
  BY Widths, WholeBits
<1>2. v \in 0 .. (d - 1) /\ T!FromNat(v) = Whole(m) /\ d \in Nat \ {0}
  BY <1>1, T!NumberOfWord, Doubling
<1>3. x = v + d * q
  OBVIOUS
<1> HIDE DEF d, v
<1>4. x % d = v
  <2>1. CASE q = 0
    BY <1>2, <1>3, <2>1
  <2>2. CASE q = 1
    BY <1>2, <1>3, <2>2
  <2>3. CASE q = -1
    BY <1>2, <1>3, <2>3
  <2> QED
    BY <2>1, <2>2, <2>3
<1> QED
  BY <1>2, <1>4 DEF d

LEMMA AddIsWhole ==
  ASSUME NEW m \in Uint128, NEW o \in Uint128
  PROVE  Add(m, o) \in Uint128 /\ Whole(Add(m, o)) = T!Add(Whole(m), Whole(o))
<1> DEFINE low == Add64(m.lo, o.lo, 0)
           high == Add64(m.hi, o.hi, low.carry)
           d == 2 ^ H
<1>1. m.lo \in U!Word /\ o.lo \in U!Word /\ m.hi \in U!Word /\ o.hi \in U!Word
  BY HalfFields
<1>2. /\ low.word \in U!Word /\ low.carry \in {0, 1}
      /\ U!ToNat(low.word) + d * low.carry = U!ToNat(m.lo) + U!ToNat(o.lo) + 0
  BY <1>1, Add64Is
<1>3. /\ high.word \in U!Word /\ high.carry \in {0, 1}
      /\ U!ToNat(high.word) + d * high.carry = U!ToNat(m.hi) + U!ToNat(o.hi) + low.carry
  BY <1>1, <1>2, Add64Is
<1>4. /\ Add(m, o) = FromHalves(high.word, low.word)
      /\ Add(m, o) \in Uint128 /\ Add(m, o).hi = high.word /\ Add(m, o).lo = low.word
  BY <1>2, <1>3, FromHalvesIs, WordSets DEF Add
<1> HIDE DEF low, high
<1>5. /\ T!ToNat(Whole(Add(m, o))) = U!ToNat(low.word) + d * U!ToNat(high.word)
      /\ T!ToNat(Whole(m)) = U!ToNat(m.lo) + d * U!ToNat(m.hi)
      /\ T!ToNat(Whole(o)) = U!ToNat(o.lo) + d * U!ToNat(o.hi)
      /\ 2 ^ (2 * H) = d * d
  BY <1>4, WholeNumber
<1>6. /\ U!ToNat(low.word) \in Nat /\ U!ToNat(high.word) \in Nat /\ U!ToNat(m.lo) \in Nat
      /\ U!ToNat(m.hi) \in Nat /\ U!ToNat(o.lo) \in Nat /\ U!ToNat(o.hi) \in Nat
      /\ d \in Nat
  BY <1>1, <1>2, <1>3, HalfNumber, SmallNumbers
<1> HIDE DEF d
<1>7. T!ToNat(Whole(Add(m, o))) + (d * d) * high.carry = T!ToNat(Whole(m)) + T!ToNat(Whole(o))
  <2> DEFINE k == high.carry
             c == low.carry
             hi == U!ToNat(high.word)
             e == U!ToNat(m.hi)
             f == U!ToNat(o.hi)
  <2>0. hi + d * k = e + f + c
    BY <1>3
  <2>1. hi \in Nat /\ e \in Nat /\ f \in Nat /\ d \in Nat
    BY <1>6
  <2>7. c \in Nat /\ k \in Nat
    BY <1>2, <1>3
  <2> HIDE DEF k, c, hi, e, f
  <2>2. d * (hi + d * k) = d * (e + f + c)
    BY <2>0
  <2>3. d * hi + (d * d) * k = d * e + d * f + d * c
    BY <2>1, <2>2, <2>7
  <2>4. U!ToNat(low.word) + d * c = U!ToNat(m.lo) + U!ToNat(o.lo)
    BY <1>2, <1>6 DEF c
  <2>5. /\ T!ToNat(Whole(Add(m, o))) = U!ToNat(low.word) + d * hi
        /\ T!ToNat(Whole(m)) = U!ToNat(m.lo) + d * e
        /\ T!ToNat(Whole(o)) = U!ToNat(o.lo) + d * f
    BY <1>5 DEF hi, e, f
  <2>6. T!ToNat(Whole(Add(m, o))) + (d * d) * k = T!ToNat(Whole(m)) + T!ToNat(Whole(o))
    BY <1>6, <2>1, <2>3, <2>4, <2>5, <2>7
  <2> QED
    BY <2>6 DEF k
<1>8. T!ToNat(Whole(m)) + T!ToNat(Whole(o)) \in Int
  BY <1>5, <1>6
<1> QED
  BY <1>3, <1>4, <1>5, <1>7, <1>8, WholeOfNumber DEF T!Add
LEMMA SubIsWhole ==
  ASSUME NEW m \in Uint128, NEW o \in Uint128
  PROVE  Sub(m, o) \in Uint128 /\ Whole(Sub(m, o)) = T!Sub(Whole(m), Whole(o))
<1> DEFINE low == Sub64(m.lo, o.lo, 0)
           high == Sub64(m.hi, o.hi, low.borrow)
           d == 2 ^ H
<1>1. m.lo \in U!Word /\ o.lo \in U!Word /\ m.hi \in U!Word /\ o.hi \in U!Word
  BY HalfFields
<1>2. /\ low.word \in U!Word /\ low.borrow \in {0, 1}
      /\ U!ToNat(low.word) - d * low.borrow = U!ToNat(m.lo) - U!ToNat(o.lo) - 0
  BY <1>1, Sub64Is
<1>3. /\ high.word \in U!Word /\ high.borrow \in {0, 1}
      /\ U!ToNat(high.word) - d * high.borrow = U!ToNat(m.hi) - U!ToNat(o.hi) - low.borrow
  BY <1>1, <1>2, Sub64Is
<1>4. /\ Sub(m, o) = FromHalves(high.word, low.word)
      /\ Sub(m, o) \in Uint128 /\ Sub(m, o).hi = high.word /\ Sub(m, o).lo = low.word
  BY <1>2, <1>3, FromHalvesIs, WordSets DEF Sub
<1> HIDE DEF low, high
<1>5. /\ T!ToNat(Whole(Sub(m, o))) = U!ToNat(low.word) + d * U!ToNat(high.word)
      /\ T!ToNat(Whole(m)) = U!ToNat(m.lo) + d * U!ToNat(m.hi)
      /\ T!ToNat(Whole(o)) = U!ToNat(o.lo) + d * U!ToNat(o.hi)
      /\ 2 ^ (2 * H) = d * d
  BY <1>4, WholeNumber
<1>6. /\ U!ToNat(low.word) \in Nat /\ U!ToNat(high.word) \in Nat /\ U!ToNat(m.lo) \in Nat
      /\ U!ToNat(m.hi) \in Nat /\ U!ToNat(o.lo) \in Nat /\ U!ToNat(o.hi) \in Nat
      /\ d \in Nat
  BY <1>1, <1>2, <1>3, HalfNumber, SmallNumbers
<1> HIDE DEF d
<1>7. T!ToNat(Whole(Sub(m, o))) + (d * d) * (-high.borrow) = T!ToNat(Whole(m)) - T!ToNat(Whole(o))
  <2> DEFINE k == high.borrow
             c == low.borrow
             hi == U!ToNat(high.word)
             e == U!ToNat(m.hi)
             f == U!ToNat(o.hi)
  <2>1. hi - d * k = e - f - c
    BY <1>3
  <2>2. hi \in Nat /\ e \in Nat /\ f \in Nat /\ d \in Nat
    BY <1>6
  <2>3. c \in Nat /\ k \in Nat
    BY <1>2, <1>3
  <2> HIDE DEF k, c, hi, e, f
  <2>4. d * (hi - d * k) = d * (e - f - c)
    BY <2>1
  <2>5. d * hi - (d * d) * k = d * e - d * f - d * c
    BY <2>2, <2>3, <2>4
  <2>6. U!ToNat(low.word) - d * c = U!ToNat(m.lo) - U!ToNat(o.lo)
    BY <1>2, <1>6 DEF c
  <2>7. /\ T!ToNat(Whole(Sub(m, o))) = U!ToNat(low.word) + d * hi
        /\ T!ToNat(Whole(m)) = U!ToNat(m.lo) + d * e
        /\ T!ToNat(Whole(o)) = U!ToNat(o.lo) + d * f
    BY <1>5 DEF hi, e, f
  <2>8. T!ToNat(Whole(Sub(m, o))) + (d * d) * (-k) = T!ToNat(Whole(m)) - T!ToNat(Whole(o))
    BY <1>6, <2>2, <2>3, <2>5, <2>6, <2>7
  <2> QED
    BY <2>8 DEF k
<1>8. T!ToNat(Whole(m)) - T!ToNat(Whole(o)) \in Int
  BY <1>5, <1>6
<1>9. -high.borrow \in {-1, 0, 1}
  BY <1>3
<1> QED
  BY <1>4, <1>5, <1>7, <1>8, <1>9, WholeOfNumber DEF T!Sub

One == FromHalves({}, {0})

LEMMA OneIs ==
  One \in Uint128 /\ One.hi = {} /\ One.lo = {0} /\ Whole(One) = {0} /\ T!ToNat({0}) = 1
<1>1. One \in Uint128 /\ One.hi = {} /\ One.lo = {0}
  BY SmallNumbers, WordSets, FromHalvesIs DEF One
<1>2. Whole(One) = {0}
  BY <1>1 DEF Whole
<1>3. T!ToNat(Whole(One)) = 1 + 2 ^ H * 0
  BY <1>1, WholeNumber, SmallNumbers
<1> QED
  BY <1>1, <1>2, <1>3, SmallNumbers

LEMMA AddOneIsWhole ==
  ASSUME NEW m \in Uint128
  PROVE  AddOne(m) \in Uint128 /\ Whole(AddOne(m)) = T!AddOne(Whole(m))
<1>1. AddOne(m) = Add(m, One)
  <2> DEFINE low == Add64(m.lo, {0}, 0)
  <2>1. low.carry \in {0, 1} /\ U!ToNat(m.hi) \in Nat
    <3>1. m.lo \in U!Word /\ m.hi \in U!Word /\ {0} \in U!Word
      BY HalfFields, SmallNumbers
    <3>2. low.carry \in {0, 1}
      BY <3>1, Add64Is
    <3> QED
      BY <3>1, <3>2, HalfNumber, SmallNumbers
  <2>2. U!ToNat(U!FromNat(low.carry)) = low.carry
    BY <2>1, SmallNumbers, HalfOfNumber
  <2> HIDE DEF low
  <2>3. U!ToNat(m.hi) + U!ToNat({}) + low.carry = U!ToNat(m.hi) + low.carry
    BY <2>1, SmallNumbers
  <2>4. Add64(m.hi, {}, low.carry).word = U!FromNat((U!ToNat(m.hi) + low.carry) % 2 ^ H)
    BY <2>3 DEF Add64
  <2>5. U!Add(m.hi, U!FromNat(low.carry)) = U!FromNat((U!ToNat(m.hi) + low.carry) % 2 ^ H)
    BY <2>2 DEF U!Add
  <2> QED
    BY <2>4, <2>5, OneIs DEF Add, AddOne, low
<1>2. T!AddOne(Whole(m)) = T!Add(Whole(m), {0})
  <2>1. 2 * H \in Nat \ {0} /\ Whole(m) \in T!Word
    BY Widths, WholeBits
  <2>2. T!ToNat(T!AddOne(Whole(m))) = (T!ToNat(Whole(m)) + 1) % 2 ^ (2 * H)
    BY <2>1, T!WordsAreModularIntegers
  <2>3. T!AddOne(Whole(m)) \in T!Word
    BY DEF T!AddOne, T!Word
  <2>4. T!FromNat(T!ToNat(T!AddOne(Whole(m)))) = T!AddOne(Whole(m))
    BY <2>1, <2>3, T!NumberOfWord
  <2> QED
    BY <2>2, <2>4, OneIs DEF T!Add
<1> QED
  BY <1>1, <1>2, OneIs, AddIsWhole

LEMMA SubOneIsWhole ==
  ASSUME NEW m \in Uint128
  PROVE  SubOne(m) \in Uint128 /\ Whole(SubOne(m)) = T!SubOne(Whole(m))
<1>1. SubOne(m) = Sub(m, One)
  <2> DEFINE low == Sub64(m.lo, {0}, 0)
  <2>1. low.borrow \in {0, 1} /\ U!ToNat(m.hi) \in Nat
    <3>1. m.lo \in U!Word /\ m.hi \in U!Word /\ {0} \in U!Word
      BY HalfFields, SmallNumbers
    <3>2. low.borrow \in {0, 1}
      BY <3>1, Sub64Is
    <3> QED
      BY <3>1, <3>2, HalfNumber, SmallNumbers
  <2>2. U!ToNat(U!FromNat(low.borrow)) = low.borrow
    BY <2>1, SmallNumbers, HalfOfNumber
  <2> HIDE DEF low
  <2>3. U!ToNat(m.hi) - U!ToNat({}) - low.borrow = U!ToNat(m.hi) - low.borrow
    BY <2>1, SmallNumbers
  <2>4. Sub64(m.hi, {}, low.borrow).word = U!FromNat((U!ToNat(m.hi) - low.borrow) % 2 ^ H)
    BY <2>3 DEF Sub64
  <2>5. U!Sub(m.hi, U!FromNat(low.borrow)) = U!FromNat((U!ToNat(m.hi) - low.borrow) % 2 ^ H)
    BY <2>2 DEF U!Sub
  <2> QED
    BY <2>4, <2>5, OneIs DEF Sub, SubOne, low
<1>2. T!SubOne(Whole(m)) = T!Sub(Whole(m), {0})
  <2>1. 2 * H \in Nat \ {0} /\ Whole(m) \in T!Word
    BY Widths, WholeBits
  <2>2. T!ToNat(T!SubOne(Whole(m))) = (T!ToNat(Whole(m)) - 1) % 2 ^ (2 * H)
    BY <2>1, T!WordsAreModularIntegers
  <2>3. T!SubOne(Whole(m)) \in T!Word
    BY DEF T!SubOne, T!Word
  <2>4. T!FromNat(T!ToNat(T!SubOne(Whole(m)))) = T!SubOne(Whole(m))
    BY <2>1, <2>3, T!NumberOfWord
  <2> QED
    BY <2>2, <2>4, OneIs DEF T!Sub
<1> QED
  BY <1>1, <1>2, OneIs, SubIsWhole

LEMMA NegIsWhole ==
  ASSUME NEW m \in Uint128
  PROVE  Neg(m) \in Uint128 /\ Whole(Neg(m)) = T!Neg(Whole(m))
BY BitwiseIs, SubIsWhole DEF Neg, T!Neg
LEMMA LowestIsWhole ==
  ASSUME NEW m \in Uint128
  PROVE  LowestSetBit(m) \in Uint128 /\ Whole(LowestSetBit(m)) = T!LowestSetBit(Whole(m))
<1> DEFINE w == Whole(m)
           d == 2 ^ (2 * H)
           v == T!ToNat(w)
<1>1. /\ 2 * H \in Nat \ {0} /\ w \in T!Word /\ T!Bits = 0 .. (2 * H - 1)
      /\ w \subseteq 0 .. (2 * H - 1)
  BY Widths, WholeBits
<1>2. v \in 0 .. (d - 1) /\ d \in Nat \ {0}
  BY <1>1, T!NumberOfWord, Doubling
<1>3. T!ToNat({}) = 0
  <2>1. Zero \in Uint128 /\ Zero.lo = {} /\ Zero.hi = {} /\ Whole(Zero) = {}
    BY BitwiseIs DEF Zero, FromHalves
  <2>2. T!ToNat(Whole(Zero)) = U!ToNat({}) + 2 ^ H * U!ToNat({})
    BY <2>1, WholeNumber
  <2> QED
    BY <2>1, <2>2, SmallNumbers
<1>4. T!Neg(w) = T!AddOne(T!Not(w))
  <2>1. T!Not(w) \in T!Word /\ T!AddOne(T!Not(w)) \in T!Word
    BY <1>1 DEF T!Not, T!AddOne, T!Word
  <2>2. T!ToNat(T!Not(w)) = d - 1 - v
    BY <1>1, T!WordsAreModularIntegers
  <2>3. T!ToNat(T!AddOne(T!Not(w))) = (T!ToNat(T!Not(w)) + 1) % d
    BY <1>1, <2>1, T!WordsAreModularIntegers
  <2>4. T!FromNat(T!ToNat(T!AddOne(T!Not(w)))) = T!AddOne(T!Not(w))
    BY <1>1, <2>1, T!NumberOfWord
  <2>5. T!Neg(w) = T!FromNat((0 - v) % d)
    BY <1>3 DEF T!Neg, T!Sub
  <2> HIDE DEF d, v
  <2>6. ((d - 1 - v) + 1) % d = (0 - v) % d
    <3>1. CASE v = 0
      BY <1>2, <3>1
    <3>2. CASE v # 0
      <4>1. d - v \in 0 .. (d - 1)
        BY <1>2, <3>2
      <4>2. (d - v) % d = d - v /\ (-v) % d = d - v
        BY <1>2, <4>1
      <4> QED
        BY <1>2, <4>2
    <3> QED
      BY <3>1, <3>2
  <2> QED
    BY <2>2, <2>3, <2>4, <2>5, <2>6
<1>5. w \cap T!Neg(w) = T!LowestSetBit(w)
  <2> SUFFICES ASSUME NEW i \in w PROVE i \in T!Neg(w) <=> \A j \in w : i <= j
    BY DEF T!LowestSetBit
  <2>1. i \in T!Bits /\ i \notin T!Not(w) /\ i \in Int /\ \A j \in w : j \in Int /\ 0 <= j
    BY <1>1 DEF T!Not
  <2>2. i \in T!Neg(w) <=> \A j \in 0 .. (i - 1) : j \in T!Not(w)
    BY <1>4, <2>1 DEF T!AddOne
  <2>3. \A j \in 0 .. (i - 1) : j \in T!Not(w) <=> j \notin w
    BY <1>1, <2>1 DEF T!Not
  <2> QED
    BY <1>1, <2>1, <2>2, <2>3
<1> QED
  <2>1. Neg(m) \in Uint128 /\ Whole(Neg(m)) = T!Neg(w)
    BY NegIsWhole
  <2>2. And(m, Neg(m)) \in Uint128 /\ Whole(And(m, Neg(m))) = w \cap Whole(Neg(m))
    BY <2>1, BitwiseIs
  <2>3. Whole(And(m, Neg(m))) = T!LowestSetBit(w)
    BY <1>5, <2>1, <2>2, Zenon
  <2> QED
    BY <2>2, <2>3 DEF LowestSetBit

LEMMA ClearLowestIsWhole ==
  ASSUME NEW m \in Uint128
  PROVE  /\ ClearLowestSetBit(m) \in Uint128
         /\ Whole(ClearLowestSetBit(m)) = T!ClearLowestSetBit(Whole(m))
BY SubOneIsWhole, BitwiseIs DEF ClearLowestSetBit, T!ClearLowestSetBit

-----------------------------------------------------------------------------
(* Shifts, and what is made by shifting                                    *)

LEMMA ShlIsWhole ==
  ASSUME NEW m \in Uint128, NEW n \in 0 .. (2 * H)
  PROVE  /\ Shl(m, n) \in Uint128
         /\ Whole(Shl(m, n)) = {i \in 0 .. (2 * H - 1) : i - n \in Whole(m)}
<1> DEFINE s == Shl(m, n)
<1>1. /\ H \in Nat \ {0} /\ U!Bits = 0 .. (H - 1) /\ n \in Int
      /\ m.hi \subseteq 0 .. (H - 1) /\ m.lo \subseteq 0 .. (H - 1)
  BY Widths, HalfFields
<1>2. Lsh(m.lo, n) \subseteq 0 .. (H - 1) /\ Lsh(m.lo, n - H) \subseteq 0 .. (H - 1)
      /\ Lsh(m.hi, n) \subseteq 0 .. (H - 1) /\ Rsh(m.lo, H - n) \subseteq 0 .. (H - 1)
  BY <1>1 DEF Lsh, Rsh
<1>3. CASE n = 0
  <2>1. s = m
    BY <1>1, <1>3 DEF Shl
  <2>2. \A i : i \in Whole(m) <=> i \in {j \in 0 .. (2 * H - 1) : j - n \in Whole(m)}
    <3>1. \A i \in 0 .. (2 * H - 1) : i - n = i
      BY <1>1, <1>3
    <3> QED
      BY <3>1, WholeBits
  <2> QED
    BY <2>1, <2>2
<1>4. CASE 0 < n /\ n < H
  <2>1. s = FromHalves(Lsh(m.hi, n) \cup Rsh(m.lo, H - n), Lsh(m.lo, n))
    BY <1>1, <1>4 DEF Shl
  <2>2. s \in Uint128 /\ s.hi = Lsh(m.hi, n) \cup Rsh(m.lo, H - n) /\ s.lo = Lsh(m.lo, n)
    BY <1>2, <2>1, FromHalvesIs
  <2> HIDE DEF s
  <2>3. ASSUME NEW i \in 0 .. (2 * H - 1) PROVE i \in Whole(s) <=> i - n \in Whole(m)
    <3>1. CASE i < H
      BY <1>1, <1>4, <2>2, <3>1, WholeIs DEF Lsh
    <3>2. CASE i >= H
      <4>1. i \in Whole(s) <=> i - H \in s.hi
        BY <1>1, <2>2, <3>2, WholeIs
      <4>2. i - H \in 0 .. (H - 1) /\ (i - H) - n = (i - n) - H /\ (i - H) + (H - n) = i - n
        BY <1>1, <3>2
      <4>3. i \in Whole(s) <=> ((i - n) - H \in m.hi \/ i - n \in m.lo)
        BY <1>1, <2>2, <4>1, <4>2 DEF Lsh, Rsh
      <4>4. i - n \in 0 .. (2 * H - 1)
        BY <1>1, <1>4, <3>2
      <4>5. i - n \in Whole(m) <=> ((i - n) - H \in m.hi \/ i - n \in m.lo)
        BY <4>4, WholeBits
      <4> QED
        BY <4>3, <4>5
    <3> QED
      BY <1>1, <3>1, <3>2
  <2> QED
    BY <2>2, <2>3, WholeBits DEF s
<1>5. CASE H <= n /\ n < 2 * H
  <2>1. s = FromHalves(Lsh(m.lo, n - H), {})
    BY <1>1, <1>5 DEF Shl
  <2>2. s \in Uint128 /\ s.hi = Lsh(m.lo, n - H) /\ s.lo = {}
    BY <1>2, <2>1, FromHalvesIs
  <2> HIDE DEF s
  <2>3. ASSUME NEW i \in 0 .. (2 * H - 1) PROVE i \in Whole(s) <=> i - n \in Whole(m)
    <3>1. CASE i < H
      BY <1>1, <1>5, <2>2, <3>1, WholeIs
    <3>2. CASE i >= H
      <4>1. i \in Whole(s) <=> i - H \in s.hi
        BY <1>1, <2>2, <3>2, WholeIs
      <4>2. i - H \in 0 .. (H - 1) /\ (i - H) - (n - H) = i - n /\ i - n < H
        BY <1>1, <1>5, <3>2
      <4>3. i \in Whole(s) <=> i - n \in m.lo
        BY <1>1, <2>2, <4>1, <4>2 DEF Lsh
      <4>4. i - n \in Whole(m) <=> i - n \in m.lo
        BY <1>1, <4>2, WholeIs
      <4> QED
        BY <4>3, <4>4
    <3> QED
      BY <1>1, <3>1, <3>2
  <2> QED
    BY <2>2, <2>3, WholeBits DEF s
<1>6. CASE n = 2 * H
  <2>1. s = Zero
    BY <1>1, <1>6 DEF Shl
  <2>2. \A i \in 0 .. (2 * H - 1) : i - n \notin Whole(m)
    BY <1>1, <1>6, WholeBits
  <2> QED
    BY <2>1, <2>2, BitwiseIs
<1> QED
  BY <1>1, <1>3, <1>4, <1>5, <1>6

LEMMA ShrIsWhole ==
  ASSUME NEW m \in Uint128, NEW n \in 0 .. (2 * H)
  PROVE  /\ Shr(m, n) \in Uint128
         /\ Whole(Shr(m, n)) = {i \in 0 .. (2 * H - 1) : i + n \in Whole(m)}
<1> DEFINE s == Shr(m, n)
<1>1. /\ H \in Nat \ {0} /\ U!Bits = 0 .. (H - 1) /\ n \in Int
      /\ m.hi \subseteq 0 .. (H - 1) /\ m.lo \subseteq 0 .. (H - 1)
  BY Widths, HalfFields
<1>2. Rsh(m.hi, n) \subseteq 0 .. (H - 1) /\ Rsh(m.hi, n - H) \subseteq 0 .. (H - 1)
      /\ Rsh(m.lo, n) \subseteq 0 .. (H - 1) /\ Lsh(m.hi, H - n) \subseteq 0 .. (H - 1)
  BY <1>1 DEF Lsh, Rsh
<1>3. CASE n = 0
  <2>1. s = m
    BY <1>1, <1>3 DEF Shr
  <2>2. \A i : i \in Whole(m) <=> i \in {j \in 0 .. (2 * H - 1) : j + n \in Whole(m)}
    <3>1. \A i \in 0 .. (2 * H - 1) : i + n = i
      BY <1>1, <1>3
    <3> QED
      BY <3>1, WholeBits
  <2> QED
    BY <2>1, <2>2
<1>4. CASE 0 < n /\ n < H
  <2>1. s = FromHalves(Rsh(m.hi, n), Rsh(m.lo, n) \cup Lsh(m.hi, H - n))
    BY <1>1, <1>4 DEF Shr
  <2>2. s \in Uint128 /\ s.hi = Rsh(m.hi, n) /\ s.lo = Rsh(m.lo, n) \cup Lsh(m.hi, H - n)
    BY <1>2, <2>1, FromHalvesIs
  <2> HIDE DEF s
  <2>3. ASSUME NEW i \in 0 .. (2 * H - 1) PROVE i \in Whole(s) <=> i + n \in Whole(m)
    <3>1. CASE i < H
      <4>1. i \in Whole(s) <=> i \in s.lo
        BY <1>1, <2>2, <3>1, WholeIs
      <4>2. i \in 0 .. (H - 1) /\ i - (H - n) = (i + n) - H
        BY <1>1, <3>1
      <4>3. i \in Whole(s) <=> ((i + n) - H \in m.hi \/ i + n \in m.lo)
        BY <1>1, <2>2, <4>1, <4>2 DEF Lsh, Rsh
      <4>4. i + n \in 0 .. (2 * H - 1)
        BY <1>1, <1>4, <3>1
      <4>5. i + n \in Whole(m) <=> ((i + n) - H \in m.hi \/ i + n \in m.lo)
        BY <4>4, WholeBits
      <4> QED
        BY <4>3, <4>5
    <3>2. CASE i >= H
      <4>1. i \in Whole(s) <=> i - H \in s.hi
        BY <1>1, <2>2, <3>2, WholeIs
      <4>2. i - H \in 0 .. (H - 1) /\ (i - H) + n = (i + n) - H
        BY <1>1, <3>2
      <4>3. i \in Whole(s) <=> (i + n) - H \in m.hi
        BY <1>1, <2>2, <4>1, <4>2 DEF Rsh
      <4>4. i + n \in Whole(m) <=> (i + n) - H \in m.hi
        BY <1>1, <1>4, <3>2, WholeIs
      <4> QED
        BY <4>3, <4>4
    <3> QED
      BY <1>1, <3>1, <3>2
  <2> QED
    BY <2>2, <2>3, WholeBits DEF s
<1>5. CASE H <= n /\ n < 2 * H
  <2>1. s = FromHalves({}, Rsh(m.hi, n - H))
    BY <1>1, <1>5 DEF Shr
  <2>2. s \in Uint128 /\ s.hi = {} /\ s.lo = Rsh(m.hi, n - H)
    BY <1>2, <2>1, FromHalvesIs
  <2> HIDE DEF s
  <2>3. ASSUME NEW i \in 0 .. (2 * H - 1) PROVE i \in Whole(s) <=> i + n \in Whole(m)
    <3>1. CASE i < H
      <4>1. i \in Whole(s) <=> i \in s.lo
        BY <1>1, <2>2, <3>1, WholeIs
      <4>2. i \in 0 .. (H - 1) /\ i + (n - H) = (i + n) - H
        BY <1>1, <3>1
      <4>3. i \in Whole(s) <=> (i + n) - H \in m.hi
        BY <1>1, <2>2, <4>1, <4>2 DEF Rsh
      <4>4. i + n \in Whole(m) <=> (i + n) - H \in m.hi
        BY <1>1, <1>5, <3>1, WholeIs
      <4> QED
        BY <4>3, <4>4
    <3>2. CASE i >= H
      BY <1>1, <1>5, <2>2, <3>2, WholeIs
    <3> QED
      BY <1>1, <3>1, <3>2
  <2> QED
    BY <2>2, <2>3, WholeBits DEF s
<1>6. CASE n = 2 * H
  <2>1. s = Zero
    BY <1>1, <1>6 DEF Shr
  <2>2. \A i \in 0 .. (2 * H - 1) : i + n \notin Whole(m)
    BY <1>1, <1>6, WholeBits
  <2> QED
    BY <2>1, <2>2, BitwiseIs
<1> QED
  BY <1>1, <1>3, <1>4, <1>5, <1>6

LEMMA BitIsWhole ==
  ASSUME NEW n \in 0 .. (2 * H - 1)
  PROVE  Bit(n) \in Uint128 /\ Whole(Bit(n)) = {n}
<1>1. n \in 0 .. (2 * H) /\ Bit(n) = Shl(One, n)
  BY Widths DEF Bit, One
<1>2. Bit(n) \in Uint128 /\ Whole(Bit(n)) = {i \in 0 .. (2 * H - 1) : i - n \in Whole(One)}
  BY <1>1, OneIs, ShlIsWhole
<1>3. \A i \in 0 .. (2 * H - 1) : i - n \in {0} <=> i = n
  BY Widths
<1> QED
  BY <1>2, <1>3, OneIs

LEMMA MaskIsWhole ==
  ASSUME NEW p \in 0 .. (2 * H)
  PROVE  MaskFromPrefix(p) \in Uint128 /\ Whole(MaskFromPrefix(p)) = T!MaskFromPrefix(p)
<1> DEFINE all == FromHalves(U!Bits, U!Bits)
           s == Shr(all, p)
<1>1. H \in Nat \ {0} /\ U!Bits = 0 .. (H - 1) /\ T!Bits = 0 .. (2 * H - 1)
  BY Widths
<1>2. all \in Uint128 /\ all.hi = 0 .. (H - 1) /\ all.lo = 0 .. (H - 1)
  BY <1>1, FromHalvesIs
<1> HIDE DEF all
<1>3. Whole(all) = 0 .. (2 * H - 1)
  <2>1. \A i \in 0 .. (2 * H - 1) : IF i < H THEN i \in 0 .. (H - 1) ELSE i - H \in 0 .. (H - 1)
    BY <1>1
  <2>2. \A i : i \in Whole(all) <=> i \in 0 .. (2 * H - 1)
    BY <1>2, <2>1, WholeIs
  <2> QED
    BY <2>2
<1>4. s \in Uint128 /\ Whole(s) = {i \in 0 .. (2 * H - 1) : i + p \in Whole(all)}
  BY <1>2, ShrIsWhole
<1>5. MaskFromPrefix(p) = Not(s)
  BY DEF MaskFromPrefix, all
<1>6. \A i \in 0 .. (2 * H - 1) : i + p \in 0 .. (2 * H - 1) <=> ~(i >= 2 * H - p)
  BY <1>1
<1>7. T!Not(Whole(s)) = T!MaskFromPrefix(p)
  BY <1>1, <1>3, <1>4, <1>6 DEF T!Not, T!MaskFromPrefix
<1> QED
  BY <1>4, <1>5, <1>7, BitwiseIs

-----------------------------------------------------------------------------
(* The big-endian form                                                     *)

Bytes == H \div B

LEMMA BytesIs ==
  /\ Bytes \in Nat \ {0} /\ B \in Nat \ {0} /\ H = Bytes * B
  /\ \A i \in 0 .. (H - 1) : /\ i \div B \in 0 .. (Bytes - 1) /\ i % B \in 0 .. (B - 1)
                             /\ i = ((i \div B) * B) + (i % B)
<1>1. H \in Nat \ {0} /\ B \in Nat \ {0} /\ H % B = 0
  BY HalfAssumption
<1>2. H = (B * (H \div B)) + (H % B) /\ H \div B \in Nat
  BY <1>1
<1>3. H = Bytes * B /\ Bytes \in Nat
  BY <1>1, <1>2 DEF Bytes
<1>4. Bytes # 0
  BY <1>1, <1>3
<1>5. ASSUME NEW i \in 0 .. (H - 1)
      PROVE  /\ i \div B \in 0 .. (Bytes - 1) /\ i % B \in 0 .. (B - 1)
             /\ i = ((i \div B) * B) + (i % B)
  <2> DEFINE q == i \div B
  <2>1. i \in Nat /\ i < H /\ i % B \in 0 .. (B - 1) /\ i = (B * q) + (i % B) /\ q \in Nat
    BY <1>1
  <2> HIDE DEF q
  <2>2. i = (q * B) + (i % B)
    BY <1>1, <2>1
  <2>3. q < Bytes
    <3>1. ASSUME q >= Bytes PROVE FALSE
      <4>1. PICK t \in Nat : q = Bytes + t
        <5>1. q - Bytes \in Nat /\ q = Bytes + (q - Bytes)
          BY <1>3, <2>1, <3>1
        <5> QED
          BY <5>1
      <4>2. q * B = Bytes * B + t * B /\ t * B \in Nat
        BY <1>1, <1>3, <4>1
      <4> QED
        BY <1>1, <1>3, <2>1, <2>2, <4>2
    <3> QED
      BY <1>3, <2>1, <3>1
  <2>4. q \in 0 .. (Bytes - 1)
    BY <1>3, <2>1, <2>3
  <2> QED
    BY <2>1, <2>2, <2>4 DEF q
<1> QED
  BY <1>1, <1>3, <1>4, <1>5

LEMMA HalfFromBytes ==
  ASSUME NEW x \in U!Word, NEW bytes, \A k \in 1 .. Bytes : bytes[k] = PutUint64(x)[k]
  PROVE  Uint64(bytes) = x
<1>1. /\ Bytes \in Nat \ {0} /\ B \in Nat \ {0} /\ H = Bytes * B /\ U!Bits = 0 .. (H - 1)
      /\ x \subseteq 0 .. (H - 1)
  BY BytesIs, Widths, WordSets
<1>2. ASSUME NEW i \in 0 .. (H - 1) PROVE i \in Uint64(bytes) <=> i \in x
  <2> DEFINE q == i \div B
             r == i % B
             k == Bytes - q
  <2>1. q \in 0 .. (Bytes - 1) /\ r \in 0 .. (B - 1) /\ i = q * B + r
    BY BytesIs
  <2>2. i \in Uint64(bytes) <=> r \in bytes[k]
    BY <1>1 DEF Uint64, Bytes
  <2> HIDE DEF q, r
  <2>3. k \in 1 .. Bytes
    BY <1>1, <2>1
  <2>4. bytes[k] = {t \in 0 .. B - 1 : H - k * B + t \in x}
    BY <2>3 DEF PutUint64, Bytes
  <2>5. H - k * B + r = i
    <3>1. k * B = Bytes * B - q * B
      BY <1>1, <2>1
    <3> QED
      BY <1>1, <2>1, <3>1
  <2> QED
    BY <2>1, <2>2, <2>4, <2>5
<1>3. Uint64(bytes) \subseteq 0 .. (H - 1)
  BY <1>1 DEF Uint64
<1> QED
  BY <1>1, <1>2, <1>3

LEMMA PiecesOf ==
  ASSUME NEW S, NEW a \in Seq(S), NEW b \in Seq(S), NEW n \in Nat, Len(a) = n, Len(b) = n,
         NEW k \in 1 .. n
  PROVE  SubSeq(a \o b, 1, n)[k] = a[k] /\ SubSeq(a \o b, n + 1, 2 * n)[k] = b[k]
<1> DEFINE c == a \o b
<1>1. /\ c \in Seq(S) /\ Len(c) = n + n
      /\ c[k] = a[k] /\ c[n + k] = b[k]
  OBVIOUS
<1> HIDE DEF c
<1>2. SubSeq(c, 1, n)[k] = c[k]
  BY <1>1
<1>3. SubSeq(c, n + 1, 2 * n)[k] = c[n + k]
  <2>1. /\ n + 1 \in 1 .. (Len(c) + 1) /\ 2 * n \in 0 .. Len(c)
        /\ k \in 1 .. (2 * n - (n + 1) + 1)
        /\ (n + 1) + k - 1 = n + k /\ n + 1 \in Int /\ 2 * n \in Int
    BY <1>1
  <2>2. \A i \in (n + 1) .. (2 * n) : c[i] \in S
    BY <1>1
  <2>3. SubSeq(c, n + 1, 2 * n)[k] = c[(n + 1) + k - 1]
    BY <2>1, <2>2, SubSeqProperties
  <2> QED
    BY <2>1, <2>3
<1> QED
  BY <1>1, <1>2, <1>3 DEF c

(* A sequence is the join of its halves.                                   *)
Joined(e, a, b, n, S) ==
  /\ a \in Seq(S) /\ b \in Seq(S) /\ Len(a) = n /\ Len(b) = n /\ n \in Nat
  /\ e \in [1 .. 2 * n -> S]
  /\ \A k \in 1 .. n : a[k] = e[k] /\ b[k] = e[n + k]

LEMMA JoinIs ==
  ASSUME NEW S, NEW a, NEW b, NEW n, NEW e, Joined(e, a, b, n, S)
  PROVE  a \o b = e
<1> USE DEF Joined
<1> DEFINE c == a \o b
<1>1. /\ c \in Seq(S) /\ Len(c) = 2 * n
      /\ \A k \in 1 .. n : c[k] = a[k] /\ c[n + k] = b[k]
  OBVIOUS
<1> HIDE DEF c
<1>2. c \in [1 .. 2 * n -> S]
  BY <1>1
<1>3. ASSUME NEW k \in 1 .. 2 * n PROVE c[k] = e[k]
  <2>1. CASE k <= n
    BY <1>1, <2>1
  <2>2. CASE ~(k <= n)
    <3>1. k - n \in 1 .. n /\ k = n + (k - n)
      BY <2>2
    <3> QED
      BY <1>1, <3>1
  <2> QED
    BY <2>1, <2>2
<1>4. c = e
  BY <1>2, <1>3
<1> QED
  BY <1>4 DEF c

(* Bytes tile each half, and the word.                                     *)
LEMMA BytesInHalf ==
  ASSUME NEW k \in 1 .. Bytes
  PROVE  /\ k * B \in Nat /\ B <= k * B /\ k * B <= H /\ (Bytes + k) * B = H + k * B
<1>1. Bytes \in Nat \ {0} /\ B \in Nat \ {0} /\ H = Bytes * B
  BY BytesIs
<1>2. PICK s \in Nat, t \in Nat : k = 1 + s /\ Bytes = k + t
  <2>1. k - 1 \in Nat /\ Bytes - k \in Nat /\ k = 1 + (k - 1) /\ Bytes = k + (Bytes - k)
    BY <1>1
  <2> QED
    BY <2>1
<1>3. k * B = B + s * B /\ Bytes * B = k * B + t * B /\ s * B \in Nat /\ t * B \in Nat
  BY <1>1, <1>2
<1>4. (Bytes + k) * B = Bytes * B + k * B
  BY <1>1
<1> QED
  BY <1>1, <1>3, <1>4

LEMMA BytesOfBoth == (2 * H) \div B = 2 * Bytes
<1>1. Bytes \in Nat \ {0} /\ B \in Nat \ {0} /\ H = Bytes * B
  BY BytesIs
<1>2. 2 * H = B * (2 * Bytes) + 0
  BY <1>1
<1>3. 2 * H \in Nat /\ 2 * Bytes \in Nat
  BY <1>1
<1> QED
  BY <1>1, <1>2, <1>3

(* The bytes are those of the whole word, and read back.                   *)
LEMMA BytesAreTheWord ==
  ASSUME NEW m \in Uint128
  PROVE  /\ From16(As16(m)) = m
         /\ As16(m) = Abstract!BigEndian(Whole(m))
<1> DEFINE a == PutUint64(m.hi)
           b == PutUint64(m.lo)
           S == SUBSET (0 .. (B - 1))
<1>1. Bytes \in Nat \ {0}
  BY BytesIs
<1>2. \A x : PutUint64(x) \in Seq(S) /\ Len(PutUint64(x)) = Bytes
  <2>1. \A x : PutUint64(x) \in [1 .. Bytes -> S]
    BY DEF PutUint64, Bytes
  <2> HIDE DEF S
  <2> QED
    BY <1>1, <2>1
<1> HIDE DEF a, b, S
<1>3. /\ As16(m) = a \o b
      /\ a \in Seq(S) /\ b \in Seq(S) /\ Len(a) = Bytes /\ Len(b) = Bytes
  BY <1>2 DEF As16, a, b
<1>4. ASSUME NEW k \in 1 .. Bytes
      PROVE  /\ SubSeq(a \o b, 1, Bytes)[k] = a[k]
             /\ SubSeq(a \o b, Bytes + 1, 2 * Bytes)[k] = b[k]
  <2>1. Bytes \in Nat
    BY <1>1
  <2>2. a \in Seq(S) /\ b \in Seq(S) /\ Len(a) = Bytes /\ Len(b) = Bytes
    BY <1>3
  <2> QED
    BY <2>1, <2>2, PiecesOf
<1>5. /\ Uint64(SubSeq(a \o b, 1, Bytes)) = m.hi
      /\ Uint64(SubSeq(a \o b, Bytes + 1, 2 * Bytes)) = m.lo
  <2>1. m.hi \in U!Word /\ m.lo \in U!Word
    BY HalfFields
  <2>2. \A k \in 1 .. Bytes : SubSeq(a \o b, 1, Bytes)[k] = PutUint64(m.hi)[k]
    BY <1>4 DEF a
  <2>3. \A k \in 1 .. Bytes : SubSeq(a \o b, Bytes + 1, 2 * Bytes)[k] = PutUint64(m.lo)[k]
    BY <1>4 DEF b
  <2>4. Uint64(SubSeq(a \o b, 1, Bytes)) = m.hi
    BY <2>1, <2>2, HalfFromBytes
  <2> QED
    BY <2>1, <2>3, <2>4, HalfFromBytes
<1>6. From16(As16(m)) = FromHalves(m.hi, m.lo)
  BY <1>3, <1>5 DEF From16, Bytes
<1>7. /\ Bytes \in Nat \ {0} /\ B \in Nat \ {0} /\ H = Bytes * B /\ H \in Nat \ {0}
      /\ (2 * H) \div B = 2 * Bytes
  BY BytesIs, BytesOfBoth, Widths
<1>8. m.hi \subseteq 0 .. (H - 1) /\ m.lo \subseteq 0 .. (H - 1)
  BY HalfFields, WordSets
<1>9. ASSUME NEW k \in 1 .. Bytes
      PROVE  /\ a[k] = Abstract!BigEndian(Whole(m))[k]
             /\ b[k] = Abstract!BigEndian(Whole(m))[Bytes + k]
  <2>1. /\ k * B \in Nat /\ B <= k * B /\ k * B <= H /\ (Bytes + k) * B = H + k * B
        /\ k \in 1 .. 2 * Bytes /\ Bytes + k \in 1 .. 2 * Bytes
    BY <1>7, BytesInHalf
  <2>2. /\ a[k] = {i \in 0 .. B - 1 : H - k * B + i \in m.hi}
        /\ b[k] = {i \in 0 .. B - 1 : H - k * B + i \in m.lo}
    BY DEF a, b, PutUint64, Bytes
  <2>3. /\ Abstract!BigEndian(Whole(m))[k] = {i \in 0 .. B - 1 : 2 * H - k * B + i \in Whole(m)}
        /\ Abstract!BigEndian(Whole(m))[Bytes + k]
             = {i \in 0 .. B - 1 : 2 * H - (Bytes + k) * B + i \in Whole(m)}
    BY <1>7, <2>1 DEF Abstract!BigEndian
  <2>4. ASSUME NEW i \in 0 .. B - 1
        PROVE  /\ 2 * H - k * B + i \in Whole(m) <=> H - k * B + i \in m.hi
               /\ 2 * H - (Bytes + k) * B + i \in Whole(m) <=> H - k * B + i \in m.lo
    <3> DEFINE j == H - k * B + i
    <3>1. /\ j \in 0 .. (H - 1) /\ 2 * H - k * B + i = j + H
          /\ 2 * H - (Bytes + k) * B + i = j
      <4> DEFINE q == k * B
      <4>1. q \in Nat /\ B <= q /\ q <= H /\ (Bytes + k) * B = H + q /\ j = H - q + i
        BY <2>1
      <4> HIDE DEF q, j
      <4>2. 2 * H - q + i = j + H /\ j \in 0 .. (H - 1) /\ 2 * H - (H + q) + i = j
        BY <1>7, <4>1
      <4> QED
        BY <4>1, <4>2 DEF q
    <3> HIDE DEF j
    <3>2. (j + H \in Whole(m) <=> j \in m.hi) /\ (j \in Whole(m) <=> j \in m.lo)
      BY <1>7, <1>8, <3>1 DEF Whole
    <3> QED
      BY <3>1, <3>2 DEF j
  <2> QED
    BY <2>2, <2>3, <2>4
<1>10. As16(m) = Abstract!BigEndian(Whole(m))
  <2> DEFINE e == Abstract!BigEndian(Whole(m))
  <2>1. e \in [1 .. 2 * Bytes -> S]
    BY <1>7 DEF Abstract!BigEndian, S
  <2> HIDE DEF e
  <2>2. a \in Seq(S) /\ b \in Seq(S) /\ Len(a) = Bytes /\ Len(b) = Bytes /\ Bytes \in Nat
    BY <1>3, <1>7
  <2>3. \A k \in 1 .. Bytes : a[k] = e[k] /\ b[k] = e[Bytes + k]
    BY <1>9 DEF e
  <2>4. a \o b = e
    <3>1. Joined(e, a, b, Bytes, S)
      BY <2>1, <2>2, <2>3 DEF Joined
    <3> QED
      BY <3>1, JoinIs
  <2> QED
    BY <1>3, <2>4 DEF e
<1> QED
  BY <1>6, <1>10, HalfFields

-----------------------------------------------------------------------------
(* The questions                                                           *)

(* The high halves decide, and if they are equal the low ones.             *)
LEMMA LtIsWhole ==
  ASSUME NEW m \in Uint128, NEW o \in Uint128
  PROVE  T!Lt(Whole(m), Whole(o)) <=> U!Lt(m.hi, o.hi) \/ (m.hi = o.hi /\ U!Lt(m.lo, o.lo))
<1> DEFINE a == Whole(m)
           b == Whole(o)
<1>1. /\ H \in Nat \ {0}
      /\ m.hi \subseteq 0 .. (H - 1) /\ m.lo \subseteq 0 .. (H - 1)
      /\ o.hi \subseteq 0 .. (H - 1) /\ o.lo \subseteq 0 .. (H - 1)
      /\ a \subseteq 0 .. (2 * H - 1) /\ b \subseteq 0 .. (2 * H - 1)
  BY Widths, HalfFields, WholeBits
<1>2. \A i \in 0 .. (H - 1) : /\ i \in a <=> i \in m.lo
                              /\ i + H \in a <=> i \in m.hi
                              /\ i \in b <=> i \in o.lo
                              /\ i + H \in b <=> i \in o.hi
  BY WholeBits
<1>3. \A i \in 0 .. (2 * H - 1) : i < H \/ \E k \in 0 .. (H - 1) : i = k + H
  <2> SUFFICES ASSUME NEW i \in 0 .. (2 * H - 1), ~(i < H) PROVE \E k \in 0 .. (H - 1) : i = k + H
    OBVIOUS
  <2>1. i - H \in 0 .. (H - 1) /\ i = (i - H) + H
    BY <1>1
  <2> QED
    BY <2>1
<1> HIDE DEF a, b
<1>4. ASSUME NEW i \in 0 .. (H - 1), i \in o.hi \ m.hi, \A j \in m.hi \ o.hi : j < i
      PROVE  T!Lt(a, b)
  <2>1. i + H \in b \ a
    BY <1>2, <1>4
  <2>2. ASSUME NEW j \in a \ b PROVE j < i + H
    <3>1. j \in 0 .. (2 * H - 1)
      BY <1>1, <2>2
    <3>2. CASE j < H
      BY <1>1, <3>1, <3>2
    <3>3. ASSUME NEW k \in 0 .. (H - 1), j = k + H PROVE j < i + H
      <4>1. k \in m.hi \ o.hi
        BY <1>2, <2>2, <3>3
      <4> QED
        BY <1>1, <1>4, <3>3, <4>1
    <3> QED
      BY <1>3, <3>1, <3>2, <3>3
  <2> QED
    BY <2>1, <2>2 DEF T!Lt
<1>5. U!Lt(m.hi, o.hi) => T!Lt(a, b)
  BY <1>1, <1>4 DEF U!Lt
<1>6. m.hi = o.hi /\ U!Lt(m.lo, o.lo) => T!Lt(a, b)
  <2> SUFFICES ASSUME m.hi = o.hi, NEW i \in o.lo \ m.lo, \A j \in m.lo \ o.lo : j < i
               PROVE  T!Lt(a, b)
    BY DEF U!Lt
  <2>1. i \in 0 .. (H - 1) /\ i \in b \ a
    BY <1>1, <1>2
  <2>2. ASSUME NEW j \in a \ b PROVE j < i
    <3>1. j \in 0 .. (2 * H - 1)
      BY <1>1, <2>2
    <3>2. ASSUME NEW k \in 0 .. (H - 1) PROVE j # k + H
      BY <1>2, <2>2, <3>2
    <3>3. j < H
      BY <1>3, <3>1, <3>2
    <3>4. j \in m.lo \ o.lo
      BY <1>1, <1>2, <2>2, <3>1, <3>3
    <3> QED
      BY <3>4
  <2> QED
    BY <2>1, <2>2 DEF T!Lt
<1>7. ASSUME T!Lt(a, b)
      PROVE  U!Lt(m.hi, o.hi) \/ (m.hi = o.hi /\ U!Lt(m.lo, o.lo))
  <2>1. PICK i \in b \ a : \A j \in a \ b : j < i
    BY <1>7 DEF T!Lt
  <2>2. i \in 0 .. (2 * H - 1)
    BY <1>1
  <2>3. ASSUME NEW k \in 0 .. (H - 1), i = k + H PROVE U!Lt(m.hi, o.hi)
    <3>1. k \in o.hi \ m.hi
      BY <1>2, <2>3
    <3>2. ASSUME NEW j \in m.hi \ o.hi PROVE j < k
      <4>1. j \in 0 .. (H - 1) /\ j + H \in a \ b
        BY <1>1, <1>2
      <4>2. j + H < k + H
        BY <2>1, <2>3, <4>1
      <4> QED
        BY <1>1, <4>1, <4>2
    <3> QED
      BY <3>1, <3>2 DEF U!Lt
  <2>4. CASE i < H
    <3>1. i \in 0 .. (H - 1) /\ i \in o.lo \ m.lo
      BY <1>1, <1>2, <2>2, <2>4
    <3>2. ASSUME NEW j \in m.hi \ o.hi PROVE FALSE
      <4>1. j \in 0 .. (H - 1) /\ j + H \in a \ b
        BY <1>1, <1>2
      <4>2. j + H < i
        BY <2>1, <4>1
      <4> QED
        BY <1>1, <2>2, <2>4, <4>1, <4>2
    <3>3. \A j \in m.lo \ o.lo : j < i
      BY <1>1, <1>2, <2>1
    <3>4. U!Lt(m.lo, o.lo)
      BY <3>1, <3>3 DEF U!Lt
    <3>5. CASE m.hi = o.hi
      BY <3>4, <3>5
    <3>6. CASE m.hi # o.hi
      <4>1. PICK k : k \in o.hi \ m.hi
        BY <3>2, <3>6
      <4> QED
        BY <3>2, <4>1 DEF U!Lt
    <3> QED
      BY <3>5, <3>6
  <2> QED
    BY <1>3, <2>2, <2>3, <2>4
<1> QED
  BY <1>5, <1>6, <1>7 DEF a, b

(* The word's CASE has the same branches.                                  *)
LEMMA CompareIsWhole ==
  ASSUME NEW m \in Uint128, NEW o \in Uint128
  PROVE  Compare(m, o) = CASE T!Lt(Whole(m), Whole(o)) -> -1
                           [] Whole(m) = Whole(o) -> 0
                           [] T!Lt(Whole(o), Whole(m)) -> 1
<1> DEFINE a == Whole(m)
           b == Whole(o)
<1>1. 2 * H \in Nat \ {0} /\ a \in T!Word /\ b \in T!Word /\ (a = b <=> m = o)
  BY Widths, WholeBits, WholeTells
<1>2. Compare(m, o) = CASE T!Lt(a, b) -> -1 [] a = b -> 0 [] OTHER -> 1
  BY <1>1, LtIsWhole DEF Compare
<1>3. T!Lt(a, b) => ~T!Lt(b, a) /\ a # b
  BY <1>1, T!LtAsymmetric
<1>4. T!Lt(b, a) => ~T!Lt(a, b) /\ a # b
  BY <1>1, T!LtAsymmetric
<1>5. a # b => T!Lt(a, b) \/ T!Lt(b, a)
  BY <1>1, T!LtTotal
<1> HIDE DEF a, b
<1>6. Compare(m, o) = CASE T!Lt(a, b) -> -1 [] a = b -> 0 [] T!Lt(b, a) -> 1
  <2>1. CASE T!Lt(a, b)
    BY <1>2, <1>3, <2>1
  <2>2. CASE a = b
    BY <1>2, <1>3, <1>4, <2>2
  <2>3. CASE T!Lt(b, a)
    BY <1>2, <1>4, <2>3
  <2> QED
    BY <1>5, <2>1, <2>2, <2>3
<1> QED
  BY <1>6 DEF a, b

LEMMA CountOfWhole ==
  ASSUME NEW m \in Uint128
  PROVE  Cardinality(Whole(m)) = Cardinality(m.hi) + Cardinality(m.lo)
<1> DEFINE up == {i + H : i \in m.hi}
           f == [i \in m.hi |-> i + H]
<1>1. H \in Nat \ {0} /\ m.hi \subseteq 0 .. (H - 1) /\ m.lo \subseteq 0 .. (H - 1)
  BY Widths, HalfFields
<1>2. IsFiniteSet(m.hi) /\ IsFiniteSet(m.lo)
  <2>1. IsFiniteSet(0 .. (H - 1))
    BY <1>1, FS_Interval
  <2> QED
    BY <1>1, <2>1, FS_Subset
<1>3. f \in Bijection(m.hi, up)
  <2>1. f \in [m.hi -> up]
    OBVIOUS
  <2>2. \A i, j \in m.hi : f[i] = f[j] => i = j
    BY <1>1
  <2>3. \A k \in up : \E i \in m.hi : f[i] = k
    OBVIOUS
  <2> HIDE DEF f, up
  <2> QED
    BY <2>1, <2>2, <2>3 DEF Bijection, Injection, Surjection, IsInjective
<1>4. IsFiniteSet(up) /\ Cardinality(up) = Cardinality(m.hi)
  <2>1. ExistsBijection(m.hi, up)
    BY <1>3 DEF ExistsBijection
  <2> HIDE DEF up
  <2> QED
    BY <1>2, <2>1, FS_Bijection
<1>5. m.lo \cap up = {} /\ Whole(m) = m.lo \cup up
  BY <1>1 DEF Whole
<1> HIDE DEF up
<1>6. Cardinality(m.lo \cup up) = Cardinality(m.lo) + Cardinality(up) - Cardinality(m.lo \cap up)
  BY <1>2, <1>4, FS_Union
<1>7. Cardinality({}) = 0 /\ Cardinality(m.lo) \in Nat /\ Cardinality(m.hi) \in Nat
  BY <1>2, FS_EmptySet, FS_CardinalityType
<1>8. Cardinality(Whole(m)) = Cardinality(m.lo \cup up) /\ Cardinality(m.lo \cap up) = 0
  BY <1>5, <1>7, Zenon
<1> QED
  BY <1>4, <1>6, <1>7, <1>8

(* Both halves of an interval of bits.                                     *)
LEMMA HalfCounts ==
  /\ Cardinality(0 .. (H - 1)) = H /\ Cardinality({}) = 0
<1>1. 0 \in Int /\ H - 1 \in Int /\ H \in Nat \ {0}
  BY Widths
<1>2. Cardinality(0 .. (H - 1)) = IF 0 > H - 1 THEN 0 ELSE (H - 1) - 0 + 1
  BY <1>1, FS_Interval
<1> QED
  BY <1>1, <1>2, FS_EmptySet

LEMMA LeadingZerosIsWhole ==
  ASSUME NEW m \in Uint128
  PROVE  LeadingZeros(m) = Cardinality({i \in 0 .. (2 * H - 1) : \A j \in Whole(m) : j < i})
<1> DEFINE above(x) == {i \in 0 .. (H - 1) : \A j \in x : j < i}
           free == FromHalves(above(m.hi), IF m.hi = {} THEN above(m.lo) ELSE {})
           word == {i \in 0 .. (2 * H - 1) : \A j \in Whole(m) : j < i}
<1>1. /\ H \in Nat \ {0} /\ U!Bits = 0 .. (H - 1)
      /\ m.hi \subseteq 0 .. (H - 1) /\ m.lo \subseteq 0 .. (H - 1)
  BY Widths, HalfFields
<1>2. /\ free \in Uint128 /\ free.hi = above(m.hi)
      /\ free.lo = IF m.hi = {} THEN above(m.lo) ELSE {}
  <2>1. /\ above(m.hi) \subseteq 0 .. (H - 1)
        /\ (IF m.hi = {} THEN above(m.lo) ELSE {}) \subseteq 0 .. (H - 1)
    OBVIOUS
  <2> HIDE DEF above
  <2> QED
    BY <2>1, FromHalvesIs
<1> HIDE DEF free
<1>3. Whole(free) = word
  <2>1. ASSUME NEW i \in 0 .. (2 * H - 1)
        PROVE i \in Whole(free) <=> \A j \in Whole(m) : j < i
    <3>1. CASE i < H
      <4>1. i \in Whole(free) <=> (m.hi = {} /\ \A j \in m.lo : j < i)
        BY <1>1, <1>2, <3>1, WholeIs
      <4>2. ASSUME NEW k \in m.hi PROVE ~ \A j \in Whole(m) : j < i
        <5>1. k + H \in Whole(m) /\ ~(k + H < i)
          BY <1>1, <3>1, <4>2, WholeBits
        <5> QED
          BY <5>1
      <4>3. m.hi = {} => Whole(m) = m.lo
        BY DEF Whole
      <4> QED
        BY <4>1, <4>2, <4>3
    <3>2. CASE i >= H
      <4>1. i \in Whole(free) <=> i - H \in above(m.hi)
        BY <1>1, <1>2, <3>2, WholeIs
      <4>2. i - H \in above(m.hi) <=> \A j \in m.hi : j < i - H
        BY <1>1, <3>2
      <4>3. \A j \in m.lo : j < i
        BY <1>1, <3>2
      <4>4. (\A j \in Whole(m) : j < i) <=> \A j \in m.hi : j < i - H
        BY <1>1, <4>3 DEF Whole
      <4> QED
        BY <4>1, <4>2, <4>4
    <3> QED
      BY <1>1, <3>1, <3>2
  <2> QED
    BY <1>2, <2>1, WholeBits
<1>4. Cardinality(word) = Cardinality(free.hi) + Cardinality(free.lo)
  BY <1>2, <1>3, CountOfWhole
<1>5. /\ LeadingZeros64(m.hi) = Cardinality(above(m.hi))
      /\ LeadingZeros64(m.lo) = Cardinality(above(m.lo))
  BY <1>1 DEF LeadingZeros64
<1>6. m.hi = {} => above(m.hi) = 0 .. (H - 1)
  OBVIOUS
<1>7. \A x : Cardinality(above(x)) \in Nat
  <2>1. IsFiniteSet(0 .. (H - 1))
    BY <1>1, FS_Interval
  <2>2. \A x : above(x) \subseteq 0 .. (H - 1)
    OBVIOUS
  <2> HIDE DEF above
  <2> QED
    BY <2>1, <2>2, FS_Subset, FS_CardinalityType
<1> HIDE DEF above, word
<1>8. LeadingZeros(m) = Cardinality(word)
  <2>1. CASE m.hi = {}
    BY <1>2, <1>4, <1>5, <1>6, <2>1, HalfCounts DEF LeadingZeros
  <2>2. CASE m.hi # {}
    BY <1>2, <1>4, <1>5, <1>7, <2>2, HalfCounts DEF LeadingZeros
  <2> QED
    BY <2>1, <2>2
<1> QED
  BY <1>8 DEF word

LEMMA TrailingZerosIsWhole ==
  ASSUME NEW m \in Uint128
  PROVE  TrailingZeros(m) = Cardinality({i \in 0 .. (2 * H - 1) : \A j \in Whole(m) : i < j})
<1> DEFINE below(x) == {i \in 0 .. (H - 1) : \A j \in x : i < j}
           free == FromHalves(IF m.lo = {} THEN below(m.hi) ELSE {}, below(m.lo))
           word == {i \in 0 .. (2 * H - 1) : \A j \in Whole(m) : i < j}
<1>1. /\ H \in Nat \ {0} /\ U!Bits = 0 .. (H - 1)
      /\ m.hi \subseteq 0 .. (H - 1) /\ m.lo \subseteq 0 .. (H - 1)
  BY Widths, HalfFields
<1>2. /\ free \in Uint128 /\ free.lo = below(m.lo)
      /\ free.hi = IF m.lo = {} THEN below(m.hi) ELSE {}
  <2>1. /\ below(m.lo) \subseteq 0 .. (H - 1)
        /\ (IF m.lo = {} THEN below(m.hi) ELSE {}) \subseteq 0 .. (H - 1)
    OBVIOUS
  <2> HIDE DEF below
  <2> QED
    BY <2>1, FromHalvesIs
<1> HIDE DEF free
<1>3. Whole(free) = word
  <2>1. ASSUME NEW i \in 0 .. (2 * H - 1)
        PROVE i \in Whole(free) <=> \A j \in Whole(m) : i < j
    <3>1. CASE i >= H
      <4>1. i \in Whole(free) <=> i - H \in free.hi
        BY <1>1, <1>2, <3>1, WholeIs
      <4>2. i - H \in free.hi <=> (m.lo = {} /\ \A j \in m.hi : i - H < j)
        BY <1>1, <1>2, <3>1
      <4>3. ASSUME NEW k \in m.lo PROVE ~ \A j \in Whole(m) : i < j
        <5>1. k \in Whole(m) /\ ~(i < k)
          BY <1>1, <3>1, <4>3, WholeBits
        <5> QED
          BY <5>1
      <4>4. ASSUME m.lo = {} PROVE (\A j \in Whole(m) : i < j) <=> \A j \in m.hi : i - H < j
        <5>1. (\A j \in Whole(m) : i < j) <=> \A j \in m.hi : i < j + H
          BY <4>4 DEF Whole
        <5>2. \A j \in m.hi : i < j + H <=> i - H < j
          BY <1>1
        <5> QED
          BY <5>1, <5>2
      <4> QED
        BY <4>1, <4>2, <4>3, <4>4
    <3>2. CASE i < H
      <4>1. i \in Whole(free) <=> i \in below(m.lo)
        BY <1>1, <1>2, <3>2, WholeIs
      <4>2. i \in below(m.lo) <=> \A j \in m.lo : i < j
        BY <1>1, <3>2
      <4>3. (\A j \in Whole(m) : i < j) <=> \A j \in m.lo : i < j
        BY <1>1, <3>2 DEF Whole
      <4> QED
        BY <4>1, <4>2, <4>3
    <3> QED
      BY <1>1, <3>1, <3>2
  <2> QED
    BY <1>2, <2>1, WholeBits
<1>4. Cardinality(word) = Cardinality(free.hi) + Cardinality(free.lo)
  BY <1>2, <1>3, CountOfWhole
<1>5. /\ TrailingZeros64(m.hi) = Cardinality(below(m.hi))
      /\ TrailingZeros64(m.lo) = Cardinality(below(m.lo))
  BY <1>1 DEF TrailingZeros64
<1>6. m.lo = {} => below(m.lo) = 0 .. (H - 1)
  OBVIOUS
<1>7. \A x : Cardinality(below(x)) \in Nat
  <2>1. IsFiniteSet(0 .. (H - 1))
    BY <1>1, FS_Interval
  <2>2. \A x : below(x) \subseteq 0 .. (H - 1)
    OBVIOUS
  <2> HIDE DEF below
  <2> QED
    BY <2>1, <2>2, FS_Subset, FS_CardinalityType
<1> HIDE DEF below, word
<1>8. TrailingZeros(m) = Cardinality(word)
  <2>1. CASE m.lo = {}
    BY <1>1, <1>2, <1>4, <1>5, <1>6, <1>7, <2>1, HalfCounts DEF TrailingZeros
  <2>2. CASE m.lo # {}
    BY <1>2, <1>4, <1>5, <1>7, <2>2, HalfCounts DEF TrailingZeros
  <2> QED
    BY <2>1, <2>2
<1> QED
  BY <1>8 DEF word
LEMMA PowerIsWhole ==
  ASSUME NEW m \in Uint128
  PROVE  IsPowerOfTwo(m) <=> Cardinality(Whole(m)) = 1
<1> DEFINE w == Whole(m)
<1>1. 2 * H \in Nat \ {0} /\ w \in T!Word
  BY Widths, WholeBits
<1>2. IsZero(m) <=> w = {}
  BY WholeTells
<1>3. IsZero(ClearLowestSetBit(m)) <=> T!ClearLowestSetBit(w) = {}
  BY ClearLowestIsWhole, WholeTells
<1>4. T!ClearLowestSetBit(w) = {} <=> \A i, j \in w : i = j
  BY <1>1, T!ClearLowestEmpty
<1>5. IsFiniteSet(w)
  <2>1. IsFiniteSet(0 .. (2 * H - 1)) /\ w \subseteq 0 .. (2 * H - 1)
    BY Widths, WholeBits, FS_Interval
  <2> QED
    BY <2>1, FS_Subset
<1>6. Cardinality(w) = 1 <=> \E x : w = {x}
  BY <1>5, FS_Singleton
<1> HIDE DEF w
<1>7. (w # {} /\ \A i, j \in w : i = j) <=> \E x : w = {x}
  OBVIOUS
<1>8. IsPowerOfTwo(m) <=> Cardinality(w) = 1
  BY <1>2, <1>3, <1>4, <1>6, <1>7 DEF IsPowerOfTwo
<1> QED
  BY <1>8 DEF w

LEMMA ContiguousIsWhole ==
  ASSUME NEW m \in Uint128
  PROVE  IsContiguousMask(m) <=> \E p \in 0 .. (2 * H) : Whole(m) = T!MaskFromPrefix(p)
<1> DEFINE w == Whole(m)
<1>1. /\ 2 * H \in Nat \ {0} /\ w \in T!Word /\ T!Bits = 0 .. (2 * H - 1)
      /\ U!Bits = 0 .. (H - 1)
  BY Widths, WholeBits
<1>2. SubOne(m) \in Uint128 /\ Whole(SubOne(m)) = T!SubOne(w)
  BY SubOneIsWhole
<1>3. Or(m, SubOne(m)) \in Uint128 /\ Whole(Or(m, SubOne(m))) = w \cup T!SubOne(w)
  BY <1>2, BitwiseIs
<1>4. \A o \in Uint128 : IsMax(o) <=> Whole(o) = T!Bits
  <2> SUFFICES ASSUME NEW o \in Uint128 PROVE IsMax(o) <=> Whole(o) = T!Bits
    OBVIOUS
  <2>1. o.hi \subseteq 0 .. (H - 1) /\ o.lo \subseteq 0 .. (H - 1) /\ H \in Nat \ {0}
    BY HalfFields, Widths
  <2>2. IsMax(o) <=> o.hi = 0 .. (H - 1) /\ o.lo = 0 .. (H - 1)
    BY <1>1, <2>1 DEF IsMax
  <2>3. Whole(o) = 0 .. (2 * H - 1) => \A i \in 0 .. (H - 1) : i \in o.lo /\ i \in o.hi
    <3>1. \A i \in 0 .. (H - 1) : i \in 0 .. (2 * H - 1) /\ i + H \in 0 .. (2 * H - 1)
      BY <2>1
    <3> QED
      BY <3>1, WholeBits
  <2>4. ASSUME o.hi = 0 .. (H - 1), o.lo = 0 .. (H - 1) PROVE Whole(o) = 0 .. (2 * H - 1)
    <3>1. \A i \in 0 .. (2 * H - 1) : IF i < H THEN i \in 0 .. (H - 1) ELSE i - H \in 0 .. (H - 1)
      BY <2>1
    <3>2. \A i : i \in Whole(o) <=> i \in 0 .. (2 * H - 1)
      BY <2>4, <3>1, WholeIs
    <3> QED
      BY <3>2
  <2> QED
    BY <1>1, <2>1, <2>2, <2>3, <2>4
<1>5. IsContiguousMask(m) <=> w \cup T!SubOne(w) = T!Bits
  <2>1. IsMax(Or(m, SubOne(m))) <=> Whole(Or(m, SubOne(m))) = T!Bits
    BY <1>3, <1>4
  <2> QED
    BY <1>3, <2>1, Zenon DEF IsContiguousMask
<1> HIDE DEF w
<1>6. w \cup T!SubOne(w) = T!Bits => \E p \in 0 .. (2 * H) : w = T!MaskFromPrefix(p)
  <2>1. T!LeadingOnes(w) \in 0 .. (2 * H) /\ T!MaskFromPrefix(T!LeadingOnes(w)) = T!Run(w)
    BY <1>1, T!LeadingRun
  <2>2. w \cup T!SubOne(w) = T!Bits <=> T!Run(w) = w
    BY <1>1, T!RunFacts
  <2> QED
    BY <2>1, <2>2
<1>7. ASSUME NEW p \in 0 .. (2 * H), w = T!MaskFromPrefix(p)
      PROVE w \cup T!SubOne(w) = T!Bits
  <2>1. T!Run(w) = w
    BY <1>1, <1>7, T!PrefixMask
  <2>2. w \cup T!SubOne(w) = T!Bits <=> T!Run(w) = w
    BY <1>1, T!RunFacts
  <2> QED
    BY <2>1, <2>2
<1> QED
  BY <1>5, <1>6, <1>7 DEF w

LEMMA LeadingOnesIsWhole ==
  ASSUME NEW m \in Uint128
  PROVE  LeadingOnes(m) = T!LeadingOnes(Whole(m))
<1> DEFINE w == Whole(m)
<1>1. T!Bits = 0 .. (2 * H - 1) /\ 2 * H \in Nat \ {0} /\ w \subseteq 0 .. (2 * H - 1)
  BY Widths, WholeBits
<1>2. Not(m) \in Uint128 /\ Whole(Not(m)) = T!Not(w)
  BY BitwiseIs
<1>3. LeadingOnes(m) = Cardinality({i \in 0 .. (2 * H - 1) : \A j \in Whole(Not(m)) : j < i})
  BY <1>2, LeadingZerosIsWhole DEF LeadingOnes
<1>4. ASSUME NEW i \in 0 .. (2 * H - 1)
      PROVE  (\A j \in Whole(Not(m)) : j < i) <=> i .. (2 * H - 1) \subseteq w
  BY <1>1, <1>2 DEF T!Not
<1>5. {i \in 0 .. (2 * H - 1) : \A j \in Whole(Not(m)) : j < i}
        = {i \in T!Bits : i .. (2 * H - 1) \subseteq w}
  BY <1>1, <1>4
<1>6. \A S : T!Cardinality(S) = Cardinality(S)
  BY DEF T!Cardinality, Cardinality
<1>7. T!LeadingOnes(w) = Cardinality({i \in T!Bits : i .. (2 * H - 1) \subseteq w})
  BY <1>6, Zenon DEF T!LeadingOnes
<1> QED
  BY <1>3, <1>5, <1>7, Zenon

(* The words of the specification and those of the theorems are the same.  *)
LEMMA SameWord ==
  /\ \A a, b : Abstract!Xor(a, b) = T!Xor(a, b)
  /\ \A a, b : Abstract!Add(a, b) = T!Add(a, b)
  /\ \A a, b : Abstract!Sub(a, b) = T!Sub(a, b)
  /\ \A a, b : Abstract!Lt(a, b) <=> T!Lt(a, b)
  /\ \A a : /\ Abstract!Not(a) = T!Not(a)
            /\ Abstract!AddOne(a) = T!AddOne(a) /\ Abstract!SubOne(a) = T!SubOne(a)
            /\ Abstract!Neg(a) = T!Neg(a)
            /\ Abstract!LowestSetBit(a) = T!LowestSetBit(a)
            /\ Abstract!ClearLowestSetBit(a) = T!ClearLowestSetBit(a)
            /\ Abstract!MaskFromPrefix(a) = T!MaskFromPrefix(a)
            /\ Abstract!LeadingOnes(a) = T!LeadingOnes(a)
            /\ Abstract!Cardinality(a) = Cardinality(a)
<1>1. Abstract!Bits = T!Bits
  BY DEF Abstract!Bits, T!Bits
<1>2. \A a, b : Abstract!Xor(a, b) = T!Xor(a, b)
  BY DEF Abstract!Xor, T!Xor
<1>3. \A a : Abstract!ToNat(a) = T!ToNat(a) /\ Abstract!FromNat(a) = T!FromNat(a)
  BY <1>1 DEF Abstract!ToNat, T!ToNat, Abstract!FromNat, T!FromNat
<1>4. \A a, b : Abstract!Add(a, b) = T!Add(a, b) /\ Abstract!Sub(a, b) = T!Sub(a, b)
  BY <1>3, Zenon DEF Abstract!Add, T!Add, Abstract!Sub, T!Sub
<1>5. \A a, b : Abstract!Lt(a, b) <=> T!Lt(a, b)
  BY DEF Abstract!Lt, T!Lt
<1>6. \A a : Abstract!Not(a) = T!Not(a) /\ Abstract!Neg(a) = T!Neg(a)
  BY <1>1, <1>4, Zenon DEF Abstract!Not, T!Not, Abstract!Neg, T!Neg
<1>7. \A a : Abstract!AddOne(a) = T!AddOne(a) /\ Abstract!SubOne(a) = T!SubOne(a)
  BY <1>1 DEF Abstract!AddOne, T!AddOne, Abstract!SubOne, T!SubOne
<1>8. \A a : /\ Abstract!LowestSetBit(a) = T!LowestSetBit(a)
             /\ Abstract!ClearLowestSetBit(a) = T!ClearLowestSetBit(a)
  BY <1>7, Zenon DEF Abstract!LowestSetBit, T!LowestSetBit,
                     Abstract!ClearLowestSetBit, T!ClearLowestSetBit
<1>9. \A a : Abstract!MaskFromPrefix(a) = T!MaskFromPrefix(a)
  BY <1>1, Zenon DEF Abstract!MaskFromPrefix, T!MaskFromPrefix
<1>10. \A a : /\ Abstract!LeadingOnes(a) = T!LeadingOnes(a)
              /\ Abstract!Cardinality(a) = Cardinality(a)
  BY <1>1 DEF Abstract!LeadingOnes, T!LeadingOnes, Abstract!Cardinality, T!Cardinality,
       Cardinality
<1> QED
  BY <1>2, <1>4, <1>5, <1>6, <1>7, <1>8, <1>9, <1>10

LEMMA AnswersAreTheWords ==
  ASSUME value \in Uint128, NEW x \in Uint128
  PROVE  Answers(x) = Abstract!Answers(Whole(x))
<1> DEFINE w == Whole(value)
           v == Whole(x)
<1>1. Abstract!Bits = 0 .. (2 * H - 1) /\ T!Bits = 0 .. (2 * H - 1)
  BY Widths
<1>2. Compare(value, x) = CASE T!Lt(w, v) -> -1 [] w = v -> 0 [] T!Lt(v, w) -> 1
  BY CompareIsWhole
<1>3. IsZero(value) <=> w = {}
  BY WholeTells
<1>4. IsMax(value) <=> w = Abstract!Bits
  <2>1. /\ value.hi \subseteq 0 .. (H - 1) /\ value.lo \subseteq 0 .. (H - 1)
        /\ H \in Nat \ {0}
        /\ U!Bits = 0 .. (H - 1)
    BY HalfFields, Widths
  <2>2. ASSUME w = 0 .. (2 * H - 1), NEW i \in 0 .. (H - 1)
        PROVE i \in value.lo /\ i \in value.hi
    <3>1. i \in 0 .. (2 * H - 1) /\ i + H \in 0 .. (2 * H - 1)
      BY <2>1
    <3> QED
      BY <2>2, <3>1, WholeBits
  <2>3. ASSUME value.hi = 0 .. (H - 1), value.lo = 0 .. (H - 1) PROVE w = 0 .. (2 * H - 1)
    <3>1. \A i \in 0 .. (2 * H - 1) : IF i < H THEN i \in 0 .. (H - 1) ELSE i - H \in 0 .. (H - 1)
      BY <2>1
    <3>2. \A i : i \in w <=> i \in 0 .. (2 * H - 1)
      BY <2>3, <3>1, WholeIs
    <3> QED
      BY <3>2
  <2> HIDE DEF w
  <2>4. IsMax(value) <=> value.hi = 0 .. (H - 1) /\ value.lo = 0 .. (H - 1)
    BY <2>1 DEF IsMax
  <2>5. w = 0 .. (2 * H - 1) => value.hi = 0 .. (H - 1) /\ value.lo = 0 .. (H - 1)
    BY <2>1, <2>2
  <2> QED
    BY <1>1, <2>3, <2>4, <2>5
<1>5. IsPowerOfTwo(value) <=> Cardinality(w) = 1
  BY PowerIsWhole
<1>6. IsContiguousMask(value) <=> \E p \in 0 .. (2 * H) : w = T!MaskFromPrefix(p)
  BY ContiguousIsWhole
<1>7. LeadingZeros(value) = Cardinality({i \in Abstract!Bits : \A j \in w : j < i})
  BY <1>1, LeadingZerosIsWhole, Zenon
<1>8. TrailingZeros(value) = Cardinality({i \in Abstract!Bits : \A j \in w : i < j})
  BY <1>1, TrailingZerosIsWhole, Zenon
<1>9. LeadingOnes(value) = T!LeadingOnes(w) /\ OnesCount(value) = Cardinality(w)
  BY LeadingOnesIsWhole, CountOfWhole DEF OnesCount
<1> HIDE DEF w, v
<1>10. (CASE Abstract!Lt(w, v) -> -1 [] w = v -> 0 [] Abstract!Lt(v, w) -> 1) = Compare(value, x)
  BY <1>2, SameWord
<1>11. (w = {}) = IsZero(value) /\ (w = Abstract!Bits) = IsMax(value)
  BY <1>3, <1>4 DEF IsZero, IsMax
<1>12. (Abstract!Cardinality(w) = 1) = IsPowerOfTwo(value)
  <2>1. Abstract!Cardinality(w) = Cardinality(w)
    BY SameWord
  <2> QED
    BY <1>5, <2>1 DEF IsPowerOfTwo
<1>13. (\E p \in 0 .. (2 * H) : w = Abstract!MaskFromPrefix(p)) = IsContiguousMask(value)
  <2>1. (\E p \in 0 .. (2 * H) : w = Abstract!MaskFromPrefix(p)) <=> IsContiguousMask(value)
    BY <1>6, SameWord, Zenon
  <2> QED
    BY <2>1 DEF IsContiguousMask, IsMax
<1>14. /\ Abstract!Cardinality({i \in Abstract!Bits : \A j \in w : j < i}) = LeadingZeros(value)
       /\ Abstract!Cardinality({i \in Abstract!Bits : \A j \in w : i < j}) = TrailingZeros(value)
       /\ Abstract!LeadingOnes(w) = LeadingOnes(value)
       /\ Abstract!Cardinality(w) = OnesCount(value)
  BY <1>7, <1>8, <1>9, SameWord, Zenon
<1>15. Abstract!Answers(v) = Answers(x)
  BY <1>10, <1>11, <1>12, <1>13, <1>14, Zenon DEF Abstract!Answers, Answers, w
<1> QED
  BY <1>15 DEF v

-----------------------------------------------------------------------------
(* The program over words                                                  *)

Held == value \in Uint128 /\ operand \in Uint128

(* The effect of an operation of which halves and words have the same      *)
(* result.                                                                 *)
LEMMA Mirrors ==
  ASSUME Held, NEW x \in Uint128, NEW n, NEW r \in Uint128, Do(x, n, r)
  PROVE  /\ Held' /\ Whole(x) \in Abstract!Word
         /\ Abstract!Do(Whole(x), n, Whole(r))
BY WholeBits DEF Held, Do, Abstract!Do

LEMMA NoOperand ==
  Zero \in Uint128 /\ Whole(Zero) = {}
BY FromHalvesIs DEF Zero, FromHalves, Whole

LEMMA CombineMirrors ==
  ASSUME Held, Combine
  PROVE  Held' /\ Abstract!Combine
<1>1. CASE Operand("And", LAMBDA x : And(value, x))
  <2>1. PICK x \in Uint128 : Do(x, 0, And(value, x)) /\ operation = "none" /\ operation' = "And"
    BY <1>1 DEF Operand
  <2>2. And(value, x) \in Uint128 /\ Whole(And(value, x)) = Whole(value) \cap Whole(x)
    BY BitwiseIs DEF Held
  <2>3. /\ Held' /\ Whole(x) \in Abstract!Word
        /\ Abstract!Do(Whole(x), 0, Whole(value) \cap Whole(x))
    BY <2>1, <2>2, Mirrors
  <2> QED
    BY <2>1, <2>3 DEF Abstract!Combine, Abstract!Operand
<1>2. CASE Operand("Or", LAMBDA x : Or(value, x))
  <2>1. PICK x \in Uint128 : Do(x, 0, Or(value, x)) /\ operation = "none" /\ operation' = "Or"
    BY <1>2 DEF Operand
  <2>2. Or(value, x) \in Uint128 /\ Whole(Or(value, x)) = Whole(value) \cup Whole(x)
    BY BitwiseIs DEF Held
  <2>3. /\ Held' /\ Whole(x) \in Abstract!Word
        /\ Abstract!Do(Whole(x), 0, Whole(value) \cup Whole(x))
    BY <2>1, <2>2, Mirrors
  <2> QED
    BY <2>1, <2>3 DEF Abstract!Combine, Abstract!Operand
<1>3. CASE Operand("Xor", LAMBDA x : Xor(value, x))
  <2>1. PICK x \in Uint128 : Do(x, 0, Xor(value, x)) /\ operation = "none" /\ operation' = "Xor"
    BY <1>3 DEF Operand
  <2>2. /\ Xor(value, x) \in Uint128
        /\ Whole(Xor(value, x)) = Abstract!Xor(Whole(value), Whole(x))
    BY BitwiseIs, SameWord DEF Held
  <2>3. /\ Held' /\ Whole(x) \in Abstract!Word
        /\ Abstract!Do(Whole(x), 0, Abstract!Xor(Whole(value), Whole(x)))
    BY <2>1, <2>2, Mirrors
  <2> QED
    BY <2>1, <2>3 DEF Abstract!Combine, Abstract!Operand
<1>4. CASE Operand("AndNot", LAMBDA x : AndNot(value, x))
  <2>1. PICK x \in Uint128 :
               /\ Do(x, 0, AndNot(value, x))
               /\ operation = "none" /\ operation' = "AndNot"
    BY <1>4 DEF Operand
  <2>2. AndNot(value, x) \in Uint128 /\ Whole(AndNot(value, x)) = Whole(value) \ Whole(x)
    BY BitwiseIs DEF Held
  <2>3. /\ Held' /\ Whole(x) \in Abstract!Word
        /\ Abstract!Do(Whole(x), 0, Whole(value) \ Whole(x))
    BY <2>1, <2>2, Mirrors
  <2> QED
    BY <2>1, <2>3 DEF Abstract!Combine, Abstract!Operand
<1>5. CASE Operand("Add", LAMBDA x : Add(value, x))
  <2>1. PICK x \in Uint128 : Do(x, 0, Add(value, x)) /\ operation = "none" /\ operation' = "Add"
    BY <1>5 DEF Operand
  <2>2. /\ Add(value, x) \in Uint128
        /\ Whole(Add(value, x)) = Abstract!Add(Whole(value), Whole(x))
    BY AddIsWhole, SameWord DEF Held
  <2>3. /\ Held' /\ Whole(x) \in Abstract!Word
        /\ Abstract!Do(Whole(x), 0, Abstract!Add(Whole(value), Whole(x)))
    BY <2>1, <2>2, Mirrors
  <2> QED
    BY <2>1, <2>3 DEF Abstract!Combine, Abstract!Operand
<1>6. CASE Operand("Sub", LAMBDA x : Sub(value, x))
  <2>1. PICK x \in Uint128 : Do(x, 0, Sub(value, x)) /\ operation = "none" /\ operation' = "Sub"
    BY <1>6 DEF Operand
  <2>2. /\ Sub(value, x) \in Uint128
        /\ Whole(Sub(value, x)) = Abstract!Sub(Whole(value), Whole(x))
    BY SubIsWhole, SameWord DEF Held
  <2>3. /\ Held' /\ Whole(x) \in Abstract!Word
        /\ Abstract!Do(Whole(x), 0, Abstract!Sub(Whole(value), Whole(x)))
    BY <2>1, <2>2, Mirrors
  <2> QED
    BY <2>1, <2>3 DEF Abstract!Combine, Abstract!Operand
<1> QED
  BY <1>1, <1>2, <1>3, <1>4, <1>5, <1>6 DEF Combine

LEMMA ShiftMirrors ==
  ASSUME Held, Shift
  PROVE  Held' /\ Abstract!Shift
<1>1. CASE Count("Shl", 0 .. 2 * H, LAMBDA n : Shl(value, n))
  <2>1. PICK n \in 0 .. 2 * H :
               /\ Do(Zero, n, Shl(value, n))
               /\ operation = "none" /\ operation' = "Shl"
    BY <1>1 DEF Count
  <2>2. /\ Shl(value, n) \in Uint128
        /\ Whole(Shl(value, n)) = {i \in Abstract!Bits : i - n \in Whole(value)}
    BY ShlIsWhole, Widths DEF Held
  <2>3. Held' /\ Abstract!Do({}, n, {i \in Abstract!Bits : i - n \in Whole(value)})
    BY <2>1, <2>2, NoOperand, Mirrors
  <2> QED
    BY <2>1, <2>3 DEF Abstract!Shift, Abstract!Count
<1>2. CASE Count("Shr", 0 .. 2 * H, LAMBDA n : Shr(value, n))
  <2>1. PICK n \in 0 .. 2 * H :
               /\ Do(Zero, n, Shr(value, n))
               /\ operation = "none" /\ operation' = "Shr"
    BY <1>2 DEF Count
  <2>2. /\ Shr(value, n) \in Uint128
        /\ Whole(Shr(value, n)) = {i \in Abstract!Bits : i + n \in Whole(value)}
    BY ShrIsWhole, Widths DEF Held
  <2>3. Held' /\ Abstract!Do({}, n, {i \in Abstract!Bits : i + n \in Whole(value)})
    BY <2>1, <2>2, NoOperand, Mirrors
  <2> QED
    BY <2>1, <2>3 DEF Abstract!Shift, Abstract!Count
<1> QED
  BY <1>1, <1>2 DEF Shift

LEMMA MakeMirrors ==
  ASSUME Held, Make
  PROVE  Held' /\ Abstract!Make
<1>1. CASE Count("Bit", 0 .. 2 * H - 1, LAMBDA n : Bit(n))
  <2>1. PICK n \in 0 .. 2 * H - 1 :
               /\ Do(Zero, n, Bit(n))
               /\ operation = "none" /\ operation' = "Bit"
    BY <1>1 DEF Count
  <2>2. Bit(n) \in Uint128 /\ Whole(Bit(n)) = {n}
    BY BitIsWhole DEF Held
  <2>3. Held' /\ Abstract!Do({}, n, {n}) /\ n \in Abstract!Bits
    BY <2>1, <2>2, NoOperand, Mirrors, Widths
  <2> QED
    BY <2>1, <2>3 DEF Abstract!Make, Abstract!Count
<1>2. CASE Count("MaskFromPrefix", 0 .. 2 * H, LAMBDA n : MaskFromPrefix(n))
  <2>1. PICK n \in 0 .. 2 * H :
               /\ Do(Zero, n, MaskFromPrefix(n))
               /\ operation = "none" /\ operation' = "MaskFromPrefix"
    BY <1>2 DEF Count
  <2>2. /\ MaskFromPrefix(n) \in Uint128
        /\ Whole(MaskFromPrefix(n)) = Abstract!MaskFromPrefix(n)
    BY MaskIsWhole, SameWord DEF Held
  <2>3. Held' /\ Abstract!Do({}, n, Abstract!MaskFromPrefix(n))
    BY <2>1, <2>2, NoOperand, Mirrors
  <2> QED
    BY <2>1, <2>3 DEF Abstract!Make, Abstract!Count
<1> QED
  BY <1>1, <1>2 DEF Make

LEMMA ChangeMirrors ==
  ASSUME Held, Change
  PROVE  Held' /\ Abstract!Change
<1>1. CASE Alone("Not", Not(value))
  <2>1. Do(Zero, 0, Not(value)) /\ operation = "none" /\ operation' = "Not"
    BY <1>1 DEF Alone
  <2>2. Not(value) \in Uint128 /\ Whole(Not(value)) = Abstract!Not(Whole(value))
    BY BitwiseIs, SameWord DEF Held
  <2>3. Held' /\ Abstract!Do({}, 0, Abstract!Not(Whole(value)))
    BY <2>1, <2>2, NoOperand, Mirrors
  <2> QED
    BY <2>1, <2>3 DEF Abstract!Change, Abstract!Alone
<1>2. CASE Alone("AddOne", AddOne(value))
  <2>1. Do(Zero, 0, AddOne(value)) /\ operation = "none" /\ operation' = "AddOne"
    BY <1>2 DEF Alone
  <2>2. AddOne(value) \in Uint128 /\ Whole(AddOne(value)) = Abstract!AddOne(Whole(value))
    BY AddOneIsWhole, SameWord DEF Held
  <2>3. Held' /\ Abstract!Do({}, 0, Abstract!AddOne(Whole(value)))
    BY <2>1, <2>2, NoOperand, Mirrors
  <2> QED
    BY <2>1, <2>3 DEF Abstract!Change, Abstract!Alone
<1>3. CASE Alone("SubOne", SubOne(value))
  <2>1. Do(Zero, 0, SubOne(value)) /\ operation = "none" /\ operation' = "SubOne"
    BY <1>3 DEF Alone
  <2>2. SubOne(value) \in Uint128 /\ Whole(SubOne(value)) = Abstract!SubOne(Whole(value))
    BY SubOneIsWhole, SameWord DEF Held
  <2>3. Held' /\ Abstract!Do({}, 0, Abstract!SubOne(Whole(value)))
    BY <2>1, <2>2, NoOperand, Mirrors
  <2> QED
    BY <2>1, <2>3 DEF Abstract!Change, Abstract!Alone
<1>4. CASE Alone("Neg", Neg(value))
  <2>1. Do(Zero, 0, Neg(value)) /\ operation = "none" /\ operation' = "Neg"
    BY <1>4 DEF Alone
  <2>2. Neg(value) \in Uint128 /\ Whole(Neg(value)) = Abstract!Neg(Whole(value))
    BY NegIsWhole, SameWord DEF Held
  <2>3. Held' /\ Abstract!Do({}, 0, Abstract!Neg(Whole(value)))
    BY <2>1, <2>2, NoOperand, Mirrors
  <2> QED
    BY <2>1, <2>3 DEF Abstract!Change, Abstract!Alone
<1>5. CASE Alone("LowestSetBit", LowestSetBit(value))
  <2>1. /\ Do(Zero, 0, LowestSetBit(value)) /\ operation = "none"
        /\ operation' = "LowestSetBit"
    BY <1>5 DEF Alone
  <2>2. /\ LowestSetBit(value) \in Uint128
        /\ Whole(LowestSetBit(value)) = Abstract!LowestSetBit(Whole(value))
    BY LowestIsWhole, SameWord DEF Held
  <2>3. Held' /\ Abstract!Do({}, 0, Abstract!LowestSetBit(Whole(value)))
    BY <2>1, <2>2, NoOperand, Mirrors
  <2> QED
    BY <2>1, <2>3 DEF Abstract!Change, Abstract!Alone
<1>6. CASE Alone("ClearLowestSetBit", ClearLowestSetBit(value))
  <2>1. /\ Do(Zero, 0, ClearLowestSetBit(value)) /\ operation = "none"
        /\ operation' = "ClearLowestSetBit"
    BY <1>6 DEF Alone
  <2>2. /\ ClearLowestSetBit(value) \in Uint128
        /\ Whole(ClearLowestSetBit(value)) = Abstract!ClearLowestSetBit(Whole(value))
    BY ClearLowestIsWhole, SameWord DEF Held
  <2>3. Held' /\ Abstract!Do({}, 0, Abstract!ClearLowestSetBit(Whole(value)))
    BY <2>1, <2>2, NoOperand, Mirrors
  <2> QED
    BY <2>1, <2>3 DEF Abstract!Change, Abstract!Alone
<1> QED
  BY <1>1, <1>2, <1>3, <1>4, <1>5, <1>6 DEF Change

LEMMA ConvertMirrors ==
  ASSUME Held, ConvertWord
  PROVE  Held' /\ Abstract!Convert
<1>1. /\ operation = "none" /\ operation' = "As16" /\ operand' = Zero /\ count' = 0
      /\ answer' = As16(value) /\ value' = From16(As16(value))
  BY DEF ConvertWord
<1>2. value \in Uint128 /\ value' = value /\ answer' = Abstract!BigEndian(Whole(value))
  BY <1>1, BytesAreTheWord DEF Held
<1>3. Whole(operand') = {} /\ operand' \in Uint128
  BY <1>1, NoOperand
<1> QED
  BY <1>1, <1>2, <1>3 DEF Held, Abstract!Convert

LEMMA AskMirrors ==
  ASSUME Held, Ask
  PROVE  Held' /\ Abstract!Ask
<1>1. PICK x \in Uint128 : operand' = x /\ answer' = Answers(x)
  BY DEF Ask
<1>2. Answers(x) = Abstract!Answers(Whole(x)) /\ Whole(x) \in Abstract!Word
  BY AnswersAreTheWords, WholeBits DEF Held
<1>3. Held' /\ Whole(operand)' = Whole(x) /\ Whole(value)' = Whole(value)
  BY <1>1 DEF Ask, Held
<1>4. operation = "none" /\ operation' = "Ask" /\ count' = 0
  BY DEF Ask
<1> QED
  BY <1>1, <1>2, <1>3, <1>4 DEF Abstract!Ask

LEMMA ContinueMirrors ==
  ASSUME Held, ContinueWord
  PROVE  Held' /\ Abstract!Continue
<1>1. Held' /\ Abstract!Do({}, 0, Whole(value))
  BY NoOperand, Mirrors DEF ContinueWord, Held
<1> QED
  BY <1>1 DEF ContinueWord, Abstract!Continue

(* Two halves with carries between them are one word of twice the width    *)
(* (uint128.go:90, 131): for halves of every width, every behaviour of the *)
(* program over uint128 is one of the program over whole words, in which   *)
(* each operation, count and answer is that of the word.                   *)
THEOREM HalvesAreWords == WordSpec => Implements
<1>1. WordInit => Held /\ Abstract!Init
  <2> SUFFICES ASSUME WordInit PROVE Held /\ Abstract!Init
    OBVIOUS
  <2>1. Held /\ Whole(operand) = {} /\ Whole(value) \in Abstract!Word
    BY NoOperand, WholeBits DEF WordInit, Held
  <2> QED
    BY <2>1 DEF WordInit, Abstract!Init
<1>2. Held /\ [WordNext]_wordVars => Held' /\ [Abstract!Next]_(Abstract!vars)
  <2> SUFFICES ASSUME Held, [WordNext]_wordVars
               PROVE  Held' /\ [Abstract!Next]_(Abstract!vars)
    OBVIOUS
  <2>1. CASE Combine
    BY <2>1, CombineMirrors DEF Abstract!Next
  <2>2. CASE Shift
    BY <2>2, ShiftMirrors DEF Abstract!Next
  <2>3. CASE Make
    BY <2>3, MakeMirrors DEF Abstract!Next
  <2>4. CASE Change
    BY <2>4, ChangeMirrors DEF Abstract!Next
  <2>5. CASE Ask
    BY <2>5, AskMirrors DEF Abstract!Next
  <2>6. CASE ContinueWord
    BY <2>6, ContinueMirrors DEF Abstract!Next
  <2>7. CASE ConvertWord
    BY <2>7, ConvertMirrors DEF Abstract!Next
  <2>8. CASE UNCHANGED wordVars
    BY <2>8 DEF wordVars, Held, Abstract!vars
  <2> QED
    BY <2>1, <2>2, <2>3, <2>4, <2>5, <2>6, <2>7, <2>8 DEF WordNext
<1> QED
  BY <1>1, <1>2, PTL DEF WordSpec, Implements, Abstract!Spec

-----------------------------------------------------------------------------
(* Networks of halves and networks of words                                *)

(* The algebra the networks are compared with is that of the theorems on   *)
(* networks.                                                               *)
LEMMA SameAlgebra ==
  /\ \A a, b : N!Xor(a, b) = T!Xor(a, b)
  /\ \A a : N!LowestSetBit(a) = T!LowestSetBit(a)
  /\ \A a : N!ClearLowestSetBit(a) = T!ClearLowestSetBit(a)
  /\ \A m : N!Addrs(m) = T!Addrs(m)
  /\ \A m, o : N!Contains(m, o) <=> T!Contains(m, o)
  /\ \A m, o : N!DifferenceParts(m, o) = T!DifferenceParts(m, o)
<1>1. /\ \A a, b : N!Xor(a, b) = T!Xor(a, b)
      /\ \A a : N!LowestSetBit(a) = T!LowestSetBit(a)
  BY DEF N!Xor, T!Xor, N!LowestSetBit, T!LowestSetBit
<1>2. \A a : N!ClearLowestSetBit(a) = T!ClearLowestSetBit(a)
  BY DEF N!ClearLowestSetBit, T!ClearLowestSetBit, N!SubOne, T!SubOne, N!Bits, T!Bits
<1>3. \A m : N!Addrs(m) = T!Addrs(m)
  BY DEF N!Addrs, T!Addrs, N!Word, T!Word, N!Bits, T!Bits
<1>4. \A m, o : N!Contains(m, o) <=> T!Contains(m, o)
  BY DEF N!Contains, T!Contains
<1>5. \A m, o : N!DifferenceParts(m, o) = T!DifferenceParts(m, o)
  <2>1. \A addr, bit, mask : N!Part(addr, bit, mask) = T!Part(addr, bit, mask)
    BY <1>1 DEF N!Part, T!Part
  <2>2. \A m, o : /\ N!IsDisjoint(m, o) <=> T!IsDisjoint(m, o)
                  /\ N!Pending(m, o) = T!Pending(m, o)
    BY <1>1 DEF N!IsDisjoint, T!IsDisjoint, N!Intersects, T!Intersects, N!Intersection, T!Intersection,
                 N!Only, T!Only, N!Pending, T!Pending
  <2> QED
    BY <2>1, <2>2 DEF N!DifferenceParts, T!DifferenceParts
<1> QED
  BY <1>1, <1>2, <1>3, <1>4, <1>5

(* A network of halves is a network of whole words, and no other one is.   *)
LEMMA WholeNetIs ==
  ASSUME NEW n \in Pair
  PROVE  /\ n.addr \in Uint128 /\ n.mask \in Uint128
         /\ n = [addr |-> n.addr, mask |-> n.mask]
         /\ WholeNet(n).addr = Whole(n.addr) /\ WholeNet(n).mask = Whole(n.mask)
         /\ n \in Network6 <=> Whole(n.addr) \subseteq Whole(n.mask)
         /\ n \in Network6 => WholeNet(n) \in T!Network
<1>1. n.addr \in Uint128 /\ n.mask \in Uint128 /\ n = [addr |-> n.addr, mask |-> n.mask]
  BY DEF Pair
<1>2. WholeNet(n).addr = Whole(n.addr) /\ WholeNet(n).mask = Whole(n.mask)
  BY DEF WholeNet
<1>3. AndNot(n.addr, n.mask) = Zero <=> Whole(n.addr) \ Whole(n.mask) = {}
  <2>1. /\ AndNot(n.addr, n.mask) \in Uint128 /\ Zero \in Uint128
        /\ Whole(AndNot(n.addr, n.mask)) = Whole(n.addr) \ Whole(n.mask) /\ Whole(Zero) = {}
    BY <1>1, BitwiseIs
  <2>2. Whole(AndNot(n.addr, n.mask)) = Whole(Zero) <=> AndNot(n.addr, n.mask) = Zero
    BY <2>1, WholeTells
  <2> QED
    BY <2>1, <2>2, Zenon
<1>4. n \in Network6 <=> Whole(n.addr) \subseteq Whole(n.mask)
  BY <1>3 DEF Network6
<1>5. ASSUME n \in Network6 PROVE WholeNet(n) \in T!Network
  <2>1. Whole(n.addr) \in T!Word /\ Whole(n.mask) \in T!Word
    BY <1>1, WholeBits
  <2>2. WholeNet(n) \in T!Pair
    BY <2>1 DEF WholeNet, T!Pair
  <2> QED
    BY <1>2, <1>4, <1>5, <2>2 DEF T!Network
<1> QED
  BY <1>1, <1>2, <1>4, <1>5

LEMMA WholeNetTells ==
  ASSUME NEW n \in Pair, NEW o \in Pair
  PROVE  /\ WholeNet(n) = WholeNet(o) <=> n = o
         /\ n = o <=> n.addr = o.addr /\ n.mask = o.mask
         /\ n.mask = o.mask <=> Whole(n.mask) = Whole(o.mask)
<1>1. n = o <=> n.addr = o.addr /\ n.mask = o.mask
  BY DEF Pair
<1>2. /\ n.mask = o.mask <=> Whole(n.mask) = Whole(o.mask)
      /\ n.addr = o.addr <=> Whole(n.addr) = Whole(o.addr)
  BY WholeNetIs, WholeTells
<1>3. WholeNet(n) = WholeNet(o) <=> Whole(n.addr) = Whole(o.addr) /\ Whole(n.mask) = Whole(o.mask)
  BY DEF WholeNet
<1> QED
  BY <1>1, <1>2, <1>3

LEMMA PairMake ==
  ASSUME NEW a \in Uint128, NEW m \in Uint128
  PROVE  /\ [addr |-> a, mask |-> m] \in Pair
         /\ [addr |-> a, mask |-> m].addr = a /\ [addr |-> a, mask |-> m].mask = m
         /\ WholeNet([addr |-> a, mask |-> m]) = [addr |-> Whole(a), mask |-> Whole(m)]
         /\ Whole(a) \subseteq Whole(m) => [addr |-> a, mask |-> m] \in Network6
<1>1. [addr |-> a, mask |-> m] \in Pair
  BY DEF Pair
<1>2. [addr |-> a, mask |-> m].addr = a /\ [addr |-> a, mask |-> m].mask = m
  OBVIOUS
<1>3. WholeNet([addr |-> a, mask |-> m]) = [addr |-> Whole(a), mask |-> Whole(m)]
  BY DEF WholeNet
<1> QED
  BY <1>1, <1>2, <1>3, WholeNetIs

LEMMA SameBits ==
  ASSUME NEW m \in Uint128, NEW o \in Uint128
  PROVE  /\ m = o <=> Whole(m) = Whole(o)
         /\ IsZero(m) <=> Whole(m) = {}
BY WholeTells

LEMMA OnlyOf ==
  ASSUME NEW found, NEW n
  PROVE  /\ found => Only(found, n) = {n} /\ Wholes(Only(found, n)) = {WholeNet(n)}
         /\ ~found => Only(found, n) = {} /\ Wholes(Only(found, n)) = {}
         /\ Wholes({n}) = {WholeNet(n)}
         /\ \A x : /\ found => N!Only(found, x) = {x}
                   /\ ~found => N!Only(found, x) = {}
<1>1. Wholes({n}) = {WholeNet(n)} /\ Wholes({}) = {}
  BY DEF Wholes
<1>2. /\ found => Only(found, n) = {n}
      /\ ~found => Only(found, n) = {}
  BY DEF Only
<1>3. \A x : /\ found => N!Only(found, x) = {x}
             /\ ~found => N!Only(found, x) = {}
  BY DEF N!Only
<1> QED
  BY <1>1, <1>2, <1>3, Zenon

LEMMA ContainsOnWhole ==
  ASSUME NEW m \in Pair, NEW o \in Pair
  PROVE  /\ Contains6(m, o) <=> N!Contains(WholeNet(m), WholeNet(o))
         /\ And(o.addr, m.mask) = m.addr <=> Whole(o.addr) \cap Whole(m.mask) = Whole(m.addr)
         /\ And(o.mask, m.mask) = m.mask <=> Whole(m.mask) \subseteq Whole(o.mask)
<1>1. m.addr \in Uint128 /\ m.mask \in Uint128 /\ o.addr \in Uint128 /\ o.mask \in Uint128
  BY WholeNetIs
<1>2. And(o.addr, m.mask) = m.addr <=> Whole(o.addr) \cap Whole(m.mask) = Whole(m.addr)
  <2>1. And(o.addr, m.mask) \in Uint128
        /\ Whole(And(o.addr, m.mask)) = Whole(o.addr) \cap Whole(m.mask)
    BY <1>1, BitwiseIs
  <2>2. And(o.addr, m.mask) = m.addr <=> Whole(And(o.addr, m.mask)) = Whole(m.addr)
    BY <1>1, <2>1, SameBits
  <2> QED
    BY <2>1, <2>2, Zenon
<1>3. And(o.mask, m.mask) = m.mask <=> Whole(o.mask) \cap Whole(m.mask) = Whole(m.mask)
  <2>1. And(o.mask, m.mask) \in Uint128
        /\ Whole(And(o.mask, m.mask)) = Whole(o.mask) \cap Whole(m.mask)
    BY <1>1, BitwiseIs
  <2>2. And(o.mask, m.mask) = m.mask <=> Whole(And(o.mask, m.mask)) = Whole(m.mask)
    BY <1>1, <2>1, SameBits
  <2> QED
    BY <2>1, <2>2, Zenon
<1>4. Contains6(m, o) <=> N!Contains(WholeNet(m), WholeNet(o))
  BY <1>2, <1>3 DEF Contains6, N!Contains, WholeNet
<1> QED
  BY <1>2, <1>3, <1>4

LEMMA IntersectionOnWhole ==
  ASSUME NEW m \in Network6, NEW o \in Network6
  PROVE  /\ Intersection6(m, o) \subseteq Network6
         /\ Wholes(Intersection6(m, o)) = N!Intersection(WholeNet(m), WholeNet(o))
         /\ \A u \in Intersection6(m, o) : /\ u.addr = Or(m.addr, o.addr)
                                           /\ u.mask = Or(m.mask, o.mask)
         /\ Intersection6(m, o) = {} <=>
              Whole(m.addr) \cap Whole(o.mask) # Whole(o.addr) \cap Whole(m.mask)
<1> DEFINE both == [addr |-> Or(m.addr, o.addr), mask |-> Or(m.mask, o.mask)]
           meet == And(m.addr, o.mask) = And(o.addr, m.mask)
<1>1. /\ m \in Pair /\ o \in Pair
      /\ m.addr \in Uint128 /\ m.mask \in Uint128 /\ o.addr \in Uint128
      /\ o.mask \in Uint128
      /\ Whole(m.addr) \subseteq Whole(m.mask) /\ Whole(o.addr) \subseteq Whole(o.mask)
  <2>1. m \in Pair /\ o \in Pair
    BY DEF Network6
  <2> QED
    BY <2>1, WholeNetIs
<1>2. /\ Or(m.addr, o.addr) \in Uint128 /\ Or(m.mask, o.mask) \in Uint128
      /\ Whole(Or(m.addr, o.addr)) = Whole(m.addr) \cup Whole(o.addr)
      /\ Whole(Or(m.mask, o.mask)) = Whole(m.mask) \cup Whole(o.mask)
  BY <1>1, BitwiseIs
<1>3. meet <=> Whole(m.addr) \cap Whole(o.mask) = Whole(o.addr) \cap Whole(m.mask)
  <2>1. /\ And(m.addr, o.mask) \in Uint128 /\ And(o.addr, m.mask) \in Uint128
        /\ Whole(And(m.addr, o.mask)) = Whole(m.addr) \cap Whole(o.mask)
        /\ Whole(And(o.addr, m.mask)) = Whole(o.addr) \cap Whole(m.mask)
    BY <1>1, BitwiseIs
  <2>2. meet <=> Whole(And(m.addr, o.mask)) = Whole(And(o.addr, m.mask))
    BY <2>1, SameBits
  <2> QED
    BY <2>1, <2>2, Zenon
<1>4. both \in Network6 /\ both.addr = Or(m.addr, o.addr) /\ both.mask = Or(m.mask, o.mask)
      /\ WholeNet(both) = [addr |-> Whole(m.addr) \cup Whole(o.addr),
                           mask |-> Whole(m.mask) \cup Whole(o.mask)]
  <2>1. Whole(m.addr) \cup Whole(o.addr) \subseteq Whole(m.mask) \cup Whole(o.mask)
    BY <1>1
  <2>2. Whole(Or(m.addr, o.addr)) \subseteq Whole(Or(m.mask, o.mask))
    BY <1>2, <2>1
  <2>3. /\ both \in Network6 /\ both.addr = Or(m.addr, o.addr)
        /\ both.mask = Or(m.mask, o.mask)
    BY <1>2, <2>2, PairMake
  <2>4. WholeNet(both) = [addr |-> Whole(Or(m.addr, o.addr)), mask |-> Whole(Or(m.mask, o.mask))]
    BY <1>2, PairMake
  <2> QED
    BY <1>2, <2>3, <2>4, Zenon
<1>5. Intersection6(m, o) = Only(meet, both)
  BY DEF Intersection6
<1>6. N!Intersection(WholeNet(m), WholeNet(o)) = N!Only(meet, WholeNet(both))
  <2>1. /\ WholeNet(m).addr = Whole(m.addr) /\ WholeNet(m).mask = Whole(m.mask)
        /\ WholeNet(o).addr = Whole(o.addr) /\ WholeNet(o).mask = Whole(o.mask)
    BY <1>1, WholeNetIs
  <2> HIDE DEF meet, both
  <2>2. (WholeNet(m).addr \cap WholeNet(o).mask = WholeNet(o).addr \cap WholeNet(m).mask) = meet
    BY <1>3, <2>1
  <2>3. WholeNet(both) = [addr |-> WholeNet(m).addr \cup WholeNet(o).addr,
                          mask |-> WholeNet(m).mask \cup WholeNet(o).mask]
    BY <1>4, <2>1, Zenon
  <2> QED
    BY <2>2, <2>3, Zenon DEF N!Intersection
<1> HIDE DEF meet, both
<1>7. CASE meet
  <2>1. Intersection6(m, o) = {both} /\ Wholes(Intersection6(m, o)) = {WholeNet(both)}
        /\ N!Intersection(WholeNet(m), WholeNet(o)) = {WholeNet(both)}
    BY <1>5, <1>6, <1>7, OnlyOf, Zenon
  <2> QED
    BY <1>3, <1>4, <1>7, <2>1
<1>8. CASE ~meet
  <2>1. Intersection6(m, o) = {} /\ Wholes(Intersection6(m, o)) = {}
        /\ N!Intersection(WholeNet(m), WholeNet(o)) = {}
    BY <1>5, <1>6, <1>8, OnlyOf, Zenon
  <2> QED
    BY <1>3, <1>8, <2>1
<1> QED
  BY <1>7, <1>8

LEMMA FromBitsOnWhole ==
  ASSUME NEW a \in Uint128, NEW m \in Uint128
  PROVE  /\ FromBits6(a, m) \in Network6
         /\ FromBits6(a, m).mask = m /\ FromBits6(a, m).addr = And(a, m)
         /\ WholeNet(FromBits6(a, m)) = N!FromBits(Whole(a), Whole(m))
<1>1. And(a, m) \in Uint128 /\ Whole(And(a, m)) = Whole(a) \cap Whole(m)
  BY BitwiseIs
<1>2. Whole(And(a, m)) \subseteq Whole(m)
  BY <1>1
<1>3. /\ FromBits6(a, m) \in Network6
      /\ FromBits6(a, m).mask = m /\ FromBits6(a, m).addr = And(a, m)
  BY <1>1, <1>2, PairMake DEF FromBits6
<1>4. WholeNet(FromBits6(a, m)) = [addr |-> Whole(And(a, m)), mask |-> Whole(m)]
  BY <1>1, PairMake DEF FromBits6
<1>5. WholeNet(FromBits6(a, m)) = N!FromBits(Whole(a), Whole(m))
  BY <1>1, <1>4, Zenon DEF N!FromBits
<1> QED
  BY <1>3, <1>5

LEMMA SupernetOnWhole ==
  ASSUME NEW m \in Network6
  PROVE  /\ Supernet6(m) \subseteq Network6
         /\ Wholes(Supernet6(m)) = N!Supernet(WholeNet(m))
         /\ \A u \in Supernet6(m) : u.mask = ClearLowestSetBit(m.mask)
<1> DEFINE some == ~IsZero(m.mask)
           wider == FromBits6(m.addr, ClearLowestSetBit(m.mask))
<1>1. m \in Pair /\ m.addr \in Uint128 /\ m.mask \in Uint128
  <2>1. m \in Pair
    BY DEF Network6
  <2> QED
    BY <2>1, WholeNetIs
<1>2. /\ ClearLowestSetBit(m.mask) \in Uint128
      /\ Whole(ClearLowestSetBit(m.mask)) = N!ClearLowestSetBit(Whole(m.mask))
  BY <1>1, ClearLowestIsWhole, SameAlgebra
<1>3. /\ wider \in Network6 /\ wider.mask = ClearLowestSetBit(m.mask)
      /\ WholeNet(wider) = N!FromBits(Whole(m.addr), N!ClearLowestSetBit(Whole(m.mask)))
  BY <1>1, <1>2, FromBitsOnWhole
<1>4. Supernet6(m) = Only(some, wider)
  BY DEF Supernet6
<1>5. N!Supernet(WholeNet(m)) = N!Only(some, WholeNet(wider))
  <2>1. WholeNet(m).addr = Whole(m.addr) /\ WholeNet(m).mask = Whole(m.mask)
    BY <1>1, WholeNetIs
  <2>2. (WholeNet(m).mask # {}) = some
    BY <1>1, <2>1, SameBits
  <2> HIDE DEF some, wider
  <2> QED
    BY <1>3, <2>1, <2>2, Zenon DEF N!Supernet
<1> HIDE DEF some, wider
<1>6. CASE some
  <2>1. Supernet6(m) = {wider} /\ Wholes(Supernet6(m)) = {WholeNet(wider)}
        /\ N!Supernet(WholeNet(m)) = {WholeNet(wider)}
    BY <1>4, <1>5, <1>6, OnlyOf, Zenon
  <2> QED
    BY <1>3, <2>1
<1>7. CASE ~some
  <2>1. Supernet6(m) = {} /\ Wholes(Supernet6(m)) = {} /\ N!Supernet(WholeNet(m)) = {}
    BY <1>4, <1>5, <1>7, OnlyOf, Zenon
  <2> QED
    BY <2>1
<1> QED
  BY <1>6, <1>7

LEMMA MergeOnWhole ==
  ASSUME NEW m \in Network6, NEW o \in Network6
  PROVE  /\ MergeByLowestMaskBit6(m, o) \subseteq Network6
         /\ Wholes(MergeByLowestMaskBit6(m, o)) = N!MergeByLowestMaskBit(WholeNet(m), WholeNet(o))
         /\ \A u \in MergeByLowestMaskBit6(m, o) :
              u = m \/ u = o \/ u.mask = ClearLowestSetBit(m.mask)
<1> DEFINE near == IsAdjacentByLowestMaskBit6(m, o)
           wider == [addr |-> And(m.addr, o.addr), mask |-> ClearLowestSetBit(m.mask)]
<1>1. /\ m \in Pair /\ m.addr \in Uint128 /\ m.mask \in Uint128
      /\ o \in Pair /\ o.addr \in Uint128 /\ o.mask \in Uint128
      /\ Whole(m.addr) \subseteq Whole(m.mask) /\ Whole(o.addr) \subseteq Whole(o.mask)
  <2>1. m \in Pair /\ o \in Pair
    BY DEF Network6
  <2> QED
    BY <2>1, WholeNetIs
<1>2. /\ ClearLowestSetBit(m.mask) \in Uint128
      /\ Whole(ClearLowestSetBit(m.mask)) = N!ClearLowestSetBit(Whole(m.mask))
      /\ And(m.addr, o.addr) \in Uint128
      /\ Whole(And(m.addr, o.addr)) = Whole(m.addr) \cap Whole(o.addr)
  BY <1>1, ClearLowestIsWhole, SameAlgebra, BitwiseIs
<1>3. /\ WholeNet(m).addr = Whole(m.addr) /\ WholeNet(m).mask = Whole(m.mask)
      /\ WholeNet(o).addr = Whole(o.addr) /\ WholeNet(o).mask = Whole(o.mask)
  BY <1>1, WholeNetIs
<1>4. near <=> N!IsAdjacentByLowestMaskBit(WholeNet(m), WholeNet(o))
  <2>1. /\ Xor(m.addr, o.addr) \in Uint128 /\ LowestSetBit(m.mask) \in Uint128
        /\ Whole(Xor(m.addr, o.addr)) = N!Xor(Whole(m.addr), Whole(o.addr))
        /\ Whole(LowestSetBit(m.mask)) = N!LowestSetBit(Whole(m.mask))
    BY <1>1, BitwiseIs, LowestIsWhole, SameAlgebra
  <2>2. /\ m.mask = o.mask <=> Whole(m.mask) = Whole(o.mask)
        /\ IsZero(m.mask) <=> Whole(m.mask) = {}
    BY <1>1, SameBits
  <2>3. Xor(m.addr, o.addr) = LowestSetBit(m.mask)
          <=> N!Xor(Whole(m.addr), Whole(o.addr)) = N!LowestSetBit(Whole(m.mask))
    <3>1. Xor(m.addr, o.addr) = LowestSetBit(m.mask)
            <=> Whole(Xor(m.addr, o.addr)) = Whole(LowestSetBit(m.mask))
      BY <2>1, SameBits
    <3>2. Whole(Xor(m.addr, o.addr)) = Whole(LowestSetBit(m.mask))
            <=> N!Xor(Whole(m.addr), Whole(o.addr)) = N!LowestSetBit(Whole(m.mask))
      BY <2>1, Zenon
    <3> QED
      BY <3>1, <3>2
  <2>4. near <=> /\ m.mask = o.mask /\ ~IsZero(m.mask)
                 /\ Xor(m.addr, o.addr) = LowestSetBit(m.mask)
    BY DEF IsAdjacentByLowestMaskBit6
  <2>5. N!IsAdjacentByLowestMaskBit(WholeNet(m), WholeNet(o)) <=>
          /\ Whole(m.mask) = Whole(o.mask) /\ Whole(m.mask) # {}
          /\ N!Xor(Whole(m.addr), Whole(o.addr)) = N!LowestSetBit(Whole(m.mask))
    BY <1>3, Zenon DEF N!IsAdjacentByLowestMaskBit
  <2> HIDE DEF near
  <2> QED
    BY <2>2, <2>3, <2>4, <2>5, Zenon
<1>5. near => /\ wider \in Network6 /\ wider.mask = ClearLowestSetBit(m.mask)
              /\ WholeNet(wider) = [addr |-> Whole(m.addr) \cap Whole(o.addr),
                                    mask |-> N!ClearLowestSetBit(Whole(m.mask))]
  <2> SUFFICES ASSUME near PROVE /\ wider \in Network6 /\ wider.mask = ClearLowestSetBit(m.mask)
              /\ WholeNet(wider) = [addr |-> Whole(m.addr) \cap Whole(o.addr),
                                    mask |-> N!ClearLowestSetBit(Whole(m.mask))]
    OBVIOUS
  <2>1. Whole(m.addr) \cap Whole(o.addr) \subseteq N!ClearLowestSetBit(Whole(m.mask))
    <3>1. Whole(m.mask) \in T!Word
      BY <1>1, WholeBits
    <3>2. N!ClearLowestSetBit(Whole(m.mask)) =
            {i \in Whole(m.mask) : \E j \in Whole(m.mask) : j < i}
      BY <3>1, Widths, SameAlgebra, T!ClearLowestIsNotLowest
    <3>3. N!Xor(Whole(m.addr), Whole(o.addr)) = N!LowestSetBit(Whole(m.mask))
      BY <1>3, <1>4 DEF N!IsAdjacentByLowestMaskBit
    <3>4. \A i \in Whole(m.mask) : i \in Int
      BY <1>1, WholeBits
    <3>5. ASSUME NEW i \in Whole(m.addr) \cap Whole(o.addr)
          PROVE \E j \in Whole(m.mask) : j < i
      <4>1. i \notin N!Xor(Whole(m.addr), Whole(o.addr))
        BY DEF N!Xor
      <4>2. i \notin N!LowestSetBit(Whole(m.mask))
        BY <3>3, <4>1
      <4> QED
        BY <1>1, <3>4, <4>2 DEF N!LowestSetBit
    <3> QED
      BY <1>1, <3>2, <3>5
  <2>2. Whole(And(m.addr, o.addr)) \subseteq Whole(ClearLowestSetBit(m.mask))
    BY <1>2, <2>1
  <2>3. wider \in Network6 /\ wider.mask = ClearLowestSetBit(m.mask)
    BY <1>2, <2>2, PairMake
  <2>4. WholeNet(wider) = [addr |-> Whole(And(m.addr, o.addr)),
                           mask |-> Whole(ClearLowestSetBit(m.mask))]
    BY <1>2, PairMake
  <2> QED
    BY <1>2, <2>3, <2>4, Zenon
<1>6. /\ m = o <=> WholeNet(m) = WholeNet(o)
      /\ m.mask = o.mask <=> WholeNet(m).mask = WholeNet(o).mask
      /\ Contains6(m, o) <=> N!Contains(WholeNet(m), WholeNet(o))
      /\ Contains6(o, m) <=> N!Contains(WholeNet(o), WholeNet(m))
  BY <1>1, <1>3, WholeNetTells, ContainsOnWhole
<1> DEFINE bigger == [addr |-> WholeNet(m).addr \cap WholeNet(o).addr,
                      mask |-> N!ClearLowestSetBit(WholeNet(m).mask)]
<1>8. near => bigger = WholeNet(wider)
  BY <1>3, <1>5, Zenon
<1> HIDE DEF near, wider, bigger
<1>9. MergeByLowestMaskBit6(m, o) =
        CASE m = o -> {m}
          [] m.mask = o.mask /\ m # o -> Only(near, wider)
          [] m.mask # o.mask /\ Contains6(m, o) -> {m}
          [] m.mask # o.mask /\ ~Contains6(m, o) -> Only(Contains6(o, m), o)
  BY Zenon DEF MergeByLowestMaskBit6, near, wider
<1>10. N!MergeByLowestMaskBit(WholeNet(m), WholeNet(o)) =
        CASE WholeNet(m) = WholeNet(o) -> {WholeNet(m)}
          [] WholeNet(m).mask = WholeNet(o).mask /\ WholeNet(m) # WholeNet(o) ->
               N!Only(N!IsAdjacentByLowestMaskBit(WholeNet(m), WholeNet(o)), bigger)
          [] WholeNet(m).mask # WholeNet(o).mask /\ N!Contains(WholeNet(m), WholeNet(o)) ->
               {WholeNet(m)}
          [] WholeNet(m).mask # WholeNet(o).mask /\ ~N!Contains(WholeNet(m), WholeNet(o)) ->
               N!Only(N!Contains(WholeNet(o), WholeNet(m)), WholeNet(o))
  BY Zenon DEF N!MergeByLowestMaskBit, bigger
<1>11. m = o => m.mask = o.mask
  OBVIOUS
<1>12. CASE m = o
  <2>1. MergeByLowestMaskBit6(m, o) = {m}
    BY <1>9, <1>12, Zenon
  <2>2. N!MergeByLowestMaskBit(WholeNet(m), WholeNet(o)) = {WholeNet(m)}
    BY <1>6, <1>10, <1>12, Zenon
  <2>3. Wholes({m}) = {WholeNet(m)}
    BY OnlyOf
  <2> QED
    BY <2>1, <2>2, <2>3
<1>13. CASE m # o /\ m.mask = o.mask
  <2>1. MergeByLowestMaskBit6(m, o) = Only(near, wider)
    BY <1>9, <1>13
  <2>2. N!MergeByLowestMaskBit(WholeNet(m), WholeNet(o))
          = N!Only(N!IsAdjacentByLowestMaskBit(WholeNet(m), WholeNet(o)), bigger)
    BY <1>6, <1>10, <1>13
  <2>3. CASE near
    <3>1. /\ Only(near, wider) = {wider} /\ Wholes(Only(near, wider)) = {WholeNet(wider)}
      BY <2>3, OnlyOf
    <3>2. N!Only(N!IsAdjacentByLowestMaskBit(WholeNet(m), WholeNet(o)), bigger) =
            {WholeNet(wider)}
      BY <1>4, <1>8, <2>3, OnlyOf, Zenon
    <3>3. Wholes(MergeByLowestMaskBit6(m, o)) = N!MergeByLowestMaskBit(WholeNet(m), WholeNet(o))
      BY <2>1, <2>2, <3>1, <3>2, Zenon
    <3> QED
      BY <1>5, <2>1, <2>3, <3>1, <3>3
  <2>4. CASE ~near
    <3>1. Only(near, wider) = {} /\ Wholes(Only(near, wider)) = {}
      BY <2>4, OnlyOf
    <3>2. N!Only(N!IsAdjacentByLowestMaskBit(WholeNet(m), WholeNet(o)), bigger) = {}
      BY <1>4, <2>4, OnlyOf, Zenon
    <3>3. Wholes(MergeByLowestMaskBit6(m, o)) = N!MergeByLowestMaskBit(WholeNet(m), WholeNet(o))
      BY <2>1, <2>2, <3>1, <3>2, Zenon
    <3> QED
      BY <2>1, <3>1, <3>3
  <2> QED
    BY <2>3, <2>4
<1>14. CASE m.mask # o.mask /\ Contains6(m, o)
  <2>1. MergeByLowestMaskBit6(m, o) = {m}
    BY <1>9, <1>11, <1>14
  <2>2. N!MergeByLowestMaskBit(WholeNet(m), WholeNet(o)) = {WholeNet(m)}
    BY <1>6, <1>10, <1>11, <1>14
  <2>3. Wholes({m}) = {WholeNet(m)}
    BY OnlyOf
  <2> QED
    BY <2>1, <2>2, <2>3
<1>15. CASE m.mask # o.mask /\ ~Contains6(m, o)
  <2>1. MergeByLowestMaskBit6(m, o) = Only(Contains6(o, m), o)
    BY <1>9, <1>11, <1>15
  <2>2. N!MergeByLowestMaskBit(WholeNet(m), WholeNet(o))
          = N!Only(N!Contains(WholeNet(o), WholeNet(m)), WholeNet(o))
    BY <1>6, <1>10, <1>11, <1>15
  <2>3. CASE Contains6(o, m)
    <3>1. Only(Contains6(o, m), o) = {o} /\ Wholes(Only(Contains6(o, m), o)) = {WholeNet(o)}
      BY <2>3, OnlyOf
    <3>2. N!Only(N!Contains(WholeNet(o), WholeNet(m)), WholeNet(o)) = {WholeNet(o)}
      BY <1>6, <2>3, OnlyOf, Zenon
    <3> QED
      BY <2>1, <2>2, <3>1, <3>2
  <2>4. CASE ~Contains6(o, m)
    <3>1. Only(Contains6(o, m), o) = {} /\ Wholes(Only(Contains6(o, m), o)) = {}
      BY <2>4, OnlyOf
    <3>2. N!Only(N!Contains(WholeNet(o), WholeNet(m)), WholeNet(o)) = {}
      BY <1>6, <2>4, OnlyOf, Zenon
    <3> QED
      BY <2>1, <2>2, <3>1, <3>2
  <2> QED
    BY <2>3, <2>4
<1> QED
  BY <1>12, <1>13, <1>14, <1>15

-----------------------------------------------------------------------------
(* The class of bi-contiguous masks                                        *)

(* Ones that run up to the top: the bit above a one is a one, except at    *)
(* the top of a half, and except at the top of either half of a word.      *)
HalfStep(x) == \A i \in x : i + 1 \in x \/ i = H - 1
Stepwise(w) == \A i \in w : i + 1 \in w \/ i = H - 1 \/ i = 2 * H - 1

LEMMA HalfRun ==
  ASSUME NEW x \in U!Word
  PROVE  /\ LeadingZeros64(U!Not(x)) = TU!LeadingOnes(x)
         /\ LeadingZeros64(U!Not(x)) \in 0 .. H
         /\ U!MaskFromPrefix(LeadingZeros64(U!Not(x))) = TU!Run(x)
         /\ TU!Run(x) \in U!Word
         /\ HalfStep(x) <=> x = TU!Run(x)
         /\ \A p \in 0 .. H : /\ U!MaskFromPrefix(p) \in U!Word /\ HalfStep(U!MaskFromPrefix(p))
                              /\ HalfPrefixMask(p) = U!MaskFromPrefix(p)
                              /\ U!MaskFromPrefix(p) = TU!MaskFromPrefix(p)
<1>0. H \in Nat \ {0} /\ U!Bits = 0 .. (H - 1) /\ TU!Bits = 0 .. (H - 1)
      /\ x \subseteq 0 .. (H - 1) /\ x \in TU!Word
  BY Widths, WordSets
<1>1. LeadingZeros64(U!Not(x)) = TU!LeadingOnes(x)
  <2>1. {i \in U!Bits : \A j \in U!Not(x) : j < i} = {i \in TU!Bits : i .. (H - 1) \subseteq x}
    <3>1. ASSUME NEW i \in 0 .. (H - 1)
          PROVE  (\A j \in (0 .. (H - 1)) \ x : j < i) <=> i .. (H - 1) \subseteq x
      BY <1>0
    <3> QED
      BY <1>0, <3>1 DEF U!Not
  <2> QED
    BY <2>1, Zenon DEF LeadingZeros64, TU!LeadingOnes, TU!Cardinality, Cardinality
<1>2. TU!LeadingOnes(x) \in 0 .. H /\ TU!MaskFromPrefix(TU!LeadingOnes(x)) = TU!Run(x)
  BY <1>0, TU!LeadingRun
<1>3. \A p : U!MaskFromPrefix(p) = TU!MaskFromPrefix(p)
  BY DEF U!MaskFromPrefix, TU!MaskFromPrefix, U!Bits, TU!Bits
<1>4. TU!Run(x) \in U!Word
  BY <1>0, WordSets, TU!RunFacts
<1>5. HalfStep(x) <=> x = TU!Run(x)
  <2>1. TU!Run(x) = {i \in 0 .. (H - 1) : i .. (H - 1) \subseteq x}
    BY <1>0 DEF TU!Run
  <2>2. ASSUME HalfStep(x), NEW i \in x PROVE i .. (H - 1) \subseteq x
    <3> DEFINE S == {j \in i .. (H - 1) : j \notin x}
    <3> SUFFICES ASSUME S # {} PROVE FALSE
      OBVIOUS
    <3>1. S \subseteq Nat
      BY <1>0
    <3>2. PICK j \in S : \A k \in S : j <= k
      BY <3>1, <1>0, TU!LeastNatural
    <3>3. j - 1 \in i .. (H - 1) /\ j - 1 # H - 1 /\ j \in Int
      BY <1>0, <2>2, <3>2
    <3>4. j - 1 \in x
      BY <3>2, <3>3
    <3>5. (j - 1) + 1 \in x
      BY <2>2, <3>3, <3>4 DEF HalfStep
    <3> QED
      BY <3>2, <3>3, <3>5
  <2>3. ASSUME x = TU!Run(x), NEW i \in x PROVE i + 1 \in x \/ i = H - 1
    <3>1. i \in 0 .. (H - 1) /\ i .. (H - 1) \subseteq x
      BY <2>1, <2>3
    <3>2. i # H - 1 => i + 1 \in i .. (H - 1)
      BY <3>1, <1>0
    <3> QED
      BY <3>1, <3>2
  <2>4. TU!Run(x) \subseteq x
    BY <1>0, TU!RunFacts
  <2> QED
    BY <1>0, <2>1, <2>2, <2>3, <2>4 DEF HalfStep
<1>6. ASSUME NEW p \in 0 .. H
      PROVE  /\ U!MaskFromPrefix(p) \in U!Word /\ HalfStep(U!MaskFromPrefix(p))
             /\ HalfPrefixMask(p) = U!MaskFromPrefix(p)
  <2>1. U!MaskFromPrefix(p) = {i \in 0 .. (H - 1) : i >= H - p}
    BY <1>0 DEF U!MaskFromPrefix
  <2>2. U!MaskFromPrefix(p) \in U!Word
    BY <2>1, WordSets
  <2>3. HalfStep(U!MaskFromPrefix(p))
    BY <1>0, <2>1 DEF HalfStep
  <2>4. HalfPrefixMask(p) = U!MaskFromPrefix(p)
    <3>1. HalfPrefixMask(p) = {i \in 0 .. (H - 1) : i - (H - p) \in 0 .. (H - 1)}
      BY <1>0 DEF HalfPrefixMask, Lsh
    <3>2. \A i \in 0 .. (H - 1) : i - (H - p) \in 0 .. (H - 1) <=> i >= H - p
      BY <1>0
    <3> QED
      BY <2>1, <3>1, <3>2
  <2> QED
    BY <2>2, <2>3, <2>4
<1> QED
  BY <1>1, <1>2, <1>3, <1>4, <1>5, <1>6

LEMMA StepsOfHalves ==
  ASSUME NEW m \in Uint128
  PROVE  Stepwise(Whole(m)) <=> HalfStep(m.hi) /\ HalfStep(m.lo)
<1>1. /\ H \in Nat \ {0} /\ m.hi \subseteq 0 .. (H - 1) /\ m.lo \subseteq 0 .. (H - 1)
      /\ Whole(m) \subseteq 0 .. (2 * H - 1)
  BY Widths, HalfFields, WholeBits
<1>2. \A i \in 0 .. (H - 1) : /\ i \in Whole(m) <=> i \in m.lo
                              /\ i + H \in Whole(m) <=> i \in m.hi
  BY WholeBits
<1>3. ASSUME Stepwise(Whole(m)) PROVE HalfStep(m.hi) /\ HalfStep(m.lo)
  <2>1. ASSUME NEW i \in m.lo PROVE i + 1 \in m.lo \/ i = H - 1
    <3>1. i \in 0 .. (H - 1) /\ i \in Whole(m) /\ i # 2 * H - 1
      BY <1>1, <1>2
    <3>2. i + 1 \in Whole(m) \/ i = H - 1
      BY <1>3, <3>1 DEF Stepwise
    <3>3. i # H - 1 => i + 1 \in 0 .. (H - 1)
      BY <1>1, <3>1
    <3> QED
      BY <1>2, <3>2, <3>3
  <2>2. ASSUME NEW i \in m.hi PROVE i + 1 \in m.hi \/ i = H - 1
    <3>1. i \in 0 .. (H - 1) /\ i + H \in Whole(m) /\ i + H # H - 1
      BY <1>1, <1>2
    <3>2. (i + H) + 1 \in Whole(m) \/ i + H = 2 * H - 1
      BY <1>3, <3>1 DEF Stepwise
    <3>3. /\ i # H - 1 => i + 1 \in 0 .. (H - 1)
          /\ (i + H) + 1 = (i + 1) + H
          /\ i + H = 2 * H - 1 => i = H - 1
      BY <1>1, <3>1
    <3> QED
      BY <1>2, <3>2, <3>3
  <2> QED
    BY <2>1, <2>2 DEF HalfStep
<1>4. ASSUME HalfStep(m.hi), HalfStep(m.lo), NEW i \in Whole(m)
      PROVE  i + 1 \in Whole(m) \/ i = H - 1 \/ i = 2 * H - 1
  <2>1. CASE i < H
    <3>1. i \in 0 .. (H - 1)
      BY <1>1, <2>1
    <3>2. i \in m.lo
      BY <1>2, <1>4, <3>1
    <3>3. i + 1 \in m.lo \/ i = H - 1
      BY <1>4, <3>2 DEF HalfStep
    <3> QED
      BY <1>1, <1>2, <3>3
  <2>2. CASE ~(i < H)
    <3>1. i - H \in 0 .. (H - 1) /\ (i - H) + H = i
      BY <1>1, <2>2
    <3>2. i - H \in m.hi
      BY <1>2, <1>4, <3>1
    <3>3. (i - H) + 1 \in m.hi \/ i - H = H - 1
      BY <1>4, <3>2 DEF HalfStep
    <3>4. (i - H) + 1 \in m.hi => i + 1 \in Whole(m)
      <4>1. (i - H) + 1 \in m.hi => (i - H) + 1 \in 0 .. (H - 1)
        BY <1>1
      <4>2. ((i - H) + 1) + H = i + 1
        BY <1>1, <3>1
      <4> QED
        BY <1>2, <4>1, <4>2
    <3>5. i - H = H - 1 => i = 2 * H - 1
      BY <1>1, <3>1
    <3> QED
      BY <3>3, <3>4, <3>5
  <2> QED
    BY <2>1, <2>2
<1> QED
  BY <1>3, <1>4 DEF Stepwise

(* The three ways to say what the class is: the two runs of ones, the      *)
(* bits, and the check of the code.                                        *)
LEMMA ClassIs ==
  ASSUME NEW n \in Pair
  PROVE  /\ InClass(n) <=> Stepwise(Whole(n.mask))
         /\ InClass(n) <=> IsBicontiguous(n)
         /\ InClass(n) <=> n.mask = FromHalves(U!MaskFromPrefix(HighPrefixLen(n)),
                                               U!MaskFromPrefix(LowPrefixLen(n)))
<1>1. /\ n.mask \in Uint128 /\ n.mask.hi \in U!Word /\ n.mask.lo \in U!Word
      /\ n.mask = FromHalves(n.mask.hi, n.mask.lo)
  BY WholeNetIs, HalfFields
<1>2. Stepwise(Whole(n.mask)) <=> HalfStep(n.mask.hi) /\ HalfStep(n.mask.lo)
  BY <1>1, StepsOfHalves
<1> DEFINE p == HighPrefixLen(n)
           q == LowPrefixLen(n)
<1>3. /\ p \in 0 .. H /\ U!MaskFromPrefix(p) = TU!Run(n.mask.hi)
      /\ HalfStep(n.mask.hi) <=> n.mask.hi = U!MaskFromPrefix(p)
      /\ q \in 0 .. H /\ U!MaskFromPrefix(q) = TU!Run(n.mask.lo)
      /\ HalfStep(n.mask.lo) <=> n.mask.lo = U!MaskFromPrefix(q)
  <2>1. /\ p \in 0 .. H /\ U!MaskFromPrefix(p) = TU!Run(n.mask.hi)
        /\ HalfStep(n.mask.hi) <=> n.mask.hi = TU!Run(n.mask.hi)
    BY <1>1, HalfRun, Zenon DEF HighPrefixLen
  <2>2. /\ q \in 0 .. H /\ U!MaskFromPrefix(q) = TU!Run(n.mask.lo)
        /\ HalfStep(n.mask.lo) <=> n.mask.lo = TU!Run(n.mask.lo)
    BY <1>1, HalfRun, Zenon DEF LowPrefixLen
  <2> HIDE DEF p, q
  <2> QED
    BY <2>1, <2>2, Zenon
<1> HIDE DEF p, q
<1>4. \A hi, lo : n.mask = FromHalves(hi, lo) <=> n.mask.hi = hi /\ n.mask.lo = lo
  <2> TAKE hi, lo
  <2>1. n.mask = FromHalves(hi, lo) => n.mask.hi = hi /\ n.mask.lo = lo
    BY DEF FromHalves
  <2>2. n.mask.hi = hi /\ n.mask.lo = lo => n.mask = FromHalves(hi, lo)
    BY <1>1, Zenon
  <2> QED
    BY <2>1, <2>2
<1>5. Stepwise(Whole(n.mask)) <=> n.mask = FromHalves(U!MaskFromPrefix(p), U!MaskFromPrefix(q))
  BY <1>2, <1>3, <1>4
<1>6. InClass(n) => HalfStep(n.mask.hi) /\ HalfStep(n.mask.lo)
  <2> SUFFICES ASSUME NEW a \in 0 .. H, NEW b \in 0 .. H,
                      n.mask = FromHalves(U!MaskFromPrefix(a), U!MaskFromPrefix(b))
               PROVE  HalfStep(n.mask.hi) /\ HalfStep(n.mask.lo)
    BY DEF InClass
  <2>1. n.mask.hi = U!MaskFromPrefix(a) /\ n.mask.lo = U!MaskFromPrefix(b)
    BY <1>4
  <2>2. HalfStep(U!MaskFromPrefix(a)) /\ HalfStep(U!MaskFromPrefix(b))
    BY <1>1, HalfRun
  <2> QED
    BY <2>1, <2>2
<1>7. InClass(n) <=> Stepwise(Whole(n.mask))
  BY <1>2, <1>3, <1>5, <1>6 DEF InClass
<1>8. Stepwise(Whole(n.mask)) <=> IsBicontiguous(n)
  <2> DEFINE M == Whole(n.mask)
             tops == FromHalves({H - 1}, {H - 1})
             shifted == Shr(n.mask, 1)
  <2>1. H \in Nat \ {0} /\ M \subseteq 0 .. (2 * H - 1)
    BY <1>1, Widths, WholeBits
  <2>2. shifted \in Uint128 /\ Whole(shifted) = {i \in 0 .. (2 * H - 1) : i + 1 \in M}
    <3>1. 1 \in 0 .. (2 * H)
      BY <2>1
    <3> QED
      BY <1>1, <3>1, ShrIsWhole
  <2>3. tops \in Uint128 /\ Whole(tops) = {H - 1, 2 * H - 1}
    <3>1. {H - 1} \subseteq 0 .. (H - 1)
      BY <2>1
    <3>2. tops \in Uint128 /\ tops.hi = {H - 1} /\ tops.lo = {H - 1}
      BY <3>1, FromHalvesIs
    <3>3. Whole(tops) = {H - 1} \cup {i + H : i \in {H - 1}}
      BY <3>2, Zenon DEF Whole
    <3>4. (H - 1) + H = 2 * H - 1
      BY <2>1
    <3> QED
      BY <3>2, <3>3, <3>4
  <2> HIDE DEF M, tops, shifted
  <2>4. /\ AndNot(n.mask, shifted) \in Uint128
        /\ Whole(AndNot(n.mask, shifted)) = M \ Whole(shifted)
    BY <1>1, <2>2, BitwiseIs DEF M
  <2>5. /\ AndNot(AndNot(n.mask, shifted), tops) \in Uint128
        /\ Whole(AndNot(AndNot(n.mask, shifted), tops)) = (M \ Whole(shifted)) \ Whole(tops)
    <3>1. /\ AndNot(AndNot(n.mask, shifted), tops) \in Uint128
          /\ Whole(AndNot(AndNot(n.mask, shifted), tops))
               = Whole(AndNot(n.mask, shifted)) \ Whole(tops)
      BY <2>3, <2>4, BitwiseIs
    <3> QED
      BY <2>4, <3>1, Zenon
  <2>6. IsBicontiguous(n) <=> (M \ Whole(shifted)) \ Whole(tops) = {}
    <3>1. IsBicontiguous(n) <=> IsZero(AndNot(AndNot(n.mask, shifted), tops))
      BY DEF IsBicontiguous, shifted, tops
    <3>2. IsZero(AndNot(AndNot(n.mask, shifted), tops))
            <=> Whole(AndNot(AndNot(n.mask, shifted), tops)) = {}
      BY <2>5, SameBits
    <3> QED
      BY <2>5, <3>1, <3>2, Zenon
  <2>7. (M \ Whole(shifted)) \ Whole(tops) = {} <=> Stepwise(M)
    BY <2>1, <2>2, <2>3 DEF Stepwise
  <2> QED
    BY <2>6, <2>7 DEF M
<1> QED
  BY <1>5, <1>7, <1>8 DEF p, q

(* Masks of the class make masks of the class.                             *)
LEMMA StepsStay ==
  ASSUME NEW a \in T!Word, NEW c \in T!Word, Stepwise(a), Stepwise(c)
  PROVE  /\ Stepwise(a \cup c)
         /\ Stepwise(N!ClearLowestSetBit(a))
         /\ \A b \in Int : Stepwise(a \cup {j \in c \ a : j >= b})
<1>1. \A i \in a \cup c : i \in Int
  BY WordSets
<1>2. Stepwise(a \cup c)
  BY DEF Stepwise
<1>3. Stepwise(N!ClearLowestSetBit(a))
  <2>1. N!ClearLowestSetBit(a) = {i \in a : \E j \in a : j < i}
    BY Widths, SameAlgebra, T!ClearLowestIsNotLowest
  <2>2. ASSUME NEW i \in a, NEW j \in a, j < i, i + 1 \in a PROVE j < i + 1
    BY <1>1, <2>2
  <2> QED
    BY <2>1, <2>2 DEF Stepwise
<1>4. ASSUME NEW b \in Int PROVE Stepwise(a \cup {j \in c \ a : j >= b})
  BY <1>1 DEF Stepwise
<1> QED
  BY <1>2, <1>3, <1>4

-----------------------------------------------------------------------------
(* The parts of a difference                                               *)

(* The halves of a whole word.                                             *)
HalvesOf(w) == FromHalves({i \in 0 .. (H - 1) : i + H \in w}, {i \in 0 .. (H - 1) : i \in w})
HalfNet(n) == [addr |-> HalvesOf(n.addr), mask |-> HalvesOf(n.mask)]

LEMMA HalvesAgain ==
  /\ \A w \in T!Word : HalvesOf(w) \in Uint128 /\ Whole(HalvesOf(w)) = w
  /\ \A m \in Uint128 : HalvesOf(Whole(m)) = m
<1>1. ASSUME NEW w \in T!Word PROVE HalvesOf(w) \in Uint128 /\ Whole(HalvesOf(w)) = w
  <2> DEFINE hi == {i \in 0 .. (H - 1) : i + H \in w}
             lo == {i \in 0 .. (H - 1) : i \in w}
  <2>1. /\ HalvesOf(w) \in Uint128 /\ HalvesOf(w).hi = hi /\ HalvesOf(w).lo = lo
    BY FromHalvesIs DEF HalvesOf
  <2>2. w \subseteq 0 .. (2 * H - 1) /\ H \in Nat \ {0}
    BY WordSets, Widths
  <2>3. ASSUME NEW i PROVE i \in Whole(HalvesOf(w)) <=> i \in w
    <3>1. i \in Whole(HalvesOf(w)) <=>
            i \in 0 .. (2 * H - 1) /\ IF i < H THEN i \in lo ELSE i - H \in hi
      BY <2>1, WholeIs
    <3>2. CASE i \in 0 .. (2 * H - 1) /\ i < H
      BY <2>2, <3>1, <3>2
    <3>3. CASE i \in 0 .. (2 * H - 1) /\ ~(i < H)
      <4>1. i - H \in 0 .. (H - 1) /\ (i - H) + H = i
        BY <2>2, <3>3
      <4> QED
        BY <3>1, <3>3, <4>1
    <3>4. CASE i \notin 0 .. (2 * H - 1)
      BY <2>2, <3>1, <3>4
    <3> QED
      BY <3>2, <3>3, <3>4
  <2> QED
    BY <2>1, <2>3
<1>2. ASSUME NEW m \in Uint128 PROVE HalvesOf(Whole(m)) = m
  <2>1. Whole(m) \in T!Word
    BY WholeBits
  <2>2. HalvesOf(Whole(m)) \in Uint128 /\ Whole(HalvesOf(Whole(m))) = Whole(m)
    BY <1>1, <2>1
  <2> QED
    BY <2>2, WholeTells
<1> QED
  BY <1>1, <1>2

(* One part of a difference, from the whole words.                         *)
HalfPart(addr, b, fixed) == HalfNet(T!Part(Whole(addr), {b}, fixed))

LEMMA HalfPartIs ==
  ASSUME NEW addr \in Uint128, NEW b \in 0 .. (2 * H - 1), NEW fixed \in T!Word
  PROVE  /\ HalfPart(addr, b, fixed) \in Network6
         /\ WholeNet(HalfPart(addr, b, fixed)) = T!Part(Whole(addr), {b}, fixed)
         /\ Whole(HalfPart(addr, b, fixed).mask) = fixed
<1> DEFINE p == T!Part(Whole(addr), {b}, fixed)
<1>1. p = [addr |-> T!Xor(Whole(addr), {b}) \cap fixed, mask |-> fixed]
  BY DEF T!Part
<1>2. /\ p.addr = T!Xor(Whole(addr), {b}) \cap fixed /\ p.mask = fixed
  <2> HIDE DEF p
  <2> QED
    BY <1>1
<1>3. p.addr \in T!Word /\ p.mask \in T!Word /\ p.addr \subseteq p.mask
  BY <1>2, WordSets
<1> HIDE DEF p
<1>4. /\ HalvesOf(p.addr) \in Uint128 /\ Whole(HalvesOf(p.addr)) = p.addr
      /\ HalvesOf(p.mask) \in Uint128 /\ Whole(HalvesOf(p.mask)) = p.mask
  BY <1>3, HalvesAgain
<1>5. HalfPart(addr, b, fixed) = [addr |-> HalvesOf(p.addr), mask |-> HalvesOf(p.mask)]
  BY Zenon DEF HalfPart, HalfNet, p
<1>6. Whole(HalvesOf(p.addr)) \subseteq Whole(HalvesOf(p.mask))
  BY <1>3, <1>4
<1>7. /\ HalfPart(addr, b, fixed) \in Network6
      /\ HalfPart(addr, b, fixed).mask = HalvesOf(p.mask)
  <2>1. [addr |-> HalvesOf(p.addr), mask |-> HalvesOf(p.mask)] \in Network6
    BY <1>4, <1>6, PairMake
  <2>2. HalfPart(addr, b, fixed).mask = HalvesOf(p.mask)
    BY <1>5
  <2> QED
    BY <1>5, <2>1, <2>2, Zenon
<1>8. WholeNet(HalfPart(addr, b, fixed)) = [addr |-> p.addr, mask |-> p.mask]
  <2>1. WholeNet(HalfPart(addr, b, fixed))
          = [addr |-> Whole(HalvesOf(p.addr)), mask |-> Whole(HalvesOf(p.mask))]
    BY <1>4, <1>5, PairMake
  <2> QED
    BY <1>4, <2>1, Zenon
<1>9. p = [addr |-> p.addr, mask |-> p.mask]
  BY <1>1, <1>2, Zenon DEF p
<1> QED
  BY <1>2, <1>4, <1>7, <1>8, <1>9, Zenon DEF p

LEMMA TopOfWord ==
  ASSUME NEW m \in Uint128, ~IsZero(m)
  PROVE  LET top == 2 * H - 1 - LeadingZeros(m)
         IN  top \in Whole(m) /\ \A j \in Whole(m) : j <= top
<1>1. H \in Nat \ {0} /\ Whole(m) \subseteq 0 .. (2 * H - 1) /\ Whole(m) # {}
  BY Widths, WholeBits, SameBits
<1>2. PICK g \in Whole(m) : \A j \in Whole(m) : j <= g
  BY <1>1, Widths, T!GreatestNatural
<1>3. {i \in 0 .. (2 * H - 1) : \A j \in Whole(m) : j < i} = (g + 1) .. (2 * H - 1)
  <2>1. ASSUME NEW i \in 0 .. (2 * H - 1) PROVE (\A j \in Whole(m) : j < i) <=> g < i
    BY <1>1, <1>2
  <2> QED
    BY <1>1, <2>1
<1>4. Cardinality((g + 1) .. (2 * H - 1)) = 2 * H - 1 - g
  <2>1. g \in 0 .. (2 * H - 1)
    BY <1>1
  <2>2. g + 1 \in Int /\ 2 * H - 1 \in Int /\ (g + 1 > 2 * H - 1 => 2 * H - 1 - g = 0)
        /\ (2 * H - 1) - (g + 1) + 1 = 2 * H - 1 - g
    BY <1>1, <2>1
  <2> HIDE <1>3
  <2>3. Cardinality((g + 1) .. (2 * H - 1))
          = IF g + 1 > 2 * H - 1 THEN 0 ELSE (2 * H - 1) - (g + 1) + 1
    BY <2>2, FS_Interval
  <2> QED
    BY <2>2, <2>3
<1>5. LeadingZeros(m) = 2 * H - 1 - g
  BY <1>3, <1>4, LeadingZerosIsWhole
<1>6. 2 * H - 1 - LeadingZeros(m) = g
  BY <1>1, <1>5
<1> QED
  BY <1>2, <1>6

LEMMA PeeledPart ==
  ASSUME NEW addr \in Uint128, NEW bit \in Uint128, NEW wider \in Uint128,
         NEW b \in 0 .. (2 * H - 1), Whole(bit) = {b}
  PROVE  [addr |-> And(Xor(addr, bit), wider), mask |-> wider] = HalfPart(addr, b, Whole(wider))
<1> DEFINE p == [addr |-> And(Xor(addr, bit), wider), mask |-> wider]
<1>1. /\ Xor(addr, bit) \in Uint128 /\ Whole(Xor(addr, bit)) = T!Xor(Whole(addr), {b})
  <2>1. /\ Xor(addr, bit) \in Uint128
        /\ Whole(Xor(addr, bit)) = T!Xor(Whole(addr), Whole(bit))
    BY BitwiseIs
  <2> QED
    BY <2>1, Zenon
<1>2. /\ And(Xor(addr, bit), wider) \in Uint128
      /\ Whole(And(Xor(addr, bit), wider)) = T!Xor(Whole(addr), {b}) \cap Whole(wider)
  <2>1. /\ And(Xor(addr, bit), wider) \in Uint128
        /\ Whole(And(Xor(addr, bit), wider)) = Whole(Xor(addr, bit)) \cap Whole(wider)
    BY <1>1, BitwiseIs
  <2> QED
    BY <1>1, <2>1, Zenon
<1>3. p \in Pair /\ WholeNet(p) = T!Part(Whole(addr), {b}, Whole(wider))
  <2>1. p \in Pair
        /\ WholeNet(p) = [addr |-> Whole(And(Xor(addr, bit), wider)), mask |-> Whole(wider)]
    BY <1>2, PairMake
  <2> QED
    BY <1>2, <2>1, Zenon DEF T!Part
<1>4. /\ HalfPart(addr, b, Whole(wider)) \in Pair
      /\ WholeNet(HalfPart(addr, b, Whole(wider))) = T!Part(Whole(addr), {b}, Whole(wider))
  <2>1. Whole(wider) \in T!Word
    BY WholeBits
  <2>2. /\ HalfPart(addr, b, Whole(wider)) \in Network6
        /\ WholeNet(HalfPart(addr, b, Whole(wider))) = T!Part(Whole(addr), {b}, Whole(wider))
    BY <2>1, HalfPartIs
  <2> QED
    BY <2>2 DEF Network6
<1> HIDE DEF p
<1>5. WholeNet(p) = WholeNet(HalfPart(addr, b, Whole(wider)))
  BY <1>3, <1>4, Zenon
<1>6. p = HalfPart(addr, b, Whole(wider))
  BY <1>3, <1>4, <1>5, WholeNetTells
<1> QED
  BY <1>6 DEF p

(* What a peel leaves to do once it has taken one bit.                     *)
LEMMA OneBitLess ==
  ASSUME NEW left \in Uint128, NEW bit \in Uint128, NEW b \in Whole(left), Whole(bit) = {b}
  PROVE  /\ Xor(left, bit) \in Uint128 /\ Whole(Xor(left, bit)) = Whole(left) \ {b}
         /\ Cardinality(Whole(left)) \in Nat /\ Cardinality(Whole(Xor(left, bit))) \in Nat
         /\ Cardinality(Whole(Xor(left, bit))) < Cardinality(Whole(left))
<1>1. Xor(left, bit) \in Uint128 /\ Whole(Xor(left, bit)) = T!Xor(Whole(left), Whole(bit))
  BY BitwiseIs
<1>2. Whole(Xor(left, bit)) = Whole(left) \ {b}
  <2>1. T!Xor(Whole(left), Whole(bit)) = Whole(left) \ {b}
    BY DEF T!Xor
  <2> QED
    BY <1>1, <2>1, Zenon
<1>3. IsFiniteSet(Whole(left))
  <2>1. IsFiniteSet(0 .. (2 * H - 1))
    BY Widths, FS_Interval
  <2>2. Whole(left) \subseteq 0 .. (2 * H - 1)
    BY WholeBits
  <2> QED
    BY <2>1, <2>2, FS_Subset
<1>4. Cardinality(Whole(left)) \in Nat
  BY <1>3, FS_CardinalityType
<1>5. /\ IsFiniteSet(Whole(left) \ {b})
      /\ Cardinality(Whole(left) \ {b}) = Cardinality(Whole(left)) - 1
  BY <1>3, FS_RemoveElement
<1>6. Cardinality(Whole(left) \ {b}) \in Nat
  BY <1>5, FS_CardinalityType
<1>7. Cardinality(Whole(Xor(left, bit))) = Cardinality(Whole(left) \ {b})
  BY <1>2, Zenon
<1>8. /\ Cardinality(Whole(Xor(left, bit))) \in Nat
      /\ Cardinality(Whole(Xor(left, bit))) = Cardinality(Whole(left)) - 1
  BY <1>5, <1>6, <1>7, Zenon
<1>9. Cardinality(Whole(Xor(left, bit))) < Cardinality(Whole(left))
  BY <1>4, <1>8
<1> QED
  BY <1>1, <1>2, <1>4, <1>8, <1>9, Zenon

(* The parts for the bits of left, over a mask that holds fixed already.   *)
PeeledParts(addr, fixed, left) ==
  {HalfPart(addr, b, fixed \cup {j \in left : j >= b}) : b \in left}

LEMMA NothingToPeel ==
  ASSUME NEW addr, NEW fixed, NEW left \in Uint128, IsZero(left)
  PROVE  PeeledParts(addr, fixed, Whole(left)) = {}
<1>1. Whole(left) = {}
  BY SameBits
<1> QED
  BY <1>1 DEF PeeledParts

LEMMA TopPeelsOff ==
  ASSUME NEW addr \in Uint128, NEW left \in Uint128, NEW fixed \in Uint128, ~IsZero(left),
         NEW bit, bit = Bit(2 * H - 1 - LeadingZeros(left)),
         NEW wider, wider = Or(fixed, bit)
  PROVE  /\ Xor(left, bit) \in Uint128 /\ wider \in Uint128
         /\ Cardinality(Whole(left)) \in Nat /\ Cardinality(Whole(Xor(left, bit))) \in Nat
         /\ Cardinality(Whole(Xor(left, bit))) < Cardinality(Whole(left))
         /\ PeeledParts(addr, Whole(fixed), Whole(left)) =
              {[addr |-> And(Xor(addr, bit), wider), mask |-> wider]}
                \cup PeeledParts(addr, Whole(wider), Whole(Xor(left, bit)))
<1> DEFINE top == 2 * H - 1 - LeadingZeros(left)
           w == Whole(left)
           v == Whole(Xor(left, bit))
           F(b) == Whole(fixed) \cup {j \in w : j >= b}
           G(b) == Whole(wider) \cup {j \in v : j >= b}
<1>1. top \in Whole(left) /\ \A j \in Whole(left) : j <= top
  BY TopOfWord
<1>2. top \in 0 .. (2 * H - 1) /\ Whole(left) \subseteq 0 .. (2 * H - 1) /\ H \in Nat
  BY <1>1, WholeBits, Widths
<1> HIDE DEF top
<1>3. bit = Bit(top)
  BY DEF top
<1>4. bit \in Uint128 /\ Whole(bit) = {top}
  BY <1>2, <1>3, BitIsWhole
<1>5. wider \in Uint128 /\ Whole(wider) = Whole(fixed) \cup {top}
  <2>1. Or(fixed, bit) \in Uint128 /\ Whole(Or(fixed, bit)) = Whole(fixed) \cup Whole(bit)
    BY <1>4, BitwiseIs
  <2> QED
    BY <1>4, <2>1, Zenon
<1>6. /\ Xor(left, bit) \in Uint128 /\ v = w \ {top}
      /\ Cardinality(Whole(left)) \in Nat /\ Cardinality(Whole(Xor(left, bit))) \in Nat
      /\ Cardinality(Whole(Xor(left, bit))) < Cardinality(Whole(left))
  BY <1>1, <1>4, OneBitLess
<1>7. PeeledParts(addr, Whole(fixed), Whole(left)) = {HalfPart(addr, b, F(b)) : b \in w}
  BY Zenon DEF PeeledParts
<1>8. PeeledParts(addr, Whole(wider), v) = {HalfPart(addr, b, G(b)) : b \in v}
  BY Zenon DEF PeeledParts
<1>9. [addr |-> And(Xor(addr, bit), wider), mask |-> wider] = HalfPart(addr, top, Whole(wider))
  BY <1>2, <1>4, <1>5, PeeledPart
<1>10. F(top) = Whole(wider)
  <2>1. {j \in w : j >= top} = {top}
    BY <1>1, <1>2
  <2> QED
    BY <1>5, <2>1, Zenon
<1>11. ASSUME NEW b \in v PROVE F(b) = G(b)
  <2>1. b \in w /\ b # top /\ b \in Int
    BY <1>2, <1>6
  <2>2. top >= b
    BY <1>1, <1>2, <2>1
  <2>3. {j \in w : j >= b} = {top} \cup {j \in v : j >= b}
    BY <1>1, <1>6, <2>2
  <2> QED
    BY <1>5, <2>3
<1> HIDE DEF w, v, F, G
<1>12. w = v \cup {top}
  BY <1>1, <1>6 DEF w
<1>13. {HalfPart(addr, b, F(b)) : b \in w} =
         {HalfPart(addr, top, F(top))} \cup {HalfPart(addr, b, G(b)) : b \in v}
  <2>1. ASSUME NEW b \in v PROVE HalfPart(addr, b, F(b)) = HalfPart(addr, b, G(b))
    BY <1>11, Zenon
  <2>2. ASSUME NEW x PROVE (\E b \in w : x = HalfPart(addr, b, F(b))) <=>
                             \/ x = HalfPart(addr, top, F(top))
                             \/ \E b \in v : x = HalfPart(addr, b, G(b))
    BY <1>12, <2>1, Zenon
  <2> QED
    BY <2>2, Zenon
<1>14. HalfPart(addr, top, F(top)) = [addr |-> And(Xor(addr, bit), wider), mask |-> wider]
  BY <1>9, <1>10, Zenon
<1>15. PeeledParts(addr, Whole(fixed), Whole(left)) =
         {[addr |-> And(Xor(addr, bit), wider), mask |-> wider]}
           \cup PeeledParts(addr, Whole(wider), Whole(Xor(left, bit)))
  BY <1>7, <1>8, <1>13, <1>14, Zenon DEF v
<1> QED
  BY <1>5, <1>6, <1>15

LEMMA PeelIs ==
  ASSUME NEW addr \in Uint128, NEW mask \in Uint128, NEW remaining \in Uint128
  PROVE  Peel(addr, mask, remaining) = PeeledParts(addr, Whole(mask), Whole(remaining))
<1> DEFINE S == [left : Uint128, fixed : Uint128]
           TopBit(at) == Bit(2 * H - 1 - LeadingZeros(at.left))
           Wide(at) == Or(at.fixed, TopBit(at))
           First(at) == [addr |-> And(Xor(addr, TopBit(at)), Wide(at)), mask |-> Wide(at)]
           Rest(at) == [left |-> Xor(at.left, TopBit(at)), fixed |-> Wide(at)]
           Eq(f) == f = [at \in S |-> IF IsZero(at.left) THEN {} ELSE {First(at)} \cup f[Rest(at)]]
           s == CHOOSE f : Eq(f)
           Want(at) == PeeledParts(addr, Whole(at.fixed), Whole(at.left))
           g == [at \in S |-> Want(at)]
           Size(at) == Cardinality(Whole(at.left))
<1>1. Peel(addr, mask, remaining) = s[[left |-> remaining, fixed |-> mask]]
  BY DEF Peel
<1>2. ASSUME NEW at \in S, IsZero(at.left) PROVE Want(at) = {}
  BY <1>2, NothingToPeel
<1>3. ASSUME NEW at \in S, ~IsZero(at.left)
      PROVE  /\ Rest(at) \in S /\ Want(at) = {First(at)} \cup Want(Rest(at))
             /\ Size(at) \in Nat /\ Size(Rest(at)) \in Nat /\ Size(Rest(at)) < Size(at)
  <2> DEFINE bit == TopBit(at)
             wider == Wide(at)
  <2>1. at.left \in Uint128 /\ at.fixed \in Uint128
    OBVIOUS
  <2>2. bit = Bit(2 * H - 1 - LeadingZeros(at.left)) /\ wider = Or(at.fixed, bit)
    OBVIOUS
  <2>3. First(at) = [addr |-> And(Xor(addr, bit), wider), mask |-> wider]
    OBVIOUS
  <2>4. Rest(at) = [left |-> Xor(at.left, bit), fixed |-> wider]
    OBVIOUS
  <2> HIDE DEF bit, wider, TopBit, Wide, First, Rest
  <2>5. /\ Xor(at.left, bit) \in Uint128 /\ wider \in Uint128
        /\ Cardinality(Whole(at.left)) \in Nat
        /\ Cardinality(Whole(Xor(at.left, bit))) \in Nat
        /\ Cardinality(Whole(Xor(at.left, bit))) < Cardinality(Whole(at.left))
        /\ PeeledParts(addr, Whole(at.fixed), Whole(at.left)) =
              {[addr |-> And(Xor(addr, bit), wider), mask |-> wider]}
                \cup PeeledParts(addr, Whole(wider), Whole(Xor(at.left, bit)))
    BY <1>3, <2>1, <2>2, TopPeelsOff
  <2>6. Rest(at).left = Xor(at.left, bit) /\ Rest(at).fixed = wider
    BY <2>4
  <2>7. Rest(at) \in S
    BY <2>4, <2>5
  <2>8. Want(at) = {First(at)} \cup Want(Rest(at))
    BY <2>3, <2>5, <2>6, Zenon
  <2>9. Size(at) \in Nat /\ Size(Rest(at)) \in Nat /\ Size(Rest(at)) < Size(at)
    <3>1. Size(Rest(at)) = Cardinality(Whole(Xor(at.left, bit)))
      BY <2>6, Zenon
    <3> HIDE DEF S
    <3> QED
      BY <2>5, <3>1
  <2> QED
    BY <2>7, <2>8, <2>9
<1> HIDE DEF First, Rest, Want, Size, S, TopBit, Wide
<1>4. Eq(g)
  <2>1. ASSUME NEW at \in S
        PROVE  g[at] = IF IsZero(at.left) THEN {} ELSE {First(at)} \cup g[Rest(at)]
    <3>1. CASE IsZero(at.left)
      BY <1>2, <3>1
    <3>2. CASE ~IsZero(at.left)
      <4>1. Rest(at) \in S /\ Want(at) = {First(at)} \cup Want(Rest(at))
        BY <1>3, <3>2
      <4>2. g[at] = Want(at) /\ g[Rest(at)] = Want(Rest(at))
        BY <4>1
      <4> HIDE DEF g
      <4> QED
        BY <3>2, <4>1, <4>2, Zenon
    <3> QED
      BY <3>1, <3>2
  <2> QED
    BY <2>1
<1>5. Eq(s)
  BY <1>4
<1> HIDE DEF s, g
<1>6. ASSUME NEW at \in S
      PROVE  s[at] = IF IsZero(at.left) THEN {} ELSE {First(at)} \cup s[Rest(at)]
  BY <1>5
<1> HIDE DEF Eq
<1>7. \A at \in S : s[at] = Want(at)
  <2> DEFINE Bad == {at \in S : s[at] # Want(at)}
             Sizes == {Size(at) : at \in Bad}
  <2> SUFFICES ASSUME Bad # {} PROVE FALSE
    OBVIOUS
  <2>1. \A at \in Bad : at \in S /\ ~IsZero(at.left)
    <3>1. ASSUME NEW at \in S, IsZero(at.left) PROVE s[at] = Want(at)
      <4>1. s[at] = {} /\ Want(at) = {}
        BY <1>2, <1>6, <3>1
      <4> QED
        BY <4>1
    <3> QED
      BY <3>1
  <2>2. Sizes \subseteq Nat /\ Sizes # {}
    BY <1>3, <2>1
  <2>3. PICK k \in Sizes : \A j \in Sizes : k <= j
    BY <2>2, Widths, T!LeastNatural
  <2>4. PICK at \in Bad : k = Size(at)
    BY <2>3
  <2>5. /\ at \in S /\ ~IsZero(at.left)
        /\ Rest(at) \in S /\ Want(at) = {First(at)} \cup Want(Rest(at))
        /\ Size(at) \in Nat /\ Size(Rest(at)) \in Nat /\ Size(Rest(at)) < Size(at)
    BY <1>3, <2>1, <2>4
  <2>6. Rest(at) \notin Bad
    <3> SUFFICES ASSUME Rest(at) \in Bad PROVE FALSE
      OBVIOUS
    <3>1. k <= Size(Rest(at))
      BY <2>3
    <3> QED
      BY <2>4, <2>5, <3>1
  <2>7. s[Rest(at)] = Want(Rest(at))
    BY <2>5, <2>6
  <2>8. s[at] = {First(at)} \cup s[Rest(at)]
    BY <1>6, <2>5
  <2>9. s[at] = Want(at)
    BY <2>5, <2>7, <2>8, Zenon
  <2> QED
    BY <2>4, <2>9
<1>8. [left |-> remaining, fixed |-> mask] \in S
  BY DEF S
<1>9. Want([left |-> remaining, fixed |-> mask])
        = PeeledParts(addr, Whole(mask), Whole(remaining))
  BY DEF Want
<1> QED
  BY <1>1, <1>7, <1>8, <1>9

LEMMA LowestPeelsOff ==
  ASSUME NEW addr \in Uint128, NEW left \in Uint128, NEW mask \in Uint128, ~IsZero(left),
         NEW bit, bit = LowestSetBit(left), NEW wider, wider = Or(mask, left)
  PROVE  /\ Xor(left, bit) \in Uint128
         /\ Cardinality(Whole(left)) \in Nat /\ Cardinality(Whole(Xor(left, bit))) \in Nat
         /\ Cardinality(Whole(Xor(left, bit))) < Cardinality(Whole(left))
         /\ PeeledParts(addr, Whole(mask), Whole(left)) =
              {[addr |-> And(Xor(addr, bit), wider), mask |-> wider]}
                \cup PeeledParts(addr, Whole(mask), Whole(Xor(left, bit)))
<1> DEFINE w == Whole(left)
           v == Whole(Xor(left, bit))
           F(b) == Whole(mask) \cup {j \in w : j >= b}
           G(b) == Whole(mask) \cup {j \in v : j >= b}
<1>1. w \subseteq 0 .. (2 * H - 1) /\ w # {} /\ H \in Nat
  BY WholeBits, SameBits, Widths
<1>2. PICK low \in w : \A j \in w : low <= j
  <2>1. w \subseteq Nat
    BY <1>1
  <2> QED
    BY <1>1, <2>1, Widths, T!LeastNatural
<1>3. low \in 0 .. (2 * H - 1) /\ \A j \in w : j \in Int
  BY <1>1
<1>4. bit \in Uint128 /\ Whole(bit) = {low}
  <2>1. bit \in Uint128 /\ Whole(bit) = T!LowestSetBit(w)
    BY LowestIsWhole
  <2>2. T!LowestSetBit(w) = {low}
    <3> HIDE DEF w
    <3>1. low \in Int /\ low \in w
      BY <1>1, <1>3
    <3>2. ASSUME NEW i \in w PROVE (\A j \in w : i <= j) <=> i = low
      BY <1>2, <1>3, <3>1
    <3>3. {i \in w : \A j \in w : i <= j} = {low}
      BY <3>1, <3>2
    <3> QED
      BY <3>3, Zenon DEF T!LowestSetBit
  <2> QED
    BY <2>1, <2>2, Zenon
<1>5. wider \in Uint128 /\ Whole(wider) = Whole(mask) \cup w
  BY BitwiseIs
<1>6. /\ Xor(left, bit) \in Uint128 /\ v = w \ {low}
      /\ Cardinality(Whole(left)) \in Nat /\ Cardinality(Whole(Xor(left, bit))) \in Nat
      /\ Cardinality(Whole(Xor(left, bit))) < Cardinality(Whole(left))
  BY <1>2, <1>4, OneBitLess
<1>7. PeeledParts(addr, Whole(mask), Whole(left)) = {HalfPart(addr, b, F(b)) : b \in w}
  BY Zenon DEF PeeledParts
<1>8. PeeledParts(addr, Whole(mask), v) = {HalfPart(addr, b, G(b)) : b \in v}
  BY Zenon DEF PeeledParts
<1>9. [addr |-> And(Xor(addr, bit), wider), mask |-> wider] = HalfPart(addr, low, Whole(wider))
  <2>1. /\ low \in 0 .. (2 * H - 1) /\ bit \in Uint128 /\ wider \in Uint128
        /\ Whole(bit) = {low}
    BY <1>3, <1>4, <1>5
  <2> HIDE DEF w, v, F, G
  <2> QED
    BY <2>1, PeeledPart
<1>10. F(low) = Whole(wider)
  <2>1. {j \in w : j >= low} = w
    BY <1>2, <1>3
  <2> QED
    BY <1>5, <2>1, Zenon
<1>11. ASSUME NEW b \in v PROVE F(b) = G(b)
  <2>1. b \in w /\ b # low /\ b \in Int
    BY <1>3, <1>6
  <2>2. ~(low >= b)
    BY <1>2, <1>3, <2>1
  <2>3. {j \in w : j >= b} = {j \in v : j >= b}
    BY <1>6, <2>2
  <2> QED
    BY <2>3
<1> HIDE DEF w, v, F, G
<1>12. w = v \cup {low}
  BY <1>2, <1>6 DEF w
<1>13. {HalfPart(addr, b, F(b)) : b \in w} =
         {HalfPart(addr, low, F(low))} \cup {HalfPart(addr, b, G(b)) : b \in v}
  <2>1. ASSUME NEW b \in v PROVE HalfPart(addr, b, F(b)) = HalfPart(addr, b, G(b))
    BY <1>11, Zenon
  <2>2. ASSUME NEW x PROVE (\E b \in w : x = HalfPart(addr, b, F(b))) <=>
                             \/ x = HalfPart(addr, low, F(low))
                             \/ \E b \in v : x = HalfPart(addr, b, G(b))
    BY <1>12, <2>1, Zenon
  <2> QED
    BY <2>2, Zenon
<1>14. HalfPart(addr, low, F(low)) = [addr |-> And(Xor(addr, bit), wider), mask |-> wider]
  BY <1>9, <1>10, Zenon
<1>15. PeeledParts(addr, Whole(mask), Whole(left)) =
         {[addr |-> And(Xor(addr, bit), wider), mask |-> wider]}
           \cup PeeledParts(addr, Whole(mask), Whole(Xor(left, bit)))
  BY <1>7, <1>8, <1>13, <1>14, Zenon DEF v
<1> QED
  BY <1>6, <1>15

LEMMA PeelBackwardIs ==
  ASSUME NEW addr \in Uint128, NEW mask \in Uint128, NEW remaining \in Uint128
  PROVE  PeelBackward(addr, mask, remaining) = PeeledParts(addr, Whole(mask), Whole(remaining))
<1> DEFINE Wide(left) == Or(mask, left)
           First(left) == [addr |-> And(Xor(addr, LowestSetBit(left)), Wide(left)),
                           mask |-> Wide(left)]
           Rest(left) == Xor(left, LowestSetBit(left))
           Eq(f) == f = [left \in Uint128 |->
                           IF IsZero(left) THEN {} ELSE {First(left)} \cup f[Rest(left)]]
           s == CHOOSE f : Eq(f)
           Want(left) == PeeledParts(addr, Whole(mask), Whole(left))
           g == [left \in Uint128 |-> Want(left)]
           Size(left) == Cardinality(Whole(left))
<1>1. PeelBackward(addr, mask, remaining) = s[remaining]
  BY DEF PeelBackward
<1>2. ASSUME NEW left \in Uint128, IsZero(left) PROVE Want(left) = {}
  BY <1>2, NothingToPeel
<1>3. ASSUME NEW left \in Uint128, ~IsZero(left)
      PROVE  /\ Rest(left) \in Uint128 /\ Want(left) = {First(left)} \cup Want(Rest(left))
             /\ Size(left) \in Nat /\ Size(Rest(left)) \in Nat
             /\ Size(Rest(left)) < Size(left)
  BY <1>3, LowestPeelsOff
<1> HIDE DEF First, Rest, Want, Size, Wide
<1>4. Eq(g)
  <2>1. ASSUME NEW left \in Uint128
        PROVE  g[left] = IF IsZero(left) THEN {} ELSE {First(left)} \cup g[Rest(left)]
    <3>1. CASE IsZero(left)
      BY <1>2, <3>1
    <3>2. CASE ~IsZero(left)
      <4>1. Rest(left) \in Uint128 /\ Want(left) = {First(left)} \cup Want(Rest(left))
        BY <1>3, <3>2
      <4>2. g[left] = Want(left) /\ g[Rest(left)] = Want(Rest(left))
        BY <4>1
      <4> HIDE DEF g
      <4> QED
        BY <3>2, <4>1, <4>2, Zenon
    <3> QED
      BY <3>1, <3>2
  <2> QED
    BY <2>1
<1>5. Eq(s)
  BY <1>4
<1> HIDE DEF s, g
<1>6. ASSUME NEW left \in Uint128
      PROVE  s[left] = IF IsZero(left) THEN {} ELSE {First(left)} \cup s[Rest(left)]
  BY <1>5
<1> HIDE DEF Eq
<1>7. \A left \in Uint128 : s[left] = Want(left)
  <2> DEFINE Bad == {left \in Uint128 : s[left] # Want(left)}
             Sizes == {Size(left) : left \in Bad}
  <2> SUFFICES ASSUME Bad # {} PROVE FALSE
    OBVIOUS
  <2>1. \A left \in Bad : left \in Uint128 /\ ~IsZero(left)
    <3>1. ASSUME NEW left \in Uint128, IsZero(left) PROVE s[left] = Want(left)
      <4>1. s[left] = {} /\ Want(left) = {}
        BY <1>2, <1>6, <3>1
      <4> QED
        BY <4>1
    <3> QED
      BY <3>1
  <2>2. Sizes \subseteq Nat /\ Sizes # {}
    BY <1>3, <2>1
  <2>3. PICK k \in Sizes : \A j \in Sizes : k <= j
    BY <2>2, Widths, T!LeastNatural
  <2>4. PICK left \in Bad : k = Size(left)
    BY <2>3
  <2>5. /\ left \in Uint128 /\ ~IsZero(left)
        /\ Rest(left) \in Uint128 /\ Want(left) = {First(left)} \cup Want(Rest(left))
        /\ Size(left) \in Nat /\ Size(Rest(left)) \in Nat /\ Size(Rest(left)) < Size(left)
    BY <1>3, <2>1, <2>4
  <2>6. Rest(left) \notin Bad
    <3> SUFFICES ASSUME Rest(left) \in Bad PROVE FALSE
      OBVIOUS
    <3>1. k <= Size(Rest(left))
      BY <2>3
    <3> QED
      BY <2>4, <2>5, <3>1
  <2>7. s[Rest(left)] = Want(Rest(left))
    BY <2>5, <2>6
  <2>8. s[left] = {First(left)} \cup s[Rest(left)]
    BY <1>6, <2>5
  <2>9. s[left] = Want(left)
    BY <2>5, <2>7, <2>8, Zenon
  <2> QED
    BY <2>4, <2>9
<1> QED
  BY <1>1, <1>7 DEF Want

LEMMA PartsOnWhole ==
  ASSUME NEW m \in Network6, NEW o \in Network6, NEW results,
         results = Parts(m, o, UNION {PeeledParts(i.addr, Whole(m.mask),
                                                  Whole(AndNot(i.mask, m.mask))) :
                                        i \in Intersection6(m, o)})
  PROVE  /\ results \subseteq Network6
         /\ Wholes(results) = T!DifferenceParts(WholeNet(m), WholeNet(o))
         /\ \A u \in results :
              \/ u = m
              \/ \E b \in Int :
                   Whole(u.mask) = Whole(m.mask)
                                     \cup {j \in Whole(o.mask) \ Whole(m.mask) : j >= b}
<1> DEFINE M == WholeNet(m)
           O == WholeNet(o)
<1>1. /\ m \in Pair /\ m.addr \in Uint128 /\ m.mask \in Uint128
      /\ o \in Pair /\ o.addr \in Uint128 /\ o.mask \in Uint128
      /\ M.addr = Whole(m.addr) /\ M.mask = Whole(m.mask) /\ M \in T!Network
      /\ O.addr = Whole(o.addr) /\ O.mask = Whole(o.mask) /\ O \in T!Network
  <2>1. m \in Pair /\ o \in Pair
    BY DEF Network6
  <2> QED
    BY <2>1, WholeNetIs
<1> HIDE DEF M, O
<1>2. Intersection6(m, o) = {} <=> T!IsDisjoint(M, O)
  <2>1. Intersection6(m, o) = {} <=>
          Whole(m.addr) \cap Whole(o.mask) # Whole(o.addr) \cap Whole(m.mask)
    BY IntersectionOnWhole
  <2>2. T!IsDisjoint(M, O) <=> M.addr \cap O.mask # O.addr \cap M.mask
    BY <1>1, Widths, T!Overlapping
  <2> QED
    BY <1>1, <2>1, <2>2, Zenon
<1>3. CASE Intersection6(m, o) = {}
  <2>1. results = {m}
    BY <1>3 DEF Parts
  <2>2. T!DifferenceParts(M, O) = {M}
    BY <1>2, <1>3 DEF T!DifferenceParts
  <2>3. Wholes({m}) = {M}
    BY DEF Wholes, M
  <2> QED
    BY <2>1, <2>2, <2>3 DEF M, O
<1>4. CASE Intersection6(m, o) # {}
  <2>1. PICK both \in Intersection6(m, o) : Intersection6(m, o) = {both}
    BY <1>4 DEF Intersection6, Only
  <2>2. both.addr = Or(m.addr, o.addr) /\ both.mask = Or(m.mask, o.mask)
    BY <2>1, IntersectionOnWhole
  <2>3. /\ both.addr \in Uint128 /\ Whole(both.addr) = M.addr \cup O.addr
        /\ both.mask \in Uint128 /\ Whole(both.mask) = M.mask \cup O.mask
    <3>1. /\ Or(m.addr, o.addr) \in Uint128 /\ Or(m.mask, o.mask) \in Uint128
          /\ Whole(Or(m.addr, o.addr)) = Whole(m.addr) \cup Whole(o.addr)
          /\ Whole(Or(m.mask, o.mask)) = Whole(m.mask) \cup Whole(o.mask)
      BY <1>1, BitwiseIs
    <3> QED
      BY <1>1, <2>2, <3>1, Zenon
  <2> DEFINE left == AndNot(both.mask, m.mask)
             P == T!Pending(M, O)
             F(b) == M.mask \cup {j \in P : j >= b}
  <2>4. left \in Uint128 /\ Whole(left) = P
    <3>1. left \in Uint128 /\ Whole(left) = Whole(both.mask) \ Whole(m.mask)
      BY <1>1, <2>3, BitwiseIs
    <3>2. P = (M.mask \cup O.mask) \ M.mask
      BY DEF T!Pending
    <3> QED
      BY <1>1, <2>3, <3>1, <3>2, Zenon
  <2>5. results = PeeledParts(both.addr, Whole(m.mask), Whole(left))
    BY <1>4, <2>1 DEF Parts
  <2>6. P = O.mask \ M.mask /\ P \subseteq 0 .. (2 * H - 1) /\ M.mask \in T!Word
    <3>1. M.mask \in T!Word /\ O.mask \in T!Word
      BY <1>1, WholeBits
    <3> QED
      BY <3>1, WordSets DEF T!Pending
  <2> HIDE DEF left, P
  <2>7. results = {HalfPart(both.addr, b, F(b)) : b \in P}
    BY <1>1, <2>4, <2>5, Zenon DEF PeeledParts
  <2>8. ASSUME NEW b \in P
        PROVE  /\ HalfPart(both.addr, b, F(b)) \in Network6
               /\ WholeNet(HalfPart(both.addr, b, F(b))) = T!Part(M.addr \cup O.addr, {b}, F(b))
               /\ Whole(HalfPart(both.addr, b, F(b)).mask) = F(b)
    <3>1. b \in 0 .. (2 * H - 1) /\ F(b) \in T!Word
      BY <2>6, WordSets
    <3> HIDE DEF F
    <3>2. /\ HalfPart(both.addr, b, F(b)) \in Network6
          /\ WholeNet(HalfPart(both.addr, b, F(b))) = T!Part(Whole(both.addr), {b}, F(b))
          /\ Whole(HalfPart(both.addr, b, F(b)).mask) = F(b)
      BY <2>3, <3>1, HalfPartIs
    <3> QED
      BY <2>3, <3>2, Zenon
  <2>9. T!DifferenceParts(M, O) = {T!Part(M.addr \cup O.addr, {b}, F(b)) : b \in P}
    BY <1>2, <1>4, Zenon DEF T!DifferenceParts, P
  <2>10. Wholes(results) = {WholeNet(HalfPart(both.addr, b, F(b))) : b \in P}
    BY <2>7, Zenon DEF Wholes
  <2>11. {WholeNet(HalfPart(both.addr, b, F(b))) : b \in P}
           = {T!Part(M.addr \cup O.addr, {b}, F(b)) : b \in P}
    <3> HIDE DEF F
    <3> QED
      BY <2>8, Zenon
  <2>12. results \subseteq Network6
    BY <2>7, <2>8
  <2>13. ASSUME NEW u \in results
         PROVE  \E b \in Int : Whole(u.mask) = Whole(m.mask)
                                 \cup {j \in Whole(o.mask) \ Whole(m.mask) : j >= b}
    <3>1. PICK b \in P : u = HalfPart(both.addr, b, F(b))
      BY <2>7
    <3>2. Whole(u.mask) = F(b)
      BY <2>8, <3>1, Zenon
    <3>3. F(b) = Whole(m.mask) \cup {j \in Whole(o.mask) \ Whole(m.mask) : j >= b}
      BY <1>1, <2>6, Zenon
    <3>4. b \in Int
      BY <2>6
    <3> QED
      BY <3>2, <3>3, <3>4, Zenon
  <2>14. Wholes(results) = T!DifferenceParts(M, O)
    BY <2>9, <2>10, <2>11, Zenon
  <2> QED
    BY <2>12, <2>13, <2>14 DEF M, O
<1> QED
  BY <1>3, <1>4

(* Peeling from the top and peeling from the bottom make the same parts:   *)
(* those of the difference.                                                *)
LEMMA DifferenceOnWhole ==
  ASSUME NEW m \in Network6, NEW o \in Network6, NEW results,
         results = Difference6(m, o) \/ results = DifferenceBackward6(m, o)
  PROVE  /\ results \subseteq Network6
         /\ Wholes(results) = N!DifferenceParts(WholeNet(m), WholeNet(o))
         /\ UNION {N!Addrs(n) : n \in Wholes(results)} = N!Addrs(WholeNet(m)) \ N!Addrs(WholeNet(o))
         /\ \A u \in results :
              \/ u = m
              \/ \E b \in Int :
                   Whole(u.mask) = Whole(m.mask)
                                     \cup {j \in Whole(o.mask) \ Whole(m.mask) : j >= b}
<1> DEFINE Made(i) == PeeledParts(i.addr, Whole(m.mask), Whole(AndNot(i.mask, m.mask)))
<1>1. ASSUME NEW i \in Intersection6(m, o)
      PROVE  /\ Peel(i.addr, m.mask, AndNot(i.mask, m.mask)) = Made(i)
             /\ PeelBackward(i.addr, m.mask, AndNot(i.mask, m.mask)) = Made(i)
  <2>1. i \in Network6 /\ m \in Pair /\ m.mask \in Uint128
    BY IntersectionOnWhole, WholeNetIs DEF Network6
  <2>2. i \in Pair /\ i.addr \in Uint128 /\ i.mask \in Uint128
    BY <2>1, WholeNetIs DEF Network6
  <2>3. AndNot(i.mask, m.mask) \in Uint128
    BY <2>1, <2>2, BitwiseIs
  <2> QED
    BY <2>1, <2>2, <2>3, PeelIs, PeelBackwardIs
<1> HIDE DEF Made
<1>2. /\ {Peel(i.addr, m.mask, AndNot(i.mask, m.mask)) : i \in Intersection6(m, o)}
           = {Made(i) : i \in Intersection6(m, o)}
      /\ {PeelBackward(i.addr, m.mask, AndNot(i.mask, m.mask)) : i \in Intersection6(m, o)}
           = {Made(i) : i \in Intersection6(m, o)}
  BY <1>1, Zenon
<1>3. /\ Difference6(m, o) = Parts(m, o, UNION {Made(i) : i \in Intersection6(m, o)})
      /\ DifferenceBackward6(m, o) = Parts(m, o, UNION {Made(i) : i \in Intersection6(m, o)})
  BY <1>2, Zenon DEF Difference6, DifferenceBackward6
<1>4. results = Parts(m, o, UNION {Made(i) : i \in Intersection6(m, o)})
  BY <1>3, Zenon
<1>5. /\ results \subseteq Network6
      /\ Wholes(results) = T!DifferenceParts(WholeNet(m), WholeNet(o))
      /\ \A u \in results :
           \/ u = m
           \/ \E b \in Int :
                Whole(u.mask) = Whole(m.mask)
                                  \cup {j \in Whole(o.mask) \ Whole(m.mask) : j >= b}
  <2>1. results = Parts(m, o, UNION {PeeledParts(i.addr, Whole(m.mask),
                                                 Whole(AndNot(i.mask, m.mask))) :
                                       i \in Intersection6(m, o)})
    BY <1>4, Zenon DEF Made
  <2> QED
    BY <2>1, PartsOnWhole
<1>6. WholeNet(m) \in T!Network /\ WholeNet(o) \in T!Network
  BY WholeNetIs DEF Network6
<1>7. UNION {T!Addrs(n) : n \in T!DifferenceParts(WholeNet(m), WholeNet(o))}
        = T!Addrs(WholeNet(m)) \ T!Addrs(WholeNet(o))
  BY <1>6, Widths, T!DifferencePartsCover
<1>8. UNION {N!Addrs(n) : n \in Wholes(results)} = N!Addrs(WholeNet(m)) \ N!Addrs(WholeNet(o))
  <2>1. \A n : N!Addrs(n) = T!Addrs(n)
    BY SameAlgebra
  <2>2. {N!Addrs(n) : n \in Wholes(results)}
          = {T!Addrs(n) : n \in T!DifferenceParts(WholeNet(m), WholeNet(o))}
    BY <1>5, <2>1, Zenon
  <2> QED
    BY <1>7, <2>1, <2>2, Zenon
<1>9. Wholes(results) = N!DifferenceParts(WholeNet(m), WholeNet(o))
  BY <1>5, SameAlgebra, Zenon
<1> QED
  BY <1>5, <1>8, <1>9

-----------------------------------------------------------------------------
(* What stays in the class, and what the class decides                     *)

LEMMA ClassMember ==
  ASSUME NEW n \in BiContiguous
  PROVE  /\ n \in Network6 /\ n \in Pair /\ InClass(n) /\ Stepwise(Whole(n.mask))
         /\ n.addr \in Uint128 /\ n.mask \in Uint128
         /\ WholeNet(n).addr = Whole(n.addr) /\ WholeNet(n).mask = Whole(n.mask)
         /\ WholeNet(n) \in T!Network
         /\ Whole(n.mask) \in T!Word
<1>1. n \in Network6 /\ IsBicontiguous(n) /\ n \in Pair
  BY DEF BiContiguous, Network6
<1>2. InClass(n) /\ Stepwise(Whole(n.mask))
  BY <1>1, ClassIs
<1>3. n.addr \in Uint128 /\ n.mask \in Uint128
  BY <1>1, WholeNetIs
<1>4. Whole(n.mask) \in T!Word
  BY <1>3, WholeBits
<1>5. /\ WholeNet(n).addr = Whole(n.addr) /\ WholeNet(n).mask = Whole(n.mask)
      /\ WholeNet(n) \in T!Network
  BY <1>1, WholeNetIs
<1> QED
  BY <1>1, <1>2, <1>3, <1>4, <1>5

LEMMA ClassOf ==
  ASSUME NEW n \in Network6
  PROVE  /\ n \in BiContiguous <=> InClass(n)
         /\ n \in BiContiguous <=> Stepwise(Whole(n.mask))
  BY ClassIs DEF BiContiguous, Network6

(* What the kernels make of networks of the class is in the class, asked   *)
(* or not.                                                                 *)
LEMMA ClassIsKept ==
  ASSUME NEW m \in BiContiguous, NEW o \in BiContiguous
  PROVE  /\ Intersection6(m, o) \subseteq BiContiguous
         /\ MergeByLowestMaskBit6(m, o) \subseteq BiContiguous
         /\ Supernet6(m) \subseteq BiContiguous
         /\ Difference6(m, o) \subseteq BiContiguous
         /\ DifferenceBackward6(m, o) \subseteq BiContiguous
<1> DEFINE a == Whole(m.mask)
           c == Whole(o.mask)
<1>1. /\ m \in Network6 /\ o \in Network6 /\ m.mask \in Uint128 /\ o.mask \in Uint128
      /\ a \in T!Word /\ c \in T!Word /\ Stepwise(a) /\ Stepwise(c)
  BY ClassMember
<1>2. /\ Stepwise(a \cup c)
      /\ Stepwise(N!ClearLowestSetBit(a))
      /\ \A b \in Int : Stepwise(a \cup {j \in c \ a : j >= b})
  BY <1>1, StepsStay
<1>3. /\ Whole(Or(m.mask, o.mask)) = a \cup c
      /\ Whole(ClearLowestSetBit(m.mask)) = N!ClearLowestSetBit(a)
  BY <1>1, BitwiseIs, ClearLowestIsWhole, SameAlgebra
<1>4. Stepwise(Whole(Or(m.mask, o.mask))) /\ Stepwise(Whole(ClearLowestSetBit(m.mask)))
  BY <1>2, <1>3, Zenon
<1>5. ASSUME NEW u \in Intersection6(m, o) PROVE u \in BiContiguous
  <2>1. u \in Network6 /\ u.mask = Or(m.mask, o.mask)
    BY <1>1, IntersectionOnWhole
  <2>2. Stepwise(Whole(u.mask))
    BY <1>4, <2>1, Zenon
  <2> QED
    BY <2>1, <2>2, ClassOf
<1>6. ASSUME NEW u \in MergeByLowestMaskBit6(m, o) PROVE u \in BiContiguous
  <2>1. u \in Network6 /\ (u = m \/ u = o \/ u.mask = ClearLowestSetBit(m.mask))
    BY <1>1, MergeOnWhole
  <2>2. CASE u.mask = ClearLowestSetBit(m.mask)
    <3>1. Stepwise(Whole(u.mask))
      BY <1>4, <2>2, Zenon
    <3> QED
      BY <2>1, <3>1, ClassOf
  <2> QED
    BY <2>1, <2>2
<1>7. ASSUME NEW u \in Supernet6(m) PROVE u \in BiContiguous
  <2>1. u \in Network6 /\ u.mask = ClearLowestSetBit(m.mask)
    BY <1>1, SupernetOnWhole
  <2>2. Stepwise(Whole(u.mask))
    BY <1>4, <2>1, Zenon
  <2> QED
    BY <2>1, <2>2, ClassOf
<1>8. ASSUME NEW results, results = Difference6(m, o) \/ results = DifferenceBackward6(m, o),
             NEW u \in results
      PROVE  u \in BiContiguous
  <2>1. /\ u \in Network6
        /\ \/ u = m
           \/ \E b \in Int : Whole(u.mask) = Whole(m.mask)
                               \cup {j \in Whole(o.mask) \ Whole(m.mask) : j >= b}
    BY <1>1, <1>8, DifferenceOnWhole
  <2>2. CASE u = m
    BY <2>2
  <2>3. CASE u # m
    <3>1. PICK b \in Int : Whole(u.mask) = a \cup {j \in c \ a : j >= b}
      BY <2>1, <2>3
    <3>2. Stepwise(a \cup {j \in c \ a : j >= b})
      BY <1>2
    <3>3. Stepwise(Whole(u.mask))
      BY <3>1, <3>2, Zenon
    <3> QED
      BY <2>1, <3>3, ClassOf
  <2> QED
    BY <2>2, <2>3
<1> QED
  BY <1>5, <1>6, <1>7, <1>8

(* A block is bi-contiguous.                                               *)
LEMMA BlocksAreInClass ==
  ASSUME NEW n \in Network6, IsContiguousMask(n.mask)
  PROVE  n \in BiContiguous
<1>1. n.mask \in Uint128
  BY WholeNetIs DEF Network6
<1>2. PICK p \in 0 .. (2 * H) : Whole(n.mask) = T!MaskFromPrefix(p)
  BY <1>1, ContiguousIsWhole
<1>3. Whole(n.mask) = {i \in 0 .. (2 * H - 1) : i >= 2 * H - p}
  BY <1>2, Widths DEF T!MaskFromPrefix
<1>4. Stepwise(Whole(n.mask))
  <2>1. ASSUME NEW i \in Whole(n.mask) PROVE i + 1 \in Whole(n.mask) \/ i = 2 * H - 1
    <3>1. i \in 0 .. (2 * H - 1) /\ i >= 2 * H - p /\ H \in Nat
      BY <1>3, Widths
    <3>2. i # 2 * H - 1 => i + 1 \in 0 .. (2 * H - 1) /\ i + 1 >= 2 * H - p
      BY <3>1
    <3> QED
      BY <1>3, <3>2
  <2> QED
    BY <2>1 DEF Stepwise
<1> QED
  BY <1>4, ClassOf

(* The constructor wraps what it makes when the check accepts it.          *)
LEMMA FromIs ==
  ASSUME NEW n \in Pair
  PROVE  BiContiguousFrom(n.addr, n.mask) =
           {x \in BiContiguous : x.mask = n.mask /\ And(n.addr, x.mask) = x.addr}
<1> DEFINE made == FromBits6(n.addr, n.mask)
<1>1. n.addr \in Uint128 /\ n.mask \in Uint128
  BY WholeNetIs
<1>2. /\ made \in Network6 /\ made.mask = n.mask /\ made.addr = And(n.addr, n.mask)
      /\ made \in Pair
  BY <1>1, FromBitsOnWhole DEF Network6
<1> HIDE DEF made
<1>3. \A x \in Pair : x = made <=> x.mask = n.mask /\ And(n.addr, x.mask) = x.addr
  <2> TAKE x \in Pair
  <2>1. x = made <=> x.addr = made.addr /\ x.mask = made.mask
    BY <1>2, WholeNetTells
  <2>2. x.mask = n.mask => And(n.addr, x.mask) = And(n.addr, n.mask)
    BY Zenon
  <2> QED
    BY <1>2, <2>1, <2>2, Zenon
<1>4. BiContiguousFrom(n.addr, n.mask) = Only(IsBicontiguous(made), made)
  BY DEF BiContiguousFrom, BiContiguousFrom6, made
<1>5. made \in BiContiguous <=> IsBicontiguous(made)
  BY <1>2 DEF BiContiguous
<1>6. \A x \in BiContiguous : x \in Pair
  BY ClassMember
<1> QED
  BY <1>3, <1>4, <1>5, <1>6 DEF Only

LEMMA From6Is ==
  ASSUME NEW n \in Network6
  PROVE  /\ BiContiguousFrom6(n) = Only(InClass(n), n)
         /\ BiContiguousFrom6(n) \subseteq BiContiguous
<1>1. n \in Pair
  BY DEF Network6
<1>2. InClass(n) <=> IsBicontiguous(n)
  BY <1>1, ClassIs
<1>3. BiContiguousFrom6(n) = Only(InClass(n), n)
  BY <1>2 DEF BiContiguousFrom6, Only
<1> QED
  BY <1>2, <1>3 DEF Only, BiContiguousFrom6, BiContiguous

(* The widest run of each half, and every mask of the class below.         *)
LEMMA RunsOfHalves ==
  ASSUME NEW x \in U!Word, NEW y \in U!Word
  PROVE  /\ TU!Run(x) \in U!Word /\ TU!Run(x) \subseteq x /\ HalfStep(TU!Run(x))
         /\ HalfStep(y) /\ y \subseteq x => y \subseteq TU!Run(x)
         /\ HalfStep(x) /\ HalfStep(y) => (U!Le(y, x) <=> y \subseteq x)
<1>1. x \in TU!Word /\ y \in TU!Word /\ H \in Nat \ {0}
  BY WordSets, Widths
<1>2. /\ TU!Run(x) \in U!Word /\ TU!Run(x) \subseteq x
      /\ TU!Run(x) \cup TU!SubOne(TU!Run(x)) = TU!Bits
      /\ TU!Run(y) \cup TU!SubOne(TU!Run(y)) = TU!Bits
      /\ \A v \in TU!Word : v \cup TU!SubOne(v) = TU!Bits /\ v \subseteq x => v \subseteq TU!Run(x)
  <2>1. /\ TU!Run(x) \in TU!Word /\ TU!Run(x) \subseteq x
        /\ TU!Run(x) \cup TU!SubOne(TU!Run(x)) = TU!Bits
        /\ \A v \in TU!Word :
              v \cup TU!SubOne(v) = TU!Bits /\ v \subseteq x => v \subseteq TU!Run(x)
    BY <1>1, TU!RunFacts
  <2>2. TU!Run(y) \cup TU!SubOne(TU!Run(y)) = TU!Bits
    BY <1>1, TU!RunFacts
  <2>3. TU!Run(x) \in U!Word
    BY HalfRun
  <2> QED
    BY <2>1, <2>2, <2>3
<1>3. HalfStep(x) <=> x = TU!Run(x)
  BY HalfRun
<1>4. HalfStep(y) <=> y = TU!Run(y)
  BY HalfRun
<1>5. HalfStep(TU!Run(x))
  <2>1. /\ U!MaskFromPrefix(LeadingZeros64(U!Not(x))) = TU!Run(x)
        /\ LeadingZeros64(U!Not(x)) \in 0 .. H
    BY HalfRun
  <2>2. HalfStep(U!MaskFromPrefix(LeadingZeros64(U!Not(x))))
    BY <2>1, HalfRun
  <2> QED
    BY <2>1, <2>2, Zenon
<1>6. HalfStep(y) => y \cup TU!SubOne(y) = TU!Bits
  BY <1>2, <1>4, Zenon
<1>7. HalfStep(x) => x \cup TU!SubOne(x) = TU!Bits
  BY <1>2, <1>3, Zenon
<1>8. HalfStep(y) /\ y \subseteq x => y \subseteq TU!Run(x)
  BY <1>1, <1>2, <1>6
<1>9. U!Le(y, x) <=> TU!Le(y, x)
  BY DEF U!Le, TU!Le, U!Lt, TU!Lt
<1>10. HalfStep(x) /\ HalfStep(y) => (U!Le(y, x) <=> y \subseteq x)
  <2> SUFFICES ASSUME HalfStep(x), HalfStep(y) PROVE U!Le(y, x) <=> y \subseteq x
    OBVIOUS
  <2>1. x \cup TU!SubOne(x) = TU!Bits /\ y \cup TU!SubOne(y) = TU!Bits
    BY <1>6, <1>7
  <2>2. TU!Le(y, x) <=> y \subseteq x
    BY <1>1, <2>1, TU!ContiguousOrder
  <2> QED
    BY <1>9, <2>2
<1> QED
  BY <1>2, <1>5, <1>8, <1>10

(* Within the class, comparing the halves of masks as numbers decides      *)
(* inclusion.                                                              *)
LEMMA ContainsIsExact ==
  ASSUME NEW m \in BiContiguous, NEW o \in BiContiguous
  PROVE  Contains(m, o) <=> N!Addrs(WholeNet(o)) \subseteq N!Addrs(WholeNet(m))
<1>1. /\ m \in Pair /\ o \in Pair /\ m.mask \in Uint128 /\ o.mask \in Uint128
      /\ WholeNet(m) \in T!Network /\ WholeNet(o) \in T!Network
      /\ Stepwise(Whole(m.mask)) /\ Stepwise(Whole(o.mask))
      /\ WholeNet(m).mask = Whole(m.mask) /\ WholeNet(o).mask = Whole(o.mask)
      /\ WholeNet(m).addr = Whole(m.addr) /\ WholeNet(o).addr = Whole(o.addr)
  BY ClassMember
<1>2. /\ m.mask.hi \in U!Word /\ m.mask.lo \in U!Word /\ o.mask.hi \in U!Word
      /\ o.mask.lo \in U!Word
      /\ HalfStep(m.mask.hi) /\ HalfStep(m.mask.lo) /\ HalfStep(o.mask.hi)
      /\ HalfStep(o.mask.lo)
  BY <1>1, StepsOfHalves, HalfFields
<1>3. U!Le(m.mask.hi, o.mask.hi) <=> m.mask.hi \subseteq o.mask.hi
  BY <1>2, RunsOfHalves
<1>4. U!Le(m.mask.lo, o.mask.lo) <=> m.mask.lo \subseteq o.mask.lo
  BY <1>2, RunsOfHalves
<1>5. Whole(m.mask) \subseteq Whole(o.mask) <=>
        m.mask.hi \subseteq o.mask.hi /\ m.mask.lo \subseteq o.mask.lo
  BY <1>1, WholeTells
<1>6. And(o.addr, m.mask) = m.addr <=> Whole(o.addr) \cap Whole(m.mask) = Whole(m.addr)
  BY <1>1, ContainsOnWhole
<1>7. T!Contains(WholeNet(m), WholeNet(o)) <=>
        /\ Whole(o.addr) \cap Whole(m.mask) = Whole(m.addr)
        /\ Whole(m.mask) \subseteq Whole(o.mask)
  <2>1. T!Contains(WholeNet(m), WholeNet(o)) <=>
          /\ Whole(o.addr) \cap Whole(m.mask) = Whole(m.addr)
          /\ Whole(o.mask) \cap Whole(m.mask) = Whole(m.mask)
    BY <1>1, Zenon DEF T!Contains
  <2> QED
    BY <2>1
<1>8. Contains(m, o) <=> T!Contains(WholeNet(m), WholeNet(o))
  BY <1>3, <1>4, <1>5, <1>6, <1>7, Zenon DEF Contains
<1>9. T!Contains(WholeNet(m), WholeNet(o)) <=>
        T!Addrs(WholeNet(o)) \subseteq T!Addrs(WholeNet(m))
  BY <1>1, Widths, T!ContainsIsInclusion
<1>10. \A n : N!Addrs(n) = T!Addrs(n)
  BY SameAlgebra
<1> QED
  BY <1>8, <1>9, <1>10, Zenon

(* ToBiContiguous is the least network of the class above its receiver.    *)
LEMMA WideningIs ==
  ASSUME NEW n \in Network6
  PROVE  {ToBiContiguous(n)} =
           {x \in BiContiguous : N!Contains(WholeNet(x), WholeNet(n)) /\
              \A y \in BiContiguous : N!Contains(WholeNet(y), WholeNet(n)) =>
                                        N!Contains(WholeNet(y), WholeNet(x))}
<1> DEFINE t == ToBiContiguous(n)
           hi == TU!Run(n.mask.hi)
           lo == TU!Run(n.mask.lo)
           Above(x) == T!Contains(WholeNet(x), WholeNet(n))
           Least(x) == \A y \in BiContiguous : Above(y) => T!Contains(WholeNet(y), WholeNet(x))
<1>1. /\ n \in Pair /\ n.addr \in Uint128 /\ n.mask \in Uint128
      /\ n.mask.hi \in U!Word /\ n.mask.lo \in U!Word
      /\ WholeNet(n) \in T!Network
      /\ WholeNet(n).addr = Whole(n.addr) /\ WholeNet(n).mask = Whole(n.mask)
  <2>1. n \in Pair
    BY DEF Network6
  <2> QED
    BY <2>1, WholeNetIs, HalfFields
<1>2. /\ hi \in U!Word /\ lo \in U!Word /\ HalfStep(hi) /\ HalfStep(lo)
      /\ hi \subseteq n.mask.hi /\ lo \subseteq n.mask.lo
  BY <1>1, RunsOfHalves
<1>3. t = FromBits6(n.addr, FromHalves(hi, lo))
  <2>1. HalfPrefixMask(HighPrefixLen(n)) = hi
    <3>1. /\ LeadingZeros64(U!Not(n.mask.hi)) \in 0 .. H
          /\ U!MaskFromPrefix(LeadingZeros64(U!Not(n.mask.hi))) = hi
          /\ \A p \in 0 .. H : HalfPrefixMask(p) = U!MaskFromPrefix(p)
      BY <1>1, HalfRun
    <3> HIDE DEF hi
    <3>2. HalfPrefixMask(LeadingZeros64(U!Not(n.mask.hi))) = hi
      BY <3>1, Zenon
    <3> QED
      BY <3>2, Zenon DEF HighPrefixLen
  <2>2. HalfPrefixMask(LowPrefixLen(n)) = lo
    <3>1. /\ LeadingZeros64(U!Not(n.mask.lo)) \in 0 .. H
          /\ U!MaskFromPrefix(LeadingZeros64(U!Not(n.mask.lo))) = lo
          /\ \A p \in 0 .. H : HalfPrefixMask(p) = U!MaskFromPrefix(p)
      BY <1>1, HalfRun
    <3> HIDE DEF lo
    <3>2. HalfPrefixMask(LeadingZeros64(U!Not(n.mask.lo))) = lo
      BY <3>1, Zenon
    <3> QED
      BY <3>2, Zenon DEF LowPrefixLen
  <2> HIDE DEF hi, lo
  <2> QED
    BY <2>1, <2>2, Zenon DEF ToBiContiguous
<1> HIDE DEF hi, lo
<1>4. /\ FromHalves(hi, lo) \in Uint128 /\ FromHalves(hi, lo).hi = hi
      /\ FromHalves(hi, lo).lo = lo
  BY <1>2, WordSets, FromHalvesIs
<1>5. /\ t \in Network6 /\ t.mask = FromHalves(hi, lo) /\ t.addr = And(n.addr, t.mask)
      /\ t \in Pair /\ t.mask \in Uint128
  <2>1. /\ FromBits6(n.addr, FromHalves(hi, lo)) \in Network6
        /\ FromBits6(n.addr, FromHalves(hi, lo)).mask = FromHalves(hi, lo)
        /\ FromBits6(n.addr, FromHalves(hi, lo)).addr = And(n.addr, FromHalves(hi, lo))
    BY <1>1, <1>4, FromBitsOnWhole
  <2> HIDE DEF t
  <2>2. t \in Network6 /\ t.mask = FromHalves(hi, lo) /\ t.addr = And(n.addr, t.mask)
    BY <1>3, <2>1, Zenon
  <2> QED
    BY <1>4, <2>2 DEF Network6
<1> HIDE DEF t
<1>6. t \in BiContiguous
  <2>1. HalfStep(t.mask.hi) /\ HalfStep(t.mask.lo)
    BY <1>2, <1>4, <1>5
  <2>2. Stepwise(Whole(t.mask))
    BY <1>5, <2>1, StepsOfHalves
  <2> QED
    BY <1>5, <2>2, ClassOf
<1>7. /\ WholeNet(t).addr = Whole(t.addr) /\ WholeNet(t).mask = Whole(t.mask)
      /\ WholeNet(t) \in T!Network
      /\ Whole(t.addr) = Whole(n.addr) \cap Whole(t.mask)
  <2>1. Whole(And(n.addr, t.mask)) = Whole(n.addr) \cap Whole(t.mask)
    BY <1>1, <1>5, BitwiseIs
  <2>2. /\ WholeNet(t).addr = Whole(t.addr) /\ WholeNet(t).mask = Whole(t.mask)
        /\ WholeNet(t) \in T!Network
    BY <1>6, ClassMember
  <2> QED
    BY <1>5, <2>1, <2>2, Zenon
<1>8. Whole(t.mask) \subseteq Whole(n.mask)
  BY <1>1, <1>2, <1>4, <1>5, WholeTells
<1>9. Above(t)
  BY <1>1, <1>7, <1>8 DEF T!Contains
<1>10. Least(t)
  <2> SUFFICES ASSUME NEW y \in BiContiguous, Above(y) PROVE T!Contains(WholeNet(y), WholeNet(t))
    OBVIOUS
  <2>1. /\ y.mask \in Uint128 /\ Stepwise(Whole(y.mask))
        /\ WholeNet(y).addr = Whole(y.addr) /\ WholeNet(y).mask = Whole(y.mask)
    BY ClassMember
  <2>2. /\ Whole(n.addr) \cap Whole(y.mask) = Whole(y.addr)
        /\ Whole(y.mask) \subseteq Whole(n.mask)
    BY <1>1, <2>1 DEF T!Contains
  <2>3. /\ HalfStep(y.mask.hi) /\ HalfStep(y.mask.lo)
        /\ y.mask.hi \in U!Word /\ y.mask.lo \in U!Word
        /\ y.mask.hi \subseteq n.mask.hi /\ y.mask.lo \subseteq n.mask.lo
    BY <1>1, <2>1, <2>2, StepsOfHalves, HalfFields, WholeTells
  <2>4. y.mask.hi \subseteq hi
    BY <1>1, <2>3, RunsOfHalves DEF hi
  <2>5. y.mask.lo \subseteq lo
    BY <1>1, <2>3, RunsOfHalves DEF lo
  <2>6. Whole(y.mask) \subseteq Whole(t.mask)
    BY <1>4, <1>5, <2>1, <2>4, <2>5, WholeTells
  <2> QED
    BY <1>7, <2>1, <2>2, <2>6 DEF T!Contains
<1>11. ASSUME NEW x \in BiContiguous, Above(x), Least(x) PROVE x = t
  <2>1. T!Contains(WholeNet(t), WholeNet(x)) /\ T!Contains(WholeNet(x), WholeNet(t))
    BY <1>6, <1>9, <1>10, <1>11
  <2>2. WholeNet(x) \in T!Network /\ x \in Pair
    BY ClassMember
  <2>3. WholeNet(x) = WholeNet(t)
    BY <1>7, <2>1, <2>2, Widths, T!ContainsAntisymmetric
  <2> QED
    BY <1>5, <2>2, <2>3, WholeNetTells
<1>12. {t} = {x \in BiContiguous : Above(x) /\ Least(x)}
  BY <1>6, <1>9, <1>10, <1>11
<1>13. \A a, b : N!Contains(a, b) <=> T!Contains(a, b)
  BY SameAlgebra
<1>14. \A x \in BiContiguous :
         (Above(x) /\ Least(x)) <=>
           N!Contains(WholeNet(x), WholeNet(n)) /\
              \A y \in BiContiguous : N!Contains(WholeNet(y), WholeNet(n)) =>
                                        N!Contains(WholeNet(y), WholeNet(x))
  BY <1>13, Zenon
<1> HIDE DEF Above, Least
<1>15. {t} = {x \in BiContiguous : N!Contains(WholeNet(x), WholeNet(n)) /\
              \A y \in BiContiguous : N!Contains(WholeNet(y), WholeNet(n)) =>
                                        N!Contains(WholeNet(y), WholeNet(x))}
  BY <1>12, <1>14
<1> QED
  BY <1>15 DEF t

-----------------------------------------------------------------------------
(* The program over bi-contiguous networks                                 *)

(* What the constructor makes of an address and a mask, and the least      *)
(* network of the class above a network.                                   *)
MadeFrom(p) == {n \in BiContiguous : n.mask = p.mask /\ And(p.addr, n.mask) = n.addr}
LeastAbove(o) ==
  {n \in BiContiguous : N!Contains(WholeNet(n), WholeNet(o)) /\
     \A x \in BiContiguous : N!Contains(WholeNet(x), WholeNet(o)) =>
                               N!Contains(WholeNet(x), WholeNet(n))}

(* What KernelsAgree says, call by call.                                   *)
LEMMA AgreementOf ==
  /\ op = "Intersection" =>
       (KernelsAgree <=> Wholes(out) = N!Intersection(WholeNet(recv), WholeNet(arg)))
  /\ op = "MergeByLowestMaskBit" =>
       (KernelsAgree <=> Wholes(out) = N!MergeByLowestMaskBit(WholeNet(recv), WholeNet(arg)))
  /\ op = "Supernet" => (KernelsAgree <=> Wholes(out) = N!Supernet(WholeNet(recv)))
  /\ op \in {"Difference", "DifferenceBackward"} =>
       (KernelsAgree <=>
          /\ Wholes(out) = N!DifferenceParts(WholeNet(recv), WholeNet(arg))
          /\ UNION {N!Addrs(n) : n \in Wholes(out)}
               = N!Addrs(WholeNet(recv)) \ N!Addrs(WholeNet(arg)))
  /\ op = "BiContiguousFrom6" => (KernelsAgree <=> out = Only(InClass(arg), arg))
  /\ op = "BiContiguousFrom" => (KernelsAgree <=> out = MadeFrom(arg))
  /\ op = "ToBiContiguous" => (KernelsAgree <=> out = LeastAbove(arg))
  /\ op = "none" =>
       (KernelsAgree <=>
          /\ held.mask = FromHalves(U!MaskFromPrefix(HighPrefixLen(held)),
                                    U!MaskFromPrefix(LowPrefixLen(held)))
          /\ \A x \in BiContiguous :
               Contains(held, x) <=> N!Addrs(WholeNet(x)) \subseteq N!Addrs(WholeNet(recv)))
  /\ op = "BiContiguousFromContiguous" => KernelsAgree
<1> USE DEF KernelsAgree
<1>1. op = "Intersection" =>
       (KernelsAgree <=> Wholes(out) = N!Intersection(WholeNet(recv), WholeNet(arg)))
  OBVIOUS
<1>2. op = "MergeByLowestMaskBit" =>
       (KernelsAgree <=> Wholes(out) = N!MergeByLowestMaskBit(WholeNet(recv), WholeNet(arg)))
  OBVIOUS
<1>3. op = "Supernet" => (KernelsAgree <=> Wholes(out) = N!Supernet(WholeNet(recv)))
  OBVIOUS
<1>4. op \in {"Difference", "DifferenceBackward"} =>
       (KernelsAgree <=>
          /\ Wholes(out) = N!DifferenceParts(WholeNet(recv), WholeNet(arg))
          /\ UNION {N!Addrs(n) : n \in Wholes(out)}
               = N!Addrs(WholeNet(recv)) \ N!Addrs(WholeNet(arg)))
  OBVIOUS
<1>5. op = "BiContiguousFrom6" => (KernelsAgree <=> out = Only(InClass(arg), arg))
  OBVIOUS
<1>6. op = "BiContiguousFrom" => (KernelsAgree <=> out = MadeFrom(arg))
  BY DEF MadeFrom
<1>7. op = "ToBiContiguous" => (KernelsAgree <=> out = LeastAbove(arg))
  BY DEF LeastAbove
<1>8. op = "none" =>
       (KernelsAgree <=>
          /\ held.mask = FromHalves(U!MaskFromPrefix(HighPrefixLen(held)),
                                    U!MaskFromPrefix(LowPrefixLen(held)))
          /\ \A x \in BiContiguous :
               Contains(held, x) <=> N!Addrs(WholeNet(x)) \subseteq N!Addrs(WholeNet(recv)))
  OBVIOUS
<1>9. op = "BiContiguousFromContiguous" => KernelsAgree
  OBVIOUS
<1> HIDE DEF KernelsAgree
<1> QED
  BY <1>1, <1>2, <1>3, <1>4, <1>5, <1>6, <1>7, <1>8, <1>9, Zenon

(* The inductive invariant: everything held or answered is in the class,   *)
(* between calls the receiver is what is held, and the answers agree.      *)
ClassInv ==
  /\ held \in BiContiguous
  /\ out \subseteq BiContiguous
  /\ op = "none" => recv = held
  /\ KernelsAgree

LEMMA Returned ==
  ASSUME held \in BiContiguous, NEW o, NEW results, results \subseteq BiContiguous,
         Return(o, results), op' # "none"
  PROVE  /\ recv' = held /\ arg' = o /\ out' = results
         /\ KernelsAgree' => ClassInv'
<1>1. held' \in BiContiguous /\ out' \subseteq BiContiguous
  BY DEF Return
<1>2. recv' = held /\ arg' = o /\ out' = results
  BY DEF Return
<1> QED
  BY <1>1, <1>2 DEF ClassInv

LEMMA CallIntersectionKeeps ==
  ASSUME ClassInv, CallIntersection
  PROVE  ClassInv'
<1>1. PICK o \in BiContiguous : Return(o, Intersection6(held, o))
  BY DEF CallIntersection, With
<1>2. op' = "Intersection" /\ held \in BiContiguous
  BY DEF CallIntersection, With, ClassInv
<1>3. /\ Intersection6(held, o) \subseteq BiContiguous
      /\ Wholes(Intersection6(held, o)) = N!Intersection(WholeNet(held), WholeNet(o))
  BY <1>2, ClassIsKept, ClassMember, IntersectionOnWhole
<1>4. (op = "Intersection" =>
         (KernelsAgree <=> Wholes(out) = N!Intersection(WholeNet(recv), WholeNet(arg))))'
  BY AgreementOf, PTL
<1>5. /\ recv' = held /\ arg' = o /\ out' = Intersection6(held, o)
      /\ KernelsAgree' => ClassInv'
  BY <1>1, <1>2, <1>3, Returned
<1>6. Wholes(out') = N!Intersection(WholeNet(recv'), WholeNet(arg'))
  BY <1>3, <1>5, Zenon
<1> QED
  BY <1>2, <1>4, <1>5, <1>6

LEMMA CallMergeKeeps ==
  ASSUME ClassInv, CallMergeByLowestMaskBit
  PROVE  ClassInv'
<1>1. PICK o \in BiContiguous : Return(o, MergeByLowestMaskBit6(held, o))
  BY DEF CallMergeByLowestMaskBit, With
<1>2. op' = "MergeByLowestMaskBit" /\ held \in BiContiguous
  BY DEF CallMergeByLowestMaskBit, With, ClassInv
<1>3. /\ MergeByLowestMaskBit6(held, o) \subseteq BiContiguous
      /\ Wholes(MergeByLowestMaskBit6(held, o))
           = N!MergeByLowestMaskBit(WholeNet(held), WholeNet(o))
  BY <1>2, ClassIsKept, ClassMember, MergeOnWhole
<1>4. (op = "MergeByLowestMaskBit" =>
         (KernelsAgree <=> Wholes(out) = N!MergeByLowestMaskBit(WholeNet(recv), WholeNet(arg))))'
  BY AgreementOf, PTL
<1>5. /\ recv' = held /\ arg' = o /\ out' = MergeByLowestMaskBit6(held, o)
      /\ KernelsAgree' => ClassInv'
  BY <1>1, <1>2, <1>3, Returned
<1>6. Wholes(out') = N!MergeByLowestMaskBit(WholeNet(recv'), WholeNet(arg'))
  BY <1>3, <1>5, Zenon
<1> QED
  BY <1>2, <1>4, <1>5, <1>6

LEMMA CallSupernetKeeps ==
  ASSUME ClassInv, CallSupernet
  PROVE  ClassInv'
<1>1. op' = "Supernet" /\ Return(held, Supernet6(held)) /\ held \in BiContiguous
  BY DEF CallSupernet, ClassInv
<1>2. /\ Supernet6(held) \subseteq BiContiguous
      /\ Wholes(Supernet6(held)) = N!Supernet(WholeNet(held))
  BY <1>1, ClassIsKept, ClassMember, SupernetOnWhole
<1>3. (op = "Supernet" => (KernelsAgree <=> Wholes(out) = N!Supernet(WholeNet(recv))))'
  BY AgreementOf, PTL
<1>4. /\ recv' = held /\ arg' = held /\ out' = Supernet6(held)
      /\ KernelsAgree' => ClassInv'
  BY <1>1, <1>2, Returned
<1>5. Wholes(out') = N!Supernet(WholeNet(recv'))
  BY <1>2, <1>4, Zenon
<1> QED
  BY <1>1, <1>3, <1>4, <1>5

LEMMA CallDifferenceKeeps ==
  ASSUME ClassInv, CallDifference \/ CallDifferenceBackward
  PROVE  ClassInv'
<1>1. held \in BiContiguous
  BY DEF ClassInv
<1>0. PICK o \in BiContiguous :
        \E results : /\ results = Difference6(held, o) \/ results = DifferenceBackward6(held, o)
                     /\ op' \in {"Difference", "DifferenceBackward"}
                     /\ Return(o, results)
  BY DEF CallDifference, CallDifferenceBackward, With
<1>2. PICK results :
        /\ results = Difference6(held, o) \/ results = DifferenceBackward6(held, o)
        /\ op' \in {"Difference", "DifferenceBackward"}
        /\ Return(o, results)
  BY <1>0
<1>3. /\ results \subseteq BiContiguous
      /\ Wholes(results) = N!DifferenceParts(WholeNet(held), WholeNet(o))
      /\ UNION {N!Addrs(n) : n \in Wholes(results)}
           = N!Addrs(WholeNet(held)) \ N!Addrs(WholeNet(o))
  <2>1. held \in Network6 /\ o \in Network6
    BY <1>1, ClassMember
  <2>2. results = Difference6(held, o) \/ results = DifferenceBackward6(held, o)
    BY <1>2
  <2>3. results \subseteq BiContiguous
    BY <1>1, <2>2, ClassIsKept
  <2> QED
    BY <2>1, <2>2, <2>3, DifferenceOnWhole
<1>4. (op \in {"Difference", "DifferenceBackward"} =>
         (KernelsAgree <=>
            /\ Wholes(out) = N!DifferenceParts(WholeNet(recv), WholeNet(arg))
            /\ UNION {N!Addrs(n) : n \in Wholes(out)}
                 = N!Addrs(WholeNet(recv)) \ N!Addrs(WholeNet(arg))))'
  BY AgreementOf, PTL
<1>5. /\ recv' = held /\ arg' = o /\ out' = results
      /\ KernelsAgree' => ClassInv'
  <2>1. op' # "none"
    BY <1>2
  <2> QED
    BY <1>1, <1>2, <1>3, <2>1, Returned
<1>6. /\ Wholes(out') = N!DifferenceParts(WholeNet(recv'), WholeNet(arg'))
      /\ UNION {N!Addrs(n) : n \in Wholes(out')} = N!Addrs(WholeNet(recv')) \ N!Addrs(WholeNet(arg'))
  BY <1>3, <1>5, Zenon
<1> QED
  BY <1>2, <1>4, <1>5, <1>6

LEMMA CallFromKeeps ==
  ASSUME ClassInv, CallBiContiguousFrom
  PROVE  ClassInv'
<1>1. PICK p \in Pair : Return(p, BiContiguousFrom(p.addr, p.mask))
  BY DEF CallBiContiguousFrom, Convert
<1>2. op' = "BiContiguousFrom" /\ held \in BiContiguous
  BY DEF CallBiContiguousFrom, Convert, ClassInv
<1>3. BiContiguousFrom(p.addr, p.mask) = MadeFrom(p)
  BY FromIs DEF MadeFrom
<1>4. (op = "BiContiguousFrom" => (KernelsAgree <=> out = MadeFrom(arg)))'
  BY AgreementOf, PTL
<1>5. /\ recv' = held /\ arg' = p /\ out' = BiContiguousFrom(p.addr, p.mask)
      /\ KernelsAgree' => ClassInv'
  <2>1. BiContiguousFrom(p.addr, p.mask) \subseteq BiContiguous
    BY <1>3 DEF MadeFrom
  <2> QED
    BY <1>1, <1>2, <2>1, Returned
<1>6. out' = MadeFrom(arg')
  BY <1>3, <1>5, Zenon
<1> QED
  BY <1>2, <1>4, <1>5, <1>6

LEMMA CallFrom6Keeps ==
  ASSUME ClassInv, CallBiContiguousFrom6
  PROVE  ClassInv'
<1>1. PICK n \in Network6 : Return(n, BiContiguousFrom6(n))
  BY DEF CallBiContiguousFrom6, Convert
<1>2. op' = "BiContiguousFrom6" /\ held \in BiContiguous
  BY DEF CallBiContiguousFrom6, Convert, ClassInv
<1>3. /\ BiContiguousFrom6(n) = Only(InClass(n), n)
      /\ BiContiguousFrom6(n) \subseteq BiContiguous
  BY From6Is
<1>4. (op = "BiContiguousFrom6" => (KernelsAgree <=> out = Only(InClass(arg), arg)))'
  BY AgreementOf, PTL
<1>5. /\ recv' = held /\ arg' = n /\ out' = BiContiguousFrom6(n)
      /\ KernelsAgree' => ClassInv'
  BY <1>1, <1>2, <1>3, Returned
<1>6. out' = Only(InClass(arg'), arg')
  BY <1>3, <1>5, Zenon
<1> QED
  BY <1>2, <1>4, <1>5, <1>6

LEMMA CallToBiContiguousKeeps ==
  ASSUME ClassInv, CallToBiContiguous
  PROVE  ClassInv'
<1>1. PICK p \in Network6 : Return(p, {ToBiContiguous(p)})
  BY DEF CallToBiContiguous, Convert
<1>2. op' = "ToBiContiguous" /\ held \in BiContiguous
  BY DEF CallToBiContiguous, Convert, ClassInv
<1>3. {ToBiContiguous(p)} = LeastAbove(p)
  BY WideningIs, Zenon DEF LeastAbove
<1>4. (op = "ToBiContiguous" => (KernelsAgree <=> out = LeastAbove(arg)))'
  BY AgreementOf, PTL
<1>5. /\ recv' = held /\ arg' = p /\ out' = {ToBiContiguous(p)}
      /\ KernelsAgree' => ClassInv'
  <2>1. {ToBiContiguous(p)} \subseteq BiContiguous
    BY <1>3 DEF LeastAbove
  <2> QED
    BY <1>1, <1>2, <2>1, Returned
<1>6. out' = LeastAbove(arg')
  BY <1>3, <1>5, Zenon
<1> QED
  BY <1>2, <1>4, <1>5, <1>6

LEMMA CallFromContiguousKeeps ==
  ASSUME ClassInv, CallBiContiguousFromContiguous
  PROVE  ClassInv'
<1>1. PICK n \in {x \in Network6 : IsContiguousMask(x.mask)} : Return(n, {n})
  BY DEF CallBiContiguousFromContiguous, Convert
<1>2. op' = "BiContiguousFromContiguous" /\ held \in BiContiguous
  BY DEF CallBiContiguousFromContiguous, Convert, ClassInv
<1>3. {n} \subseteq BiContiguous
  BY BlocksAreInClass
<1>4. (op = "BiContiguousFromContiguous" => KernelsAgree)'
  BY AgreementOf, PTL
<1>5. KernelsAgree' => ClassInv'
  BY <1>1, <1>2, <1>3, Returned
<1> QED
  BY <1>2, <1>4, <1>5

(* Between calls: the class and its inclusion test.                        *)
LEMMA HeldAgrees ==
  ASSUME held \in BiContiguous, recv = held, op = "none"
  PROVE  KernelsAgree
<1>1. held.mask = FromHalves(U!MaskFromPrefix(HighPrefixLen(held)),
                             U!MaskFromPrefix(LowPrefixLen(held)))
  BY ClassMember, ClassIs
<1>2. \A x \in BiContiguous :
        Contains(held, x) <=> N!Addrs(WholeNet(x)) \subseteq N!Addrs(WholeNet(held))
  BY ContainsIsExact
<1>3. op = "none" =>
       (KernelsAgree <=>
          /\ held.mask = FromHalves(U!MaskFromPrefix(HighPrefixLen(held)),
                                    U!MaskFromPrefix(LowPrefixLen(held)))
          /\ \A x \in BiContiguous :
               Contains(held, x) <=> N!Addrs(WholeNet(x)) \subseteq N!Addrs(WholeNet(recv)))
  BY AgreementOf, PTL
<1> QED
  BY <1>1, <1>2, <1>3, Zenon

LEMMA ContinueKeeps ==
  ASSUME ClassInv, Continue
  PROVE  ClassInv'
<1>1. (held \in BiContiguous /\ recv = held /\ op = "none" => KernelsAgree)'
  BY HeldAgrees, PTL
<1> QED
  BY <1>1 DEF ClassInv, Continue

(* For every width of a half: whatever a program over bi-contiguous        *)
(* networks calls, what it holds and what it is given stays in the class,  *)
(* and every kernel over halves answers as the algebra of whole words.     *)
THEOREM ClassIsSafe == Spec => []ClassInv
<1>1. Init => ClassInv
  BY HeldAgrees DEF Init, ClassInv
<1>2. ClassInv /\ [Next]_vars => ClassInv'
  <2> SUFFICES ASSUME ClassInv, [Next]_vars PROVE ClassInv'
    OBVIOUS
  <2>1. CASE CallIntersection
    BY <2>1, CallIntersectionKeeps
  <2>2. CASE CallMergeByLowestMaskBit
    BY <2>2, CallMergeKeeps
  <2>3. CASE CallDifference \/ CallDifferenceBackward
    BY <2>3, CallDifferenceKeeps
  <2>4. CASE CallSupernet
    BY <2>4, CallSupernetKeeps
  <2>5. CASE CallBiContiguousFrom
    BY <2>5, CallFromKeeps
  <2>6. CASE CallBiContiguousFrom6
    BY <2>6, CallFrom6Keeps
  <2>7. CASE CallToBiContiguous
    BY <2>7, CallToBiContiguousKeeps
  <2>8. CASE CallBiContiguousFromContiguous
    BY <2>8, CallFromContiguousKeeps
  <2>9. CASE Continue
    BY <2>9, ContinueKeeps
  <2>10. CASE UNCHANGED vars
    <3>1. (KernelsAgree)' <=> KernelsAgree
      BY <2>10 DEF vars, KernelsAgree
    <3> QED
      BY <2>10, <3>1 DEF vars, ClassInv
  <2> QED
    BY <2>1, <2>2, <2>3, <2>4, <2>5, <2>6, <2>7, <2>8, <2>9, <2>10 DEF Next
<1> QED
  BY <1>1, <1>2, PTL DEF Spec

(* Every network a wrapper holds is normalized and in its class, although  *)
(* only BiContiguousFrom6 asks (bicontiguous.go).                          *)
THEOREM WrappedStayInClass == Spec => []TypeOK
<1>1. ClassInv => TypeOK
  BY ClassMember DEF ClassInv, TypeOK
<1> QED
  BY <1>1, ClassIsSafe, PTL

(* The IPv6 kernels over words in two halves, the check for the class, the *)
(* widening into it and its inclusion test answer as over whole words.     *)
THEOREM HalvesAgree == Spec => []KernelsAgree
<1>1. ClassInv => KernelsAgree
  BY DEF ClassInv
<1> QED
  BY <1>1, ClassIsSafe, PTL

=============================================================================
