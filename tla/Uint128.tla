------------------------------ MODULE Uint128 ------------------------------
(***************************************************************************)
(* The word type of IPv6 (uint128.go): two halves of H bits, 64 in the     *)
(* code, between which sums, differences and shifts carry.  A half is a    *)
(* machine word of its own.                                                *)
(***************************************************************************)
EXTENDS Integers, FiniteSets, Sequences

CONSTANTS
  H,   \* bits of a half, 64 in the code
  B    \* bits of a byte, a divisor of H

ASSUME HalfAssumption ==
  /\ H \in Nat \ {0}
  /\ B \in Nat \ {0} /\ H % B = 0

U == INSTANCE Words WITH W <- H

Uint128 == [hi : U!Word, lo : U!Word]

FromHalves(hi, lo) == [hi |-> hi, lo |-> lo]
Zero == FromHalves({}, {})

-----------------------------------------------------------------------------
(* math/bits on one half, and the shifts of a Go unsigned integer, which   *)
(* give zero from the width on.                                            *)

Add64(x, y, carry) ==
  LET sum == U!ToNat(x) + U!ToNat(y) + carry
  IN  [word |-> U!FromNat(sum % 2 ^ H), carry |-> sum \div 2 ^ H]
Sub64(x, y, borrow) ==
  LET diff == U!ToNat(x) - U!ToNat(y) - borrow
  IN  [word |-> U!FromNat(diff % 2 ^ H), borrow |-> IF diff < 0 THEN 1 ELSE 0]

LeadingZeros64(x) == Cardinality({i \in U!Bits : \A j \in x : j < i})
TrailingZeros64(x) == Cardinality({i \in U!Bits : \A j \in x : i < j})

Lsh(x, n) == {i \in U!Bits : i - n \in x}
Rsh(x, n) == {i \in U!Bits : i + n \in x}

-----------------------------------------------------------------------------
And(m, o) == FromHalves(m.hi \cap o.hi, m.lo \cap o.lo)
Or(m, o) == FromHalves(m.hi \cup o.hi, m.lo \cup o.lo)
Xor(m, o) == FromHalves(U!Xor(m.hi, o.hi), U!Xor(m.lo, o.lo))
Not(m) == FromHalves(U!Not(m.hi), U!Not(m.lo))
AndNot(m, o) == FromHalves(m.hi \ o.hi, m.lo \ o.lo)

IsZero(m) == m.hi \cup m.lo = {}
IsMax(m) == m.hi \cap m.lo = U!Bits

Compare(m, o) ==
  CASE U!Lt(m.hi, o.hi) \/ (m.hi = o.hi /\ U!Lt(m.lo, o.lo)) -> -1
    [] m = o -> 0
    [] OTHER -> 1

(* Mutant: the carry of the low half lost.                                 *)
AddHalves(m, o) == FromHalves(Add64(m.hi, o.hi, 0).word, Add64(m.lo, o.lo, 0).word)
Add(m, o) ==
  LET low == Add64(m.lo, o.lo, 0)
  IN  FromHalves(Add64(m.hi, o.hi, low.carry).word, low.word)

Sub(m, o) ==
  LET low == Sub64(m.lo, o.lo, 0)
  IN  FromHalves(Sub64(m.hi, o.hi, low.borrow).word, low.word)

AddOne(m) ==
  LET low == Add64(m.lo, {0}, 0)
  IN  FromHalves(U!Add(m.hi, U!FromNat(low.carry)), low.word)
SubOne(m) ==
  LET low == Sub64(m.lo, {0}, 0)
  IN  FromHalves(U!Sub(m.hi, U!FromNat(low.borrow)), low.word)

Neg(m) == Sub(Zero, m)

Shl(m, n) ==
  CASE n = 0 -> m
    [] 0 < n /\ n < H -> FromHalves(Lsh(m.hi, n) \cup Rsh(m.lo, H - n), Lsh(m.lo, n))
    [] H <= n /\ n < 2 * H -> FromHalves(Lsh(m.lo, n - H), {})
    [] OTHER -> Zero
Shr(m, n) ==
  CASE n = 0 -> m
    [] 0 < n /\ n < H -> FromHalves(Rsh(m.hi, n), Rsh(m.lo, n) \cup Lsh(m.hi, H - n))
    [] H <= n /\ n < 2 * H -> FromHalves({}, Rsh(m.hi, n - H))
    [] OTHER -> Zero

LeadingZeros(m) ==
  IF m.hi # {} THEN LeadingZeros64(m.hi) ELSE H + LeadingZeros64(m.lo)
LeadingOnes(m) == LeadingZeros(Not(m))
TrailingZeros(m) ==
  IF m.lo # {} THEN TrailingZeros64(m.lo) ELSE H + TrailingZeros64(m.hi)
OnesCount(m) == Cardinality(m.hi) + Cardinality(m.lo)

LowestSetBit(m) == And(m, Neg(m))
ClearLowestSetBit(m) == And(m, SubOne(m))
IsPowerOfTwo(m) == ~IsZero(m) /\ IsZero(ClearLowestSetBit(m))

Bit(n) == Shl(FromHalves({}, {0}), n)
MaskFromPrefix(bits) == Not(Shr(FromHalves(U!Bits, U!Bits), bits))
IsContiguousMask(m) == IsMax(Or(m, SubOne(m)))

-----------------------------------------------------------------------------
(* The big-endian form.                                                    *)
PutUint64(x) == [k \in 1 .. H \div B |-> {i \in 0 .. B - 1 : H - k * B + i \in x}]
Uint64(bytes) == {i \in U!Bits : i % B \in bytes[(H \div B) - (i \div B)]}

As16(m) == PutUint64(m.hi) \o PutUint64(m.lo)
From16(bytes) ==
  FromHalves(Uint64(SubSeq(bytes, 1, H \div B)),
             Uint64(SubSeq(bytes, (H \div B) + 1, 2 * (H \div B))))

(* The whole word a pair of halves stands for (never computed by the code).*)
Whole(m) == m.lo \cup {i + H : i \in m.hi}
=============================================================================
