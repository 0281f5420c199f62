------------------------------- MODULE Words -------------------------------
(***************************************************************************)
(* Machine words of W bits.  A word is the SET of the positions of its one *)
(* bits, position 0 being the least significant: the Go operators &, |, ^, *)
(* &^ and ^x of the address kernels (addr4.go, addr6.go) are then          *)
(* intersection, union, symmetric difference, set difference and           *)
(* complement.  W is 32 for IPv4 and 128 for IPv6; nothing depends on its  *)
(* value.  Arithmetic wraps at W bits, as unsigned Go integers do.         *)
(***************************************************************************)
EXTENDS Integers, FiniteSets

CONSTANT W

ASSUME WAssumption == W \in Nat \ {0}

Bits == 0 .. (W - 1)
Word == SUBSET Bits

Not(w) == Bits \ w
Xor(a, b) == (a \ b) \cup (b \ a)

(* w + 1: a bit flips exactly when every bit below it is one, so the       *)
(* all-ones word wraps to zero.                                            *)
AddOne(w) == {i \in Bits : ~((i \in w) <=> (\A j \in 0 .. (i - 1) : j \in w))}

(* w - 1: a bit flips exactly when every bit below it is zero, so zero     *)
(* wraps to the all-ones word.                                             *)
SubOne(w) == {i \in Bits : ~((i \in w) <=> (\A j \in 0 .. (i - 1) : j \notin w))}

(* w & (w - 1) and w & -w                                                  *)
ClearLowestSetBit(w) == w \cap SubOne(w)
LowestSetBit(w) == {i \in w : \A j \in w : i <= j}

(* 1 << (W - 1 - LeadingZeros(w)), for w # {}                              *)
HighestSetBit(w) == {i \in w : \A j \in w : j <= i}

(* The numeric order of unsigned words: the highest bit in which they      *)
(* differ decides.                                                         *)
Lt(a, b) == \E i \in b \ a : \A j \in a \ b : j < i
Le(a, b) == a = b \/ Lt(a, b)

(* LeadingZeros of the complement: the length of the leading run of ones.  *)
LeadingOnes(w) == Cardinality({i \in Bits : i .. (W - 1) \subseteq w})

(* The mask of a prefix length: p leading ones.                            *)
MaskFromPrefix(p) == {i \in Bits : i >= W - p}

(* The integer a word stands for, and back: used where the code turns a    *)
(* word into a count or an index.                                          *)
ToNat(w) ==
  LET sum[i \in 0 .. W] == IF i = 0 THEN 0
                           ELSE sum[i - 1] + (IF i - 1 \in w THEN 2 ^ (i - 1) ELSE 0)
  IN  sum[W]
FromNat(x) == {i \in Bits : (x \div 2 ^ i) % 2 = 1}

(* Sums and differences wrap at W bits.                                    *)
Add(a, b) == FromNat((ToNat(a) + ToNat(b)) % 2 ^ W)
Sub(a, b) == FromNat((ToNat(a) - ToNat(b)) % 2 ^ W)
Neg(a) == Sub({}, a)
=============================================================================
