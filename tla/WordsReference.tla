--------------------------- MODULE WordsReference ---------------------------
(***************************************************************************)
(* The bit-set operations of Words against the unsigned integers they      *)
(* stand for, modulo 2^W.  Every run whose module extends this one has TLC *)
(* evaluate the assumption for the run's W.                                *)
(***************************************************************************)
EXTENDS Words

ASSUME WordsAreModular ==
  \A a, b \in Word :
    /\ FromNat(ToNat(a)) = a
    /\ ToNat(AddOne(a)) = (ToNat(a) + 1) % 2 ^ W
    /\ ToNat(SubOne(a)) = (ToNat(a) - 1) % 2 ^ W
    /\ ToNat(Not(a)) = 2 ^ W - 1 - ToNat(a)
    /\ Lt(a, b) <=> ToNat(a) < ToNat(b)
    /\ Le(a, b) <=> ToNat(a) <= ToNat(b)
    /\ LowestSetBit(a) = a \cap AddOne(Not(a))
    /\ MaskFromPrefix(LeadingOnes(a)) \subseteq a
=============================================================================
