---------------------------- MODULE MCBinarySplit ----------------------------
(* SplitInputs for TLC.                                                    *)
EXTENDS BinarySplit, WordsReference

CONSTANT MaxLen

(* Every slice of up to MaxLen networks in the network order, with         *)
(* duplicates.                                                             *)
SortedSlices ==
  {s \in UNION {[1 .. n -> Network] : n \in 0 .. MaxLen} :
     \A i \in 2 .. Len(s) : ~Before(s[i], s[i - 1])}
=============================================================================
