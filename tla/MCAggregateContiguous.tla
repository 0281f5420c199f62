----------------------- MODULE MCAggregateContiguous -----------------------
(* Inputs for TLC.  MaxLen bounds the length of the slice.                 *)
EXTENDS AggregateContiguous, WordsReference

CONSTANT MaxLen

(* Every bag of n blocks, given in descending order so that the sort has   *)
(* the most to do; after the sort every order of the bag behaves alike.    *)
BagsOf(n) ==
  {a \in [0 .. (n - 1) -> Block] : \A i \in 1 .. (n - 1) : ~Before(a[i - 1], a[i])}

Descending == BagsOf(0) \cup BagsOf(1) \cup BagsOf(2) \cup BagsOf(3) \cup BagsOf(MaxLen)
=============================================================================
