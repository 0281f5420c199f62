----------------------- MODULE MCAggregateBiContiguous -----------------------
(* Inputs for TLC.  MaxLen is the length of the slice.                     *)
EXTENDS AggregateBiContiguous, WordsReference

CONSTANT MaxLen

(* Any high half, over a low half that is one of three: the lowest         *)
(* address, its buddy, or the upper half.  Together they tile the low      *)
(* word, so they merge in two steps.                                       *)
LowShapes ==
  {[addr |-> {}, mask |-> LowMask(LowW)],
   [addr |-> {0}, mask |-> LowMask(LowW)],
   [addr |-> {LowW - 1}, mask |-> LowMask(1)]}

Offered ==
  {n \in BiContiguous : \E l \in LowShapes : Low(n.addr) = l.addr /\ Low(n.mask) = l.mask}

(* One slice for every bag of n of them, n = 1 or MaxLen.  The code sorts  *)
(* a slice before it reads it: one order stands for all.                   *)
OneSlicePerBag ==
  {s \in [1 .. MaxLen -> Offered] \cup [1 .. 1 -> Offered] :
     \A i \in 2 .. Len(s) : ~KeyBefore(MaskAddressKey(s[i]), MaskAddressKey(s[i - 1]))}
=============================================================================
