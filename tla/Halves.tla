------------------------------- MODULE Halves -------------------------------
(***************************************************************************)
(* The two halves of an IPv6 word (uint128.go) and the bi-contiguous class *)
(* (bicontiguous.go): one leading run of mask ones in each half, of any    *)
(* lengths.                                                                *)
(***************************************************************************)
EXTENDS Networks

CONSTANTS HighW, LowW   \* widths of the halves, 64 and 64 in the code

ASSUME WidthAssumption == HighW \in Nat \ {0} /\ LowW \in Nat \ {0} /\ W = HighW + LowW

High(w) == {i \in w : i >= LowW}
Low(w) == {i \in w : i < LowW}

HighMask(p) == {i \in Bits : i >= W - p}
LowMask(p) == {i \in Bits : LowW - p <= i /\ i < LowW}

HighPrefixLen(n) == Cardinality(High(n.mask))
LowPrefixLen(n) == Cardinality(Low(n.mask))

(* A one whose upper neighbour is zero tops a run; every run must top a    *)
(* half.                                                                   *)
IsBicontiguous(n) == {i \in n.mask : i + 1 \notin n.mask} \subseteq {W - 1, LowW - 1}

BiContiguous == {n \in Network : IsBicontiguous(n)}
=============================================================================
