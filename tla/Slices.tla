------------------------------- MODULE Slices -------------------------------
(***************************************************************************)
(* Slices of networks, indexed from 0 as in Go, and what the aggregations  *)
(* and their properties say of them.                                       *)
(***************************************************************************)
EXTENDS Networks

(* The slices an MC module may offer are of this kind.                     *)
IsSlice(a, Elements) ==
  IsFiniteSet(DOMAIN a) /\ a \in [0 .. (Cardinality(DOMAIN a) - 1) -> Elements]

IndexPermutations(n) ==
  {p \in [0 .. (n - 1) -> 0 .. (n - 1)] : \A j \in 0 .. (n - 1) : \E i \in 0 .. (n - 1) : p[i] = j}

Permuted(a, p) == [i \in DOMAIN a |-> a[p[i]]]

(* Ascending in the network order (net4.go:486).                           *)
Sorted(a) == \A i, j \in DOMAIN a : i < j => ~Before(a[j], a[i])

Highest(S) == CHOOSE i \in S : \A j \in S : j <= i
Lowest(S) == CHOOSE i \in S : \A j \in S : i <= j

(* The addresses the entries at the indices S name, and their bag.         *)
Union(a, S) == UNION {Addrs(a[i]) : i \in S}
BagOf(a, S) == [n \in {a[i] : i \in S} |-> Cardinality({i \in S : a[i] = n})]
=============================================================================
