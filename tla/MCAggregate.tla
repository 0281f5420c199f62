---------------------------- MODULE MCAggregate ----------------------------
(* Inputs for TLC.  MaxLen bounds the length of the slice.                 *)
EXTENDS Aggregate, WordsReference

CONSTANT MaxLen

(* Every bag of n networks, given in descending order so that the sort has *)
(* the most to do; after the sort every order of the bag behaves alike.    *)
BagsOf(n) ==
  {a \in [0 .. (n - 1) -> Network] : \A i \in 1 .. (n - 1) : ~Before(a[i - 1], a[i])}

Descending == BagsOf(0) \cup BagsOf(1) \cup BagsOf(2) \cup BagsOf(3) \cup BagsOf(MaxLen)

(* One network cut in two, three times over, and any fifth network: there  *)
(* the merges go on below the survivor that grew while a candidate waits.  *)
CutAt(n, i) == {[n EXCEPT !.mask = @ \cup {i}], [addr |-> n.addr \cup {i}, mask |-> n.mask \cup {i}]}
Cuts(tiles) == UNION {{(tiles \ {n}) \cup CutAt(n, i) : i \in Bits \ n.mask} : n \in tiles}
Tilings == UNION {UNION {Cuts(s) : s \in Cuts(t)} : t \in UNION {Cuts({n}) : n \in Network}}

Listed(tiles) ==
  [i \in 0 .. 3 |-> CHOOSE n \in tiles : Cardinality({m \in tiles : Before(n, m)}) = i]

TiledAndOne == {[i \in 0 .. 4 |-> IF i < 4 THEN Listed(t)[i] ELSE n] : t \in Tilings, n \in Network}

Offered == Descending \cup TiledAndOne
=============================================================================
