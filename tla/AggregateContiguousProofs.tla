---------------------- MODULE AggregateContiguousProofs ----------------------
(***************************************************************************)
(* For words of every width and every slice of CIDR blocks, the one pass   *)
(* of AggregateContiguous, which matches a candidate against the last kept *)
(* block only, leaves the smallest cover of the input.                     *)
(***************************************************************************)
EXTENDS AggregateContiguous, NetworkTheorems

(* The candidates not read yet.                                            *)
Rest == IF pc = "next" THEN r .. (Len - 1) ELSE (r + 1) .. (Len - 1)

(* Where the indices stand.                                                *)
Positions ==
  /\ pc = "sort" => w = 1 /\ r = 1 /\ nets = input
  /\ pc \in {"next", "cascade"} => w \in Nat /\ 1 <= r /\ r <= Len
  /\ pc = "cascade" => r < Len

(* What is still to be read is in order and sorts before nothing kept.     *)
RestInOrder ==
  /\ pc \in {"next", "cascade"} =>
       \A j \in Rest : /\ \A i \in 0 .. (w - 1) : ~Before(nets[j], nets[i])
                       /\ \A k \in Rest : j < k => ~Before(nets[k], nets[j])
  /\ pc = "cascade" => \A j \in Rest : ~Before(nets[j], current)

(* The addresses of all that counts.                                       *)
Named == Union(nets, Live \ {-1}) \cup IF pc = "cascade" THEN Addrs(current) ELSE {}

UnionKept == Named = Union(input, Index)

(* The inductive invariant: OnlyTheTopMatters alone says nothing of the    *)
(* candidates to come, whose order is what keeps them off the blocks below *)
(* the last.                                                               *)
CInv == OnlyTheTopMatters /\ Positions /\ RestInOrder /\ UnionKept

LEMMA SameBlocks == Block = Blocks
BY DEF Block, Blocks

LEMMA LenType ==
  ASSUME input \in Inputs
  PROVE  Len \in Nat /\ Index = 0 .. (Len - 1) /\ input \in [Index -> Block]
<1>1. IsFiniteSet(DOMAIN input) /\ input \in [0 .. (Cardinality(DOMAIN input) - 1) -> Block]
  BY InputsAssumption DEF IsSlice
<1>2. Cardinality(DOMAIN input) \in Nat
  BY <1>1, FS_CardinalityType
<1> QED
  BY <1>1, <1>2 DEF Len, Index

(* What the type invariant says of the slice.                              *)
LEMMA Typed ==
  ASSUME CInv
  PROVE  /\ Len \in Nat /\ Index = 0 .. (Len - 1) /\ input \in [Index -> Block]
         /\ nets \in [Index -> Block] /\ current \in Block /\ r \in Nat
         /\ input \in Inputs /\ TypeOK /\ KeptIrreducible
         /\ pc \in {"next", "cascade"} => w \in Nat /\ 1 <= r /\ r <= Len /\ w <= r
         /\ pc = "cascade" => r < Len
BY LenType DEF CInv, OnlyTheTopMatters, TypeOK, Positions

LEMMA InitEstablishes ==
  ASSUME Init
  PROVE  CInv
<1>1. Len \in Nat /\ Index = 0 .. (Len - 1) /\ input \in [Index -> Block]
  BY LenType DEF Init
<1>2. Universe \in Block
  <2>1. {} \in Word /\ Universe \in Network
    BY NetworkMake DEF Universe, Word
  <2>2. \A i \in Bits \ {} : \A j \in {} : ~(j < i)
    OBVIOUS
  <2>3. {} \cup SubOne({}) = Bits
    BY <2>1, <2>2, ContiguousIsUpward
  <2> QED
    BY <2>1, <2>3 DEF Block, IsContiguous, Universe
<1>3. OnlyTheTopMatters
  BY <1>1, <1>2 DEF Init, OnlyTheTopMatters, TypeOK, KeptIrreducible
<1>4. UnionKept
  <2>1. Live \ {-1} = Index
    BY <1>1 DEF Init, Live
  <2> QED
    BY <2>1 DEF Init, UnionKept, Named, Union
<1> QED
  BY <1>3, <1>4 DEF Init, CInv, Positions, RestInOrder

(* A slice of at most one block is its own cover.                          *)
LEMMA ReturnShortPreserves ==
  ASSUME CInv, ReturnShort
  PROVE  CInv'
<1>1. /\ Len \in Nat /\ Index = 0 .. (Len - 1) /\ input \in [Index -> Block]
      /\ nets \in [Index -> Block] /\ current \in Block /\ r \in Nat /\ input \in Inputs
  BY Typed
<1>2. /\ pc = "sort" /\ pc' = "done" /\ w' = Len /\ Len <= 1
      /\ input' = input /\ nets' = nets /\ r' = r /\ current' = current
  BY DEF ReturnShort
<1>3. Len' = Len /\ Index' = Index
  BY <1>2 DEF Len, Index
<1>4. TypeOK'
  BY <1>1, <1>2, <1>3 DEF TypeOK
<1>5. KeptIrreducible'
  BY <1>1, <1>2, <1>3 DEF KeptIrreducible
<1>6. Live \ {-1} = Index /\ Live' \ {-1} = Index
  BY <1>1, <1>2, <1>3 DEF Live
<1>7. UnionKept'
  BY <1>2, <1>3, <1>6 DEF CInv, UnionKept, Named, Union
<1> QED
  BY <1>2, <1>4, <1>5, <1>7 DEF CInv, OnlyTheTopMatters, Positions, RestInOrder

(* Sorting loses no entry, and the first block is kept.                    *)
LEMMA SortPreserves ==
  ASSUME CInv, Sort
  PROVE  CInv'
<1>1. /\ Len \in Nat /\ Index = 0 .. (Len - 1) /\ input \in [Index -> Block]
      /\ nets \in [Index -> Block] /\ current \in Block /\ r \in Nat /\ input \in Inputs
  BY Typed
<1>2. /\ pc = "sort" /\ pc' = "next" /\ Len > 1 /\ w = 1 /\ r = 1 /\ w' = 1 /\ r' = 1
      /\ input' = input /\ current' = current
  BY DEF Sort, CInv, Positions
<1>3. Len' = Len /\ Index' = Index
  BY <1>2 DEF Len, Index
<1>4. PICK p \in [Index -> Index] :
        /\ \A j \in Index : \E i \in Index : p[i] = j
        /\ nets' = [i \in Index |-> nets[p[i]]]
        /\ Sorted(nets')
  <2>1. DOMAIN nets = Index
    BY <1>1
  <2> QED
    BY <1>1, <2>1 DEF Sort, IndexPermutations, Permuted
<1>5. nets' \in [Index -> Block]
  BY <1>1, <1>4
<1>6. TypeOK'
  BY <1>1, <1>2, <1>3, <1>5 DEF TypeOK
<1>7. KeptIrreducible'
  BY <1>1, <1>2 DEF KeptIrreducible
<1>8. \A i, j \in Index : i < j => ~Before(nets'[j], nets'[i])
  BY <1>4, <1>5 DEF Sorted
<1>9. RestInOrder'
  <2>1. Rest' = 1 .. (Len - 1)
    BY <1>2, <1>3 DEF Rest
  <2> QED
    BY <1>1, <1>2, <1>8, <2>1 DEF RestInOrder
<1>10. Live \ {-1} = Index /\ Live' \ {-1} = Index
  BY <1>1, <1>2, <1>3 DEF Live
<1>11. UnionKept'
  <2>1. Union(nets', Index) = Union(nets, Index)
    BY <1>1, <1>4 DEF Union
  <2> QED
    BY <1>2, <1>3, <1>10, <2>1 DEF CInv, UnionKept, Named
<1>12. Positions'
  BY <1>1, <1>2, <1>3 DEF Positions
<1> QED
  BY <1>2, <1>6, <1>7, <1>9, <1>11, <1>12 DEF CInv, OnlyTheTopMatters

(* What is kept below the last block neither meets nor merges with a block *)
(* that does not sort before it.                                           *)
LEMMA BelowTheTop ==
  ASSUME NEW a \in [Index -> Block], KeptIrreducible, pc # "sort", nets = a,
         NEW n \in Nat, n <= w, w \in Nat, w <= Len, Len \in Nat, Index = 0 .. (Len - 1),
         NEW c \in Block, \A i \in 0 .. (n - 1) : ~Before(c, a[i])
  PROVE  \A i \in 0 .. (n - 2) :
           IsDisjoint(a[i], c) /\ MergeByLowestMaskBit(a[i], c) = {}
<1> SUFFICES ASSUME NEW i \in 0 .. (n - 2)
             PROVE  IsDisjoint(a[i], c) /\ MergeByLowestMaskBit(a[i], c) = {}
  OBVIOUS
<1>1. i \in 0 .. (w - 1) /\ n - 1 \in 0 .. (w - 1) /\ i < n - 1 /\ n - 1 \in 0 .. (n - 1)
  OBVIOUS
<1>2. i \in Index /\ n - 1 \in Index
  BY <1>1
<1>3. /\ Before(a[i], a[n - 1]) /\ IsDisjoint(a[i], a[n - 1])
      /\ MergeByLowestMaskBit(a[i], a[n - 1]) = {}
  BY <1>1 DEF KeptIrreducible
<1>4. a[i] \in Blocks /\ a[n - 1] \in Blocks /\ c \in Blocks /\ ~Before(c, a[n - 1])
  BY <1>1, <1>2, SameBlocks
<1> QED
  BY <1>3, <1>4, ApartFromLater, UnmergedWithLater

(* A candidate sorts before nothing kept, so only the last can meet it.    *)
LEMMA TakePreserves ==
  ASSUME CInv, Take
  PROVE  CInv'
<1>1. /\ Len \in Nat /\ Index = 0 .. (Len - 1) /\ input \in [Index -> Block]
      /\ nets \in [Index -> Block] /\ r \in Nat /\ input \in Inputs
      /\ KeptIrreducible /\ TypeOK
  BY Typed
<1>2. /\ pc = "next" /\ pc' = "cascade" /\ r < Len /\ current' = nets[r]
      /\ input' = input /\ nets' = nets /\ w' = w /\ r' = r
  BY DEF Take
<1>3. Len' = Len /\ Index' = Index /\ w \in Nat /\ 1 <= r /\ w <= r /\ r \in Index
  BY <1>1, <1>2, Typed DEF Len, Index
<1>4. TypeOK' /\ KeptIrreducible'
  BY <1>1, <1>2, <1>3 DEF TypeOK, KeptIrreducible
<1>5. Rest = r .. (Len - 1) /\ Rest' = (r + 1) .. (Len - 1)
  BY <1>2, <1>3 DEF Rest
<1>6. \A i \in 0 .. (w - 1) : ~Before(nets[r], nets[i])
  BY <1>1, <1>2, <1>5 DEF CInv, RestInOrder
<1>7. \A i \in 0 .. (w - 2) :
        IsDisjoint(nets[i], nets[r]) /\ MergeByLowestMaskBit(nets[i], nets[r]) = {}
  <2>1. nets[r] \in Block /\ pc # "sort" /\ w <= w /\ w <= Len
    BY <1>1, <1>2, <1>3
  <2> QED
    BY <1>1, <1>3, <1>6, <2>1, BelowTheTop
<1>8. OnlyTheTopMatters'
  BY <1>2, <1>3, <1>4, <1>6, <1>7 DEF OnlyTheTopMatters
<1>9. RestInOrder'
  <2>1. \A j \in Rest' : j \in Rest /\ r < j
    BY <1>1, <1>5
  <2>2. r \in Rest
    BY <1>1, <1>2, <1>5
  <2> QED
    BY <1>2, <2>1, <2>2 DEF CInv, RestInOrder
<1>10. UnionKept'
  <2>1. Live \ {-1} = (0 .. (w - 1)) \cup (r .. (Len - 1))
    BY <1>1, <1>2, <1>3 DEF Live
  <2>2. Live' \ {-1} = (0 .. (w - 1)) \cup ((r + 1) .. (Len - 1))
    BY <1>1, <1>2, <1>3 DEF Live
  <2>3. Live \ {-1} = (Live' \ {-1}) \cup {r}
    BY <1>1, <1>2, <1>3, <2>1, <2>2
  <2>4. Union(nets, Live \ {-1}) = Union(nets, Live' \ {-1}) \cup Addrs(nets[r])
    BY <2>3 DEF Union
  <2> QED
    BY <1>2, <1>3, <2>4 DEF CInv, UnionKept, Named, Union
<1>11. Positions'
  BY <1>1, <1>2, <1>3 DEF Positions
<1> QED
  BY <1>8, <1>9, <1>10, <1>11 DEF CInv

(* One merge: the grown candidate starts where the last block did, so it   *)
(* still sorts after the others, and the one that is last now shields the  *)
(* rest as the old one did.                                                *)
LEMMA CascadePreserves ==
  ASSUME CInv, Cascade
  PROVE  CInv'
<1>1. /\ Len \in Nat /\ Index = 0 .. (Len - 1) /\ input \in [Index -> Block]
      /\ nets \in [Index -> Block] /\ current \in Block /\ r \in Nat /\ input \in Inputs
      /\ KeptIrreducible /\ TypeOK
  BY Typed
<1>2. /\ pc = "cascade" /\ pc' = "cascade" /\ w > 0 /\ w' = w - 1 /\ r' = r
      /\ current' \in MergeByLowestMaskBit(nets[w - 1], current)
      /\ input' = input /\ nets' = nets
  BY DEF Cascade, Top
<1>3. Len' = Len /\ Index' = Index /\ w \in Nat /\ w' \in Nat /\ w <= r /\ r < Len /\ 1 <= r
  BY <1>1, <1>2, Typed DEF Len, Index
<1>4. w - 1 \in Index /\ w - 1 \in 0 .. (w - 1) /\ nets[w - 1] \in Block
  BY <1>1, <1>2, <1>3
<1>5. \A i \in 0 .. (w - 1) : ~Before(current, nets[i])
  BY <1>2 DEF CInv, OnlyTheTopMatters
<1>6. /\ current' \in Block /\ Addrs(current') = Addrs(nets[w - 1]) \cup Addrs(current)
      /\ current'.addr = nets[w - 1].addr
      /\ current' = nets[w - 1] \/ Before(current', nets[w - 1])
  BY <1>1, <1>2, <1>4, <1>5, SameBlocks, MergeStartsAtFirst
<1>7. TypeOK'
  BY <1>1, <1>2, <1>3, <1>6 DEF TypeOK
<1>8. KeptIrreducible'
  <2>1. \A i \in 0 .. (w' - 1) : i \in 0 .. (w - 1)
    BY <1>2, <1>3
  <2>2. /\ pc # "sort" /\ nets' = nets
        /\ \A i, j \in 0 .. (w - 1) :
             i < j => /\ Before(nets[i], nets[j]) /\ IsDisjoint(nets[i], nets[j])
                      /\ MergeByLowestMaskBit(nets[i], nets[j]) = {}
    BY <1>1, <1>2 DEF KeptIrreducible
  <2> QED
    BY <2>1, <2>2 DEF KeptIrreducible
<1>9. \A i \in 0 .. (w' - 1) : ~Before(current', nets[i])
  <2> SUFFICES ASSUME NEW i \in 0 .. (w' - 1) PROVE ~Before(current', nets[i])
    OBVIOUS
  <2>1. i \in 0 .. (w - 1) /\ i < w - 1 /\ i \in Index
    BY <1>1, <1>2, <1>3
  <2>2. Before(nets[i], nets[w - 1]) /\ IsDisjoint(nets[i], nets[w - 1])
    BY <1>1, <1>2, <1>4, <2>1 DEF KeptIrreducible
  <2>3. nets[i] \in Blocks /\ nets[w - 1] \in Blocks /\ current' \in Blocks
    BY <1>1, <1>4, <1>6, <2>1, SameBlocks
  <2> QED
    BY <1>6, <2>2, <2>3, StartsAfter
<1>10. \A i \in 0 .. (w' - 2) :
         IsDisjoint(nets[i], current') /\ MergeByLowestMaskBit(nets[i], current') = {}
  <2>1. pc # "sort" /\ w' <= w /\ w <= Len
    BY <1>1, <1>2, <1>3
  <2> QED
    BY <1>1, <1>3, <1>6, <1>9, <2>1, BelowTheTop
<1>11. OnlyTheTopMatters'
  <2>1. w' <= r'
    BY <1>1, <1>2, <1>3
  <2> QED
    BY <1>2, <1>7, <1>8, <1>9, <1>10, <2>1 DEF OnlyTheTopMatters
<1>12. Rest = (r + 1) .. (Len - 1) /\ Rest' = Rest
  BY <1>2, <1>3 DEF Rest
<1>13. RestInOrder'
  <2>1. \A j \in Rest : /\ \A i \in 0 .. (w - 1) : ~Before(nets[j], nets[i])
                        /\ \A k \in Rest : j < k => ~Before(nets[k], nets[j])
    BY <1>2 DEF CInv, RestInOrder
  <2>2. \A i \in 0 .. (w' - 1) : i \in 0 .. (w - 1)
    BY <1>2, <1>3
  <2>3. ASSUME NEW j \in Rest PROVE ~Before(nets[j], current')
    <3>1. j \in Index /\ nets[j] \in Network /\ nets[w - 1] \in Network /\ current' \in Network
      BY <1>1, <1>3, <1>4, <1>6, <1>12 DEF Block
    <3>2. ~Before(nets[j], nets[w - 1])
      BY <1>4, <2>1, <2>3
    <3> QED
      BY <1>6, <3>1, <3>2, BeforeTransitive
  <2> QED
    BY <1>2, <1>12, <2>1, <2>2, <2>3 DEF RestInOrder
<1>14. UnionKept'
  <2>1. Live \ {-1} = (0 .. (w - 1)) \cup ((r + 1) .. (Len - 1))
    BY <1>1, <1>2, <1>3 DEF Live
  <2>2. Live' \ {-1} = (0 .. (w - 2)) \cup ((r + 1) .. (Len - 1))
    BY <1>1, <1>2, <1>3 DEF Live
  <2>3. Live \ {-1} = (Live' \ {-1}) \cup {w - 1}
    BY <1>1, <1>2, <1>3, <2>1, <2>2
  <2>4. Union(nets, Live \ {-1}) = Union(nets, Live' \ {-1}) \cup Addrs(nets[w - 1])
    BY <2>3 DEF Union
  <2>5. Named = Union(nets, Live \ {-1}) \cup Addrs(current)
    BY <1>2 DEF Named
  <2>6. Named' = Union(nets, Live' \ {-1}) \cup Addrs(current')
    BY <1>2 DEF Named, Union
  <2>7. Named' = Named
    BY <1>6, <2>4, <2>5, <2>6
  <2> QED
    BY <1>2, <1>3, <2>7 DEF CInv, UnionKept, Union
<1>15. Positions'
  BY <1>1, <1>2, <1>3 DEF Positions
<1> QED
  BY <1>11, <1>13, <1>14, <1>15 DEF CInv

(* What no longer merges with the last block lies apart from it, and from  *)
(* those below as well.                                                    *)
LEMMA PlacePreserves ==
  ASSUME CInv, Place
  PROVE  CInv'
<1>1. /\ Len \in Nat /\ Index = 0 .. (Len - 1) /\ input \in [Index -> Block]
      /\ nets \in [Index -> Block] /\ current \in Block /\ r \in Nat /\ input \in Inputs
      /\ KeptIrreducible /\ TypeOK
  BY Typed
<1>2. /\ pc = "cascade" /\ pc' = "next" /\ w' = w + 1 /\ r' = r + 1
      /\ w > 0 => MergeByLowestMaskBit(nets[w - 1], current) = {}
      /\ input' = input /\ current' = current /\ nets' = [nets EXCEPT ![w] = current]
  BY DEF Place, Top
<1>3. Len' = Len /\ Index' = Index /\ w \in Nat /\ w <= r /\ r < Len /\ 1 <= r
  BY <1>1, <1>2, Typed DEF Len, Index
<1>4. w \in Index
  BY <1>1, <1>3
<1>5. /\ nets' \in [Index -> Block] /\ nets'[w] = current
      /\ \A i \in Index : i # w => nets'[i] = nets[i]
  BY <1>1, <1>2, <1>4
<1>6. /\ \A i \in 0 .. (w - 1) : i \in Index /\ i # w /\ nets'[i] = nets[i]
      /\ \A i \in (r + 1) .. (Len - 1) : i \in Index /\ i # w /\ nets'[i] = nets[i]
  BY <1>1, <1>3, <1>5
<1>7. TypeOK'
  BY <1>1, <1>2, <1>3, <1>5 DEF TypeOK
<1>8. ASSUME NEW i \in 0 .. (w - 1)
      PROVE  /\ Before(nets[i], current) /\ IsDisjoint(nets[i], current)
             /\ MergeByLowestMaskBit(nets[i], current) = {}
  <2>1. nets[i] \in Blocks /\ current \in Blocks /\ ~Before(current, nets[i])
    BY <1>1, <1>2, <1>6, <1>8, SameBlocks DEF CInv, OnlyTheTopMatters
  <2>2. MergeByLowestMaskBit(nets[i], current) = {}
    <3>1. CASE i = w - 1
      BY <1>2, <1>3, <1>8, <3>1
    <3>2. CASE i # w - 1
      <4>1. i \in 0 .. (w - 2)
        BY <1>3, <1>8, <3>2
      <4> QED
        BY <1>2, <4>1 DEF CInv, OnlyTheTopMatters
    <3> QED
      BY <3>1, <3>2
  <2> QED
    BY <2>1, <2>2, UnmergedApart
<1>9. KeptIrreducible'
  <2> SUFFICES ASSUME NEW i \in 0 .. w, NEW j \in 0 .. w, i < j
               PROVE  /\ Before(nets'[i], nets'[j])
                      /\ IsDisjoint(nets'[i], nets'[j])
                      /\ MergeByLowestMaskBit(nets'[i], nets'[j]) = {}
    BY <1>2, <1>3 DEF KeptIrreducible
  <2>1. i \in 0 .. (w - 1)
    BY <1>3
  <2>2. CASE j = w
    BY <1>5, <1>6, <1>8, <2>1, <2>2
  <2>3. CASE j # w
    <3>1. j \in 0 .. (w - 1)
      BY <1>3, <2>3
    <3> QED
      BY <1>1, <1>2, <1>6, <2>1, <3>1 DEF KeptIrreducible
  <2> QED
    BY <2>2, <2>3
<1>10. OnlyTheTopMatters'
  BY <1>1, <1>2, <1>3, <1>7, <1>9 DEF OnlyTheTopMatters
<1>11. Rest = (r + 1) .. (Len - 1) /\ Rest' = Rest
  BY <1>2, <1>3 DEF Rest
<1>12. RestInOrder'
  <2>1. \A j \in Rest : /\ \A i \in 0 .. (w - 1) : ~Before(nets[j], nets[i])
                        /\ \A k \in Rest : j < k => ~Before(nets[k], nets[j])
                        /\ ~Before(nets[j], current)
    BY <1>2 DEF CInv, RestInOrder
  <2>2. \A i \in 0 .. (w' - 1) : i \in 0 .. (w - 1) \/ i = w
    BY <1>2, <1>3
  <2> QED
    BY <1>2, <1>5, <1>6, <1>11, <2>1, <2>2 DEF RestInOrder
<1>13. UnionKept'
  <2>1. Live \ {-1} = (0 .. (w - 1)) \cup ((r + 1) .. (Len - 1))
    BY <1>1, <1>2, <1>3 DEF Live
  <2>2. Live' \ {-1} = (0 .. w) \cup ((r + 1) .. (Len - 1))
    BY <1>1, <1>2, <1>3 DEF Live
  <2>3. Live' \ {-1} = (Live \ {-1}) \cup {w}
    BY <1>1, <1>3, <2>1, <2>2
  <2>4. \A i \in Live \ {-1} : nets'[i] = nets[i]
    BY <1>6, <2>1
  <2>5. Union(nets', Live' \ {-1}) = Union(nets, Live \ {-1}) \cup Addrs(current)
    BY <1>5, <2>3, <2>4 DEF Union
  <2>6. Named = Union(nets, Live \ {-1}) \cup Addrs(current)
    BY <1>2 DEF Named
  <2>7. Named' = Union(nets', Live' \ {-1})
    BY <1>2 DEF Named, Union
  <2> QED
    BY <1>2, <1>3, <2>5, <2>6, <2>7 DEF CInv, UnionKept, Union
<1>14. Positions'
  BY <1>1, <1>2, <1>3 DEF Positions
<1> QED
  BY <1>10, <1>12, <1>13, <1>14 DEF CInv

LEMMA ReturnPreserves ==
  ASSUME CInv, Return
  PROVE  CInv'
<1>1. /\ Len \in Nat /\ Index = 0 .. (Len - 1) /\ input \in [Index -> Block]
      /\ nets \in [Index -> Block] /\ current \in Block /\ r \in Nat /\ input \in Inputs
      /\ KeptIrreducible /\ TypeOK
  BY Typed
<1>2. /\ pc = "next" /\ pc' = "done" /\ r = Len
      /\ input' = input /\ nets' = nets /\ w' = w /\ r' = r /\ current' = current
  BY DEF Return
<1>3. Len' = Len /\ Index' = Index /\ w \in Nat /\ w <= r
  BY <1>1, <1>2, Typed DEF Len, Index
<1>4. TypeOK' /\ KeptIrreducible'
  BY <1>1, <1>2, <1>3 DEF TypeOK, KeptIrreducible
<1>5. Live \ {-1} = 0 .. (w - 1) /\ Live' \ {-1} = 0 .. (w - 1)
  BY <1>1, <1>2, <1>3 DEF Live
<1>6. UnionKept'
  BY <1>2, <1>3, <1>5 DEF CInv, UnionKept, Named, Union
<1> QED
  BY <1>2, <1>4, <1>6 DEF CInv, OnlyTheTopMatters, Positions, RestInOrder

-----------------------------------------------------------------------------
(* The theorems                                                            *)

(* Every state of AggregateContiguous (aggregate.go:80) satisfies the      *)
(* inductive invariant: the kept blocks are apart and irreducible, what is *)
(* to come sorts after them, and together they name the input's addresses. *)
THEOREM PassInvariant == Spec => []CInv
<1>1. Init => CInv
  BY InitEstablishes
<1>2. CInv /\ [Next]_vars => CInv'
  <2> SUFFICES ASSUME CInv, [Next]_vars PROVE CInv'
    OBVIOUS
  <2>1. CASE UNCHANGED vars
    BY <2>1 DEF vars, CInv, OnlyTheTopMatters, TypeOK, KeptIrreducible, Positions,
       RestInOrder, Rest, UnionKept, Named, Union, Live, Len, Index
  <2> QED
    BY <2>1, ReturnShortPreserves, SortPreserves, TakePreserves, CascadePreserves,
       PlacePreserves, ReturnPreserves DEF Next
<1> QED
  BY <1>1, <1>2, PTL DEF Spec

(* In every state of the pass, for every slice and every width, all kept   *)
(* blocks but the last lie apart from the candidate and cannot merge with  *)
(* it (aggregate.go:96).                                                   *)
THEOREM LastBlockSuffices == Spec => []OnlyTheTopMatters
<1>1. CInv => OnlyTheTopMatters
  BY DEF CInv
<1> QED
  BY <1>1, PassInvariant, PTL

(* The result is the set of the maximal blocks inside the union of the     *)
(* input, each of them once (aggregate.go:80).                             *)
THEOREM ResultIsMinimal == Spec => []ResultMinimal
<1>1. CInv => ResultMinimal
  <2> SUFFICES ASSUME CInv, pc = "done" PROVE ResultMinimal
    BY DEF ResultMinimal
  <2> DEFINE kept == {nets[i] : i \in 0 .. (w - 1)}
             covered == Union(input, Index)
             inside == {n \in Block : Addrs(n) \subseteq covered}
             maximal == {n \in inside : \A x \in inside : Contains(x, n) => x = n}
  <2>1. /\ Len \in Nat /\ Index = 0 .. (Len - 1) /\ nets \in [Index -> Block]
        /\ w \in 0 .. Len /\ KeptIrreducible
    BY Typed DEF TypeOK
  <2>2. \A i \in 0 .. (w - 1) : i \in Index /\ nets[i] \in Block /\ i \in Int
    BY <2>1
  <2>3. ASSUME NEW i \in 0 .. (w - 1), NEW j \in 0 .. (w - 1), i # j
        PROVE  /\ IsDisjoint(nets[i], nets[j]) /\ nets[i] # nets[j]
               /\ MergeByLowestMaskBit(nets[i], nets[j]) = {}
    <3>1. nets[i] \in Network /\ nets[j] \in Network
      BY <2>2, <2>3 DEF Block
    <3>2. i < j \/ j < i
      BY <2>2, <2>3
    <3>3. CASE i < j
      BY <2>1, <2>3, <3>1, <3>3, BeforeAsymmetric DEF KeptIrreducible
    <3>4. CASE j < i
      <4>1. /\ Before(nets[j], nets[i]) /\ IsDisjoint(nets[j], nets[i])
            /\ MergeByLowestMaskBit(nets[j], nets[i]) = {}
        BY <2>1, <2>3, <3>4 DEF KeptIrreducible
      <4>2. MergeByLowestMaskBit(nets[i], nets[j]) = {}
        BY <2>2, <2>3, <4>1, SameBlocks, LowestMergeSymmetric
      <4> QED
        BY <3>1, <4>1, <4>2, BeforeAsymmetric, Overlapping
    <3> QED
      BY <3>2, <3>3, <3>4
  <2>4. kept \subseteq Blocks /\ Irreducible(kept)
    BY <2>2, <2>3, SameBlocks DEF Irreducible
  <2>5. covered = UNION {Addrs(k) : k \in kept}
    <3>1. Live \ {-1} = 0 .. (w - 1)
      BY <2>1 DEF Live
    <3>2. covered = Union(nets, 0 .. (w - 1))
      BY <3>1 DEF CInv, UnionKept, Named
    <3> QED
      BY <3>2 DEF Union
  <2>6. kept = maximal
    BY <2>4, <2>5, SameBlocks, MaximalBlocks
  <2>7. Cardinality(kept) = w
    <3> DEFINE f == [i \in 0 .. (w - 1) |-> nets[i]]
    <3>1. f \in Bijection(0 .. (w - 1), kept)
      <4>1. f \in [0 .. (w - 1) -> kept]
        OBVIOUS
      <4>2. \A i, j \in 0 .. (w - 1) : f[i] = f[j] => i = j
        BY <2>3
      <4>3. \A k \in kept : \E i \in 0 .. (w - 1) : f[i] = k
        OBVIOUS
      <4> QED
        BY <4>1, <4>2, <4>3 DEF Bijection, Injection, Surjection, IsInjective
    <3>2. IsFiniteSet(0 .. (w - 1)) /\ Cardinality(0 .. (w - 1)) = w
      <4>1. 0 \in Int /\ w - 1 \in Int /\ w \in Int
        BY <2>1
      <4>2. /\ IsFiniteSet(0 .. (w - 1))
            /\ Cardinality(0 .. (w - 1)) = IF 0 > w - 1 THEN 0 ELSE (w - 1) - 0 + 1
        BY <4>1, FS_Interval
      <4> QED
        BY <2>1, <4>2
    <3>3. ExistsBijection(0 .. (w - 1), kept)
      BY <3>1 DEF ExistsBijection
    <3> QED
      BY <3>2, <3>3, FS_Bijection
  <2> QED
    BY <2>6, <2>7 DEF ResultMinimal
<1> QED
  BY <1>1, PassInvariant, PTL

-----------------------------------------------------------------------------
(* The pair of networks a replacement takes out, as counts.                *)
LEMMA TogetherCounts ==
  ASSUME NEW p, NEW q
  PROVE  Abstract!Together(p, q) = [n \in {p, q} |-> IF p = q THEN 2 ELSE 1]
BY DEF Abstract!Together, Abstract!Single, Abstract!SetToBag, Abstract!(+)

(* Two entries that become one: the bag with the pair replaced.            *)
LEMMA Replaced ==
  ASSUME NEW S, IsFiniteSet(S), NEW i \in S, NEW j \in S, i # j, NEW T, T = S \ {j},
         NEW a, NEW b, \A x \in S \ {i, j} : b[x] = a[x]
  PROVE  /\ a[i] \in Abstract!BagToSet(BagOf(a, S)) /\ a[j] \in Abstract!BagToSet(BagOf(a, S))
         /\ Abstract!\sqsubseteq(Abstract!Together(a[i], a[j]), BagOf(a, S))
         /\ BagOf(b, T)
              = Abstract!(+)(Abstract!(-)(BagOf(a, S), Abstract!Together(a[i], a[j])),
                             Abstract!Single(b[i]))
<1> DEFINE F == BagOf(a, S)
           G == BagOf(b, T)
           R == S \ {i, j}
           P == Abstract!Together(a[i], a[j])
           A == {a[x] : x \in S}
           B == {b[x] : x \in T}
           E == Abstract!(+)(Abstract!(-)(F, P), Abstract!Single(b[i]))
           c(n) == Copies(a, R, n)
           cF(n) == Copies(a, S, n)
           cG(n) == Copies(b, T, n)
<1>0. IsFiniteSet(T) /\ i \in T /\ R = T \ {i}
  BY FS_Subset
<1>1. ASSUME NEW n
      PROVE  /\ c(n) \in Nat
             /\ cF(n) = c(n) + (IF a[i] = n THEN 1 ELSE 0) + (IF a[j] = n THEN 1 ELSE 0)
             /\ cG(n) = c(n) + IF b[i] = n THEN 1 ELSE 0
  <2>1. /\ Copies(a, T, n) \in Nat
        /\ cF(n) = Copies(a, T, n) + IF a[j] = n THEN 1 ELSE 0
    BY CountWithout
  <2>2. Copies(b, R, n) = c(n)
    <3>1. {x \in S \ {i, j} : b[x] = n} = {x \in S \ {i, j} : a[x] = n}
      OBVIOUS
    <3> QED
      BY <3>1 DEF Copies
  <2> HIDE DEF R
  <2>3. c(n) \in Nat /\ Copies(a, T, n) = c(n) + IF a[i] = n THEN 1 ELSE 0
    BY <1>0, CountWithout
  <2>4. cG(n) = Copies(b, R, n) + IF b[i] = n THEN 1 ELSE 0
    BY <1>0, CountWithout
  <2> HIDE DEF c, cF, cG
  <2> QED
    BY <2>1, <2>2, <2>3, <2>4
<1>2. \A n : (n \in A <=> cF(n) > 0) /\ (n \in B <=> cG(n) > 0)
  <2>1. \A n : n \in A <=> cF(n) > 0
    BY CountPositive
  <2>2. \A n : n \in B <=> cG(n) > 0
    BY <1>0, CountPositive
  <2> QED
    BY <2>1, <2>2, Zenon
<1>3. F = [n \in A |-> cF(n)] /\ G = [n \in B |-> cG(n)]
  BY DEF BagOf, Copies
<1>4. P = [n \in {a[i], a[j]} |-> IF a[i] = a[j] THEN 2 ELSE 1]
  BY TogetherCounts
<1>5. a[i] \in A /\ a[j] \in A
  OBVIOUS
<1> HIDE DEF F, G, P, R, c, A, B, cF, cG
<1>6. a[i] \in Abstract!BagToSet(F) /\ a[j] \in Abstract!BagToSet(F)
  BY <1>3, <1>5 DEF Abstract!BagToSet
<1>7. Abstract!\sqsubseteq(P, F)
  BY <1>1, <1>3, <1>4, <1>5 DEF Abstract!\sqsubseteq
<1>8. G = E
  <2>1. DOMAIN F = A /\ \A n \in A : F[n] = cF(n)
    BY <1>3
  <2>2. DOMAIN P = {a[i], a[j]} /\ \A n \in {a[i], a[j]} : P[n] = IF a[i] = a[j] THEN 2 ELSE 1
    BY <1>4
  <2> DEFINE left == {n \in A : c(n) > 0}
  <2>3. Abstract!(-)(F, P) = [n \in left |-> c(n)]
    <3> DEFINE D == [e \in DOMAIN F |-> IF e \in DOMAIN P THEN F[e] - P[e] ELSE F[e]]
    <3>1. ASSUME NEW n \in A PROVE D[n] = c(n)
      BY <1>1, <2>1, <2>2, <3>1
    <3>2. DOMAIN D = A
      BY <2>1
    <3>3. Abstract!(-)(F, P) = [e \in {d \in DOMAIN D : D[d] > 0} |-> D[e]]
      BY DEF Abstract!(-)
    <3> HIDE DEF D
    <3>4. {d \in DOMAIN D : D[d] > 0} = left
      BY <3>1, <3>2
    <3> QED
      BY <3>1, <3>3, <3>4
  <2>4. E = [n \in left \cup {b[i]} |-> (IF n \in left THEN c(n) ELSE 0) + IF n = b[i] THEN 1 ELSE 0]
    BY <2>3 DEF Abstract!(+), Abstract!Single, Abstract!SetToBag
  <2>5. ASSUME NEW n PROVE n \in B <=> n \in left \cup {b[i]}
    BY <1>1, <1>2
  <2>6. ASSUME NEW n \in B
        PROVE  cG(n) = (IF n \in left THEN c(n) ELSE 0) + IF n = b[i] THEN 1 ELSE 0
    BY <1>1, <1>2
  <2>7. B = left \cup {b[i]}
    BY <2>5
  <2> HIDE DEF left, E
  <2> QED
    BY <1>3, <2>4, <2>6, <2>7
<1> QED
  BY <1>6, <1>7, <1>8 DEF F, G, P
(* Entries renamed leave the bag as it was.                                *)
LEMMA Renamed ==
  ASSUME NEW S, IsFiniteSet(S), NEW T, NEW a, NEW b, NEW f \in [T -> S],
         \A s \in S : \E t \in T : f[t] = s,
         \A t, v \in T : f[t] = f[v] => t = v,
         \A t \in T : b[t] = a[f[t]]
  PROVE  BagOf(b, T) = BagOf(a, S)
<1>1. /\ {b[t] : t \in T} = {a[s] : s \in S}
      /\ \A n : Copies(b, T, n) = Copies(a, S, n)
  BY CountReindexed
<1>2. BagOf(b, T) = [n \in {b[t] : t \in T} |-> Copies(b, T, n)]
  BY DEF BagOf, Copies
<1>3. BagOf(a, S) = [n \in {a[s] : s \in S} |-> Copies(a, S, n)]
  BY DEF BagOf, Copies
<1> QED
  BY <1>1, <1>2, <1>3

(* The block a merge returns is the one the abstract step unites to.       *)
LEMMA MergeUnites ==
  ASSUME NEW a \in Block, NEW b \in Block, NEW u \in MergeByLowestMaskBit(a, b)
  PROVE  u \in Abstract!Unite(a, b)
<1>1. a \in Network /\ b \in Network /\ IsContiguous(a) /\ IsContiguous(b)
  BY DEF Block
<1>2. u \in Network /\ Addrs(u) = Addrs(a) \cup Addrs(b)
  BY <1>1, LowestMerge, MergeIsUnion
<1>3. u \in Block
  BY <1>1, <1>2, BlocksStayBlocks DEF Block
<1>4. u = FromBits(a.addr, {i \in a.mask \cap b.mask : i \in a.addr <=> i \in b.addr})
  BY <1>1, <1>2, UnionIsHull
<1>5. u = Abstract!Hull(a, b)
  BY <1>4 DEF Abstract!Hull, Abstract!FromBits, FromBits
<1>6. \A n : Abstract!Addrs(n) = Addrs(n)
  BY DEF Abstract!Addrs, Addrs, Abstract!Word, Word, Abstract!Bits, Bits
<1>7. Abstract!Addrs(u) = Abstract!Addrs(a) \cup Abstract!Addrs(b)
  BY <1>2, <1>6, Zenon
<1> QED
  BY <1>3, <1>5, <1>7 DEF Abstract!Unite

(* A family no two entries of which unite is closed: a pair of copies of   *)
(* one network in the bag is a pair of entries too.                        *)
LEMMA ClosedFamily ==
  ASSUME NEW S, IsFiniteSet(S), NEW a, \A x \in S : a[x] \in Block,
         \A x, y \in S : x # y => MergeByLowestMaskBit(a[x], a[y]) = {}
  PROVE  Abstract!Closed(BagOf(a, S))
<1> DEFINE F == BagOf(a, S)
<1>1. F = [n \in {a[x] : x \in S} |-> Copies(a, S, n)]
  BY DEF BagOf, Copies
<1> SUFFICES ASSUME NEW p \in Abstract!BagToSet(F), NEW q \in Abstract!BagToSet(F),
                    NEW u \in Abstract!Unite(p, q),
                    Abstract!\sqsubseteq(Abstract!Together(p, q), F)
             PROVE  FALSE
  BY DEF Abstract!Closed
<1> HIDE DEF F
<1>2. p \in {a[x] : x \in S} /\ q \in {a[x] : x \in S}
  BY <1>1 DEF Abstract!BagToSet
<1>3. \E x, y \in S : x # y /\ a[x] = p /\ a[y] = q
  <2>1. CASE p = q
    <3>1. Abstract!Together(p, q) = [n \in {p, q} |-> 2]
      BY <2>1, TogetherCounts
    <3>2. F[p] >= 2
      BY <3>1, <1>1, <1>2 DEF Abstract!\sqsubseteq
    <3>3. F[p] = Copies(a, S, p)
      BY <1>1, <1>2
    <3>4. Copies(a, S, p) \in Nat
      BY CountPositive
    <3>5. Copies(a, S, p) > 1
      BY <3>2, <3>3, <3>4
    <3> QED
      BY <2>1, <3>5, CountPositive
  <2>2. CASE p # q
    BY <1>2, <2>2
  <2> QED
    BY <2>1, <2>2
<1>4. PICK x \in S, y \in S : x # y /\ a[x] = p /\ a[y] = q
  BY <1>3
<1>5. u \in Block /\ Abstract!Addrs(u) = Abstract!Addrs(p) \cup Abstract!Addrs(q)
  BY DEF Abstract!Unite
<1>6. \A n : Abstract!Addrs(n) = Addrs(n)
  BY DEF Abstract!Addrs, Addrs, Abstract!Word, Word, Abstract!Bits, Bits
<1>7. Addrs(u) = Addrs(p) \cup Addrs(q)
  BY <1>5, <1>6, Zenon
<1>8. p \in Block /\ q \in Block
  BY <1>4
<1>9. MergeByLowestMaskBit(p, q) # {}
  <2>1. /\ p \in Network /\ q \in Network /\ u \in Network
        /\ IsContiguous(p) /\ IsContiguous(q) /\ IsContiguous(u)
    BY <1>5, <1>8 DEF Block
  <2>2. Merge(p, q) # {}
    BY <1>7, <2>1, MergeIsComplete
  <2>3. PICK v : v \in Merge(p, q)
    BY <2>2
  <2>4. v \in Network /\ Addrs(v) = Addrs(u)
    BY <1>7, <2>1, <2>3, MergeIsUnion
  <2>5. v = u
    BY <2>1, <2>4, AddrsInjective
  <2> QED
    BY <2>1, <2>3, <2>5, LowestMergeOfBlocks
<1> QED
  BY <1>4, <1>9

(* The bag F with p and q replaced by u, as the abstract step does it.     *)
Replaces(F, G, p, q, u) ==
  /\ p \in Abstract!BagToSet(F) /\ q \in Abstract!BagToSet(F)
  /\ u \in Abstract!Unite(p, q)
  /\ Abstract!\sqsubseteq(Abstract!Together(p, q), F)
  /\ G = Abstract!(+)(Abstract!(-)(F, Abstract!Together(p, q)), Abstract!Single(u))

(* Two entries that become their merge are such a replacement.             *)
LEMMA MergeReplaces ==
  ASSUME NEW S, IsFiniteSet(S), NEW i \in S, NEW j \in S, i # j, NEW T, T = S \ {j},
         NEW a, NEW b, \A x \in S \ {i, j} : b[x] = a[x],
         a[i] \in Block, a[j] \in Block, b[i] \in MergeByLowestMaskBit(a[j], a[i])
  PROVE  Replaces(BagOf(a, S), BagOf(b, T), a[j], a[i], b[i])
<1>1. b[i] \in Abstract!Unite(a[j], a[i])
  BY MergeUnites
<1>2. /\ a[i] \in Abstract!BagToSet(BagOf(a, S)) /\ a[j] \in Abstract!BagToSet(BagOf(a, S))
      /\ Abstract!\sqsubseteq(Abstract!Together(a[i], a[j]), BagOf(a, S))
      /\ BagOf(b, T)
           = Abstract!(+)(Abstract!(-)(BagOf(a, S), Abstract!Together(a[i], a[j])),
                          Abstract!Single(b[i]))
  BY Replaced
<1>3. Abstract!Together(a[j], a[i]) = Abstract!Together(a[i], a[j])
  BY TogetherCounts
<1> QED
  BY <1>1, <1>2, <1>3, Zenon DEF Replaces

(* While the pass runs, such a change of the live entries is a step.       *)
LEMMA ReplaceSteps ==
  ASSUME NEW p, NEW q, NEW u, Replaces(BagOf(Entries, Live), BagOf(Entries, Live)', p, q, u),
         pc # "done", pc' # "done"
  PROVE  Abstract!Next
BY DEF Replaces, Abstract!Replace, Abstract!Next
-----------------------------------------------------------------------------
(* Implementation.  The bag of the live blocks, the candidate among them,  *)
(* is the family of Coalesce.                                              *)

LEMMA Standing ==
  ASSUME CInv
  PROVE  /\ Len \in Nat /\ Index = 0 .. (Len - 1) /\ nets \in [Index -> Block]
         /\ current \in Block /\ r \in Nat
         /\ pc \in {"next", "cascade"} => w \in Nat /\ w <= r /\ r <= Len
         /\ pc = "cascade" => r < Len
         /\ Live \subseteq Index \cup {-1} /\ IsFiniteSet(Live)
         /\ \A x \in Live : Entries[x] \in Block /\ Entries[x] = IF x = -1 THEN current ELSE nets[x]
<1>1. /\ Len \in Nat /\ Index = 0 .. (Len - 1) /\ nets \in [Index -> Block]
      /\ current \in Block /\ r \in Nat
      /\ pc \in {"sort", "next", "cascade", "done"}
      /\ pc \in {"next", "cascade"} => w \in Nat /\ w <= r /\ r <= Len
      /\ pc = "cascade" => r < Len
      /\ pc = "done" => w \in 0 .. Len
  BY Typed DEF TypeOK
<1>2. Live \subseteq Index \cup {-1}
  BY <1>1 DEF Live
<1>3. IsFiniteSet(Index \cup {-1})
  <2>1. \A n \in Nat : IsFiniteSet(0 .. (n - 1))
    BY FS_Interval
  <2>2. IsFiniteSet(Index)
    BY <1>1, <2>1
  <2> QED
    BY <2>2, FS_AddElement
<1>4. IsFiniteSet(Live)
  BY <1>2, <1>3, FS_Subset
<1>5. ASSUME NEW x \in Live
      PROVE  Entries[x] \in Block /\ Entries[x] = IF x = -1 THEN current ELSE nets[x]
  <2>1. Entries[x] = IF x = -1 THEN current ELSE nets[x]
    BY DEF Entries
  <2>2. x # -1 => x \in Index
    BY <1>2
  <2> QED
    BY <1>1, <2>1, <2>2
<1> QED
  BY <1>1, <1>2, <1>4, <1>5

(* A step that leaves the live blocks alone leaves the bag alone.          *)
LEMMA SameEntries ==
  ASSUME Live' = Live, nets' = nets, current' = current
  PROVE  BagOf(Entries, Live)' = BagOf(Entries, Live)
<1>1. Entries' = Entries
  BY DEF Entries
<1> QED
  BY <1>1

(* What the caller passes is a bag of blocks.                              *)
LEMMA InitSimulates ==
  ASSUME Init
  PROVE  Abstract!Init
<1>1. CInv
  BY InitEstablishes
<1>2. IsFiniteSet(Live) /\ \A x \in Live : Entries[x] \in Block
  BY <1>1, Standing
<1> DEFINE F == BagOf(Entries, Live)
<1>3. F = [n \in {Entries[i] : i \in Live} |-> Copies(Entries, Live, n)]
  BY DEF BagOf, Copies
<1>4. \A n \in {Entries[i] : i \in Live} :
        Copies(Entries, Live, n) \in Nat /\ Copies(Entries, Live, n) > 0
  BY <1>2, CountPositive
<1> HIDE DEF F
<1>5. Abstract!IsABag(F)
  BY <1>3, <1>4 DEF Abstract!IsABag
<1>6. Abstract!BagToSet(F) \subseteq Block
  BY <1>2, <1>3 DEF Abstract!BagToSet
<1> QED
  BY <1>5, <1>6 DEF Init, Abstract!Init, F

(* A slice of at most one block has no pair to unite.                      *)
LEMMA ReturnShortSimulates ==
  ASSUME CInv, CInv', ReturnShort
  PROVE  Abstract!Next
<1>1. Len \in Nat /\ Index = 0 .. (Len - 1)
  BY Standing
<1>2. IsFiniteSet(Live) /\ \A x \in Live : Entries[x] \in Block
  BY Standing
<1>3. pc = "sort" /\ pc' = "done" /\ Len <= 1 /\ w' = Len
      /\ nets' = nets /\ current' = current /\ Len' = Len /\ Index' = Index
  BY DEF ReturnShort, Len, Index
<1>4. Live = Index /\ Live' = Live
  BY <1>1, <1>3 DEF Live
<1>5. \A x, y \in Live : x = y
  BY <1>1, <1>3, <1>4
<1>6. Abstract!Closed(BagOf(Entries, Live))
  BY <1>2, <1>5, ClosedFamily
<1>7. BagOf(Entries, Live)' = BagOf(Entries, Live)
  BY <1>3, <1>4, SameEntries
<1> QED
  BY <1>3, <1>6, <1>7 DEF Abstract!Next, Abstract!Finish

(* The end of the pass: no two kept blocks merge.                          *)
LEMMA ReturnSimulates ==
  ASSUME CInv, CInv', Return
  PROVE  Abstract!Next
<1>1. pc = "next" /\ pc' = "done" /\ r = Len /\ nets' = nets /\ w' = w /\ current' = current
  BY DEF Return
<1>2. /\ Len \in Nat /\ Index = 0 .. (Len - 1) /\ nets \in [Index -> Block]
      /\ w \in Nat /\ w <= Len /\ IsFiniteSet(Live)
  BY <1>1, Standing
<1>3. \A x \in Live : Entries[x] \in Block /\ Entries[x] = IF x = -1 THEN current ELSE nets[x]
  BY Standing
<1>4. Live = 0 .. (w - 1) /\ Live' = Live
  BY <1>1, <1>2 DEF Live
<1>5. ASSUME NEW x \in Live, NEW y \in Live, x # y
      PROVE  MergeByLowestMaskBit(Entries[x], Entries[y]) = {}
  <2>1. /\ x \in 0 .. (w - 1) /\ y \in 0 .. (w - 1) /\ x \in Index /\ y \in Index
        /\ Entries[x] = nets[x] /\ Entries[y] = nets[y]
    BY <1>2, <1>3, <1>4, <1>5
  <2>2. \A i, j \in 0 .. (w - 1) : i < j => MergeByLowestMaskBit(nets[i], nets[j]) = {}
    BY <1>1 DEF CInv, OnlyTheTopMatters, KeptIrreducible
  <2>3. nets[x] \in Blocks /\ nets[y] \in Blocks
    BY <1>2, <2>1, SameBlocks
  <2>4. x < y \/ y < x
    BY <1>5, <2>1
  <2> QED
    BY <2>1, <2>2, <2>3, <2>4, LowestMergeSymmetric
<1>6. \A x \in Live : Entries[x] \in Block
  BY <1>3
<1>7. Abstract!Closed(BagOf(Entries, Live))
  BY <1>2, <1>5, <1>6, ClosedFamily
<1>8. BagOf(Entries, Live)' = BagOf(Entries, Live)
  BY <1>1, <1>4, SameEntries
<1> QED
  BY <1>1, <1>7, <1>8 DEF Abstract!Next, Abstract!Finish

(* The order of the blocks does not show in the bag.                       *)
LEMMA SortSimulates ==
  ASSUME CInv, CInv', Sort
  PROVE  UNCHANGED Abstract!vars
<1>1. /\ Len \in Nat /\ Index = 0 .. (Len - 1) /\ nets \in [Index -> Block]
      /\ IsFiniteSet(Live)
  BY Standing
<1>2. /\ pc = "sort" /\ pc' = "next" /\ Len > 1 /\ w = 1 /\ r = 1 /\ w' = 1 /\ r' = 1
      /\ Len' = Len
  BY DEF Sort, CInv, Positions, Len
<1>3. Live = Index /\ Live' = Index
  BY <1>1, <1>2 DEF Live
<1>4. PICK p \in [Index -> Index] :
        (\A j \in Index : \E i \in Index : p[i] = j) /\ nets' = [i \in Index |-> nets[p[i]]]
  <2>1. DOMAIN nets = Index
    BY <1>1
  <2> QED
    BY <1>1, <2>1 DEF Sort, IndexPermutations, Permuted
<1>5. \A i, j \in Index : p[i] = p[j] => i = j
  <2>1. IsFiniteSet(Index)
    BY <1>1, <1>3
  <2>2. p \in Surjection(Index, Index)
    BY <1>4 DEF Surjection
  <2>3. p \in Injection(Index, Index)
    BY <2>1, <2>2, FS_Surjection
  <2> QED
    BY <2>3 DEF Injection, IsInjective
<1>6. \A i \in Index : Entries'[i] = Entries[p[i]]
  <2>1. Entries = [i \in Index |-> IF i = -1 THEN current ELSE nets[i]]
    BY <1>3 DEF Entries
  <2>2. Entries' = [i \in Index |-> IF i = -1 THEN current' ELSE nets'[i]]
    BY <1>3 DEF Entries
  <2>3. \A i \in Index : i # -1
    BY <1>1
  <2> QED
    BY <1>4, <2>1, <2>2, <2>3
<1>7. BagOf(Entries', Index) = BagOf(Entries, Index)
  <2>1. p \in [Index -> Index] /\ IsFiniteSet(Index)
    BY <1>1, <1>3
  <2>2. \A j \in Index : \E i \in Index : p[i] = j
    BY <1>4
  <2> QED
    BY <1>5, <1>6, <2>1, <2>2, Renamed
<1> QED
  BY <1>2, <1>3, <1>7 DEF Abstract!vars

(* The candidate leaves its slot.                                          *)
LEMMA TakeSimulates ==
  ASSUME CInv, CInv', Take
  PROVE  UNCHANGED Abstract!vars
<1>1. /\ pc = "next" /\ pc' = "cascade" /\ r < Len /\ current' = nets[r]
      /\ nets' = nets /\ w' = w /\ r' = r /\ Len' = Len
  BY DEF Take, Len
<1>2. /\ Len \in Nat /\ Index = 0 .. (Len - 1) /\ nets \in [Index -> Block]
      /\ w \in Nat /\ r \in Nat /\ w <= r /\ IsFiniteSet(Live)
  BY <1>1, Standing
<1>3. \A x \in Live : Entries[x] = IF x = -1 THEN current ELSE nets[x]
  BY Standing
<1>4. \A x \in Live' : Entries'[x] = IF x = -1 THEN current' ELSE nets'[x]
  BY DEF Entries
<1>5. /\ Live = (0 .. (w - 1)) \cup (r .. (Len - 1))
      /\ Live' = (0 .. (w - 1)) \cup {-1} \cup ((r + 1) .. (Len - 1))
  BY <1>1, <1>2 DEF Live
<1> DEFINE f == [i \in Live' |-> IF i = -1 THEN r ELSE i]
<1>6. \A i \in Live' : f[i] = IF i = -1 THEN r ELSE i
  OBVIOUS
<1>7. \A i \in Live' : (IF i = -1 THEN r ELSE i) \in Live
  BY <1>1, <1>2, <1>5
<1>8. f \in [Live' -> Live]
  BY <1>7
<1> HIDE DEF f
<1>9. \A s \in Live : \E i \in Live' : f[i] = s
  <2> SUFFICES ASSUME NEW s \in Live PROVE \E i \in Live' : f[i] = s
    OBVIOUS
  <2>1. CASE s = r
    <3>1. -1 \in Live' /\ f[-1] = r
      BY <1>5, <1>6
    <3> QED
      BY <2>1, <3>1
  <2>2. CASE s # r
    <3>1. s \in Live' /\ s # -1
      BY <1>2, <1>5, <2>2
    <3> QED
      BY <1>6, <3>1
  <2> QED
    BY <2>1, <2>2
<1>10. \A i, j \in Live' : f[i] = f[j] => i = j
  BY <1>2, <1>5, <1>6
<1>11. \A i \in Live' : Entries'[i] = Entries[f[i]]
  <2> SUFFICES ASSUME NEW i \in Live' PROVE Entries'[i] = Entries[f[i]]
    OBVIOUS
  <2>1. f[i] \in Live /\ f[i] # -1 /\ f[i] = IF i = -1 THEN r ELSE i
    BY <1>2, <1>5, <1>6, <1>8
  <2> QED
    BY <1>1, <1>3, <1>4, <2>1
<1>12. BagOf(Entries', Live') = BagOf(Entries, Live)
  BY <1>2, <1>8, <1>9, <1>10, <1>11, Renamed
<1> QED
  BY <1>1, <1>12 DEF Abstract!vars

(* The last kept block and the candidate become their merge.               *)
LEMMA CascadeSimulates ==
  ASSUME CInv, CInv', Cascade
  PROVE  Abstract!Next
<1>1. /\ pc = "cascade" /\ pc' = "cascade" /\ w > 0 /\ w' = w - 1 /\ r' = r /\ Len' = Len
      /\ current' \in MergeByLowestMaskBit(nets[w - 1], current) /\ nets' = nets
  BY DEF Cascade, Top, Len
<1>2. /\ Len \in Nat /\ Index = 0 .. (Len - 1) /\ w \in Nat /\ r \in Nat /\ w <= r /\ r < Len
      /\ IsFiniteSet(Live)
  BY <1>1, Standing
<1>3. \A x \in Live : Entries[x] \in Block /\ Entries[x] = IF x = -1 THEN current ELSE nets[x]
  BY Standing
<1>4. \A x \in Live' : Entries'[x] = IF x = -1 THEN current' ELSE nets'[x]
  BY DEF Entries
<1>5. /\ Live = (0 .. (w - 1)) \cup {-1} \cup ((r + 1) .. (Len - 1))
      /\ Live' = (0 .. (w - 2)) \cup {-1} \cup ((r + 1) .. (Len - 1))
  BY <1>1, <1>2 DEF Live
<1>6. /\ -1 \in Live /\ w - 1 \in Live /\ -1 # w - 1 /\ Live' = Live \ {w - 1}
      /\ -1 \in Live' /\ \A x \in Live \ {-1, w - 1} : x \in Live'
  BY <1>1, <1>2, <1>5
<1>7. \A x \in Live \ {-1, w - 1} : Entries'[x] = Entries[x]
  BY <1>1, <1>3, <1>4, <1>6
<1>8. Entries[-1] = current /\ Entries[w - 1] = nets[w - 1] /\ Entries'[-1] = current'
  BY <1>3, <1>4, <1>6
<1>9. /\ Entries[-1] \in Block /\ Entries[w - 1] \in Block
      /\ Entries'[-1] \in MergeByLowestMaskBit(Entries[w - 1], Entries[-1])
  BY <1>1, <1>3, <1>6, <1>8
<1>10. Replaces(BagOf(Entries, Live), BagOf(Entries', Live'),
                Entries[w - 1], Entries[-1], Entries'[-1])
  BY <1>2, <1>6, <1>7, <1>9, MergeReplaces
<1> QED
  BY <1>1, <1>10, ReplaceSteps

(* The candidate takes the slot above the kept blocks.                     *)
LEMMA PlaceSimulates ==
  ASSUME CInv, CInv', Place
  PROVE  UNCHANGED Abstract!vars
<1>1. /\ pc = "cascade" /\ pc' = "next" /\ w' = w + 1 /\ r' = r + 1 /\ Len' = Len
      /\ current' = current /\ nets' = [nets EXCEPT ![w] = current]
  BY DEF Place, Len
<1>2. /\ Len \in Nat /\ Index = 0 .. (Len - 1) /\ nets \in [Index -> Block]
      /\ w \in Nat /\ r \in Nat /\ w <= r /\ r < Len /\ IsFiniteSet(Live)
  BY <1>1, Standing
<1>3. \A x \in Live : Entries[x] = IF x = -1 THEN current ELSE nets[x]
  BY Standing
<1>4. \A x \in Live' : Entries'[x] = IF x = -1 THEN current' ELSE nets'[x]
  BY DEF Entries
<1>5. /\ Live = (0 .. (w - 1)) \cup {-1} \cup ((r + 1) .. (Len - 1))
      /\ Live' = (0 .. w) \cup ((r + 1) .. (Len - 1))
  BY <1>1, <1>2 DEF Live
<1> DEFINE f == [i \in Live' |-> IF i = w THEN -1 ELSE i]
<1>6. \A i \in Live' : f[i] = IF i = w THEN -1 ELSE i
  OBVIOUS
<1>7. \A i \in Live' : (IF i = w THEN -1 ELSE i) \in Live
  BY <1>2, <1>5
<1>8. f \in [Live' -> Live]
  BY <1>7
<1> HIDE DEF f
<1>9. \A s \in Live : \E i \in Live' : f[i] = s
  <2> SUFFICES ASSUME NEW s \in Live PROVE \E i \in Live' : f[i] = s
    OBVIOUS
  <2>1. CASE s = -1
    <3>1. w \in Live' /\ f[w] = -1
      BY <1>2, <1>5, <1>6
    <3> QED
      BY <2>1, <3>1
  <2>2. CASE s # -1
    <3>1. s \in Live' /\ s # w
      BY <1>2, <1>5, <2>2
    <3> QED
      BY <1>6, <3>1
  <2> QED
    BY <2>1, <2>2
<1>10. \A i, j \in Live' : f[i] = f[j] => i = j
  BY <1>2, <1>5, <1>6
<1>11. \A i \in Live' : Entries'[i] = Entries[f[i]]
  <2> SUFFICES ASSUME NEW i \in Live' PROVE Entries'[i] = Entries[f[i]]
    OBVIOUS
  <2>1. f[i] \in Live /\ i # -1 /\ i \in Index /\ f[i] = IF i = w THEN -1 ELSE i
    BY <1>2, <1>5, <1>6, <1>8
  <2>2. nets'[i] = IF i = w THEN current ELSE nets[i]
    BY <1>1, <1>2, <2>1
  <2>3. Entries'[i] = nets'[i] /\ Entries[f[i]] = IF i = w THEN current ELSE nets[i]
    BY <1>3, <1>4, <2>1
  <2> QED
    BY <2>2, <2>3
<1>12. BagOf(Entries', Live') = BagOf(Entries, Live)
  BY <1>2, <1>8, <1>9, <1>10, <1>11, Renamed
<1> QED
  BY <1>1, <1>12 DEF Abstract!vars

LEMMA StepSimulates ==
  ASSUME CInv, CInv', [Next]_vars
  PROVE  [Abstract!Next]_(Abstract!vars)
<1>1. CASE UNCHANGED vars
  <2>1. Live' = Live /\ nets' = nets /\ current' = current /\ pc' = pc
    BY <1>1 DEF vars, Live, Len, Index
  <2>2. BagOf(Entries, Live)' = BagOf(Entries, Live)
    BY <2>1, SameEntries
  <2> QED
    BY <2>1, <2>2 DEF Abstract!vars
<1> QED
  BY <1>1, ReturnShortSimulates, SortSimulates, TakeSimulates, CascadeSimulates,
     PlaceSimulates, ReturnSimulates DEF Next

(* AggregateContiguous only replaces two blocks by the block that names    *)
(* their addresses, and returns when no such pair is left (aggregate.go:   *)
(* 91): the safety half of Implements.                                     *)
THEOREM AggregatesByUniting == Spec => Abstract!Init /\ [][Abstract!Next]_(Abstract!vars)
<1>1. Init => Abstract!Init
  BY InitSimulates
<1>2. CInv /\ CInv' /\ [Next]_vars => [Abstract!Next]_(Abstract!vars)
  BY StepSimulates
<1> QED
  BY <1>1, <1>2, PassInvariant, PTL DEF Spec
=============================================================================
