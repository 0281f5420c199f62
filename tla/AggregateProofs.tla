-------------------------- MODULE AggregateProofs --------------------------
(***************************************************************************)
(* For words of every width and slices of every length, Aggregate4 loses   *)
(* no address and invents none, never overwrites a candidate it has not    *)
(* read, and returns only networks of which no two can be united.          *)
(***************************************************************************)
EXTENDS Aggregate, NetworkTheorems

(* The inductive invariant.  That no address is lost needs the slots that  *)
(* are written to be spent ones, which is StackBelowCandidates; that the   *)
(* result is irreducible needs StackClosed at every step of a rescan.      *)
IInv ==
  /\ TypeOK
  /\ pc = "sort" => w = 0 /\ r = 1 /\ nets = input
  /\ pc = "done" => w < Len
  /\ StackBelowCandidates
  /\ UnionPreserved
  /\ StackClosed

-----------------------------------------------------------------------------
(* Slices are functions from 0 .. Len - 1 (InputsAssumption).              *)
LEMMA LenType ==
  ASSUME input \in Inputs
  PROVE  Len \in Nat /\ Index = 0 .. (Len - 1) /\ input \in [Index -> Network]
<1>1. IsFiniteSet(DOMAIN input) /\ input \in [0 .. (Cardinality(DOMAIN input) - 1) -> Network]
  BY InputsAssumption DEF IsSlice
<1> QED
  BY <1>1, FS_CardinalityType DEF Len, Index

(* The indices the code takes first from one end or the other exist.       *)
LEMMA LowestExists ==
  ASSUME NEW S, S \subseteq Nat, S # {}
  PROVE  Lowest(S) \in S
BY LeastNatural DEF Lowest

(* The same from the other end.                                            *)
LEMMA HighestExists ==
  ASSUME NEW n \in Nat, NEW S, S \subseteq 0 .. n, S # {}
  PROVE  Highest(S) \in S
BY GreatestNatural DEF Highest

-----------------------------------------------------------------------------
(* Two families whose members name each other's addresses.                 *)
LEMMA SameUnion ==
  ASSUME NEW a, NEW b, NEW S, NEW T,
         \A i \in S : \A x \in Addrs(a[i]) : \E j \in T : x \in Addrs(b[j]),
         \A j \in T : \A x \in Addrs(b[j]) : \E i \in S : x \in Addrs(a[i])
  PROVE  Union(a, S) = Union(b, T)
BY DEF Union

-----------------------------------------------------------------------------
(* The sorted slice is not there yet, but nothing is lost.                 *)
LEMMA InitEstablishes ==
  ASSUME Init
  PROVE  IInv
<1>1. Len \in Nat /\ Index = 0 .. (Len - 1) /\ input \in [Index -> Network]
  BY LenType DEF Init
<1>2. TypeOK
  BY <1>1 DEF Init, TypeOK
<1>3. UnionPreserved
  BY DEF Init, UnionPreserved, Live
<1> QED
  BY <1>2, <1>3 DEF Init, IInv, StackBelowCandidates, StackClosed

(* A slice of at most one network is its own result.                       *)
LEMMA ReturnShortPreserves ==
  ASSUME IInv, ReturnShort
  PROVE  IInv'
<1>1. Len \in Nat /\ Index = 0 .. (Len - 1) /\ input \in [Index -> Network]
  BY LenType DEF IInv, TypeOK
<1>2. input' = input /\ Len' = Len /\ Index' = Index /\ nets' = nets
  BY DEF ReturnShort, Len, Index
<1>3. Live = Index /\ Live' = Index
  BY <1>1, <1>2 DEF ReturnShort, Live
<1>4. UnionPreserved'
  BY <1>2, <1>3 DEF IInv, UnionPreserved, Union
<1>5. TypeOK'
  BY <1>1, <1>2 DEF IInv, TypeOK, ReturnShort
<1>6. StackClosed'
  BY <1>1 DEF ReturnShort, StackClosed
<1> QED
  BY <1>1, <1>2, <1>4, <1>5, <1>6 DEF ReturnShort, IInv, StackBelowCandidates

(* Sorting is a permutation, so the addresses stay.                        *)
LEMMA SortPreserves ==
  ASSUME IInv, Sort
  PROVE  IInv'
<1>1. Len \in Nat /\ Index = 0 .. (Len - 1) /\ nets \in [Index -> Network]
  BY LenType DEF IInv, TypeOK
<1>2. input' = input /\ Len' = Len /\ Index' = Index
  BY DEF Sort, Len, Index
<1>3. PICK p \in [Index -> Index] :
        (\A j \in Index : \E i \in Index : p[i] = j) /\ nets' = [i \in Index |-> nets[p[i]]]
  <2>1. DOMAIN nets = Index
    BY <1>1
  <2> QED
    BY <1>1, <2>1 DEF Sort, IndexPermutations, Permuted
<1>4. nets' \in [Index -> Network]
  BY <1>1, <1>3
<1>5. w = 0 /\ w' = 0 /\ r = 1 /\ r' = 1 /\ k' = k /\ pc' = "scan" /\ pc = "sort" /\ Len > 1
  BY DEF IInv, Sort
<1>6. Live = Index /\ Live' = Index
  BY <1>1, <1>2, <1>5 DEF Live
<1>7. Union(nets', Index) = Union(nets, Index)
  BY <1>3, SameUnion
<1>8. UnionPreserved'
  BY <1>2, <1>6, <1>7 DEF IInv, UnionPreserved
<1>9. TypeOK'
  BY <1>1, <1>2, <1>4, <1>5 DEF IInv, TypeOK
<1>10. StackClosed'
  BY <1>5 DEF StackClosed
<1> QED
  BY <1>1, <1>2, <1>5, <1>8, <1>9, <1>10 DEF IInv, StackBelowCandidates

(* An unmerged candidate lands at a slot already read.                     *)
LEMMA PushPreserves ==
  ASSUME IInv, Push
  PROVE  IInv'
<1>1. Len \in Nat /\ Index = 0 .. (Len - 1) /\ nets \in [Index -> Network]
  BY LenType DEF IInv, TypeOK
<1>2. input' = input /\ Len' = Len /\ Index' = Index /\ k' = k /\ pc = "scan" /\ pc' = "scan"
  BY DEF Push, Len, Index
<1>3. w \in Nat /\ w < r /\ r \in Nat /\ r < Len /\ w' = w + 1 /\ r' = r + 1
  BY <1>1 DEF IInv, TypeOK, Push, StackBelowCandidates
<1>4. nets' = [nets EXCEPT ![w + 1] = nets[r]]
  BY DEF Push
<1>5. /\ \A i \in 0 .. w : nets'[i] = nets[i]
      /\ nets'[w + 1] = nets[r]
      /\ \A i \in (r + 1) .. (Len - 1) : nets'[i] = nets[i]
      /\ nets' \in [Index -> Network]
  BY <1>1, <1>3, <1>4
<1>6. Live = (0 .. w) \cup (r .. (Len - 1)) /\ Live' = (0 .. (w + 1)) \cup ((r + 1) .. (Len - 1))
  BY <1>2, <1>3 DEF Live
<1>7. Union(nets, Live) = Union(nets', Live')
  <2>1. \A i \in Live : \E j \in Live' : nets'[j] = nets[i]
    BY <1>1, <1>3, <1>5, <1>6
  <2>2. \A j \in Live' : \E i \in Live : nets'[j] = nets[i]
    BY <1>1, <1>3, <1>5, <1>6
  <2> QED
    BY <2>1, <2>2, SameUnion
<1>8. UnionPreserved'
  BY <1>2, <1>7 DEF IInv, UnionPreserved
<1>9. \A i \in 0 .. w : Merge(nets[i], nets[r]) = {} /\ Merge(nets[r], nets[i]) = {}
  <2>1. \A i \in 0 .. w : Merge(nets[i], nets[r]) = {}
    BY DEF Push, Partners
  <2>2. r \in Index /\ \A i \in 0 .. w : i \in Index
    BY <1>1, <1>3
  <2> QED
    BY <2>1, <2>2, <1>1, MergeSymmetric
<1>10. \A i, j \in 0 .. w : i # j => Merge(nets[i], nets[j]) = {}
  BY <1>2 DEF IInv, StackClosed
<1>11. StackClosed'
  <2> SUFFICES ASSUME NEW i \in 0 .. (w + 1), NEW j \in 0 .. (w + 1), i # j
               PROVE  Merge(nets'[i], nets'[j]) = {}
    BY <1>2, <1>3 DEF StackClosed
  <2>1. CASE i \in 0 .. w /\ j \in 0 .. w
    BY <2>1, <1>5, <1>10
  <2>2. CASE i = w + 1 /\ j \in 0 .. w
    BY <2>2, <1>5, <1>9
  <2>3. CASE j = w + 1 /\ i \in 0 .. w
    BY <2>3, <1>5, <1>9
  <2> QED
    BY <1>3, <2>1, <2>2, <2>3
<1>12. TypeOK'
  BY <1>1, <1>2, <1>3, <1>5 DEF IInv, TypeOK
<1> QED
  BY <1>1, <1>2, <1>3, <1>8, <1>11, <1>12 DEF IInv, StackBelowCandidates

(* The grown entry names the addresses of both; it alone may now merge.    *)
LEMMA AbsorbPreserves ==
  ASSUME IInv, Absorb
  PROVE  IInv'
<1>1. Len \in Nat /\ Index = 0 .. (Len - 1) /\ nets \in [Index -> Network]
  BY LenType DEF IInv, TypeOK
<1>2. input' = input /\ Len' = Len /\ Index' = Index /\ w' = w /\ pc = "scan"
  BY DEF Absorb, Len, Index
<1>3. w \in Nat /\ w < r /\ r \in Nat /\ r < Len
  BY <1>1 DEF IInv, TypeOK, Absorb, StackBelowCandidates
<1>4. k' \in 0 .. w /\ Merge(nets[k'], nets[r]) # {}
  <2>1. Partners \subseteq 0 .. w /\ Partners # {}
    BY DEF Absorb, Partners
  <2>2. k' \in Partners
    BY <1>3, <2>1, HighestExists DEF Absorb
  <2> QED
    BY <2>2 DEF Partners
<1>5. PICK merged \in Merge(nets[k'], nets[r]) :
        /\ nets' = [nets EXCEPT ![k'] = merged]
        /\ \/ nets[k'] # merged /\ pc' = "rescan" /\ r' = r
           \/ nets[k'] = merged /\ pc' = "scan" /\ r' = r + 1
  BY DEF Absorb
<1>6. merged \in Network /\ Addrs(merged) = Addrs(nets[k']) \cup Addrs(nets[r])
  BY <1>1, <1>3, <1>4, <1>5, MergeIsUnion
<1>7. /\ \A i \in Index : i # k' => nets'[i] = nets[i]
      /\ nets'[k'] = merged
      /\ nets' \in [Index -> Network]
  BY <1>1, <1>3, <1>4, <1>5, <1>6
<1>8. /\ Live = (0 .. w) \cup (r .. (Len - 1))
      /\ Live' = (0 .. w) \cup ((r + 1) .. (Len - 1))
  BY <1>2, <1>5 DEF Live
<1>9. Live = Live' \cup {r} /\ k' \in Live' /\ k' # r /\ r \notin Live' /\ Live \subseteq Index
  BY <1>1, <1>3, <1>4, <1>8
<1>10. Union(nets, Live) = Union(nets', Live')
  <2>1. \A i \in Live : \A x \in Addrs(nets[i]) : \E j \in Live' : x \in Addrs(nets'[j])
    BY <1>6, <1>7, <1>9
  <2>2. \A j \in Live' : \A x \in Addrs(nets'[j]) : \E i \in Live : x \in Addrs(nets[i])
    BY <1>6, <1>7, <1>9
  <2> QED
    BY <2>1, <2>2, SameUnion
<1>11. UnionPreserved'
  BY <1>2, <1>10 DEF IInv, UnionPreserved
<1>12. \A i, j \in 0 .. w : i # j => Merge(nets[i], nets[j]) = {}
  BY <1>2 DEF IInv, StackClosed
<1>13. StackClosed'
  <2>1. \A i \in 0 .. w : i \in Index
    BY <1>1, <1>3
  <2>2. CASE nets[k'] = merged
    <3>1. \A i \in 0 .. w : nets'[i] = nets[i]
      BY <2>1, <2>2, <1>7
    <3> QED
      BY <3>1, <1>2, <1>12 DEF StackClosed
  <2>3. CASE nets[k'] # merged
    <3>1. pc' = "rescan"
      BY <1>5, <2>3
    <3> QED
      BY <3>1, <2>1, <1>2, <1>7, <1>12 DEF StackClosed
  <2> QED
    BY <2>2, <2>3
<1>14. TypeOK'
  BY <1>1, <1>2, <1>3, <1>4, <1>5, <1>7 DEF IInv, TypeOK
<1> QED
  BY <1>1, <1>2, <1>3, <1>4, <1>5, <1>11, <1>13, <1>14 DEF IInv, StackBelowCandidates

(* The entries of a slice after one of the first top + 1 was taken out.    *)
LEMMA RemoveEntries ==
  ASSUME NEW n \in Nat, NEW top \in Nat, top < n, NEW j \in 0 .. top,
         NEW a \in [0 .. (n - 1) -> Network]
  PROVE  /\ Remove(a, j, top) \in [0 .. (n - 1) -> Network]
         /\ \A i \in 0 .. (top - 1) : Remove(a, j, top)[i] = IF i < j THEN a[i] ELSE a[i + 1]
         /\ \A i \in top .. (n - 1) : Remove(a, j, top)[i] = a[i]
<1> DEFINE b == Remove(a, j, top)
<1>1. b = [i \in 0 .. (n - 1) |-> IF j <= i /\ i < top THEN a[i + 1] ELSE a[i]]
  BY DEF Remove
<1>2. \A i \in 0 .. (n - 1) : i < top => i + 1 \in 0 .. (n - 1)
  OBVIOUS
<1>3. \A i \in 0 .. (n - 1) : b[i] = IF j <= i /\ i < top THEN a[i + 1] ELSE a[i]
  BY <1>1
<1>4. b \in [0 .. (n - 1) -> Network]
  BY <1>1, <1>2
<1> HIDE DEF b
<1> QED
  BY <1>3, <1>4 DEF b

(* After a cascade, entry i of the closed-up stack is entry Before(i) of   *)
(* the stack with the grown survivor written back.                         *)
LEMMA CascadePreserves ==
  ASSUME IInv, Cascade
  PROVE  IInv'
<1>1. Len \in Nat /\ Index = 0 .. (Len - 1) /\ nets \in [Index -> Network]
  BY LenType DEF IInv, TypeOK
<1>2. /\ input' = input /\ Len' = Len /\ Index' = Index
      /\ r' = r /\ pc = "rescan" /\ pc' = "rescan" /\ w' = w - 1
  BY DEF Cascade, Len, Index
<1>3. w \in Nat /\ w < r /\ r \in Nat /\ r < Len /\ k \in 0 .. w
  BY <1>1, <1>2 DEF IInv, TypeOK, StackBelowCandidates
<1> DEFINE j == Lowest(Rescan)
<1>4. j \in (0 .. w) \ {k} /\ Merge(nets[k], nets[j]) # {}
  <2>1. Rescan \subseteq Nat /\ Rescan # {}
    BY <1>3 DEF Cascade, Rescan
  <2>2. j \in Rescan
    BY <2>1, LowestExists
  <2> QED
    BY <2>2 DEF Rescan
<1>5. k' = IF j < k THEN k - 1 ELSE k
  BY DEF Cascade
<1>6. PICK merged \in Merge(nets[k], nets[j]) :
        nets' = Remove([nets EXCEPT ![k] = merged], j, w)
  BY DEF Cascade
<1> HIDE DEF j
<1> DEFINE a == [nets EXCEPT ![k] = merged]
           from(i) == IF i < j THEN i ELSE i + 1
<1>7. merged \in Network /\ Addrs(merged) = Addrs(nets[k]) \cup Addrs(nets[j])
  BY <1>1, <1>3, <1>4, <1>6, MergeIsUnion
<1>8. /\ a \in [0 .. (Len - 1) -> Network]
      /\ a[k] = merged
      /\ \A i \in Index : i # k => a[i] = nets[i]
  BY <1>1, <1>3, <1>7
<1> HIDE DEF a
<1>9. /\ nets' \in [Index -> Network]
      /\ \A i \in 0 .. (w - 1) : nets'[i] = a[from(i)]
      /\ \A i \in w .. (Len - 1) : nets'[i] = a[i]
  <2>1. w < Len /\ j \in 0 .. w
    BY <1>1, <1>3, <1>4
  <2>2. nets' = Remove(a, j, w)
    BY <1>6 DEF a
  <2>3. /\ Remove(a, j, w) \in [0 .. (Len - 1) -> Network]
        /\ \A i \in 0 .. (w - 1) : Remove(a, j, w)[i] = IF i < j THEN a[i] ELSE a[i + 1]
        /\ \A i \in w .. (Len - 1) : Remove(a, j, w)[i] = a[i]
    BY <1>1, <1>3, <1>8, <2>1, RemoveEntries
  <2> QED
    BY <1>1, <2>2, <2>3
<1>10. /\ \A i \in 0 .. (w - 1) : from(i) \in 0 .. w /\ from(i) # j
       /\ \A i \in (0 .. w) \ {j} : \E h \in 0 .. (w - 1) : from(h) = i
       /\ \A i, h \in 0 .. (w - 1) : i # h => from(i) # from(h)
       /\ \A i \in 0 .. (w - 1) : from(i) = k <=> i = k'
       /\ k' \in 0 .. (w - 1) /\ 0 < w
  <2>1. j \in Int /\ k \in Int /\ w \in Int /\ j # k /\ 0 <= j /\ j <= w /\ 0 <= k /\ k <= w
    BY <1>3, <1>4
  <2>2. \A i \in 0 .. (w - 1) : from(i) \in 0 .. w /\ from(i) # j
    BY <2>1
  <2>3. ASSUME NEW i \in (0 .. w) \ {j} PROVE \E h \in 0 .. (w - 1) : from(h) = i
    <3>1. CASE i < j
      <4>1. i \in 0 .. (w - 1) /\ from(i) = i
        BY <2>1, <3>1
      <4> QED
        BY <4>1
    <3>2. CASE i > j
      <4>1. i - 1 \in 0 .. (w - 1) /\ from(i - 1) = i
        BY <2>1, <3>2
      <4> QED
        BY <4>1
    <3> QED
      BY <2>1, <3>1, <3>2
  <2>4. \A i, h \in 0 .. (w - 1) : i # h => from(i) # from(h)
    BY <2>1
  <2>5. \A i \in 0 .. (w - 1) : from(i) = k <=> i = k'
    BY <1>5, <2>1
  <2>6. k' \in 0 .. (w - 1) /\ 0 < w
    BY <1>5, <2>1
  <2> QED
    BY <2>2, <2>3, <2>4, <2>5, <2>6
<1> HIDE DEF from
<1>11. /\ Live = (0 .. w) \cup ((r + 1) .. (Len - 1))
       /\ Live' = (0 .. (w - 1)) \cup ((r + 1) .. (Len - 1))
  BY <1>2 DEF Live
<1>12. \A i \in (r + 1) .. (Len - 1) : nets'[i] = nets[i]
  BY <1>1, <1>3, <1>8, <1>9
<1>13. \A i \in 0 .. w : i # k => a[i] = nets[i]
  BY <1>1, <1>3, <1>8
<1>14. Union(nets, Live) = Union(nets', Live')
  <2>1. ASSUME NEW i \in Live, NEW x \in Addrs(nets[i])
        PROVE  \E h \in Live' : x \in Addrs(nets'[h])
    <3>1. CASE i \in (r + 1) .. (Len - 1)
      BY <1>11, <1>12, <3>1, <2>1
    <3>2. CASE i \in {k, j}
      <4>1. nets'[k'] = merged /\ k' \in Live'
        BY <1>8, <1>9, <1>10, <1>11
      <4> QED
        BY <1>7, <2>1, <3>2, <4>1
    <3>3. CASE i \in 0 .. w /\ i # k /\ i # j
      <4>1. PICK h \in 0 .. (w - 1) : from(h) = i
        BY <1>10, <3>3
      <4>2. nets'[h] = nets[i]
        BY <1>9, <1>13, <3>3, <4>1
      <4> QED
        BY <1>11, <2>1, <4>2
    <3> QED
      BY <1>11, <3>1, <3>2, <3>3
  <2>2. ASSUME NEW h \in Live', NEW x \in Addrs(nets'[h])
        PROVE  \E i \in Live : x \in Addrs(nets[i])
    <3>1. CASE h \in (r + 1) .. (Len - 1)
      BY <1>11, <1>12, <3>1, <2>2
    <3>2. CASE h \in 0 .. (w - 1) /\ h # k'
      <4>1. from(h) \in 0 .. w /\ from(h) # k
        BY <1>10, <3>2
      <4>2. nets'[h] = nets[from(h)]
        BY <1>9, <1>13, <3>2, <4>1
      <4> QED
        BY <1>11, <2>2, <4>1, <4>2
    <3>3. CASE h = k'
      <4>1. nets'[h] = merged
        BY <1>8, <1>9, <1>10, <3>3
      <4>2. k \in Live /\ j \in Live
        BY <1>3, <1>4, <1>11
      <4> QED
        BY <1>7, <2>2, <4>1, <4>2
    <3> QED
      BY <1>11, <3>1, <3>2, <3>3
  <2> QED
    BY <2>1, <2>2, SameUnion
<1>15. UnionPreserved'
  BY <1>2, <1>14 DEF IInv, UnionPreserved
<1>16. StackClosed'
  <2> SUFFICES ASSUME NEW i \in 0 .. (w - 1), NEW h \in 0 .. (w - 1), i # h, i # k', h # k'
               PROVE  Merge(nets'[i], nets'[h]) = {}
    BY <1>2 DEF StackClosed
  <2>1. /\ from(i) \in 0 .. w /\ from(h) \in 0 .. w
        /\ from(i) # k /\ from(h) # k /\ from(i) # from(h)
    BY <1>10
  <2>2. nets'[i] = nets[from(i)] /\ nets'[h] = nets[from(h)]
    BY <1>9, <1>13, <2>1
  <2> QED
    BY <1>2, <2>1, <2>2 DEF IInv, StackClosed
<1>17. TypeOK'
  <2>1. w' \in -1 .. Len /\ k' \in Nat
    BY <1>1, <1>2, <1>3, <1>10
  <2> QED
    BY <1>2, <1>3, <1>9, <2>1 DEF IInv, TypeOK
<1>18. StackBelowCandidates'
  BY <1>1, <1>2, <1>3, <1>10 DEF StackBelowCandidates
<1> QED
  BY <1>2, <1>15, <1>16, <1>17, <1>18 DEF IInv

(* A rescan without a partner has checked the whole stack.                 *)
LEMMA SettlePreserves ==
  ASSUME IInv, Settle
  PROVE  IInv'
<1>1. Len \in Nat /\ Index = 0 .. (Len - 1) /\ nets \in [Index -> Network]
  BY LenType DEF IInv, TypeOK
<1>2. /\ input' = input /\ Len' = Len /\ Index' = Index /\ nets' = nets
      /\ w' = w /\ k' = k /\ r' = r + 1 /\ pc = "rescan" /\ pc' = "scan"
  BY DEF Settle, Len, Index
<1>3. w \in Nat /\ w < r /\ r \in Nat /\ r < Len /\ k \in 0 .. w
  BY <1>1, <1>2 DEF IInv, TypeOK, StackBelowCandidates
<1>4. Live' = Live
  BY <1>2 DEF Live
<1>5. UnionPreserved'
  BY <1>2, <1>4 DEF IInv, UnionPreserved, Union
<1>6. \A i \in 0 .. w : i # k => Merge(nets[k], nets[i]) = {} /\ Merge(nets[i], nets[k]) = {}
  <2>1. \A i \in 0 .. w : i # k => Merge(nets[k], nets[i]) = {}
    BY DEF Settle, Rescan
  <2>2. \A i \in 0 .. w : i \in Index
    BY <1>1, <1>3
  <2> QED
    BY <1>1, <1>3, <2>1, <2>2, MergeSymmetric
<1>7. StackClosed'
  BY <1>2, <1>6 DEF IInv, StackClosed
<1>8. TypeOK'
  BY <1>2, <1>3 DEF IInv, TypeOK
<1> QED
  BY <1>1, <1>2, <1>3, <1>5, <1>7, <1>8 DEF IInv, StackBelowCandidates

(* Nothing is left to read.                                                *)
LEMMA ReturnPreserves ==
  ASSUME IInv, Return
  PROVE  IInv'
<1>1. Len \in Nat /\ Index = 0 .. (Len - 1) /\ nets \in [Index -> Network]
  BY LenType DEF IInv, TypeOK
<1>2. /\ input' = input /\ Len' = Len /\ Index' = Index /\ nets' = nets
      /\ w' = w /\ k' = k /\ r' = r /\ pc = "scan" /\ pc' = "done" /\ r = Len
  BY DEF Return, Len, Index
<1>3. 0 <= w /\ w < r
  BY <1>2 DEF IInv, StackBelowCandidates
<1>4. Live' = Live
  <2>1. r .. (Len - 1) = {}
    BY <1>1, <1>2
  <2> QED
    BY <1>2, <2>1 DEF Live
<1>5. UnionPreserved'
  BY <1>2, <1>4 DEF IInv, UnionPreserved, Union
<1>6. StackClosed'
  BY <1>2 DEF IInv, StackClosed
<1>7. TypeOK'
  BY <1>2 DEF IInv, TypeOK
<1> QED
  BY <1>2, <1>3, <1>5, <1>6, <1>7 DEF IInv, StackBelowCandidates

(* A step of the caller alone changes nothing.                             *)
LEMMA StutterPreserves ==
  ASSUME IInv, UNCHANGED vars
  PROVE  IInv'
<1>1. /\ input' = input /\ nets' = nets /\ w' = w /\ r' = r /\ k' = k /\ pc' = pc
      /\ Len' = Len /\ Index' = Index /\ Live' = Live
  BY DEF vars, Len, Index, Live
<1>2. TypeOK' /\ StackBelowCandidates'
  BY <1>1 DEF IInv, TypeOK, StackBelowCandidates
<1>3. UnionPreserved'
  BY <1>1 DEF IInv, UnionPreserved, Union
<1>4. StackClosed'
  BY <1>1 DEF IInv, StackClosed
<1> QED
  BY <1>1, <1>2, <1>3, <1>4 DEF IInv

(* The cases of the next-state relation.                                   *)
LEMMA NextPreserves ==
  ASSUME IInv, [Next]_vars
  PROVE  IInv'
BY ReturnShortPreserves, SortPreserves, PushPreserves, AbsorbPreserves, CascadePreserves,
   SettlePreserves, ReturnPreserves, StutterPreserves DEF Next

(* The inductive invariant holds throughout (aggregate.go:18).             *)
LEMMA Invariance == Spec => []IInv
<1>1. Init => IInv
  BY InitEstablishes
<1>2. IInv /\ [Next]_vars => IInv'
  BY NextPreserves
<1> QED
  BY <1>1, <1>2, PTL DEF Spec

-----------------------------------------------------------------------------
(* The slice always holds normalized networks, with every counter a number *)
(* (aggregate.go:20): no raw construction in Merge breaks normalization.   *)
THEOREM TypeCorrect == Spec => []TypeOK
<1>1. IInv => TypeOK
  BY DEF IInv
<1> QED
  BY <1>1, Invariance, PTL

(* Aggregate4 loses no address and invents none (aggregate.go:11).         *)
THEOREM UnionIsPreserved == Spec => []UnionPreserved
<1>1. IInv => UnionPreserved
  BY DEF IInv
<1> QED
  BY <1>1, Invariance, PTL

(* The stack top stays below the candidate being read (aggregate.go:48).   *)
THEOREM StackStaysBelow == Spec => []StackBelowCandidates
<1>1. IInv => StackBelowCandidates
  BY DEF IInv
<1> QED
  BY <1>1, Invariance, PTL

(* Only pairs with the grown survivor can merge (aggregate.go:52).         *)
THEOREM StackStaysClosed == Spec => []StackClosed
<1>1. IInv => StackClosed
  BY DEF IInv
<1> QED
  BY <1>1, Invariance, PTL

(* No two networks of the result have a union that is a network            *)
(* (aggregate.go:10): survivors never merge, and Merge misses no union.    *)
THEOREM ResultIsIrreducible == Spec => []ResultIrreducible
<1>1. ASSUME IInv PROVE ResultIrreducible
  <2>1. Len \in Nat /\ Index = 0 .. (Len - 1) /\ nets \in [Index -> Network]
    BY <1>1, LenType DEF IInv, TypeOK
  <2> SUFFICES ASSUME pc = "done", NEW i \in 0 .. w, NEW j \in 0 .. w, i # j, NEW u \in Network,
                      Addrs(u) = Addrs(nets[i]) \cup Addrs(nets[j])
               PROVE  FALSE
    BY DEF ResultIrreducible
  <2>2. i \in Index /\ j \in Index
    BY <1>1, <2>1 DEF IInv, TypeOK
  <2>3. Merge(nets[i], nets[j]) # {}
    BY <2>1, <2>2, MergeIsComplete
  <2>4. Merge(nets[i], nets[j]) = {}
    BY <1>1 DEF IInv, StackClosed
  <2> QED
    BY <2>3, <2>4
<1> QED
  BY <1>1, Invariance, PTL

(* After the sort no step writes a candidate that is still to be read      *)
(* (aggregate.go:48, 65).                                                  *)
THEOREM CandidatesStayUntouched == Spec => CandidatesUntouched
<1>1. ASSUME IInv, [Next]_vars
      PROVE  [pc # "sort" => \A i \in (r + 1) .. (Len - 1) : nets'[i] = nets[i]]_vars
  <2> SUFFICES ASSUME Next, pc # "sort", NEW i \in (r + 1) .. (Len - 1)
               PROVE  nets'[i] = nets[i]
    BY <1>1
  <2>1. Len \in Nat /\ Index = 0 .. (Len - 1) /\ nets \in [Index -> Network]
    BY <1>1, LenType DEF IInv, TypeOK
  <2>2. TypeOK /\ StackBelowCandidates
    BY <1>1 DEF IInv
  <2>3. CASE Push
    BY <2>1, <2>2, <2>3 DEF Push, TypeOK, StackBelowCandidates
  <2>4. CASE Absorb
    <3>1. w \in Nat /\ w < r /\ r \in Nat
      BY <2>2, <2>4 DEF Absorb, TypeOK, StackBelowCandidates
    <3>2. k' \in 0 .. w
      <4>1. Partners \subseteq 0 .. w /\ Partners # {}
        BY <2>4 DEF Absorb, Partners
      <4> QED
        BY <2>4, <3>1, <4>1, HighestExists DEF Absorb
    <3>3. i \in Index /\ i # k'
      BY <2>1, <3>1, <3>2
    <3> QED
      BY <2>1, <2>4, <3>3 DEF Absorb
  <2>5. CASE Cascade
    <3>1. w \in Nat /\ w < r /\ r \in Nat /\ r < Len /\ k \in 0 .. w
      BY <2>2, <2>5 DEF Cascade, TypeOK, StackBelowCandidates
    <3>2. PICK merged : nets' = Remove([nets EXCEPT ![k] = merged], Lowest(Rescan), w)
      BY <2>5 DEF Cascade
    <3>3. i \in Index /\ ~(i < w) /\ i # k
      BY <2>1, <3>1
    <3> QED
      BY <2>1, <3>2, <3>3 DEF Remove
  <2> QED
    BY <2>3, <2>4, <2>5 DEF Next, ReturnShort, Sort, Settle, Return
<1> QED
  BY <1>1, Invariance, PTL DEF Spec, CandidatesUntouched

-----------------------------------------------------------------------------
(* The pair of networks a replacement takes out, as counts.                *)
LEMMA TogetherCounts ==
  ASSUME NEW p, NEW q
  PROVE  Abstract!Together(p, q) = [n \in {p, q} |-> IF p = q THEN 2 ELSE 1]
BY DEF Abstract!Together, Abstract!Single, Abstract!SetToBag, Abstract!(+)

(* Two entries that become one: the bag with the pair replaced.            *)
LEMMA Replaced ==
  ASSUME NEW S, IsFiniteSet(S), NEW i \in S, NEW j \in S, i # j, NEW T, T = S \ {j},
         NEW a, NEW b, \A x \in S \ {i, j} : b[x] = a[x]
  PROVE  /\ a[i] \in Abstract!BagToSet(BagOf(a, S)) /\ a[j] \in Abstract!BagToSet(BagOf(a, S))
         /\ Abstract!\sqsubseteq(Abstract!Together(a[i], a[j]), BagOf(a, S))
         /\ BagOf(b, T)
              = Abstract!(+)(Abstract!(-)(BagOf(a, S), Abstract!Together(a[i], a[j])),
                             Abstract!Single(b[i]))
<1> DEFINE F == BagOf(a, S)
           G == BagOf(b, T)
           R == S \ {i, j}
           P == Abstract!Together(a[i], a[j])
           A == {a[x] : x \in S}
           B == {b[x] : x \in T}
           E == Abstract!(+)(Abstract!(-)(F, P), Abstract!Single(b[i]))
           c(n) == Copies(a, R, n)
           cF(n) == Copies(a, S, n)
           cG(n) == Copies(b, T, n)
<1>0. IsFiniteSet(T) /\ i \in T /\ R = T \ {i}
  BY FS_Subset
<1>1. ASSUME NEW n
      PROVE  /\ c(n) \in Nat
             /\ cF(n) = c(n) + (IF a[i] = n THEN 1 ELSE 0) + (IF a[j] = n THEN 1 ELSE 0)
             /\ cG(n) = c(n) + IF b[i] = n THEN 1 ELSE 0
  <2>1. /\ Copies(a, T, n) \in Nat
        /\ cF(n) = Copies(a, T, n) + IF a[j] = n THEN 1 ELSE 0
    BY CountWithout
  <2>2. Copies(b, R, n) = c(n)
    <3>1. {x \in S \ {i, j} : b[x] = n} = {x \in S \ {i, j} : a[x] = n}
      OBVIOUS
    <3> QED
      BY <3>1 DEF Copies
  <2> HIDE DEF R
  <2>3. c(n) \in Nat /\ Copies(a, T, n) = c(n) + IF a[i] = n THEN 1 ELSE 0
    BY <1>0, CountWithout
  <2>4. cG(n) = Copies(b, R, n) + IF b[i] = n THEN 1 ELSE 0
    BY <1>0, CountWithout
  <2> HIDE DEF c, cF, cG
  <2> QED
    BY <2>1, <2>2, <2>3, <2>4
<1>2. \A n : (n \in A <=> cF(n) > 0) /\ (n \in B <=> cG(n) > 0)
  <2>1. \A n : n \in A <=> cF(n) > 0
    BY CountPositive
  <2>2. \A n : n \in B <=> cG(n) > 0
    BY <1>0, CountPositive
  <2> QED
    BY <2>1, <2>2, Zenon
<1>3. F = [n \in A |-> cF(n)] /\ G = [n \in B |-> cG(n)]
  BY DEF BagOf, Copies
<1>4. P = [n \in {a[i], a[j]} |-> IF a[i] = a[j] THEN 2 ELSE 1]
  BY TogetherCounts
<1>5. a[i] \in A /\ a[j] \in A
  OBVIOUS
<1> HIDE DEF F, G, P, R, c, A, B, cF, cG
<1>6. a[i] \in Abstract!BagToSet(F) /\ a[j] \in Abstract!BagToSet(F)
  BY <1>3, <1>5 DEF Abstract!BagToSet
<1>7. Abstract!\sqsubseteq(P, F)
  BY <1>1, <1>3, <1>4, <1>5 DEF Abstract!\sqsubseteq
<1>8. G = E
  <2>1. DOMAIN F = A /\ \A n \in A : F[n] = cF(n)
    BY <1>3
  <2>2. DOMAIN P = {a[i], a[j]} /\ \A n \in {a[i], a[j]} : P[n] = IF a[i] = a[j] THEN 2 ELSE 1
    BY <1>4
  <2> DEFINE left == {n \in A : c(n) > 0}
  <2>3. Abstract!(-)(F, P) = [n \in left |-> c(n)]
    <3> DEFINE D == [e \in DOMAIN F |-> IF e \in DOMAIN P THEN F[e] - P[e] ELSE F[e]]
    <3>1. ASSUME NEW n \in A PROVE D[n] = c(n)
      BY <1>1, <2>1, <2>2, <3>1
    <3>2. DOMAIN D = A
      BY <2>1
    <3>3. Abstract!(-)(F, P) = [e \in {d \in DOMAIN D : D[d] > 0} |-> D[e]]
      BY DEF Abstract!(-)
    <3> HIDE DEF D
    <3>4. {d \in DOMAIN D : D[d] > 0} = left
      BY <3>1, <3>2
    <3> QED
      BY <3>1, <3>3, <3>4
  <2>4. E = [n \in left \cup {b[i]} |-> (IF n \in left THEN c(n) ELSE 0) + IF n = b[i] THEN 1 ELSE 0]
    BY <2>3 DEF Abstract!(+), Abstract!Single, Abstract!SetToBag
  <2>5. ASSUME NEW n PROVE n \in B <=> n \in left \cup {b[i]}
    BY <1>1, <1>2
  <2>6. ASSUME NEW n \in B
        PROVE  cG(n) = (IF n \in left THEN c(n) ELSE 0) + IF n = b[i] THEN 1 ELSE 0
    BY <1>1, <1>2
  <2>7. B = left \cup {b[i]}
    BY <2>5
  <2> HIDE DEF left, E
  <2> QED
    BY <1>3, <2>4, <2>6, <2>7
<1> QED
  BY <1>6, <1>7, <1>8 DEF F, G, P
(* Entries renamed leave the bag as it was.                                *)
LEMMA Renamed ==
  ASSUME NEW S, IsFiniteSet(S), NEW T, NEW a, NEW b, NEW f \in [T -> S],
         \A s \in S : \E t \in T : f[t] = s,
         \A t, v \in T : f[t] = f[v] => t = v,
         \A t \in T : b[t] = a[f[t]]
  PROVE  BagOf(b, T) = BagOf(a, S)
<1>1. /\ {b[t] : t \in T} = {a[s] : s \in S}
      /\ \A n : Copies(b, T, n) = Copies(a, S, n)
  BY CountReindexed
<1>2. BagOf(b, T) = [n \in {b[t] : t \in T} |-> Copies(b, T, n)]
  BY DEF BagOf, Copies
<1>3. BagOf(a, S) = [n \in {a[s] : s \in S} |-> Copies(a, S, n)]
  BY DEF BagOf, Copies
<1> QED
  BY <1>1, <1>2, <1>3

(* The network Merge returns is the one the abstract step unites to.       *)
LEMMA MergeUnites ==
  ASSUME NEW a \in Network, NEW b \in Network, NEW u \in Merge(a, b)
  PROVE  u \in Abstract!Unite(a, b)
<1>1. u \in Network /\ Addrs(u) = Addrs(a) \cup Addrs(b)
  BY MergeIsUnion
<1>2. u = FromBits(a.addr, {i \in a.mask \cap b.mask : i \in a.addr <=> i \in b.addr})
  BY <1>1, UnionIsHull
<1>3. u = Abstract!Hull(a, b)
  BY <1>2 DEF Abstract!Hull, Abstract!FromBits, FromBits
<1>4. \A n : Abstract!Addrs(n) = Addrs(n)
  BY DEF Abstract!Addrs, Addrs, Abstract!Word, Word, Abstract!Bits, Bits
<1>5. Abstract!Addrs(u) = Abstract!Addrs(a) \cup Abstract!Addrs(b)
  BY <1>1, <1>4, Zenon
<1> QED
  BY <1>1, <1>3, <1>5 DEF Abstract!Unite

(* A family no two entries of which unite is closed: a pair of copies of   *)
(* one network in the bag is a pair of entries too.                        *)
LEMMA ClosedFamily ==
  ASSUME NEW S, IsFiniteSet(S), NEW a, \A x \in S : a[x] \in Network,
         \A x, y \in S : x # y => Merge(a[x], a[y]) = {}
  PROVE  Abstract!Closed(BagOf(a, S))
<1> DEFINE F == BagOf(a, S)
<1>1. F = [n \in {a[x] : x \in S} |-> Copies(a, S, n)]
  BY DEF BagOf, Copies
<1> SUFFICES ASSUME NEW p \in Abstract!BagToSet(F), NEW q \in Abstract!BagToSet(F),
                    NEW u \in Abstract!Unite(p, q),
                    Abstract!\sqsubseteq(Abstract!Together(p, q), F)
             PROVE  FALSE
  BY DEF Abstract!Closed
<1> HIDE DEF F
<1>2. p \in {a[x] : x \in S} /\ q \in {a[x] : x \in S}
  BY <1>1 DEF Abstract!BagToSet
<1>3. \E x, y \in S : x # y /\ a[x] = p /\ a[y] = q
  <2>1. CASE p = q
    <3>1. Abstract!Together(p, q) = [n \in {p, q} |-> 2]
      BY <2>1, TogetherCounts
    <3>2. F[p] >= 2
      BY <3>1, <1>1, <1>2 DEF Abstract!\sqsubseteq
    <3>3. F[p] = Copies(a, S, p)
      BY <1>1, <1>2
    <3>4. Copies(a, S, p) \in Nat
      BY CountPositive
    <3>5. Copies(a, S, p) > 1
      BY <3>2, <3>3, <3>4
    <3> QED
      BY <2>1, <3>5, CountPositive
  <2>2. CASE p # q
    BY <1>2, <2>2
  <2> QED
    BY <2>1, <2>2
<1>4. PICK x \in S, y \in S : x # y /\ a[x] = p /\ a[y] = q
  BY <1>3
<1>5. u \in Network /\ Abstract!Addrs(u) = Abstract!Addrs(p) \cup Abstract!Addrs(q)
  BY DEF Abstract!Unite
<1>6. \A n : Abstract!Addrs(n) = Addrs(n)
  BY DEF Abstract!Addrs, Addrs, Abstract!Word, Word, Abstract!Bits, Bits
<1>7. Addrs(u) = Addrs(p) \cup Addrs(q)
  BY <1>5, <1>6, Zenon
<1>8. p \in Network /\ q \in Network
  BY <1>4
<1>9. Merge(p, q) # {}
  BY <1>5, <1>7, <1>8, MergeIsComplete
<1> QED
  BY <1>4, <1>9

(* The bag F with p and q replaced by u, as the abstract step does it.     *)
Replaces(F, G, p, q, u) ==
  /\ p \in Abstract!BagToSet(F) /\ q \in Abstract!BagToSet(F)
  /\ u \in Abstract!Unite(p, q)
  /\ Abstract!\sqsubseteq(Abstract!Together(p, q), F)
  /\ G = Abstract!(+)(Abstract!(-)(F, Abstract!Together(p, q)), Abstract!Single(u))

(* Two entries that become their merge are such a replacement.             *)
LEMMA MergeReplaces ==
  ASSUME NEW S, IsFiniteSet(S), NEW i \in S, NEW j \in S, i # j, NEW T, T = S \ {j},
         NEW a, NEW b, \A x \in S \ {i, j} : b[x] = a[x],
         a[i] \in Network, a[j] \in Network, b[i] \in Merge(a[i], a[j])
  PROVE  Replaces(BagOf(a, S), BagOf(b, T), a[i], a[j], b[i])
<1>1. b[i] \in Abstract!Unite(a[i], a[j])
  BY MergeUnites
<1>2. /\ a[i] \in Abstract!BagToSet(BagOf(a, S)) /\ a[j] \in Abstract!BagToSet(BagOf(a, S))
      /\ Abstract!\sqsubseteq(Abstract!Together(a[i], a[j]), BagOf(a, S))
      /\ BagOf(b, T)
           = Abstract!(+)(Abstract!(-)(BagOf(a, S), Abstract!Together(a[i], a[j])),
                          Abstract!Single(b[i]))
  BY Replaced
<1> QED
  BY <1>1, <1>2, Zenon DEF Replaces

(* While the pass runs, such a change of the live entries is a step.       *)
LEMMA ReplaceSteps ==
  ASSUME NEW p, NEW q, NEW u, Replaces(BagOf(nets, Live), BagOf(nets, Live)', p, q, u),
         pc # "done", pc' # "done"
  PROVE  Abstract!Next
BY DEF Replaces, Abstract!Replace, Abstract!Next
-----------------------------------------------------------------------------
(* Implementation.  The bag of the live entries is the family of Coalesce: *)
(* a step of the pass renames its entries, or replaces two by their merge. *)

LEMMA Standing ==
  ASSUME IInv
  PROVE  /\ Len \in Nat /\ Index = 0 .. (Len - 1) /\ nets \in [Index -> Network]
         /\ w \in Int /\ r \in Nat /\ k \in Nat
         /\ pc \in {"scan", "rescan"} => 0 <= w /\ w < r /\ r <= Len
         /\ pc = "rescan" => k \in 0 .. w /\ r < Len
         /\ Live \subseteq Index /\ IsFiniteSet(Live)
<1>1. /\ Len \in Nat /\ Index = 0 .. (Len - 1) /\ nets \in [Index -> Network]
      /\ w \in Int /\ r \in Nat /\ k \in Nat
      /\ pc \in {"sort", "scan", "rescan", "done"}
      /\ pc \in {"scan", "rescan"} => 0 <= w /\ w < r /\ r <= Len
      /\ pc = "rescan" => k \in 0 .. w /\ r < Len
      /\ pc = "done" => w < Len
  BY LenType DEF IInv, TypeOK, StackBelowCandidates
<1>2. Live \subseteq Index
  BY <1>1 DEF Live
<1>3. IsFiniteSet(Index)
  <2>1. \A n \in Nat : IsFiniteSet(0 .. (n - 1))
    BY FS_Interval
  <2> QED
    BY <1>1, <2>1
<1>4. IsFiniteSet(Live)
  BY <1>2, <1>3, FS_Subset
<1> QED
  BY <1>1, <1>2, <1>4

(* What the caller passes is a bag of networks.                            *)
LEMMA InitSimulates ==
  ASSUME Init
  PROVE  Abstract!Init
<1>1. IInv
  BY InitEstablishes
<1>2. IsFiniteSet(Live) /\ Live \subseteq Index /\ nets \in [Index -> Network]
  BY <1>1, Standing
<1> DEFINE F == BagOf(nets, Live)
<1>3. F = [n \in {nets[i] : i \in Live} |-> Copies(nets, Live, n)]
  BY DEF BagOf, Copies
<1>4. \A n \in {nets[i] : i \in Live} : Copies(nets, Live, n) \in Nat /\ Copies(nets, Live, n) > 0
  BY <1>2, CountPositive
<1> HIDE DEF F
<1>5. Abstract!IsABag(F)
  BY <1>3, <1>4 DEF Abstract!IsABag
<1>6. Abstract!BagToSet(F) \subseteq Network
  BY <1>2, <1>3 DEF Abstract!BagToSet
<1> QED
  BY <1>5, <1>6 DEF Init, Abstract!Init, F

(* A slice of at most one network has no pair to unite.                    *)
LEMMA ReturnShortSimulates ==
  ASSUME IInv, IInv', ReturnShort
  PROVE  Abstract!Next
<1>1. /\ Len \in Nat /\ Index = 0 .. (Len - 1) /\ nets \in [Index -> Network]
      /\ IsFiniteSet(Live) /\ Live \subseteq Index
  BY Standing
<1>2. \A x, y \in Live : x = y
  BY <1>1 DEF ReturnShort
<1>3. \A x \in Live : nets[x] \in Network
  BY <1>1
<1>4. Abstract!Closed(BagOf(nets, Live))
  BY <1>1, <1>2, <1>3, ClosedFamily
<1>5. Live' = Live /\ nets' = nets
  BY <1>1 DEF ReturnShort, Live, Index, Len
<1>6. BagOf(nets, Live)' = BagOf(nets, Live)
  BY <1>5
<1> QED
  BY <1>4, <1>6 DEF ReturnShort, Abstract!Next, Abstract!Finish

(* The end of the pass: no two survivors merge.                            *)
LEMMA ReturnSimulates ==
  ASSUME IInv, IInv', Return
  PROVE  Abstract!Next
<1>1. /\ Len \in Nat /\ Index = 0 .. (Len - 1) /\ nets \in [Index -> Network]
      /\ w \in Int /\ IsFiniteSet(Live) /\ Live \subseteq Index
  BY Standing
<1>2. pc = "scan" /\ pc' = "done" /\ r = Len /\ nets' = nets /\ w' = w
  BY DEF Return
<1>3. Live = 0 .. w /\ Live' = 0 .. w
  BY <1>1, <1>2 DEF Live
<1>4. \A x, y \in Live : x # y => Merge(nets[x], nets[y]) = {}
  BY <1>2, <1>3 DEF IInv, StackClosed
<1>5. \A x \in Live : nets[x] \in Network
  BY <1>1
<1>6. Abstract!Closed(BagOf(nets, Live))
  BY <1>1, <1>4, <1>5, ClosedFamily
<1>7. BagOf(nets, Live)' = BagOf(nets, Live)
  BY <1>2, <1>3
<1> QED
  BY <1>2, <1>6, <1>7 DEF Abstract!Next, Abstract!Finish

(* The order of the entries does not show in the bag.                      *)
LEMMA SortSimulates ==
  ASSUME IInv, IInv', Sort
  PROVE  UNCHANGED Abstract!vars
<1>1. /\ Len \in Nat /\ Index = 0 .. (Len - 1) /\ nets \in [Index -> Network]
      /\ Live \subseteq Index /\ IsFiniteSet(Live)
  BY Standing
<1>2. pc = "sort" /\ pc' = "scan" /\ w = 0 /\ w' = 0 /\ r = 1 /\ r' = 1 /\ Len > 1 /\ Len' = Len
  BY DEF IInv, Sort, Len
<1>3. Live = Index /\ Live' = Index
  BY <1>1, <1>2 DEF Live
<1>4. PICK p \in [Index -> Index] :
        (\A j \in Index : \E i \in Index : p[i] = j) /\ nets' = [i \in Index |-> nets[p[i]]]
  <2>1. DOMAIN nets = Index
    BY <1>1
  <2> QED
    BY <1>1, <2>1 DEF Sort, IndexPermutations, Permuted
<1>5. \A i, j \in Index : p[i] = p[j] => i = j
  <2>1. IsFiniteSet(Index)
    BY <1>1, <1>3
  <2>2. p \in Surjection(Index, Index)
    BY <1>4 DEF Surjection
  <2>3. p \in Injection(Index, Index)
    BY <2>1, <2>2, FS_Surjection
  <2> QED
    BY <2>3 DEF Injection, IsInjective
<1>6. \A i \in Index : nets'[i] = nets[p[i]]
  BY <1>4
<1>7. BagOf(nets', Index) = BagOf(nets, Index)
  <2>1. p \in [Index -> Index] /\ IsFiniteSet(Index)
    BY <1>1, <1>3
  <2>2. \A j \in Index : \E i \in Index : p[i] = j
    BY <1>4
  <2> QED
    BY <1>5, <1>6, <2>1, <2>2, Renamed
<1> QED
  BY <1>2, <1>3, <1>7 DEF Abstract!vars

(* The candidate only moves.                                               *)
LEMMA PushSimulates ==
  ASSUME IInv, IInv', Push
  PROVE  UNCHANGED Abstract!vars
<1>1. /\ Len \in Nat /\ Index = 0 .. (Len - 1) /\ nets \in [Index -> Network]
      /\ w \in Nat /\ w < r /\ r < Len /\ r \in Nat /\ IsFiniteSet(Live)
  BY Standing DEF Push
<1>2. /\ pc = "scan" /\ pc' = "scan" /\ w' = w + 1 /\ r' = r + 1 /\ Len' = Len
      /\ nets' = [nets EXCEPT ![w + 1] = nets[r]]
  BY DEF Push, Len
<1>3. Live = (0 .. w) \cup (r .. (Len - 1)) /\ Live' = (0 .. (w + 1)) \cup ((r + 1) .. (Len - 1))
  BY <1>1, <1>2 DEF Live
<1> DEFINE f == [i \in Live' |-> IF i = w + 1 THEN r ELSE i]
<1>4. \A i \in Live' : f[i] = IF i = w + 1 THEN r ELSE i
  OBVIOUS
<1>5. \A i \in Live' : (IF i = w + 1 THEN r ELSE i) \in Live
  BY <1>1, <1>3
<1>6. f \in [Live' -> Live]
  BY <1>5
<1> HIDE DEF f
<1>7. \A s \in Live : \E i \in Live' : f[i] = s
  <2> SUFFICES ASSUME NEW s \in Live PROVE \E i \in Live' : f[i] = s
    OBVIOUS
  <2>1. CASE s = r
    <3>1. w + 1 \in Live' /\ f[w + 1] = r
      BY <1>1, <1>3, <1>4
    <3> QED
      BY <2>1, <3>1
  <2>2. CASE s # r
    <3>1. s \in Live' /\ s # w + 1
      BY <1>1, <1>3, <2>2
    <3> QED
      BY <1>4, <3>1
  <2> QED
    BY <2>1, <2>2
<1>8. \A i, j \in Live' : f[i] = f[j] => i = j
  BY <1>1, <1>3, <1>4
<1>9. \A i \in Live' : nets'[i] = nets[f[i]]
  BY <1>1, <1>2, <1>3, <1>4
<1>10. BagOf(nets', Live') = BagOf(nets, Live)
  BY <1>1, <1>6, <1>7, <1>8, <1>9, Renamed
<1> QED
  BY <1>2, <1>10 DEF Abstract!vars

(* The survivor and the candidate become their merge.                      *)
LEMMA AbsorbSimulates ==
  ASSUME IInv, IInv', Absorb
  PROVE  Abstract!Next
<1>1. /\ Len \in Nat /\ Index = 0 .. (Len - 1) /\ nets \in [Index -> Network]
      /\ w \in Nat /\ w < r /\ r < Len /\ r \in Nat /\ IsFiniteSet(Live)
  BY Standing DEF Absorb
<1>2. pc = "scan" /\ pc' \in {"scan", "rescan"} /\ w' = w /\ Len' = Len
  BY DEF Absorb, Len
<1>3. k' \in 0 .. w
  <2>1. Partners \subseteq 0 .. w /\ Partners # {}
    BY DEF Absorb, Partners
  <2> QED
    BY <1>1, <2>1, HighestExists DEF Absorb
<1>4. PICK merged \in Merge(nets[k'], nets[r]) :
        /\ nets' = [nets EXCEPT ![k'] = merged]
        /\ (pc' = "rescan" /\ r' = r) \/ (pc' = "scan" /\ r' = r + 1)
  BY DEF Absorb
<1>5. /\ Live = (0 .. w) \cup (r .. (Len - 1))
      /\ Live' = (0 .. w) \cup ((r + 1) .. (Len - 1))
  BY <1>2, <1>4 DEF Live
<1>6. /\ k' \in Live /\ r \in Live /\ k' # r /\ Live' = Live \ {r}
      /\ k' \in Index /\ r \in Index /\ Live \subseteq Index
  BY <1>1, <1>3, <1>5
<1>7. nets'[k'] = merged /\ \A x \in Live \ {k', r} : nets'[x] = nets[x]
  BY <1>1, <1>4, <1>6
<1>8. nets[k'] \in Network /\ nets[r] \in Network /\ nets'[k'] \in Merge(nets[k'], nets[r])
  BY <1>1, <1>4, <1>6, <1>7
<1>9. Replaces(BagOf(nets, Live), BagOf(nets', Live'), nets[k'], nets[r], nets'[k'])
  BY <1>1, <1>6, <1>7, <1>8, MergeReplaces
<1> QED
  BY <1>2, <1>9, ReplaceSteps

(* The same for two survivors; closing the gap only renames the entries.   *)
LEMMA CascadeSimulates ==
  ASSUME IInv, IInv', Cascade
  PROVE  Abstract!Next
<1>1. /\ Len \in Nat /\ Index = 0 .. (Len - 1) /\ nets \in [Index -> Network]
      /\ w \in Nat /\ w < r /\ r < Len /\ r \in Nat /\ k \in 0 .. w /\ IsFiniteSet(Live)
  BY Standing DEF Cascade
<1>2. pc = "rescan" /\ pc' = "rescan" /\ w' = w - 1 /\ r' = r /\ Len' = Len
  BY DEF Cascade, Len
<1> DEFINE j == Lowest(Rescan)
<1>3. j \in (0 .. w) \ {k}
  <2>1. Rescan # {}
    BY DEF Cascade
  <2>2. \A i \in Rescan : i \in (0 .. w) \ {k}
    BY DEF Rescan
  <2>3. Rescan \subseteq Nat
    BY <1>1, <2>2
  <2> QED
    BY <2>1, <2>2, <2>3, LowestExists
<1>4. PICK merged \in Merge(nets[k], nets[j]) :
        nets' = Remove([nets EXCEPT ![k] = merged], j, w)
  BY DEF Cascade
<1> HIDE DEF j
<1> DEFINE a == [nets EXCEPT ![k] = merged]
           gone == Live \ {j}
           f == [i \in Live' |-> IF i < j \/ i > r THEN i ELSE i + 1]
<1>5. /\ Live = (0 .. w) \cup ((r + 1) .. (Len - 1))
      /\ Live' = (0 .. (w - 1)) \cup ((r + 1) .. (Len - 1))
  BY <1>2 DEF Live
<1>6. k \in Live /\ j \in Live /\ k # j /\ Live \subseteq Index /\ Live' \subseteq Index
  BY <1>1, <1>3, <1>5
<1>7. merged \in Network /\ nets[k] \in Network /\ nets[j] \in Network
  BY <1>1, <1>4, <1>6, MergeIsUnion
<1>8. /\ a \in [0 .. (Len - 1) -> Network] /\ a[k] = merged
      /\ \A x \in Index : x # k => a[x] = nets[x]
  BY <1>1, <1>7
<1> HIDE DEF a
<1>9. /\ \A i \in 0 .. (w - 1) : nets'[i] = IF i < j THEN a[i] ELSE a[i + 1]
      /\ \A i \in w .. (Len - 1) : nets'[i] = a[i]
  <2>1. w < Len /\ j \in 0 .. w
    BY <1>1, <1>3
  <2>2. nets' = Remove(a, j, w)
    BY <1>4 DEF a
  <2>3. /\ \A i \in 0 .. (w - 1) : Remove(a, j, w)[i] = IF i < j THEN a[i] ELSE a[i + 1]
        /\ \A i \in w .. (Len - 1) : Remove(a, j, w)[i] = a[i]
    BY <1>1, <1>8, <2>1, RemoveEntries
  <2> QED
    BY <2>2, <2>3
<1>10. /\ \A i \in Live' : f[i] = IF i < j \/ i > r THEN i ELSE i + 1
       /\ f \in [Live' -> gone]
       /\ \A s \in gone : \E i \in Live' : f[i] = s
       /\ \A i, h \in Live' : f[i] = f[h] => i = h
       /\ \A i \in Live' : nets'[i] = a[f[i]]
  <2>1. \A i \in Live' : f[i] = IF i < j \/ i > r THEN i ELSE i + 1
    OBVIOUS
  <2>2. \A i \in Live' : (IF i < j \/ i > r THEN i ELSE i + 1) \in gone
    BY <1>1, <1>3, <1>5
  <2>3. f \in [Live' -> gone]
    BY <2>2
  <2> HIDE DEF f
  <2>4. ASSUME NEW s \in gone PROVE \E i \in Live' : f[i] = s
    <3>1. CASE s < j \/ s > r
      <4>1. s \in Live'
        BY <1>1, <1>3, <1>5, <3>1
      <4> QED
        BY <2>1, <3>1, <4>1
    <3>2. CASE ~(s < j \/ s > r)
      <4>1. s - 1 \in Live' /\ ~(s - 1 < j \/ s - 1 > r) /\ s - 1 + 1 = s
        BY <1>1, <1>3, <1>5, <3>2
      <4> QED
        BY <2>1, <4>1
    <3> QED
      BY <3>1, <3>2
  <2>5. \A i, h \in Live' : f[i] = f[h] => i = h
    BY <1>1, <1>3, <1>5, <2>1
  <2>6. \A i \in Live' : nets'[i] = a[f[i]]
    <3> SUFFICES ASSUME NEW i \in Live' PROVE nets'[i] = a[f[i]]
      OBVIOUS
    <3>1. CASE i \in 0 .. (w - 1)
      <4>1. ~(i > r)
        BY <1>1, <3>1
      <4> QED
        BY <1>9, <2>1, <3>1, <4>1
    <3>2. CASE i \in (r + 1) .. (Len - 1)
      <4>1. i > r /\ i \in w .. (Len - 1)
        BY <1>1, <3>2
      <4> QED
        BY <1>9, <2>1, <4>1
    <3> QED
      BY <1>5, <3>1, <3>2
  <2> QED
    BY <2>1, <2>3, <2>4, <2>5, <2>6
<1>11. IsFiniteSet(gone)
  BY <1>1, FS_Subset
<1> HIDE DEF f
<1>12. gone = Live \ {j}
  OBVIOUS
<1> HIDE DEF gone
<1>13. BagOf(nets', Live') = BagOf(a, gone)
  BY <1>10, <1>11, Renamed
<1>14. \A x \in Live \ {k, j} : a[x] = nets[x]
  BY <1>6, <1>8
<1>15. a[k] \in Merge(nets[k], nets[j])
  BY <1>4, <1>8
<1>16. Replaces(BagOf(nets, Live), BagOf(a, gone), nets[k], nets[j], a[k])
  BY <1>1, <1>6, <1>7, <1>12, <1>14, <1>15, MergeReplaces
<1> QED
  BY <1>2, <1>13, <1>16, ReplaceSteps

LEMMA SettleSimulates ==
  ASSUME IInv, IInv', Settle
  PROVE  UNCHANGED Abstract!vars
<1>1. Live' = Live /\ nets' = nets /\ pc = "rescan" /\ pc' = "scan"
  BY DEF Settle, Live, Len
<1> QED
  BY <1>1 DEF Abstract!vars

LEMMA StepSimulates ==
  ASSUME IInv, IInv', [Next]_vars
  PROVE  [Abstract!Next]_(Abstract!vars)
<1>1. CASE UNCHANGED vars
  <2>1. Live' = Live /\ nets' = nets /\ pc' = pc
    BY <1>1 DEF vars, Live, Len, Index
  <2> QED
    BY <2>1 DEF Abstract!vars
<1> QED
  BY <1>1, ReturnShortSimulates, SortSimulates, PushSimulates, AbsorbSimulates,
     CascadeSimulates, SettleSimulates, ReturnSimulates DEF Next

(* Aggregate4 only ever replaces two networks by the one that names their  *)
(* addresses, and returns when no such replacement is left (aggregate.go:  *)
(* 8): the safety half of Implements.                                      *)
THEOREM AggregatesByUniting == Spec => Abstract!Init /\ [][Abstract!Next]_(Abstract!vars)
<1>1. Init => Abstract!Init
  BY InitSimulates
<1>2. IInv /\ IInv' /\ [Next]_vars => [Abstract!Next]_(Abstract!vars)
  BY StepSimulates
<1> QED
  BY <1>1, <1>2, Invariance, PTL DEF Spec
=============================================================================
