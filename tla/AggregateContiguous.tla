------------------------- MODULE AggregateContiguous -------------------------
(***************************************************************************)
(* AggregateContiguous (aggregate.go:91): CIDR blocks aggregated in place  *)
(* into their minimal cover in one pass over the sorted slice.  nets[0..   *)
(* w-1] are the kept blocks; a candidate is matched against the last of    *)
(* them only, and a merge is matched again against the new last one.       *)
(***************************************************************************)
EXTENDS Slices

CONSTANT Inputs   \* the slices of CIDR blocks the function may be called with

Block == {n \in Network : IsContiguous(n)}

ASSUME InputsAssumption == \A a \in Inputs : IsSlice(a, Block)

VARIABLES
  input,     \* the slice as the caller passed it (never read by the code)
  nets,      \* the slice
  w,         \* how many blocks are kept
  r,         \* next candidate
  current,   \* the candidate, grown by the merges of this cascade
  pc

vars == <<input, nets, w, r, current, pc>>

Len == Cardinality(DOMAIN input)
Index == DOMAIN input

Universe == [addr |-> {}, mask |-> {}]

Init ==
  /\ input \in Inputs
  /\ nets = input
  /\ w = 1 /\ r = 1
  /\ current = Universe
  /\ pc = "sort"

(* A slice of at most one block is returned as it is.                      *)
ReturnShort ==
  /\ pc = "sort"
  /\ Len <= 1
  /\ w' = Len
  /\ pc' = "done"
  /\ UNCHANGED <<input, nets, r, current>>

Sort ==
  /\ pc = "sort"
  /\ Len > 1
  /\ \E p \in IndexPermutations(Len) : nets' = Permuted(nets, p) /\ Sorted(nets')
  /\ pc' = "next"
  /\ UNCHANGED <<input, w, r, current>>

(* current := nets[r]                                                      *)
Take ==
  /\ pc = "next"
  /\ r < Len
  /\ current' = nets[r]
  /\ pc' = "cascade"
  /\ UNCHANGED <<input, nets, w, r>>

Top == nets[w - 1]

(* Mutant: the merged block stays where it was.                            *)
CascadeKeeping ==
  /\ pc = "cascade"
  /\ w > 0
  /\ current' \in MergeByLowestMaskBit(Top, current)
  /\ UNCHANGED <<input, nets, w, r, pc>>

(* The last kept block and the candidate merge: the result is the new      *)
(* candidate and the block is taken off.                                   *)
Cascade ==
  /\ pc = "cascade"
  /\ w > 0
  /\ current' \in MergeByLowestMaskBit(Top, current)
  /\ w' = w - 1
  /\ UNCHANGED <<input, nets, r, pc>>

(* Mutant: one merge per candidate, so that no cascade happens.            *)
PlaceAtOnce ==
  /\ pc = "cascade"
  /\ w > 0 => MergeByLowestMaskBit(Top, current) = {} \/ current # nets[r]
  /\ nets' = [nets EXCEPT ![w] = current]
  /\ w' = w + 1
  /\ r' = r + 1
  /\ pc' = "next"
  /\ UNCHANGED <<input, current>>

Place ==
  /\ pc = "cascade"
  /\ w > 0 => MergeByLowestMaskBit(Top, current) = {}
  /\ nets' = [nets EXCEPT ![w] = current]
  /\ w' = w + 1
  /\ r' = r + 1
  /\ pc' = "next"
  /\ UNCHANGED <<input, current>>

(* return nets[:w]                                                         *)
Return ==
  /\ pc = "next"
  /\ r = Len
  /\ pc' = "done"
  /\ UNCHANGED <<input, nets, w, r, current>>

Next ==
  \/ ReturnShort
  \/ Sort
  \/ Take
  \/ Cascade
  \/ Place
  \/ Return

(* The function runs to its end: nothing it waits for exists.              *)
Spec == Init /\ [][Next]_vars /\ WF_vars(Next)

-----------------------------------------------------------------------------
(* The entries that still count; -1 stands for the candidate.              *)
Live ==
  CASE pc = "sort"    -> Index
    [] pc = "next"    -> (0 .. (w - 1)) \cup (r .. (Len - 1))
    [] pc = "cascade" -> (0 .. (w - 1)) \cup {-1} \cup ((r + 1) .. (Len - 1))
    [] pc = "done"    -> 0 .. (w - 1)
Entries == [i \in Live |-> IF i = -1 THEN current ELSE nets[i]]

Abstract == INSTANCE Coalesce WITH
  Class <- Block, family <- BagOf(Entries, Live), done <- (pc = "done")

TypeOK ==
  /\ input \in Inputs
  /\ nets \in [Index -> Block]
  /\ current \in Block
  /\ w \in 0 .. Len \/ pc = "sort"
  /\ r \in Nat
  /\ pc \in {"sort", "next", "cascade", "done"}

(* The kept blocks are disjoint, in order, and no two of them merge.       *)
KeptIrreducible ==
  pc # "sort" =>
    \A i, j \in 0 .. (w - 1) :
      i < j => /\ Before(nets[i], nets[j])
               /\ IsDisjoint(nets[i], nets[j])
               /\ MergeByLowestMaskBit(nets[i], nets[j]) = {}

(* However often it grew, the candidate does not sort before a kept block  *)
(* and meets none but the last: the blocks below it lie apart from the     *)
(* candidate and do not merge with it (aggregate.go:96).  So the kept      *)
(* blocks stay irreducible, and they never reach the candidates to come.   *)
OnlyTheTopMatters ==
  /\ TypeOK
  /\ KeptIrreducible
  /\ pc \in {"next", "cascade"} => w <= r
  /\ pc = "cascade" =>
       /\ \A i \in 0 .. (w - 1) : ~Before(current, nets[i])
       /\ \A i \in 0 .. (w - 2) :
            IsDisjoint(nets[i], current) /\ MergeByLowestMaskBit(nets[i], current) = {}

(* The result is THE smallest set of blocks with the input's addresses:    *)
(* exactly the maximal blocks inside the union, in order.                  *)
ResultMinimal ==
  pc = "done" =>
    LET covered == Union(input, Index)
        inside  == {n \in Block : Addrs(n) \subseteq covered}
        maximal == {n \in inside : \A x \in inside : Contains(x, n) => x = n}
    IN  /\ {nets[i] : i \in 0 .. (w - 1)} = maximal
        /\ Cardinality(maximal) = w

(* The pass only replaces two blocks by the block that unites them, and    *)
(* stops, as it must, when no two can be replaced by a block.              *)
Implements == Abstract!Spec
=============================================================================
