------------------------------ MODULE Aggregate ------------------------------
(***************************************************************************)
(* Aggregate4 (aggregate.go:8); Aggregate6 is the same algorithm over      *)
(* 128-bit networks.  The slice is aggregated in place: nets[0..w] is the  *)
(* stack of survivors, nets[r..] the candidates not yet looked at, and the *)
(* entries between them are spent.                                         *)
(*                                                                         *)
(* The two searches of the code (the innermost loops) only read the slice, *)
(* so a search and the write that ends it are one step.                    *)
(***************************************************************************)
EXTENDS Slices

CONSTANT Inputs   \* the slices the function may be called with

ASSUME InputsAssumption == \A a \in Inputs : IsSlice(a, Network)

VARIABLES
  input,   \* the slice as the caller passed it (never read by the code)
  nets,    \* the slice
  w,       \* top of the survivor stack
  r,       \* next candidate
  k,       \* the survivor that grew, while its new partners are looked for
  pc

vars == <<input, nets, w, r, k, pc>>

Len == Cardinality(DOMAIN input)
Index == DOMAIN input

Init ==
  /\ input \in Inputs
  /\ nets = input
  /\ w = 0 /\ r = 1 /\ k = 0
  /\ pc = "sort"

(* A slice of at most one network is returned as it is.                    *)
ReturnShort ==
  /\ pc = "sort"
  /\ Len <= 1
  /\ w' = Len - 1
  /\ pc' = "done"
  /\ UNCHANGED <<input, nets, r, k>>

(* slices.SortFunc(nets, Compare): networks that compare equal are equal,  *)
(* so the order is determined by the input.                                *)
Sort ==
  /\ pc = "sort"
  /\ Len > 1
  /\ \E p \in IndexPermutations(Len) : nets' = Permuted(nets, p) /\ Sorted(nets')
  /\ pc' = "scan"
  /\ UNCHANGED <<input, w, r, k>>

(* Mutant: only the top of the stack tried, as for CIDR blocks.            *)
TopPartner == {i \in {w} : Merge(nets[i], nets[r]) # {}}

(* The survivors that merge with the candidate; the search runs from the   *)
(* top of the stack down and takes the first.                              *)
Partners == {i \in 0 .. w : Merge(nets[i], nets[r]) # {}}

(* No survivor merges with the candidate: it becomes one.                  *)
Push ==
  /\ pc = "scan" /\ r < Len
  /\ Partners = {}
  /\ w' = w + 1
  /\ nets' = [nets EXCEPT ![w + 1] = nets[r]]
  /\ r' = r + 1
  /\ UNCHANGED <<input, k, pc>>

(* Mutant: no survivor is matched again after it grew.                     *)
AbsorbOnly ==
  /\ pc = "scan" /\ r < Len
  /\ Partners # {}
  /\ k' = Highest(Partners)
  /\ \E merged \in Merge(nets[k'], nets[r]) : nets' = [nets EXCEPT ![k'] = merged]
  /\ r' = r + 1
  /\ UNCHANGED <<input, w, pc>>

(* A survivor takes the candidate in.  One that is unchanged by it exposes *)
(* no new partner; one that grew is matched against the stack again.       *)
Absorb ==
  /\ pc = "scan" /\ r < Len
  /\ Partners # {}
  /\ k' = Highest(Partners)
  /\ \E merged \in Merge(nets[k'], nets[r]) :
       /\ nets' = [nets EXCEPT ![k'] = merged]
       /\ IF nets[k'] # merged
            THEN pc' = "rescan" /\ UNCHANGED r
            ELSE pc' = "scan" /\ r' = r + 1
  /\ UNCHANGED <<input, w>>

(* Mutant: only the survivors above the grown one looked at.               *)
RescanAbove == {j \in (k + 1) .. w : Merge(nets[k], nets[j]) # {}}

Rescan == {j \in (0 .. w) \ {k} : Merge(nets[k], nets[j]) # {}}

(* Mutants: the entry after j removed; j exchanged with the end of the     *)
(* slice instead of the stack.                                             *)
RemoveNext(a, j, top) == [i \in DOMAIN a |-> IF j < i /\ i < top THEN a[i + 1] ELSE a[i]]
RemoveAtEnd(a, j, top) == [a EXCEPT ![j] = a[Len - 1], ![Len - 1] = a[j]]

(* copy(nets[j:w], nets[j+1:w+1]); w--                                     *)
Remove(a, j, top) == [i \in DOMAIN a |-> IF j <= i /\ i < top THEN a[i + 1] ELSE a[i]]

(* Mutant: the index of the grown survivor not shifted with the stack.     *)
CascadeUnshifted ==
  /\ pc = "rescan"
  /\ Rescan # {}
  /\ \E merged \in Merge(nets[k], nets[Lowest(Rescan)]) :
       nets' = Remove([nets EXCEPT ![k] = merged], Lowest(Rescan), w)
  /\ w' = w - 1
  /\ UNCHANGED <<input, r, k, pc>>

(* The grown survivor takes the lowest other survivor it merges with; the  *)
(* stack closes over the gap and the scan starts over.                     *)
Cascade ==
  /\ pc = "rescan"
  /\ Rescan # {}
  /\ LET j == Lowest(Rescan)
     IN  /\ \E merged \in Merge(nets[k], nets[j]) :
              nets' = Remove([nets EXCEPT ![k] = merged], j, w)
         /\ k' = IF j < k THEN k - 1 ELSE k
  /\ w' = w - 1
  /\ UNCHANGED <<input, r, pc>>

(* A full pass over the stack merged nothing.                              *)
Settle ==
  /\ pc = "rescan"
  /\ Rescan = {}
  /\ r' = r + 1
  /\ pc' = "scan"
  /\ UNCHANGED <<input, nets, w, k>>

(* return nets[:w+1]                                                       *)
Return ==
  /\ pc = "scan"
  /\ r = Len
  /\ pc' = "done"
  /\ UNCHANGED <<input, nets, w, r, k>>

Next ==
  \/ ReturnShort
  \/ Sort
  \/ Push
  \/ Absorb
  \/ Cascade
  \/ Settle
  \/ Return

(* The function runs to its end: nothing it waits for exists.              *)
Spec == Init /\ [][Next]_vars /\ WF_vars(Next)
-----------------------------------------------------------------------------
(* The entries that still count: survivors and unread candidates.          *)
Live ==
  CASE pc = "sort"   -> Index
    [] pc = "scan"   -> (0 .. w) \cup (r .. (Len - 1))
    [] pc = "rescan" -> (0 .. w) \cup ((r + 1) .. (Len - 1))
    [] pc = "done"   -> 0 .. w

Abstract == INSTANCE Coalesce WITH Class <- Network, family <- BagOf(nets, Live), done <- (pc = "done")

TypeOK ==
  /\ input \in Inputs
  /\ nets \in [Index -> Network]
  /\ pc \in {"sort", "scan", "rescan", "done"}
  /\ w \in -1 .. Len
  /\ r \in Nat
  /\ k \in Nat

(* The live entries always name exactly the addresses of the input: no     *)
(* merge, shift or overwrite of the in-place pass loses an address or      *)
(* invents one (aggregate.go:11).                                          *)
UnionPreserved == Union(nets, Live) = Union(input, Index)

(* The stack never reaches the candidate being read, so writing its top    *)
(* cannot overwrite a candidate still to come (aggregate.go:49, 67); the   *)
(* grown survivor is on the stack.                                         *)
StackBelowCandidates ==
  /\ pc \in {"scan", "rescan"} => 0 <= w /\ w < r /\ r <= Len
  /\ pc = "rescan" => k \in 0 .. w /\ r < Len

(* Outside a rescan no two survivors merge; during one, only pairs that    *)
(* involve the grown survivor may (aggregate.go:52).  It is why the        *)
(* rescan needs to match only that survivor.                               *)
StackClosed ==
  \A i, j \in 0 .. w :
    /\ i # j
    /\ pc \in {"scan", "done"} \/ (pc = "rescan" /\ i # k /\ j # k)
    => Merge(nets[i], nets[j]) = {}

(* No two networks of the returned slice have a union that is a single     *)
(* network: none is repeated, none contains another, no pair is adjacent.  *)
ResultIrreducible ==
  pc = "done" =>
    \A i, j \in 0 .. w :
      i # j => \A u \in Network : Addrs(u) # Addrs(nets[i]) \cup Addrs(nets[j])

(* A step after the sort leaves every candidate behind the current one     *)
(* alone.                                                                  *)
CandidatesUntouched ==
  [][pc # "sort" => \A i \in (r + 1) .. (Len - 1) : nets'[i] = nets[i]]_vars

(* Aggregation only ever replaces two networks by the one that unites      *)
(* them, and it stops, as it must, when no two can be replaced: the        *)
(* rescans come to an end (aggregate.go:56).                               *)
Implements == Abstract!Spec
=============================================================================
