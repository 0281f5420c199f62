------------------------ MODULE AggregateBiContiguous ------------------------
(***************************************************************************)
(* AggregateBiContiguous6 (aggregate.go:210): networks whose mask is a     *)
(* leading run of ones in the high half and one in the low half.  A round  *)
(* sweeps the levels (the lengths of the high run) from the most specific  *)
(* down, merging inside each row (one high address) and then buddy rows    *)
(* that are equal; it then drops what other shapes contain.  A drop can    *)
(* make rows equal, so rounds repeat until nothing is dropped.             *)
(*                                                                         *)
(* nets holds the live prefix of the slice: within a row or a level the    *)
(* code reads an entry before it writes over it, and never reads beyond    *)
(* the live prefix again.                                                  *)
(***************************************************************************)
EXTENDS Halves, Sequences

CONSTANTS
  ChunkSize,     \* networks of one mask probed together, 64 in the code
  Inputs         \* the slices the function may be called with

ASSUME ChunkAssumption == ChunkSize \in Nat \ {0}

ASSUME InputsAssumption == \A s \in Inputs : s \in Seq(BiContiguous)

VARIABLES
  input,    \* the slice as the caller passed it (never read by the code)
  nets,     \* the live prefix
  level,    \* high prefix length being swept
  block,    \* [from, to): positions of the level's survivors
  shapes,   \* masks present when the round began to look for containment
  kept,     \* how many of nets are known not to be contained
  swept,    \* how many networks the sweep left
  calls,    \* 1, or 2 when the result was passed in again
  pc

vars == <<input, nets, level, block, shapes, kept, swept, calls, pc>>

-----------------------------------------------------------------------------
(* Orders and searches                                                     *)

KeyBefore(s, t) == \E i \in DOMAIN s : Lt(s[i], t[i]) /\ \A j \in 1 .. (i - 1) : s[j] = t[j]

LevelKey(n) == <<High(n.mask), High(n.addr), Low(n.addr), Low(n.mask)>>
MaskAddressKey(n) == <<n.mask, n.addr>>

(* What a sort may leave: equal entries may change places.                 *)
Rearranged(s) ==
  {[i \in DOMAIN s |-> s[p[i]]] :
     p \in {q \in [DOMAIN s -> DOMAIN s] : \A j \in DOMAIN s : \E i \in DOMAIN s : q[i] = j}}
InOrder(s, Key(_)) == \A i, j \in DOMAIN s : i < j => ~KeyBefore(Key(s[j]), Key(s[i]))

SortedByLevel(s) == {t \in Rearranged(s) : InOrder(t, LevelKey)}
SortedByMask(s) == {t \in Rearranged(s) : InOrder(t, MaskAddressKey)}

(* The binary search of the code: the first position of from .. to - 1     *)
(* whose network is not among the passed ones, provided that these come    *)
(* first.                                                                  *)
SearchFirst(s, from, to, passed) ==
  LET search[p \in (from .. to) \X (from .. to)] ==
        LET middle == (p[1] + p[2]) \div 2
        IN  IF p[1] >= p[2] THEN p[1]
            ELSE IF s[middle] \in passed THEN search[<<middle + 1, p[2]>>]
                 ELSE search[<<p[1], middle>>]
  IN  search[<<from, to>>]

HighMaskBelow(m) == {n \in BiContiguous : Lt(High(n.mask), m)}
HighMaskUpTo(m) == {n \in BiContiguous : Le(High(n.mask), m)}
MaskBelow(m) == {n \in BiContiguous : Lt(n.mask, m)}
MaskUpTo(m) == {n \in BiContiguous : Le(n.mask, m)}

LowerBoundHighMask(s, to, m) == SearchFirst(s, 1, to, HighMaskBelow(m))
UpperBoundHighMask(s, to, m) == SearchFirst(s, 1, to, HighMaskUpTo(m))
LowerBoundMask(s, from, to, m) == SearchFirst(s, from, to, MaskBelow(m))
UpperBoundMask(s, from, to, m) == SearchFirst(s, from, to, MaskUpTo(m))

(* The search for an address in a run of one mask: where it was met first, *)
(* or nothing when the bounds close in on no entry.                        *)
AddressAt(s, from, to, target) ==
  LET search[p \in (from .. to) \X (from .. to)] ==
        LET middle == (p[1] + p[2]) \div 2
        IN  IF p[1] >= p[2] THEN {}
            ELSE IF s[middle].addr = target THEN {middle}
            ELSE IF Lt(s[middle].addr, target) THEN search[<<middle + 1, p[2]>>]
                 ELSE search[<<p[1], middle>>]
  IN  search[<<from, to>>]

-----------------------------------------------------------------------------
(* One level of the sweep                                                  *)

(* How many networks the first row of s holds.                             *)
FirstRow(s) ==
  CHOOSE l \in 1 .. Len(s) :
    /\ \A i \in 1 .. l : High(s[i].addr) = High(s[1].addr)
    /\ l < Len(s) => High(s[l + 1].addr) # High(s[1].addr)

(* A network merges with the end of the row's stack for as long as it can. *)
Place[at \in Seq(BiContiguous) \X BiContiguous] ==
  LET stack  == at[1]
      n      == at[2]
      merged == IF stack = <<>> THEN {} ELSE MergeByLowestMaskBit(stack[Len(stack)], n)
  IN  IF merged = {} THEN Append(stack, n)
      ELSE Place[<<SubSeq(stack, 1, Len(stack) - 1), CHOOSE c \in merged : TRUE>>]

CanonicalRow[row \in Seq(BiContiguous)] ==
  IF row = <<>> THEN <<>>
  ELSE Place[<<CanonicalRow[SubSeq(row, 1, Len(row) - 1)], row[Len(row)]>>]

(* aggregateBiContiguous6LowRows: every row reduced to its minimal cover.  *)
AggregateLowRows[s \in Seq(BiContiguous)] ==
  IF s = <<>> THEN <<>>
  ELSE CanonicalRow[SubSeq(s, 1, FirstRow(s))]
         \o AggregateLowRows[SubSeq(s, FirstRow(s) + 1, Len(s))]

EqualLowRows(s, t) ==
  /\ Len(s) = Len(t)
  /\ \A i \in DOMAIN s : Low(s[i].addr) = Low(t[i].addr) /\ Low(s[i].mask) = Low(t[i].mask)

(* The row after the first one is its upper buddy, and equal to it.        *)
BuddyFollows(s, p) ==
  LET lower == SubSeq(s, 1, FirstRow(s))
      rest  == SubSeq(s, FirstRow(s) + 1, Len(s))
  IN  /\ rest # <<>>
      /\ W - p \notin lower[1].addr
      /\ High(rest[1].addr) = High(lower[1].addr) \cup {W - p}
      /\ EqualLowRows(lower, SubSeq(rest, 1, FirstRow(rest)))

(* mergeBiContiguous6HighBuddies: a lower row that its equal upper buddy   *)
(* follows takes the wider high mask; the buddy is dropped.                *)
Widened(row, p) ==
  [i \in DOMAIN row |-> [row[i] EXCEPT !.mask = HighMask(p - 1) \cup Low(@)]]

MergeHighBuddies(rows, p) ==
  LET merge[s \in Seq(BiContiguous)] ==
        LET l     == FirstRow(s)
            lower == SubSeq(s, 1, l)
        IN  IF s = <<>> THEN <<>>
            ELSE IF BuddyFollows(s, p)
                   THEN Widened(lower, p) \o merge[SubSeq(s, 2 * l + 1, Len(s))]
                   ELSE lower \o merge[SubSeq(s, l + 1, Len(s))]
  IN  merge[rows]

-----------------------------------------------------------------------------
Start(s) ==
  /\ input = s
  /\ nets = s
  /\ level = HighW /\ block = <<1, 1>>
  /\ shapes = {} /\ kept = 0 /\ swept = 0

Init == \E s \in Inputs : Start(s) /\ calls = 1 /\ pc = "call"

ReturnShort ==
  /\ pc = "call"
  /\ Len(nets) <= 1
  /\ kept' = Len(nets)
  /\ pc' = "done"
  /\ UNCHANGED <<input, nets, level, block, shapes, swept, calls>>

(* sweepBiContiguous6 begins by sorting what is live.                      *)
BeginSweep ==
  /\ pc = "call" /\ Len(nets) > 1
  /\ nets' \in SortedByLevel(nets)
  /\ level' = HighW
  /\ pc' = "low"
  /\ UNCHANGED <<input, block, shapes, kept, swept, calls>>

Splice(from, to, s) == SubSeq(nets, 1, from - 1) \o s \o SubSeq(nets, to, Len(nets))

(* The rows of the level are found by binary search and reduced.           *)
LowRows ==
  /\ pc = "low"
  /\ LET from == LowerBoundHighMask(nets, Len(nets) + 1, HighMask(level))
         to   == UpperBoundHighMask(nets, Len(nets) + 1, HighMask(level))
         rows == AggregateLowRows[SubSeq(nets, from, to - 1)]
     IN  /\ nets' = Splice(from, to, rows)
         /\ block' = <<from, from + Len(rows)>>
  /\ pc' = IF level = 0 THEN "contain" ELSE "high"
  /\ swept' = Len(nets')
  /\ UNCHANGED <<input, level, shapes, kept, calls>>

(* Mutant: the reparented rows are not sorted into the next level.         *)
BuddiesUnsorted ==
  /\ pc = "high"
  /\ nets' = Splice(block[1], block[2],
                    MergeHighBuddies(SubSeq(nets, block[1], block[2] - 1), level))
  /\ level' = level - 1
  /\ pc' = "low"
  /\ UNCHANGED <<input, block, shapes, kept, swept, calls>>

(* Buddy rows merge into the next level; when some did, the networks of    *)
(* that level and the survivors of this one are sorted again, for they may *)
(* have crossed.                                                           *)
HighBuddies ==
  /\ pc = "high"
  /\ LET from == block[1]
         rows == MergeHighBuddies(SubSeq(nets, from, block[2] - 1), level)
         to   == from + Len(rows)
         next == Splice(from, block[2], rows)
         back == LowerBoundHighMask(next, from, HighMask(level - 1))
     IN  \/ /\ to < block[2]
            /\ \E sorted \in SortedByLevel(SubSeq(next, back, to - 1)) :
                 nets' = SubSeq(next, 1, back - 1) \o sorted \o SubSeq(next, to, Len(next))
         \/ to = block[2] /\ nets' = next
  /\ level' = level - 1
  /\ pc' = "low"
  /\ UNCHANGED <<input, block, shapes, kept, swept, calls>>

(* removeBiContiguous6Containment: sort by mask, note the masks present.   *)
BeginContainment ==
  /\ pc = "contain"
  /\ nets' \in IF Len(nets) <= 1 THEN {nets} ELSE SortedByMask(nets)
  /\ shapes' = {nets[i].mask : i \in DOMAIN nets}
  /\ kept' = IF Len(nets) <= 1 THEN Len(nets) ELSE 0
  /\ swept' = Len(nets)
  /\ pc' = "probe"
  /\ UNCHANGED <<input, level, block, calls>>

(* The next networks of one mask, ChunkSize at most.                       *)
ChunkEnd ==
  LET m == nets[kept + 1].mask
  IN  CHOOSE j \in (kept + 2) .. (Len(nets) + 1) :
        /\ j - (kept + 1) <= ChunkSize
        /\ \A h \in (kept + 1) .. (j - 1) : nets[h].mask = m
        /\ j <= Len(nets) /\ nets[j].mask = m => j - (kept + 1) = ChunkSize

(* Mutants: the low run is not compared; it must be shorter as well.       *)
AncestorsByHigh(m) == {a \in shapes : High(a) # High(m) /\ High(a) \subseteq High(m)}

(* The masks of a strictly shorter high run and a low run no longer.       *)
AncestorMasks(m) == {a \in shapes : High(a) # High(m) /\ a \subseteq m}

(* The survivors of each ancestor mask, in ascending order of the masks;   *)
(* the search for one mask starts where the run of the one before it ended.*)
Runs(masks) ==
  LET run[m \in masks] ==
        LET below == {x \in masks : Lt(x, m)}
            prev  == CHOOSE x \in below : \A y \in below : Le(y, x)
            from  == IF below = {} THEN 1 ELSE run[prev][2]
            first == LowerBoundMask(nets, from, kept + 1, m)
        IN  <<first, UpperBoundMask(nets, first, kept + 1, m)>>
  IN  run

IsContained(n, masks) ==
  \E m \in masks : AddressAt(nets, Runs(masks)[m][1], Runs(masks)[m][2], n.addr \cap m) # {}

(* The chunk compacted.                                                    *)
Survivors(chunk, masks) ==
  LET keep[i \in 0 .. Len(chunk)] ==
        IF i = 0 THEN <<>>
        ELSE IF IsContained(chunk[i], masks) THEN keep[i - 1]
             ELSE Append(keep[i - 1], chunk[i])
  IN  keep[Len(chunk)]

ProbeChunk ==
  /\ pc = "probe"
  /\ kept < Len(nets)
  /\ LET survivors == Survivors(SubSeq(nets, kept + 1, ChunkEnd - 1),
                                AncestorMasks(nets[kept + 1].mask))
     IN  /\ nets' = Splice(kept + 1, ChunkEnd, survivors)
         /\ kept' = kept + Len(survivors)
  /\ UNCHANGED <<input, level, block, shapes, swept, calls, pc>>

(* Mutant: one round is taken to be enough.                                *)
ReturnAtOnce ==
  /\ pc = "probe"
  /\ kept = Len(nets)
  /\ pc' = "done"
  /\ UNCHANGED <<input, nets, level, block, shapes, kept, swept, calls>>

(* Nothing was dropped: the call returns.                                  *)
Return ==
  /\ pc = "probe"
  /\ kept = Len(nets)
  /\ kept = swept
  /\ pc' = "done"
  /\ UNCHANGED <<input, nets, level, block, shapes, kept, swept, calls>>

(* Mutant: another round whatever was dropped.                             *)
RepeatAlways ==
  /\ pc = "probe"
  /\ kept = Len(nets)
  /\ nets' \in SortedByLevel(nets)
  /\ level' = HighW
  /\ pc' = "low"
  /\ UNCHANGED <<input, block, shapes, kept, swept, calls>>

(* Something was dropped: another round over what is left.                 *)
Repeat ==
  /\ pc = "probe"
  /\ kept = Len(nets)
  /\ kept < swept
  /\ nets' \in SortedByLevel(nets)
  /\ level' = HighW
  /\ pc' = "low"
  /\ UNCHANGED <<input, block, shapes, kept, swept, calls>>

(* The caller passes the result in again.                                  *)
CallAgain ==
  /\ pc = "done" /\ calls = 1
  /\ input' = nets
  /\ calls' = 2
  /\ pc' = "call"
  /\ kept' = 0 /\ swept' = 0
  /\ UNCHANGED <<nets, level, block, shapes>>

Next ==
  \/ ReturnShort
  \/ BeginSweep
  \/ LowRows
  \/ HighBuddies
  \/ BeginContainment
  \/ ProbeChunk
  \/ Return
  \/ Repeat
  \/ CallAgain

(* A call runs to its end; calling again is up to the caller.              *)
Running == pc # "done" /\ Next
Spec == Init /\ [][Next]_vars /\ WF_vars(Running)

-----------------------------------------------------------------------------
UnionOf(s) == UNION {Addrs(s[i]) : i \in DOMAIN s}
IsSorted(s, Key(_)) == \A i, j \in DOMAIN s : i < j => KeyBefore(Key(s[i]), Key(s[j]))

TypeOK ==
  /\ input \in Seq(BiContiguous)
  /\ nets \in Seq(BiContiguous)
  /\ level \in 0 .. HighW
  /\ shapes \subseteq Word
  /\ kept \in 0 .. Len(input) /\ swept \in 0 .. Len(input)
  /\ calls \in {1, 2}
  /\ pc \in {"call", "low", "high", "contain", "probe", "done"}

(* Every row reduction, buddy merge and drop keeps the addresses of the    *)
(* input, in networks of the class (aggregate.go:199).                     *)
UnionPreserved == TypeOK /\ UnionOf(nets) = UnionOf(input)

(* What bisection relies on.  While the levels are swept, the slice is in  *)
(* level order, although a buddy merge moves networks to another level     *)
(* (aggregate.go:262); survivors and candidates stay in (mask, address)    *)
(* order without repetition while drops compact them (aggregate.go:574),   *)
(* and no survivor contains another.                                       *)
SearchedInOrder ==
  /\ pc \in {"low", "high"} => InOrder(nets, LevelKey)
  /\ pc = "probe" =>
       /\ IsSorted(nets, MaskAddressKey)
       /\ \A i, j \in 1 .. kept : i # j => ~Contains(nets[i], nets[j])

(* Buddy rows of one level with the same low networks.                     *)
Row(s, hm, ha) == {i \in DOMAIN s : High(s[i].mask) = hm /\ High(s[i].addr) = ha}
RowKeys(s) == {<<High(s[i].mask), High(s[i].addr)>> : i \in DOMAIN s}
LowSet(s, key) == {<<Low(s[i].addr), Low(s[i].mask)>> : i \in Row(s, key[1], key[2])}
EqualBuddies(s) ==
  {p \in RowKeys(s) \X RowKeys(s) :
     /\ p[1][1] = p[2][1]
     /\ Xor(p[1][2], p[2][2]) = LowestSetBit(p[1][1])
     /\ p[1] # p[2]
     /\ LowSet(s, p[1]) = LowSet(s, p[2])}

NoneMerge(s) ==
  \A i, j \in DOMAIN s : i # j => MergeByLowestMaskBit(s[i], s[j]) = {}

(* The result is closed under the three rewrites in one call: no network   *)
(* contains another, no two are buddies by their lowest mask bit, no two   *)
(* buddy rows are equal; it is in (mask, address) order                    *)
(* (aggregate_test.go:1522), and a second call finds nothing to do         *)
(* (aggregate.go:203).                                                     *)
ResultClosed ==
  pc = "done" =>
    /\ NoneMerge(nets)
    /\ EqualBuddies(nets) = {}
    /\ IsSorted(nets, MaskAddressKey)
    /\ calls = 2 => nets = input

(* Every call returns: the rounds come to an end (aggregate.go:217).       *)
Terminates == [](pc = "call" => <>(pc = "done"))

(* aggregate.go:203 reads "no class-preserving pair remains".  Taken at    *)
(* its word, no two networks of the result have a union that is one        *)
(* network of the class.                                                   *)
NoClassPreservingPair ==
  pc = "done" =>
    \A i, j \in DOMAIN nets :
      i # j => Merge(nets[i], nets[j]) \cap BiContiguous = {}
=============================================================================
