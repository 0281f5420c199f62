---------------------------- MODULE BinarySplit ----------------------------
(***************************************************************************)
(* BinarySplit4 and BinarySplit6 (binary_split.go): the common supernet of *)
(* every window of half the elements is computed from the bits that each   *)
(* pair of neighbours kills, counted per bit while the window slides; the  *)
(* first one with the greatest mask wins, and the elements it contains are *)
(* gathered in place, in order.                                            *)
(***************************************************************************)
EXTENDS Networks, Sequences

CONSTANT SplitInputs   \* sorted sequences of networks

ASSUME SplitInputsAssumption == \A s \in SplitInputs : s \in Seq(Network)

VARIABLES
  slice,       \* the networks as the caller passed them (never read by the code)
  elements,    \* positions in slice: the caller's payloads
  idx,         \* next pair, or next window
  counters,    \* per bit: how many pairs of the window kill it
  windowOR,    \* bits some pair of the window kills
  fullOR,      \* bits some pair kills
  best,        \* address and mask of the candidate
  out,         \* the candidate and the selected interval, or nothing
  phase

splitVars == <<slice, elements, idx, counters, windowOR, fullOR, best, out, phase>>

Length == Len(slice)
Width == (Length \div 2) + (Length % 2)

(* network(elements[i]), counted from 1                                    *)
Net(i) == slice[elements[i]]

(* The bits a common supernet of two neighbours cannot fix.                *)
KillWord(i) == Not(Net(i).mask) \cup Xor(Net(i).addr, Net(i + 1).addr)

SplitInit ==
  /\ slice \in SplitInputs
  /\ elements = [i \in 1 .. Len(slice) |-> i]
  /\ idx = 1
  /\ counters = [b \in Bits |-> 0]
  /\ windowOR = {} /\ fullOR = {}
  /\ best = [addr |-> {}, mask |-> {}]
  /\ out = {}
  /\ phase = "start"

Refuse ==
  /\ phase = "start"
  /\ Length < 3
  /\ phase' = "done"
  /\ UNCHANGED <<slice, elements, idx, counters, windowOR, fullOR, best, out>>

BeginScan ==
  /\ phase = "start"
  /\ Length >= 3
  /\ phase' = "pairs"
  /\ UNCHANGED <<slice, elements, idx, counters, windowOR, fullOR, best, out>>

(* addSplitKill4 and removeSplitKill4                                      *)
Add1(c, kill) == [b \in Bits |-> IF b \in kill THEN c[b] + 1 ELSE c[b]]
Remove1(c, kill) == [b \in Bits |-> IF b \in kill THEN c[b] - 1 ELSE c[b]]

(* Each pair of the slice, and of the first window.                        *)
ScanPair ==
  /\ phase = "pairs"
  /\ idx < Length
  /\ LET kill == KillWord(idx)
     IN  /\ fullOR' = fullOR \cup kill
         /\ IF idx < Width
              THEN windowOR' = windowOR \cup kill /\ counters' = Add1(counters, kill)
              ELSE UNCHANGED <<windowOR, counters>>
  /\ idx' = idx + 1
  /\ UNCHANGED <<slice, elements, best, out, phase>>

(* The supernet of the whole slice is the first candidate.                 *)
TakeFull ==
  /\ phase = "pairs"
  /\ idx = Length
  /\ best' = [addr |-> Net(1).addr, mask |-> Net(Length).mask \ fullOR]
  /\ idx' = 1
  /\ phase' = "windows"
  /\ UNCHANGED <<slice, elements, counters, windowOR, fullOR, out>>

(* Mutant: an expired bit leaves although a pair still kills it.           *)
StillKilledNot(or, c, kill) == or \ kill

(* A bit leaves the window's word when no pair of the window kills it.     *)
StillKilled(or, c, kill) == or \ {b \in kill : c[b] = 0}

(* Mutant: the later of equal masks wins.                                  *)
Wider(mask, than) == Le(than, mask)
Better(mask, than) == Lt(than, mask)

(* The window slides: the pair before it expires, the pair at its end      *)
(* enters.                                                                 *)
SlideWindow ==
  /\ phase = "windows"
  /\ idx <= Length - Width + 1
  /\ LET expired == KillWord(idx - 1)
         entered == KillWord(idx + Width - 2)
         without == Remove1(counters, expired)
         slid    == idx > 1
     IN  /\ counters' = IF slid THEN Add1(without, entered) ELSE counters
         /\ windowOR' = IF slid THEN StillKilled(windowOR, without, expired) \cup entered
                                ELSE windowOR
  /\ LET mask == Net(idx + Width - 1).mask \ windowOR'
     IN  best' = IF Better(mask, best.mask) THEN [addr |-> Net(idx).addr, mask |-> mask] ELSE best
  /\ idx' = idx + 1
  /\ UNCHANGED <<slice, elements, fullOR, out, phase>>

Candidate == FromBits(best.addr, best.mask)

(* stableSplitPartition: both halves are partitioned, and the right accepts*)
(* are rotated in front of the left rejects by three reversals.            *)
Reversed(s) == [i \in DOMAIN s |-> s[Len(s) + 1 - i]]

(* Mutant: two reversals.                                                  *)
RotateTwice(rejects, accepts) == Reversed(accepts \o rejects)

(* Reversing each part and then the whole swaps them.                      *)
Rotate(rejects, accepts) == Reversed(Reversed(rejects) \o Reversed(accepts))

Accepted(s) == Cardinality({i \in DOMAIN s : Contains(Candidate, slice[s[i]])})

Gather[s \in Seq(1 .. Length)] ==
  IF Len(s) <= 1 THEN s
  ELSE LET middle == Len(s) \div 2
           left   == Gather[SubSeq(s, 1, middle)]
           right  == Gather[SubSeq(s, middle + 1, Len(s))]
           l      == Accepted(left)
           r      == Accepted(right)
       IN  IF l < middle /\ r > 0
             THEN SubSeq(left, 1, l)
                    \o Rotate(SubSeq(left, l + 1, middle), SubSeq(right, 1, r))
                    \o SubSeq(right, r + 1, Len(right))
             ELSE left \o right

(* The first element the candidate contains; none is refused.              *)
Select ==
  /\ phase = "windows"
  /\ idx > Length - Width + 1
  /\ LET inside == {i \in 1 .. Length : Contains(Candidate, Net(i))}
     IN  IF inside = {} THEN UNCHANGED <<elements, out>>
         ELSE LET start == CHOOSE i \in inside : \A j \in inside : i <= j
                  rest  == SubSeq(elements, start, Length)
              IN  /\ elements' = SubSeq(elements, 1, start - 1) \o Gather[rest]
                  /\ out' = {[network |-> Candidate, start |-> start, end |-> start + Accepted(rest)]}
  /\ phase' = "done"
  /\ UNCHANGED <<slice, idx, counters, windowOR, fullOR, best>>

SplitNext ==
  \/ Refuse
  \/ BeginScan
  \/ ScanPair
  \/ TakeFull
  \/ SlideWindow
  \/ Select

SplitSpec == SplitInit /\ [][SplitNext]_splitVars /\ WF_splitVars(SplitNext)

-----------------------------------------------------------------------------
(* The least network that contains all of a set of them.                   *)
CommonSupernet(nets) ==
  CHOOSE n \in Network :
    LET covers(s) == \A x \in nets : Contains(s, x)
    IN  covers(n) /\ \A s \in Network : covers(s) => Contains(s, n)

Windows == <<1 .. Length>> \o [i \in 1 .. (Length - Width + 1) |-> i .. (i + Width - 1)]

Candidates == [w \in DOMAIN Windows |-> CommonSupernet({slice[i] : i \in Windows[w]})]

SplitTypeOK ==
  /\ slice \in Seq(Network)
  /\ elements \in [1 .. Length -> 1 .. Length]
  /\ idx \in 1 .. (Length + 1)
  /\ counters \in [Bits -> 0 .. Length]
  /\ windowOR \in Word /\ fullOR \in Word
  /\ best \in Pair
  /\ \A o \in out : o.network \in Network /\ o.start \in 1 .. Length /\ o.end \in 2 .. (Length + 1)
  /\ phase \in {"start", "pairs", "windows", "done"}

(* While the window slides, its counters say how many of its pairs kill    *)
(* each bit, and its word holds the bits with a positive count             *)
(* (binary_split.go:73, 100).                                              *)
CountersExact ==
  /\ SplitTypeOK
  /\ phase = "windows" =>
       LET first == IF idx = 1 THEN 1 ELSE idx - 1
       IN  \A b \in Bits :
             /\ counters[b] = Cardinality({i \in first .. (first + Width - 2) : b \in KillWord(i)})
             /\ b \in windowOR <=> counters[b] > 0

(* The candidate is the common supernet of the whole slice or of a window  *)
(* of half of it, the first of those with the greatest mask                *)
(* (binary_split.go:24).                                                   *)
FirstGreatestWins ==
  phase = "done" /\ out # {} =>
    \E w \in DOMAIN Candidates :
      /\ \A o \in out : o.network = Candidates[w]
      /\ \A x \in DOMAIN Candidates : Le(Candidates[x].mask, Candidates[w].mask)
      /\ \A x \in 1 .. (w - 1) : Lt(Candidates[x].mask, Candidates[w].mask)

(* Three elements or more are never refused; the selected interval starts  *)
(* where the first contained element was, holds exactly the contained      *)
(* elements and at least half of all, and neither they nor the others have *)
(* changed their order (binary_split.go:28).                               *)
GatheredInOrder ==
  phase = "done" /\ Length >= 3 =>
    \E o \in out :
      LET inside == {i \in 1 .. Length : Contains(o.network, slice[i])}
      IN  /\ {elements[p] : p \in o.start .. (o.end - 1)} = inside
          /\ \A i \in inside : o.start <= i
          /\ 2 * Cardinality(inside) >= Length
          /\ \A p, q \in 1 .. Length :
               p < q /\ (elements[p] \in inside <=> elements[q] \in inside)
                 => elements[p] < elements[q]
=============================================================================
