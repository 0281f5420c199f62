------------------------------ MODULE RangeWalk ------------------------------
(***************************************************************************)
(* RangeToNetworks4 and RangeToNetworks6 (range.go): the blocks of a       *)
(* closed interval, in a phase of growing blocks up to the boundary at the *)
(* highest bit in which the ends differ, and a phase of shrinking blocks   *)
(* from there.  The first widens the size of what is left; the second,     *)
(* whose word cannot be widened, takes a size that wrapped to zero for the *)
(* whole address space.                                                    *)
(***************************************************************************)
EXTENDS Networks, Sequences

VARIABLES
  op,            \* which of the two functions
  first, last,   \* the ends of the interval
  cursor,        \* first address not covered yet
  ascending,     \* sizes of the growing blocks still to come
  given,         \* blocks yielded so far
  broken,        \* the consumer broke
  want,          \* what the function promises (never read by the code)
  pc

vars == <<op, first, last, cursor, ascending, given, broken, want, pc>>

Ops == {"RangeToNetworks4", "RangeToNetworks6"}

-----------------------------------------------------------------------------
(* The promise                                                             *)

Interval == {x \in Word : Le(first, x) /\ Le(x, last)}

(* The blocks no block inside the interval contains, in ascending order:   *)
(* the only cover of the interval by fewest blocks.                        *)
Maximal ==
  LET inside == {n \in Network : IsContiguous(n) /\ Addrs(n) \subseteq Interval}
  IN  {n \in inside : \A x \in inside : Contains(x, n) => x = n}

Want ==
  LET blocks == Maximal
  IN  [k \in 1 .. Cardinality(blocks) |->
         CHOOSE n \in blocks : k = Cardinality({x \in blocks : Le(x.addr, n.addr)})]

-----------------------------------------------------------------------------
(* Ends of the other family give an empty sequence like this too: only     *)
(* ends of the function's own family are words of its width.               *)
Init ==
  /\ op \in Ops
  /\ first \in Word /\ last \in Word
  /\ cursor = {} /\ ascending = {}
  /\ given = <<>>
  /\ broken = FALSE
  /\ want = Want
  /\ pc = "start"

Yield(n) == given' = Append(given, n)

(* A FALSE result of yield returns at once; the locals are dead then.      *)
Break == broken' = TRUE /\ pc' = "done"

Refuse ==
  /\ pc = "start"
  /\ Lt(last, first)
  /\ pc' = "done"
  /\ UNCHANGED <<op, first, last, want, cursor, ascending, given, broken>>

Differing == Xor(first, last)

(* One aligned block is the whole interval.                                *)
Single == Differing \cap AddOne(Differing) = {} /\ first \cap Differing = {}

(* The distance from the first end to the boundary: its set bits are the   *)
(* sizes of the growing blocks.                                            *)
Growing ==
  IF Single THEN {}
  ELSE Sub(last \cap Neg(HighestSetBit(Differing)), first)

Start ==
  /\ pc = "start"
  /\ Le(first, last)
  /\ cursor' = first
  /\ ascending' = Growing
  /\ pc' = "grow"
  /\ UNCHANGED <<op, first, last, want, given, broken>>

Grow ==
  /\ pc = "grow" /\ ascending # {}
  /\ Yield([addr |-> cursor, mask |-> ascending \cup Neg(ascending)])
  /\ \/ Break
     \/ UNCHANGED <<broken, pc>>
  /\ cursor' = Add(cursor, LowestSetBit(ascending))
  /\ ascending' = ascending \ LowestSetBit(ascending)
  /\ UNCHANGED <<op, first, last, want>>

Turn ==
  /\ pc = "grow" /\ ascending = {}
  /\ pc' = "shrink"
  /\ UNCHANGED <<op, first, last, want, cursor, ascending, given, broken>>

(* All ones below the highest one of a number x > 0.                       *)
BelowTop(x) == {i \in Bits : 2 ^ (i + 1) <= x}

(* The sizes of what is left, in an integer wider than the word and in the *)
(* word; the largest block is 1 + the number BlockMax stands for.          *)
WideSize == ToNat(last) - ToNat(cursor) + 1
WrappedSize == AddOne(Sub(last, cursor))

(* Mutant: the wrapped size of the whole space taken for none.             *)
BlockMaxUnwrapped ==
  IF op = "RangeToNetworks4" THEN BelowTop(WideSize) ELSE BelowTop(ToNat(WrappedSize))
BlockMax ==
  CASE op = "RangeToNetworks4" -> BelowTop(WideSize)
    [] op = "RangeToNetworks6" /\ WrappedSize = {} -> Bits
    [] op = "RangeToNetworks6" /\ WrappedSize # {} -> BelowTop(ToNat(WrappedSize))

Shrink ==
  /\ pc = "shrink"
  /\ Yield([addr |-> cursor, mask |-> Not(BlockMax)])
  /\ LET end == Add(cursor, BlockMax)
     IN  /\ \/ Break /\ UNCHANGED cursor
            \/ broken' = FALSE /\ end = last /\ pc' = "done" /\ UNCHANGED cursor
            \/ broken' = FALSE /\ end # last /\ pc' = pc /\ cursor' = AddOne(end)
  /\ UNCHANGED <<op, first, last, want, ascending>>

Next ==
  \/ Refuse
  \/ Start
  \/ Grow
  \/ Turn
  \/ Shrink

(* A consumer's body returns to the sequence, which then runs on.          *)
Spec == Init /\ [][Next]_vars /\ WF_vars(Next)
=============================================================================
