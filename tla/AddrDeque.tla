------------------------------ MODULE AddrDeque ------------------------------
(***************************************************************************)
(* What AddrIterator promises (addr_iterator.go:8): the addresses of a     *)
(* network stand in a queue, in ascending order, and are taken from        *)
(* either end, each at most once; a skip drops addresses unseen, and a     *)
(* skip past the end empties the queue for good.                           *)
(***************************************************************************)
EXTENDS Naturals, Sequences

CONSTANT MaxSkip   \* greatest index a caller can pass

VARIABLES
  left,   \* the addresses still in the queue
  got     \* the result of the last call: at most one address

vars == <<left, got>>

Init == got = {}

(* Drop n addresses at the front and take the next one.                    *)
TakeFront(n) ==
  IF n < Len(left)
    THEN /\ got' = {left[n + 1]}
         /\ left' = SubSeq(left, n + 2, Len(left))
    ELSE got' = {} /\ left' = <<>>

TakeBack(n) ==
  IF n < Len(left)
    THEN /\ got' = {left[Len(left) - n]}
         /\ left' = SubSeq(left, 1, Len(left) - n - 1)
    ELSE got' = {} /\ left' = <<>>

Next == \E n \in 0 .. MaxSkip : TakeFront(n) \/ TakeBack(n)

Spec == Init /\ [][Next]_vars
=============================================================================
