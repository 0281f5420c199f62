--------------------------- MODULE YieldSequence ---------------------------
(***************************************************************************)
(* What every iter.Seq of the library promises: it yields the elements of  *)
(* a fixed list, in order, each once, and returns at the end of the list   *)
(* and no sooner, unless the consumer breaks; then it returns at once.     *)
(***************************************************************************)
EXTENDS Naturals, Sequences

VARIABLES
  want,    \* the list
  given,   \* what has been yielded
  broken,  \* the consumer broke
  over     \* the sequence has returned

vars == <<want, given, broken, over>>

Init == given = <<>> /\ broken = FALSE /\ over = FALSE

(* The consumer may break at any element; the sequence may return with its *)
(* last element, or later.                                                 *)
Yield ==
  /\ ~over
  /\ Len(given) < Len(want)
  /\ given' = Append(given, want[Len(given) + 1])
  /\ \/ broken' = TRUE /\ over' = TRUE
     \/ broken' = FALSE /\ over' \in {FALSE, given' = want}
  /\ UNCHANGED want

End ==
  /\ ~over
  /\ given = want
  /\ over' = TRUE
  /\ UNCHANGED <<want, given, broken>>

Next == Yield \/ End

Spec == Init /\ [][Next]_vars /\ WF_vars(Next)
=============================================================================
