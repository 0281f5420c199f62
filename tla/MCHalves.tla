------------------------------ MODULE MCHalves ------------------------------
(***************************************************************************)
(* Two programs, of which one runs: over words in two halves, and over     *)
(* bi-contiguous networks made of such words.  The other one rests in a    *)
(* first state of its own.                                                 *)
(***************************************************************************)
EXTENDS Uint128Calls, BiContiguousCalls

VARIABLE program

EitherInit ==
  /\ WordInit
  /\ Init
  /\ \/ program = "words" /\ held = CHOOSE n \in BiContiguous : TRUE
     \/ program = "networks" /\ value = Zero

EitherNext ==
  \/ program = "words" /\ WordNext /\ UNCHANGED <<program, vars>>
  \/ program = "networks" /\ Next /\ UNCHANGED <<program, wordVars>>

EitherSpec == EitherInit /\ [][EitherNext]_<<program, wordVars, vars>>
=============================================================================
