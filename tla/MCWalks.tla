------------------------------ MODULE MCWalks ------------------------------
(***************************************************************************)
(* The three lazy walks of the library under one consumer, which starts    *)
(* one of them: SubnetWalk, HalfWalk or RangeWalk.  They share the         *)
(* consumer's side, what has been given and whether it broke; what is      *)
(* another walk's own rests.                                               *)
(***************************************************************************)
EXTENDS Integers, Sequences

CONSTANTS W, HighW, LowW

VARIABLES
  walk,                                      \* the walk started
  op, cursor, given, broken, want, pc, m,    \* shared by two walks or by all
  arg, mask,                                 \* of SubnetWalk
  first, last, ascending,                    \* of RangeWalk
  hostHigh, hostLow                          \* of HalfWalk

subnetVars == <<arg, mask>>
rangeVars == <<first, last, ascending>>
halfVars == <<hostHigh, hostLow>>

Subnets == INSTANCE SubnetWalk WITH method <- op, receiver <- m, yieldMask <- mask
Ranges == INSTANCE RangeWalk
Halves6 == INSTANCE HalfWalk

SubnetRests == arg = 0 /\ mask = {}
RangeRests == first = {} /\ last = {} /\ ascending = {}
HalfRests == hostHigh = {} /\ hostLow = {}
NoReceiver == m = [addr |-> {}, mask |-> {}]

Init ==
  \/ walk = "subnets" /\ Subnets!WalkInit /\ RangeRests /\ HalfRests
  \/ walk = "ranges" /\ Ranges!Init /\ SubnetRests /\ HalfRests /\ NoReceiver
  \/ walk = "halves" /\ Halves6!Init /\ SubnetRests /\ RangeRests /\ cursor = {}

Next ==
  \/ walk = "subnets" /\ Subnets!WalkNext /\ UNCHANGED <<walk, rangeVars, halfVars>>
  \/ walk = "ranges" /\ Ranges!Next /\ UNCHANGED <<walk, m, subnetVars, halfVars>>
  \/ walk = "halves" /\ Halves6!Next /\ UNCHANGED <<walk, cursor, subnetVars, rangeVars>>

vars == <<walk, op, cursor, given, broken, want, pc, m, subnetVars, rangeVars, halfVars>>

(* A consumer's body returns to the sequence, which then runs on.          *)
Spec == Init /\ [][Next]_vars /\ WF_vars(Next)

-----------------------------------------------------------------------------
Abstract == INSTANCE YieldSequence WITH over <- (pc = "done")

(* Every walk yields its own list, every subnet, address or block once and *)
(* in order, and returns after the last one or when the consumer breaks:   *)
(* scattered host bits carry as they should, the last position of the      *)
(* universe ends a walk, and two counters are one (net4.go:285, 407;       *)
(* range.go:43; bicontiguous.go:302).                                      *)
Implements == Abstract!Spec
=============================================================================
