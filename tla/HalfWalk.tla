------------------------------ MODULE HalfWalk ------------------------------
(***************************************************************************)
(* BiContiguous.Addrs and AddrsBackward (bicontiguous.go:266, 321): two    *)
(* host counters, one per half, the low one fastest, instead of one        *)
(* counter over scattered positions.  A half without host bits has a loop  *)
(* of its own over the other half.                                         *)
(***************************************************************************)
EXTENDS Halves, Sequences

VARIABLES
  op,                  \* the method called
  m,                   \* its receiver
  hostHigh, hostLow,   \* the counters
  given,               \* addresses yielded so far
  broken,              \* the consumer broke
  want,                \* what the method promises (never read by the code)
  pc

vars == <<op, m, hostHigh, hostLow, given, broken, want, pc>>

Ops == {"Addrs", "AddrsBackward"}

HighBits == High(Bits)
LowBits == Low(Bits)
LastHigh == HighBits \ m.mask
LastLow == LowBits \ m.mask

(* Counting in one half, wrapping in it.                                   *)
IncHigh(x) == AddOne(x \cup LowBits) \cap HighBits
IncLow(x) == AddOne(x) \cap LowBits
DecHigh(x) == SubOne(x) \cap HighBits
DecLow(x) == SubOne(x) \cap LowBits

(* The order of the general walk over the same network.                    *)
Want ==
  LET all == Addrs(m)
  IN  [k \in 1 .. Cardinality(all) |->
         CHOOSE x \in all :
           k = Cardinality({y \in all : IF op = "Addrs" THEN Le(y, x) ELSE Le(x, y)})]

Init ==
  /\ op \in Ops
  /\ m \in BiContiguous
  /\ hostHigh = IF op = "Addrs" THEN {} ELSE LastHigh
  /\ hostLow = IF op = "Addrs" THEN {} ELSE LastLow
  /\ given = <<>>
  /\ broken = FALSE
  /\ want = Want
  /\ pc = CASE LastHigh = {} -> "low" [] LastHigh # {} /\ LastLow = {} -> "high" [] OTHER -> "both"

(* yield; the walk returns when the consumer breaks or it is at its last   *)
(* address, and the counters are dead then.                                *)
Yield(last) ==
  /\ given' = Append(given, m.addr \cup hostHigh \cup hostLow)
  /\ \/ broken' = TRUE /\ pc' = "done"
     \/ broken' = FALSE /\ pc' = IF last THEN "done" ELSE pc
  /\ UNCHANGED <<op, m, want>>

(* One half only.                                                          *)
StepLow ==
  /\ pc = "low"
  /\ IF op = "Addrs"
       THEN Yield(hostLow = LastLow) /\ hostLow' = IncLow(hostLow)
       ELSE Yield(hostLow = {}) /\ hostLow' = DecLow(hostLow)
  /\ UNCHANGED hostHigh

StepHigh ==
  /\ pc = "high"
  /\ IF op = "Addrs"
       THEN Yield(hostHigh = LastHigh) /\ hostHigh' = IncHigh(hostHigh)
       ELSE Yield(hostHigh = {}) /\ hostHigh' = DecHigh(hostHigh)
  /\ UNCHANGED hostLow

(* The low counter carries into the high one.                              *)
StepBoth ==
  /\ pc = "both" /\ op = "Addrs"
  /\ Yield(hostLow = LastLow /\ hostHigh = LastHigh)
  /\ hostHigh' = IF hostLow # LastLow THEN hostHigh ELSE IncHigh(hostHigh)
  /\ hostLow' = IF hostLow # LastLow THEN IncLow(hostLow) ELSE {}

(* Mutant: the walk ends with the first low counter at zero.               *)
StepBothBackShort ==
  /\ pc = "both" /\ op = "AddrsBackward"
  /\ Yield(hostLow = {})
  /\ hostHigh' = IF hostLow # {} THEN hostHigh ELSE DecHigh(hostHigh)
  /\ hostLow' = IF hostLow # {} THEN DecLow(hostLow) ELSE LastLow

(* The low counter borrows from the high one.                              *)
StepBothBack ==
  /\ pc = "both" /\ op = "AddrsBackward"
  /\ Yield(hostLow = {} /\ hostHigh = {})
  /\ hostHigh' = IF hostLow # {} THEN hostHigh ELSE DecHigh(hostHigh)
  /\ hostLow' = IF hostLow # {} THEN DecLow(hostLow) ELSE LastLow

Next ==
  \/ StepLow
  \/ StepHigh
  \/ StepBoth
  \/ StepBothBack

(* A consumer's body returns to the sequence, which then runs on.          *)
Spec == Init /\ [][Next]_vars /\ WF_vars(Next)
=============================================================================
