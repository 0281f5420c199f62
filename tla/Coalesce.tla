------------------------------ MODULE Coalesce ------------------------------
(***************************************************************************)
(* What every aggregation of the library promises, without an order, an    *)
(* array or a search: a bag of networks in which two members are replaced  *)
(* by one network naming exactly the addresses of both, until no           *)
(* replacement inside the class is left.                                   *)
(***************************************************************************)
EXTENDS Networks, Bags

CONSTANT Class   \* the networks the aggregation may produce

VARIABLES family, done

vars == <<family, done>>

Single(n) == SetToBag({n})

(* The least network that contains both is the only one that can name      *)
(* exactly their addresses.                                                *)
Hull(a, b) ==
  LET agreed == {i \in a.mask \cap b.mask : i \in a.addr <=> i \in b.addr}
  IN  FromBits(a.addr, agreed)

Unite(a, b) ==
  {u \in {Hull(a, b)} \cap Class : Addrs(u) = Addrs(a) \cup Addrs(b)}

(* The pair may be two copies of one network.                              *)
Together(a, b) == Single(a) (+) Single(b)

Closed(bag) ==
  \A a, b \in BagToSet(bag) : Unite(a, b) # {} => ~(Together(a, b) \sqsubseteq bag)

Init == IsABag(family) /\ BagToSet(family) \subseteq Class /\ done = FALSE

Replace ==
  /\ ~done
  /\ \E a, b \in BagToSet(family) : \E u \in Unite(a, b) :
       /\ Together(a, b) \sqsubseteq family
       /\ family' = (family (-) Together(a, b)) (+) Single(u)
  /\ UNCHANGED done

Finish ==
  /\ ~done
  /\ Closed(family)
  /\ done' = TRUE
  /\ UNCHANGED family

Next == Replace \/ Finish

Spec == Init /\ [][Next]_vars /\ WF_vars(Next)
=============================================================================
