----------------------------- MODULE SubnetWalk -----------------------------
(***************************************************************************)
(* The sequences that partition one network: Subnets and SubnetsWithPrefix *)
(* into subnets, Addrs into its addresses, each of them in both directions *)
(* (net4.go:281-477, net6.go; the typed wrappers of contiguous.go walk     *)
(* their addresses as the contiguous branch of Addrs does).                *)
(* The free positions are counted through without an index: the carry, or  *)
(* the borrow, runs across the positions between them.                     *)
(***************************************************************************)
EXTENDS Networks, Sequences

VARIABLES
  method,    \* the method called
  receiver,  \* its receiver
  arg,       \* its argument: a mask, a prefix length, or 0 for none
  yieldMask, \* mask of what is yielded
  cursor,    \* the next address; the next offset in SubnetsBackward
  given,     \* what has been yielded; an address stands as its host route
  broken,    \* the consumer broke
  want,      \* what the method promises (never read by the code)
  pc

walkVars == <<method, receiver, arg, yieldMask, cursor, given, broken, want, pc>>

SubnetOps == {"Subnets", "SubnetsWithPrefix"}
BackwardSubnetOps == {"SubnetsBackward", "SubnetsWithPrefixBackward"}
AddrOps == {"Addrs", "AddrsBackward"}

-----------------------------------------------------------------------------
(* The promise                                                             *)

(* Every network with the requested mask inside the receiver, in ascending *)
(* order of the addresses, or in descending order.                         *)
Asked(n) ==
  CASE method \in {"Subnets", "SubnetsBackward"} -> n.mask = arg
    [] method \in AddrOps -> n.mask = Bits
    [] OTHER -> PrefixLen(n) = {arg}
Inside == {n \in Network : Contains(receiver, n) /\ Asked(n)}

Descends == method \in BackwardSubnetOps \cup {"AddrsBackward"}

Want ==
  [k \in 1 .. Cardinality(Inside) |->
     CHOOSE n \in Inside :
       k = Cardinality({x \in Inside : IF Descends THEN Le(n.addr, x.addr)
                                                   ELSE Le(x.addr, n.addr)})]

-----------------------------------------------------------------------------
(* A mask must keep every bit the receiver fixes.                          *)
SubnetMask(n, kernel) == Only(kernel \cap n.mask = n.mask, kernel)

(* Mutant: the length checked against the width only.                      *)
SubnetPrefixMaskUnchecked(n, prefix) ==
  Only(0 <= prefix /\ prefix <= W, MaskFromPrefix(prefix) \cup n.mask)
SubnetPrefixMask(n, prefix) ==
  Only(0 <= prefix /\ prefix <= W /\ MaskFromPrefix(prefix) \cap n.mask = n.mask,
       MaskFromPrefix(prefix))

(* The mask of what is yielded, or {} when the argument is refused.        *)
Requested ==
  IF method \in AddrOps THEN {Bits}
  ELSE IF method \in {"Subnets", "SubnetsBackward"} THEN SubnetMask(receiver, arg)
  ELSE SubnetPrefixMask(receiver, arg)

(* The caller passes any mask, any length and those just outside the range.*)
WalkInit ==
  /\ method \in SubnetOps \cup BackwardSubnetOps \cup AddrOps
  /\ receiver \in Network
  /\ arg \in IF method \in AddrOps THEN {0}
             ELSE IF method \in {"Subnets", "SubnetsBackward"} THEN Word
             ELSE -1 .. (W + 1)
  /\ yieldMask = {}
  /\ cursor = {}
  /\ given = <<>>
  /\ broken = FALSE
  /\ want = Want
  /\ pc = "start"

Extra == yieldMask \ receiver.mask
FreeBits == Not(receiver.mask)
Adjacent == FreeBits \cap AddOne(FreeBits) = {}

(* yield(n); the sequence ends when the consumer breaks or after its last  *)
(* element, and its locals are dead then.                                  *)
Yield(n, last) ==
  /\ given' = Append(given, n)
  /\ \/ broken' = TRUE /\ pc' = "done"
     \/ broken' = FALSE /\ pc' = IF last THEN "done" ELSE "walk"

(* Invalid masks and lengths produce an empty sequence.                    *)
Refuse ==
  /\ pc = "start"
  /\ Requested = {}
  /\ pc' = "done"
  /\ UNCHANGED <<method, receiver, arg, want, yieldMask, cursor, given, broken>>

Start ==
  /\ pc = "start"
  /\ yieldMask' \in Requested
  /\ cursor' = CASE method \in SubnetOps \cup {"Addrs"} -> receiver.addr
                 [] method \in BackwardSubnetOps        -> yieldMask' \ receiver.mask
                 [] method = "AddrsBackward"            -> receiver.addr \cup FreeBits
  /\ pc' = "walk"
  /\ UNCHANGED <<method, receiver, arg, want, given, broken>>

(* cursor = ((cursor|^extra)+1)&extra | m.addr                             *)
YieldSubnet ==
  /\ pc = "walk" /\ method \in SubnetOps
  /\ Yield([addr |-> cursor, mask |-> yieldMask], cursor = receiver.addr \cup Extra)
  /\ cursor' = (AddOne(cursor \cup Not(Extra)) \cap Extra) \cup receiver.addr
  /\ UNCHANGED <<method, receiver, arg, want, yieldMask>>

(* offset = (offset-1)&extra                                               *)
YieldSubnetBackward ==
  /\ pc = "walk" /\ method \in BackwardSubnetOps
  /\ Yield([addr |-> receiver.addr \cup cursor, mask |-> yieldMask], cursor = {})
  /\ cursor' = SubOne(cursor) \cap Extra
  /\ UNCHANGED <<method, receiver, arg, want, yieldMask>>

(* front++ where the host bits are adjacent,                               *)
(* front = ((front|mask)+1)&hostMask | base where they are scattered.      *)
YieldAddr ==
  /\ pc = "walk" /\ method = "Addrs"
  /\ Yield(FromAddr(cursor), cursor = LastAddr(receiver))
  /\ cursor' = IF Adjacent THEN AddOne(cursor)
               ELSE (AddOne(cursor \cup receiver.mask) \cap FreeBits) \cup receiver.addr
  /\ UNCHANGED <<method, receiver, arg, want, yieldMask>>

YieldAddrBackward ==
  /\ pc = "walk" /\ method = "AddrsBackward"
  /\ Yield(FromAddr(cursor), cursor = receiver.addr)
  /\ cursor' = IF Adjacent THEN SubOne(cursor)
               ELSE (SubOne(cursor \cap FreeBits) \cap FreeBits) \cup receiver.addr
  /\ UNCHANGED <<method, receiver, arg, want, yieldMask>>

WalkNext ==
  \/ Refuse
  \/ Start
  \/ YieldSubnet
  \/ YieldSubnetBackward
  \/ YieldAddr
  \/ YieldAddrBackward

(* A consumer's body returns to the sequence, which then runs on.          *)
WalkSpec == WalkInit /\ [][WalkNext]_walkVars /\ WF_walkVars(WalkNext)
=============================================================================
