---------------------------- MODULE MCDualCalls ----------------------------
(* Every IPv4 network of a 2-bit family and every IPv6 network of a 4-bit  *)
(* one, the mapped range being 01xx: both patterns of a pinned bit occur.  *)
EXTENDS DualCalls

MCMapped == {2}

(* Empty slices, and pairs of any network and a host route of either       *)
(* family, in either order: a foreign element comes first or last.         *)
MCProbes == {NetworkFrom4(F4!FromAddr({0})), NetworkFrom6(F6!FromAddr({0, 2}))}
MCSlices ==
  {<<>>} \cup {<<o>> : o \in Network}
    \cup {<<o, p>> : o \in Network, p \in MCProbes} \cup {<<p, o>> : o \in Network, p \in MCProbes}
=============================================================================
