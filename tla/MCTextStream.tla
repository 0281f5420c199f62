---------------------------- MODULE MCTextStream ----------------------------
(* Numbers in base three and digits of two bits: an octet is a number up   *)
(* to 15, a group three digits up to 63, an IPv4 address three octets and  *)
(* two groups of the four of an IPv6 address, the mapped range is          *)
(* ::aaa:0:0.                                                              *)
EXTENDS TextStream

MCDecimal == [c \in {"0", "1", "2"} |-> CASE c = "0" -> 0 [] c = "1" -> 1 [] c = "2" -> 2]
MCHex == [c \in {"0", "1", "2", "a", "A"} |->
            CASE c = "0" -> 0 [] c = "1" -> 1 [] c = "2" -> 2 [] c \in {"a", "A"} -> 3]
MCHexDigits == <<"0", "1", "2", "a">>
MCMapped == 12 .. 17
MCBytes == {"0", "1", "2", "A", ".", ":", "/", "%", " "}

(* IPv4 networks, and IPv6 networks with every pattern of zero groups, the *)
(* mapped range included, each under masks of every class.                 *)
MCMasks4 == {F4!MaskFromPrefix(p) : p \in {0, 1, 7, 12}} \cup {{11, 3}, 0 .. 10}
MCAddresses4 == {{}, {0}, {8, 5, 2}, F4!Bits}
MCMasks ==
  {F6!MaskFromPrefix(p) : p \in {0, 7, W4, W6 - 1, W6}}
    \cup {{23, 11}, {23, 22, 0}, F6!Bits \ {17}}
MCAddresses ==
  {{6 * g : g \in groups} : groups \in SUBSET (0 .. 3)}
    \cup {12 .. 17, (12 .. 17) \cup {7, 0}, {23, 11, 8}, F6!Bits}
MCWritten ==
  {NetworkFrom4(F4!FromBits(a, x)) : a \in MCAddresses4, x \in MCMasks4}
    \cup {NetworkFrom6(F6!FromBits(a, x)) : a \in MCAddresses, x \in MCMasks}

(* Groups up to all there are, perhaps an IPv4 address after them, and     *)
(* perhaps a gap before, between or after the groups.                      *)
MCSpelled ==
  LET ones(k)    == [i \in 1 .. k |-> <<"1">>]
      tails      == {<<>>, <<<<"0", ".", "2", ".", "1">>>>}
      joined(fs) == Join(fs, ":")
  IN  {joined(ones(k) \o t) : k \in 1 .. Groups, t \in tails}
        \cup {joined(ones(p[1])) \o <<":", ":">> \o joined(ones(p[2]) \o t) :
                 p \in {q \in (0 .. Groups) \X (0 .. Groups) : q[1] + q[2] <= Groups}, t \in tails}

(* The zero address, broadcast, and addresses with the group bit or the    *)
(* U/L bit and octets that all differ.                                     *)
MCMacs == {{}, 0 .. 23, {20, 16, 17, 12, 14, 9, 8, 5, 3, 2}, {21, 19, 18, 13, 10, 8, 4, 0}}
=============================================================================
