---------------------------- MODULE StrictParser ----------------------------
(***************************************************************************)
(* The string parsers (net4.go, net6.go, net.go, contiguous.go,            *)
(* bicontiguous.go): an address by netip.ParseAddr, then a prefix length   *)
(* or a mask.  They also give the error of every other entry point.        *)
(***************************************************************************)
EXTENDS Texts

(* Networks of the IPv6 family in two halves.                              *)
B6 == INSTANCE Halves WITH W <- W6, HighW <- W6 - W6 \div 2, LowW <- W6 \div 2

(* A result is a value, or an error named by its sentinel.                 *)
Ok(x) == [value |-> {x}, err |-> "nil"]
Fail(sentinel) == [value |-> {}, err |-> sentinel]

-----------------------------------------------------------------------------
(* One or more digits without a leading zero: the form of a prefix length, *)
(* in which a text is never taken for a mask.                              *)
IsPrefixForm(text) ==
  /\ text # <<>>
  /\ \A k \in DOMAIN text : text[k] \in DOMAIN Decimal
  /\ Len(text) > 1 => text[1] # "0"

(* Accumulation stops at the first digit past the limit.                   *)
PrefixValue(text, limit) ==
  S!FoldLeft(LAMBDA v, c : IF v > limit THEN v ELSE v * Base + Decimal[c], 0, text)

ParsePrefixLenText(text, limit) ==
  IF PrefixValue(text, limit) > limit THEN Fail("ErrCIDROverflow")
  ELSE Ok(PrefixValue(text, limit))

(* What ParseAddr returned, as a word of the family: an IPv4 address is no *)
(* IPv6 one, nor the reverse, and a zone is refused.                       *)
ParsedKernel(addr, family) ==
  CASE addr.family # family -> Fail("ErrAddrFamilyMismatch")
    [] addr.family = family /\ addr.zoned -> Fail("ErrZone")
    [] OTHER -> Ok(addr.bits)

(* Whatever is wrong with an explicit mask, it is an invalid mask.         *)
Masks(masks) == [value |-> masks, err |-> IF masks = {} THEN "ErrInvalidMask" ELSE "nil"]
ParsedMask(suffix, family) ==
  Masks(UNION {ParsedKernel(a, family).value : a \in ParseAddr(suffix)})

(* A missing suffix is a host route.                                       *)
SuffixMask(cut, family) ==
  LET width == IF family = 4 THEN W4 ELSE W6
      bits  == IF cut.hasSuffix THEN ParsePrefixLenText(cut.suffix, width) ELSE Ok(width)
  IN  IF ~cut.hasSuffix \/ IsPrefixForm(cut.suffix)
        THEN [bits EXCEPT !.value = {IF family = 4 THEN F4!MaskFromPrefix(p)
                                                   ELSE F6!MaskFromPrefix(p) : p \in @}]
        ELSE ParsedMask(cut.suffix, family)

ParseParts(addr, cut, family) ==
  LET kernel == ParsedKernel(addr, family)
      mask   == SuffixMask(cut, family)
  IN  IF kernel.err # "nil" THEN kernel
      ELSE [mask EXCEPT !.value = {[addr |-> a \cap x, mask |-> x] : a \in kernel.value, x \in @}]

ParseFamily(addrs, cut, family) ==
  IF addrs = {} THEN Fail("ErrParse")
  ELSE ParseParts(CHOOSE a \in addrs : TRUE, cut, family)

ParseNetwork4(text) == ParseFamily(ParseAddr(Cut(text).addr), Cut(text), 4)
ParseNetwork6(text) == ParseFamily(ParseAddr(Cut(text).addr), Cut(text), 6)

(* The address part selects the family.                                    *)
ParseSelected(addrs, cut) ==
  LET is4 == \E a \in addrs : a.family = 4
  IN  [ParseFamily(addrs, cut, IF is4 THEN 4 ELSE 6)
         EXCEPT !.value = {IF is4 THEN NetworkFrom4(n) ELSE NetworkFrom6(n) : n \in @}]
ParseNetwork(text) == ParseSelected(ParseAddr(Cut(text).addr), Cut(text))

-----------------------------------------------------------------------------
(* The typed parsers accept the networks of their class.                   *)
Classed(result, class, sentinel) ==
  IF result.value \subseteq class THEN result ELSE Fail(sentinel)

Contiguous4(r) ==
  Classed(r, {n \in r.value : F4!IsContiguous(n)}, "ErrNonContiguousMask")
Contiguous6(r) ==
  Classed(r, {n \in r.value : F6!IsContiguous(n)}, "ErrNonContiguousMask")
Contiguous(r) ==
  Classed(r, {d \in r.value : IsContiguous(d)}, "ErrNonContiguousMask")
BiContiguous(r) ==
  Classed(r, {n \in r.value : B6!IsBicontiguous(n)}, "ErrNonBiContiguousMask")

ParseContiguous4(text) == Contiguous4(ParseNetwork4(text))
ParseContiguous6(text) == Contiguous6(ParseNetwork6(text))
ParseContiguous(text) == Contiguous(ParseNetwork(text))
ParseBiContiguous(text) == BiContiguous(ParseNetwork6(text))
=============================================================================
