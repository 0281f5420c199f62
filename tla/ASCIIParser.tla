---------------------------- MODULE ASCIIParser ----------------------------
(***************************************************************************)
(* The byte parsers (parser_ascii.go): one pass over the bytes, no strings *)
(* and no errors.  They decide what ParseNetwork4ASCII, ParseNext... and   *)
(* UnmarshalText accept; only for a text they refuse is the string parser  *)
(* asked, for the error.  A refusal is the empty set.                      *)
(***************************************************************************)
EXTENDS StrictParser

-----------------------------------------------------------------------------
(* The loop over the digits of one octet: it gives up as soon as the value *)
(* or the number of digits is too large.                                   *)
OctetASCII(text, start) ==
  LET read[p \in Nat, value \in Nat] ==
        IF ~(p <= Len(text) /\ text[p] \in DOMAIN Decimal) THEN {[value |-> value, next |-> p]}
        ELSE LET more == value * Base + Decimal[text[p]]
             IN  IF more > MaxOctet \/ p + 1 - start > MaxDigits THEN {} ELSE read[p + 1, more]
  IN  {r \in read[start, 0] : r.next # start /\ ~(r.next - start > 1 /\ text[start] = "0")}

(* All octets, a dot between them, and nothing after the last.             *)
Address4ASCII(text) ==
  LET from[k \in Nat, p \in Nat, values \in Seq(Nat)] ==
        UNION {IF k = Octets THEN Only(r.next > Len(text), WordOf(Append(values, r.value), OctetBits))
               ELSE IF At(text, r.next, ".") THEN from[k + 1, r.next + 1, Append(values, r.value)]
               ELSE {} : r \in OctetASCII(text, p)}
  IN  from[1, 1, <<>>]

(* The first digit past the limit ends the loop.                           *)
PrefixASCII(text, limit) ==
  LET read[p \in Nat, value \in Nat] ==
        IF p > Len(text) THEN {value}
        ELSE IF text[p] \notin DOMAIN Decimal \/ value * Base + Decimal[text[p]] > limit THEN {}
        ELSE read[p + 1, value * Base + Decimal[text[p]]]
  IN  IF text = <<>> \/ (Len(text) > 1 /\ text[1] = "0") THEN {} ELSE read[1, 0]

-----------------------------------------------------------------------------
(* The hexadecimal digits of one group, one at least.                      *)
GroupASCII(text, start) ==
  LET read[p \in Nat, value \in Nat] ==
        IF ~(p <= Len(text) /\ text[p] \in DOMAIN Hex) THEN {[value |-> value, next |-> p]}
        ELSE IF p - start = GroupDigits THEN {}
        ELSE read[p + 1, value * 2 ^ HexBits + Hex[text[p]]]
  IN  {r \in read[start, 0] : r.next # start}

(* Mutant: a gap accepted beside all the groups.                           *)
ClosedWithEmptyGap(groups, gap) ==
  LET missing == Groups - Len(groups)
      filled  == [k \in 1 .. Groups |-> CASE k <= gap                     -> groups[k]
                                          [] k > gap /\ k <= gap + missing -> 0
                                          [] OTHER                         -> groups[k - missing]]
  IN  IF gap < 0 THEN Only(missing = 0, WordOf(groups, GroupBits))
      ELSE {WordOf(filled, GroupBits)}

(* The end of the loop: every group without a gap, another number with     *)
(* one, which stands for at least one zero group and moves the groups      *)
(* after it down.                                                          *)
Closed(groups, gap) ==
  LET missing == Groups - Len(groups)
      filled  == [k \in 1 .. Groups |-> CASE k <= gap                     -> groups[k]
                                          [] k > gap /\ k <= gap + missing -> 0
                                          [] OTHER                         -> groups[k - missing]]
  IN  IF gap < 0 THEN Only(missing = 0, WordOf(groups, GroupBits))
      ELSE Only(missing # 0, WordOf(filled, GroupBits))

(* Mutant: an embedded address counted as one group.                       *)
HasRoomForOne(groups) == Len(groups) < Groups

(* An embedded IPv4 address fits behind the groups read.                   *)
HasRoom(groups) == Len(groups) <= Groups - EmbeddedGroups

(* The loop over the groups; gap is the number of groups before the double *)
(* colon, -1 for none.                                                     *)
GroupsASCII(text, start, atGap) ==
  LET read[p \in Nat, groups \in Seq(Nat), gap \in Int] ==
        IF p > Len(text) THEN Closed(groups, gap)
        ELSE IF Len(groups) = Groups THEN {}
        ELSE UNION {
          LET all == Append(groups, r.value)
          IN  CASE At(text, r.next, ".") ->
                     (* an IPv4 address from the start of this group on *)
                     UNION {Closed(groups \o ValuesOf(a, GroupBits, EmbeddedGroups), gap) :
                              a \in IF HasRoom(groups) THEN Address4ASCII(From(text, p)) ELSE {}}
                [] r.next > Len(text) -> Closed(all, gap)
                [] At(text, r.next, ":") /\ At(text, r.next + 1, ":") ->
                     IF gap >= 0 THEN {} ELSE read[r.next + 2, all, Len(all)]
                [] At(text, r.next, ":") /\ r.next < Len(text) /\ ~At(text, r.next + 1, ":") ->
                     read[r.next + 1, all, gap]
                [] OTHER -> {} : r \in GroupASCII(text, p)}
  IN  read[start, <<>>, atGap]

(* A leading colon must be the first of a double one.                      *)
Address6ASCII(text) ==
  LET double == At(text, 1, ":") /\ At(text, 2, ":")
  IN  IF text = <<>> \/ (At(text, 1, ":") /\ ~double) THEN {}
      ELSE GroupsASCII(text, IF double THEN 3 ELSE 1, IF double THEN 0 ELSE -1)

-----------------------------------------------------------------------------
(* The suffix is tried as a length first and as a mask second.             *)
Network4ASCII(text) ==
  LET cut   == Cut(text)
      bits  == PrefixASCII(cut.suffix, W4)
      masks == IF ~cut.hasSuffix THEN {F4!Bits}
               ELSE IF bits # {} THEN {F4!MaskFromPrefix(p) : p \in bits}
               ELSE Address4ASCII(cut.suffix)
  IN  {F4!FromBits(a, x) : a \in Address4ASCII(cut.addr), x \in masks}

Network6ASCII(text) ==
  LET cut   == Cut(text)
      bits  == PrefixASCII(cut.suffix, W6)
      masks == IF ~cut.hasSuffix THEN {F6!Bits}
               ELSE IF bits # {} THEN {F6!MaskFromPrefix(p) : p \in bits}
               ELSE Address6ASCII(cut.suffix)
  IN  {F6!FromBits(a, x) : a \in Address6ASCII(cut.addr), x \in masks}

(* IPv4 first: no text is an address of both families.                     *)
EitherFamily(four, six) ==
  IF four # {} THEN {NetworkFrom4(n) : n \in four} ELSE {NetworkFrom6(n) : n \in six}
NetworkASCII(text) == EitherFamily(Network4ASCII(text), Network6ASCII(text))

-----------------------------------------------------------------------------
(* The entry points: what the byte parser accepts, or the error the string *)
(* parser has for the text, and ErrParse should it have none.              *)
Answer(networks, strict) ==
  IF networks # {} THEN [value |-> networks, err |-> "nil"]
  ELSE Fail(IF strict.err = "nil" THEN "ErrParse" ELSE strict.err)

ParseNetwork4ASCII(text) == Answer(Network4ASCII(text), ParseNetwork4(text))
ParseNetwork6ASCII(text) == Answer(Network6ASCII(text), ParseNetwork6(text))
ParseNetworkASCII(text) == Answer(NetworkASCII(text), ParseNetwork(text))

(* parseTextASCII of each family, for the contiguous wrapper.              *)
ParseTextASCII4(text) ==
  Answer({n \in Network4ASCII(text) : F4!IsContiguous(n)}, ParseContiguous4(text))
ParseTextASCII6(text) ==
  Answer({n \in Network6ASCII(text) : F6!IsContiguous(n)}, ParseContiguous6(text))
ParseTextASCII(text) ==
  Answer({d \in NetworkASCII(text) : IsContiguous(d)}, ParseContiguous(text))
BiContiguousASCII(text) ==
  Answer({n \in Network6ASCII(text) : B6!IsBicontiguous(n)}, ParseBiContiguous(text))

(* UnmarshalText: the zero value is a network, so the empty text is not.   *)
UnmarshalText(text, answer) == IF text = <<>> THEN Fail("ErrEmptyInput") ELSE answer

(* Mutant: the slash left out of the bytes of a token.                     *)
TokenEndAtSlash(text, ipv6) ==
  LET own   == DOMAIN Decimal \cup {".", "+"} \cup (IF ipv6 THEN DOMAIN Hex \cup {":"} ELSE {})
      stops == {p \in DOMAIN text : text[p] \notin own}
  IN  IF stops = {} THEN Len(text)
      ELSE (CHOOSE p \in stops : \A q \in stops : p <= q) - 1

(* The length of the longest leading run of bytes a network may have.      *)
NetworkTokenEndASCII(text, ipv6) ==
  LET own   == DOMAIN Decimal \cup {".", "/", "+"}
                 \cup (IF ipv6 THEN DOMAIN Hex \cup {":"} ELSE {})
      stops == {p \in DOMAIN text : text[p] \notin own}
  IN  IF stops = {} THEN Len(text)
      ELSE (CHOOSE p \in stops : \A q \in stops : p <= q) - 1

Next4(text) == NetworkTokenEndASCII(text, FALSE)
Next6(text) == NetworkTokenEndASCII(text, TRUE)

(* ParseNext...: the token must parse as a whole; the rest is handed back. *)
Leading(text, end, answer) ==
  [value |-> answer.value, err |-> answer.err,
   rest |-> IF answer.err = "nil" THEN From(text, end + 1) ELSE <<>>]

ParseNextNetwork4ASCII(text) ==
  LET end == Next4(text) IN Leading(text, end, ParseNetwork4ASCII(SubSeq(text, 1, end)))
ParseNextNetwork6ASCII(text) ==
  LET end == Next6(text) IN Leading(text, end, ParseNetwork6ASCII(SubSeq(text, 1, end)))
ParseNextNetworkASCII(text) ==
  LET end == Next6(text) IN Leading(text, end, ParseNetworkASCII(SubSeq(text, 1, end)))
=============================================================================
