------------------------------- MODULE Texts -------------------------------
(***************************************************************************)
(* Addresses and networks as text.  A text is a sequence of bytes; bases,  *)
(* digits per octet and group, octets and groups are parameters, so that   *)
(* short texts meet every limit.  The text of an ADDRESS belongs to        *)
(* net/netip, modelled by its published grammar; the text of a network is  *)
(* the library's (AppendTo, and Compact in compact.go).                    *)
(***************************************************************************)
EXTENDS DualNetworks, Sequences

CONSTANTS
  Decimal,       \* value of each decimal digit byte: 0 .. 9 in the code
  Hex,           \* value of each hexadecimal digit byte, of either case
  HexDigits,     \* the digits written, by value, decimal ones first
  OctetBits,     \* bits of a decimal field, 8 in the code
  MaxDigits,     \* decimal digits of an octet, 3 in the code
  HexBits,       \* bits of a hexadecimal digit, 4 in the code
  GroupDigits    \* hexadecimal digits of a group, 4 in the code

S == INSTANCE SequencesExt

Octets == W4 \div OctetBits
MaxOctet == 2 ^ OctetBits - 1
GroupBits == HexBits * GroupDigits
Groups == W6 \div GroupBits
EmbeddedGroups == W4 \div GroupBits   \* groups an embedded IPv4 address fills
Base == Cardinality(DOMAIN Decimal)

ASSUME TextsAssumption ==
  /\ MaxDigits <= GroupDigits   \* the first octet of an embedded address is read as a group
  /\ W4 = Octets * OctetBits /\ W6 = Groups * GroupBits /\ W4 = EmbeddedGroups * GroupBits
  /\ Base \in Nat \ {0, 1} /\ Decimal \in [DOMAIN Decimal -> 0 .. Base - 1]
  /\ Hex \in [DOMAIN Hex -> 0 .. 2 ^ HexBits - 1]
  /\ \A v \in 0 .. 2 ^ HexBits - 1 : Hex[HexDigits[v + 1]] = v
  /\ \A c \in DOMAIN Decimal : Hex[c] = Decimal[c]

-----------------------------------------------------------------------------
At(text, p, byte) == p <= Len(text) /\ text[p] = byte
From(text, p) == SubSeq(text, p, Len(text))

(* The fields between the separators: one more than there are separators.  *)
Split(text, separator) ==
  S!FoldLeft(LAMBDA fields, byte :
               IF byte = separator THEN Append(fields, <<>>)
               ELSE S!Front(fields) \o <<Append(S!Last(fields), byte)>>,
             <<<<>>>>, text)

Join(fields, separator) ==
  S!FoldLeft(LAMBDA text, k : IF k = 1 THEN fields[1] ELSE text \o <<separator>> \o fields[k],
             <<>>, [k \in 1 .. Len(fields) |-> k])

(* strings.Cut and bytes.Cut at the first slash.                           *)
Cut(text) ==
  LET slashes == {p \in 1 .. Len(text) : text[p] = "/"}
      first   == CHOOSE p \in slashes : \A q \in slashes : p <= q
  IN  IF slashes = {} THEN [addr |-> text, suffix |-> <<>>, hasSuffix |-> FALSE]
      ELSE [addr |-> SubSeq(text, 1, first - 1), suffix |-> From(text, first + 1),
            hasSuffix |-> TRUE]

(* A number without leading zeros.                                         *)
Numeral(value, base) ==
  LET write[v \in Nat] == IF v < base THEN <<HexDigits[v + 1]>>
                          ELSE Append(write[v \div base], HexDigits[(v % base) + 1])
  IN  write[value]

(* k fields of some bits make a word, the first field on top, and back.    *)
WordOf(values, bits) ==
  UNION {{i + (Len(values) - k) * bits : i \in F6!FromNat(values[k])} : k \in DOMAIN values}
ValuesOf(word, bits, n) ==
  [k \in 1 .. n |-> F6!ToNat({i - (n - k) * bits : i \in {j \in word :
                                (n - k) * bits <= j /\ j < (n - k + 1) * bits}})]

-----------------------------------------------------------------------------
(* net/netip: what it writes                                               *)

AddrText4 == [a \in F4!Word |->
  Join([k \in 1 .. Octets |-> Numeral(ValuesOf(a, OctetBits, Octets)[k], Base)], ".")]

(* The first of the longest runs of at least two zero groups, or none.     *)
ZeroRun(groups) ==
  LET runs    == {r \in (1 .. Groups) \X (1 .. Groups) :
                    r[1] < r[2] /\ \A k \in r[1] .. r[2] : groups[k] = 0}
      longest == {r \in runs : \A q \in runs : q[2] - q[1] <= r[2] - r[1]}
  IN  {r \in longest : \A q \in longest : r[1] <= q[1]}

AddrText6(a) ==
  LET groups    == ValuesOf(a, GroupBits, Groups)
      texts     == [k \in 1 .. Groups |-> Numeral(groups[k], 2 ^ HexBits)]
      part(l)   == Join(SubSeq(texts, 1, l), ":")
      rest(l)   == Join(SubSeq(texts, l, Groups), ":")
      mapped    == ValuesOf(Mapped, GroupBits, Groups)[Groups - EmbeddedGroups]
  IN  IF a \cap Pinned = Mapped
        THEN <<":", ":">> \o Numeral(mapped, 2 ^ HexBits) \o <<":">> \o AddrText4[Low4(a)]
      ELSE IF ZeroRun(groups) = {} THEN Join(texts, ":")
      ELSE LET run == CHOOSE r \in ZeroRun(groups) : TRUE
           IN  part(run[1] - 1) \o <<":", ":">> \o rest(run[2] + 1)

-----------------------------------------------------------------------------
(* net/netip: what it reads.  Every octet, hence every IPv4 address, has   *)
(* one text.                                                               *)
OctetOf ==
  [t \in {Numeral(v, Base) : v \in 0 .. MaxOctet} |->
     CHOOSE v \in 0 .. MaxOctet : Numeral(v, Base) = t]

Read4(text) ==
  LET fields == Split(text, ".")
  IN  IF Len(fields) = Octets /\ S!ToSet(fields) \subseteq DOMAIN OctetOf
        THEN {WordOf([k \in 1 .. Octets |-> OctetOf[fields[k]]], OctetBits)}
        ELSE {}

(* The groups of colon-separated fields, the last of which may be an IPv4  *)
(* address: a set of at most one sequence of values.                       *)
IsGroup(field) == Len(field) \in 1 .. GroupDigits /\ \A k \in DOMAIN field : field[k] \in DOMAIN Hex
GroupValue(field) == S!FoldLeft(LAMBDA v, c : v * 2 ^ HexBits + Hex[c], 0, field)

ReadGroups(fields, mayEmbed) ==
  LET plain(l) == [k \in 1 .. l |-> GroupValue(fields[k])]
      n        == Len(fields)
  IN  IF \A k \in 1 .. n : IsGroup(fields[k]) THEN {plain(n)}
      ELSE {plain(n - 1) \o ValuesOf(a, GroupBits, EmbeddedGroups) :
              a \in IF mayEmbed /\ \A k \in 1 .. n - 1 : IsGroup(fields[k])
                    THEN Read4(fields[n]) ELSE {}}

(* All groups, or fewer of them around one gap of at least one zero group. *)
Read6(text) ==
  LET gaps     == {p \in 1 .. Len(text) - 1 : text[p] = ":" /\ text[p + 1] = ":"}
      gap      == CHOOSE p \in gaps : TRUE
      list(t)  == IF t = <<>> THEN <<>> ELSE Split(t, ":")
      zeros(k) == [i \in 1 .. k |-> 0]
  IN  IF gaps = {} THEN {WordOf(g, GroupBits) :
                           g \in {h \in ReadGroups(Split(text, ":"), TRUE) : Len(h) = Groups}}
      ELSE IF Cardinality(gaps) > 1 THEN {}
      ELSE LET last == list(From(text, gap + 2))
           IN  {WordOf(g[1] \o zeros(Groups - Len(g[1]) - Len(g[2])) \o g[2], GroupBits) :
                  g \in {h \in ReadGroups(list(SubSeq(text, 1, gap - 1)), FALSE)
                                 \X ReadGroups(last, TRUE) :
                           Len(h[1]) + Len(h[2]) < Groups}}

(* The first dot, colon or percent sign decides; a zone follows an IPv6    *)
(* address and is not empty.                                               *)
ParseAddr(text) ==
  LET marks   == {p \in 1 .. Len(text) : text[p] \in {".", ":", "%"}}
      first   == CHOOSE p \in marks : \A q \in marks : p <= q
      percent == {p \in 1 .. Len(text) : text[p] = "%"}
      zone    == IF percent = {} THEN Len(text) + 1
                 ELSE CHOOSE p \in percent : \A q \in percent : p <= q
  IN  CASE marks = {} \/ zone = Len(text) -> {}
        [] marks # {} /\ text[first] = "." -> {Netip4(a) : a \in Read4(text)}
        [] marks # {} /\ text[first] = ":" /\ zone # Len(text) ->
             {[Netip6(a) EXCEPT !.zoned = percent # {}] : a \in Read6(SubSeq(text, 1, zone - 1))}
        [] OTHER -> {}

-----------------------------------------------------------------------------
(* The library: what it writes.  A contiguous mask is written as its       *)
(* length, any other as an address.                                        *)

AppendTo4(n) ==
  AddrText4[n.addr] \o <<"/">> \o
    (IF F4!IsContiguous(n) THEN Numeral(F4!LeadingOnes(n.mask), Base)
                           ELSE AddrText4[n.mask])
AppendTo6(n) ==
  AddrText6(n.addr) \o <<"/">> \o
    (IF F6!IsContiguous(n) THEN Numeral(F6!LeadingOnes(n.mask), Base)
                           ELSE AddrText6(n.mask))

(* Compact: a host route is its bare address.                              *)
AppendCompact4(n) == IF F4!PrefixLen(n) = {W4} THEN AddrText4[n.addr] ELSE AppendTo4(n)

(* Mutant: the host-route rule at the other family's length.               *)
AppendCompact6At4(n) == IF F6!PrefixLen(n) = {W4} THEN AddrText6(n.addr) ELSE AppendTo6(n)
AppendCompact6(n) == IF F6!PrefixLen(n) = {W6} THEN AddrText6(n.addr) ELSE AppendTo6(n)

(* A dual network is written in the family it holds.                       *)
AppendTo(d) == IF d.is4 THEN AppendTo4(Unwrap4(d)) ELSE AppendTo6(d.network)
AppendCompact(d) == IF d.is4 THEN AppendCompact4(Unwrap4(d)) ELSE AppendCompact6(d.network)
=============================================================================
