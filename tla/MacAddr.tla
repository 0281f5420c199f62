------------------------------ MODULE MacAddr ------------------------------
(***************************************************************************)
(* MAC addresses (macaddr.go, macfmt.go): six octets of two hexadecimal    *)
(* digits in one integer of eight octets, their three text forms, and the  *)
(* modified EUI-64 identifier, which keeps the two halves of an address    *)
(* apart around a marker.                                                  *)
(***************************************************************************)
EXTENDS Integers, FiniteSets, Sequences

CONSTANTS
  Hex,          \* value of each hexadecimal digit byte, of either case
  HexDigits,    \* the digits the library writes, by value
  UpperDigits,  \* those the verb X writes
  HexBits       \* bits of a digit, 4 in the code

O == 2 * HexBits
U == INSTANCE Words WITH W <- 8 * O   \* uint64
S == INSTANCE SequencesExt

Only(found, x) == IF found THEN {x} ELSE {}

Shl(x, n) == {i \in U!Bits : i - n \in x}
Shr(x, n) == {i \in U!Bits : i + n \in x}
Lowest(x, n) == {i \in x : i < n}

-----------------------------------------------------------------------------
FromUint64(value) == Only(Shr(value, 6 * O) = {}, value)

As6(m) == [k \in 1 .. 6 |-> Lowest(Shr(m, (6 - k) * O), O)]
From6(octets) == UNION {Shl(octets[k], (6 - k) * O) : k \in 1 .. 6}

(* The U/L bit of the first octet.                                         *)
IsLocallyAdministered(m) == 5 * O + 1 \in m

(* ff:fe                                                                   *)
Marker == 1 .. 2 * O - 1

ToModifiedEUI64(m) ==
  U!Xor(Shl(Shr(m, 3 * O), 5 * O) \cup Shl(Marker, 3 * O) \cup Lowest(m, 3 * O),
        {7 * O + 1})

(* Mutant: the U/L bit inverted where it was before the marker went in.    *)
FromModifiedEUI64Early(identifier) ==
  LET prefix == U!Xor(Shr(identifier, 5 * O), {O + 1})
  IN  Only(Lowest(Shr(identifier, 3 * O), 2 * O) = Marker,
           Shl(prefix, 3 * O) \cup Lowest(identifier, 3 * O))
FromModifiedEUI64(identifier) ==
  LET prefix == U!Xor(Shr(identifier, 5 * O), {2 * O + 1})
  IN  Only(Lowest(Shr(identifier, 3 * O), 2 * O) = Marker,
           Shl(prefix, 3 * O) \cup Lowest(identifier, 3 * O))

-----------------------------------------------------------------------------
(* Octets apart, or pairs of them when the separator is a dot.             *)
AppendMacAddr(m, separator) ==
  LET octets   == As6(m)
      digit(x) == HexDigits[U!ToNat(x) + 1]
  IN  S!FoldLeft(
        LAMBDA text, k :
          text \o (IF k > 1 /\ (separator # "." \/ k % 2 = 1) THEN <<separator>> ELSE <<>>)
               \o <<digit(Shr(octets[k], HexBits)), digit(Lowest(octets[k], HexBits))>>,
        <<>>, [k \in 1 .. 6 |-> k])

(* The length decides between the forms; within one, all separators are    *)
(* the same.                                                               *)
Separators(text) ==
  CASE Len(text) = 17 -> {c \in {":", "-"} : \A p \in {3, 6, 9, 12, 15} : text[p] = c}
    [] Len(text) = 14 -> {c \in {"."} : text[5] = c /\ text[10] = c}
    [] OTHER -> {}

(* Where the digits of the octet number idx, from 0, are.                  *)
Position(idx, separator) ==
  1 + IF separator = "." THEN 2 * idx + idx \div 2 ELSE 3 * idx

(* A refusal is the empty set; UnmarshalText leaves its receiver alone     *)
(* then.                                                                   *)
ParseMacAddr(text) ==
  UNION {
    LET digit(p) == {i \in 0 .. HexBits - 1 : (Hex[text[p]] \div 2 ^ i) % 2 = 1}
        at(k)    == Position(k - 1, c)
        octets   == [k \in 1 .. 6 |-> Shl(digit(at(k)), HexBits) \cup digit(at(k) + 1)]
    IN  Only(\A k \in 1 .. 6 : {text[at(k)], text[at(k) + 1]} \subseteq DOMAIN Hex,
             From6(octets)) :
    c \in Separators(text)}

-----------------------------------------------------------------------------
(* fmt.Formatter                                                           *)

(* Character by character, until there are as many as asked for.           *)
WriteMacAddr(m, separator, digits, limit) ==
  LET octets      == As6(m)
      digit(x)    == digits[U!ToNat(x) + 1]
      put(out, c) == IF Len(out) = limit THEN out ELSE Append(out, c)
      parted(out, k) ==
        IF k > 1 /\ (separator # "." \/ k % 2 = 1) THEN put(out, separator) ELSE out
  IN  S!FoldLeft(
        LAMBDA out, k :
          put(put(parted(out, k), digit(Shr(octets[k], HexBits))), digit(Lowest(octets[k], HexBits))),
        <<>>, [k \in 1 .. 6 |-> k])

(* Mutant: one of the quotes forgotten.                                    *)
PaddingOneQuote(width, length, quote) == 1 .. width - (length + Len(quote))
Padding(width, length, quote) == 1 .. width - (length + 2 * Len(quote))

(* The verbs v, s, x, X and q, with double quotes or back ones, here two   *)
(* characters of no other use; a precision is optional.  The padding is    *)
(* computed before anything is written, from the length there will be.     *)
FormatMacAddr(m, separator, verb, flags, width, precision) ==
  LET lengths == precision \cup {IF separator = "." THEN 14 ELSE 17}
      length  == CHOOSE n \in lengths : \A k \in lengths : n <= k
      digits  == IF verb = "X" THEN UpperDigits ELSE HexDigits
      quote   == IF verb # "q" THEN <<>> ELSE <<IF "#" \in flags THEN "'" ELSE "''">>
      written == quote \o WriteMacAddr(m, separator, digits, length) \o quote
      pad(c)  == [k \in Padding(width, length, quote) |-> c]
  IN  IF "-" \in flags THEN written \o pad(" ")
      ELSE pad(IF "0" \in flags THEN "0" ELSE " ") \o written
=============================================================================
