----------------------------- MODULE TextStream -----------------------------
(***************************************************************************)
(* A writer and readers of texts.  The writer sends bytes one by one, any  *)
(* bytes, or the text of a network whole, perhaps in its compact form and  *)
(* perhaps followed by more, or that of a MAC address in any of its forms, *)
(* or a text another program spelled; on the way one byte of it may be     *)
(* lost, added or changed.  Every entry point is asked about what arrived. *)
(***************************************************************************)
EXTENDS ASCIIParser

CONSTANTS
  Bytes,         \* what may arrive
  MaxAddress,    \* bound: bytes sent one by one before a slash,
  MaxSuffix,     \* after it,
  MaxSlash,      \* and before a slash that follows them
  Written,       \* networks of either family whose texts are written
  WrittenMacs,   \* MAC addresses whose texts are written
  Spelled        \* texts the library does not write

ASSUME StreamAssumption == Written \subseteq Network

(* Hexadecimal letters may have either case.                               *)
Upper(t) ==
  [k \in DOMAIN t |->
     IF \E c \in DOMAIN Hex \ {t[k]} : t[k] \in DOMAIN Hex /\ Hex[c] = Hex[t[k]]
     THEN CHOOSE c \in DOMAIN Hex \ {t[k]} : Hex[c] = Hex[t[k]] ELSE t[k]]

Mac == INSTANCE MacAddr WITH UpperDigits <- Upper(HexDigits)

VARIABLES
  text,      \* what arrived
  sent,      \* the network or MAC address whose text it is, untouched
  mode       \* "bytes", "text", "more" after a text, "mac", or "damaged"

vars == <<text, sent, mode>>

Init == text = <<>> /\ sent = {} /\ mode = "bytes"

MayFollow(byte) ==
  LET cut == Cut(text)
  IN  IF cut.hasSuffix THEN Len(cut.suffix) < MaxSuffix
      ELSE IF byte = "/" THEN Len(text) <= MaxSlash ELSE Len(text) < MaxAddress

Feed ==
  /\ mode = "bytes"
  /\ \E byte \in Bytes : MayFollow(byte) /\ text' = Append(text, byte)
  /\ UNCHANGED <<sent, mode>>

Write ==
  /\ text = <<>>
  /\ \E d \in Written :
       /\ sent' = {d}
       /\ text' \in {AppendTo(d), AppendCompact(d)}
  /\ mode' = "text"

Spell ==
  /\ text = <<>>
  /\ text' \in Spelled
  /\ mode' = "text"
  /\ UNCHANGED sent

WriteMac ==
  /\ text = <<>>
  /\ \E m \in WrittenMacs, separator \in {":", "-", "."} :
       LET t == Mac!AppendMacAddr(m, separator)
       IN  sent' = {m} /\ text' \in {t, Upper(t)}
  /\ mode' = "mac"

(* The next thing in the stream.                                           *)
WriteMore ==
  /\ mode = "text"
  /\ \E byte \in Bytes : text' = Append(text, byte)
  /\ mode' = "more"
  /\ UNCHANGED sent

Damage ==
  /\ mode \in {"text", "mac"}
  /\ \E k \in DOMAIN text :
       \/ text' = S!RemoveAt(text, k)
       \/ \E byte \in Bytes : text' \in {S!ReplaceAt(text, k, byte), S!InsertAt(text, k, byte)}
  /\ sent' = {}
  /\ mode' = "damaged"

Next == Feed \/ Write \/ WriteMac \/ Spell \/ WriteMore \/ Damage

Spec == Init /\ [][Next]_vars

-----------------------------------------------------------------------------
(* The byte parsers accept exactly the texts the string parsers accept,    *)
(* with the same value, for every type: an error always has a cause, and   *)
(* asciiParseError (parser_ascii.go:94) never finds a text that is none.   *)
FastAgreesWithStrict ==
  /\ ParseNetwork4ASCII(text) = ParseNetwork4(text)
  /\ ParseNetwork6ASCII(text) = ParseNetwork6(text)
  /\ ParseNetworkASCII(text) = ParseNetwork(text)
  /\ ParseTextASCII4(text) = ParseContiguous4(text)
  /\ ParseTextASCII6(text) = ParseContiguous6(text)
  /\ ParseTextASCII(text) = ParseContiguous(text)
  /\ BiContiguousASCII(text) = ParseBiContiguous(text)

(* A text read as a MAC address is that address written in one form with   *)
(* letters of either case.                                                 *)
LowerCase(t) == [k \in DOMAIN t |-> IF t[k] \in DOMAIN Hex THEN HexDigits[Hex[t[k]] + 1] ELSE t[k]]
IsMacText(t, m) == \E separator \in {":", "-", "."} : LowerCase(t) = Mac!AppendMacAddr(m, separator)

(* Identifiers one bit away from that of an address: the marker refuses    *)
(* exactly those with a bit of it changed.                                 *)
IdentifiersReverse(m) ==
  LET id == Mac!ToModifiedEUI64(m)
  IN  /\ Mac!FromModifiedEUI64(id) = {m}
      /\ Mac!IsLocallyAdministered(m) <=> 7 * Mac!O + 1 \notin id
      /\ \A i \in Mac!U!Bits :
           LET other == Mac!U!Xor(id, {i})
           IN  IF i \in 3 * Mac!O .. 5 * Mac!O - 1 THEN Mac!FromModifiedEUI64(other) = {}
               ELSE \E x \in Mac!FromModifiedEUI64(other) :
                      Mac!FromUint64(x) = {x} /\ Mac!ToModifiedEUI64(x) = other

(* A precision cuts the text, quotes go around what is left, and padding   *)
(* on one side fills the width.                                            *)
FormatsAsText(m, separator) ==
  LET cut(t, precision) == [k \in {k \in DOMAIN t : \A n \in precision : k <= n} |-> t[k]]
      quoted(t, c)      == <<c>> \o t \o <<c>>
      whole             == Mac!AppendMacAddr(m, separator)
  IN  \A precision \in {{}} \cup {{n} : n \in 0 .. 18}, width \in {0, 14, 17, 18, 20},
         flags \in SUBSET {"-", "0", "#"}, verb \in {"x", "X", "q"} :
        LET part   == cut(IF verb = "X" THEN Upper(whole) ELSE whole, precision)
            inner  == IF verb # "q" THEN part ELSE quoted(part, IF "#" \in flags THEN "'" ELSE "''")
            result == Mac!FormatMacAddr(m, separator, verb, flags, width, precision)
            spare  == Len(result) - Len(inner)
        IN  /\ Len(result) = IF width > Len(inner) THEN width ELSE Len(inner)
            /\ IF "-" \in flags
               THEN /\ SubSeq(result, 1, Len(inner)) = inner
                    /\ \A k \in 1 .. spare : result[Len(inner) + k] = " "
               ELSE /\ From(result, spare + 1) = inner
                    /\ \A k \in 1 .. spare : result[k] = IF "0" \in flags THEN "0" ELSE " "

(* What is written reads back (net4.go:957, net.go:806, compact.go:13), by *)
(* the readers of its family, by the dual reader and by the typed readers  *)
(* of its class.  A MAC address reads back from every form and from its    *)
(* octets, no other text is taken for one, its interface identifier leads  *)
(* back to it and to no other, and fmt writes, whatever the precision and  *)
(* the width, a leading part of that text (macaddr.go:59, 183, 194, 306).  *)
ReadsBack ==
  /\ mode = "text" =>
       \A d \in sent :
         /\ UnmarshalText(text, ParseNetworkASCII(text)) = Ok(d)
         /\ d.is4 => UnmarshalText(text, ParseNetwork4ASCII(text)) = Ok(Unwrap4(d))
         /\ ~d.is4 => UnmarshalText(text, ParseNetwork6ASCII(text)) = Ok(d.network)
         /\ IsContiguous(d) => UnmarshalText(text, ParseTextASCII(text)) = Ok(d)
         /\ ~d.is4 /\ IsContiguous(d) => BiContiguousASCII(text) = Ok(d.network)
  /\ \A m \in Mac!ParseMacAddr(text) : IsMacText(text, m)
  /\ mode = "mac" =>
       /\ Mac!ParseMacAddr(text) = sent
       /\ \A m \in sent : Mac!From6(Mac!As6(m)) = m /\ IdentifiersReverse(m)
       /\ \A m \in sent, separator \in {":", "-", "."} :
            text = Mac!AppendMacAddr(m, separator) => FormatsAsText(m, separator)

(* No longer leading part of the stream is a network of the same type.     *)
Longest(result, Strict(_)) ==
  result.err = "nil" =>
    \A k \in 1 .. Len(text) :
      Strict(SubSeq(text, 1, k)).err = "nil" => k <= Len(text) - Len(result.rest)

Same(next, next4, next6) ==
  next.err = "nil" =>
    \A d \in next.value :
      IF d.is4 THEN next4 = [next EXCEPT !.value = {Unwrap4(d)}]
               ELSE next6 = [next EXCEPT !.value = {d.network}]

(* A reader of the next network takes the longest leading part of the      *)
(* stream that is a network of its family, and hands back what follows; an *)
(* IPv4 network the dual reader finds, the IPv4 reader finds too, with the *)
(* same rest (parser_ascii.go:275, 308, 324).                              *)
NextIsLongest ==
  /\ Longest(ParseNextNetwork4ASCII(text), ParseNetwork4)
  /\ Longest(ParseNextNetwork6ASCII(text), ParseNetwork6)
  /\ Longest(ParseNextNetworkASCII(text), ParseNetwork)
  /\ Same(ParseNextNetworkASCII(text), ParseNextNetwork4ASCII(text), ParseNextNetwork6ASCII(text))
=============================================================================
