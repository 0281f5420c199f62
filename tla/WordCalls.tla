----------------------------- MODULE WordCalls -----------------------------
(***************************************************************************)
(* What the word type of a family promises to the algorithms above it: a   *)
(* program that holds one word and replaces it by the result of one        *)
(* operation after another, on words that are not in pieces.  IPv4 has     *)
(* such a word, uint32; Uint128Calls must be another.                      *)
(***************************************************************************)
EXTENDS Words

CONSTANT B    \* bits of a byte

VARIABLES
  word,     \* the word held
  op,       \* the last operation, its operand or count, and its answers
  operand,
  count,
  answer

vars == <<word, op, operand, count, answer>>

Init == word \in Word /\ op = "none" /\ operand = {} /\ count = 0 /\ answer = <<>>

Do(x, n, result) ==
  operand' = x /\ count' = n /\ word' = result /\ answer' = <<>>

Operand(name, Result(_)) ==
  op = "none" /\ op' = name /\ \E x \in Word : Do(x, 0, Result(x))
Count(name, counts, Result(_)) ==
  op = "none" /\ op' = name /\ \E n \in counts : Do({}, n, Result(n))
Alone(name, result) == op = "none" /\ op' = name /\ Do({}, 0, result)

Combine ==
  \/ Operand("And", LAMBDA x : word \cap x)
  \/ Operand("Or", LAMBDA x : word \cup x)
  \/ Operand("Xor", LAMBDA x : Xor(word, x))
  \/ Operand("AndNot", LAMBDA x : word \ x)
  \/ Operand("Add", LAMBDA x : Add(word, x))
  \/ Operand("Sub", LAMBDA x : Sub(word, x))

Shift ==
  \/ Count("Shl", 0 .. W, LAMBDA n : {i \in Bits : i - n \in word})
  \/ Count("Shr", 0 .. W, LAMBDA n : {i \in Bits : i + n \in word})

Make ==
  \/ Count("Bit", Bits, LAMBDA n : {n})
  \/ Count("MaskFromPrefix", 0 .. W, LAMBDA n : MaskFromPrefix(n))

Change ==
  \/ Alone("Not", Not(word))
  \/ Alone("AddOne", AddOne(word))
  \/ Alone("SubOne", SubOne(word))
  \/ Alone("Neg", Neg(word))
  \/ Alone("LowestSetBit", LowestSetBit(word))
  \/ Alone("ClearLowestSetBit", ClearLowestSetBit(word))

(* The bytes of a word, the highest first.                                 *)
BigEndian(x) == [k \in 1 .. W \div B |-> {i \in 0 .. B - 1 : W - k * B + i \in x}]

(* Through its bytes and back.                                             *)
Convert ==
  /\ op = "none" /\ op' = "As16"
  /\ operand' = {} /\ count' = 0
  /\ answer' = BigEndian(word)
  /\ UNCHANGED word

(* The questions an algorithm puts to a word.                              *)
Answers(x) ==
  [compare       |-> CASE Lt(word, x) -> -1 [] word = x -> 0 [] Lt(x, word) -> 1,
   zero          |-> word = {},
   max           |-> word = Bits,
   power         |-> Cardinality(word) = 1,
   contiguous    |-> \E p \in 0 .. W : word = MaskFromPrefix(p),
   leadingZeros  |-> Cardinality({i \in Bits : \A j \in word : j < i}),
   leadingOnes   |-> LeadingOnes(word),
   trailingZeros |-> Cardinality({i \in Bits : \A j \in word : i < j}),
   ones          |-> Cardinality(word)]

Ask ==
  /\ op = "none" /\ op' = "Ask"
  /\ \E x \in Word : operand' = x /\ answer' = Answers(x)
  /\ count' = 0
  /\ UNCHANGED word

(* The program goes on with the word it has.                               *)
Continue ==
  /\ op # "none" /\ op' = "none"
  /\ Do({}, 0, word)

Next ==
  \/ Combine
  \/ Shift
  \/ Make
  \/ Change
  \/ Convert
  \/ Ask
  \/ Continue

Spec == Init /\ [][Next]_vars
=============================================================================
