---------------------------- MODULE Uint128Calls ----------------------------
(***************************************************************************)
(* A program that holds one uint128 and replaces it by the result of one   *)
(* operation after another, every operation of uint128.go.                 *)
(***************************************************************************)
EXTENDS Uint128

VARIABLES
  value,       \* the uint128 held
  operation,   \* the last operation, its operand or count, and its answers
  operand,
  count,
  answer

wordVars == <<value, operation, operand, count, answer>>

WordInit ==
  /\ value \in Uint128 /\ operation = "none"
  /\ operand = Zero /\ count = 0 /\ answer = <<>>

Do(x, n, result) ==
  operand' = x /\ count' = n /\ value' = result /\ answer' = <<>>

Operand(name, Result(_)) ==
  operation = "none" /\ operation' = name /\ \E x \in Uint128 : Do(x, 0, Result(x))
Count(name, counts, Result(_)) ==
  operation = "none" /\ operation' = name /\ \E n \in counts : Do(Zero, n, Result(n))
Alone(name, result) == operation = "none" /\ operation' = name /\ Do(Zero, 0, result)

Combine ==
  \/ Operand("And", LAMBDA x : And(value, x))
  \/ Operand("Or", LAMBDA x : Or(value, x))
  \/ Operand("Xor", LAMBDA x : Xor(value, x))
  \/ Operand("AndNot", LAMBDA x : AndNot(value, x))
  \/ Operand("Add", LAMBDA x : Add(value, x))
  \/ Operand("Sub", LAMBDA x : Sub(value, x))

(* The counts the prefix arithmetic produces, both ends included.          *)
Shift ==
  \/ Count("Shl", 0 .. 2 * H, LAMBDA n : Shl(value, n))
  \/ Count("Shr", 0 .. 2 * H, LAMBDA n : Shr(value, n))

Make ==
  \/ Count("Bit", 0 .. 2 * H - 1, LAMBDA n : Bit(n))
  \/ Count("MaskFromPrefix", 0 .. 2 * H, LAMBDA n : MaskFromPrefix(n))

Change ==
  \/ Alone("Not", Not(value))
  \/ Alone("AddOne", AddOne(value))
  \/ Alone("SubOne", SubOne(value))
  \/ Alone("Neg", Neg(value))
  \/ Alone("LowestSetBit", LowestSetBit(value))
  \/ Alone("ClearLowestSetBit", ClearLowestSetBit(value))

(* Through the 16-byte form and back.                                      *)
ConvertWord ==
  /\ operation = "none" /\ operation' = "As16"
  /\ operand' = Zero /\ count' = 0
  /\ answer' = As16(value)
  /\ value' = From16(answer')

Answers(x) ==
  [compare       |-> Compare(value, x),
   zero          |-> IsZero(value),
   max           |-> IsMax(value),
   power         |-> IsPowerOfTwo(value),
   contiguous    |-> IsContiguousMask(value),
   leadingZeros  |-> LeadingZeros(value),
   leadingOnes   |-> LeadingOnes(value),
   trailingZeros |-> TrailingZeros(value),
   ones          |-> OnesCount(value)]

Ask ==
  /\ operation = "none" /\ operation' = "Ask"
  /\ \E x \in Uint128 : operand' = x /\ answer' = Answers(x)
  /\ count' = 0
  /\ UNCHANGED value

ContinueWord ==
  /\ operation # "none" /\ operation' = "none"
  /\ Do(Zero, 0, value)

WordNext ==
  \/ Combine
  \/ Shift
  \/ Make
  \/ Change
  \/ ConvertWord
  \/ Ask
  \/ ContinueWord

WordSpec == WordInit /\ [][WordNext]_wordVars

-----------------------------------------------------------------------------
Abstract == INSTANCE WordCalls WITH
              W <- 2 * H, word <- Whole(value), op <- operation,
              operand <- Whole(operand)

(* Two halves with carries between them are one word of twice the width:   *)
(* every sum, difference, shift and count of every sequence of operations  *)
(* is the one of the whole word, the counts 0, 64 and 128 included         *)
(* (uint128.go:90, 131), and so are the bytes, the highest first           *)
(* (uint128.go:29).                                                        *)
Implements == Abstract!Spec
=============================================================================
