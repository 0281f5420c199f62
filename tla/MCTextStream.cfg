CONSTANTS
  W4 = 12
  W6 = 24
  Mapped <- MCMapped
  Decimal <- MCDecimal
  Hex <- MCHex
  HexDigits <- MCHexDigits
  OctetBits = 4
  MaxDigits = 3
  HexBits = 2
  GroupDigits = 3
  Bytes <- MCBytes
  MaxAddress = 5
  MaxSuffix = 3
  MaxSlash = 2
  Written <- MCWritten
  WrittenMacs <- MCMacs
  Spelled <- MCSpelled
SPECIFICATION Spec
INVARIANTS
  FastAgreesWithStrict
  ReadsBack
  NextIsLongest
CHECK_DEADLOCK FALSE
