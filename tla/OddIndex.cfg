SPECIFICATION Spec
CONSTANTS
  Decoded <- MCDecoded
  Encoded <- MCEncoded
  Digits <- OddDigits
  SizeBits = 4
  MaxDepth = 3
  NotAPointer = NotAPointer
  Texts <- OddTexts
  Paths <- OddPaths
  MaxCalls = 2
INVARIANTS
  UnresolvedIsNull
CHECK_DEADLOCK FALSE
