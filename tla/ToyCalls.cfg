SPECIFICATION Spec
CONSTANTS
  Decoded <- MCDecoded
  Encoded <- MCEncoded
  Digits <- MCDigits
  SizeBits = 4
  MaxDepth = 3
  NotAPointer = NotAPointer
  Texts <- MCTexts
  Paths <- MCPaths
  MaxCalls = 3
  MaxTokens = 2
INVARIANTS
  EnumeratedResolve
  SetThenRemove
PROPERTIES
  KeepsPointers
CHECK_DEADLOCK FALSE
