SPECIFICATION Spec
CONSTANTS
  Units <- MCUnits
  MaxUnits = 5
INVARIANTS
  KeysAreUnicode
  WrittenKeysDecode
  PointersSplitBack
CHECK_DEADLOCK FALSE
