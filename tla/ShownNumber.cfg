SPECIFICATION Spec
CONSTANTS
  Decoded <- MCDecoded
  Seeds <- MCSeeds
  Symbols <- MCSymbols
  MaxEdits = 1
  MaxDepth = 2
  Room <- MCRoom
INVARIANTS
  ShownIsTheDump
CHECK_DEADLOCK FALSE
