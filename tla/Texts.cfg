SPECIFICATION Spec
CONSTANTS
  Decoded <- MCDecoded
  Seeds <- MCSeeds
  Symbols <- MCSymbols
  MaxEdits = 2
  MaxDepth = 2
  Room <- MCRoom
INVARIANTS
  ParsesTheGrammar
  ReadsWhatItWrites
  ShowsTheDocument
  TaggingKeepsSyntax
  TreeOpsYieldDocuments
  TruncationsNeverParse
  BreakersBreak
  StaysInPlace
CHECK_DEADLOCK FALSE
