SPECIFICATION FrontSpec
CONSTANTS
  NoText = NoText
  NoValue = NoValue
  NoPointer = NoPointer
  Threw = Threw
  EmptyText <- MCEmptyText
  Decoded <- MCDecoded
  Text <- MCText
  Value <- MCValue
  RefValue <- MCRefValue
  Pointer <- MCPointer
  Token <- MCToken
  Reads <- MCReads
  Strict <- MCStrict
  Commented <- MCCommented
  Canon <- MCCanon
  MaxModes = 2
  ModeText <- MCModeText
  At <- MCAt
  Addable <- MCAddable
  Ref <- MCRef
  RefAt <- MCRefAt
  Container <- MCContainer
  Dups <- MCDups
  Scannable <- MCScannable
  TwiceKeyed <- MCTwiceKeyed
  Tokens <- MCTokens
  Fresh <- MCFresh
  SetValues <- MCSetValues
  Inputs <- ToyInputs
  Spoken <- ToySpoken
  PointerLists <- ToyPointerLists
  Configs <- AllConfigs
  Offered <- FullOffer
  MayLie = TRUE
  Plans <- CheckAllPlan
  Encoded <- MCEncoded
  Digits <- MCDigits
  SizeBits = 4
  MaxDepth = 4
  NotAPointer = NotAPointer
  Suts <- MCSuts
  Registered <- MCSuts
  TreeOf <- MCTreeOf
  Spelled <- MCSpelled
  FuzzInputs <- MCFuzzInputs
  Mutations <- MCMutations
  MaxInputs = 2
  Argvs <- MCArgvs
  Files <- MCFiles
  Ints <- MCInts
  IntBits = 4
INVARIANTS
  ToyIsHonest
  BrokenAreCaught
  EveryLawExercised
  NeverTraps
  AcceptedIsEvaluated
  GuardCountsLaws
  StatusIsTheVerdict
  UnknownIsUsageError
  StatusIsTheReport
  ProbedIsChecked
PROPERTIES
  ProgramsEnd
CHECK_DEADLOCK FALSE
