SPECIFICATION Spec
CONSTANTS
  NoText = NoText
  NoValue = NoValue
  NoPointer = NoPointer
  Threw = Threw
  EmptyText <- MCEmptyText
  Decoded <- MCDecoded
  Text <- MCText
  Value <- MCValue
  RefValue <- MCRefValue
  Pointer <- MCPointer
  Token <- MCToken
  Reads <- MCReads
  Strict <- MCStrict
  Commented <- MCCommented
  Canon <- MCCanon
  MaxModes = 2
  ModeText <- MCModeText
  At <- MCAt
  Addable <- MCAddable
  Ref <- MCRef
  RefAt <- MCRefAt
  Container <- MCContainer
  Dups <- MCDups
  Scannable <- MCScannable
  TwiceKeyed <- MCTwiceKeyed
  Tokens <- MCTokens
  Fresh <- MCFresh
  SetValues <- MCSetValues
  Inputs <- OnlyPlain
  Spoken <- LiarTexts
  PointerLists <- LiarPointerLists
  Configs <- LazyConfig
  Offered <- FullOffer
  MayLie = TRUE
  Plans <- ThrowPlans
INVARIANTS
  ThrowIsNoPass
CHECK_DEADLOCK FALSE
