SPECIFICATION Spec
CONSTANTS
  NoText = NoText
  NoValue = NoValue
  NoPointer = NoPointer
  Threw = Threw
  EmptyText <- MCEmptyText
  Decoded <- MCDecoded
  Text <- MCText
  Value <- MCValue
  RefValue <- MCRefValue
  Pointer <- MCPointer
  Token <- MCToken
  Reads <- MCReads
  Strict <- MCStrict
  Commented <- MCCommented
  Canon <- MCCanon
  MaxModes = 2
  ModeText <- MCModeText
  At <- MCAt
  Addable <- MCAddable
  Ref <- MCRef
  RefAt <- MCRefAt
  Container <- MCContainer
  Dups <- MCDups
  Scannable <- MCScannable
  TwiceKeyed <- MCTwiceKeyed
  Tokens <- MCTokens
  Fresh <- MCFresh
  SetValues <- MCSetValues
  Inputs <- RawTexts
  Spoken <- MCText
  PointerLists <- HonestPointerLists
  Configs <- AllConfigs
  Offered <- AllOffers
  MayLie = FALSE
  Plans <- CheckAllPlan
INVARIANTS
  NoFalseAlarm
  TypeOK
  WritesAreFresh
CHECK_DEADLOCK FALSE
