SPECIFICATION Spec
CONSTANTS
  Bytes <- MCBytes
  AllOptions <- MCOptions
INVARIANTS
  IntentAgrees
  DepthKept
  FlagsAreEarned
CHECK_DEADLOCK FALSE
