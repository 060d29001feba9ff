SPECIFICATION Spec
CONSTANTS
  Bytes <- MCBytes
  AllOptions <- Wide
INVARIANTS
  NeverFails
CHECK_DEADLOCK FALSE
