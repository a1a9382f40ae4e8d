SPECIFICATION Spec
CONSTANTS
  MaxBody = 2
  ReadChunk = 3
  Wants = {1, 2}
  MaxLength = 3
INVARIANTS CompleteIsWhole HandedInOrder ReusedInStep
CHECK_DEADLOCK FALSE
