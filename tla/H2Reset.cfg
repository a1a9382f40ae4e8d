SPECIFICATION Spec
CONSTANTS
  Window = 2
  KeepaliveTime = 0
  Frames = {"headers", "data", "rst"}
  MaxStreams = 1
  MaxWire = 2
INVARIANTS EndedByEndStream
CHECK_DEADLOCK FALSE
