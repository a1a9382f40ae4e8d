SPECIFICATION Spec
CONSTANTS
  Window = 2
  KeepaliveTime = 1
  Frames = {"info", "headers", "data", "rst", "goaway", "window", "pong", "bad"}
  MaxStreams = 2
  MaxWire = 1
INVARIANTS WindowNotReturnedTwice DataOfThisStream QuietBetweenRequests NoRequestAfterGoaway
CHECK_DEADLOCK FALSE
