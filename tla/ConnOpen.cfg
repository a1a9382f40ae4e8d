CONSTANTS
  Addresses = 2
  Deadline = 3
  TickMs = 2
  MaxHeadUnits = 3
  Configs <- MCConfigs
  Peers <- MCPeers
SPECIFICATION Spec
INVARIANTS NothingLeaks DeadlineSpentOnce TunnelClean PlaintextInOrder QuietIsQuiet VerifiedAsAsked
PROPERTY OpeningEnds
CHECK_DEADLOCK FALSE
