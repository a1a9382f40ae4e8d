CONSTANTS
  Procs = {1, 2}
  Pid <- MCPid
  N = 3
  Depth = 2
  Pieces = 1
  MaxAttempts = 2
SPECIFICATION Spec
INVARIANTS DestinationWhole NoLitter
PROPERTIES ReplacedBySuccess OthersAlone
CHECK_DEADLOCK FALSE
