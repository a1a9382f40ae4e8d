SPECIFICATION Spec
CONSTANTS
  cl1 = cl1  cl2 = cl2
  Clients = {cl1, cl2}
  FullDuplex = TRUE
  MaxDepth = 6
SYMMETRY SymClients
INVARIANTS TickIsInnermost SourceNotReentered
CHECK_DEADLOCK FALSE
