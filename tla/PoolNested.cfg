SPECIFICATION Spec
CONSTANTS
  c1 = c1  c2 = c2  c3 = c3
  k1 = k1  k2 = k2  k3 = k3  k4 = k4
  Conns = {c1, c2, c3}
  H2 = {c1, c2}
  Blind = {c3}
  Keys = {k1, k2, k3, k4}
  HostOf <- ThreeHosts
  Parent = Parent  Child = Child  None = None
  MaxIdle = 2
  MaxPerHost = 1
  IdleTimeout = 1
  MaxForks = 0
  MaxClock = 1
  MaxDepth = 2
SYMMETRY SymH2
INVARIANTS OwnedOnce WithinMaxPerHost
PROPERTY HitsAreSound
CHECK_DEADLOCK FALSE
