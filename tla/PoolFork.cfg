SPECIFICATION FairSpec
CONSTANTS
  c1 = c1  c2 = c2  c3 = c3
  k1 = k1  k2 = k2  k3 = k3  k4 = k4
  Conns = {c1, c2}
  H2 = {c1}
  Blind = {c1}
  Keys = {k1, k3}
  HostOf <- TwoHosts
  Parent = Parent  Child = Child  None = None
  MaxIdle = 1
  MaxPerHost = 1
  IdleTimeout = 0
  MaxForks = 1
  MaxClock = 0
  MaxDepth = 2

PROPERTIES CallsReturn KeepsThePromise
CHECK_DEADLOCK FALSE
