SPECIFICATION Spec
CONSTANTS
  j1 = j1
  j2 = j2
  j3 = j3
  h1 = h1
  h2 = h2
  NoHost = NoHost
  Jobs = {j1, j2, j3}
  Hosts = {h1, h2}
  Components = {"cadvisor"}
  Target <- MCTarget
  Component <- MCComponent
  MaxParallel = 2
  MaxFaults = 1
CHECK_DEADLOCK FALSE
INVARIANTS SuccessOnTarget
