SPECIFICATION FairSpec
CONSTANTS
  NEmulators = 2
  Ports = {p1, p2}
  Calls <- MCCalls
  MaxCalls = 2
  CtlPolls = 1
  MaxLate = 1
  Depth = 2
  Kids = {k1, k2, k3}
  MaxCommands = 2
INVARIANTS
  EmulatorIsNot
CHECK_DEADLOCK FALSE
