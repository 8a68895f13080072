SPECIFICATION Spec

CONSTANTS
  NModules = 2
  Mode = {"recsim", "devsim"}
  RecSim = "recsim"
  ModesOf <- TwoModules
  Enabled <- All
  Requested = {"recsim", "devsim"}
  IocName = {"A", "B"}
  EmulatorId = {e, f, noId}
  e = e
  f = f
  noId = noId
  Suites <- TestSuites
  MaxPass = 1
  UserEnv = "unset"
  None = None
  Faults = {"ioc", "lateBoot"}

PROPERTIES
  OpenedIocServes
