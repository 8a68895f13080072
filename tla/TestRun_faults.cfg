SPECIFICATION FairSpec

CONSTANTS
  NModules = 2
  Mode = {"recsim", "devsim"}
  RecSim = "recsim"
  ModesOf <- TwoModules
  Enabled <- All
  Requested = {"recsim", "devsim"}
  IocName = {"A", "B"}
  EmulatorId = {e, f, noId}
  e = e
  f = f
  noId = noId
  Suites <- TestSuites
  MaxPass = 2
  UserEnv = "unset"
  None = None
  Faults = {"build", "emulator", "ioc", "dies", "stuck", "lateBoot", "interrupt"}

INVARIANTS
  TypeOK
  TestsHaveTheirDevices
  EmulatorOutlivesIoc
  UniqueServer
  LeaksAreFailures
  ResultIsHonest
  VerdictStands
  ZeroMeansAllPassed
  EnvironmentKept

PROPERTIES
  OpenedIocAnswers
  NoTestsAfterStop
  Terminates
  ContextsAreLeft
