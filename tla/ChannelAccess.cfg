SPECIFICATION FairSpec

CONSTANTS
  Value = {0, 1}
  NoAlarm = NoAlarm
  InAlarm = InAlarm
  Conditions = {{0}}
  DefaultTimeout = 1
  DefaultWait = 1
  Timeouts = {0, 2}
  MaxElapsed = 3
  Never = Never
  Methods = {"exists", "absent", "set", "set other", "is", "is not", "processed", "setpoint", "over time", "dict", "alarm"}
  Faults = {"own", "other"}

INVARIANTS
  TypeOK
  PassedHeld
  GivesUpLate
  AlarmNotLeft
  PrefixKept

PROPERTIES
  CallsEnd
