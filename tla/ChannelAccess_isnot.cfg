SPECIFICATION Spec

CONSTANTS
  Value = {0, 1}
  NoAlarm = NoAlarm
  InAlarm = InAlarm
  Conditions = {{0}}
  DefaultTimeout = 1
  DefaultWait = 1
  Timeouts = {0, 2}
  MaxElapsed = 3
  Never = Never
  Methods = {"is not"}
  Faults = {}

PROPERTIES
  IsNotWatches
