SPECIFICATION Spec
CONSTANTS
  MaxRetries = 2
  Depth = 2
  SetTries = 2
  LogArgs <- MCLogArgs
  MaxMessages = 1
  WatchArgs <- MCWatchArgs
  Uses <- MCUses
  MaxEvents = 2
  None = None
INVARIANTS
  TypeOK
  FixturesMatch
  SettingsPutBack
  PassEarned
