CONSTANTS
  NLaunches = 3
  Name = {"A", "B"}
  NameOf <- MCNameOf
  Class <- MCClass
  LastOf = {2, 3}
  Watched = {1, 2, 3}
  Inits = {3}
  Override = {"m"}
  ConsolePolls = 1
  ClosePolls = 1
  Logged = {"B"}
  Mortal = {3}
  Halting = {3}
  Retries = 2
  Uses <- MCUses
  Depth = 2
  Unanswered = 1
SPECIFICATION FairSpec
INVARIANTS
  TypeOK
  OwnMacros
  InitsReachIoc
  TextNotOverlooked
  NoServerLeft
  RunsWithItsMacros
  MacrosComeBack
  AutorestartKnown
PROPERTIES
  Implements
  CallsEnd
