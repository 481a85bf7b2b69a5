CONSTANTS
  Hosts = {h1, h2}
  NoHost = NoHost
  MaxCommands = 3
  MaxCrashes = 1
SPECIFICATION FairSpec
INVARIANTS
  CompletedIsProved
  SettledIsFinal
  ValidationTracked
  OnlyReopenedRunsRefused
PROPERTIES
  EndsAreFinal
  CommandsEnd
CHECK_DEADLOCK FALSE
