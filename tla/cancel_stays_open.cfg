CONSTANTS
  Hosts = {h1, h2}
  NoHost = NoHost
  MaxCommands = 2
  MaxCrashes = 1
SPECIFICATION Spec
PROPERTIES
  CancelledNeverOpen
CHECK_DEADLOCK FALSE
