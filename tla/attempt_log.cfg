CONSTANTS
  MaxEntries = 4
  Sizes = {1, 3}
  MarkerBytes = 2
  maxLogBytes = 7
  tailLines = 2
  MaxErrors = 2
  MaxCrashes = 1
SPECIFICATION FairSpec
INVARIANTS
  JournalReadable
  LossIsTold
  ShownStays
PROPERTIES
  FlushEnds
CHECK_DEADLOCK FALSE
