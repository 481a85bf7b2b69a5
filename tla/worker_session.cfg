CONSTANTS
  Ids = {q1}
  MaxFrames = 3
  MaxWire = 2
  MaxStatusFailures = 2
SPECIFICATION FairSpec
INVARIANTS SuccessIsWhole RequestsSound
PROPERTY WorkerIsStopped
CHECK_DEADLOCK FALSE
