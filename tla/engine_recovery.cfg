CONSTANTS
  a = a
  b = b
  c = c
  d = d
  NoStep = NoStep
  Steps <- ReviewSteps
  Deps <- ReviewDeps
  Position <- ReviewPosition
  Mutating = {a, d}
  UsesSlot = {a, c, d}
  Conflicts = {}
  MaxWorkers = 2
  Outputs <- ReviewOutputs
  Inputs <- ReviewInputs
  MaxAttempts <- ReviewMaxAttempts
  MayCommitNothing = {d}
  MaxCrashes = 2
  MaxRetries = 1
SPECIFICATION FairSpec
INVARIANTS
  SnapshotSound
  NeverStopsWithWorkWaiting
PROPERTIES
  AttemptHistoryKept
  ImplementsLifecycle
  ExecutionSettles
CHECK_DEADLOCK FALSE
