CONSTANTS
  a = a
  b = b
  c = c
  d = d
  NoStep = NoStep
  Steps <- FourSteps
  Deps <- FourDeps
  Position <- FourPosition
  Mutating = {a, b}
  UsesSlot = {a, b, c}
  Conflicts <- FourConflicts
  MaxWorkers = 2
  Outputs <- FourOutputs
  Inputs <- FourInputs
  MaxAttempts <- FourMaxAttempts
  MayCommitNothing = {a}
  MaxCrashes = 1
  MaxRetries = 0
SPECIFICATION Spec
INVARIANTS
  IntegrationFollowsPlan
  LocksExclusive
  StartsFromDependencies
  SuccessIsDurable
  BranchAtMostOneAhead
CHECK_DEADLOCK FALSE
