CONSTANTS
  a = a
  b = b
  c = c
  d = d
  NoStep = NoStep
  Steps <- TwoSteps
  Deps <- TwoDeps
  Position <- TwoPosition
  Mutating = {a, b}
  UsesSlot = {a, b}
  Conflicts = {}
  MaxWorkers = 2
  Outputs <- TwoOutputs
  Inputs <- TwoInputs
  MaxAttempts <- TwoMaxAttempts
  MayCommitNothing = {}
  MaxCrashes = 1
  MaxRetries = 0
SPECIFICATION Spec
INVARIANT ResumeReconcilesWorktrees
CHECK_DEADLOCK FALSE
