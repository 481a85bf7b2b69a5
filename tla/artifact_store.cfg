SPECIFICATION Spec
CONSTANTS
    Writer = {w1, w2}
    Output = {o}
    Content = {c1, c2}
    NoOne = NoOne
    MaxAttempt = 3
    MaxRunArtifacts = 2
    RetainedAttempts = 1
    MaxWrites = 3
    MaxStalls = 1
    MaxCrashes = 1
    MaxPrunes = 1
INVARIANTS KeptAsTold LimitHeld
PROPERTY LatestMovesForward
CHECK_DEADLOCK FALSE
