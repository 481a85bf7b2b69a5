CONSTANTS
  t1 = t1
  t2 = t2
  Tasks = {t1, t2}
  Plans <- TwoPlans
  Position <- TwoPosition
  MaxWorkers = 2
  MaxTroubles = 1
  Asking = {}
  MaxAsks = 0
  MaxAttempts = 6
  NoTask = NoTask
SPECIFICATION Spec
INVARIANTS
  StoreAccepts
  BranchFollowsRecord
CHECK_DEADLOCK FALSE
