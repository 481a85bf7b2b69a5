CONSTANTS
  t1 = t1
  t2 = t2
  Tasks = {t1, t2}
  Plans <- ApartPlan
  Position <- TwoPosition
  MaxWorkers = 2
  MaxTroubles = 1
  Asking = {t1}
  MaxAsks = 1
  MaxAttempts = 6
  NoTask = NoTask
SPECIFICATION Spec
INVARIANTS
  StoreAccepts
PROPERTIES
  CommittedWorkKept
CHECK_DEADLOCK FALSE
