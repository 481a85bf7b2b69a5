CONSTANTS
  t1 = t1
  t2 = t2
  Tasks = {t1}
  Plans <- OnePlan
  Position <- OnePosition
  MaxWorkers = 1
  MaxTroubles = 2
  Asking = {t1}
  MaxAsks = 1
  MaxAttempts = 4
  NoTask = NoTask
SPECIFICATION FairSpec
INVARIANTS
  NoWorkerOutlives
PROPERTIES
  CommittedWorkKept
  LoopEnds
CHECK_DEADLOCK FALSE
