CONSTANTS
  c = c
  d = d
  REVIEW_CATEGORIES <- TwoCategories
  Kinds <- TwoKinds
  MaxWorkers = 2
  MaxCrashes = 1
  MaxRetries = 1
SPECIFICATION FairSpec
INVARIANTS
  StoreAccepts
  ReviewedAsMerged
  RepairsReachBranchOnce
PROPERTIES
  CommittedRepairKept
  LifecycleEnds
CHECK_DEADLOCK FALSE
