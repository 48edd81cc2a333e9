SPECIFICATION FairSpec
CONSTANTS
  f1 = f1
  f2 = f2
  Filter <- Filters
  MaxFail = 1
  MaxApply = 3
  MaxOutside = 2
CHECK_DEADLOCK FALSE
INVARIANTS
  OncePerApply
  MissesExplained
  ShowsLastAsked
PROPERTIES
  EveryApplyLoads
