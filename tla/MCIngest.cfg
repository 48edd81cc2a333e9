SPECIFICATION FairSpec
CONSTANTS
  h1 = h1
  g1 = g1
  g2 = g2
  g3 = g3
  Call = {h1, g1, g2, g3}
  HTTP = {h1}
  QueueCap = 2
INVARIANTS
  MeteringIsExact
  CleanExitAccountsForAll
  PanicsOnlyAtDeadline
PROPERTIES
  CallsEnd
  StopsEventually
CHECK_DEADLOCK FALSE
