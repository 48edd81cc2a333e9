SPECIFICATION FairSpec
CONSTANTS
  r1 = r1
  r2 = r2
  Runner = {r1, r2}
  Version = {1, 2}
  Statements = 2
  Fragile = {2}
  WaitSecs = 1
  MaxFault = 1
  MaxEdit = 1
INVARIANTS
  PassedAreApplied
  ReplaysExplained
PROPERTIES
  ImplementsLedger
  EventuallyApplied
