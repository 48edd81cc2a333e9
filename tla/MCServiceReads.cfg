SPECIFICATION Spec
CONSTANTS
  Window <- Two
  DefaultWindow = 1
  Name <- Two
  DepLimit = 1
  MaxLimit = 2
  MaxCalls = 1
  MaxRows = 2
  MaxGraph = 1
  MaxLookup = 1
CHECK_DEADLOCK FALSE
INVARIANTS
  KindsIgnoreOrder
  AnswerIsClosed
  WholeWhenSmall
  LinksResolve
  ShownEdgeIsDependency
