SPECIFICATION Spec
CONSTANTS
  a = a
  b = b
  Tenant = {a, b}
  t1 = t1
  t2 = t2
  t3 = t3
  Trace = {t1, t2, t3}
  front = front
  cart = cart
  Service = {front, cart}
  AnyService = AnyService
  s1 = s1
  s2 = s2
  s3 = s3
  s4 = s4
  s5 = s5
  l1 = l1
  l2 = l2
  l3 = l3
  Row = {s1, s2, s3, s4, s5, l1, l2, l3}
  Data <- Sent
  Hour = 4
  Second = 2
  MaxDuration = 2
  MaxLimit = 2
  Explicit <- Windows
  Asked <- Walks
  MaxClock = 8
  MaxWalk = 1
CHECK_DEADLOCK FALSE
INVARIANTS
  SkipsNeedMoves
  RepeatsNeedChanges
  OpenedKeepsPromise
  FreshRowsAreListed
