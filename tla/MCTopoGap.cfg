SPECIFICATION Spec
CONSTANTS
  Tenant = {a, b}
  NoTenant = NoTenant
  e1 = e1
  e2 = e2
  Span = {e1, e2}
  NoSpan = NoSpan
  LostSpan = LostSpan
  front = front
  cart = cart
  Service = {front, cart}
  db = db
  Peer = {db}
  NoPeer = NoPeer
  ParentOf <- NoneStored
  ServiceOf <- OneService
  KindOf <- Clients
  PeerOf <- AllToDb
  CatchupMax = 2
  TenantConcurrency = 1
  MaxClock = 5
  MaxLag = 0
  MaxFault = 0
  MaxCrash = 0
INVARIANTS CatchupClosesGap
