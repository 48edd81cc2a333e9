SPECIFICATION FairSpec
CONSTANTS
  Tenant = {a, b}
  NoTenant = NoTenant
  e1 = e1
  e2 = e2
  Span = {e1}
  NoSpan = NoSpan
  LostSpan = LostSpan
  front = front
  cart = cart
  Service = {front, cart}
  db = db
  Peer = {db}
  NoPeer = NoPeer
  ParentOf <- NoneStored
  ServiceOf <- OneService
  KindOf <- Clients
  PeerOf <- AllToDb
  CatchupMax = 1
  TenantConcurrency = 1
  MaxClock = 3
  MaxLag = 0
  MaxFault = 1
  MaxCrash = 1
INVARIANTS WorkBounded
PROPERTIES
  BecomesReady
  RoundsEnd
