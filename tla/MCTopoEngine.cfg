SPECIFICATION Spec
CONSTANTS
  Tenant = {a}
  NoTenant = NoTenant
  e1 = e1
  e2 = e2
  Span = {e1, e2}
  NoSpan = NoSpan
  LostSpan = LostSpan
  front = front
  cart = cart
  Service = {front, cart}
  db = db
  Peer = {db}
  NoPeer = NoPeer
  ParentOf <- E1ParentOfE2
  ServiceOf <- TwoServices
  KindOf <- ServerAndClient
  PeerOf <- OnlyE2ToDb
  CatchupMax = 1
  TenantConcurrency = 1
  MaxClock = 4
  MaxLag = 1
  MaxFault = 1
  MaxCrash = 1
INVARIANTS
  ClosedOnly
  LossExplained
PROPERTIES
  RowsNeverRegress
  ImplementsLedger
