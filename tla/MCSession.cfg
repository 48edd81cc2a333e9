SPECIFICATION Spec
CONSTANTS
  a = a  b = b  u = u
  NoTenant = NoTenant
  shop = shop
  Domain = {shop}
  NoDomain = NoDomain
  ka = ka  ku = ku  rw = rw  ai = ai  bad = bad
  NoKey = NoKey
  InitialDomain <- Grouping
  HomeOf <- Homes
  ScopeOf <- Scopes
  NoTab = NoTab
  Tab = {t1}
  Tenant = {a, b, u}
  Key = {ka, ku, rw, ai, bad}
  Call = {q1, q2}
  MaxFault = 1
  MaxRegroup = 1
  MaxAudit = 1
SYMMETRY CallSymmetry
INVARIANTS
  AuditedInDomain
  ActiveWasGranted
  ShownIsServed
CHECK_DEADLOCK FALSE
