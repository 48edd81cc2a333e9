SPECIFICATION Spec
CONSTANTS
  a = a  b = b  u = u
  NoTenant = NoTenant
  shop = shop
  Domain = {shop}
  NoDomain = NoDomain
  ka = ka  ku = ku  rw = rw  ai = ai  bad = bad
  NoKey = NoKey
  InitialDomain <- Grouping
  HomeOf <- Homes
  ScopeOf <- Scopes
  NoTab = NoTab
  Tab = {t1}
  Tenant = {a, u}
  Key = {ka, ku}
  Call = {q1}
  MaxFault = 0
  MaxRegroup = 0
  MaxAudit = 1
INVARIANTS
  LoggedInIsServed
CHECK_DEADLOCK FALSE
