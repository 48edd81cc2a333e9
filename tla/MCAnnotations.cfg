SPECIFICATION FairSpec
CONSTANTS
  r1 = r1
  r2 = r2
  r3 = r3
  o1 = o1
  n1 = n1
  acme = acme
  beta = beta
  k = k
  NoTenant = NoTenant
  NoKey = NoKey
  Request = {r1, r2, r3, o1, n1}
  Tenant = {acme, beta}
  TenantOf <- Owners
  KeyOf <- Keys
  BodyTenant <- Bodies
  Retention = 1
  MaxClock = 3
  MaxFault = 1
INVARIANTS
  OncePerWindow
  AnswersOwnRow
  NoRowsOnlyAfterPrune
PROPERTIES
  ImplementsStore
  ExpiredKeysFreed
