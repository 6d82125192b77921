\* Two tokens, tenants limited to one or two.
CONSTANTS
  a1 = a1
  a2 = a2
  b1 = b1
  A = A
  B = B
  Tokens = {k1, k2}
  Requests = {a1, a2, b1}
  Tenants = {A, B}
  TenantOf <- MCTenantOf
  Limits = {1, 2}
  Nobody = Nobody
  NoLimit = NoLimit
SPECIFICATION TokensSpec
INVARIANTS
  TokensAccounted
PROPERTIES
  IssuedWithinLimit
  WaitingEnds
CHECK_DEADLOCK FALSE
