\* A token handed to a waiter is also left in the available set.
CONSTANTS
  a1 = a1
  a2 = a2
  b1 = b1
  A = A
  B = B
  Tokens = {k1}
  Requests = {a1, a2, b1}
  Tenants = {A, B}
  TenantOf <- MCTenantOf
  Limits = {1}
  Nobody = Nobody
  NoLimit = NoLimit
SPECIFICATION TokensSpec
INVARIANTS
  HoldersWithinPool
CHECK_DEADLOCK FALSE
