SPECIFICATION Spec
CONSTANTS
  None = None
  MaxBalance = 100
  c1 = c1
  c2 = c2
  c3 = c3
  c4 = c4
  c5 = c5
  c6 = c6
  k1 = k1
  k2 = k2
  w1 = w1
  w2 = w2
  Calls <- ThreeCalls
  Workers = {k1}
  Wallets = {w1}
  Commands <- RollbackAsked
  Openings <- OneOpening
  MaxAttempts = 2
  BatchSize = 2
  MaxCrashes = 0
CHECK_DEADLOCK FALSE
INVARIANTS
  RefundNotRolledBack
