SPECIFICATION Spec
CONSTANTS
  None = None
  MaxBalance = 2
  c1 = c1
  c2 = c2
  c3 = c3
  c4 = c4
  c5 = c5
  c6 = c6
  k1 = k1
  k2 = k2
  w1 = w1
  w2 = w2
  Calls <- ThreeCalls
  Workers = {k1}
  Wallets = {w1}
  Commands <- SubmitAsked
  Openings <- PoorOpening
  MaxAttempts = 1
  BatchSize = 1
  MaxCrashes = 1
SYMMETRY ThreeCallsAlike
CHECK_DEADLOCK FALSE
INVARIANTS
  TypeOK
  OneEntryPerMovement
  RepliesAgree
  SeenIsCurrent
PROPERTIES
  RefusalIsCurrent
  ImplementsBook
