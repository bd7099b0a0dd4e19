SPECIFICATION FairSpec
CONSTANTS
  None = None
  m1 = m1
  m2 = m2
  m3 = m3
  k1 = k1
  k2 = k2
  Messages = {m1, m2, m3}
  Workers = {k1, k2}
  Group <- TwoGroups
  Key <- SharedKey
  Payload <- OnePayload
  ApiCommands <- OtherPayload
  Poison = {}
  BatchSize = 2
  MaxReceives = 2
  MaxFaults = 2
CHECK_DEADLOCK FALSE
INVARIANTS
  AckedIsSettled
  InboxSettled
  ClaimExclusive
  DeadForAReason
  OvertakenForAReason
PROPERTIES
  MessagesLeave
  HandledAsPromised
