SPECIFICATION FairSpec
CONSTANTS
  None = None
  e1 = e1
  e2 = e2
  e3 = e3
  p1 = p1
  p2 = p2
  Events = {e1, e2}
  Publishers = {p1, p2}
  Aggregate <- OneAggregate
  BatchSize = 2
  MaxFaults = 2
CHECK_DEADLOCK FALSE
INVARIANTS
  PublishedWasSent
  HeldArePending
  CopiesExplained
PROPERTIES
  EventuallyPublished
  RelayedAsPromised
