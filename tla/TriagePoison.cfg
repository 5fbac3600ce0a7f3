SPECIFICATION FairSpec
CONSTANTS
  w1 = w1
  w2 = w2
  r1 = r1
  r2 = r2
  NumTickets = 2
  Workers = {w1}
  Requests = {}
  Target <- TargetFirst
  SameText = {}
  BatchSize = 2
  Forced = {}
  Poison = {1}
  MaxFaults = 0
PROPERTIES
  HealthyTicketsSettle
