SPECIFICATION Spec
CONSTANTS
  w1 = w1
  w2 = w2
  r1 = r1
  r2 = r2
  NumTickets = 1
  Workers = {w1, w2}
  Requests = {}
  Target <- TargetFirst
  SameText = {}
  BatchSize = 1
  Forced = {}
  Poison = {}
  MaxFaults = 0
PROPERTIES
  RoutedIsFinal
