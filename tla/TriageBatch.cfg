SPECIFICATION FairSpec
CONSTANTS
  w1 = w1
  w2 = w2
  r1 = r1
  r2 = r2
  NumTickets = 3
  Workers = {w1}
  Requests = {r1, r2}
  Target <- TargetSpread
  SameText = {r1}
  BatchSize = 2
  Forced = {}
  Poison = {}
  MaxFaults = 1
INVARIANTS
  RoutedHasEvidence
PROPERTIES
  RoutedLeftOnlyByTestEmbedding
  ImplementsFairLifecycle
