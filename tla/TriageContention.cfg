SPECIFICATION FairSpec
CONSTANTS
  w1 = w1
  w2 = w2
  r1 = r1
  r2 = r2
  NumTickets = 1
  Workers = {w1, w2}
  Requests = {r1, r2}
  Target <- TargetFirst
  SameText = {r1}
  BatchSize = 2
  Forced = {w2}
  Poison = {}
  MaxFaults = 1
INVARIANTS
  TypeOK
  OneActiveEmbedding
  EmbeddingWriterAlone
  DraftsNeverCollide
  StatusMatchesTrail
  RunsAreWhole
  NoLockCycle
  NoWorkerRepeats
PROPERTIES
  ImplementsFairLifecycle
  TransactionsEnd
