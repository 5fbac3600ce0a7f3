SPECIFICATION Spec
CONSTANTS
  t1 = t1
  t2 = t2
  t3 = t3
  m1 = m1
  m2 = m2
  c1 = c1
  c2 = c2
  Tickets = {t1, t2}
  Models = {m1, m2}
  DefaultModel = m1
  Queries <- OneQuery
  Order <- Ascending
  Limits = {1, 2}
  AskedModels <- EveryModelNamed
  Clients = {c1}
  MaxStores = 2
  MaxEntries = 2
INVARIANTS
  AnswersWereOnceTrue
