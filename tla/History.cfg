SPECIFICATION Spec
CONSTANTS
  w1 = w1
  w2 = w2
  q1 = q1
  c1 = c1
  Runs = {w1, w2}
  Requests = {q1}
  Readers = {c1}
  Appends <- TwoByOne
  MaxItems = 3
  DtoMax = 4
  MaxFaults = 1
INVARIANTS
  TypeOK
  TrailsShowWholeTransactions
  LongTrailsAreAnswered
  DecisionsAreTheLatest
