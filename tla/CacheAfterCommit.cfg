SPECIFICATION Spec
CONSTANTS
  w1 = w1
  q1 = q1
  c1 = c1
  Workers = {w1}
  Requests = {q1}
  Readers = {c1}
  DeleteInvalid = TRUE
  MaxFaults = 0
INVARIANTS
  DurableWritesReachReaders
