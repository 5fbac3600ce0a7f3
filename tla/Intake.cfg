SPECIFICATION FairSpec
CONSTANTS
  p1 = p1
  p2 = p2
  p3 = p3
  p4 = p4
  r1 = r1
  mail = mail
  NoKey = NoKey
  Posts = {p1, p2, p3, p4}
  Probes = {r1}
  ExternalKey <- FirstThreeAlike
  BadPriority = {p4}
  PoolSize = 2
  MaxFaults = 2
INVARIANTS
  TypeOK
  OneTicketPerExternalId
  FailuresLeaveNothing
  RefusedOnlyForAStoredTicket
PROPERTIES
  FoundStaysFound
  AnsweredTicketsAppear
  EveryRequestEnds
CHECK_DEADLOCK FALSE
