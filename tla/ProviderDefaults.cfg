SPECIFICATION Spec
CONSTANTS
  EmbeddingMaxRetries = 3
  ClassificationMaxRetries = 2
  SuggestionMaxRetries = 2
  ConfidenceHigh = 80
  ConfidenceMedium = 60
  RoutingConfidenceMin = 80
  Scores <- ScoresAroundThresholds
  TicketCategory <- Categories
  SupportTeam <- Teams
  TicketPriority <- Priorities
  Escalations <- EscalationsWritten
INVARIANTS
  TypeOK
  CallsWithinBudget
  FailsOnlyWhenSpent
  ReasonTellsCause
  TeamsGetConfidentTickets
CHECK_DEADLOCK FALSE
