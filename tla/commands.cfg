CONSTANTS
  h1 = h1
  h2 = h2
  Handlers <- MCHandlers
  Symbols = {"s"}
  RequiredFields = {"thesis"}
  Asked    <- MCAsked
  Ideas    <- MCIdeas
  MaxRows = 4
SPECIFICATION MCSpec
SYMMETRY MCSymmetry
CHECK_DEADLOCK FALSE
INVARIANTS TypeOK AuditIsTrue AnswerIsTrue AgentAgreesWithAudit RunAsRequested PassedCandidateRuns
