SPECIFICATION Spec
CONSTANTS
  w1 = w1
  w2 = w2
  w3 = w3
  Worker = {w1, w2, w3}
  Id = {"d1"}
  FaultType = {"camera"}
  Evidence <- MCEvidence
  FactTypes <- MCFactTypes
  Outcome <- MCOutcome
  Backend = "sqlite"
  MaxRequests = 5
SYMMETRY Symmetry
INVARIANTS
  AuditMatchesCase
  ReviewsMatchAudit
  OfferedConclusion
  ConclusionSupported
  NothingHalfDone
  AnswersAreTrue
PROPERTIES
  ClosedIsFinal
  NothingIsLost
  ImplementsLifecycle
CHECK_DEADLOCK FALSE
