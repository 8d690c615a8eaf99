SPECIFICATION Spec
CONSTANTS
  w1 = w1
  w2 = w2
  w3 = w3
  Worker = {w1, w2}
  Id = {"d1"}
  FaultType = {"camera"}
  Evidence <- MCEvidence
  FactTypes <- MCFactTypes
  Outcome <- MCOutcome
  Backend = "sqlite"
  MaxRequests = 3
INVARIANTS
  AnswersShowOwnWrite
CHECK_DEADLOCK FALSE
