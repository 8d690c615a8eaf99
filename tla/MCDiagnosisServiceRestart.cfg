SPECIFICATION FairSpec
CONSTANTS
  w1 = w1
  w2 = w2
  w3 = w3
  Worker = {w1, w2}
  Id = {"d1"}
  FaultType = {"camera", "access"}
  Evidence <- MCEvidence
  FactTypes <- MCFactTypes
  Outcome <- MCOutcome
  Backend = "sqlite"
  MaxRequests = 3
PROPERTIES
  OnlySupportedRuns
  EveryRequestEnds
CHECK_DEADLOCK FALSE
