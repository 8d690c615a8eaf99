SPECIFICATION Spec
CONSTANTS
  Evidence <- MCEvidence
  FactTypes <- MCFactTypes
  MaxEvidence = 4
  MaxCited = 2
INVARIANTS
  UnknownCitationsAreRefused
CHECK_DEADLOCK FALSE
