SPECIFICATION MCSpec
CONSTANTS
  None = None
  Evidence <- MCEvidence
  FactTypes <- MCFactTypes
  MaxEvidence = 1
  MaxCited = 1
  MaxFacts = 1
  DayLength = 4
  MaxDays = 2
INVARIANT
  OvernightRangesCover
CHECK_DEADLOCK FALSE
