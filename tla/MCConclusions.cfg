SPECIFICATION MCSpec
CONSTANTS
  None = None
  Evidence <- MCEvidence
  FactTypes <- MCFactTypes
  MaxEvidence = 4
  MaxCited = 2
  MaxFacts = 3
  DayLength = 4
  MaxDays = 2
INVARIANTS
  RepairIsAnAllowedPick
  PolicyRefusesOnlyLowFacts
  LabelsRestOnDecidingFacts
  PlanCoverageIsExact
  SupportIsUsable
  ScriptedRunsAddUp
  SearchesAnswerWell
CHECK_DEADLOCK FALSE
