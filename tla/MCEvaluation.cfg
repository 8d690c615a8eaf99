CONSTANTS
  None = None
  Missing = Missing
  Torn = Torn
  Unit = 144
  MaxDeviations = 2
  MaxEdits = 1
  MaxRuns = 3
  Worker = {w1}
  MaxFailures = 2
  Nothing = Nothing
  Absent = Absent
  Tolerance <- MCTolerance
  ShadowRun <- MCShadowRun
  Policy <- MCPolicy
  MaxAppends = 4
  Version = {1, 2, 3}
  Base = 1
  BaseCases <- MCBaseCases
  Batches <- MCBatches
  Labels <- MCLabels
  Types <- MCTypes
  Publisher = {p1, p2}
  MaxTries = 2
  MaxFaults = 2
SPECIFICATION EvaluationSpec
INVARIANTS
  EditsMoveNothing
  UnsafeNeverPasses
  FirstSeenIsFirst
  WritesAreAtomic
  ReleasesAreGoverned
  WinnersOwnTheirVersion
CHECK_DEADLOCK FALSE
