CONSTANTS
  None = None
  Diagnosis = {d1}
  Seed = {s1}
  Generated = {g1}
  Actor = {ann, bob}
  Worker = {w1, w2}
  MaxContainers = 2
  MaxCaseSteps = 1
  InitialJournal <- MCInitialJournal
  MaxRequests = 2
  MaxDisturbances = 2
SPECIFICATION Spec
CONSTRAINT MCBounds
SYMMETRY MCSymmetry
INVARIANTS KnowledgeIsGoverned RestoreKeepsAcknowledged
PROPERTY ScansBlameOnlyDamage
CHECK_DEADLOCK FALSE
