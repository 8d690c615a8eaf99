CONSTANTS
  w1 = w1
  w2 = w2
  p1 = p1
  p2 = p2
  h1 = h1
  h2 = h2
  None = None
  Missing = Missing
  Torn = Torn
  Worker = {w1, w2}
  Process = {p1, p2}
  Home <- MCHome
  History = {h1, h2}
  Run <- MCRuns
  CoreMetric <- MCMetric
  Tolerance <- MCTolerance
  HeadStores = {"file", "memory"}
  FaultKinds = {"file", "crash", "putback"}
  MaxRequests = 2
  MaxFaults = 2
SPECIFICATION FairSpec
INVARIANTS  FreshAnswers
PROPERTIES ImplementsAppendLog EveryRequestEnds
CHECK_DEADLOCK FALSE
