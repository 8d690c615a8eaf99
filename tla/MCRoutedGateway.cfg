SPECIFICATION FairSpec
CONSTANTS
  w1 = w1
  w2 = w2
  Device <- MCDevice
  Alias <- MCAlias
  Operation <- MCOperation
  Environment = "site"
  Worker = {w1, w2}
  Adapter = {"local"}
  Catalog <- MCCatalog
  Manifests <- MCManifests
  InitialBudget <- MCInitialBudget
  Answering = {"facts", "timeout"}
  MaxCalls = 3
  MaxBatches = 1
  Horizon = 1
INVARIANTS
  BatchesKeepTheirBudget
  BudgetCountsGrants
  OneCallPerGrant
PROPERTIES
  NothingGrantedOnceClosed
  EveryCallEnds
CHECK_DEADLOCK FALSE
