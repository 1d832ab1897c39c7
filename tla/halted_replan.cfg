SPECIFICATION Spec
CONSTANTS
  None = None
  api = api
  db = db
  Components = {api, db}
  Depends <- Calls
  Tier1 = {db}
  MaxRefine = 1
  Proposals <- SomeProposals
  Drafts <- SomeDrafts
  Critiques <- SomeCritiques
  MaxTurns = 2
INVARIANTS
  PlanCoversModel
CHECK_DEADLOCK FALSE
