SPECIFICATION FairSpec
CONSTANTS
  None = None
  api = api
  db = db
  Components = {api, db}
  Depends <- Calls
  Tier1 = {db}
  MaxRefine = 1
  Proposals <- SomeProposals
  Drafts <- SomeDrafts
  Critiques <- SomeCritiques
  MaxTurns = 2
INVARIANTS
  TypeOK
  RowsSupportReview
PROPERTIES
  PlanIsWhole
  RisksAreCurrent
  OnlyHaltsUncover
  TurnEnds
CHECK_DEADLOCK FALSE
