SPECIFICATION Spec
CONSTANTS
  None = None
  app = app
  db = db
  mine = mine
  theirs = theirs
  Components = {app, db}
  Application = app
  Database = db
  Accounts = {mine, theirs}
  Matches <- SomeMatches
  MaxQuestionTurns = 3
  ListLines = 1
  Readings <- SomeReadings
  Verdicts <- SomeVerdicts
  MaxTurns = 2
SYMMETRY AccountSymmetry
INVARIANTS
  TypeOK
  PatchesOfThisTurn
  HostingNotAsked
  DisconnectHolds
CHECK_DEADLOCK FALSE
