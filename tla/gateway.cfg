SPECIFICATION FairSpec
CONSTANTS
  c1 = c1
  c2 = c2
  Calls = {c1, c2}
  Components = {c1, c2}
  Strategies = {c1, c2}
  Concurrency = 1
  CheapRetries = 1
  StrongRetries = 1
  Budget = 3
  Costs = {1, 2}
  FormatStart = 0
  Spare = FALSE
  Gemini = TRUE
  MaxTurns = 2
INVARIANTS
  TypeOK
  MeterBounded
PROPERTIES
  CallsEnd
CHECK_DEADLOCK FALSE
