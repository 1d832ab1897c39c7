SPECIFICATION FairSpec
CONSTANTS
  r1 = r1
  r2 = r2
  Requests = {r1, r2}
  NoToken = NoToken
  MaxRequests = 3
  MaxPatches = 1
  MaxRefine = 0
  Budget = 1
  Offered = {"message", "document", "import", "accept"}
  Faults = {"disconnect", "crash", "gate_race"}
PROPERTY SessionUnlocked
PROPERTY OnlyRacedGatesLose
