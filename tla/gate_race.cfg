SPECIFICATION Spec
CONSTANTS
  r1 = r1
  r2 = r2
  Requests = {r1, r2}
  NoToken = NoToken
  MaxRequests = 4
  MaxPatches = 1
  MaxRefine = 0
  Budget = 4
  Offered = {"message", "accept"}
  Faults = {"gate_race"}
INVARIANT GateOneLeavesAcceptedModel
