SPECIFICATION Spec
CONSTANTS
  r1 = r1
  r2 = r2
  Requests = {r1, r2}
  NoToken = NoToken
  MaxRequests = 5
  MaxPatches = 1
  MaxRefine = 1
  Budget = 4
  Offered = {"message", "accept", "approve"}
  Faults = {"disconnect"}
SYMMETRY Slots
INVARIANT NoLostUpdate
PROPERTY TurnsSerialized
PROPERTY ImplementsGates
