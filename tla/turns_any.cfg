SPECIFICATION Spec
CONSTANTS
  r1 = r1
  r2 = r2
  Requests = {r1, r2}
  NoToken = NoToken
  MaxRequests = 4
  MaxPatches = 1
  MaxRefine = 0
  Budget = 2
  Offered = {"message", "accept", "approve"}
  Faults = {"disconnect", "crash", "lapse", "gate_race"}
SYMMETRY Slots
INVARIANT TypeOK
INVARIANT LockOwnedUnlessLapsed
INVARIANT ClaimExclusive
INVARIANT MessageAppliedOnce
INVARIANT NothingAcceptedBeforeGateOne
