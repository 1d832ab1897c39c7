SPECIFICATION Spec
CONSTANTS
  None = None
  r1 = r1
  r2 = r2
  r3 = r3
  r4 = r4
  Requests <- SomeRequests
  Bumps = {1, 2}
SYMMETRY Symmetry
INVARIANTS
  TypeOK
  UnapprovedNotKept
  AppliedOnce
  VersionsRise
PROPERTIES
  OnlyResumedRunsLose
CHECK_DEADLOCK FALSE
