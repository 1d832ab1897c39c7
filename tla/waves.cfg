SPECIFICATION FairSpec
CONSTANTS
  a = a
  b = b
  c = c
  d = d
  Components = {a, b, c, d}
  Models <- SomeModels
  MaxComponents = 4
  MaxDependencies = 4
  Retirable = {a}
  Vague = {b}
  MaxRefine = 1
INVARIANTS
  TypeOK
  DependencyFirst
  SharedOnlyInCycles
  StructureNeverFlagged
PROPERTIES
  PlanFinishes
CHECK_DEADLOCK FALSE
