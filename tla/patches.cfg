SPECIFICATION Spec
CONSTANTS
  web = web
  db = db
  java = java
  python = python
  call = call
  AnyKind = AnyKind
  Components = {web, db}
  Terms = {java, python}
  Kinds = {call}
  LLMPatchSets <- Proposed
  CatalogPatchSets <- Catalogs
  HelperPatches <- Helpers
  MaxGaps = 3
  MaxRisks = 1
  MaxVersion = 4
INVARIANTS
  TypeOK
  NoDanglingDependency
  AnswersMatchResolutions
  AuditExplainsVersions
  RisksConfirmed
PROPERTIES
  DecisionsFinal
  NoSilentReplatform
CHECK_DEADLOCK FALSE
