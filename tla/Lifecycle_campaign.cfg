SPECIFICATION Spec
CONSTANTS
  toolA = toolA
  toolB = toolB
  Items <- MCItems
  CatalogItems <- MCCatalogItems
  TRs <- MCThree
  Variants <- MCSecondVaries
  Results <- MCGraded
  NotRunnable <- MCThird
  MissingParams <- MCNone
  SetupScopes <- MCSetup
  Jobs <- MCTwoTools
  ToolOf <- MCToolEach
  ParallelSafe <- MCTwoTools
  JobGroups <- MCNoGroups
  Slots = 2
  MaxParts = 2
  Faults <- MCAllButWrite
  RetryFailed <- MCRetryOrNot
  RecoverFirst = TRUE
CHECK_DEADLOCK FALSE
INVARIANTS
  TypeOK
  CompleteCoversPlan
  OrdinaryNotRerun
  FailureBlocksCertification
  CertifiableIsEarned
  FinalReportIsBacked
PROPERTIES
  IncidentsStick
  EvidenceNeverLost
