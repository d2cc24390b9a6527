SPECIFICATION Spec
CONSTANTS
  toolA = toolA
  toolB = toolB
  Items <- MCItems
  CatalogItems <- MCCatalogItems
  TRs <- MCTwo
  Variants <- MCTwoNoVariants
  Results <- MCGraded
  NotRunnable <- MCNone
  MissingParams <- MCNone
  SetupScopes <- MCNoSetups
  Jobs <- MCOneTool
  ToolOf <- MCTwoToolA
  ParallelSafe <- MCOneTool
  JobGroups <- MCNoGroups
  Slots = 2
  MaxParts = 2
  Faults <- MCCrash
  RetryFailed <- MCNever
  RecoverFirst = FALSE
CHECK_DEADLOCK FALSE
INVARIANT FailureBlocksCertification
