SPECIFICATION Spec
CONSTANTS
  toolA = toolA
  toolB = toolB
  Items <- MCItems
  CatalogItems <- MCCatalogItems
  TRs <- MCTwo
  Variants <- MCTwoNoVariants
  Results <- MCGraded
  NotRunnable <- MCNone
  MissingParams <- MCNone
  SetupScopes <- MCNoSetups
  Jobs <- MCTwoTools
  ToolOf <- MCTwoToolEach
  ParallelSafe <- MCTwoTools
  JobGroups <- MCNoGroups
  Slots = 2
  MaxParts = 1
  Faults <- MCNone
  RetryFailed <- MCNever
  RecoverFirst = TRUE
CHECK_DEADLOCK FALSE
PROPERTY CompletionNeverUnrecorded
