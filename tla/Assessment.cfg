CONSTANTS
  virtbench = virtbench
  kubeburner = kubeburner
  Jobs = {virtbench, kubeburner}
  Runnable = {1, 2, 3}
  JobOf <- MCJobOf
  NamedVariants = {1}
  Stages <- MCStages
  Scopes <- MCScopes
  Inputs <- MCInputs
  Tools <- Registered
  RunSetups <- ForRun
  GroupSetups <- ForGroups
  Catalog <- MCTests
  Durations <- MCDurations
  MaxObjects = 3
  MaxAttempts = 2
  virtParallelCheckVMs = 3
  MaxSaves = 3
SPECIFICATION MCFairSpec
INVARIANTS
  AllTypesOK
  PassIsEarned
  EveryItemAnswered
  TeardownAlwaysRuns
  OutcomeTellsWhy
  SetupsHold
  EveryTestPlaced
  ReportStaysWhole
  FinalReportIsBacked
PROPERTIES
  PipelineComesToItsEnd
  RunEnds
CHECK_DEADLOCK FALSE
