CONSTANTS
  h1 = h1
  h2 = h2
  alone = alone
  pairA = pairA
  pairB = pairB
  both = both
  free = free
  NoJob = NoJob
  Jobs <- MCJobs
  ParallelSafe <- MCParallelSafe
  Groups <- MCGroups
  JobGroups <- MCJobGroups
  Concurrency = 2
SPECIFICATION MCFairSpec
INVARIANTS
  TypeOK
  ExclusiveRunsAlone
  GroupsNeverOverlap
  BoundedConcurrency
  NothingHeldAfterReturn
  NoCircularWait
PROPERTIES
  ScheduleReturns
  KeepsPromise
  RollbackSparesForeignPods
  NothingLeftBehind
CHECK_DEADLOCK FALSE
