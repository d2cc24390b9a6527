CONSTANTS
  Catalog <- JustDrain
  Durations = {0, 360000}
  MaxObjects = 2
  MaxAttempts = 1
  virtParallelCheckVMs = 3
SPECIFICATION Spec
INVARIANT FailedDrainNeverPasses
CHECK_DEADLOCK FALSE
