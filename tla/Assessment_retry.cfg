CONSTANTS
  Catalog <- JustDrain
  Durations = {0, 360000}
  MaxObjects = 2
  MaxAttempts = 2
  virtParallelCheckVMs = 3
SPECIFICATION Spec
INVARIANT RetryReplacesResult
CHECK_DEADLOCK FALSE
