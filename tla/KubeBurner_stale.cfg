CONSTANTS
  snapshots = snapshots
  reduced = reduced
  density = density
  vmsnapshot = vmsnapshot
  None = None
  Tests <- AllTests
  Ocp = {density}
  Snapshots = {snapshots}
  Pinned = TRUE
  Namespace <- DefaultNamespace
  MaxTests = 2
  MaxRuns = 2
SPECIFICATION Spec
CHECK_DEADLOCK FALSE
INVARIANT GradedOnOwnResults
