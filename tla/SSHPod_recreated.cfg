CONSTANTS
  h1 = h1
  Harnesses <- One
  AvoidNode <- Nobody
  MaxSetups = 1
  Faults <- LostAndEvictions
SPECIFICATION Spec
CHECK_DEADLOCK FALSE
PROPERTY FailedSetupLeavesNothing
