SPECIFICATION Spec
CONSTANTS
  MaxLines = 2
  ReadLimit = 2
  MaxRecords = 5
  MaxCrashes = 1
  None = None
  Bad = Bad
INVARIANTS KeptAcrossRotation
CHECK_DEADLOCK FALSE
