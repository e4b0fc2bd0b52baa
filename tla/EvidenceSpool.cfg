SPECIFICATION FairSpec
CONSTANTS
  MaxLines = 3
  ReadLimit = 2
  MaxRecords = 5
  MaxCrashes = 2
  None = None
  Bad = Bad
INVARIANTS ImportedInOrder AcknowledgedIsKept
PROPERTIES AcknowledgedIsImported
CHECK_DEADLOCK FALSE
