SPECIFICATION OperationsSpec
CONSTANTS
  r1 = r1
  t1 = t1
  Routes = {r1, r2}
  Trusts = {t1, t2}
  FirstFile <- First
  HistoryLimit = 2
  MaxVersion = 4
  MaxSaves = 1
  MaxSecrets = 1
  MaxEdits = 1
  None = None
INVARIANTS ConnectionsAreUsable VersionNamesSettings PublishedIsActive
PROPERTY RestoredIsActivated
CHECK_DEADLOCK FALSE
