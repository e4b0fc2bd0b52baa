SPECIFICATION FairSpec
CONSTANTS
  Replicas = 2
  Conns = {c1, c2}
  FirstConn = c1
  MaxRevisions = 2
  MaxFaults = 2
  None = None
INVARIANTS AppliedIsEnforced RevisionNamesContent OneConnection
PROPERTIES LastKnownGood PublishedIsEnforced
CHECK_DEADLOCK FALSE
