SPECIFICATION FairSpec
CONSTANTS
  ReplicaCounts = {1, 2}
  MissLimit = 3
  RestartLimit = 2
  MaxFaults = 4
INVARIANT ReadyMeansAllAnswered
PROPERTY AdmissionSettles
CHECK_DEADLOCK FALSE
