SPECIFICATION FairSpec
CONSTANTS
  Streams = {s1, s2}
  StreamSlots = 1
  WorkerSlots = 1
  MaxFaults = 1
INVARIANTS InspectedBeforeRelease RepliesAreRecorded NeverOverclaims RecordedOnce
PROPERTIES EveryStreamEnds
CHECK_DEADLOCK FALSE
