SPECIFICATION StoreFairSpec
CONSTANTS
  Procs = {inspector, console}
  Approvals = {a1, a2}
  NoProcess = NoProcess
  MaxCalls = 2
  MaxCrashes = 2
INVARIANTS AllowedOnce SeenIsStored
PROPERTIES EveryCallReturns
