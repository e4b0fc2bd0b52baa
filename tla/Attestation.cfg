SPECIFICATION AttestationSpec
CONSTANTS
  n1 = n1
  n2 = n2
  t1 = t1
  t2 = t2
  Nonces = {n1, n2}
  Threads = {t1, t2}
  None = None
  TTL = 1
  MaxAge = 1
  Skew = 1
  Grace = 1
  Deadline = 3
  Horizon = 4
SYMMETRY Symmetry
INVARIANTS ReleasedOnce RememberedWhileFresh
CHECK_DEADLOCK FALSE
