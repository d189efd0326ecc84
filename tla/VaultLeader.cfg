SPECIFICATION FairSpec
CONSTANTS
  q1 = q1
  q2 = q2
  Proc = {q1, q2}
  Scheduled = TRUE
  MaxFaults = 2
INVARIANTS TypeOK StopsBeforeRelease
PROPERTIES NoLateBatch Settles CatchesUp
CHECK_DEADLOCK FALSE
