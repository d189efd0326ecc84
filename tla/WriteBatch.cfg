SPECIFICATION Spec
CONSTANTS
  a = a
  b = b
  c = c
  d = d
  Batches <- MoveOrBulk
  MaxEdits = 4
  MaxFaults = 2
INVARIANTS TypeOK NothingLost LandsOrTells
CHECK_DEADLOCK FALSE
