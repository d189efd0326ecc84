CONSTANTS
  r1 = r1
  r2 = r2
  s1 = s1
  p1 = p1
  p2 = p2
  b1 = b1
  t1 = t1
  Proc = {p1, p2}
  Runner = {r1, r2}
  Starter = {s1}
  Home <- TwoHomes
  Task = {t1}
  Keyed = {}
  Key <- TwoKeys
  MaxAttempts = 1
  ClassLimit = 1
  Replace = "failed"
  MaxFaults = 2
  MaxLapses = 2
SPECIFICATION Spec

INVARIANTS TypeOK CompletedHasResult NoOverlap
PROPERTIES SupersededSilent
CHECK_DEADLOCK FALSE
