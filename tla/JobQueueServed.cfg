CONSTANTS
  r1 = r1
  r2 = r2
  s1 = s1
  p1 = p1
  p2 = p2
  b1 = b1
  t1 = t1
  Proc = {p1}
  Runner = {r1}
  Starter = {s1}
  Home <- OneHome
  Task = {t1}
  Keyed = {b1}
  Key <- TwoKeys
  MaxAttempts = 2
  ClassLimit = 1
  Replace = "failed"
  MaxFaults = 1
  MaxLapses = 1
SPECIFICATION FairSpec

PROPERTIES Served TaskLifeImplemented
CHECK_DEADLOCK FALSE
