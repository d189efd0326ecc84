CONSTANTS
  r1 = r1
  r2 = r2
  s1 = s1
  p1 = p1
  p2 = p2
  b1 = b1
  a1 = a1
  a2 = a2
  Proc = {p1, p2}
  Runner = {r1, r2}
  Starter = {}
  Home <- TwoHomes
  Task = {}
  Keyed = {a1, a2, b1}
  Key <- TwoKeys
  MaxAttempts = 2
  ClassLimit = 1
  Replace = "failed"
  MaxFaults = 2
  MaxLapses = 0
SPECIFICATION Spec

INVARIANTS OncePerPeriod ClassCap
CHECK_DEADLOCK FALSE
