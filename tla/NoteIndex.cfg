SPECIFICATION Spec
CONSTANTS
  q1 = q1
  q2 = q2
  Path = {n}
  Proc = {q1, q2}
  Writers = {q1}
  Hash <- Alternating
  MaxVer = 3
  Bounds <- All
INVARIANTS TypeOK CacheFresh PassHeals
PROPERTIES PassNeverRegresses
CHECK_DEADLOCK FALSE
