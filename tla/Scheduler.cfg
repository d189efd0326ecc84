CONSTANTS
  Job = {"queue", "plane"}
  Interval <- Intervals
  MaxBackoff = 4
  Recheck = 1
  Deferring = TRUE
  MaxFailures = 2
  Longest = 5
SPECIFICATION Spec
INVARIANTS TypeOK
PROPERTIES NeverEarly Recurs
