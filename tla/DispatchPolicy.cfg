CONSTANTS
  c1 = c1
  c2 = c2
  c3 = c3
  p1 = p1
  p2 = p2
  Call = {c1, c2, c3}
  Proc = {p1, p2}
  Home <- TwoProcesses
  Keyless = {}
  Args = {"a"}
  Styles = {"ahead", "after", "txn", "none"}
  Gatings = {"none", "dispatch", "handler"}
  ThrottleEnabled = TRUE
  Ttl = 2
  Reclaim = 1
  ElicitTtl = 1
  Prompt = FALSE
  MaxTime = 2
  MaxFaults = 0
  NoCall = NoCall
SPECIFICATION Spec
SYMMETRY SamePlace
INVARIANTS OneEffectPerConfirmation NoStrandedClaim
CHECK_DEADLOCK FALSE
