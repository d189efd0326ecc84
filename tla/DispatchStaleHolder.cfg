CONSTANTS
  c1 = c1
  c2 = c2
  c3 = c3
  p1 = p1
  p2 = p2
  Call = {c1, c2, c3}
  Proc = {p1}
  Home <- OneProcess
  Keyless = {}
  Args = {"a", "b"}
  Styles = {"ahead", "txn"}
  Gatings = {"none"}
  ThrottleEnabled = FALSE
  Ttl = 3
  Reclaim = 2
  ElicitTtl = 0
  Prompt = FALSE
  MaxTime = 3
  MaxFaults = 0
  NoCall = NoCall
SPECIFICATION Spec
SYMMETRY Symmetry
INVARIANTS ReplayFaithful
CHECK_DEADLOCK FALSE
