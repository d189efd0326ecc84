SPECIFICATION Spec
CONSTANTS
  r1 = r1
  r2 = r2
  Req = {r1, r2}
  MaxToken = 3
  MaxJti = 3
  AccessLife = 1
  FamilyLife = 2
  Grace = 1
  MaxEvents = 2
SYMMETRY Symmetry
INVARIANTS TypeOK OneBearer RevokedCovered WindowHasResponse
CHECK_DEADLOCK FALSE
