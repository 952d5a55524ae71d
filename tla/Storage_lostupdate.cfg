SPECIFICATION Spec
CONSTANTS
  k1 = k1 k2 = k2 k3 = k3
  v1 = v1 v2 = v2
  NoKey = NoKey NoVal = NoVal
  Keys = {k1, k2}
  Vals = {v1, v2}
  Updated = {k1, k2}
  PageMax = 4
  PageSize = 18
  KeyLen <- LenTwo
  ZeroCrc = {}
  Faults <- NoFaults
  MaxFaults = 0
INVARIANTS
  ReadsReturnWritten
