SPECIFICATION FairSpec
CONSTANTS
  k1 = k1 k2 = k2 k3 = k3
  v1 = v1 v2 = v2
  NoKey = NoKey NoVal = NoVal
  Keys = {k1, k2}
  Vals = {v1, v2}
  Updated = {k1}
  PageMax = 4
  PageSize = 18
  KeyLen <- LenTwo
  ZeroCrc = {}
  Faults <- AllFaults
  MaxFaults = 1
INVARIANTS
  CountsCover
  ErasedExact
  StatusMirrored
  ReadsNeverStale
PROPERTIES
  CallsReturn
