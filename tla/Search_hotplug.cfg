SPECIFICATION FairSpec
CONSTANTS
  IdBits = 3
  MaxDevices = 5
  DogPasses = 4
  Devices <- SixIds
  MaxChanges = 2
INVARIANTS
  TypeOK
  BranchesDescend
  PathKnown
PROPERTIES
  Enumerates
  SearchEnds
  Heals
