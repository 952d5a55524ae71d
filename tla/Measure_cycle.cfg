SPECIFICATION Spec
CONSTANTS
  m1 = m1
  m2 = m2
  t = t
  Ids <- ThreeDevices
  Before <- FoundBefore
  MaxDevices = 2
  DogPasses = 2
  Devices <- ThreeDevices
  Kind <- Kinds
  Levels <- HalfOrFull
  Garbles <- NothingRight
  MaxChanges = 1
INVARIANTS
  HandledIsSetUp
  AlarmIsTrue
  
PROPERTIES
  VerdictIsTheWaters
