SPECIFICATION RSpec
CONSTANTS
  Bits <- TwoBits
  RO <- ReadOnly
  CONFIG <- Control
  RWA <- Protected
  TEST <- Tests
  OPT_CTRL = 2
  SAFE_ACCESS_CTRL = 3
  TEST_1 = 7
  TEST_2 = 8
  WORKTIME <- Nowhere
  Identity <- Version
  RELOAD <- Reload1
  Key <- Key1
  Pattern <- Pattern1
  Asked <- Everywhere
  MaxCount = 2
  Window = 2
  LoopMax = 1
  Low = 3
  Wide = 6
INVARIANTS
  RegistersOK
  ControlShowsAccess
  RequestIsAtomic
PROPERTIES
  ChangesOnlyWithinWindow
  WindowEnds
