SPECIFICATION DSpec
CONSTANTS
  Bits <- OneBit
  RO <- Nowhere
  CONFIG <- Control
  RWA <- Protected
  TEST <- Tests
  OPT_CTRL = 2
  SAFE_ACCESS_CTRL = 3
  TEST_1 = 7
  TEST_2 = 8
  WORKTIME <- Nowhere
  Identity <- NoIdentity
  RELOAD <- On
  Key <- On
  Pattern <- On
  Asked <- Everywhere
  MaxCount = 2
  Window = 1
  LoopMax = 1
  Low = 2
  Wide = 4
  factory = factory
  NoKey = "none"
  NoVal = NoVal
  Items <- UartThenOta
  Settings <- Rates
  Factory <- AllFactory
  FailModes <- NothingWritten
  MB_UART = "uart"
  BAUDRATE <- Protected
INVARIANTS
  ConfigOK
  
PROPERTIES
  
  RequestEnds
