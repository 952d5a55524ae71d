SPECIFICATION FairSpec
CONSTANTS
  FrameKinds <- Mixed
  FrameLens <- OneToFour
  MaxFrames = 2
  BufSize = 3
  RefMax = 1
INVARIANTS
  TypeOK
  TimerRunsWhileReceiving
  CleanStart
  
PROPERTIES
  EndsAfterSilence
  NothingDropped
  ParsedUndisturbed
  ReceiverRecovers
CHECK_DEADLOCK FALSE
