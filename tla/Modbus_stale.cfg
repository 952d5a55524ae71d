SPECIFICATION Spec
CONSTANTS
  FrameKinds <- Mixed
  FrameLens <- TwoOnly
  MaxFrames = 2
  BufSize = 3
  RefMax = 1
INVARIANTS
  RespondsOnlyWhenOk
CHECK_DEADLOCK FALSE
