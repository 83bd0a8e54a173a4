\* One channel, with frames queueing up in its pipe and for its inference
\* thread, and Ctrl-C at any moment.
SPECIFICATION FairSpec
CONSTANTS
  FLAGS_c = 1
  NumBuffers = 2
  FrameCycle = 2
  SEM_VALUE_MAX = 2
  StartupWindow = 0
  Failing = {1}
  nBatch <- BatchSizes
  CtrlC = TRUE
INVARIANTS
  FramesInOrder
  NoFrameForgotten
  NoTaskForgotten
PROPERTIES
  PoolsUsed
  FrameInfered
  InfersStop
\* The program ends after Ctrl-C, or hangs in its shutdown.
CHECK_DEADLOCK FALSE
