\* Two channels whose decoders may fill every buffer before the scheduler
\* exists.  Without display thread: Pipeline_display has it.
SPECIFICATION Spec
CONSTANTS
  FLAGS_c = 2
  NumBuffers = 2
  FLAGS_batch = 1
  FLAGS_show = FALSE
  FrameCycle = 2
  SEM_VALUE_MAX = 3
  StartupWindow <- NoBufferLeft
  Failing = {1}
INVARIANTS
  TypeOK
  FramesInOrder
  ChannelsInTurn
  ChannelRight
\* The program ends after Ctrl-C, or hangs in its shutdown.
CHECK_DEADLOCK FALSE
