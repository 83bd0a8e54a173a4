\* All buffers may be stored before sem_init.
SPECIFICATION FairSpec
CONSTANTS
  FLAGS_c = 1
  NumBuffers = 2
  FLAGS_batch = 1
  FLAGS_show = FALSE
  FrameCycle = 1
  SEM_VALUE_MAX = 5
  StartupWindow <- NoBufferLeft
  Failing = {}
PROPERTY
  WokenByTask
\* The program ends after Ctrl-C, or hangs in its shutdown.
CHECK_DEADLOCK FALSE
