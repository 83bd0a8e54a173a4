\* Two channels and the display thread; batches of one picture fill its
\* cache.  Startup may lose the tokens of all buffers but one.
SPECIFICATION FairSpec
CONSTANTS
  FLAGS_c = 2
  NumBuffers = 1
  FLAGS_batch = 1
  FLAGS_show = TRUE
  FrameCycle = 1
  SEM_VALUE_MAX = 3
  StartupWindow <- OneBufferLeft
  Failing = {1}
INVARIANT
  ShowTokens
PROPERTIES
  FrameScheduled
  CacheReleased
  DisplayStops
\* The program ends after Ctrl-C, or hangs in its shutdown.
CHECK_DEADLOCK FALSE
