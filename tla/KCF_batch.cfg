\* The numbers of main.cpp, with the batch size the README runs it with.
SPECIFICATION FairSpec
CONSTANTS
  FLAGS_c = 1
  FLAGS_batch = 6
  KeyInterval = 6
  NumBuffers = 100
  NumKCFBuffers = 20
  NumSurfaces = 24
  FrameCycle = 6
  SEM_VALUE_MAX = 100
PROPERTY
  FrameTracked
\* The counterexample is a deadlock.
CHECK_DEADLOCK FALSE
