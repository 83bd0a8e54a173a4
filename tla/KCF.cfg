\* One channel.  Three buffers are just enough: a batch of two key frames
\* with a distance of two needs the frames 0, 1 and 2.
SPECIFICATION FairSpec
CONSTANTS
  FLAGS_c = 1
  FLAGS_batch = 2
  KeyInterval = 2
  NumBuffers = 2
  NumKCFBuffers = 3
  NumSurfaces = 4
  FrameCycle = 4
  SEM_VALUE_MAX = 4
INVARIANTS
  FramesIntact
  KeyFramesAnswered
  TargetsMatch
  ResultThere
PROPERTY
  FrameTracked
