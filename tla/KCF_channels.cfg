\* Two channels, every frame a key frame.
SPECIFICATION Spec
CONSTANTS
  FLAGS_c = 2
  FLAGS_batch = 1
  KeyInterval = 1
  NumBuffers = 2
  NumKCFBuffers = 2
  NumSurfaces = 2
  FrameCycle = 2
  SEM_VALUE_MAX = 4
INVARIANT
  TargetsMatch
