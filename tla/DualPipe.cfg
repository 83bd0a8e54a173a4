\* Two decoders and two consumers on one pipe: more threads than the program
\* puts on one, so that signals and stolen buffers can interfere.
SPECIFICATION FairSpec
CONSTANTS
  Buffers = {b1, b2, b3}
  Producers = {p1, p2}
  Consumers = {c1, c2}
  NULL = NULL
INVARIANTS
  Ownership
  NoLostWakeup
PROPERTIES
  PoolSpec
  StoredIsDelivered
  DecoderServed
\* Destroy ends the pipe.
CHECK_DEADLOCK FALSE
