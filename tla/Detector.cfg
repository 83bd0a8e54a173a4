\* Batches of two: slots are reused with another image.
SPECIFICATION FairSpec
CONSTANTS
  Images = {i1, i2}
  NoImage = NoImage
  num_batch_ = 2
INVARIANTS
  QueueMatchesBlobs
  PairedResults
  NeverThrows
PROPERTIES
  BlobUntouched
  ServiceSpec
  CallReturns
  AcceptedReported
