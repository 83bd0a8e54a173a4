\* One layer of each type, over all batches, pictures and shapes in any order.
SPECIFICATION Spec
CONSTANTS
  ThresholdNum = 1
  ThresholdDen = 2
  num_batch_ = 2
  num_classes_ = 3
  background_label_id_ = 0
  num_priors_ = 4
  top_k_ = 3
  keep_top_k_ = 2
  confidence_threshold_ <- MCThreshold
  maxProposalCount = 5
  Decoded <- MCDecoded
  Batches <- MCBatches
  ProposalLayers = {"Proposal", "SimplerNMS"}
  num_proposals = 4
  pre_nms_topn_ = 3
  post_nms_topn_ = 2
  Pictures <- MCPictures
  ReorgNodes <- MCReorg
  RegionNodes <- MCRegion
  PriorNodes <- MCPrior
  ClusteredNodes <- MCClustered
  ArgMaxNodes <- MCArgMax
  CTCNodes <- MCCTC
  ResampleNodes <- MCResample
  PSROINodes <- MCPSROI
INVARIANTS
  KeptGreedily
  BestReported
  RegionsOfPicture
  GridsRight
  AnswersRight
\* A refused layer is not run, and a layer of a network runs once.
CHECK_DEADLOCK FALSE
