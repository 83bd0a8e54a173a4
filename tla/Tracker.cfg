\* Oblong regions with swapped sides, one too thin for a patch and one without
\* extent; the device fails in one step at most.
SPECIFICATION Spec
CONSTANTS
  Rois <- MCRois
  Surfaces <- MCSurfaces
  MaxFaults = 1
INVARIANTS
  PatchNotEmpty
  FeaturesFit
  CorrelationFits
  StagesInOrder
\* A failed creation may end the program.
CHECK_DEADLOCK FALSE
