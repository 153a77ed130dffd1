SPECIFICATION Spec
CONSTANTS
  Checks = {1, 2, 3}
  References <- Images
  ThreadLimit = 2
  Lengths = {0, 1, 3, 4, 6}
  FrameSamples = 3
  MaxCrashes = 1
  None = None
INVARIANTS SimilarityTypeOK LeftoversExplained LoadsBounded SampledInVideo
PROPERTY ChecksEnd
CHECK_DEADLOCK FALSE
