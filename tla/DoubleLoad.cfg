SPECIFICATION Spec
CONSTANTS
  Checks = {1, 2, 3}
  References <- Images
  ThreadLimit = 2
  Lengths = {0, 1, 3, 4, 6}
  FrameSamples = 3
  MaxCrashes = 0
  None = None
INVARIANT LoadedOncePerProcess
CHECK_DEADLOCK FALSE
