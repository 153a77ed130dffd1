SPECIFICATION Spec
CONSTANTS
  ADAPTERS <- StubFirst
  Names = {"aria"}
  Requests = {1, 2, 3, 4}
  Ceilings = {}
  Scale = 2000
  None = None
  Workload <- GenerationRace
  Payments = {}
  Metered = FALSE
  ThreadLimit = 2
  MaxFaults = 0
  Price = 1
  Retirable = {}
PROPERTY RejectedNeverPasses
CHECK_DEADLOCK FALSE
