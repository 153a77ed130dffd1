SPECIFICATION Spec
CONSTANTS
  ADAPTERS <- BothLive
  Names = {"aria"}
  Requests = {1, 2, 3}
  Ceilings = {}
  Scale = 2000
  None = None
  Workload <- PaidWorkload
  Payments = {"p1", "p2"}
  Metered = TRUE
  ThreadLimit = 1
  MaxFaults = 0
  Price = 1
  Retirable = {}
INVARIANT PaidCallsJournaled
CHECK_DEADLOCK FALSE
