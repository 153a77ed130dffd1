SPECIFICATION Spec
CONSTANTS
  ADAPTERS <- StubFirst
  Names = {}
  Requests = {1, 2}
  Ceilings = {}
  Scale = 200
  None = None
  Workload <- KeyRace
  Payments = {}
  Metered = FALSE
  ThreadLimit = 2
  MaxFaults = 0
  Price = 1
  Retirable = {}
INVARIANT IssuedKeysStayValid
CHECK_DEADLOCK FALSE
